# Verification of httplock

httplock is a recording HTTP proxy. A client asks the API for a *token* (`uuid:…`), sends its
requests through the proxy with it, and asks for a *hash* of everything recorded. With the hash as
token a later build is answered from the recording alone. What has to be right is therefore:

- a saved hash names exactly what was recorded, completely, and never changes;
- a request is answered from the recording with the response that belongs to it;
- this holds although the HTTP servers run every request in a goroutine of its own on shared objects,
  transfers break off, blobs and index writes fail, and the process may stop at any time.

This directory models the parts of the program that carry these promises, checks them with TLC on
small instances, and proves the central ones with TLAPS for every instance.

## 1. Inventory

| component (source) | state | operations | interacts with | hard behaviour |
|---|---|---|---|---|
| Content addressing (`src/hasher/hasher.go`, `blobwriter.go`, `blobreader.go`) | a writer's `closed` flag, running hash, temporary file | `Write`, `Close`, `Hash`, `BlobOpen` | everything stores through it | the hash can be read before the blob is in place; a failing `Close` |
| Root tree (`internal/storage/root.go`) | `Root`, `Dir`, `DirEntry`, `File` objects with cached hashes | `Write`, `Link`, `Read`, `List`, `EntryHash`, `Save`, `Walk`, `DiffRoots` | blobs, proxy, API | lazy loading, hash invalidation, check-then-insert, all but map insertion unlocked |
| Storage backends and index (`filesystem.go`, `memory.go`) | `roots`, `index`, mutex, `index.json`, blobs | `RootCreate`, `RootCreateFrom`, `RootOpen`, `RootSave`, restart | Roots, API, proxy | crash during `writeIndex`, unlocked lookups, order of blob and index |
| Proxy response cache (`proxy.go`, `storage.go`, `reader.go` of `internal/proxy`) | four files per request in a Root; locals of each request | `serveWithCache`: lookup, upstream, recording, callback at body close | a Root, upstream, client | concurrent identical requests, broken transfers, partial failure, save in the middle |
| Request filter and request hash (`proxy.go`, `storage.go`) | none | `filterReq`, `storageGenReqHash`, `storageGenDirPath` | cache | which differences between requests count |
| CONNECT tunnel (`proxy.go`) | one hijacked connection, a channel | `handleConnect`, `connWait`, `listenList` | certificates, cache | who closes what, and how often |
| Certificates (`internal/cert/cert.go`) | CA, map of leaf certificates, serial number | `CAGen`, `CASet`, `LeafCert` | tunnel, API | shared map and counter without a lock |
| Import and export (`import.go`, `export.go`) | an archive; the Root it builds or walks | `Import`, `Export` | storage, Root | errors that are returned as nil, registration before verification |
| API handlers (`internal/api/api.go`) | none of their own | token, root and diff handlers | storage, Roots | several at once on one Root |
| Configuration, command line, templates, UI | read once | | | none |

What makes each component correct:

- *Root tree*: a cached hash is either empty or that of the content; no completed write is lost; a
  directory blob never precedes what it names; a readonly Root never changes; no nil pointer is
  followed; every operation ends.
- *Storage*: a hash in the index has its blobs; a hash token leads to a readonly Root of that content
  and no two tokens share a Root; a hash that was returned survives.
- *Proxy cache*: a readable `resp-head` implies the whole exchange; a recording can always be saved
  once it is quiet; a request is recorded once and replayed as recorded.
- *Request filter*: a recorded answer is given to those requests only that differ from the one it
  answered in what a filter names.
- *Diff*: a report names every path where two trees differ, no other, each once.
- *Certificates*: a client is shown a valid certificate for the name it asked for; each has a serial
  number of its own.
- *Tunnel*: a connection is closed once, not before its last response, and no goroutine is left behind
  when the client has gone.
- *Import and export*: an archive that lacks blobs or has them damaged brings no hash into the index
  that is not complete; an export finds all blobs of the hash it was asked for; what was exported
  arrives under the same hash; an import ends, and registers no other hash than it was asked for.

The hazards, each with its line and the properties aimed at it, are in `PROJECT.json`.

## 2. Modules

| module | what it is |
|---|---|
| `Merkle` | content addresses: a hash is the content it stands for |
| `RootTree` | one `Root` shared by goroutines, at the grain of the code's accesses to shared objects |
| `PathOrder` | `cmpPaths`, the order of paths |
| `DiffMerge` | abstract: what `DiffRoots` promises, the merge of two sorted lists of files |
| `DiffReport` | `DiffRoots` on two trees, with its iterators; implements `DiffMerge` |
| `RequestFilter` | `filterReq` and `storageGenReqHash`: which requests the recording takes for the same |
| `ResponseCache` | abstract: what a recording promises its clients |
| `ProxyCache` | `serveWithCache` and the four files of an exchange; implements `ResponseCache` |
| `RootIndex` | tokens, index, index file, mutex and restarts of the storage backends; export and import |
| `Archive` | `Export` and `Import` blob by blob, from one storage to another |
| `Certs` | the CA and `LeafCert` as called by many goroutines |
| `Tunnel` | CONNECT tunnels from the start of the program to its end; extends `Certs` |
| `MerkleProofs`, `RootTreeProofs`, `RootSerialProofs`, `RootIndexProofs`, `ArchiveProofs`, `DiffReportProofs`, `ProxyCacheProofs`, `TunnelProofs` | theorems, section 4 |
| `MC_RootTree`, `MC_DiffReport`, `MC_ProxyCache`, `MC_RootIndex`, `MC_Archive`, `MC_Tunnel` | instances for TLC |

The modules meet at narrow interfaces. `RootTree` is the detail of what `ProxyCache` takes as a map
from names to files with writers, and of what `RootIndex` takes as a set of recorded files whose
tree has a hash. `RootTree` has a writer's two-step close; the others take a close as one step.
`Archive` is the detail of the export and the import that `RootIndex` sets beside everything else.
`DiffReport` compares the trees whose hashes `RootTree` computes. A request inside a tunnel is an
action of `ProxyCache`; `Tunnel` knows only that it is answered, that the client leaves, or that
neither happens.

### Merkle and RootTree

Objects are indices into `dirs` (0 is nil). A `DirEntry` is a record in the `entries` of its `Dir`,
with the `File` it points to inside it: in the code a `File` is reached through one entry only.

| TLA+ | code |
|---|---|
| `rt`, `dirs` | `Root`, `Dir` with their cached `hash`, `root.go` |
| `wr`, `blobs`, `lost` | `blobWrite` objects by state (open, closed, stored, failed), blobs in place, blobs whose `closeFn` failed |
| `g[p]` | program counter, request, and locals of goroutine `p`; `stk` is the stack of `hashDir` or of the diff iterator |
| `sealed`, `saved`, `got`, `panicked` | observations, read by no guard |
| `GetDir` … `Arrive` | `getDir` with `loadRoot`: the check, the load and the assignment are separate steps |
| `Write`, `Link`, `Read`, `List`, `EntryHash` | the operations after `getDir` |
| `HashNext`, `HashEntry`, `HashDirDone`, `Hashed` | `hashDir` and `hashFile`, one entry per step |
| `DiffStart`, `NewDiffIter`, `DiffNext`, `DiffUp` | `DiffRoots` as it acts on one of its two Roots; the other Root is another instance |
| `CloseWriter`, `PublishBlob` | `blobWrite.Close`, in its two steps |

Grain. A step is one access to shared objects with what the goroutine does before its next one. These
steps are coarser than a Go scheduler could be:

- `GetDir` and `Walk`: a turn of the loop clears the hash of the directory, looks the name up, sees that
  the entry has no `Dir` and loads one (`root.go:304`–`:312`), and then, as for one that is there, clears
  the entry's hash; only the assignment of a loaded `Dir` is a step apart (`SetRootDir`, `SetDir`);
- `Write`: insertion of the entry, `BlobCreate` and the assignment of the writer (`root.go:260`–`:285`),
  which are under `Dir.mu`, but those who read the entry take no lock; the same of `Link`;
- `Read`, `EntryHash` and `HashNext`: the lookup of an entry with the body of `hashFile` and the
  assignment of the entry's hash (`root.go:346`–`:360`, `:384`–`:396`);
- `HashDirDone`: marshalling a directory and storing its blob (`root.go:365`–`:378`); `Hashed`: reading
  the hash of a directory and assigning it to its entry (`root.go:354`);
- `DiffNext`: the load of a directory and its assignment to the entry (`root.go:679`).

Finer steps would show more schedules of the same races: an entry whose `File` has no writer yet looks
like one that a failed `BlobCreate` left behind; a load may fail because a write has emptied the hash
after the check, which ends the operation as a missing blob does; a `Dir` that another goroutine put in
place may be replaced, as by `SetDir`. No property rests on one of these being a single step.

A racing access to a Go map may stop the process; in the
tree that is not modelled (nothing of it outlives the process), in `RootIndex` it is a restart.

### PathOrder, DiffMerge and DiffReport

A name is a number and a path a sequence of names; 0, less than any name, is the empty name that
`newDiffIter` and `next` put where a name is still to come. `DiffReport` is one call of `DiffRoots`.

| TLA+ | code |
|---|---|
| `Before` | `cmpPaths` |
| `NewDiffIter` | `newDiffIter`, one Root after the other |
| `Deleted`, `Added`, `Same` | the three cases of the loop, with the entry they append and the iterators to move |
| `NextEOF`, `NextUp`, `NextEntry` | `diffIter.next`: the stack is empty, a directory is done, the next entry in order (a file, a directory to go into, or one whose blob is missing) |
| `Returned` | `next` returns; the loop ends when both iterators were at their end in one round |

`DiffMerge` has no trees: two lists of files, each sorted by path, and the place each is at. `DiffReport`
implements it (`MergesWalks`) with the lists of files of its trees, and the place counted by the calls
of `next`. The correctness of the merge is then a theorem about lists of any length.

### RequestFilter, ResponseCache and ProxyCache

A request has a method, a url, header and query as functions from names to values, and a body; a filter
says for which requests it is and what it does with a header or a parameter of some name. `Sent` is the
copy that goes upstream, `Stored` the one that is recorded, `Key` what its hash and the directory of its
files keep of it.

`file[key][part]` is the writer that the file of that name points to, `Absent`, or `Hollow` (the empty
`File` left by a failed `BlobCreate`). A body is a number of chunks, so `[ans, n]` is the content of the
first `n` chunks of an answer, and as a `resp-head` the header of `ans` with the hash of that content.
An answer remembers what was sent upstream for it, so that `HitFits` can compare it with the request
that it is given to.

| TLA+ | code |
|---|---|
| `Struck`, `Filtered`, `Sent`, `Stored` | `filterReq` and the loop over hop-by-hop headers in `serveWithCache` |
| `Key` | `storageGenReqHash`, `storageGenDirPath`, with the headers they exclude |
| `Begin`, `GenReqHashFails`, `ReadHead`, `ReadBody` | `storageGetResp` |
| `Fetch` | the miss branch of `serveWithCache`: 502 when readonly, else `client.Do` |
| `Rehash`, `PutReqHead`, `CloseReqHead`, `LinkReqBody`, `PutRespBody` | `storagePutResp` |
| `Copy`, `CloseBody` | `io.Copy` from the tee reader and its `Close` |
| `PutRespHead`, `CloseRespHead` | the callback that writes the `resp-head` |
| `HashEntry`, `Save` | `EntryHash`, `hashDir` and `hashFile` on the token's Root |
| `Reopen` | a replay with the saved hash as token |

`hash[key][part]` is the hash in the entry of that file, once something has asked for it: a `Read`, an
`EntryHash` or a Save, also one that fails at another entry (`HashEntry`). `RootWrite` leaves it as it is
and `Save` prefers it, as the code does (`root.go:281`–`:285`, `:346`). A whole Save is one step here; how
it interleaves with writes is what `RootTree` is for.

`Reopen` replaces the recording by the saved one, since replaying clients use another Root object.

### RootIndex

`roots` maps tokens to Root objects, `index` is the index in memory, `indexFile` the file with a flag for
whether it is whole. `RootOpen` is two steps, because the code looks up without the mutex and then takes
it. `RootSave` is four: `Root.Save`, registration under the mutex, `os.Create` (which empties the file),
`Write`. Clients know the tokens that were handed out, the hashes that a save returned and those that
`rootList` shows, which are all in the index (`Known`). An import stores the directory and then each file
(`ImportDir`, `ImportFile`), stops at one that the archive lacks or whose content has another hash than
its name (that content is stored all the same, under its own hash), and saves the Root it made like any
other (`ImportRoot`); an export stores directories again as it walks. `Restart` stops the process at any
point and starts it with what `readIndex` finds; both backends are covered by the variable `kind`.

### Archive

One export and the imports of what it sent, into another storage. `ex` and `im` hold the stack of
`walkDir` and `importDir`, `tar` the archive that is being written and `arc` the one that arrived.

| TLA+ | code |
|---|---|
| `Report`, `WalkRoot`, `WalkEntry`, `WalkUp` | `Export`: the report, which loads every directory; then `Walk` with `fnDir` (hashes a directory, which stores it again, and copies the blob) and `fnFile` |
| `Arrive`, `ArriveCut`, `Bring` | the archive arrives as it was sent, with a blob missing or replaced, cut off, or is not of `Export`'s making |
| `ImportRoot`, `ImportEntry`, `ImportUp`, `ReadBlob` | `Import`, `importDir`, `importFile` |
| `ImportSave`, `ImportIndex` | `RootSave` of the Root that was built: its directory is stored again, the hash registered, the index file written; and the comparison after it |

An export that fails half way closes its archive properly, so `Arrive` also brings short archives.
Trees that another program wrote may have directories with more fields than httplock knows (`Foreign`):
they read well, but have another hash once httplock marshals them.

### Certs and Tunnel

`Certs` has the certificate map and the serial number that all calls of `LeafCert` share. The lookup,
`CreateCertificate`, the two halves of `serial.Add` and the assignment to the map are steps of their
own. A certificate is its serial number, name and end of validity, on a clock of ticks.

`tun[t]` is one connection with its two goroutines: `h` is where `handleConnect` is, `conn` where the
goroutine that the second HTTP server starts is, `cs` the length of the `listenList`, `closes` how
often the channel of `connWait` was closed.

| TLA+ | code |
|---|---|
| `StartServer`, `Signal`, `Shutdown` | `runServer` |
| `Connect`, `GotHostCert`, `Hijack`, `Wait` | `handleConnect`: the checks and `LeafCert`, hijacking and the 200 (either may fail; a failed `Hijack` goes unnoticed, `proxy.go:319` asks for `ok` again, and ends in a panic that the HTTP server recovers), the wait for the channel and the deferred calls |
| `Accept`, `ServeEnds` | `listenList.Accept` and `Close`, as `http.Server.Serve` calls them |
| `Handshake`, `GotLeaf` | the TLS handshake with `GetCertificate` |
| `LastResponse`, `Hangup` | the end of a connection |
| `ConnDone`, `ConnClose` | `connWait.Close`: it closes the channel and then the connection, which `handleConnect` may have closed and left in between |
| `PlainRequest`, `PlainRespond`, `PlainCancel` | a request without CONNECT, which `Shutdown` waits for |
| `MapRace`, `Abort` | two calls of `LeafCert` meet at the map, and Go stops the program |

### Mutants

Some definitions are marked "Mutant" and used by nothing. Each is a changed form of the definition that
follows it, as a bug in the code could make it; with it in place of the original the property named in
`PROJECT.json` fails. They show that each property depends on the code it is about.

## 3. Runs

| run | instance | shows |
|---|---|---|
| `RootSeq` | 1 goroutine; 2 writes (one per path), 1 read, 1 EntryHash, 2 Saves, 1 diff; new Root or one created from a hash | in any order of these calls and of the closing of writers, `SaveCaptures`, `LiveKeeps`, `DirCacheCoherent` |
| `RootConc` | 2 goroutines, with fairness; write, Link, read and Save on a new Root; 2 writes, Save and one fault on a Root made from a hash; refused write, read, List, Save and diff on one opened by its hash | `TypeOK`, `StoreClosed`, `StoreComplete`, `ReadHonest`, `NoPanic`, `Frozen`, `ReadBack`, `ReplayImmutable`, `OpsFinish` |
| `Diff` | every pair of more than 800 trees, up to 3 names deep, with empty directories and names that are a file here and a directory there; one blob missing or none | `ReportExact`, refinement `MergesWalks`, `DiffEnds` |
| `CacheSame` | 2 clients, 3 requests of two kinds that have one key; 1 request body that cannot be hashed, 1 failing `BlobCreate` of a `resp-head`, 1 broken transfer, 1 Save | `TypeOK`, `HitFits`, `HeadLast`, `QuietSaveable`, `ReplayServes` |
| `CacheOwn` | 2 clients whose requests have keys of their own but the same url, 3 requests in all, 1 failing `BlobCreate` (not of a `resp-head`), 1 broken transfer, 1 entry hashed between, 1 Save | `HitFits`, refinement `RecordsOnce` |
| `IndexCrash` | 2 goroutines; 2 tokens (one from a hash), 1 recording, 2 saves, 1 export, 1 import of any archive, 1 failing index write, 1 restart; both backends | `TypeOK`, `NamesApart`, `IndexComplete`, `ExportFinds`, `AckedOnDisk` |
| `Archive` | an empty tree, one with a shared directory, one of three levels; a blob missing from the storage or none; 2 imports of the archive, whole, short or damaged, or of a foreign one; 1 failing `BlobCreate`, 1 blob that cannot be put in place, 1 index file that cannot be written | `TypeOK`, `IndexWhole`, `RoundTrip`, `RegistersAsked`, `ImportEnds` |
| `Tunnel` | 2 connections to different hosts; the first client asks for the second's host by name, the second for none; certificates valid for 2 ticks | `TypeOK`, `SerialsApart`, `ClosedOnce`, `NoCutOff`, `CertFits`, `TunnelsEnd` |

Four runs end in a violation, and each is a finding:

| run | what it finds |
|---|---|
| `RootRewrite` | write, Save, write again, Save: the second hash still holds the first content (`root.go:285`, `root.go:346`) |
| `RootLost` | two first writes below one new directory: one of them is lost (`root.go:307`–`333`) |
| `CacheCut` | a transfer cut short is recorded as the response |
| `IndexLoss` | a process stopped inside `writeIndex` has lost every hash |

The passing runs avoid these by their instance, never by a changed definition: `RootSeq` writes each
path once (with the content that a Root created from a hash already has there) and has one goroutine,
`RootConc` does not check `SaveCaptures` or `LiveKeeps`, `CacheOwn` gives the clients different
requests, and `AckedOnDisk` excludes an index file that is not whole.

The same models show, under other quotas, more consequences that have no run of their own: `SaveCaptures`
also fails for one write racing with a first of two Saves (`hashDir` at `root.go:354` undoes the
invalidation); `LiveKeeps` also fails for one write racing with a diff (`root.go:679` replaces directories
in memory); `NoPanic` fails for a diff of a Root that is written to and saved meanwhile: the write empties
the hash of a directory's entry, the diff fails to load it and leaves a nil pointer behind (`root.go:679`
assigns `entry.dir` before it looks at the error), and the Save follows it, which the comment at
`root.go:350` rules out (15 steps; the new Root of `RootConc` is not diffed); a failing `BlobCreate` can
leave an entry without writer or hash, after which no Save succeeds until the file is written again
(`root.go:281`), so `QuietSaveable` excepts it; `IndexComplete` fails with one blob that cannot be put in
place (`root.go:374` ignores the error of `Close`), so `IndexCrash` has none; a request whose body cannot
be stored for hashing is recorded a second time (`RecordsOnce` with a `hashFault`); two overlapping
requests of one key can leave a saved head beside the body of the other (`RecordsOnce` with the requests
of `CacheSame`); when a `resp-head` could not be created and the body has been hashed by a Save or a look
at it, the request is recorded a second time, and the next Save takes the new head with the hash of the
old body, for the reason of `RootRewrite` (`root.go:285`, `:346`; `RecordsOnce` in `CacheOwn` with a
`headFault` and two requests); an import whose index file cannot be written ends with an error and has
registered its hash in memory (`filesystem.go:172`–`:177`), which `RegistersAsked` excepts; a hash that
`rootList` shows may be one whose save failed; and serial numbers repeat once two calls of `LeafCert`
overlap, which `SerialsApart` excepts.

**Bounds.** `Quota` bounds how many operations of each kind start and how many failures happen; `Chunks`
the chunks of a body, `Horizon` the clock. Two goroutines and two paths under one directory give every
pair of operations on one directory, one entry or two entries; one level of directory below the root
exercises each case of `getDir`, and one more would repeat them. `Diff` needs no concurrency and has
deeper trees instead: two names, and the third level lets one iterator climb two directories in one call.
One answer per thing sent upstream is enough for `HitFits`, as an answer carries what it answers; where
the answer itself may change (`CacheCut`) there are two. The requests of `CacheSame` differ in a header a
filter ignores, in a parameter that one strips, and in hop-by-hop and excluded headers, those of
`CacheOwn` also in a parameter with the name of an ignored header; all have a header with the name of a
stripped parameter. Two files make four hashes in `RootIndex`, enough for tokens that diverge from one
hash and for archives that lack one file, both or none; one restart separates two lives of the index file.
In `Archive` the second import meets what a failed first one left behind. A certificate that is valid for
two ticks, with a margin of one and one tick of the clock, is seen fresh and too old. Symmetry is used for
goroutines (with files in `RootIndex`), never in a run with a liveness property.

**Deadlock** is checked for `RootTree` and `DiffReport`, where `Finished` and `Returns` are the only
ways to end. In `ProxyCache`, `RootIndex`, `Archive` and `Tunnel` the check is off: once the quota is
used, or the program has exited, the system has nothing more to do.

**Fairness.** The Go scheduler runs a goroutine that is ready, and that is all that is assumed. `FairSpec`
of `RootTree` has weak fairness of `Step(p)` for each goroutine: nothing inside an operation waits
(`Dir.mu` is held across no step). `DiffReport` has it of its one goroutine. `Tunnel` has it of the steps
of a tunnel's goroutines that wait for no peer (`TunnelStep`). `Archive` has it of an import, whose
archive is on disk before it starts; an export waits for its client and has none. New operations, the
closing of writers and what clients and upstreams say or do get no fairness: an upstream may be silent for
ever, and `TunnelsEnd` holds all the same. That a signal ends the program is not stated: `Shutdown` has a
deadline, and nothing else could be assumed or shown.

## 4. Proofs

All theorems hold for every value of the constants that satisfies the named assumptions of the modules.

**`MerkleProofs`** is about `Resolve`, for paths of any length. It is a fold, and a fact about every
number of its steps needs induction. The theorems of the library that take a predicate cannot be
instantiated here, but their form for sets can: a set of numbers that has 0 and with each number the
next has them all (`NatSteps`, from the well-foundedness of the numbers).

- `PathsStayInside`: a set of blobs that is closed (`Closed`: with each directory it has what that
  names) has all that a path leads to from one of its members.
- `BeforeTotal`: `cmpPaths` tells any two different paths apart. That `Before` is irreflexive and
  transitive are lemmas.

**`RootTreeProofs`**, for any goroutines, paths, contents, links, starts and quotas:

- `TypeCorrect`: `Spec => []TypeOK`. Besides types, `TypeOK` says that every pointer is nil or leads to
  an object, that the frames of `hashDir` still name existing entries, and that no hash kept in a Root,
  Dir, DirEntry or File is that of a writer still open.
- `StoreNeverDangles`: `Spec => []StoreClosed`. A stored directory blob names only hashes that are
  stored, in the hands of a closed writer, or lost by a failed store.

The inductive invariant is `IInv == TypeOK /\ StoreClosed`. `StoreClosed` alone is not inductive:
`HashDirDone` stores the hashes that the entries hold, and only `TypeOK` says that these are in `Ref`.
`TypeOK` in turn needs `StoreClosed`, since `LoadDir` copies hashes out of stored blobs into new
entries. `Ref` only grows, which is a lemma of its own. There is one lemma `…Keeps` per action.

Then what a Root holds:

- `ReplayFrozen`, `ReplayNeverChanges`, `ReplayReadsBack`: `Frozen` is an invariant, `ReplayImmutable`
  and `ReadBack` hold of every step.
- `StoreEndsComplete`, `ReadsAreHonest`: `StoreComplete` and `ReadHonest` are invariants.
- `NeverPanics`: `NoPanic` is one if no Root that is written to is diffed (`NoDiffs`; with a diff it is
  not, section 3). Diffs of a replay are covered.

`Frozen` needs to know what the goroutines are about to assign. `Replay` says of each loaded directory
that it is the one its entry's hash names, of an entry that it is as its blob has it, and of a goroutine
inside `getDir` that it is where the first names of its path lead to (`Reached`); with the lemmas of
`MerkleProofs` that also gives `ReadBack`, as the end of the walk is what `Resolve` says.
`StoreComplete` follows from `StoreClosed` once a failed writer is known to be counted in `lost`
(`FailedLost`).
`ReadHonest` is about places: `Honest` says that there is an assignment `loc` of each Dir in memory to a
path, and a set `fit` of pairs of blob and path, such that whatever stands at a path was written there.
A Dir that a racing goroutine has replaced is in no tree any more, but still has its place, and this is
why the assignment has to be part of the invariant and cannot be read off the tree.
`NilSafe` says that an entry without pointer has the hash of a blob of the tree that the Root was opened
with, which is complete, so that the load that follows succeeds; the frames of `hashDir` stay valid, as
a directory once loaded is not unloaded (`LoadsStay`).

**`RootSerialProofs`**, for one goroutine (`OneGoroutine`) and one content for each path (`OneContent`), in
a Root of any origin, with any operations in any order and any close of a writer between their steps:

- `CachesCoherent`: `DirCacheCoherent` is an invariant. What `hashDir` and a diff take from a directory in
  memory instead of hashing it again is the hash of what is in it.
- `SaveKeeps`: `SaveCaptures` is one too. The tree that a Save returns has, for each path, what was
  complete there when the Save began.
- `NothingLost`: so is `LiveKeeps`. Whenever nothing is going on, each path leads to what was last
  written there.

Both hypotheses are needed: without the first `hashDir` can keep the hash it computed before another
goroutine's write cleared it (and see `RootLost`), and without the second a file is written again below a
hash that stays (`RootRewrite`). The last two theorems also assume `FilesOnly`, that no path of a file is
a directory in the tree that the Root is opened with: the model has what `Resolve` finds there for the
content of the path, and that of a directory changes with the files below it. `RootSeq` has constants that
satisfy all three. The invariant of `CachesCoherent` is `IInv`, `Honest` and two parts more.
`ContentsOnly` says that what was written to a path, and what a writer is writing to it, is a content of
that path. `CacheInv` is about the shape of the memory and about the goroutine: no Dir is below itself
(`Deeper`) and none is in two places (`Apart`), so a write to one place changes what is below no other;
each kept hash is right, and is that of a tree whose files all have their hash (`Coherent`); a blob of a
directory has all its hashes (`BlobsFull`). Of the goroutine `CacheLocal` says that a write has cleared
the kept hashes on its way down (`Clear`), that a directory that was just loaded and hangs nowhere yet is
as its blob (`Fresh`), and that the directories on the stack of `hashDir` hang below one another, without
a hash yet, while what it has seen has one (`HashStk`). A step is then one of few changes of the heap:
none, an entry set, a directory loaded, an empty one made (`SetsEntry`, `LoadsDir`, `Edited`, `Grafted`),
and for each one lemma says that the shape and the hashes survive it.

`LiveKeeps` and `SaveCaptures` are about moments when nothing is half done; `KeepInv` says what they rest
on in between. Of each path that was written, linked or in the tree at first (`Held`) it says that it
leads to its content (`Chain`): through directories in memory, whose entries are there and whose
last one has or will have a hash (`ChainIn`), and from the first directory that is not loaded through blobs
alone (`HoldsAt`). `ContentsOnly` and `Honest` make that hash the content of the path. When a directory
is loaded, a step of the way moves from the blob to the memory; when one is hashed, `Coherent` gives the
blob that holds what is in memory below it (`MemHolds`), and thus what Save returns. `KeepLocal` has what
the goroutine relies on: `getDir` is on the way of its path, and a Save or a diff that goes by a kept
hash goes by that of a full tree. `LiveHash` is a recursive function; that it exists, and what one
step of it does, is proved by induction over the names of the path (`LivesExist`, `LiveSteps`), and
`LiveChain` follows it along the way. That it never takes a directory for a file needs `PlainDirs`: an
entry of kind directory has no File.

**`RootIndexProofs`**, for any goroutines, files, backends and quotas, with restarts at any point:

- `IndexTypes`, `NamesStayApart`, `AckedStaysOnDisk`: `TypeOK`, `NamesApart` and `AckedOnDisk` are
  invariants.
- `IndexAlwaysComplete`, `ExportAlwaysFinds`: `IndexComplete` and `ExportFinds` are, if every blob can
  be put in place (`Quota["blobFault"] = 0`; otherwise they are not, section 3).

`IInv` joins types, `NamesApart` and what each goroutine knows at its place (`Locals`): a goroutine that
goes to export holds a readonly Root of the hash in its token, although it found it before it took the
mutex. `Indexed` says that a hash that is being saved is in the index before the file is opened and that
the index never has less than what was returned. `Complete` follows the blobs: those of every hash that
is in the index, in a Root, or on its way from a Save to the index.

**`ArchiveProofs`**, for trees of any shape and depth, any archives and any number of imports:

- `ArchiveTypes`, `IndexStaysWhole`, `ExportsComeBack`: `TypeOK`, `IndexWhole` and `RoundTrip` are
  invariants.
- `ImportsRegisterAsked`: `Spec => RegistersAsked`. An import registers the hash it was asked for and no
  other, unless what it read is not as httplock writes it; when it fails, nothing, unless only the index
  file could not be written. It needs that an import gets to its save only with a directory as its root
  (`ImportInv`), which, written as httplock does, hashes back to its name (`MarshalledSame`).

Both walks keep one promise, `Owed`: of each directory on the stack, what has been taken is dealt with
or is the next directory on the stack. What is dealt with is a closed set, so that when the walk is at
its end it has, by `PathsStayInside`, the whole tree. `ExportInv` has such a set `E` inside the archive,
`ImportInv` a set `D` for the import that is running and a set `C` for all that was registered. An
import of an unharmed archive never leaves `E`, hence cannot fail (`CleanBlob`). The assumption of
`Archive` is what makes a hash in `Trees` a tree as httplock stores it, and that no file content reads
as a directory; `DirEntry`s whose kind and hash disagree would be archives of neither origin.

**`DiffReportProofs`**, for any trees, of any number, depth and shape, and any missing blobs:

- `DiffReportsExactly`: `Spec => []ReportExact`.

The merge is that of `DiffMerge`, below, but its lists of files are now what an iterator comes to as it
goes down and up a tree. `OnWay` says that the stack holds the directories that the path leads through
(`Reached`), and that what remains of each comes after the name in the path. From these alone it follows
which files are still to come (`Ahead`), and that they come after the path (`AheadAfter`). Going into a
directory, leaving one, or stopping at a file keeps this set, but for the file (`EnterDir`, `LeaveDir`,
`EnterFile`). So `next` changes nothing of what is still to be compared (`Pend`), and each round of the
loop takes its first path away (`MergedNext`). `Merged` is `Behind`, `ReportBehind` and `Passed` for
`Pend`. The assumption of `DiffReport` is that of trees as httplock writes them.

The same module has `ReportsExactly`, `M!Spec => []M!Exact`, about the merge by itself: `M` is `DiffMerge`
with constants and variables of its own, two sorted lists of files of any length. Its report is true, in
order, and complete once it is done.

`Exact` speaks of the end; the invariant speaks of every round: what one walk has passed comes before
all that is still to come in the other (`Behind`), the report comes before all of it (`ReportBehind`),
and a file that was passed is in the report or the same in both (`Passed`). `Behind` makes an entry
"deleted" true when it is made, as the other walk can no longer have the path. It rests on `Before`
being transitive and total, which is proved for paths of any length.

**`ProxyCacheProofs`**, for any clients, requests, filters, answers, body lengths and quotas:

- `KeyFits`: what is sent upstream for a request agrees with any other request of the same key in all
  that no filter names.
- `CacheTypes`, `HeadComesLast`, `HitsFit`: `TypeOK`, `HeadLast` and `HitFits` are invariants.
- `QuietSaves`: `QuietSaveable` is one. It says of itself that no `BlobCreate` failed so far.
- `ReplaysServe`: `Spec => ReplayServes`.
- `RecordsEachOnce`: `Spec => RecordsOnce`, the refinement of `ResponseCache`, if two clients never make
  requests of one key, every request can be hashed and every `resp-head` created (`OwnKeys`; otherwise it
  is not one, section 3) and what stands for no response is none (`NoneDiffers`).

The inductive invariant adds to the properties the locals of each request (`Locals`), the files it has
put so far (`Placed`), that a writer is in the hands of one request that knows what it wrote (`Writers`)
and an open one in those of some (`InUse`), and that what is recorded under a key answers a request of
that key (`Origin`, `HitOrigin`), from which `KeyFits` gives `HitFits`. `HeadLast` needs `Placed`, as
a head is put last by one client but the files may be replaced by others. `QuietSaves` adds `Whole` (no
file is hollow as long as no `BlobCreate` failed), `ReplaysServe` adds `Replayed` (what was saved stays sealed).
`RecordsEachOnce` adds `Once`: under each key the sealed head is that of the sealed body (`Settled`), and
each client knows what is in the files of its request and whose its open writer is (`Exchange`). Save takes
the hash in an entry before that of its file, so these must agree for the two files of a response
(`Clean`): no file is replaced once it is closed, as a closed body has its head, or a client about to
write it (`Bodies`). A step
touches the files of one request and one open writer (`Touches`), hence no other client's and nothing
that was saved, which is sealed. `CloseRespHead` is then the abstract `Record`, a `ReadBody` that finds
its file `Hit`, `Save` `Save`, `Reopen` `Replay`, and every other step changes nothing.

**`TunnelProofs`**, for any tunnels, hosts, names, ages and length of time:

- `TunnelTypes`, `ChannelClosedOnce`, `NeverCutOff`, `ShownFits`, `SerialsStayApart`: `TypeOK`,
  `ClosedOnce`, `NoCutOff`, `CertFits` and `SerialsApart` are invariants.

`Phase` is the state chart: where the two goroutines of a tunnel can be together, with the listener,
the channel and the connection. `ClosedOnce` and `NoCutOff` follow from it; neither is inductive, since
`Wait` is justified by what `conn` was when the channel was closed. That channel and connection are closed
in two steps is why `NoCutOff` speaks of a goroutine that has come to the end of serving, not of one that
has ended. `Made`, `Asked` and `Kept` follow a
certificate from the call to the handshake. `Serials` says who is between signing and counting as long
as no two calls overlapped.

**Only model-checked**: the refinement `MergesWalks`, whose mapping counts the files of a tree, where
`DiffReportsExactly` says the same of the report itself; and liveness (`OpsFinish`, `DiffEnds`,
`ImportEnds`, `TunnelsEnd`), which this prover cannot reach.

## 5. Not modelled

- `Walk` and `report` on a Root that others write to: `Archive` has them on a Root of their own, and in
  `RootIndex` an export is one step. `ListHashes` is called from nowhere.
- The format of archives. A file too short for one and an unknown version (`import.go:53`, `:73`) are
  reported as imported like a hash that the archive does not list (`import.go:94`, in `Archive`'s
  `Import`): nothing is imported and the caller is told it was.
- The export of a foreign tree: only trees as httplock writes them are exported in `Archive`.
- A file whose `Close` fails: the blob is published all the same, and the caller has its error.
- Query parameters that do not parse: `Query()` drops them, so they are neither hashed nor filtered,
  while the url that goes upstream keeps them if no filter changes it.
- `tokenSave` with a token that cannot be opened, which panics on a nil Root and is recovered by gin.
- `CARead`, which nothing calls, `CAGetPEM`, which only reads, and all cryptography.
- Blob and directory bytes, header contents, status codes, log messages, `Used` timestamps.
- Loss of written files by the operating system at a power failure; a restart is that of the process.
- Configuration, flags, templates, user interface, generated API documentation: no changing state.

## 6. Plan

What could come next: Walk and `report` as further operations of `RootTree`; blobs byte by byte, with
short writes and the temporary files.
