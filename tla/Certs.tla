-------------------------------- MODULE Certs -------------------------------
(***************************************************************************)
(* The certificates of internal/cert/cert.go.  Every CONNECT and every TLS *)
(* handshake calls LeafCert in its own goroutine; the calls share the      *)
(* serial number and the map of certificates, with no lock.  A certificate *)
(* stands for its serial number, its name and the time it is valid until.  *)
(***************************************************************************)
EXTENDS Integers

CONSTANTS
  Callers,   \* goroutines that call LeafCert, one call each at a time
  Names,     \* host names
  Age,       \* leafMaxAge, in ticks of the clock
  Margin,    \* a certificate is made anew when it is not valid for this much longer
  Horizon,   \* the clock stops here
  None

ASSUME CertAssumption ==
  /\ Age \in Nat /\ Margin \in Nat /\ Horizon \in Nat /\ Margin < Age
  /\ None \notin Names

VARIABLES
  ca,       \* the CA certificate, None before CAGen
  leafs,    \* name -> its certificate in the map, or None
  serial,   \* the next serial number, counted from the first
  now,      \* the clock
  call      \* per caller: its call of LeafCert [at, name, began, old, cert]

\* Observations
VARIABLES
  used,     \* serial numbers of the certificates signed so far
  repeated, \* one was used twice
  overlap   \* some call signed while another was between signing and counting up

certObs  == <<used, repeated, overlap>>
certVars == <<ca, leafs, serial, now, call, certObs>>

NoCall == [at |-> "none", name |-> None, began |-> 0, old |-> 0, cert |-> None]

Certificate(name, until) == [serial |-> serial, name |-> name, until |-> until]

\* CreateCertificate reads the serial number that all calls share.
Sign == used' = used \union {serial} /\ repeated' = (repeated \/ serial \in used)

\* Definitions marked "Mutant" are changed forms of the one that follows, which a
\* bug in the code could have; nothing uses them.

\* Mutant: the serial number of the CA is used again.
CAGenUncounted ==
  /\ ca = None
  /\ ca' = Certificate("CA", Horizon) /\ Sign
  /\ UNCHANGED <<leafs, serial, now, call, overlap>>

\* CAGen, which the program calls once before any goroutine starts.
CAGen ==
  /\ ca = None
  /\ ca' = Certificate("CA", Horizon) /\ Sign
  /\ serial' = serial + 1
  /\ UNCHANGED <<leafs, now, call, overlap>>

-----------------------------------------------------------------------------
(* LeafCert of one name *)

Called(p)   == call[p].at # "none"
Answered(p) == call[p].at = "done"

LeafCert(p, name) ==
  /\ ~Called(p)
  /\ call' = [call EXCEPT ![p] = [NoCall EXCEPT !.at = "lookup", !.name = name, !.began = now]]

Hand(p, cert) == call' = [call EXCEPT ![p].at = "done", ![p].cert = cert]

\* Mutant: expiry is not looked at.
CachedForever(p) ==
  IF leafs[call[p].name] # None THEN {leafs[call[p].name]} ELSE {}

\* A certificate in the map will do when it is valid for more than the margin.
Cached(p) ==
  LET cert == leafs[call[p].name]
  IN IF cert # None /\ call[p].began + Margin < cert.until THEN {cert} ELSE {}

Lookup(p) ==
  /\ call[p].at = "lookup" /\ ca # None
  /\ \/ \E cert \in Cached(p) : Hand(p, cert)
     \/ Cached(p) = {} /\ call' = [call EXCEPT ![p].at = "sign"]
  /\ UNCHANGED <<ca, leafs, serial, now, certObs>>

\* An error: there is no CA, or no key or no certificate could be made.
LeafFails(p) ==
  /\ call[p].at = IF ca = None THEN "lookup" ELSE "sign"
  /\ Hand(p, None)
  /\ UNCHANGED <<ca, leafs, serial, now, certObs>>

SignLeaf(p) ==
  /\ call[p].at = "sign" /\ Sign
  /\ call' = [call EXCEPT ![p].at = "count",
                          ![p].cert = Certificate(call[p].name, call[p].began + Age)]
  /\ overlap' = (overlap \/ \E q \in Callers : call[q].at \in {"count", "add"})
  /\ UNCHANGED <<ca, leafs, serial, now>>

\* serial.Add, a read and a write.
ReadSerial(p) ==
  /\ call[p].at = "count"
  /\ call' = [call EXCEPT ![p].at = "add", ![p].old = serial]
  /\ UNCHANGED <<ca, leafs, serial, now, certObs>>

WriteSerial(p) ==
  /\ call[p].at = "add"
  /\ serial' = call[p].old + 1
  /\ call' = [call EXCEPT ![p].at = "store", ![p].old = 0]
  /\ UNCHANGED <<ca, leafs, now, certObs>>

StoreLeaf(p) ==
  /\ call[p].at = "store"
  /\ leafs' = [leafs EXCEPT ![call[p].name] = call[p].cert]
  /\ Hand(p, call[p].cert)
  /\ UNCHANGED <<ca, serial, now, certObs>>

LeafStep(p) ==
  \/ Lookup(p) \/ LeafFails(p) \/ SignLeaf(p)
  \/ ReadSerial(p) \/ WriteSerial(p) \/ StoreLeaf(p)

\* Go ends the program when it notices that a map is written and used at once.
MapRace ==
  \E p, q \in Callers : /\ p # q /\ call[p].at = "store"
                        /\ call[q].at \in {"lookup", "store"}

Tick ==
  /\ now < Horizon /\ now' = now + 1
  /\ UNCHANGED <<ca, leafs, serial, call, certObs>>

\* NewCert.
CertInit ==
  /\ ca = None /\ leafs = [n \in Names |-> None] /\ serial = 0 /\ now = 0
  /\ call = [p \in Callers |-> NoCall]
  /\ used = {} /\ repeated = FALSE /\ overlap = FALSE

\* The program has ended: only the time goes on.
CertExit ==
  /\ ca' = None /\ leafs' = [n \in Names |-> None] /\ serial' = 0 /\ UNCHANGED now
  /\ call' = [p \in Callers |-> NoCall]
  /\ used' = {} /\ repeated' = FALSE /\ overlap' = FALSE

-----------------------------------------------------------------------------
(* Properties *)

CertSet == [serial : Nat, name : Names \union {"CA"}, until : Nat]

CertsOK ==
  /\ ca \in CertSet \union {None}
  /\ leafs \in [Names -> CertSet \union {None}]
  /\ serial \in Nat /\ now \in 0..Horizon
  /\ call \in [Callers -> [at : {"none", "lookup", "sign", "count", "add", "store", "done"},
                           name : Names \union {None}, began : 0..Horizon, old : Nat,
                           cert : CertSet \union {None}]]

\* Each certificate gets a serial number of its own, that of the CA included, as long as
\* no two calls of LeafCert overlap; after an overlap numbers may repeat.
SerialsApart == repeated => overlap
=============================================================================
