--------------------------- MODULE ResponseCache ----------------------------
(***************************************************************************)
(* What a recording promises its clients, without files, writers or steps: *)
(* a request is recorded at most once, every later identical request gets  *)
(* that very recording, and a saved recording can be replayed but no longer *)
(* grows.  ProxyCache is shown to implement it.                            *)
(***************************************************************************)
CONSTANTS Keys, Responses, None

VARIABLES
  rec,      \* key -> the response recorded for it, or None
  kept,     \* the recording as last saved
  replay,   \* the recording was opened by its hash
  hit       \* the last response given from the recording: [key, resp]

vars == <<rec, kept, replay, hit>>

Empty == [k \in Keys |-> None]

Init == rec = Empty /\ kept = Empty /\ replay = FALSE /\ hit = [key |-> None, resp |-> None]

Record(k) ==
  /\ ~replay /\ rec[k] = None
  /\ rec'[k] \in Responses
  /\ rec' = [rec EXCEPT ![k] = rec'[k]]
  /\ UNCHANGED <<kept, replay, hit>>

Hit(k) ==
  /\ rec[k] # None
  /\ hit' = [key |-> k, resp |-> rec[k]]
  /\ UNCHANGED <<rec, kept, replay>>

Save == ~replay /\ kept' = rec /\ UNCHANGED <<rec, replay, hit>>

Replay == ~replay /\ rec' = kept /\ replay' = TRUE /\ UNCHANGED <<kept, hit>>

Next == (\E k \in Keys : Record(k) \/ Hit(k)) \/ Save \/ Replay

Spec == Init /\ [][Next]_vars
=============================================================================
