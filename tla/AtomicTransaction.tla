--------------------------- MODULE AtomicTransaction ---------------------------
(***************************************************************************)
(* What a transaction of an attached database promises, without            *)
(* connections, pool or server: its writes are kept together until it      *)
(* ends, and what the session is told about the end decides what becomes   *)
(* of them.                                                                *)
(***************************************************************************)
CONSTANTS Sessions, Writes

VARIABLES
  durable,  \* writes that have been committed
  wrote,    \* what each session's transaction has written
  ended     \* transactions that wrote something, and what their sessions were told

vars == <<durable, wrote, ended>>

Outcomes == {"committed", "rolled_back", "failed"}

Init == durable = {} /\ wrote = [s \in Sessions |-> {}] /\ ended = {}

Unused(w) ==
  /\ w \notin durable
  /\ \A s \in Sessions : w \notin wrote[s]
  /\ \A t \in ended : w \notin t.writes

\* A statement that writes.
Write(s) ==
  /\ \E w \in Writes : Unused(w) /\ wrote' = [wrote EXCEPT ![s] = @ \cup {w}]
  /\ UNCHANGED <<durable, ended>>

\* A statement outside transactions.
WriteAlone ==
  /\ \E w \in Writes : Unused(w) /\ durable' = durable \cup {w}
  /\ UNCHANGED <<wrote, ended>>

\* Of a transaction that is said to be committed everything stays, of one that is rolled
\* back nothing; of one whose COMMIT has failed all or nothing.
Kept(s, outcome) ==
  CASE outcome = "committed"   -> {wrote[s]}
    [] outcome = "rolled_back" -> {{}}
    [] OTHER                   -> {wrote[s], {}}

End(s) ==
  /\ wrote[s] # {}
  /\ \E outcome \in Outcomes :
       /\ \E kept \in Kept(s, outcome) : durable' = durable \cup kept
       /\ ended' = ended \cup {[writes |-> wrote[s], outcome |-> outcome]}
  /\ wrote' = [wrote EXCEPT ![s] = {}]

Next == WriteAlone \/ \E s \in Sessions : Write(s) \/ End(s)

Spec == Init /\ [][Next]_vars
===============================================================================
