------------------------------ MODULE Mapping ------------------------------
(***************************************************************************)
(* What the Store interface of internal/store/store.go promises its        *)
(* callers, with the table, its shards, its locks and its counters left    *)
(* out: a Get answers with the entry of the last Put that took effect, or  *)
(* with nothing; nothing is ever answered past its deadline; and a         *)
(* deadline is at most one TTL away from the Put that set it.              *)
(***************************************************************************)
EXTENDS Integers

CONSTANTS
  Ids,      \* payload ids
  Entry,    \* what one masking operation leaves behind
  Workers,  \* request goroutines
  TTL,      \* lifetime of an entry
  Absent    \* the "not found" value

VARIABLES
  map,      \* id -> the entry remembered for it, with its deadline
  got,      \* worker -> the entry its Get in progress found
  hits,     \* Gets answered with an entry
  clock     \* the wall clock

vars == <<map, got, hits, clock>>

Init ==
  /\ map = [i \in Ids |-> Absent]
  /\ got = [w \in Workers |-> Absent]
  /\ hits = 0
  /\ clock = 0

\* A Put takes effect; it read the clock at some moment up to now.
Remember(i, e) ==
  /\ \E d \in 0 .. clock + TTL :
       map' = [map EXCEPT ![i] = [entry |-> e, expires |-> d]]
  /\ UNCHANGED <<got, hits, clock>>

\* Expiry, eviction and Delete: a remembered entry may go at any time.
Forget(i) ==
  /\ map[i] # Absent
  /\ map' = [map EXCEPT ![i] = Absent]
  /\ UNCHANGED <<got, hits, clock>>

\* The moment a Get reads the table.
Lookup(w, i) ==
  /\ got[w] = Absent
  /\ map[i] # Absent
  /\ got' = [got EXCEPT ![w] = map[i]]
  /\ UNCHANGED <<map, hits, clock>>

\* The Get answers with what it found, provided it is still alive.
Hit(w) ==
  /\ got[w] # Absent
  /\ got[w].expires > clock
  /\ got' = [got EXCEPT ![w] = Absent]
  /\ hits' = hits + 1
  /\ UNCHANGED <<map, clock>>

\* The Get answers "not found" although it found an entry: the entry is dead.
Stale(w) ==
  /\ got[w] # Absent
  /\ got[w].expires <= clock
  /\ got' = [got EXCEPT ![w] = Absent]
  /\ UNCHANGED <<map, hits, clock>>

Elapse ==
  /\ clock' = clock + 1
  /\ UNCHANGED <<map, got, hits>>

Next ==
  \/ \E i \in Ids, e \in Entry : Remember(i, e)
  \/ \E i \in Ids : Forget(i)
  \/ \E w \in Workers, i \in Ids : Lookup(w, i)
  \/ \E w \in Workers : Hit(w) \/ Stale(w)
  \/ Elapse

Spec == Init /\ [][Next]_vars
=============================================================================
