--------------------------- MODULE MemStoreBytes ---------------------------
(* The byte counter of the store against the sum over its table. *)
EXTENDS MemStoreProperties, Functions

SizeOf(i) == IF m[i] = Absent THEN 0 ELSE m[i].size
Sizes == [i \in Ids |-> SizeOf(i)]

\* What an actor in the middle of an operation still owes to, or has already
\* taken from, the byte counter.
Unsettled(a) ==
  IF pc[a] \in {"dropEntry", "dropBytes", "putDropEntry", "putDropBytes"} THEN loc[a].cut
  ELSE IF pc[a] = "putGrow" THEN 0 - SizeOf(loc[a].id)
  ELSE IF pc[a] = "putStore" THEN loc[a].rec.size - SizeOf(loc[a].id)
  ELSE 0
BytesInHand == [a \in Actors |-> Unsettled(a)]

\* The byte counter is the sum of the live sizes up to the operations in
\* flight: no interleaving of replacement, eviction, expiry and Delete lets it
\* drift, so it is exact whenever the store is at rest (Stats.Bytes).
BytesAccounted == bytes = SumFunction(Sizes) + SumFunction(BytesInHand)
=============================================================================
