----------------------------- MODULE MCService -----------------------------
(* The pipeline with the life of the process, and the cells it counts in.   *)
(* They share nothing but the call of Observe, so a behaviour runs one of   *)
(* the two and leaves the other where it started.                          *)
EXTENDS Service, Metrics

ASSUME TheDrainIsLongEnough == DeadlinesFitTheDrain

VARIABLE subject

MCInit == Init /\ MetricsInit /\ subject \in {"requests", "cells"}
MCNext ==
  /\ UNCHANGED subject
  /\ \/ subject = "requests" /\ Next /\ UNCHANGED metrics
     \/ subject = "cells" /\ MetricsNext /\ UNCHANGED vars
MCSpec == MCInit /\ [][MCNext]_<<vars, metrics, subject>>
MCFairSpec == MCSpec /\ (subject = "requests" => Fairness)
=============================================================================
