----------------------------- MODULE CustomSync -----------------------------
(***************************************************************************)
(* How the user-defined types, labels and dictionaries of a configuration   *)
(* reach the detectors: Engine.syncCustom and applyCustom of               *)
(* internal/engine/engine.go.  Every request compares the live             *)
(* configuration with the last one published and, when they differ,        *)
(* publishes it itself, in four separate atomic stores and without a lock. *)
(* Slip_... marks a mistake the code could have made, not a part of it.     *)
(***************************************************************************)
EXTENDS Integers

CONSTANTS
  Workers,      \* goroutines in Process, Mask or the debug endpoint
  MaxChanges    \* bound: configurations applied after the first

ASSUME ChangesAssumption == MaxChanges \in Nat

\* Manager.Apply stores a fresh clone, so no configuration pointer comes back.
Versions == 0 .. MaxChanges

VARIABLES
  cfg,                  \* the live configuration (Manager.cur)
  types, labels, dicts, \* the snapshots of detect, mask and dict
  applied,              \* Engine.applied
  pc, cur,              \* worker -> next step, the configuration it loaded
  whole                 \* history: the last publication ran with no other beside it

snapshots == <<types, labels, dicts>>
vars == <<cfg, snapshots, applied, pc, cur, whole>>

\* New publishes the configuration it is given before any request.
Init ==
  /\ cfg = 0 /\ types = 0 /\ labels = 0 /\ dicts = 0 /\ applied = 0
  /\ pc = [w \in Workers |-> "idle"]
  /\ cur = [w \in Workers |-> 0]
  /\ whole = TRUE

Publishing == {w \in Workers : pc[w] \in {"types", "labels", "dicts", "applied"}}
Goto(w, from, to) == pc[w] = from /\ pc' = [pc EXCEPT ![w] = to]

Apply ==
  /\ cfg < MaxChanges
  /\ cfg' = cfg + 1
  /\ UNCHANGED <<snapshots, applied, pc, cur, whole>>

LoadFrom(w, version) ==
  /\ Goto(w, "idle", "compare")
  /\ cur' = [cur EXCEPT ![w] = version]
  /\ UNCHANGED <<cfg, snapshots, applied, whole>>
Slip_LoadsWhatItApplied(w) == LoadFrom(w, applied)
Load(w) == LoadFrom(w, cfg)

UpToDate(w) ==
  /\ Goto(w, "compare", "idle")
  /\ cur[w] = applied
  /\ UNCHANGED <<cfg, snapshots, applied, cur, whole>>

Outdated(w) ==
  /\ Goto(w, "compare", "types")
  /\ cur[w] # applied
  /\ whole' = (Publishing = {})
  /\ UNCHANGED <<cfg, snapshots, applied, cur>>

SetCustomTypes(w) ==
  /\ Goto(w, "types", "labels")
  /\ types' = cur[w]
  /\ UNCHANGED <<cfg, labels, dicts, applied, cur, whole>>

SetLabels(w, version) ==
  /\ Goto(w, "labels", "dicts")
  /\ labels' = version
  /\ UNCHANGED <<cfg, types, dicts, applied, cur, whole>>
Slip_LabelsForgotten(w) == SetLabels(w, labels)
SetCustomLabels(w) == SetLabels(w, cur[w])

SetCustom(w) ==
  /\ Goto(w, "dicts", "applied")
  /\ dicts' = cur[w]
  /\ UNCHANGED <<cfg, types, labels, applied, cur, whole>>

SetApplied(w) ==
  /\ Goto(w, "applied", "idle")
  /\ applied' = cur[w]
  /\ UNCHANGED <<cfg, snapshots, cur, whole>>

SyncStep(w) ==
  \/ Load(w) \/ UpToDate(w) \/ Outdated(w) \/ SetCustomTypes(w)
  \/ SetCustomLabels(w) \/ SetCustom(w) \/ SetApplied(w)

Next == Apply \/ \E w \in Workers : SyncStep(w)
Spec == Init /\ [][Next]_vars

\* Requests keep coming and each of them runs on.
FairSpec == Spec /\ \A w \in Workers : WF_vars(SyncStep(w))

-----------------------------------------------------------------------------
\* The snapshots and `applied' tell the same version whenever the publication
\* that went last had the four stores to itself; so if that version is the live
\* one, every request after it detects and masks by the live configuration.
WholePublicationAgrees ==
  Publishing = {} /\ whole => types = applied /\ labels = applied /\ dicts = applied

\* `applied' catches up with the live configuration in the end, although a slow
\* publisher of an older one may take it back (provided requests keep coming).
AppliedCatchesUp == []<>(applied = cfg)

\* "So a Manager.Apply takes effect without a restart and without a lock": when
\* nobody is publishing and `applied' is the live configuration, nobody will
\* publish it again, so the snapshots must be those of the live configuration.
ApplyTakesEffect ==
  Publishing = {} /\ applied = cfg => types = cfg /\ labels = cfg /\ dicts = cfg
=============================================================================
