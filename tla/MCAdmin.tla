------------------------------ MODULE MCAdmin ------------------------------
(* Values for the constants of Admin and CustomSync, for TLC.  A behaviour   *)
(* is about the operators, or about the requests that publish what they     *)
(* applied; the two share the live configuration only.                      *)
EXTENDS Admin

MCText ==
  {"", "***", "k1", "k2", "t1", ":8080", "model", "stars_keep2", "initials", "token", "FIO", "PIN", "CONTRACT", "n"}
MCLower ==
  [s \in {"default", "crm", " CRM", "new", "", "info", "json"} |-> IF s = " CRM" THEN "crm" ELSE s]

MCKeySet(w, id, key) ==
  [w EXCEPT !.systems = [i \in DOMAIN @ |-> IF Lower[@[i].id] = id THEN [@[i] EXCEPT !.key = key] ELSE @[i]]]
MCSpelt(w, id, spelling) ==
  [w EXCEPT !.systems = [i \in DOMAIN @ |-> IF Lower[@[i].id] = id THEN [@[i] EXCEPT !.id = spelling] ELSE @[i]]]

CONSTANTS o1, o2
MCCredential == [o \in Operators |-> IF o = o1 THEN "t1" ELSE ""]

MCCustom(name) == [name |-> name, pattern |-> "n", window |-> 40, confidence |-> 0, strategy |-> "token"]

\* Sent back as it was; a key rotated, a token set and a custom type added; one
\* that takes the name of a built-in type; a system added beside one spelt by
\* hand, with fail_open left out.
MCEdits(w) ==
  {w, MCKeySet([w EXCEPT !.server.token = "t1", !.custom = <<MCCustom("CONTRACT")>>], "crm", "k2"),
   [w EXCEPT !.custom = <<MCCustom("FIO")>>],
   MCSpelt([w EXCEPT !.server.failOpen = Unset,
                     !.systems = Append(@, DefaultSystem("new", Redacted, FALSE))], "crm", " CRM")}

VARIABLE subject

MCInit == AdminInit /\ subject \in {"operators", "requests"}
MCNext ==
  /\ UNCHANGED subject
  /\ \/ subject = "operators" /\ AdminNext
     \/ subject = "requests" /\ Next /\ UNCHANGED admin
MCSpec == MCInit /\ [][MCNext]_<<vars, admin, subject>>

\* Requests keep coming and each of them runs on.
MCFairSpec ==
  MCSpec /\ (subject = "requests" => \A w \in Workers : WF_vars(SyncStep(w)))

\* AppliedCatchesUp of CustomSync, where there are requests.
RequestsCatchUp == subject = "requests" => AppliedCatchesUp
=============================================================================
