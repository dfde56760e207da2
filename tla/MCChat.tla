------------------------------- MODULE MCChat -------------------------------
(* Values for the constants of Chat, for TLC. *)
EXTENDS Chat, TLC

CONSTANTS w1, w2

MCPriority == [t \in {"fio", "badge"} |-> 10]
MCTypeOf == [a \in {"hi", "ivan", "inna", "ivan p", "igor p", "n17", "I.", "P.", "B"} |->
  CASE a \in {"ivan", "inna", "ivan p", "igor p"} -> "fio" [] a = "n17" -> "badge" [] OTHER -> NoRule]

\* Initials: two values share a mask, another two share one that begins with it.
MCMaskOf(strategy, type, value) ==
  IF type = "badge" THEN <<"B">>
  ELSE IF value \in {<<"ivan p">>, <<"igor p">>} THEN <<"I.", "P.">> ELSE <<"I.">>

Rule == [enabled |-> TRUE, floor |-> 5, needs |-> {}]
Badge == [floor |-> 5]
Sys(enabled, demask, secret) ==
  [enabled |-> enabled, demask |-> demask, secret |-> secret,
   rules |-> [t \in Types |-> IF t = "fio" THEN Rule ELSE NoRule]]
\* Names count only beside a badge.
Careful(system) == [system EXCEPT !.rules["fio"].needs = {"badge"}]
Conf(require, perMinute, badge, s1, s2) ==
  [require |-> require, perMinute |-> perMinute, default |-> "app", strategy |-> "initials",
   custom |-> [t \in Types |-> IF t = "badge" THEN badge ELSE NoRule],
   systems |-> [h \in {"app", "crm"} |-> IF h = "app" THEN s1 ELSE s2]]

Open == Conf(FALSE, 1, NoRule, Sys(TRUE, TRUE, NoKey), Sys(TRUE, FALSE, "k"))
Badged == Conf(TRUE, 2, Badge, Sys(TRUE, TRUE, NoKey), Careful(Sys(TRUE, TRUE, "k")))
Twice == [Open EXCEPT !.perMinute = 2]
Lifted == [Open EXCEPT !.perMinute = 0]
Free == Conf(FALSE, 0, NoRule, Sys(FALSE, TRUE, NoKey), Sys(TRUE, TRUE, "k"))

Req(key, header, secret, messages) ==
  [key |-> key, header |-> header, secret |-> secret, messages |-> messages]

Rush(configs) ==
  [traffic |-> {Req(NoKey, "app", NoKey, <<<<"hi">>>>)}, configs |-> configs,
   clients |-> {"demo"}, calls |-> 3, changes |-> 1, time |-> 6]

\* One request of each kind from its arrival to its answer; three requests that
\* meet at the limiter, under a limit that is lowered, raised or lifted.
MCScenarios ==
  {[traffic |->
      {Req(NoKey, "app", NoKey, <<<<"hi", "ivan">>, <<"ivan p", "n17">>>>),
       Req("k", "app", NoKey, <<<<"ivan", "inna", "ivan p">>>>),
       Req("k", "app", NoKey, <<<<"ivan p", "ivan", "igor p">>>>),
       Req("j", "crm", "k", <<<<"hi">>>>),
       Req(NoKey, "crm", "j", Unreadable)},
    configs |-> {Open, Badged, Free}, clients |-> {"demo", "json", "stream"},
    calls |-> 1, changes |-> 2, time |-> 0],
   Rush({Open, Lifted}), Rush({Open, Twice})}

ASSUME MasksAreFit == MasksStandOut

Symmetry == Permutations(Workers)
=============================================================================
