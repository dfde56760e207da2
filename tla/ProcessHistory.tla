--------------------------- MODULE ProcessHistory ---------------------------
(***************************************************************************)
(* What is true of /process whoever calls it, in whatever order: Process   *)
(* with three history variables, and the properties that need them.        *)
(***************************************************************************)
EXTENDS Process

VARIABLES
  pairs,      \* key -> every entry the store ever held under it
  faulted,    \* keys under which some call failed
  allowed     \* worker -> its system was in service at some moment of the call

hvars == <<vars, pairs, faulted, allowed>>

HInit ==
  /\ Init
  /\ pairs = [k \in Keys |-> {}]
  /\ faulted = {}
  /\ allowed = [w \in Workers |-> FALSE]

Note ==
  /\ pairs' = [k \in Keys |-> pairs[k] \cup ({map'[k]} \ {Absent})]
  /\ faulted' = faulted \cup {KeyOf(w) : w \in {x \in Workers : pc'[x] = "failed"}}
  /\ allowed' = [w \in Workers |->
       IF pc'[w] = "idle" THEN FALSE
       ELSE allowed[w] \/ Resolved(cfg', loc'[w].header) # Absent]

HNext == Next /\ Note
HSpec == HInit /\ [][HNext]_hvars

Answering(w) == pc[w] = "answer" /\ loc[w].status = 200 /\ loc[w].text # EmptyText
FreshMask(w) == loc[w].served /\ ~loc[w].cached /\ loc[w].op = "mask" /\ loc[w].out # loc[w].text

\* An answer out of the store joins a mask to the very text it was made from
\* under the same id, whichever of the two the caller sent; and a fresh mask
\* that can be taken back was remembered before the caller gets it (decide,
\* maskInto, storeKey), whatever ran in between.
Pair(o, m) == [original |-> o, masked |-> m]
Remembered(w) ==
  Answering(w) =>
    LET t == loc[w].text  o == loc[w].out  known == pairs[KeyOf(w)] IN
    /\ loc[w].cached => (IF loc[w].op = "demask" THEN Pair(o, t) ELSE Pair(t, o)) \in known
    /\ FreshMask(w) /\ loc[w].sys.demask /\ {t, o} \cap TooLong = {} => Pair(t, o) \in known
AnswersAreRemembered == \A w \in Workers : Remembered(w)

\* A caller whose system was out of service during the whole call gets no text
\* back, neither masked nor as it was, fail-open or not: the configuration is
\* read up to four times in a call and may change between the reads.
DisabledNeverServed == \A w \in Workers : Answering(w) => allowed[w]

\* Texts that every rule set in use masks, under any configuration, and that do
\* not look masked already.
InUse == {c.systems[h] : c \in Configs, h \in Headers} \ {Absent}
Personal ==
  {t \in Texts \ (StarMasked \cup LabelMasked) : \A s \in InUse, c \in Configs :
     Rewrite[s.rules, c.extra, t] \notin {t, Absent}}

\* Personal data is handed back as it came only after a failure under the same
\* id, never because of a lost entry, a retry or a race (looksMasked, decide).
Betrayed(w) == Answering(w) /\ loc[w].text \in Personal /\ loc[w].out = loc[w].text
LeakOnlyAfterFault == \A w \in Workers : Betrayed(w) => KeyOf(w) \in faulted

\* "An existing mapping is never overwritten" by RememberIdentity.
IdentityNeverOverwrites ==
  [][\A w \in Workers : IdentityPut(w) => map[KeyOf(w)] = Absent]_vars

-----------------------------------------------------------------------------
(* What has to hold on the way for the first three to hold in the end *)

HTypeOK ==
  /\ pairs \in [Keys -> SUBSET Entry]
  /\ faulted \subseteq Keys
  /\ allowed \in [Workers -> BOOLEAN]

\* The store holds nothing the history has missed, and an identity among the
\* entries ever made for personal data betrays a failure under that id.
StoreKnown ==
  \A k \in Keys :
    /\ map[k] # Absent => map[k] \in pairs[k]
    /\ \A e \in pairs[k] : e.original \in Personal /\ e.original = e.masked => k \in faulted

\* What a call has found out by the time it gets to each of its steps.
OnTheWay(w) ==
  LET l == loc[w] IN
  /\ pc[w] # "answer" => ~l.cached /\ ~l.served
  /\ pc[w] = "check" /\ l.dir = "demask" => l.entry \in pairs[KeyOf(w)] /\ l.entry.masked = l.text
  /\ pc[w] = "check" /\ l.dir = "maskRetry" => l.entry \in pairs[KeyOf(w)] /\ l.entry.original = l.text
  /\ pc[w] = "check" /\ l.dir = "demaskMiss" => l.text \notin Personal
  /\ pc[w] \in InEngine \ {"resolve"} => l.sys \in InUse
  /\ pc[w] \in {"put", "done"} /\ l.text \in Personal => l.masked # l.text
  /\ pc[w] = "done" /\ l.sys.demask /\ {l.text, l.masked} \cap TooLong = {} =>
       Pair(l.text, l.masked) \in pairs[KeyOf(w)]
  /\ pc[w] \in (InEngine \ {"resolve"}) \cup InFailure => allowed[w]
  /\ pc[w] \in InFailure => KeyOf(w) \in faulted

CallInv(w) ==
  /\ OnTheWay(w) /\ Remembered(w)
  /\ Answering(w) => allowed[w]
  /\ Betrayed(w) => KeyOf(w) \in faulted

HistoryInv == TypeOK /\ HTypeOK /\ StoreKnown /\ \A w \in Workers : CallInv(w)
=============================================================================
