---------------------------- MODULE AdminProofs ----------------------------
(***************************************************************************)
(* What concurrent publishers of custom types leave behind, for any number *)
(* of requests; and what concurrent operators, crashes and restarts leave  *)
(* of the secrets and of the file, for any number of operators and          *)
(* whatever they make of the form they are given.                          *)
(***************************************************************************)
EXTENDS Admin, FiniteSetTheorems, WellFoundedInduction, TLAPS

-----------------------------------------------------------------------------
(* Publication of the custom types.                                        *)

SyncSteps == {"idle", "compare", "types", "labels", "dicts", "applied"}

\* What a publisher that is alone has stored once it is at a step.
Stored(w) ==
  /\ pc[w] \in {"labels", "dicts", "applied"} => types = cur[w]
  /\ pc[w] \in {"dicts", "applied"} => labels = cur[w]
  /\ pc[w] = "applied" => dicts = cur[w]

SyncInv ==
  /\ pc \in [Workers -> SyncSteps] /\ DOMAIN cur = Workers /\ cur = [w \in Workers |-> cur[w]]
  /\ whole => /\ \A v, w \in Publishing : v = w
              /\ \A w \in Publishing : Stored(w)
              /\ Publishing = {} => types = applied /\ labels = applied /\ dicts = applied

LEMMA SyncStepKeeps ==
  ASSUME SyncInv, NEW w \in Workers, SyncStep(w)
  PROVE  SyncInv'
<1>1. /\ pc \in [Workers -> SyncSteps] /\ cur = [v \in Workers |-> cur[v]]
  BY DEF SyncInv
<1>2. CASE Load(w)
  BY <1>1, <1>2 DEF Load, LoadFrom, Goto, SyncInv, SyncSteps, Publishing, Stored, snapshots
<1>3. CASE UpToDate(w)
  BY <1>1, <1>3 DEF UpToDate, Goto, SyncInv, SyncSteps, Publishing, Stored, snapshots
<1>4. CASE Outdated(w)
  <2>1. /\ pc' = [pc EXCEPT ![w] = "types"] /\ pc[w] = "compare" /\ cur' = cur
        /\ whole' = (Publishing = {})
    BY <1>4 DEF Outdated, Goto
  <2>2. pc' \in [Workers -> SyncSteps] /\ pc'[w] = "types" /\ Publishing' = Publishing \cup {w}
    BY <1>1, <2>1 DEF SyncSteps, Publishing
  <2>3. ASSUME whole' PROVE Publishing' = {w} /\ Stored(w)'
    BY <2>1, <2>2, <2>3 DEF Stored
  <2>4. QED
    BY <2>1, <2>2, <2>3 DEF SyncInv
<1>5. CASE SetCustomTypes(w)
  BY <1>1, <1>5 DEF SetCustomTypes, Goto, SyncInv, SyncSteps, Publishing, Stored, snapshots
<1>6. CASE SetCustomLabels(w)
  BY <1>1, <1>6 DEF SetCustomLabels, SetLabels, Goto, SyncInv, SyncSteps, Publishing, Stored, snapshots
<1>7. CASE SetCustom(w)
  BY <1>1, <1>7 DEF SetCustom, Goto, SyncInv, SyncSteps, Publishing, Stored, snapshots
<1>8. CASE SetApplied(w)
  BY <1>1, <1>8 DEF SetApplied, Goto, SyncInv, SyncSteps, Publishing, Stored, snapshots
<1>9. QED
  BY <1>2, <1>3, <1>4, <1>5, <1>6, <1>7, <1>8 DEF SyncStep

LEMMA SyncInvariant == Spec => []SyncInv
<1>1. Init => SyncInv
  BY DEF Init, SyncInv, SyncSteps, Publishing
<1>2. SyncInv /\ [Next]_vars => SyncInv'
  <2> SUFFICES ASSUME SyncInv, [Next]_vars PROVE SyncInv'
    OBVIOUS
  <2>1. CASE Apply \/ UNCHANGED vars
    <3>1. UNCHANGED <<types, labels, dicts, applied, pc, cur, whole>>
      BY <2>1 DEF Apply, vars, snapshots
    <3>2. QED
      BY <3>1 DEF SyncInv, Publishing, Stored
  <2>2. CASE \E w \in Workers : SyncStep(w)
    BY <2>2, SyncStepKeeps
  <2>3. QED
    BY <2>1, <2>2 DEF Next
<1>3. QED
  BY <1>1, <1>2, PTL DEF Spec

\* A publication that applyCustom made with no other beside it leaves the three
\* snapshots and `applied' at one version.
THEOREM WholePublication == Spec => []WholePublicationAgrees
<1>1. SyncInv => WholePublicationAgrees
  BY DEF SyncInv, WholePublicationAgrees
<1>2. QED
  BY <1>1, SyncInvariant, PTL

-----------------------------------------------------------------------------
(* Lists of systems.                                                       *)

\* The order of the numbers as a relation, to look for a least number by.
LEMMA NatOrder == \E R : IsWellFoundedOn(R, Nat) /\ \A x, y \in Nat : x < y => <<x, y>> \in R
<1> DEFINE R == {pair \in Nat \X Nat : pair[1] < pair[2]}
<1>1. OpToRel(<, Nat) = R
  BY Zenon DEF OpToRel
<1>2. IsWellFoundedOn(R, Nat)
  BY <1>1, NatLessThanWellFounded, Zenon
<1>3. \A x, y \in Nat : x < y => <<x, y>> \in R
  OBVIOUS
<1> HIDE DEF R
<1>4. QED
  BY <1>2, <1>3, Zenon

LEMMA LeastNumber ==
  ASSUME NEW T, T \subseteq Nat, T # {}
  PROVE  \E k \in T : \A l \in T : k <= l
<1>1. PICK R : IsWellFoundedOn(R, Nat) /\ \A x, y \in Nat : x < y => <<x, y>> \in R
  BY NatOrder
<1>2. IsWellFoundedOn(R, Nat)
  BY <1>1
<1>3. PICK k \in T : \A l \in T : ~ (<<l, k>> \in R)
  BY <1>2, WFMin, Zenon
<1>4. ASSUME NEW l \in T PROVE k <= l
  <2>1. k \in Nat /\ l \in Nat /\ ~ (l < k)
    BY <1>1, <1>3
  <2>2. QED
    BY <2>1
<1>5. QED
  BY <1>4

\* A set of indices has a last one.
LEMMA LastIndex ==
  ASSUME NEW n \in Nat, NEW T \in SUBSET (1 .. n), T # {}
  PROVE  \E i \in T : \A j \in T : j <= i
<1> DEFINE U == {k \in Nat : \E i \in T : k = n - i}
<1>1. U \subseteq Nat /\ \A i \in T : n - i \in U
  OBVIOUS
<1>2. PICK k \in U : \A l \in U : k <= l
  <2>1. U # {}
    BY <1>1
  <2>2. QED
    BY <1>1, <2>1, LeastNumber
<1>3. PICK i \in T : k = n - i
  BY <1>2
<1>4. ASSUME NEW j \in T PROVE j <= i
  <2>1. k <= n - j
    BY <1>1, <1>2
  <2>2. QED
    BY <1>3, <2>1
<1>5. QED
  BY <1>4

\* SetToSeq lists every element of a finite set once.
LEMMA ListsAll ==
  ASSUME NEW S, IsFiniteSet(S)
  PROVE  /\ SetToSeq(S) \in Seq(S)
         /\ \A x \in S : \E i \in DOMAIN SetToSeq(S) : SetToSeq(S)[i] = x
<1> DEFINE n == Cardinality(S)
           f == SetToSeq(S)
<1>1. n \in Nat /\ IsFiniteSet(1 .. n) /\ Cardinality(1 .. n) = n
  BY FS_CardinalityType, FS_Interval
<1>2. Bijection(1 .. n, S) # {}
  BY <1>1, FS_SameCardinalityBij DEF ExistsBijection
<1>3. PICK b \in [1 .. n -> S] : IsInjective(b)
  BY <1>2 DEF Bijection, Injection
<1>4. f \in [1 .. n -> S] /\ IsInjective(f)
  BY <1>3 DEF SetToSeq
<1>5. f \in Injection(1 .. n, S)
  BY <1>4 DEF Injection
<1>6. f \in Surjection(1 .. n, S)
  BY <1>1, <1>5, FS_Injection
<1>7. \A x \in S : \E i \in 1 .. n : f[i] = x
  BY <1>6 DEF Surjection
<1>8. DOMAIN f = 1 .. n /\ f \in Seq(S)
  BY <1>1, <1>4
<1>9. QED
  BY <1>7, <1>8

-----------------------------------------------------------------------------
(* The conversions of a configuration, field by field.                     *)

LEMMA SystemsIn ==
  ASSUME NEW S \in SUBSET Spellings, IsFiniteSet(S), NEW f \in [S -> System]
  PROVE  f \in Systems
BY DEF Systems

LEMMA SystemsOut ==
  ASSUME NEW f \in Systems
  PROVE  DOMAIN f \subseteq Spellings /\ IsFiniteSet(DOMAIN f) /\ f \in [DOMAIN f -> System]
BY DEF Systems

LEMMA ConfigIs ==
  ASSUME NEW c \in Config, NEW e \in Config,
         c.server = e.server, c.store = e.store, c.log = e.log, c.llm = e.llm, c.default = e.default,
         c.require = e.require, c.custom = e.custom, c.systems = e.systems
  PROVE  c = e
BY DEF Config

LEMMA DefaultConfig == Default \in Config
<1>1. DefaultRules \in [KnownTypes -> Rule]
  BY TextAssumption DEF DefaultRules, Rule
<1>2. DefaultRules \in UNION {[T -> Rule] : T \in SUBSET Text}
  BY <1>1, TextAssumption
<1>3. \A id \in {"default", "crm"}, key \in {"k1", Blank} : DefaultSystem(id, key, TRUE) \in System
  BY <1>2, TextAssumption DEF DefaultSystem, System
<1>4. IsFiniteSet({"default", "crm"})
  <2>1. IsFiniteSet({"default"})
    BY FS_Singleton
  <2>2. IsFiniteSet({"default"} \cup {"crm"}) /\ {"default"} \cup {"crm"} = {"default", "crm"}
    BY <2>1, FS_AddElement
  <2>3. QED
    BY <2>2
<1>5. Default.systems \in Systems
  <2>0. Default.systems = [id \in {"default", "crm"} |-> DefaultSystem(id, IF id = "crm" THEN "k1" ELSE Blank, TRUE)]
    BY DEF Default
  <2>1. Default.systems \in [{"default", "crm"} -> System]
    BY <1>3, <2>0
  <2>2. QED
    BY <1>4, <2>1, SystemsIn, TextAssumption
<1>6. Default.server \in Server(BOOLEAN)
  BY TextAssumption DEF Default, Server, Durations, Millisecond
<1>7. Default.custom \in Seq(CustomType) /\ Default.store \in Store /\ Default.log \in Log /\ Default.llm \in LLM
  BY TextAssumption DEF Default, Store, Log, LLM
<1>8. QED
  BY <1>5, <1>6, <1>7, TextAssumption DEF Default, Config

LEMMA WithKeyType ==
  ASSUME NEW s \in System, NEW key \in Text
  PROVE  /\ WithKey(s, key) \in System /\ WithKey(s, key).key = key
         /\ WithKey(s, key).id = s.id
BY DEF WithKey, System

LEMMA NormalSystemType ==
  ASSUME NEW s \in System, NEW id \in Spellings
  PROVE  /\ NormalSystem(s, id) \in System /\ NormalSystem(s, id).key = s.key
         /\ NormalSystem(s, id).id = IF Lower[s.id] = Blank THEN id ELSE Lower[s.id]
BY TextAssumption DEF NormalSystem, System

\* redactSecrets yields a configuration again.
LEMMA RedactConfig ==
  ASSUME NEW c \in Config
  PROVE  Redact(c) \in Config
<1>1. c.server \in Server(BOOLEAN) /\ c.systems \in Systems
  BY DEF Config
<1>2. \A text \in Text : Hidden(text) \in Text
  BY TextAssumption DEF Hidden
<1> DEFINE server == [c.server EXCEPT !.token = Hidden(@)]
           systems == [id \in DOMAIN c.systems |-> WithKey(c.systems[id], Hidden(c.systems[id].key))]
<1>3. server \in Server(BOOLEAN)
  BY <1>1, <1>2 DEF Server
<1>4. systems \in Systems
  <2>1. DOMAIN c.systems \in SUBSET Spellings /\ IsFiniteSet(DOMAIN c.systems) /\ c.systems \in [DOMAIN c.systems -> System]
    BY <1>1, SystemsOut
  <2>2. ASSUME NEW id \in DOMAIN c.systems PROVE WithKey(c.systems[id], Hidden(c.systems[id].key)) \in System
    <3>1. c.systems[id] \in System /\ c.systems[id].key \in Text
      BY <2>1 DEF System
    <3>2. QED
      BY <1>2, <3>1, WithKeyType
  <2>3. systems \in [DOMAIN c.systems -> System]
    BY <2>2
  <2>4. QED
    BY <2>1, <2>3, SystemsIn
<1>5. Redact(c) = [c EXCEPT !.server = server, !.systems = systems]
  BY DEF Redact
<1> HIDE DEF server, systems
<1>6. QED
  BY <1>3, <1>4, <1>5 DEF Config

LEMMA RestoreConfig ==
  ASSUME NEW next \in Config, NEW live0 \in Config
  PROVE  /\ Restore(next, live0) \in Config
         /\ Restore(next, live0).server
              = [next.server EXCEPT !.token = IF @ = Redacted THEN live0.server.token ELSE @]
         /\ DOMAIN Restore(next, live0).systems = DOMAIN next.systems
         /\ \A id \in DOMAIN next.systems :
              Restore(next, live0).systems[id].key = RestoredKey(next.systems[id].key, id, live0)
<1>1. /\ next.server \in Server(BOOLEAN) /\ next.systems \in Systems
      /\ live0.server \in Server(BOOLEAN) /\ live0.systems \in Systems
  BY DEF Config
<1> DEFINE server == [next.server EXCEPT !.token = IF @ = Redacted THEN live0.server.token ELSE @]
           keyOf(id) == RestoredKey(next.systems[id].key, id, live0)
           systems == [id \in DOMAIN next.systems |-> WithKey(next.systems[id], keyOf(id))]
<1>2. server \in Server(BOOLEAN)
  BY <1>1 DEF Server
<1>3. /\ DOMAIN next.systems \in SUBSET Spellings /\ IsFiniteSet(DOMAIN next.systems)
      /\ next.systems \in [DOMAIN next.systems -> System]
      /\ live0.systems \in [DOMAIN live0.systems -> System]
  BY <1>1, SystemsOut
<1>4. ASSUME NEW id \in DOMAIN next.systems
      PROVE  WithKey(next.systems[id], keyOf(id)) \in System /\ systems[id].key = keyOf(id)
  <2>1. next.systems[id] \in System /\ next.systems[id].key \in Text
    BY <1>3 DEF System
  <2>2. id \in DOMAIN live0.systems => live0.systems[id].key \in Text
    BY <1>3 DEF System
  <2>3. keyOf(id) \in Text
    BY <2>1, <2>2, TextAssumption DEF RestoredKey
  <2>4. QED
    BY <2>1, <2>3, WithKeyType
<1>5. systems \in Systems
  <2>1. systems \in [DOMAIN next.systems -> System]
    BY <1>4
  <2>2. QED
    BY <1>3, <2>1, SystemsIn
<1>6. Restore(next, live0) = [next EXCEPT !.server = server, !.systems = systems]
  BY DEF Restore
<1>7. DOMAIN systems = DOMAIN next.systems
  OBVIOUS
<1> HIDE DEF systems
<1>8. /\ Restore(next, live0) \in Config /\ Restore(next, live0).server = server
      /\ Restore(next, live0).systems = systems
  BY <1>2, <1>5, <1>6 DEF Config
<1>9. QED
  BY <1>4, <1>7, <1>8

LEMMA NormalConfig ==
  ASSUME NEW c \in Config
  PROVE  /\ Normal(c) \in Config /\ Normal(c).server = c.server /\ Normal(c).store = c.store
         /\ Normal(c).llm = c.llm /\ Normal(c).require = c.require /\ Normal(c).custom = c.custom
         /\ Normal(c).default = Lower[c.default]
         /\ Normal(c).log = [c.log EXCEPT !.level = Lower[@], !.format = Lower[@]]
         /\ Normal(c).systems = [id \in DOMAIN c.systems |-> NormalSystem(c.systems[id], id)]
<1>1. c.log \in Log /\ c.systems \in Systems /\ c.default \in Spellings
  BY DEF Config
<1> DEFINE log == [c.log EXCEPT !.level = Lower[@], !.format = Lower[@]]
           systems == [id \in DOMAIN c.systems |-> NormalSystem(c.systems[id], id)]
<1>2. log \in Log /\ Lower[c.default] \in Spellings
  BY <1>1, TextAssumption DEF Log
<1>3. systems \in Systems
  <2>1. /\ DOMAIN c.systems \in SUBSET Spellings /\ IsFiniteSet(DOMAIN c.systems)
        /\ c.systems \in [DOMAIN c.systems -> System]
    BY <1>1, SystemsOut
  <2>2. ASSUME NEW id \in DOMAIN c.systems PROVE NormalSystem(c.systems[id], id) \in System
    BY <2>1, NormalSystemType
  <2>3. systems \in [DOMAIN c.systems -> System]
    BY <2>2
  <2>4. QED
    BY <2>1, <2>3, SystemsIn
<1>4. Normal(c) = [c EXCEPT !.default = Lower[c.default], !.systems = systems, !.log = log]
  BY <1>1 DEF Normal, Config, Log
<1> HIDE DEF systems, log
<1>5. /\ Normal(c) \in Config /\ Normal(c).server = c.server /\ Normal(c).store = c.store
      /\ Normal(c).llm = c.llm /\ Normal(c).require = c.require /\ Normal(c).custom = c.custom
      /\ Normal(c).default = Lower[c.default] /\ Normal(c).log = log /\ Normal(c).systems = systems
  BY <1>2, <1>3, <1>4 DEF Config
<1>6. QED
  BY <1>5 DEF log, systems

LEMMA ToWireForm ==
  ASSUME NEW c \in Config
  PROVE  /\ ToWire(c) \in Wire /\ ToWire(c).store = c.store /\ ToWire(c).log = c.log
         /\ ToWire(c).llm = c.llm /\ ToWire(c).default = c.default
         /\ ToWire(c).require = c.require /\ ToWire(c).custom = c.custom
         /\ ToWire(c).server = [c.server EXCEPT !.times = [d \in Durations |-> @[d] \div Millisecond]]
         /\ \A i \in DOMAIN ToWire(c).systems :
              \E id \in DOMAIN c.systems : ToWire(c).systems[i] = c.systems[id]
         /\ \A id \in DOMAIN c.systems :
              \E i \in DOMAIN ToWire(c).systems : ToWire(c).systems[i] = c.systems[id]
<1>1. c.server \in Server(BOOLEAN) /\ c.systems \in Systems
  BY DEF Config
<1> DEFINE server == [c.server EXCEPT !.times = [d \in Durations |-> @[d] \div Millisecond]]
           all == {c.systems[id] : id \in DOMAIN c.systems}
           systems == SetToSeq(all)
<1>2. server \in Server(BOOLEAN \cup {Unset})
  <2>1. \A d \in Durations : c.server.times[d] \div Millisecond \in Int
    BY <1>1 DEF Server, Millisecond
  <2>2. QED
    BY <1>1, <2>1 DEF Server
<1>3. IsFiniteSet(DOMAIN c.systems) /\ c.systems \in [DOMAIN c.systems -> System]
  BY <1>1, SystemsOut
<1>4. IsFiniteSet(all) /\ all \subseteq System
  <2>1. c.systems \in Surjection(DOMAIN c.systems, all)
    BY <1>3 DEF Surjection
  <2>2. QED
    BY <1>3, <2>1, FS_Surjection
<1>5. systems \in Seq(all) /\ \A x \in all : \E i \in DOMAIN systems : systems[i] = x
  BY <1>4, ListsAll
<1>6. systems \in Seq(System)
  BY <1>4, <1>5
<1>7. ToWire(c) = [c EXCEPT !.server = server, !.systems = systems]
  BY DEF ToWire
<1>8. /\ \A i \in DOMAIN systems : \E id \in DOMAIN c.systems : systems[i] = c.systems[id]
      /\ \A id \in DOMAIN c.systems : \E i \in DOMAIN systems : systems[i] = c.systems[id]
  <2> HIDE DEF systems
  <2>1. \A i \in DOMAIN systems : systems[i] \in all
    BY <1>5
  <2>2. \A id \in DOMAIN c.systems : c.systems[id] \in all
    OBVIOUS
  <2>3. QED
    BY <1>5, <2>1, <2>2
<1> HIDE DEF systems, server
<1>9. /\ ToWire(c) \in Wire /\ ToWire(c).store = c.store /\ ToWire(c).log = c.log
      /\ ToWire(c).llm = c.llm /\ ToWire(c).default = c.default
      /\ ToWire(c).require = c.require /\ ToWire(c).custom = c.custom
      /\ ToWire(c).server = server /\ ToWire(c).systems = systems
  BY <1>2, <1>6, <1>7 DEF Config, Wire
<1>10. QED
  BY <1>8, <1>9 DEF server

\* Of the entries with one id one is the last, and it is the one that counts.
LEMMA LastEntryIs ==
  ASSUME NEW list \in Seq(System), NEW id, \E i \in DOMAIN list : Lower[list[i].id] = id
  PROVE  LastEntry(list, id) \in DOMAIN list /\ Lower[list[LastEntry(list, id)].id] = id
<1> DEFINE T == {i \in 1 .. Len(list) : Lower[list[i].id] = id}
<1>1. Len(list) \in Nat /\ DOMAIN list = 1 .. Len(list) /\ T \in SUBSET (1 .. Len(list)) /\ T # {}
  OBVIOUS
<1>2. PICK i \in T : \A j \in T : j <= i
  BY <1>1, LastIndex
<1>3. \A j \in i + 1 .. Len(list) : Lower[list[j].id] # id
  BY <1>1, <1>2
<1>4. i \in DOMAIN list /\ Lower[list[i].id] = id
  BY <1>1, <1>2
<1>5. QED
  BY <1>3, <1>4 DEF LastEntry

LEMMA FromWireConfig ==
  ASSUME NEW w \in Wire
  PROVE  /\ FromWire(w) \in Config /\ FromWire(w).store = w.store /\ FromWire(w).log = w.log
         /\ FromWire(w).llm = w.llm /\ FromWire(w).default = w.default
         /\ FromWire(w).require = w.require /\ FromWire(w).custom = w.custom
         /\ FromWire(w).server = [w.server EXCEPT !.times = [d \in Durations |-> @[d] * Millisecond],
                                                  !.failOpen = FailOpen(@)]
         /\ DOMAIN FromWire(w).systems = {Lower[w.systems[i].id] : i \in DOMAIN w.systems}
         /\ \A id \in DOMAIN FromWire(w).systems :
              \E i \in DOMAIN w.systems : /\ FromWire(w).systems[id] = w.systems[i]
                                         /\ Lower[w.systems[i].id] = id
<1>1. w.server \in Server(BOOLEAN \cup {Unset}) /\ w.systems \in Seq(System)
  BY DEF Wire
<1> DEFINE ids == {Lower[w.systems[i].id] : i \in DOMAIN w.systems}
           server == [w.server EXCEPT !.times = [d \in Durations |-> @[d] * Millisecond], !.failOpen = FailOpen(@)]
           systems == [id \in ids |-> w.systems[LastEntry(w.systems, id)]]
<1>2. server \in Server(BOOLEAN)
  <2>1. \A d \in Durations : w.server.times[d] * Millisecond \in Int
    BY <1>1 DEF Server, Millisecond
  <2>2. FailOpen(w.server.failOpen) \in BOOLEAN
    BY <1>1 DEF Server, FailOpen
  <2>3. QED
    BY <1>1, <2>1, <2>2 DEF Server
<1>3. ASSUME NEW id \in ids
      PROVE  \E i \in DOMAIN w.systems : /\ systems[id] = w.systems[i] /\ w.systems[i] \in System
                                        /\ Lower[w.systems[i].id] = id
  BY <1>1, LastEntryIs
<1>4. ids \in SUBSET Spellings /\ IsFiniteSet(ids)
  <2>1. ASSUME NEW i \in DOMAIN w.systems PROVE Lower[w.systems[i].id] \in Spellings
    <3>1. w.systems[i] \in System
      BY <1>1
    <3>2. w.systems[i].id \in Spellings
      BY <3>1 DEF System
    <3>3. QED
      BY <3>2, TextAssumption
  <2>2. IsFiniteSet(DOMAIN w.systems)
    BY <1>1, FS_Interval
  <2> DEFINE f == [i \in DOMAIN w.systems |-> Lower[w.systems[i].id]]
  <2>3. f \in Surjection(DOMAIN w.systems, ids)
    BY DEF Surjection
  <2>4. QED
    BY <2>1, <2>2, <2>3, FS_Surjection
<1>5. systems \in Systems
  <2>1. systems \in [ids -> System]
    BY <1>3
  <2>2. QED
    BY <1>4, <2>1, SystemsIn
<1>6. FromWire(w) = [w EXCEPT !.server = server, !.systems = systems]
  BY <1>1 DEF FromWire, Wire, Server
<1>7. DOMAIN systems = ids
  OBVIOUS
<1> HIDE DEF systems, server
<1>8. /\ FromWire(w) \in Config /\ FromWire(w).store = w.store /\ FromWire(w).log = w.log
      /\ FromWire(w).llm = w.llm /\ FromWire(w).default = w.default
      /\ FromWire(w).require = w.require /\ FromWire(w).custom = w.custom
      /\ FromWire(w).server = server /\ FromWire(w).systems = systems
  BY <1>2, <1>5, <1>6 DEF Config, Wire
<1>9. QED
  BY <1>3, <1>7, <1>8 DEF server

-----------------------------------------------------------------------------
(* What a handler prepares, and what a start makes of the file.            *)

\* The placeholder is no secret of c.
Clean(c) ==
  c.server.token # Redacted /\ \A id \in DOMAIN c.systems : c.systems[id].key # Redacted

\* Texts in canonical form, durations that the wire can tell.
Canonical(c) ==
  /\ \A d \in Durations : \E n \in Int : c.server.times[d] = n * Millisecond
  /\ Lower[c.default] = c.default /\ Lower[c.log.level] = c.log.level /\ Lower[c.log.format] = c.log.format
  /\ \A id \in DOMAIN c.systems : Lower[id] = id

LEMMA DefaultClean == Clean(Default)
BY TextAssumption DEF Clean, Default, DefaultSystem

\* Whatever is sent, the secrets of the running configuration take the place of
\* the placeholder, and what comes out is canonical.
LEMMA PreparedConfig ==
  ASSUME NEW form \in Wire, NEW live0 \in Config, Clean(live0)
  PROVE  LET sent == FromWire(form)
             next == Normal(Restore(sent, live0))
         IN /\ next \in Config /\ Clean(next) /\ Canonical(next)
            /\ DOMAIN next.systems = DOMAIN sent.systems
            /\ \A id \in DOMAIN next.systems :
                 next.systems[id].key = RestoredKey(sent.systems[id].key, id, live0)
<1> DEFINE sent == FromWire(form)
           restored == Restore(sent, live0)
           next == Normal(restored)
<1>1. /\ sent \in Config
      /\ sent.server = [form.server EXCEPT !.times = [d \in Durations |-> @[d] * Millisecond], !.failOpen = FailOpen(@)]
      /\ DOMAIN sent.systems = {Lower[form.systems[i].id] : i \in DOMAIN form.systems}
  BY FromWireConfig
<1> HIDE DEF sent
<1>2. /\ restored \in Config
      /\ restored.server = [sent.server EXCEPT !.token = IF @ = Redacted THEN live0.server.token ELSE @]
      /\ DOMAIN restored.systems = DOMAIN sent.systems
      /\ \A id \in DOMAIN sent.systems : restored.systems[id].key = RestoredKey(sent.systems[id].key, id, live0)
  BY <1>1, RestoreConfig
<1> HIDE DEF restored
<1>3. /\ next \in Config /\ next.server = restored.server /\ next.default = Lower[restored.default]
      /\ next.log = [restored.log EXCEPT !.level = Lower[@], !.format = Lower[@]]
      /\ next.systems = [id \in DOMAIN restored.systems |-> NormalSystem(restored.systems[id], id)]
  BY <1>2, NormalConfig
<1> HIDE DEF next
<1>4. /\ DOMAIN next.systems = DOMAIN sent.systems
      /\ \A id \in DOMAIN next.systems : next.systems[id].key = RestoredKey(sent.systems[id].key, id, live0)
  <2>1. DOMAIN next.systems = DOMAIN restored.systems
    BY <1>3
  <2>2. ASSUME NEW id \in DOMAIN restored.systems PROVE next.systems[id].key = restored.systems[id].key
    <3>1. restored.systems \in Systems
      BY <1>2 DEF Config
    <3>2. restored.systems[id] \in System /\ id \in Spellings
      BY <3>1, SystemsOut
    <3>3. QED
      BY <1>3, <3>2, NormalSystemType
  <2>3. QED
    BY <1>2, <2>1, <2>2
<1>5. Clean(next)
  <2>1. sent.server \in Server(BOOLEAN) /\ live0.server.token # Redacted
    BY <1>1 DEF Config, Clean
  <2>2. next.server.token # Redacted
    BY <1>2, <1>3, <2>1 DEF Server
  <2>3. ASSUME NEW id \in DOMAIN next.systems PROVE next.systems[id].key # Redacted
    BY <1>4, TextAssumption DEF RestoredKey, Clean
  <2>4. QED
    BY <2>2, <2>3 DEF Clean
<1>6. Canonical(next)
  <2>1. ASSUME NEW d \in Durations PROVE \E n \in Int : next.server.times[d] = n * Millisecond
    <3>1. form.server \in Server(BOOLEAN \cup {Unset}) /\ sent.server \in Server(BOOLEAN)
      BY <1>1 DEF Wire, Config
    <3>2. sent.server.times = [e \in Durations |-> form.server.times[e] * Millisecond]
      BY <1>1, <3>1 DEF Server
    <3>3. next.server.times = sent.server.times
      BY <1>2, <1>3, <3>1 DEF Server
    <3>4. form.server.times[d] \in Int
      BY <3>1 DEF Server
    <3>5. QED
      BY <3>2, <3>3, <3>4
  <2>2. /\ restored.default \in Spellings /\ restored.log \in Log
    BY <1>2 DEF Config
  <2>3. Lower[next.default] = next.default
    BY <1>3, <2>2, TextAssumption
  <2>4. next.log.level = Lower[restored.log.level] /\ next.log.format = Lower[restored.log.format]
    BY <1>3, <2>2 DEF Log
  <2>5. Lower[next.log.level] = next.log.level /\ Lower[next.log.format] = next.log.format
    BY <2>2, <2>4, TextAssumption DEF Log
  <2>6. ASSUME NEW id \in DOMAIN next.systems PROVE Lower[id] = id
    <3>1. PICK i \in DOMAIN form.systems : id = Lower[form.systems[i].id]
      BY <1>1, <1>4
    <3>2. form.systems \in Seq(System)
      BY DEF Wire
    <3>3. form.systems[i] \in System
      BY <3>2
    <3>4. form.systems[i].id \in Spellings
      BY <3>3 DEF System
    <3>5. QED
      BY <3>1, <3>4, TextAssumption
  <2>7. QED
    BY <2>1, <2>3, <2>5, <2>6 DEF Canonical
<1>7. QED
  BY <1>3, <1>4, <1>5, <1>6 DEF next, restored, sent

\* A canonical configuration whose systems bear their ids comes back from the file.
LEMMA RoundTripConfig ==
  ASSUME NEW c \in Config, Canonical(c), \A id \in DOMAIN c.systems : c.systems[id].id = id
  PROVE  Normal(FromWire(ToWire(c))) = c
<1> DEFINE w == ToWire(c)
           f == FromWire(w)
           n == Normal(f)
<1>1. /\ w \in Wire /\ w.store = c.store /\ w.log = c.log /\ w.llm = c.llm /\ w.default = c.default
      /\ w.require = c.require /\ w.custom = c.custom
      /\ w.server = [c.server EXCEPT !.times = [d \in Durations |-> @[d] \div Millisecond]]
      /\ \A i \in DOMAIN w.systems : \E id \in DOMAIN c.systems : w.systems[i] = c.systems[id]
      /\ \A id \in DOMAIN c.systems : \E i \in DOMAIN w.systems : w.systems[i] = c.systems[id]
  BY ToWireForm
<1> HIDE DEF w
<1>2. /\ f \in Config /\ f.store = w.store /\ f.log = w.log /\ f.llm = w.llm /\ f.default = w.default
      /\ f.require = w.require /\ f.custom = w.custom
      /\ f.server = [w.server EXCEPT !.times = [d \in Durations |-> @[d] * Millisecond], !.failOpen = FailOpen(@)]
      /\ DOMAIN f.systems = {Lower[w.systems[i].id] : i \in DOMAIN w.systems}
      /\ \A id \in DOMAIN f.systems :
           \E i \in DOMAIN w.systems : f.systems[id] = w.systems[i] /\ Lower[w.systems[i].id] = id
  BY <1>1, FromWireConfig
<1> HIDE DEF f
<1>3. /\ n \in Config /\ n.server = f.server /\ n.store = f.store /\ n.llm = f.llm
      /\ n.require = f.require /\ n.custom = f.custom /\ n.default = Lower[f.default]
      /\ n.log = [f.log EXCEPT !.level = Lower[@], !.format = Lower[@]]
      /\ n.systems = [id \in DOMAIN f.systems |-> NormalSystem(f.systems[id], id)]
  BY <1>2, NormalConfig
<1> HIDE DEF n
<1>4. n.server = c.server
  <2>1. c.server \in Server(BOOLEAN)
    BY DEF Config
  <2>2. /\ w.server \in Server(BOOLEAN \cup {Unset})
        /\ w.server.times = [d \in Durations |-> c.server.times[d] \div Millisecond]
    BY <1>1, <2>1 DEF Server, Wire
  <2>3. f.server.times = [d \in Durations |-> w.server.times[d] * Millisecond]
    BY <1>2, <2>2 DEF Server
  <2>4. ASSUME NEW d \in Durations PROVE f.server.times[d] = c.server.times[d]
    <3>1. PICK k \in Int : c.server.times[d] = k * Millisecond
      BY DEF Canonical
    <3>2. (k * Millisecond) \div Millisecond = k
      BY DEF Millisecond
    <3>3. QED
      BY <2>2, <2>3, <3>1, <3>2
  <2>5. f.server.times = c.server.times
    BY <2>1, <2>3, <2>4 DEF Server
  <2>6. FailOpen(c.server.failOpen) = c.server.failOpen
    BY <2>1, TextAssumption DEF Server, FailOpen
  <2>7. f.server = [c.server EXCEPT !.times = f.server.times, !.failOpen = FailOpen(c.server.failOpen)]
    BY <1>1, <1>2, <2>1, <2>2 DEF Server
  <2>8. [c.server EXCEPT !.times = c.server.times, !.failOpen = c.server.failOpen] = c.server
    BY <2>1 DEF Server
  <2>9. QED
    BY <1>3, <2>5, <2>6, <2>7, <2>8
<1>5. n.systems = c.systems
  <2>1. c.systems \in [DOMAIN c.systems -> System] /\ DOMAIN c.systems \subseteq Spellings
    BY SystemsOut DEF Config
  <2>2. \A id \in DOMAIN c.systems : Lower[c.systems[id].id] = id
    BY DEF Canonical
  <2>a. \A i \in DOMAIN w.systems :
          \E id \in DOMAIN c.systems : w.systems[i] = c.systems[id] /\ Lower[w.systems[i].id] = id
    BY <1>1, <2>2
  <2>b. \A id \in DOMAIN c.systems :
          \E i \in DOMAIN w.systems : w.systems[i] = c.systems[id] /\ Lower[w.systems[i].id] = id
    BY <1>1, <2>2
  <2>3. DOMAIN f.systems = DOMAIN c.systems
    BY <1>2, <2>a, <2>b
  <2>4. ASSUME NEW id \in DOMAIN c.systems PROVE f.systems[id] = c.systems[id]
    BY <1>2, <2>3, <2>a
  <2>5. ASSUME NEW id \in DOMAIN c.systems PROVE NormalSystem(c.systems[id], id) = c.systems[id]
    <3>1. c.systems[id] \in System /\ c.systems[id].id = id /\ Lower[id] = id
      BY <2>1 DEF Canonical
    <3>2. QED
      BY <3>1 DEF NormalSystem, System
  <2>6. QED
    BY <1>3, <2>1, <2>3, <2>4, <2>5
<1>6. n.default = c.default /\ n.log = c.log
  <2>1. c.log \in Log
    BY DEF Config
  <2>2. [c.log EXCEPT !.level = c.log.level, !.format = c.log.format] = c.log
    BY <2>1 DEF Log
  <2>3. f.log = c.log /\ f.default = c.default
    BY <1>1, <1>2
  <2>4. n.log = [c.log EXCEPT !.level = Lower[c.log.level], !.format = Lower[c.log.format]]
    BY <1>3, <2>3
  <2>5. QED
    BY <1>3, <2>2, <2>3, <2>4 DEF Canonical
<1>7. n = c
  <2>1. n \in Config /\ n.default = c.default /\ n.log = c.log /\ n.server = c.server
    BY <1>3, <1>4, <1>6
  <2>2. n.store = c.store /\ n.llm = c.llm
    BY <1>1, <1>2, <1>3
  <2>3. n.require = c.require /\ n.custom = c.custom
    BY <1>1, <1>2, <1>3
  <2>4. QED
    BY <1>5, <2>1, <2>2, <2>3, ConfigIs
<1>8. QED
  BY <1>7 DEF n, f, w

-----------------------------------------------------------------------------
(* Operators, crashes and restarts.                                        *)

\* The decoder of the PUT fills a form, whatever the operator sends.
EditsAreForms == \A w \in Wire : Edits(w) \subseteq Wire

Puts == [at : {"idle", "send", "restore", "apply", "persist"}, form : Wire \cup {Blank},
         next : Config \cup {Blank}, kept : SUBSET Spellings, version : Versions]

AdminTypeOK ==
  /\ cfg \in Versions /\ content \in [Versions -> Config] /\ op \in [Operators -> Puts]
  /\ persisted \in Nat /\ acknowledged \in Nat

\* What a PUT has in hand: a form, then a configuration fit to be published, with
\* the keys of the running one where it has not been replaced since; the lock
\* while what it has published is the running one.
InHand(o) ==
  /\ op[o].at \in {"send", "restore"} => op[o].form \in Wire
  /\ op[o].at \in {"apply", "persist"} =>
       op[o].next \in Config /\ Clean(op[o].next) /\ Canonical(op[o].next) /\ Validate(op[o].next)
  /\ op[o].at = "apply" =>
       /\ op[o].version <= cfg
       /\ op[o].version = cfg => \A id \in op[o].kept \cap DOMAIN op[o].next.systems :
                                   op[o].next.systems[id].key = RestoredKey(Redacted, id, live)
  /\ op[o].at = "persist" => writer = o /\ op[o].version = cfg /\ op[o].next = live

Filed ==
  /\ acknowledged <= persisted /\ persisted <= cfg
  /\ file # NoFile => Loaded(file) = content[persisted] /\ Validate(content[persisted])

AdminInv ==
  /\ AdminTypeOK /\ Filed
  /\ \A o \in Operators : InHand(o)
  /\ \A v \in 0 .. cfg : Clean(content[v])
  /\ ~overlapped => KeysOf(live) = intended

\* What the invariant says of one operator, and of the running configuration.
LEMMA AdminHere ==
  ASSUME AdminInv, NEW o \in Operators
  PROVE  /\ op \in [Operators -> Puts] /\ op[o] \in Puts /\ InHand(o)
         /\ cfg \in Nat /\ cfg <= MaxChanges /\ live \in Config /\ Clean(live)
BY ChangesAssumption DEF AdminInv, AdminTypeOK, Versions, live

\* A step that puts a new record for one operator and publishes nothing.
LEMMA PutKeepsAdmin ==
  ASSUME AdminInv, NEW o \in Operators, NEW put \in Puts, op' = [op EXCEPT ![o] = put],
         UNCHANGED <<vars, content, file, persisted, acknowledged, intended, overlapped>>,
         \A p \in Operators \ {o} : op[p].at = "persist" => writer' = writer,
         InHand(o)'
  PROVE  AdminInv'
<1>1. /\ cfg' = cfg /\ content' = content /\ file' = file /\ persisted' = persisted
      /\ acknowledged' = acknowledged /\ intended' = intended /\ overlapped' = overlapped /\ live' = live
  BY DEF vars, live
<1>2. op' \in [Operators -> Puts] /\ \A p \in Operators \ {o} : op'[p] = op[p]
  BY AdminHere
<1>3. ASSUME NEW p \in Operators PROVE InHand(p)'
  <2>1. CASE p = o
    BY <2>1
  <2>2. CASE p # o
    <3>1. op'[p] = op[p] /\ InHand(p) /\ (op[p].at = "persist" => writer' = writer)
      BY <1>2, <2>2 DEF AdminInv
    <3>2. QED
      BY <1>1, <3>1 DEF InHand
  <2>3. QED
    BY <2>1, <2>2
<1>4. AdminTypeOK'
  BY <1>1, <1>2 DEF AdminInv, AdminTypeOK
<1>5. Filed'
  BY <1>1 DEF AdminInv, Filed
<1>6. QED
  BY <1>1, <1>3, <1>4, <1>5 DEF AdminInv

LEMMA IdlePut == Idle \in Puts /\ Idle.at = "idle"
BY ChangesAssumption DEF Idle, Puts, Versions

LEMMA GetKeepsAdmin ==
  ASSUME EditsAreForms, AdminInv, NEW o \in Operators, Get(o)
  PROVE  AdminInv'
<1>1. ToWire(Redact(live)) \in Wire
  BY AdminHere, RedactConfig, ToWireForm
<1>2. PICK form \in Edits(ToWire(Redact(live))) : op' = [op EXCEPT ![o] = [Idle EXCEPT !.at = "send", !.form = form]]
  BY DEF Get
<1>3. form \in Wire
  BY <1>1 DEF EditsAreForms
<1> DEFINE put == [Idle EXCEPT !.at = "send", !.form = form]
<1>4. put \in Puts /\ put.at = "send" /\ put.form = form
  BY <1>3, IdlePut DEF Puts
<1>5. op'[o] = put
  BY <1>2, AdminHere
<1>6. InHand(o)'
  BY <1>3, <1>4, <1>5 DEF InHand
<1> HIDE DEF put
<1>7. QED
  BY <1>2, <1>4, <1>6, PutKeepsAdmin DEF Get, put

LEMMA SendKeepsAdmin ==
  ASSUME AdminInv, NEW o \in Operators, Send(o)
  PROVE  AdminInv'
<1>1. CASE Move(o, "restore")
  <2> DEFINE put == [op[o] EXCEPT !.at = "restore"]
  <2>1. op' = [op EXCEPT ![o] = put]
    BY <1>1, AdminHere DEF Move
  <2>2. put \in Puts /\ put.at = "restore" /\ put.form = op[o].form
    BY AdminHere DEF Puts
  <2>3. op'[o] = put /\ op[o].form \in Wire
    BY <2>1, AdminHere DEF Send, At, InHand
  <2>4. InHand(o)'
    BY <2>2, <2>3 DEF InHand
  <2>5. QED
    BY <2>1, <2>2, <2>4, PutKeepsAdmin DEF Send
<1>2. CASE op' = [op EXCEPT ![o] = Idle]
  <2>1. InHand(o)'
    BY <1>2, IdlePut, AdminHere DEF InHand
  <2>2. QED
    BY <1>2, <2>1, IdlePut, PutKeepsAdmin DEF Send
<1>3. QED
  BY <1>1, <1>2 DEF Send

\* What a PUT has restored and validated is fit to be published.
LEMMA RestoreKeepsAdmin ==
  ASSUME AdminInv, NEW o \in Operators, RestoreSecrets(o)
  PROVE  AdminInv'
<1>1. CASE Validate(Prepared(o))
  <2> DEFINE sent == FromWire(op[o].form)
             put == [op[o] EXCEPT !.at = "apply", !.next = Prepared(o), !.form = Blank,
                                  !.kept = Kept(o), !.version = cfg]
  <2>1. op[o].form \in Wire
    BY AdminHere DEF RestoreSecrets, At, InHand
  <2>2. /\ Prepared(o) \in Config /\ Clean(Prepared(o)) /\ Canonical(Prepared(o))
        /\ DOMAIN Prepared(o).systems = DOMAIN sent.systems
        /\ \A id \in DOMAIN Prepared(o).systems :
             Prepared(o).systems[id].key = RestoredKey(sent.systems[id].key, id, live)
    BY <2>1, AdminHere, PreparedConfig DEF Prepared
  <2>3. Kept(o) \in SUBSET Spellings /\ \A id \in Kept(o) : sent.systems[id].key = Redacted
    <3>1. sent.systems \in Systems
      BY <2>1, FromWireConfig DEF Config
    <3>2. DOMAIN sent.systems \subseteq Spellings
      BY <3>1, SystemsOut
    <3>3. QED
      BY <3>2 DEF Kept
  <2>4. /\ put \in Puts /\ put.at = "apply" /\ put.next = Prepared(o) /\ put.kept = Kept(o) /\ put.version = cfg
    <3>1. cfg \in Versions /\ op[o] \in Puts
      BY AdminHere DEF AdminInv, AdminTypeOK
    <3>2. QED
      BY <2>2, <2>3, <3>1 DEF Puts
  <2>5. op' = [op EXCEPT ![o] = put] /\ op'[o] = put
    BY <1>1, AdminHere DEF RestoreSecrets
  <2>6. cfg' = cfg /\ live' = live
    BY DEF RestoreSecrets, vars, live
  <2> HIDE DEF put, sent
  <2>7. InHand(o)'
    <3>1. cfg \in Nat
      BY AdminHere
    <3>2. \A id \in Kept(o) \cap DOMAIN Prepared(o).systems :
            Prepared(o).systems[id].key = RestoredKey(Redacted, id, live)
      BY <2>2, <2>3
    <3>3. \A id \in Kept(o) \cap DOMAIN Prepared(o).systems :
            Prepared(o).systems[id].key = RestoredKey(Redacted, id, live')
      BY <3>2, <2>6
    <3>4. Validate(Prepared(o))
      BY <1>1
    <3> DEFINE next == Prepared(o)
    <3>5. /\ op'[o].at = "apply" /\ op'[o].next = next /\ op'[o].kept = Kept(o) /\ op'[o].version = cfg
      BY <2>4, <2>5
    <3> HIDE DEF next
    <3>6. QED
      BY <2>2, <2>6, <3>1, <3>3, <3>4, <3>5 DEF InHand, next
  <2>8. QED
    BY <2>4, <2>5, <2>7, PutKeepsAdmin DEF RestoreSecrets
<1>2. CASE ~ Validate(Prepared(o))
  <2>1. op' = [op EXCEPT ![o] = Idle]
    BY <1>2 DEF RestoreSecrets
  <2>2. InHand(o)'
    BY <2>1, IdlePut, AdminHere DEF InHand
  <2>3. QED
    BY <2>1, <2>2, IdlePut, PutKeepsAdmin DEF RestoreSecrets
<1>3. QED
  BY <1>1, <1>2

\* A publication under the lock, of what was restored from the running
\* configuration unless one has come between.
LEMMA ApplyKeepsAdmin ==
  ASSUME AdminInv, NEW o \in Operators, ApplyConfig(o)
  PROVE  AdminInv'
<1> DEFINE next == op[o].next
           put == [op[o] EXCEPT !.at = "persist", !.version = cfg + 1]
<1>1. /\ op[o].at = "apply" /\ writer = Nobody /\ writer' = o /\ file' = file
      /\ persisted' = persisted /\ acknowledged' = acknowledged
      /\ cfg < MaxChanges /\ cfg' = cfg + 1 /\ cfg \in Nat /\ MaxChanges \in Nat
  BY AdminHere, ChangesAssumption DEF ApplyConfig, At, PublishNext, Apply
<1>2. /\ next \in Config /\ Clean(next) /\ Canonical(next) /\ Validate(next) /\ op[o].version <= cfg
      /\ op[o].version = cfg => \A id \in op[o].kept \cap DOMAIN next.systems :
                                   next.systems[id].key = RestoredKey(Redacted, id, live)
  BY <1>1, AdminHere DEF InHand
<1>3. cfg + 1 \in Versions /\ cfg \in Versions
  BY <1>1 DEF Versions
<1>4. content' = [content EXCEPT ![cfg + 1] = next] /\ content \in [Versions -> Config]
  BY <1>1 DEF ApplyConfig, PublishNext, AdminInv, AdminTypeOK
<1>5. /\ content' \in [Versions -> Config] /\ live' = next
      /\ \A v \in Versions \ {cfg + 1} : content'[v] = content[v]
  BY <1>1, <1>2, <1>3, <1>4 DEF live
<1>6. op' = [op EXCEPT ![o] = put]
  BY <1>1, AdminHere DEF ApplyConfig, PublishNext
<1>7. put \in Puts /\ put.at = "persist" /\ put.version = cfg + 1 /\ put.next = next
  BY <1>3, AdminHere DEF Puts
<1> HIDE DEF put, next
<1>8. /\ op' \in [Operators -> Puts] /\ op'[o] = put
      /\ \A p \in Operators \ {o} : op'[p] = op[p]
  BY <1>6, <1>7, AdminHere
<1>9. ASSUME NEW p \in Operators PROVE InHand(p)'
  <2>1. CASE p = o
    BY <1>1, <1>2, <1>5, <1>7, <1>8, <2>1 DEF InHand
  <2>2. CASE p # o
    <3>1. op'[p] = op[p] /\ InHand(p) /\ op[p].at # "persist"
      BY <1>1, <1>8, <2>2, AdminAssumption DEF AdminInv, InHand
    <3>2. op[p].at = "apply" => op[p].version <= cfg + 1 /\ op[p].version # cfg + 1
      <4>1. op[p].at = "apply" => op[p].version <= cfg
        BY <3>1 DEF InHand
      <4>2. op[p].version \in Nat
        BY AdminHere DEF Puts, Versions
      <4>3. QED
        BY <1>1, <4>1, <4>2
    <3>3. QED
      BY <1>1, <3>1, <3>2 DEF InHand
  <2>3. QED
    BY <2>1, <2>2
<1>10. AdminTypeOK'
  BY <1>1, <1>3, <1>5, <1>8 DEF AdminInv, AdminTypeOK
<1>11. Filed'
  <2>1. acknowledged <= persisted /\ persisted <= cfg /\ persisted \in Nat
    BY DEF AdminInv, AdminTypeOK, Filed
  <2>2. persisted \in Versions \ {cfg + 1} /\ persisted <= cfg + 1
    BY <1>1, <2>1 DEF Versions
  <2>3. content'[persisted] = content[persisted] /\ Loaded(file)' = Loaded(file)
    BY <1>1, <1>5, <2>2 DEF Loaded
  <2>4. QED
    BY <1>1, <2>1, <2>2, <2>3 DEF AdminInv, Filed
<1>12. ASSUME NEW v \in 0 .. cfg' PROVE Clean(content'[v])
  <2>1. CASE v = cfg + 1
    BY <1>2, <1>3, <1>4, <2>1 DEF next
  <2>2. CASE v # cfg + 1
    <3>1. v \in 0 .. cfg /\ v \in Versions
      BY <1>1, <2>2 DEF Versions
    <3>2. QED
      BY <1>5, <2>2, <3>1 DEF AdminInv
  <2>3. QED
    BY <2>1, <2>2
<1>13. ASSUME ~overlapped' PROVE KeysOf(live') = intended'
  <2>1. ~overlapped /\ op[o].version = cfg
    BY <1>13 DEF ApplyConfig, PublishNext
  <2>2. intended = KeysOf(live)
    BY <2>1 DEF AdminInv
  <2>3. DOMAIN intended = DOMAIN live.systems /\ \A id \in DOMAIN live.systems : intended[id] = live.systems[id].key
    BY <2>2 DEF KeysOf
  <2>4. intended' = [id \in DOMAIN next.systems |->
                       IF id \notin op[o].kept THEN next.systems[id].key
                       ELSE IF id \in DOMAIN intended THEN intended[id] ELSE Blank]
    BY DEF ApplyConfig, PublishNext, next
  <2>5. \A id \in op[o].kept \cap DOMAIN next.systems :
          next.systems[id].key = IF id \in DOMAIN live.systems THEN live.systems[id].key ELSE Blank
    BY <1>2, <2>1 DEF RestoredKey
  <2>6. \A id \in DOMAIN next.systems : intended'[id] = next.systems[id].key
    BY <2>3, <2>4, <2>5
  <2>7. KeysOf(next) = [id \in DOMAIN next.systems |-> next.systems[id].key]
    BY DEF KeysOf
  <2>8. QED
    BY <1>5, <2>4, <2>6, <2>7
<1>14. KeysOf(live)' = KeysOf(live')
  BY DEF KeysOf
<1>15. QED
  BY <1>9, <1>10, <1>11, <1>12, <1>13, <1>14 DEF AdminInv

\* The write replaces the file by what was published last, or not at all.
LEMMA PersistKeepsAdmin ==
  ASSUME AdminInv, NEW o \in Operators, Persist(o)
  PROVE  AdminInv'
<1>1. /\ op[o].at = "persist" /\ op' = [op EXCEPT ![o] = Idle] /\ writer' = Nobody
      /\ cfg' = cfg /\ content' = content /\ intended' = intended /\ overlapped' = overlapped
      /\ live' = live
  BY DEF Persist, At, vars, live
<1>2. /\ writer = o /\ op[o].version = cfg /\ op[o].next = live /\ cfg \in Nat
      /\ op[o].next \in Config /\ Canonical(op[o].next) /\ Validate(op[o].next)
  BY <1>1, AdminHere DEF InHand
<1>3. op' \in [Operators -> Puts] /\ op'[o] = Idle /\ \A p \in Operators \ {o} : op'[p] = op[p]
  BY <1>1, IdlePut, AdminHere
<1>4. ASSUME NEW p \in Operators PROVE InHand(p)'
  <2>1. CASE p = o
    BY <1>3, <2>1, IdlePut DEF InHand
  <2>2. CASE p # o
    <3>1. op'[p] = op[p] /\ InHand(p) /\ op[p].at # "persist"
      BY <1>2, <1>3, <2>2 DEF AdminInv, InHand
    <3>2. QED
      BY <1>1, <3>1 DEF InHand
  <2>3. QED
    BY <2>1, <2>2
<1>5. CASE UNCHANGED <<file, persisted, acknowledged>>
  <2>1. Filed' /\ AdminTypeOK'
    BY <1>1, <1>3, <1>5 DEF AdminInv, Filed, AdminTypeOK, Loaded
  <2>2. QED
    BY <1>1, <1>4, <2>1 DEF AdminInv
<1>6. CASE /\ file' = ToWire(op[o].next) /\ persisted' = op[o].version
           /\ acknowledged' = IF op[o].version > acknowledged THEN op[o].version ELSE acknowledged
  <2>1. acknowledged \in Nat /\ persisted \in Nat /\ acknowledged <= persisted /\ persisted <= cfg
    BY DEF AdminInv, AdminTypeOK, Filed
  <2>2. persisted' = cfg /\ acknowledged' = cfg /\ live = content[cfg]
    BY <1>2, <1>6, <2>1 DEF live
  <2>3. \A id \in DOMAIN live.systems : live.systems[id].id = id
    BY <1>2 DEF Validate
  <2>4. Normal(FromWire(ToWire(live))) = live
    BY <1>2, <2>3, RoundTripConfig
  <2>5. file' # NoFile => Loaded(file)' = live
    BY <1>2, <1>6, <2>4 DEF Loaded
  <2>6. Filed'
    BY <1>1, <1>2, <2>2, <2>5 DEF Filed
  <2>7. AdminTypeOK'
    BY <1>1, <1>2, <1>3, <2>2 DEF AdminInv, AdminTypeOK
  <2>8. QED
    BY <1>1, <1>4, <2>6, <2>7 DEF AdminInv
<1>7. QED
  BY <1>5, <1>6 DEF Persist

\* A crash forgets every PUT; the start publishes what the file says.
LEMMA RestartKeepsAdmin ==
  ASSUME AdminInv, Restart
  PROVE  AdminInv'
<1>1. /\ cfg < MaxChanges /\ cfg' = cfg + 1 /\ cfg \in Nat /\ MaxChanges \in Nat
      /\ op' = [o \in Operators |-> Idle] /\ file' = file /\ overlapped' = FALSE
      /\ persisted' = cfg + 1 /\ acknowledged' = 0 /\ intended' = KeysOf(Loaded(file))
  BY ChangesAssumption DEF Restart, AdminInv, AdminTypeOK, Versions
<1>2. Loaded(file) \in Config /\ Clean(Loaded(file)) /\ Validate(Loaded(file))
  <2>1. Validate(Loaded(file))
    BY DEF Restart
  <2>2. CASE file = NoFile
    BY <2>1, <2>2, DefaultConfig, DefaultClean DEF Loaded
  <2>3. CASE file # NoFile
    <3>1. Loaded(file) = content[persisted] /\ persisted \in 0 .. cfg /\ persisted \in Versions
      BY <1>1, <2>3 DEF AdminInv, AdminTypeOK, Filed, Versions
    <3>2. QED
      BY <2>1, <3>1 DEF AdminInv, AdminTypeOK
  <2>4. QED
    BY <2>2, <2>3
<1>3. cfg + 1 \in Versions
  BY <1>1 DEF Versions
<1>4. content' = [content EXCEPT ![cfg + 1] = Loaded(file)] /\ content \in [Versions -> Config]
  BY <1>1 DEF Restart, AdminInv, AdminTypeOK
<1>5. /\ content' \in [Versions -> Config] /\ content'[cfg + 1] = Loaded(file)
      /\ \A v \in Versions \ {cfg + 1} : content'[v] = content[v]
  BY <1>2, <1>3, <1>4
<1>6. AdminTypeOK'
  BY <1>1, <1>3, <1>5, IdlePut DEF AdminTypeOK
<1>7. Filed'
  <2>1. Loaded(file)' = Loaded(file)
    BY <1>1 DEF Loaded
  <2>2. QED
    BY <1>1, <1>2, <1>5, <2>1 DEF Filed
<1>8. \A o \in Operators : InHand(o)'
  BY <1>1, IdlePut DEF InHand
<1>9. ASSUME NEW v \in 0 .. cfg' PROVE Clean(content'[v])
  <2>1. CASE v = cfg + 1
    BY <1>2, <1>5, <2>1
  <2>2. CASE v # cfg + 1
    <3>1. v \in 0 .. cfg /\ v \in Versions
      BY <1>1, <2>2 DEF Versions
    <3>2. QED
      BY <1>5, <2>2, <3>1 DEF AdminInv
  <2>3. QED
    BY <2>1, <2>2
<1>10. KeysOf(live)' = intended'
  BY <1>1, <1>5 DEF live, KeysOf
<1>11. QED
  BY <1>6, <1>7, <1>8, <1>9, <1>10 DEF AdminInv

LEMMA AdminInvariant == ASSUME EditsAreForms PROVE AdminSpec => []AdminInv
<1>1. AdminInit => AdminInv
  <2> SUFFICES ASSUME AdminInit PROVE AdminInv
    OBVIOUS
  <2>1. /\ cfg = 0 /\ content = [v \in Versions |-> Default] /\ file = NoFile /\ op = [o \in Operators |-> Idle]
        /\ persisted = 0 /\ acknowledged = 0 /\ intended = KeysOf(Default)
    BY DEF AdminInit, Init
  <2>2. 0 \in Versions /\ live = Default
    BY <2>1, ChangesAssumption DEF Versions, live
  <2>3. AdminTypeOK
    BY <2>1, <2>2, DefaultConfig, IdlePut DEF AdminTypeOK
  <2>4. Filed /\ \A o \in Operators : InHand(o)
    BY <2>1, IdlePut DEF Filed, InHand
  <2>5. \A v \in 0 .. cfg : Clean(content[v])
    BY <2>1, <2>2, DefaultClean
  <2>6. QED
    BY <2>1, <2>2, <2>3, <2>4, <2>5 DEF AdminInv
<1>2. AdminInv /\ [AdminNext]_<<vars, admin>> => AdminInv'
  <2> SUFFICES ASSUME AdminInv, [AdminNext]_<<vars, admin>> PROVE AdminInv'
    OBVIOUS
  <2>1. CASE Restart
    BY <2>1, RestartKeepsAdmin
  <2>2. CASE \E o \in Operators : OperatorStep(o)
    BY <2>2, GetKeepsAdmin, SendKeepsAdmin, RestoreKeepsAdmin, ApplyKeepsAdmin, PersistKeepsAdmin DEF OperatorStep
  <2>3. CASE UNCHANGED <<vars, admin>>
    <3>1. /\ cfg' = cfg /\ content' = content /\ op' = op /\ file' = file /\ writer' = writer
          /\ persisted' = persisted /\ acknowledged' = acknowledged /\ intended' = intended
          /\ overlapped' = overlapped
      BY <2>3 DEF vars, admin
    <3>2. live' = live /\ Loaded(file)' = Loaded(file)
      BY <3>1 DEF live, Loaded
    <3>3. AdminTypeOK' /\ Filed' /\ \A o \in Operators : InHand(o)'
      BY <3>1, <3>2 DEF AdminInv, AdminTypeOK, Filed, InHand
    <3>4. QED
      BY <3>1, <3>2, <3>3 DEF AdminInv
  <2>4. QED
    BY <2>1, <2>2, <2>3 DEF AdminNext
<1>3. QED
  BY <1>1, <1>2, PTL DEF AdminSpec

\* restoreSecrets keeps the placeholder of redactSecrets out of the running
\* configuration, whatever operators send and however their PUTs interleave;
\* while no two overlap, each system keeps the key somebody set last.
THEOREM SecretsKept == ASSUME EditsAreForms PROVE AdminSpec => []SecretsSurvive
<1>1. AdminInv => SecretsSurvive
  <2> SUFFICES ASSUME AdminInv PROVE SecretsSurvive
    OBVIOUS
  <2>1. Clean(live)
    BY ChangesAssumption DEF AdminInv, AdminTypeOK, Versions, live
  <2>2. QED
    BY <2>1 DEF AdminInv, SecretsSurvive, Clean
<1>2. QED
  BY <1>1, AdminInvariant, PTL

\* Manager.Apply publishes before it persists and persists under the lock: a start
\* finds the configuration last written, valid, and none older than one an
\* operator was told is persisted.
THEOREM RestartFinds == ASSUME EditsAreForms PROVE AdminSpec => []RestartFindsPersisted
<1>1. AdminInv => RestartFindsPersisted
  BY DEF AdminInv, Filed, RestartFindsPersisted
<1>2. QED
  BY <1>1, AdminInvariant, PTL

=============================================================================
