---------------------------- MODULE ConfigRules ----------------------------
(***************************************************************************)
(* The configuration as internal/config and internal/httpapi/admin.go      *)
(* convert, normalise, validate, redact and restore it.  Texts are model    *)
(* values; `Lower' is TrimSpace and ToLower on the ones in use.  Fields     *)
(* that are only carried along (addresses, names, labels) are left out.     *)
(* Slip_... marks a mistake the code could have made, not a part of it.     *)
(***************************************************************************)
EXTENDS Integers, Sequences, FiniteSets, SequencesExt

CONSTANTS
  Text,           \* what a text field may hold
  Lower,          \* spelling -> its canonical form
  Blank,          \* the empty text
  Redacted,       \* "***"
  Unset,          \* an optional wire field that is not there
  KnownTypes,     \* pd.AllTypes
  Initials,       \* those masked by initials
  NameShaped,     \* custom type names the expression accepts
  Compiles,       \* patterns regexp.Compile accepts
  Strategies      \* the registered strategies, none in a bare config package

Spellings == DOMAIN Lower
ASSUME TextAssumption ==
  /\ {Blank, Redacted, "stars_keep2", "initials", ":8080", "model", "token", "k1"} \cup KnownTypes \subseteq Text
  /\ Redacted \notin {Blank, "k1"} /\ Unset \notin BOOLEAN
  /\ {Blank, "default", "crm", "info", "json"} \subseteq Spellings /\ Lower \in [Spellings -> Spellings]
  /\ Lower[Blank] = Blank /\ \A s \in Spellings : Lower[Lower[s]] = Lower[s]

Millisecond == 1000                   \* durations in memory are finer than on the wire
Levels == {"debug", "info", "warn", "error"}
Formats == {"json", "text"}
Durations == {"read", "write", "idle", "process"}
InTenths(n) == 0 <= n /\ n <= 10         \* confidences in tenths

-----------------------------------------------------------------------------
(* The structs, in memory and on the wire, without what is carried along.   *)

Rule == [enabled : BOOLEAN, strategy : Text, companions : SUBSET Text, confidence : Int]
System == [id : Spellings, enabled : BOOLEAN, key : Text, demask : BOOLEAN,
           types : UNION {[T -> Rule] : T \in SUBSET Text}]
Server(failOpens) == [addr : Text, maxBody : Int, maxConcurrent : Int, failOpen : failOpens, token : Text,
                      times : [Durations -> Int]]
Store == [shards : Int, ttl : Int, maxEntries : Int, maxValue : Int, maxBytes : Int]
Log == [level : Spellings, format : Spellings, sample : Int]
LLM == [timeout : Int, model : Text, strategy : Text, perMinute : Int]
CustomType == [name : Text, pattern : Text, window : Int, confidence : Int, strategy : Text]
Systems == UNION {[S -> System] : S \in {T \in SUBSET Spellings : IsFiniteSet(T)}}
Config == [server : Server(BOOLEAN), store : Store, log : Log, llm : LLM, default : Spellings, require : BOOLEAN,
           custom : Seq(CustomType), systems : Systems]
Wire == [server : Server(BOOLEAN \cup {Unset}), store : Store, log : Log, llm : LLM, default : Spellings, require : BOOLEAN,
         custom : Seq(CustomType), systems : Seq(System)]

\* Default and defaultTypeRules, as far as the rules below look at them.
DefaultRules == [t \in KnownTypes |->
  [enabled |-> TRUE, strategy |-> IF t \in Initials THEN "initials" ELSE "stars_keep2",
   companions |-> {}, confidence |-> 7]]
DefaultSystem(id, key, demask) ==
  [id |-> id, enabled |-> TRUE, key |-> key, demask |-> demask, types |-> DefaultRules]
Default ==
  [server |-> [addr |-> ":8080", maxBody |-> 16, maxConcurrent |-> 256, failOpen |-> TRUE, token |-> Blank,
               times |-> [d \in Durations |-> 5000 * Millisecond]],
   store |-> [shards |-> 256, ttl |-> 1800, maxEntries |-> 1000, maxValue |-> 8, maxBytes |-> 1024],
   log |-> [level |-> "info", format |-> "json", sample |-> 0],
   llm |-> [timeout |-> 60000, model |-> "model", strategy |-> "token", perMinute |-> 60],
   default |-> "default", require |-> FALSE, custom |-> <<>>,
   systems |-> [id \in {"default", "crm"} |-> DefaultSystem(id, IF id = "crm" THEN "k1" ELSE Blank, TRUE)]]

-----------------------------------------------------------------------------
(* The wire form: systems are a list, durations whole milliseconds.        *)

ToWire(c) ==
  [c EXCEPT !.server.times = [d \in Durations |-> @[d] \div Millisecond],
            !.systems = SetToSeq({@[k] : k \in DOMAIN @})]

\* A file without fail_open keeps the default; of two entries with one id the
\* later one wins.
FailOpen(f) == IF f = Unset THEN TRUE ELSE f
LastEntry(list, id) ==
  CHOOSE i \in DOMAIN list : Lower[list[i].id] = id /\ \A j \in i + 1 .. Len(list) : Lower[list[j].id] # id
FromWire(w) ==
  [w EXCEPT !.server.times = [d \in Durations |-> @[d] * Millisecond],
            !.server.failOpen = FailOpen(@),
            !.systems = [id \in {Lower[@[i].id] : i \in DOMAIN @} |-> @[LastEntry(@, id)]]]

\* normalize: FromWire has keyed the systems by canonical id already.
NormalSystem(s, id) == [s EXCEPT !.id = IF Lower[s.id] = Blank THEN id ELSE Lower[s.id]]
Normal(c) ==
  [c EXCEPT !.default = Lower[@],
            !.systems = [id \in DOMAIN @ |-> NormalSystem(@[id], id)],
            !.log.level = Lower[@], !.log.format = Lower[@]]

-----------------------------------------------------------------------------
(* Validate.                                                               *)

ValidServer(s) ==
  /\ s.addr # Blank
  /\ \A d \in Durations : s.times[d] > 0
  /\ s.maxBody > 0 /\ s.maxConcurrent >= 0

ValidStore(s) ==
  /\ s.shards > 0 /\ s.ttl > 0 /\ s.maxEntries > 0 /\ s.maxBytes >= 0
  /\ s.maxBytes > 0 /\ s.maxValue > 0 => s.maxValue * 2 <= s.maxBytes
  /\ s.maxValue > 0

ValidLog(l) == l.level \in Levels /\ l.format \in Formats /\ l.sample >= 0

\* Names are checked once any strategy is registered.
KnownStrategy(name) == Strategies # {} => name \in Strategies

ValidLLM(l) ==
  /\ l.timeout > 0 /\ l.perMinute >= 0
  /\ l.model # Blank /\ l.strategy # Blank /\ KnownStrategy(l.strategy)

ValidRule(type, r) ==
  /\ type \in KnownTypes /\ r.companions \subseteq KnownTypes
  /\ InTenths(r.confidence)
  /\ r.enabled => r.strategy # Blank /\ KnownStrategy(r.strategy)

ValidCustom(ct) ==
  /\ ct.name \in NameShaped \ KnownTypes
  /\ ct.pattern \in Compiles
  /\ 0 <= ct.window /\ ct.window <= 200
  /\ InTenths(ct.confidence) /\ KnownStrategy(ct.strategy)

Validate(c) ==
  /\ ValidServer(c.server) /\ ValidStore(c.store) /\ ValidLog(c.log) /\ ValidLLM(c.llm)
  /\ c.default # Blank /\ Lower[c.default] \in DOMAIN c.systems
  /\ \A i, j \in DOMAIN c.custom : c.custom[i].name = c.custom[j].name => i = j
  /\ \A i \in DOMAIN c.custom : ValidCustom(c.custom[i])
  /\ \A id \in DOMAIN c.systems :
       LET s == c.systems[id]
       IN s.id = id /\ \A t \in DOMAIN s.types : ValidRule(t, s.types[t])

-----------------------------------------------------------------------------
(* The admin routes.                                                       *)

WithKey(s, key) == [s EXCEPT !.key = key]
Hidden(secret) == IF secret = Blank THEN Blank ELSE Redacted
Redact(c) ==
  [c EXCEPT !.server.token = Hidden(@),
            !.systems = [id \in DOMAIN @ |-> WithKey(@[id], Hidden(@[id].key))]]

\* restoreSecrets: what a redacted key stands for; a system the running
\* configuration does not have gets none.
Slip_KeyAsSent(key, id, cur) == key
RestoredKey(key, id, cur) ==
  IF key # Redacted THEN key ELSE IF id \in DOMAIN cur.systems THEN cur.systems[id].key ELSE Blank
Restore(next, cur) ==
  [next EXCEPT !.server.token = IF @ = Redacted THEN cur.server.token ELSE @,
               !.systems = [id \in DOMAIN @ |-> WithKey(@[id], RestoredKey(@[id].key, id, cur))]]
=============================================================================
