------------------------------- MODULE Admin -------------------------------
(***************************************************************************)
(* PUT /admin/config by several operators, Manager.Apply with its file, and *)
(* a crash and restart at any moment.  An operator reads the redacted        *)
(* configuration, edits it and sends it back, by and by.  What a request    *)
(* makes of the new configuration is CustomSync.                            *)
(* Slip_... marks a mistake the code could have made, not a part of it.     *)
(***************************************************************************)
EXTENDS CustomSync, ConfigRules

CONSTANTS
  Operators,
  Edits(_),       \* what an operator may make of the form it was given
  Credential,     \* operator -> the token it sends
  EnvToken,       \* PDGUARD_ADMIN_TOKEN, or Blank
  Nobody, NoFile

ASSUME AdminAssumption == Nobody \notin Operators

VARIABLES
  content,        \* version -> the configuration published as it
  file,           \* the wire form on disk, or NoFile
  writer,         \* holder of writeMu
  op,             \* operator -> its PUT
  persisted,      \* history: the version in the file
  acknowledged,   \* history: the newest version an operator was told is persisted
  intended,       \* history: system -> the key somebody set last
  overlapped      \* history: a configuration came between a PUT's look at the secrets and its publication

admin == <<content, file, writer, op, persisted, acknowledged, intended, overlapped>>
Idle == [at |-> "idle", form |-> Blank, next |-> Blank, kept |-> {}, version |-> 0]

\* Load: a missing file means the defaults.
Loaded(f) == IF f = NoFile THEN Default ELSE Normal(FromWire(f))

KeysOf(c) == [id \in DOMAIN c.systems |-> c.systems[id].key]

AdminInit ==
  /\ Init
  /\ content = [v \in Versions |-> Default]
  /\ file = NoFile /\ writer = Nobody
  /\ op = [o \in Operators |-> Idle]
  /\ persisted = 0 /\ acknowledged = 0 /\ overlapped = FALSE
  /\ intended = KeysOf(Default)

live == content[cfg]
At(o, step) == op[o].at = step
Move(o, to) == op' = [op EXCEPT ![o].at = to]

\* adminAuth: the environment's token, then the live configuration's.
Authorised(o) ==
  LET want == IF EnvToken # Blank THEN EnvToken ELSE live.server.token
  IN want = Blank \/ Credential[o] = want

\* GET: the redacted configuration, to be edited.
Get(o) ==
  /\ At(o, "idle")
  /\ \E form \in Edits(ToWire(Redact(live))) :
       op' = [op EXCEPT ![o] = [Idle EXCEPT !.at = "send", !.form = form]]
  /\ UNCHANGED <<vars, content, file, writer, persisted, acknowledged, intended, overlapped>>

\* PUT: authorised by one configuration, ...
Send(o) ==
  /\ At(o, "send")
  /\ IF Authorised(o) THEN Move(o, "restore") ELSE op' = [op EXCEPT ![o] = Idle]
  /\ UNCHANGED <<vars, content, file, writer, persisted, acknowledged, intended, overlapped>>

\* ... its secrets restored from another one, then validated, all before the lock.
Kept(o) == LET sent == FromWire(op[o].form).systems IN {id \in DOMAIN sent : sent[id].key = Redacted}
Prepared(o) == Normal(Restore(FromWire(op[o].form), live))
RestoreSecrets(o) ==
  /\ At(o, "restore")
  /\ op' = [op EXCEPT ![o] = IF Validate(Prepared(o))
                             THEN [op[o] EXCEPT !.at = "apply", !.next = Prepared(o), !.form = Blank,
                                                !.kept = Kept(o), !.version = cfg]
                             ELSE Idle]
  /\ UNCHANGED <<vars, content, file, writer, persisted, acknowledged, intended, overlapped>>

PublishNext(o) ==
  /\ Apply
  /\ content' = [content EXCEPT ![cfg'] = op[o].next]
  /\ intended' = [id \in DOMAIN op[o].next.systems |->
                    IF id \notin op[o].kept THEN op[o].next.systems[id].key
                    ELSE IF id \in DOMAIN intended THEN intended[id] ELSE Blank]
  /\ overlapped' = (overlapped \/ op[o].version # cfg)
  /\ op' = [op EXCEPT ![o].at = "persist", ![o].version = cfg']

Slip_NoLock(o) ==
  /\ At(o, "apply")
  /\ PublishNext(o)
  /\ UNCHANGED <<file, writer, persisted, acknowledged>>

\* Apply takes the lock, publishes, ...
ApplyConfig(o) ==
  /\ At(o, "apply") /\ writer = Nobody
  /\ writer' = o
  /\ PublishNext(o)
  /\ UNCHANGED <<file, persisted, acknowledged>>

\* ... and persists through a temporary file and a rename: the file is replaced
\* as a whole or, with ErrNotPersisted, not at all.
Persist(o) ==
  /\ At(o, "persist")
  /\ \/ /\ file' = ToWire(op[o].next)
        /\ persisted' = op[o].version
        /\ acknowledged' = IF op[o].version > acknowledged THEN op[o].version ELSE acknowledged
     \/ UNCHANGED <<file, persisted, acknowledged>>
  /\ op' = [op EXCEPT ![o] = Idle] /\ writer' = Nobody
  /\ UNCHANGED <<vars, content, intended, overlapped>>

\* A process that dies comes back with the file; New publishes it at once.
Restart ==
  /\ cfg < MaxChanges
  /\ Validate(Loaded(file))
  /\ cfg' = cfg + 1
  /\ content' = [content EXCEPT ![cfg'] = Loaded(file)]
  /\ types' = cfg' /\ labels' = cfg' /\ dicts' = cfg' /\ applied' = cfg'
  /\ pc' = [w \in Workers |-> "idle"] /\ cur' = [w \in Workers |-> 0] /\ whole' = TRUE
  /\ writer' = Nobody /\ op' = [o \in Operators |-> Idle]
  /\ persisted' = cfg' /\ acknowledged' = 0
  /\ intended' = KeysOf(Loaded(file)) /\ overlapped' = FALSE
  /\ UNCHANGED file

OperatorStep(o) == Get(o) \/ Send(o) \/ RestoreSecrets(o) \/ ApplyConfig(o) \/ Persist(o)
AdminNext == Restart \/ \E o \in Operators : OperatorStep(o)
AdminSpec == AdminInit /\ [][AdminNext]_<<vars, admin>>

-----------------------------------------------------------------------------
\* "credentials the client could not have known" come back "from the running
\* configuration, so a round-tripped GET does not wipe them": while PUTs do not
\* overlap, each system has the key somebody set last; and the placeholder is
\* never a secret, whatever overlaps.
SecretsSurvive ==
  /\ ~overlapped => KeysOf(live) = intended
  /\ live.server.token # Redacted /\ \A id \in DOMAIN live.systems : live.systems[id].key # Redacted

\* A crash at any moment is followed by a start, and by the configuration last
\* put in the file: one no older than any an operator was told is persisted.
RestartFindsPersisted ==
  /\ acknowledged <= persisted
  /\ file # NoFile => Loaded(file) = content[persisted] /\ Validate(Loaded(file))
=============================================================================
