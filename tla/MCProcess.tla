----------------------------- MODULE MCProcess -----------------------------
(* Values for the constants of ProcessHistory and Harness, for TLC.  A        *)
(* behaviour is either about callers who send what they like under             *)
(* configurations that change, or about the harness and its contract.          *)
EXTENDS ProcessHistory, Harness, TLC

CONSTANTS
  w1, w2,                   \* workers
  blank, upper, lower,      \* payload ids; upper and lower are the same id
  idKey, blankKey,              \* normalised ids
  ivan, petr, note, dull,   \* texts: two with personal data, one with data that
                            \* strategy "none" leaves as it is, one without any
  stars, label,             \* their masks, by the star and label strategies
  twice,                    \* what masking the stars comes to
  crm, other, nobody,       \* systems
  nokey, key                \* API keys

MCStoreKey == [i \in PayloadIds |-> IF i = blank THEN blankKey ELSE idKey]

\* Both persons get the same mask; expanding labels changes nothing here but
\* the mask of petr, so that a configuration change shows.
MCRewrite == [x \in Rules \X Extras \X Texts |->
  IF x[3] = note THEN note
  ELSE IF x[3] = stars /\ x[1] = "stars" THEN twice
  ELSE IF x[3] \notin {ivan, petr} THEN Absent
  ELSE IF x[1] = "label" \/ (x[2] = "wide" /\ x[3] = petr) THEN label ELSE stars]

Sys(on, demask, rules, secret) ==
  [enabled |-> on, demask |-> demask, labels |-> rules = "label",
   rules |-> rules, secret |-> secret]
Conf(require, open, extra, s1, s2) ==
  [requireSystem |-> require, failOpen |-> open, default |-> crm, extra |-> extra,
   systems |-> [h \in Headers |-> IF h = crm THEN s1 ELSE IF h = other THEN s2 ELSE Absent]]

Stars == Sys(TRUE, TRUE, "stars", nokey)
Plain == Conf(FALSE, TRUE, "exact", Stars, Sys(TRUE, TRUE, "label", nokey))
Guarded == Conf(TRUE, FALSE, "exact", Stars, Sys(TRUE, TRUE, "label", key))
SwitchedOff == Conf(FALSE, TRUE, "wide", [Stars EXCEPT !.enabled = FALSE],
                    Sys(TRUE, FALSE, "stars", nokey))

\* What two callers send: both spellings of the id, texts and masks in both
\* directions, a system nobody knows, a wrong key, and three odd requests.
Req(i, h, s, t) == [id |-> i, header |-> h, secret |-> s, text |-> t]
Mixed ==
  {Req(upper, crm, nokey, ivan), Req(lower, crm, nokey, stars),
   Req(upper, crm, nokey, dull),
   Req(lower, other, key, label),
   Req(upper, other, nokey, ivan), Req(upper, nobody, nokey, petr),
   Req(blank, crm, nokey, ivan), Req(upper, crm, nokey, EmptyText),
   Req(upper, crm, nokey, Unreadable)}

AllConfigs == {Plain, Guarded, SwitchedOff}
PlainOnly == {Plain}

\* The harness: one configuration, under which its masks can be taken back, one
\* spelling of its id, and as many calls as its tries allow.
Contract == INSTANCE Harness WITH
  PayloadIds <- {blank, upper}, Configs <- PlainOnly, TooLong <- {},
  MaxCalls <- 100, MaxChanges <- 0

ASSUME TheHarnessMayRely == Contract!MasksCanBeTakenBack

VARIABLE subject

NobodyWaits ==
  /\ client = [k \in Slots |-> Fresh(ivan, 1, FALSE)]
  /\ asked = [w \in Workers |-> NotAsked]

\* ProcessHistory's variables are not kept for the harness: they stand at what
\* asks nothing of its calls.
Sent == Texts \cap (Elements \cup {Contract!MaskOf(t) : t \in Elements})
Possible == {Pair(t, t) : t \in Sent} \cup {Pair(t, Contract!MaskOf(t)) : t \in Sent}

MCInit ==
  \/ subject = "callers" /\ HInit /\ NobodyWaits
  \/ /\ subject = "harness" /\ Contract!CInit
     /\ pairs = [k \in Slots |-> Possible] /\ faulted = Slots /\ allowed = [w \in Workers |-> TRUE]
MCNext ==
  /\ UNCHANGED subject
  /\ \/ subject = "callers" /\ HNext /\ UNCHANGED <<client, asked>>
     \/ subject = "harness" /\ Contract!CNext /\ UNCHANGED <<pairs, faulted, allowed>>
MCSpec == MCInit /\ [][MCNext]_<<hvars, client, asked, subject>>

WorkerSymmetry == Permutations(Workers)
=============================================================================
