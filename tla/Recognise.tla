------------------------------ MODULE Recognise ------------------------------
(***************************************************************************)
(* A payload on its way through the detectors: RunCtx of                   *)
(* internal/pd/detect/detect.go runs them one after the other, with a      *)
(* cancellation point in front of each, and resolves what they found; then *)
(* Apply of internal/pd/mask/mask.go masks it.                             *)
(*                                                                         *)
(* Of the registered detectors these are the ones of contact.go, date.go,  *)
(* docs.go and finance.go, in the order in which their files register.     *)
(***************************************************************************)
EXTENDS Payload

CONSTANTS
  Inputs,      \* payloads: the cells, the enabled types, the dates spelled in
               \* it (where, and which) and the items it lists (where each starts)
  Strategies,  \* what the types may be masked with
  Priority, OccupancyMin, DefaultFloor, NoRule,
  AnchorWindow, ShortAnchorWindow,
  PhoneWindow, LocalStop, DomainStop,
  DocWindow, ShapeSlack,
  Now, DateWindow, LabelWindow, VerbWindow, NegativeWindow, LinkWindow, BirthMarks, BirthSuffixes,
  Locals

VARIABLES
  input,     \* one of Inputs
  next,      \* how many detectors have run
  found,     \* what they found
  status,    \* "running", "cancelled", "resolved", "masked"
  spans,     \* what Resolve left of it
  strategy,  \* the strategy that masked it
  output     \* Result.Masked
vars == <<input, next, found, status, spans, strategy, output>>

Contact == INSTANCE Contact
Dates == INSTANCE Dates
Docs == INSTANCE Docs
Finance == INSTANCE Finance
Masks == INSTANCE Strategies
Pipeline == INSTANCE Spans WITH
  LabelWords <- {}, MaxLabelGap <- 8, ChunkOverlap <- 256,
  MaskOf <- Masks!Mask

Plain(s) == [k \in DOMAIN s |-> Span(s[k].start, s[k].end, s[k].type, s[k].conf)]
\* dateDetector.Detect resolves what its five scans found.
DateSpans(s, on) == Pipeline!Resolve(Plain(Dates!DateCandidates(s, on)))

Registered == <<"contact", "date", "docs", "finance">>
Detect(name, s, on) ==
  CASE name = "contact" -> Contact!ContactSpans(s, on)
    [] name = "date" -> DateSpans(s, on)
    [] name = "docs" -> Docs!DocSpans(s, on)
    [] name = "finance" -> Finance!FinanceSpans(s, on)

Run(s, on) ==
  Pipeline!Resolve(FlattenSeq([k \in DOMAIN Registered |-> Detect(Registered[k], s, on)]))

Init ==
  /\ input \in Inputs
  /\ next = 0 /\ found = <<>> /\ spans = <<>> /\ output = <<>>
  /\ status = "running" /\ strategy = [name |-> "none"]

DetectNext ==
  /\ status = "running" /\ next < Len(Registered)
  /\ next' = next + 1
  /\ found' = found \o Detect(Registered[next'], input.text, input.on)
  /\ UNCHANGED <<input, status, spans, strategy, output>>

\* The deadline passes: what was found so far is resolved all the same.
Cancel ==
  /\ status = "running"
  /\ status' = "cancelled" /\ spans' = Pipeline!Resolve(found)
  /\ UNCHANGED <<input, next, found, strategy, output>>

Finish ==
  /\ status = "running" /\ next = Len(Registered)
  /\ status' = "resolved" /\ spans' = Pipeline!Resolve(found)
  /\ UNCHANGED <<input, next, found, strategy, output>>

\* The default rules, the types switched off apart; there are no custom types.
Kept ==
  LET rule(t) == [enabled |-> t \in input.on, floor |-> 0, needs |-> {}]
  IN  Pipeline!Filter([t \in DOMAIN Priority |-> rule(t)], [t \in DOMAIN Priority |-> NoRule], spans)
Masked(s) == Pipeline!Apply(input.text, Kept, [t \in DOMAIN Priority |-> s])

Mask ==
  /\ status = "resolved" /\ status' = "masked"
  /\ strategy' \in Strategies
  /\ output' = Masked(strategy').masked
  /\ UNCHANGED <<input, next, found, spans>>

Next == DetectNext \/ Cancel \/ Finish \/ Mask
Spec == Init /\ [][Next]_vars

-----------------------------------------------------------------------------
(* Properties *)

\* What is found of an item between two words that mean nothing is found of it in
\* a list: no item feeds, splits or swallows its neighbour.  Its type may change,
\* a cue reaches over a comma.
SameInAList ==
  status = "resolved" =>
    \A item \in input.items :
      \A x \in ToSet(Run(<<"word", " ">> \o item.cells \o <<" ", "word">>, input.on)) :
        x.conf >= DefaultFloor =>
          \E y \in ToSet(spans) : /\ y.conf >= DefaultFloor
                                  /\ y.start = x.start - 2 + item.start
                                  /\ y.end = x.end - 2 + item.start

\* A number that passes the Luhn test and is grouped like a card is claimed, in
\* part at least, whatever stands in the same chain of digits.
CardTouched ==
  status = "resolved" /\ "card" \in input.on =>
    \A chain \in ToSet(Finance!Chains(input.text)) :
      LET groups == Finance!GroupsOf(input.text, chain)
          card(i, j) == LET ds == Finance!WindowDigits(input.text, groups, i, j)
                        IN  /\ Len(ds) \in 13 .. 19 /\ ~Finance!AllSame(ds)
                            /\ Finance!Luhn(ds) /\ Finance!Grouped(groups, i, j)
      IN  \A i, j \in DOMAIN groups : i <= j /\ card(i, j) =>
            \E x \in ToSet(found) : Touch(x, Finance!Reach(groups, i, j))

\* The profile of a payload and the windows around its cues only save work: they
\* lose no document and invent none.
WindowsReach ==
  status = "resolved" =>
    \A k \in DOMAIN Docs!Rules :
      ToSet(Docs!RuleSpans(input.text, Docs!Rules[k]))
        = ToSet(Docs!ScanRange(input.text, Docs!Rules[k], 0, Len(input.text), Len(input.text)))

\* The days of a month, February's by the year.
RealDate(d) ==
  LET days == <<31, IF Dates!Leap(d.year) THEN 29 ELSE 28, 31, 30, 31, 30, 31, 31, 30, 31, 30, 31>>
  IN  d.year \in 1900 .. Now /\ d.month \in 1 .. 12 /\ d.day \in 1 .. days[d.month]

\* However a date behind a birth cue is spelled, it is found whole when one of the
\* readings of its spelling is on the calendar; when none is, no part of it is
\* taken for another date.
CalendarDecides ==
  status = "resolved" =>
    \A d \in input.dates :
      LET hits == {x \in ToSet(spans) : Touch(x, d)}
      IN  IF \E r \in d.readings : RealDate(r)
          THEN \E x \in hits : hits = {x} /\ x.start = d.start /\ x.end = d.end /\ x.type = "birth date"
          ELSE hits = {}

\* A fake passes for the value it stands for: looked at again, the masked text
\* holds the same types at the same places.  A card is taken with a chain of digits
\* of its own, beside other groups chance may let a wider window pass; a date is
\* taken in parts, of eight digits in a row the code makes no date.
FakesRecognised ==
  status = "masked" /\ strategy.name = "synthetic" =>
    LET apart(r) == \E c \in ToSet(Finance!Chains(input.text)) : c.start = r.start /\ c.end = r.end
        inParts(r) == \E c \in ToSet(r.original) : ~IsDigit(c)
        faked == {r \in ToSet(Masked(strategy).reps) :
                    \/ r.type \in {"phone", "email"}
                    \/ r.type = "card" /\ apart(r)
                    \/ r.type \in {"birth date", "issue date"} /\ inParts(r)}
    IN  {[type |-> r.type, start |-> r.maskStart, end |-> r.maskEnd] : r \in faked}
          \subseteq {[type |-> x.type, start |-> x.start, end |-> x.end] : x \in ToSet(Run(output, input.on))}
=============================================================================
