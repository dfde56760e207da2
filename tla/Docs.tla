-------------------------------- MODULE Docs --------------------------------
(***************************************************************************)
(* docsDetector of internal/pd/detect/docs.go: licences, SNILS, foreign    *)
(* passports, birth certificates, military IDs, residence permits and      *)
(* medical policies.  A rule is a shape (a regular expression of the code, *)
(* here a sequence of runs of cells), a list of cues and the evidence a    *)
(* match of it needs; the profile and the windows only save work.          *)
(*                                                                         *)
(* A two-letter series is a word with the role "pair".  A shape that       *)
(* starts or ends inside a word is refused by the boundary check, so words *)
(* are matched whole.                                                      *)
(***************************************************************************)
EXTENDS Payload

CONSTANTS
  DocWindow,   \* docAnchorWindow: 80 bytes
  ShapeSlack   \* docShapeMaxBytes: 32 bytes

SentenceEnd == {".", "nl", ";", "!", "?"}
Roman == [i |-> 1, v |-> 5, x |-> 10, l |-> 50, c |-> 100]

-----------------------------------------------------------------------------
(* Shapes: each part takes as many cells of its class as it may *)

Label(c) == HasRole(c, "label") \/ c \in {"No", "#"}

Class(class, s, i) ==
  CASE class = "digit" -> IsDigit(s[i])
    [] class = "blank" -> s[i] = " "
    [] class = "join"  -> s[i] \in {" ", "-"}
    [] class = "hyphen" -> s[i] = "-"
    [] class = "comma" -> s[i] = ","
    [] class = "roman" -> s[i] \in DOMAIN Roman
    [] class = "pair"  -> HasRole(s[i], "pair")
    [] class = "sign"  -> s[i] = "No"
    [] class = "label" -> Label(s[i])
    [] class = "label's dot"   -> s[i] = "." /\ i > 1 /\ Label(s[i - 1])
    [] class = "sign's blank"  -> s[i] = " " /\ i > 1 /\ s[i - 1] = "No"
    [] class = "right cue" -> HasRole(s[i], "licence after")

Part(class, least, most) == [class |-> class, least |-> least, most |-> most]
D(n) == Part("digit", n, n)
Opt(class) == Part(class, 0, 1)
Blanks == Part("blank", 0, 32)
Labelled == <<Blanks, Opt("label"), Opt("label's dot"), Blanks>>
Numbered(least, most) ==
  <<Part("pair", 1, 1), Opt("blank"), Opt("sign"), Opt("sign's blank"), Part("digit", least, most)>>

LicenceDigits == <<D(2), Blanks, D(2), Blanks, D(6)>>
SNILSShape == LET join == Part("join", 0, 3) IN <<D(3), join, D(3), join, D(3), join, D(2)>>
PolicyShape == LET join == Part("join", 1, 3) IN <<D(4), join, D(4), join, D(4), join, D(4)>>

\* The end of a match at i, or 0; the search sees the cells up to limit.
MatchEnd(s, shape, i, limit) ==
  LET take(at, part) ==
        LET fits(n) == /\ n = 0 \/ at + n <= limit
                       /\ \A k \in at + 1 .. at + n : Class(part.class, s, k)
            n == Max({n \in 0 .. part.most : fits(n)})
        IN  IF at < 0 \/ n < part.least THEN -1 ELSE at + n
      end == FoldLeft(take, i, shape)
  IN  IF end > i THEN end ELSE 0

-----------------------------------------------------------------------------
(* docRules *)

Rule(type, shapes, cue, must, run, group, checks) ==
  [type |-> type, shapes |-> shapes, cue |-> cue, must |-> must,
   run |-> run, group |-> group, checks |-> checks]

Rules == <<
  Rule("snils", {SNILSShape}, "snils", FALSE, 2, 11, {"control"}),
  Rule("licence", {<<D(2), Blanks, D(2), Opt("comma")>> \o Labelled \o <<D(6)>>},
       "licence", TRUE, 6, 6, {"context"}),
  Rule("licence", {<<D(2), Opt("blank")>> \o Numbered(6, 6)},
       "licence", TRUE, 6, 6, {"context", "series"}),
  Rule("licence", {Numbered(6, 6)}, "licence", TRUE, 6, 6, {"context", "series", "first"}),
  Rule("foreign passport", {<<D(2)>> \o Labelled \o <<D(7)>>},
       "foreign passport", TRUE, 7, 7, {"context"}),
  Rule("birth certificate", {<<Part("roman", 1, 5), Part("hyphen", 1, 1)>> \o Numbered(6, 6)},
       "birth certificate", FALSE, 6, 6, {"roman"}),
  Rule("military id", {Numbered(7, 7)}, "military id", TRUE, 7, 7, {"series"}),
  Rule("permit", {<<Part("digit", 7, 9)>>}, "permit", TRUE, 7, 7, {"context"}),
  Rule("policy", {<<D(16)>>, PolicyShape}, "policy", TRUE, 4, 16, {}),
  Rule("policy", {Numbered(6, 7)}, "policy", TRUE, 6, 6, {"context", "series", "first"}) >>

RuleEnd(s, rule, i, limit) ==
  Max({MatchEnd(s, shape, i, limit) : shape \in rule.shapes})

-----------------------------------------------------------------------------
(* docProfile: the longest run and the largest group of digits; a numeral   *)
(* wants a hyphen behind it                                                 *)

Slip_OneSeparator == 1
\* How many separators a group survives.
MostSeparators == 3

Profile(s) ==
  LET starts == Offsets(Len(s), LAMBDA i : DigitAt(s, i) /\ ~DigitAt(s, i - 1))
      runs == [k \in DOMAIN starts |-> [start |-> starts[k], end |-> RunEnd(s, starts[k], IsDigit)]]
      goesOn(p, r) == /\ r.start - p.end <= MostSeparators
                      /\ \A k \in p.end + 1 .. r.start : s[k] \in {" ", "-"}
      step(p, r) ==
        LET size == r.end - r.start
            group == IF goesOn(p, r) THEN p.group + size ELSE size
        IN  [end |-> r.end, group |-> group,
             maxRun |-> Max({p.maxRun, size}), maxGroup |-> Max({p.maxGroup, group})]
  IN  FoldLeft(step, [end |-> 0, group |-> 0, maxRun |-> 0, maxGroup |-> 0], runs)

Possible(s, rule) ==
  LET p == Profile(s)
  IN  /\ p.maxRun >= rule.run /\ p.maxGroup >= rule.group
      /\ "roman" \in rule.checks => \E k \in 2 .. Len(s) : s[k] = "-" /\ s[k - 1] \in DOMAIN Roman

-----------------------------------------------------------------------------
(* The evidence *)

\* docAnchorLeft: where the nearest cue ends, or -1.
AnchorLeft(s, before, cue) == Max(CueLeft(s, before, cue, DocWindow) \cup {-1})

NoiseBefore(s, at) ==
  LET k == Max({k \in 1 .. at : WordRune(s[k])} \cup {0})
  IN  k > 0 /\ HasRole(s[k], "noise") /\ Boundary(s, k - 1) /\ Boundary(s, k)

UnitAfter(s, at) ==
  LET next == RunEnd(s, at, LAMBDA c : c = " ")
  IN  CellAt(s, next, {"%"}) \/ (next < Len(s) /\ HasRole(s[next + 1], "unit"))

\* docNumberContextOK, and docPermitNumberOK
ContextOK(s, anchor, start, end) ==
  /\ anchor >= 0
  /\ \A k \in anchor + 1 .. start : s[k] \notin SentenceEnd
  /\ ~NoiseBefore(s, start) /\ ~UnitAfter(s, end)

\* docCyrillicSeriesOK: no common word, and in capitals unless nothing is.
SeriesOK(s, start, end) ==
  LET at == Min({k \in start + 1 .. end : IsWord(s[k])})
  IN  /\ ~HasRole(s[at], "stop word")
      /\ HasRole(s[at], "capital") \/ \A k \in DOMAIN s : ~HasRole(s[k], "capital")

NothingBefore(s, start) == ~DigitAt(s, IF CellAt(s, start - 1, {" "}) THEN start - 2 ELSE start - 1)

DigitsOnly(s, start, end) ==
  LET cells == SelectSeq(SubSeq(s, start + 1, end), IsDigit) IN Digits(cells, 0, Len(cells))

SNILSChecksum(ds) ==
  LET sum == MapThenSumSet(LAMBDA k : ds[k] * (10 - k), 1 .. 9) % 101
  IN  10 * ds[10] + ds[11] = IF sum >= 100 THEN 0 ELSE sum

\* docScoreSNILS
SNILSConf(s, start, end, anchored) ==
  LET ds == DigitsOnly(s, start, end)
  IN  CASE \A k \in DOMAIN ds : ds[k] = ds[1] -> 0
        [] SNILSChecksum(ds) -> IF ~anchored /\ end - start = 11 /\ ds[1] \in {7, 8} THEN 0 ELSE 98
        [] OTHER -> IF anchored THEN 92 ELSE 0

\* docRomanValue: a smaller numeral in front of a larger one is subtracted.
RomanValue(cells) ==
  LET v(k) == Roman[cells[k]]
      less(k) == \E j \in k + 1 .. Len(cells) : v(j) > v(k)
      term(k) == IF less(k) THEN - v(k) ELSE v(k)
  IN  MapThenSumSet(term, DOMAIN cells)

BirthConf(s, start, anchored) ==
  LET numeral == SubSeq(s, start + 1, RunEnd(s, start, LAMBDA c : c # "-"))
  IN  IF RomanValue(numeral) \notin 1 .. 99 THEN 0 ELSE IF anchored THEN 92 ELSE 80

Score(s, rule, start, end, anchored) ==
  IF "control" \in rule.checks THEN SNILSConf(s, start, end, anchored)
  ELSE IF "roman" \in rule.checks THEN BirthConf(s, start, anchored) ELSE 92

\* docInnerLabel: a label inside the match stays in the text.
Parts(s, start, end, type, conf) ==
  LET letters == {k \in start + 1 .. end : IsLatin(s[k]) \/ IsWord(s[k])}
      at == Min(letters)
      alnum(k) == IsAlnum(s[k]) \/ IsWord(s[k])
      left == {k \in start + 1 .. at - 1 : alnum(k)}
      right == {k \in at + 1 .. end : alnum(k)}
  IN  IF letters = {} THEN <<Span(start, end, type, conf)>>
      ELSE IF HasRole(s[at], "label") /\ left # {} /\ right # {}
      THEN <<Span(Min(left) - 1, Max(left), type, conf),
             Span(Min(right) - 1, Max(right), type, conf)>>
      ELSE <<Span(start, end, type, conf)>>

\* docAccept: the spans of a match, none when it is refused.
Accept(s, rule, start, end) ==
  LET anchor == AnchorLeft(s, start, rule.cue)
      conf == Score(s, rule, start, end, anchor >= 0)
  IN  IF /\ Boundary(s, start) /\ Boundary(s, end)
         /\ rule.must => anchor >= 0
         /\ "context" \in rule.checks => ContextOK(s, anchor, start, end)
         /\ "series" \in rule.checks => SeriesOK(s, start, end)
         /\ "first" \in rule.checks => NothingBefore(s, start)
         /\ conf > 0
      THEN Parts(s, start, end, rule.type, conf) ELSE <<>>

-----------------------------------------------------------------------------
(* Where the matches are looked for *)

\* docScanRange over the starts from .. to - 1: one cell on after a refusal.
AfterMatch(i, end, spans) == IF spans = <<>> THEN Hit(<<>>, i + 1) ELSE Hit(spans, end)

ScanRange(s, rule, from, to, limit) ==
  LET at(i, end) == AfterMatch(i, end, Accept(s, rule, i, end))
  IN  Sweep(Offsets(to, LAMBDA i : i >= from /\ RuleEnd(s, rule, i, limit) > 0),
            [i \in from .. to - 1 |-> at(i, RuleEnd(s, rule, i, limit))])

MaxLit(cue) == Max({Width[w] : w \in WordsOf(cue)} \cup {0})

\* docWindowBounds: the starts a cue at offset at may vouch for.
Window(s, rule, at) == {k \in at .. Len(s) : Gap(s, at, k) < MaxLit(rule.cue) + DocWindow + 1}

\* docForEachWindow: windows in the order of the cues, clipped to what is new.
Windows(s, rule) ==
  LET add(windows, cue) ==
        LET at == cue - 1
            from == Max({at} \cup {w.to : w \in ToSet(windows)})
            to == Max(Window(s, rule, at)) + 1
            seen == {k \in to - 1 .. Len(s) :
                       Gap(s, at, k) <= MaxLit(rule.cue) + DocWindow + 1 + ShapeSlack}
        IN  IF from >= to THEN windows ELSE Append(windows, [from |-> from, to |-> to, limit |-> Max(seen)])
  IN  FoldLeft(add, <<>>, Ascending(Len(s), LAMBDA k : HasRole(s[k], rule.cue)))
ScanWindows(s, rule) ==
  LET w == Windows(s, rule)
  IN  FlattenSeq([k \in DOMAIN w |-> ScanRange(s, rule, w[k].from, w[k].to, w[k].limit)])

RuleSpans(s, rule) ==
  IF ~Possible(s, rule) THEN <<>>
  ELSE IF rule.must THEN ScanWindows(s, rule)
  ELSE ScanRange(s, rule, 0, Len(s), Len(s))

-----------------------------------------------------------------------------
(* Licences with the cue behind them, and series and number apart *)

\* docEmitDriverLicenseDigits, for one match after the other.
Emit(s, spans, matches) ==
  LET add(acc, x) ==
        IF Boundary(s, x.start) /\ Boundary(s, x.end) /\ \A y \in ToSet(acc) : ~Touch(x, y)
        THEN Append(acc, x) ELSE acc
  IN  FoldLeft(add, spans, matches)
Licence(start, end) == Span(start, end, "licence", 92)

LicenceRight(s, spans) ==
  LET shape == LicenceDigits \o <<Blanks, Opt("hyphen"), Blanks, Part("right cue", 1, 1)>>
      found == Sweep(Offsets(Len(s), LAMBDA i : MatchEnd(s, shape, i, Len(s)) > 0),
                     [i \in 0 .. Len(s) - 1 |->
                        Hit(<<Licence(i, MatchEnd(s, LicenceDigits, i, Len(s)))>>, MatchEnd(s, shape, i, Len(s)))])
  IN  Emit(s, spans, found)

\* A series, or a number, behind its label at k.
LicenceHalf(s, k, label, shape) ==
  LET anchor == AnchorLeft(s, k - 1, "licence")
      from == RunEnd(s, k, LAMBDA c : c = " ")
      end == MatchEnd(s, shape, from, Len(s))
  IN  IF /\ HasRole(s[k], label) /\ end > 0
         /\ anchor >= 0 /\ \A i \in anchor + 1 .. k - 1 : s[i] \notin SentenceEnd
      THEN <<Licence(from, end)>> ELSE <<>>
Halves(s, spans, label, shape) ==
  Emit(s, spans, FlattenSeq([k \in DOMAIN s |-> LicenceHalf(s, k, label, shape)]))
LicenceSplit(s, spans) ==
  Halves(s, Halves(s, spans, "series label", <<D(2), Blanks, D(2)>>), "number label", <<D(6)>>)

AndLicences(s, on, found) ==
  IF "licence" \in on THEN LicenceSplit(s, LicenceRight(s, found)) ELSE found
DocSpans(s, on) ==
  LET enabled == SelectSeq(Rules, LAMBDA r : r.type \in on)
  IN  AndLicences(s, on, FlattenSeq([k \in DOMAIN enabled |-> RuleSpans(s, enabled[k])]))
=============================================================================
