------------------------------- MODULE Dates -------------------------------
(***************************************************************************)
(* dateDetector of internal/pd/detect/date.go: five scans over the tokens  *)
(* of a payload, each with its own spelling of a date, and the pass that   *)
(* lets a date without a cue borrow the type of the nearest date with one. *)
(*                                                                         *)
(* A month, an ordinal, a part of a year are words with that role and a    *)
(* value; a "year letter" and a "birth letter" are the abbreviations of    *)
(* "year" and "birth", and the tokenizer fuses the former with digits that *)
(* stand right in front of it.  The gate on the word for thousand is left  *)
(* out: no year in words does without it.                                  *)
(***************************************************************************)
EXTENDS Payload

CONSTANTS
  Now,             \* dateCurrentYear
  DateWindow,      \* dateAnchorWindow: 60 bytes
  LabelWindow,     \* dateLabelWindow: 96
  VerbWindow,      \* dateLabelVerbWindow: 160
  NegativeWindow,  \* dateNegativeWindow: 40
  LinkWindow,      \* dateLinkWindow: 96
  BirthMarks,      \* phrases of several cells that mark a birth date
  BirthSuffixes    \* phrases behind a date that do

MinYear == 1900
AdultGap == 14
SepPad == 3
StrongFloor == 85
BareConf == 60

-----------------------------------------------------------------------------
(* Tokens: text.Tokenize; c is [s, toks], a token [start, end, kind], and a *)
(* token outside the payload has the kind "none"                            *)

Tokenize(s) ==
  LET class(x) == IF x \in {" ", "nl"} THEN "space" ELSE IF WordRune(x) THEN "run" ELSE "punct"
      opens(k) == k = 1 \/ class(s[k]) = "punct" \/ class(s[k - 1]) # class(s[k])
      from == Ascending(Len(s), opens)
      token(k) ==
        LET start == from[k] - 1
            end == IF k = Len(from) THEN Len(s) ELSE from[k + 1] - 1
            digits == {i \in start + 1 .. end : IsDigit(s[i])}
        IN  [start |-> start, end |-> end,
             kind |-> CASE class(s[end]) # "run" -> class(s[end])
                        [] digits = {} -> "word"
                        [] digits = start + 1 .. end -> "number"
                        [] OTHER -> "alnum"]
  IN  [s |-> s, toks |-> [k \in DOMAIN from |-> token(k)]]

NoToken == [start |-> 0, end |-> 0, kind |-> "none"]
Tok(c, i) == IF i \in DOMAIN c.toks THEN c.toks[i] ELSE NoToken
Kind(c, i) == Tok(c, i).kind
Size(c, i) == Tok(c, i).end - Tok(c, i).start
First(c, i) == c.s[Tok(c, i).start + 1]
PunctSep(c, i) == Kind(c, i) = "punct" /\ First(c, i) \in {".", "/", "-"}
IsDot(c, i) == Kind(c, i) = "punct" /\ First(c, i) = "."
\* The word a token is, when it is one with that role.
Is(c, i, role) == Kind(c, i) = "word" /\ Size(c, i) = 1 /\ HasRole(First(c, i), role)
Value(c, i) == Number[First(c, i)]

Inline(c, i) == /\ Kind(c, i) = "space" /\ Size(c, i) <= 4
                /\ \A k \in Tok(c, i).start + 1 .. Tok(c, i).end : c.s[k] = " "
Pad(c, i) == Kind(c, i) = "space" => Inline(c, i) /\ Size(c, i) <= SepPad
PadBack(c, i) == IF ~Pad(c, i) THEN 0 ELSE IF Kind(c, i) = "space" THEN i - 1 ELSE i
PadFwd(c, i) == IF ~Pad(c, i) THEN 0 ELSE IF Kind(c, i) = "space" THEN i + 1 ELSE i
SkipInline(c, i) == IF Kind(c, i) # "space" THEN i ELSE IF Inline(c, i) THEN i + 1 ELSE 0
SkipSpace(c, i) == IF Kind(c, i) = "space" THEN i + 1 ELSE i

DigitPrefix(c, i) ==
  IF Kind(c, i) \in {"number", "alnum"}
  THEN Min({RunEnd(c.s, Tok(c, i).start, IsDigit), Tok(c, i).end}) - Tok(c, i).start ELSE 0

NoSep == [sep |-> "", next |-> 0]
OneSpace(c, j) == Size(c, j) = 1
\* dateSepAt: an explicit separator may be padded, a space stands alone.
SepAt(c, j) ==
  LET at == IF Kind(c, j) = "space" THEN j + 1 ELSE j
      next == IF Kind(c, at + 1) = "space" THEN at + 2 ELSE at + 1
  IN  IF ~Pad(c, j) THEN NoSep
      ELSE IF Kind(c, j) = "space" /\ OneSpace(c, j) /\ Kind(c, j + 1) # "none" /\ ~PunctSep(c, j + 1)
      THEN [sep |-> " ", next |-> j + 1]
      ELSE IF PunctSep(c, at) /\ Pad(c, at + 1) /\ Kind(c, next) # "none"
      THEN [sep |-> First(c, at), next |-> next] ELSE NoSep

\* dateWordSepAt: beside a month in words, one space or one hyphen.
WordSepAt(c, j) ==
  LET single == Kind(c, j) \in {"space", "punct"} /\ Size(c, j) = 1 /\ First(c, j) \in {" ", "-"}
  IN  IF single THEN [sep |-> First(c, j), next |-> j + 1] ELSE NoSep

-----------------------------------------------------------------------------
(* The calendar *)

Leap(year) == year % 4 = 0 /\ (year % 100 # 0 \/ year % 400 = 0)
\* maxDaysInMonth, which daysInMonth corrects for February.
MostDays(month) == CASE month = 2 -> 29 [] month \in {4, 6, 9, 11} -> 30 [] OTHER -> 31
DaysIn(month, year) == IF month = 2 /\ ~Leap(year) THEN 28 ELSE MostDays(month)
ValidCalendar(d) == d.month \in 1 .. 12 /\ d.day \in 1 .. DaysIn(d.month, d.year)
Plausible(year) == year \in MinYear .. Now

ExpandYear(yy) ==
  LET century == (Now \div 100) * 100 IN IF yy <= Now % 100 THEN century + yy ELSE century - 100 + yy

NoDate == [day |-> 0, month |-> 0, year |-> 0, unsure |-> FALSE]
Date(day, month, year, unsure) == [day |-> day, month |-> month, year |-> year, unsure |-> unsure]

\* dateOrder: a four-digit group is the year, a group above 12 the day.
Order(g1, g2, g3, sep) ==
  LET n1 == NumberOf(g1) n2 == NumberOf(g2) n3 == NumberOf(g3)
      yearOf(g) == IF Len(g) = 2 THEN ExpandYear(NumberOf(g)) ELSE NumberOf(g)
      last(y) == CASE n1 > 12 /\ n2 <= 12 -> Date(n1, n2, y, FALSE)
                   [] n2 > 12 /\ n1 <= 12 -> Date(n2, n1, y, FALSE)
                   [] n1 <= 12 /\ n2 <= 12 -> Date(n1, n2, y, TRUE)
                   [] OTHER -> NoDate
      first(y) == CASE n2 > 12 /\ n3 <= 12 -> Date(n2, n3, y, FALSE)
                    [] n3 > 12 /\ n2 <= 12 -> Date(n3, n2, y, FALSE)
                    [] n2 <= 12 /\ n3 <= 12 -> Date(n3, n2, y, sep # "-")
                    [] OTHER -> NoDate
  IN  CASE Len(g1) = 4 -> first(n1)
        [] Len(g1) <= 2 /\ n1 > 31 /\ Len(g3) <= 2 -> first(ExpandYear(n1))
        [] ~(Len(g1) = 4) /\ ~(n1 > 31 /\ Len(g3) <= 2) /\ Len(g3) \in {2, 4} -> last(yearOf(g3))
        [] OTHER -> NoDate

-----------------------------------------------------------------------------
(* Cues *)

\* lastAnchor: where a phrase starts that lies in the window before start.
PhraseAt(s, k, p) == /\ k - 1 + Len(p) <= Len(s) /\ SubSeq(s, k, k - 1 + Len(p)) = p
                     /\ Boundary(s, k - 1) /\ Boundary(s, k - 1 + Len(p))
Phrases(role) ==
  {<<w>> : w \in WordsOf(role)}
    \cup (IF role = "birth" THEN BirthMarks ELSE {})
Anchors(s, start, role, window) ==
  {[at |-> q[1], end |-> q[1] - 1 + Len(q[2]), role |-> role] : q \in
     {q \in (1 .. start) \X Phrases(role) : /\ q[1] - 1 + Len(q[2]) <= start
                                           /\ PhraseAt(s, q[1], q[2])
                                           /\ Gap(s, q[1] - 1, start) <= window}}

\* The nearest one; between two that start together, the first list's.
Nearest(anchors, lists) ==
  LET at == Max({a.at : a \in anchors})
      list == Min({i \in DOMAIN lists : \E a \in anchors : a.at = at /\ a.role = lists[i]})
  IN  CHOOSE a \in anchors : a.at = at /\ a.role = lists[list]

KindOf(role) == IF role \in {"birth", "birth label"} THEN "birth date" ELSE "issue date"

LeftAnchor(s, start) ==
  LET anchors == Anchors(s, start, "birth", DateWindow) \cup Anchors(s, start, "issue", DateWindow)
  IN  IF anchors = {} THEN "none" ELSE KindOf(Nearest(anchors, <<"birth", "issue">>).role)

\* dateCleanRun and dateCleanRunIssue: the latter lets a dot stand.
CleanRun(s, from, to, dots) ==
  LET dash(k) == s[k] = "-" /\ k > from + 1 /\ k < to /\ s[k - 1] = " " /\ s[k + 1] = " "
      stops == {";", "!", "?", "nl", ",", "(", ")", "--"} \cup (IF dots THEN {} ELSE {"."})
  IN  from < to /\ \A k \in from + 1 .. to : ~IsDigit(s[k]) /\ s[k] \notin stops /\ ~dash(k)

LabelAnchor(s, start) ==
  LET anchors == UNION {Anchors(s, start, "birth label", LabelWindow),
                        Anchors(s, start, "issue label", LabelWindow),
                        Anchors(s, start, "issue verb", VerbWindow)}
      best == Nearest(anchors, <<"birth label", "issue label", "issue verb">>)
  IN  IF anchors = {} THEN "none"
      ELSE IF CleanRun(s, best.end, start, best.role = "issue verb") THEN KindOf(best.role) ELSE "none"

AnchorAt(s, start) ==
  LET unless(left, label) == IF left # "none" THEN left ELSE label
  IN  unless(LeftAnchor(s, start), LabelAnchor(s, start))

\* hasRightBirthAnchor: at most two separators in between.
RightBirth(s, end) ==
  LET open(k) == k = 0 \/ \A i \in 0 .. k - 1 : CellAt(s, end + i, {" ", ",", "("})
      at == end + Max({k \in 0 .. 2 : open(k)})
  IN  \E p \in BirthSuffixes : /\ at + Len(p) <= Len(s) /\ SubSeq(s, at + 1, at + Len(p)) = p
                               /\ Boundary(s, at + Len(p))

\* nameBefore: a name among the three words in front.
NameBefore(c, start) ==
  LET before == {i \in DOMAIN c.toks : Tok(c, i).end <= start}
      words(i) == {j \in before : j >= i /\ Kind(c, j) = "word"}
  IN  \E i \in before : /\ Is(c, i, "name") /\ Cardinality(words(i)) <= 3
                        /\ \A j \in before : j > i => Kind(c, j) \notin {"number", "alnum"}

Negative(s, start, end) ==
  LET head == Max({k \in 1 .. start : s[k] # " "} \cup {0})
      next == RunEnd(s, end, LAMBDA x : x = " ")
  IN  \/ Anchors(s, start, "negative", NegativeWindow) # {}
      \/ head > 0 /\ Gap(s, head - 1, start) <= NegativeWindow /\ s[head] \in {"$", "%", "No"}
      \/ next < Len(s) /\ Gap(s, end, next + 1) <= 8 /\ (s[next + 1] \in {"%", "$"} \/ HasRole(s[next + 1], "unit"))

-----------------------------------------------------------------------------
(* classify: what the context makes of a date *)

Found(start, end, type, conf, partial, on) ==
  IF type \in on
  THEN <<[start |-> start, end |-> end, type |-> type, conf |-> conf, partial |-> partial]>> ELSE <<>>

\* The type and the confidence of a date without a cue on its left.
Weigh(c, start, end, year) ==
  CASE RightBirth(c.s, end) -> [type |-> "birth date", conf |-> 90]
    [] ~RightBirth(c.s, end) /\ year <= Now - AdultGap /\ NameBefore(c, start) ->
         [type |-> "birth date", conf |-> 78]
    [] OTHER -> IF year > Now - AdultGap \/ Negative(c.s, start, end)
                THEN [type |-> "none", conf |-> 0] ELSE [type |-> "birth date", conf |-> BareConf]

Classify(c, on, start, end, date) ==
  LET judged(anchor) == IF anchor # "none" THEN [type |-> anchor, conf |-> 95] ELSE Weigh(c, start, end, date.year)
      found(w) == Found(start, end, w.type, IF date.unsure THEN w.conf - 5 ELSE w.conf, FALSE, on)
  IN  IF Plausible(date.year) THEN found(judged(AnchorAt(c.s, start))) ELSE <<>>

\* classifyNoYear: without a year only a cue counts, and no negative one.
ClassifyNoYear(c, on, start, end) ==
  IF Negative(c.s, start, end) THEN <<>>
  ELSE Found(start, end, AnchorAt(c.s, start), 90, TRUE, on)

-----------------------------------------------------------------------------
(* The scans over the tokens: a reading is the date at a token, none when   *)
(* nothing vouches for it, and its last token                               *)

Nothing == [spans |-> <<>>, last |-> 0]
Read(spans, last) == [spans |-> spans, last |-> last]
ScanTokens(c, reading) ==
  LET after(i, r) == Hit(r.spans, IF r.spans = <<>> THEN i + 1 ELSE r.last + 1)
  IN  Sweep(Ascending(Len(c.toks), LAMBDA i : Kind(c, i) \notin {"space", "punct"}),
            [i \in DOMAIN c.toks |-> after(i, reading[i])])

\* The end of the year of token i, or 0.
YearEnd(c, i) ==
  LET n == DigitPrefix(c, i)
      glued == Kind(c, i) = "alnum" /\ Size(c, i) = n + 1 /\ HasRole(c.s[Tok(c, i).end], "year letter")
  IN  IF n \in {2, 4} /\ (Kind(c, i) = "number" \/ glued) THEN Tok(c, i).start + n ELSE 0

\* dateChained: one link of an address or a version.
Chained(c, first, last, sep) ==
  LET back == PadBack(c, first - 1)
      fwd == PadFwd(c, last + 1)
      links(i, j) == PunctSep(c, i) /\ First(c, i) = sep /\ Kind(c, j) = "number"
  IN  sep # " " /\ (links(back, PadBack(c, back - 1)) \/ links(fwd, PadFwd(c, fwd + 1)))

Group(c, i) == Digits(c.s, Tok(c, i).start, Tok(c, i).start + DigitPrefix(c, i))
Short(c, i) == Kind(c, i) = "number" /\ Size(c, i) <= 2

\* A date on the calendar, from the token i to the cell end of the token last.
Dated(c, on, i, end, last, date) ==
  IF ValidCalendar(date) THEN Read(Classify(c, on, Tok(c, i).start, end, date), last) ELSE Nothing

NumericRead(c, on, i, a, b) ==
  IF /\ Kind(c, i) = "number" /\ Size(c, i) \in {1, 2, 4}
     /\ a # NoSep /\ Short(c, a.next)
     /\ b # NoSep /\ b.sep = a.sep /\ YearEnd(c, b.next) > 0
     /\ ~Chained(c, i, b.next, a.sep)
  THEN Dated(c, on, i, YearEnd(c, b.next), b.next,
             Order(Group(c, i), Group(c, a.next), Group(c, b.next), b.sep))
  ELSE Nothing
NumericAt(c, on, i) ==
  NumericRead(c, on, i, SepAt(c, i + 1), SepAt(c, SepAt(c, i + 1).next + 1))

\* dateDayMonthInIdentifier: the series of a document or a house.
InIdentifier(c, start, end) ==
  LET near == {k \in end .. Len(c.s) : Gap(c.s, end, k) <= 12}
  IN  \/ Anchors(c.s, start, "identifier", 16) # {}
      \/ CellAt(c.s, end, {"No"}) \/ (end < Len(c.s) /\ HasRole(c.s[end + 1], "label") /\ Boundary(c.s, end + 1))
      \/ \E i \in DOMAIN c.toks : /\ Tok(c, i).start >= end /\ Tok(c, i).end \in near
                                  /\ Kind(c, i) = "number" /\ Size(c, i) = 6

Slip_NextTokenOnly(c, first, last, sep) ==
  DigitPrefix(c, first - 1) = 0 /\ DigitPrefix(c, last + 1) = 0
\* dateDayMonthIsolated: no group of digits goes on beside the pair.
Isolated(c, first, last, sep) ==
  LET back == PadBack(c, first - 1)
      fwd == PadFwd(c, last + 1)
      blocks(i, j) == PunctSep(c, i) /\ sep \in {" ", First(c, i)} /\ DigitPrefix(c, j) > 0
  IN  /\ DigitPrefix(c, back) = 0 /\ ~blocks(back, PadBack(c, back - 1))
      /\ DigitPrefix(c, fwd) = 0 /\ ~blocks(fwd, PadFwd(c, fwd + 1))

DayMonthAt(c, on, i) ==
  LET a == SepAt(c, i + 1)
      n1 == NumberOf(Group(c, i))
      n2 == NumberOf(Group(c, a.next))
      day == IF n2 > 12 THEN n2 ELSE n1
      month == IF n2 > 12 THEN n1 ELSE n2
  IN  IF /\ Short(c, i) /\ a # NoSep /\ Short(c, a.next)
         /\ Isolated(c, i, a.next, a.sep)
         /\ month <= 12 /\ day \in 1 .. MostDays(month)
         /\ ~InIdentifier(c, Tok(c, i).start, Tok(c, a.next).end)
      THEN Read(ClassifyNoYear(c, on, Tok(c, i).start, Tok(c, a.next).end), a.next) ELSE Nothing

-----------------------------------------------------------------------------
(* Months and years in words *)

\* dateWordYear: parts add up until an ordinal closes the year.
WordYear(c, i) ==
  LET step(y, n) ==
        LET v == Value(c, y.at)
            next == SkipInline(c, y.at + 1)
        IN  IF y.done THEN y
            ELSE IF Is(c, y.at, "scale")
            THEN [y EXCEPT !.sum = @ + Max({y.part, 1}) * v, !.part = 0, !.scaled = TRUE, !.at = next]
            ELSE IF Is(c, y.at, "cardinal") THEN [y EXCEPT !.part = @ + v, !.at = next]
            ELSE IF Is(c, y.at, "year ordinal") /\ (y.scaled \/ v >= 1000)
            THEN [y EXCEPT !.done = TRUE, !.year = y.sum + y.part + v]
            ELSE [y EXCEPT !.done = TRUE]
      start == [at |-> i, sum |-> 0, part |-> 0, scaled |-> FALSE, done |-> FALSE, year |-> 0]
  IN  FoldLeft(step, start, <<1, 2, 3, 4, 5>>)

NoYear == [year |-> 0, end |-> 0, last |-> 0]
WordYearAllowed(c, start, end) == LeftAnchor(c.s, start) # "none" \/ RightBirth(c.s, end)
\* Whether a year in words may stand behind start.
YearVouched(c, start, year) ==
  Kind(c, year.last) = "word" => WordYearAllowed(c, start, year.end)
\* dateTailYear
TailYear(c, i) ==
  LET n == NumberOf(Group(c, i))
      spelled(w) == IF w.year > 0 THEN [year |-> w.year, end |-> Tok(c, w.at).end, last |-> w.at] ELSE NoYear
  IN  IF YearEnd(c, i) > 0
      THEN [year |-> IF DigitPrefix(c, i) = 2 THEN ExpandYear(n) ELSE n, end |-> YearEnd(c, i), last |-> i]
      ELSE spelled(WordYear(c, i))

ValidDayMonth(day, month, year) ==
  CASE month = 0 -> day \in 1 .. 31 /\ (year = 0 \/ Plausible(year))
    [] month > 0 /\ year > 0 -> day \in 1 .. DaysIn(month, year)
    [] OTHER -> day \in 1 .. MostDays(month)

\* The month is token j, the year stands behind it with the same separator.
MonthYear(c, i, j) ==
  LET b == WordSepAt(c, IF IsDot(c, j + 1) THEN j + 2 ELSE j + 1)
  IN  IF b # NoSep /\ b.sep = WordSepAt(c, i + 1).sep THEN TailYear(c, b.next) ELSE NoYear
TextualRead(c, on, i, j, year) ==
  LET start == Tok(c, i).start
      day == NumberOf(Group(c, i))
  IN  IF ~YearVouched(c, start, year) \/ ~ValidDayMonth(day, Value(c, j), year.year) THEN Nothing
      ELSE IF year = NoYear THEN Read(ClassifyNoYear(c, on, start, Tok(c, j).end), j)
      ELSE Read(Classify(c, on, start, year.end, Date(day, Value(c, j), year.year, FALSE)), year.last)
TextualAt(c, on, i) ==
  LET a == WordSepAt(c, i + 1)
  IN  IF Short(c, i) /\ a # NoSep /\ (Is(c, a.next, "month") \/ Is(c, a.next, "month blank"))
      THEN TextualRead(c, on, i, a.next, MonthYear(c, i, a.next)) ELSE Nothing

\* ordinalAt: the day and the token behind it.
OrdinalAt(c, i) ==
  LET j == SkipSpace(c, i + 1)
  IN  IF Is(c, i, "tens") /\ Is(c, j, "ordinal") /\ Value(c, j) <= 9
      THEN [day |-> Value(c, i) + Value(c, j), after |-> j + 1]
      ELSE IF Is(c, i, "ordinal") THEN [day |-> Value(c, i), after |-> i + 1]
      ELSE [day |-> 0, after |-> 0]

WordsRead(c, on, i, day, j, year) ==
  IF year # NoYear /\ YearVouched(c, Tok(c, i).start, year)
  THEN Dated(c, on, i, year.end, year.last, Date(day, Value(c, j), year.year, FALSE)) ELSE Nothing
WordsAt(c, on, i) ==
  LET o == OrdinalAt(c, i)
      j == SkipSpace(c, o.after)
  IN  IF o.day > 0 /\ Is(c, j, "month")
      THEN WordsRead(c, on, i, o.day, j, TailYear(c, SkipSpace(c, j + 1))) ELSE Nothing

\* compact: eight digits behind a cue, day first, then year first.
Compact(g) ==
  LET dmy == Order(SubSeq(g, 1, 2), SubSeq(g, 3, 4), SubSeq(g, 5, 8), ".")
  IN  IF ValidCalendar(dmy) THEN dmy ELSE Order(SubSeq(g, 1, 4), SubSeq(g, 5, 6), SubSeq(g, 7, 8), "-")
CompactAt(c, on, i) ==
  IF LeftAnchor(c.s, Tok(c, i).start) # "none"
  THEN Dated(c, on, i, Tok(c, i).end, i, Compact(Group(c, i))) ELSE Nothing

\* birthYear: a year alone, when "year of birth" is spelled behind it.
BirthYearAt(c, on, i) ==
  LET glued == Kind(c, i) = "alnum"
      j == SkipInline(c, i + 1)
      k == SkipInline(c, j + 1)
      dots(n) == IsDot(c, n) /\ Is(c, SkipInline(c, n + 1), "birth letter")
      tail == IF glued THEN dots(i + 1)
              ELSE \/ Is(c, j, "year word") /\ Is(c, k, "born")
                   \/ Is(c, j, "year letter") /\ dots(j + 1)
  IN  IF DigitPrefix(c, i) = 4 /\ YearEnd(c, i) > 0 /\ tail /\ Plausible(NumberOf(Group(c, i)))
      THEN Read(Found(Tok(c, i).start, YearEnd(c, i), "birth date", 90, FALSE, on), i) ELSE Nothing

-----------------------------------------------------------------------------
(* datePropagate *)

GapRange(x, y) == IF x.end <= y.start THEN <<x.end, y.start>>
                  ELSE IF y.end <= x.start THEN <<y.end, x.start>> ELSE <<0, 0>>

SentenceBreak(s, from, to) ==
  LET capital(k) ==
        LET next == RunEnd(s, k, LAMBDA x : x = " ")
        IN  next > k /\ next < Len(s) /\ HasRole(s[next + 1], "capital")
  IN  \E k \in from + 1 .. to : s[k] \in {"nl", "!", "?"} \/ (s[k] = "." /\ capital(k))

Donor(x) == x.conf >= StrongFloor /\ ~x.partial

Propagated(s, spans, x) ==
  LET gap(y) == LET r == GapRange(x, y) IN Gap(s, r[1], r[2])
      donors == {i \in DOMAIN spans : Donor(spans[i]) /\ gap(spans[i]) <= LinkWindow}
      near == {i \in donors : \A j \in donors : gap(spans[i]) <= gap(spans[j])}
      best == spans[Min(near)]
      r == GapRange(x, best)
  IN  IF donors = {} THEN x
      ELSE IF best.type # "birth date" \/ SentenceBreak(s, r[1], r[2]) THEN x
      ELSE [x EXCEPT !.type = "birth date", !.conf = IF x.conf < BareConf THEN 75 ELSE 80]

Propagate(s, spans) ==
  IF Len(spans) \in 2 .. 64
  THEN [i \in DOMAIN spans |->
          IF spans[i].conf > BareConf THEN spans[i] ELSE Propagated(s, spans, spans[i])]
  ELSE spans

TokenAt(c, on, i) ==
  IF Kind(c, i) = "number" /\ Size(c, i) = 8 THEN CompactAt(c, on, i)
  ELSE IF Kind(c, i) = "word" THEN WordsAt(c, on, i) ELSE Nothing

\* Detect, up to the Resolve at its end.
Scans(c, on) ==
  LET all == DOMAIN c.toks
  IN  FlattenSeq(<<ScanTokens(c, [i \in all |-> NumericAt(c, on, i)]),
                   ScanTokens(c, [i \in all |-> TextualAt(c, on, i)]),
                   ScanTokens(c, [i \in all |-> DayMonthAt(c, on, i)]),
                   ScanTokens(c, [i \in all |-> TokenAt(c, on, i)]),
                   ScanTokens(c, [i \in all |-> BirthYearAt(c, on, i)])>>)
DateCandidates(s, on) == Propagate(s, Scans(Tokenize(s), on))
=============================================================================
