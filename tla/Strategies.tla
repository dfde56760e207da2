----------------------------- MODULE Strategies -----------------------------
(***************************************************************************)
(* The strategies of internal/pd/mask/strategies.go that put something of  *)
(* the same shape in place of a value.  A value is the cells of a payload. *)
(*                                                                         *)
(* The stream of a value, a digest of it, is a function h from positions   *)
(* to bytes; the fakes of a name or a city are left out.                   *)
(***************************************************************************)
EXTENDS Payload

CONSTANT Locals \* synEmailLocals

DigitCells(v) == SelectSeq(v, IsDigit)
DigitsOf(v) == Digits(DigitCells(v), 0, Len(DigitCells(v)))

-----------------------------------------------------------------------------
(* Stars *)

\* A Cyrillic letter takes two bytes.
Letters(c) == IF IsWord(c) THEN Width[c] \div 2 ELSE IF IsAlnum(c) THEN 1 ELSE 0

\* starsMask: a word shows only where all its letters do.
StarsMask(v, head, tail) ==
  LET count(k) == MapThenSumSet(LAMBDA j : Letters(v[j]), 1 .. k)
      shows(k) == /\ head + tail < count(Len(v))
                  /\ count(k) <= head \/ count(k - 1) >= count(Len(v)) - tail
  IN  [k \in DOMAIN v |-> IF Letters(v[k]) = 0 \/ shows(k) THEN v[k] ELSE "*"]

KeepDomain(v) ==
  LET at == Max({k \in DOMAIN v : v[k] = "@"} \cup {0})
  IN  IF at <= 1 THEN StarsMask(v, 2, 2)
      ELSE StarsMask(SubSeq(v, 1, at - 1), 2, 0) \o SubSeq(v, at, Len(v))

-----------------------------------------------------------------------------
(* Fakes *)

WriteDigits(v, ds) ==
  LET rank(k) == Cardinality({j \in 1 .. k : IsDigit(v[j])})
  IN  [k \in DOMAIN v |-> IF IsDigit(v[k]) THEN ToString(ds[rank(k)]) ELSE v[k]]

\* Letter for letter, digit for digit; vowels and consonants take turns, from a
\* vowel on behind a mark.
GenericShape(v, h) ==
  LET draws(from, k) == MapThenSumSet(LAMBDA j : Letters(v[j]), from .. k - 1)
      start(k) == Max({j \in 1 .. k - 1 : Letters(v[j]) = 0} \cup {0}) + 1
      digits(k) == Cardinality({j \in start(k) .. k - 1 : IsDigit(v[j])})
      pool(k) == IF (draws(start(k), k) - digits(k)) % 2 = 0 THEN <<"a", "e", "i">> ELSE <<"d", "g", "m">>
      fake(k) == h[draws(1, k)]
  IN  [k \in DOMAIN v |-> IF IsDigit(v[k]) THEN ToString(fake(k) % 10)
                          ELSE IF IsLatin(v[k]) THEN pool(k)[(fake(k) % 3) + 1]
                          ELSE IF IsWord(v[k]) THEN "fake" ELSE v[k]]

Slip_FirstNotDoubled(ds) ==
  LET term(k) == IF (Len(ds) - k) % 2 = 1 THEN ds[k] * 2 - (IF ds[k] > 4 THEN 9 ELSE 0) ELSE ds[k]
  IN  (10 - (MapThenSumSet(term, DOMAIN ds) % 10)) % 10
\* The digit that makes ds pass the Luhn test; the last of ds is doubled.
LuhnCheckDigit(ds) ==
  LET term(k) == IF (Len(ds) - k) % 2 = 0 THEN ds[k] * 2 - (IF ds[k] > 4 THEN 9 ELSE 0) ELSE ds[k]
  IN  (10 - (MapThenSumSet(term, DOMAIN ds) % 10)) % 10

SyntheticCard(v, h) ==
  LET d == DigitsOf(v)
      body == [i \in 1 .. Len(d) - 1 |-> IF i = 1 THEN d[1] ELSE h[i - 2] % 10]
  IN  IF Len(d) < 4 THEN GenericShape(v, h) ELSE WriteDigits(v, Append(body, LuhnCheckDigit(body)))

\* The prefix stays, the mobile 9 is put behind it.
SyntheticPhone(v, h) ==
  LET d == DigitsOf(v)
      prefix == IF d[1] \in {7, 8} THEN 1 ELSE 0
      fixed == IF Len(d) - prefix >= 10 THEN prefix + 1 ELSE prefix
      fake(i) == CASE i <= prefix -> d[i]
                   [] i > prefix /\ i <= fixed -> 9
                   [] OTHER -> h[i - fixed - 1] % 10
  IN  IF d = <<>> THEN GenericShape(v, h) ELSE WriteDigits(v, [i \in DOMAIN d |-> fake(i)])

SyntheticEmail(v, h) ==
  LET at == Max({k \in DOMAIN v : v[k] = "@"} \cup {0})
  IN  IF at <= 1 THEN GenericShape(v, h) ELSE Locals[(h[0] % Len(Locals)) + 1] \o SubSeq(v, at, Len(v))

\* digitGroups
DigitGroups(v) ==
  LET starts == Ascending(Len(v), LAMBDA k : IsDigit(v[k]) /\ (k = 1 \/ ~IsDigit(v[k - 1])))
  IN  [k \in DOMAIN starts |-> [start |-> starts[k] - 1, end |-> RunEnd(v, starts[k] - 1, IsDigit)]]

\* shiftYear: the year, and the byte the next field reads.
ShiftYear(y, h, p) ==
  LET back == y - (1 + (h[p] % 6))
  IN  IF back \in 1900 .. 2100 THEN [value |-> back, next |-> p + 1]
      ELSE [value |-> 1970 + (h[p + 1] % 40), next |-> p + 2]

\* padNum: cut on the left, or filled with zeros there.
PadNum(n, width) == [k \in 1 .. width |-> ToString((n \div (10 ^ (width - k))) % 10)]

\* A day every month has.
FakeDay(h, p) == [value |-> 1 + (h[p] % 28), next |-> p + 1]

SyntheticDate(v, h) ==
  LET g == DigitGroups(v)
      width(k) == g[k].end - g[k].start
      kinds == CASE Len(g) = 3 /\ width(3) = 4 -> <<"day", "month", "year">>
                 [] Len(g) = 3 /\ width(3) # 4 /\ width(1) = 4 -> <<"year", "month", "day">>
                 [] OTHER -> [k \in DOMAIN g |-> IF width(k) >= 4 THEN "year" ELSE "month"]
      field(kind, k, p) ==
        CASE kind = "year" -> ShiftYear(NumberOf(Digits(v, g[k].start, g[k].end)), h, p)
          [] kind = "month" -> [value |-> 1 + (h[p] % 12), next |-> p + 1]
          [] kind = "day" -> FakeDay(h, p)
      put(acc, k, f) ==
        [next |-> f.next, at |-> g[k].end,
         out |-> acc.out \o SubSeq(v, acc.at + 1, g[k].start) \o PadNum(f.value, width(k))]
      close(done) == done.out \o SubSeq(v, done.at + 1, Len(v))
  IN  close(FoldLeft(LAMBDA acc, k : put(acc, k, field(kinds[k], k, acc.next)),
                     [next |-> 0, at |-> 0, out |-> <<>>], [k \in DOMAIN g |-> k]))

Synthetic(type, v, h) ==
  CASE type = "card" -> SyntheticCard(v, h)
    [] type = "phone" -> SyntheticPhone(v, h)
    [] type = "email" -> SyntheticEmail(v, h)
    [] type \in {"birth date", "issue date"} -> SyntheticDate(v, h)
    [] OTHER -> GenericShape(v, h)

-----------------------------------------------------------------------------

\* A strategy is its name and the stream it would draw from.
Mask(strategy, type, v) ==
  CASE strategy.name = "stars_keep2" -> StarsMask(v, 2, 2)
    [] strategy.name = "stars_all" -> StarsMask(v, 0, 0)
    [] strategy.name = "keep_domain" -> KeepDomain(v)
    [] strategy.name = "synthetic" -> Synthetic(type, v, strategy.stream)
    [] strategy.name = "none" -> v
=============================================================================
