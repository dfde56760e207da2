------------------------------ MODULE Payload ------------------------------
(***************************************************************************)
(* The text the detectors read (Context.Lower) and the helpers of          *)
(* internal/pd/text they share.                                            *)
(*                                                                         *)
(* A payload is a sequence of cells: a digit, a Latin letter, a mark, or a *)
(* Cyrillic word (a cue, a month, any other), which the detectors only     *)
(* find whole.  An offset counts cells, so a span [start, end) is the      *)
(* cells start + 1 .. end; the windows of the code count bytes, which is   *)
(* what Gap does.                                                          *)
(***************************************************************************)
EXTENDS Integers, Sequences, FiniteSets, SequencesExt, FiniteSetsExt, TLC

CONSTANTS
  Width,   \* word -> its bytes
  Roles,   \* <<word, role>>: the lists of the code that hold the word
  Stems,   \* words a list holds the stem of: their right edge is free
  Number   \* word -> the number it stands for

Digit == [c \in {ToString(i) : i \in 0 .. 9} |-> CHOOSE i \in 0 .. 9 : ToString(i) = c]
Latin == [a |-> 10, b |-> 11, c |-> 12, d |-> 13, e |-> 14, g |-> 16, h |-> 17, i |-> 18, l |-> 21,
          m |-> 22, n |-> 23, r |-> 27, u |-> 30, v |-> 31, x |-> 33]

IsDigit(c) == c \in DOMAIN Digit
IsLatin(c) == c \in DOMAIN Latin
IsWord(c) == c \in DOMAIN Width
IsAlnum(c) == IsDigit(c) \/ IsLatin(c)
WordRune(c) == IsAlnum(c) \/ IsWord(c) \/ c = "_"
HasRole(c, role) == <<c, role>> \in Roles
WordsOf(role) == {r[1] : r \in {r \in Roles : r[2] = role}}

DigitAt(s, i) == i \in 0 .. Len(s) - 1 /\ IsDigit(s[i + 1])
CellAt(s, i, cells) == i \in 0 .. Len(s) - 1 /\ s[i + 1] \in cells

\* IsBoundary
Boundary(s, i) == i <= 0 \/ i >= Len(s) \/ ~WordRune(s[i]) \/ ~WordRune(s[i + 1])

Gap(s, from, to) ==
  to - from + MapThenSumSet(LAMBDA k : Width[s[k]] - 1, {k \in from + 1 .. to : IsWord(s[k])})

\* The cells k .. k of a cue of the list that starts on a boundary, its right
\* edge on one too where the list asks for it.
CueAt(s, k, role) ==
  HasRole(s[k], role) /\ Boundary(s, k - 1) /\ (s[k] \notin Stems => Boundary(s, k))

CueLeft(s, before, role, window) ==
  {k \in 1 .. before : CueAt(s, k, role) /\ Gap(s, k - 1, before) <= window}

CueRight(s, after, role, window) ==
  {k \in after + 1 .. Len(s) : CueAt(s, k, role) /\ Gap(s, after, k) <= window}

NoDigits(s, from, to) == \A k \in from + 1 .. to : ~IsDigit(s[k])

\* The digits of the cells from + 1 .. to.
Digits(s, from, to) == [k \in 1 .. to - from |-> Digit[s[from + k]]]

NumberOf(ds) == FoldLeft(LAMBDA n, d : 10 * n + d, 0, ds)

\* The numbers 1 .. n that satisfy test, in order.
Ascending(n, test(_)) == SelectSeq([k \in 1 .. n |-> k], test)
\* The offsets below n that do.
Offsets(n, test(_)) == SelectSeq([k \in 1 .. n |-> k - 1], test)

\* The end of the longest run of cells from i on that satisfy test.
RunEnd(s, i, test(_)) == Min({j \in i .. Len(s) : j = Len(s) \/ ~test(s[j + 1])})

\* A search from left to right that stops where something may start: at[i] is
\* what it finds there and where it goes on.
Hit(spans, next) == [spans |-> spans, next |-> next]
Sweep(starts, at) ==
  LET extend(acc, hit) == Hit(acc.spans \o hit.spans, hit.next)
      step(acc, i) == IF i < acc.next THEN acc ELSE extend(acc, at[i])
  IN  FoldLeft(step, Hit(<<>>, 0), starts).spans

Span(start, end, type, conf) == [start |-> start, end |-> end, type |-> type, conf |-> conf]
Touch(x, y) == x.start < y.end /\ y.start < x.end
=============================================================================
