------------------------------- MODULE Spans -------------------------------
(***************************************************************************)
(* What the engine does with the detections of a text: the overlap         *)
(* resolver of internal/pd/detect/detect.go, the filter, the label         *)
(* expansion and the chunking of internal/engine/engine.go, and Apply,     *)
(* Restore and RestoreText of internal/pd/mask/mask.go.                    *)
(*                                                                         *)
(* A text is a sequence of bytes, a byte is told only by what the code     *)
(* asks of it: "a" a letter, "1" a digit, " " a space, ":" another         *)
(* separator of labels, "n" a line break, "L" and "C" the two bytes of a   *)
(* Cyrillic letter, "N" and "A" those of a non-breaking space.  Offsets are *)
(* the code's: a span is [start, end), its bytes are start + 1 .. end of   *)
(* the sequence.                                                           *)
(***************************************************************************)
EXTENDS Integers, Sequences, FiniteSets, SequencesExt, FiniteSetsExt

CONSTANTS
  Priority,       \* type -> Type.Priority
  LabelWords,     \* words that introduce a value
  OccupancyMin,   \* resolveOccupancyMin: 48
  MaxLabelGap,    \* maxLabelGap: 8
  ChunkOverlap,   \* chunkOverlap: 256
  DefaultFloor,   \* config.DefaultMinConfidence
  NoRule,         \* a type the system, or the configuration, does not name
  MaskOf(_, _, _) \* strategy, type, value -> mask

ASSUME LimitsAssumption ==
  OccupancyMin \in Nat /\ MaxLabelGap \in Nat \ {0} /\ ChunkOverlap \in Nat

Bytes == {"a", "1", " ", ":", "n", "L", "C", "N", "A"}
Continuation(b) == b \in {"C", "A"}
WordByte(b) == b \in {"a", "L", "C", "N", "A"}
Length(s) == s.end - s.start
Overlaps(s, t) == s.start < t.end /\ t.start < s.end
Slice(text, from, to) == SubSeq(text, from + 1, to)

-----------------------------------------------------------------------------
(* Sorting and selecting *)

\* The elements of a finite set in the order of the pairs of R.
Ordered(S, R) ==
  [k \in 1 .. Cardinality(S) |->
     CHOOSE x \in S : Cardinality({y \in S : <<y, x>> \in R}) = k - 1]

\* The elements of seq that are in S, in the order they have there.
Among(seq, S) ==
  LET at == {i \in DOMAIN seq : seq[i] \in S}
      order == Ordered(at, {p \in at \X at : p[1] < p[2]})
  IN  [k \in DOMAIN order |-> seq[order[k]]]

\* sort.SliceStable
InOrder(seq, less(_, _)) ==
  LET before == {p \in (DOMAIN seq) \X (DOMAIN seq) :
                   \/ less(seq[p[1]], seq[p[2]])
                   \/ ~less(seq[p[2]], seq[p[1]]) /\ p[1] < p[2]}
      order == Ordered(DOMAIN seq, before)
  IN  [k \in DOMAIN seq |-> seq[order[k]]]

-----------------------------------------------------------------------------
(* Resolve *)

Slip_PriorityFirst(s) == <<Priority[s.type], Length(s), s.conf, - s.start>>
Rank(s) == <<Length(s), Priority[s.type], s.conf, - s.start>>

ResolveLess(s, t) ==
  \E k \in 1 .. 4 : /\ Rank(s)[k] > Rank(t)[k]
                    /\ \A j \in 1 .. k - 1 : Rank(s)[j] = Rank(t)[j]

\* sort.Slice leaves equal starts in any order; only empty spans can share one.
ByStart(spans) == InOrder(spans, LAMBDA s, t : s.start < t.start)

KeepApart(kept, s) ==
  IF \E i \in DOMAIN kept : Overlaps(s, kept[i]) THEN kept ELSE Append(kept, s)
Pairwise(spans) == FoldLeft(KeepApart, <<>>, spans)

Slip_FirstByteFree(s) == s.start + 1 .. s.end - 1
Claimed(s) == s.start .. s.end - 1
Take(taken, s) == taken \cup Claimed(s)

\* The bitmap: a span is kept when none of its bytes is taken.
KeepFree(acc, s) ==
  IF acc.taken \cap (s.start .. s.end - 1) # {} THEN acc
  ELSE [kept |-> Append(acc.kept, s), taken |-> Take(acc.taken, s)]
Occupancy(spans) == FoldLeft(KeepFree, [kept |-> <<>>, taken |-> {}], spans).kept

ResolveFilter(spans) ==
  IF Len(spans) < OccupancyMin THEN Pairwise(spans) ELSE Occupancy(spans)

Resolve(spans) ==
  IF Len(spans) < 2 THEN spans ELSE ByStart(ResolveFilter(InOrder(spans, ResolveLess)))

-----------------------------------------------------------------------------
(* splitPoints and chunkStart *)

\* Where the window [start, end) is cut: after the last line break of its last
\* quarter, else after the last space there, else before the rune that covers
\* its end.
CutOf(text, start, limit) ==
  LET end == start + limit
      after(b) == {i + 1 : i \in {j \in end - limit \div 4 .. end - 1 : text[j + 1] = b}}
      runes == {i \in start .. end : ~Continuation(text[i + 1])}
      cut == IF after("n") # {} THEN Max(after("n"))
             ELSE IF after(" ") # {} THEN Max(after(" ")) ELSE Max(runes \cup {start})
  IN  IF cut <= start THEN end ELSE cut

SplitPoints(text, limit) ==
  LET from[start \in 0 .. Len(text)] ==
        IF Len(text) - start > limit
        THEN <<start>> \o from[CutOf(text, start, limit)]
        ELSE <<start, Len(text)>>
  IN  from[0]

Slip_NoOverlap(text, cut) == cut
ChunkStart(text, cut) ==
  LET runes == {i \in 0 .. cut - ChunkOverlap : i = 0 \/ ~Continuation(text[i + 1])}
  IN  IF cut <= ChunkOverlap THEN 0 ELSE Max(runes)

-----------------------------------------------------------------------------
(* enabledFunc and filter: a system's rules, the custom types of a          *)
(* configuration                                                            *)

Enabled(rules, custom, type) ==
  IF rules[type] # NoRule THEN rules[type].enabled ELSE custom[type] # NoRule

Floor(rule) == IF rule.floor <= 0 THEN DefaultFloor ELSE rule.floor

KeepSpan(rules, custom, s) ==
  IF rules[s.type] = NoRule THEN custom[s.type] # NoRule /\ s.conf >= custom[s.type].floor
  ELSE rules[s.type].enabled /\ s.conf >= Floor(rules[s.type])

\* A companion that the second pass removes has still vouched for others.
Vouched(rules, s, kept) ==
  \/ rules[s.type] = NoRule
  \/ rules[s.type].needs = {}
  \/ \E i \in DOMAIN kept : kept[i].type \in rules[s.type].needs

Filter(rules, custom, spans) ==
  LET kept == Among(spans, {s \in ToSet(spans) : KeepSpan(rules, custom, s)})
  IN  Among(kept, {s \in ToSet(kept) : Vouched(rules, s, kept)})

-----------------------------------------------------------------------------
(* expandLabelSpans *)

Separator(b) == b \in {" ", ":"}

\* Left over the separators in front of `at', at most MaxLabelGap bytes.
GapStart(text, at, limit) ==
  LET gap[i \in 0 .. at] ==
        IF i <= limit \/ at - i >= MaxLabelGap THEN i
        ELSE IF Separator(text[i]) THEN gap[i - 1]
        ELSE IF text[i] = "A" /\ i - 2 >= limit /\ text[i - 1] = "N" THEN gap[i - 2]
        ELSE i
  IN  gap[at]

LeftmostOf(text, i, limit) ==
  Min({i} \cup {j \in limit .. i : \A k \in j + 1 .. i : WordByte(text[k])})

NoWord == -1
Slip_LimitIgnored(text, at, limit) ==
  LET i == GapStart(text, at, 0) j == LeftmostOf(text, i, 0)
  IN  IF j = i \/ Slice(text, j, i) \notin LabelWords THEN NoWord ELSE j
LabelWordStart(text, at, limit) ==
  LET i == GapStart(text, at, limit)
      j == LeftmostOf(text, i, limit)
  IN  IF (i > limit /\ text[i] = "n") \/ j = i \/ Slice(text, j, i) \notin LabelWords
      THEN NoWord ELSE j

Widened(text, at, limit) ==
  LET once == LabelWordStart(text, at, limit)
      twice == LabelWordStart(text, once, limit)
  IN  IF once = NoWord THEN at ELSE IF twice = NoWord THEN once ELSE twice

ExpandLabelSpans(text, spans) ==
  [i \in DOMAIN spans |-> [spans[i] EXCEPT
     !.start = Widened(text, @, IF i = 1 THEN 0 ELSE spans[i - 1].end)]]

-----------------------------------------------------------------------------
(* Apply, Restore, RestoreText *)

Droppable(text, cursor, s) == s.start < cursor \/ s.end > Len(text) \/ s.start >= s.end

\* One span after another: the text up to it, then its mask.
Replace(text, pick, acc, s) ==
  LET front == acc.out \o Slice(text, acc.cursor, s.start)
      original == Slice(text, s.start, s.end)
      mask == MaskOf(pick[s.type], s.type, original)
  IN  IF Droppable(text, acc.cursor, s) THEN acc
      ELSE [out |-> front \o mask, cursor |-> s.end,
            reps |-> Append(acc.reps,
              [type |-> s.type, start |-> s.start, end |-> s.end,
               maskStart |-> Len(front), maskEnd |-> Len(front) + Len(mask),
               original |-> original, masked |-> mask])]

Apply(text, spans, pick) ==
  LET done == FoldLeft(LAMBDA acc, s : Replace(text, pick, acc, s),
                       [out |-> <<>>, cursor |-> 0, reps |-> <<>>], ByStart(spans))
  IN  [masked |-> done.out \o Slice(text, done.cursor, Len(text)), reps |-> done.reps]

Slip_AdjacentRejected(masked, cursor, r) == r.maskStart <= cursor \/ r.maskEnd > Len(masked)
Misplaced(masked, cursor, r) ==
  r.maskStart < cursor \/ r.maskEnd > Len(masked) \/ r.maskStart >= r.maskEnd

PutBack(masked, acc, r) ==
  IF Misplaced(masked, acc.cursor, r) THEN acc
  ELSE [out |-> acc.out \o Slice(masked, acc.cursor, r.maskStart) \o r.original,
        cursor |-> r.maskEnd]

Restore(masked, reps) ==
  LET done == FoldLeft(LAMBDA acc, r : PutBack(masked, acc, r), [out |-> <<>>, cursor |-> 0],
                       InOrder(reps, LAMBDA q, r : q.maskStart < r.maskStart))
  IN  done.out \o Slice(masked, done.cursor, Len(masked))

\* unambiguousMasks: mask -> original, without the masks of two originals.
Originals(reps, m) == {reps[i].original : i \in {j \in DOMAIN reps : reps[j].masked = m}}
Unambiguous(reps) ==
  {m \in {reps[i].masked : i \in DOMAIN reps} : m # <<>> /\ Cardinality(Originals(reps, m)) = 1}

\* strings.ReplaceAll: from the left, without overlaps.
ReplaceEvery(text, m, o) ==
  LET from[i \in 1 .. Len(text) + 1] ==
        IF i > Len(text) THEN <<>>
        ELSE IF i + Len(m) - 1 <= Len(text) /\ SubSeq(text, i, i + Len(m) - 1) = m
        THEN o \o from[i + Len(m)]
        ELSE <<text[i]>> \o from[i + 1]
  IN  from[1]

Slip_ShortMasksFirst(masks) ==
  {order \in SetToSeqs(masks) : \A i, j \in DOMAIN order : i < j => Len(order[i]) <= Len(order[j])}
\* The masks come out of a map, so those of one length in any order.
MaskOrders(masks) ==
  {order \in SetToSeqs(masks) : \A i, j \in DOMAIN order : i < j => Len(order[i]) >= Len(order[j])}

RestoreText(text, reps) ==
  {FoldLeft(LAMBDA out, m : ReplaceEvery(out, m, CHOOSE o \in Originals(reps, m) : TRUE),
            text, order) : order \in MaskOrders(Unambiguous(reps))}
=============================================================================
