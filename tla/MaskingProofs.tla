--------------------------- MODULE MaskingProofs ---------------------------
(***************************************************************************)
(* Proofs about Masking: that a masked text can be restored, that Resolve   *)
(* decides contests by length, that both of its algorithms mask alike, that *)
(* every span is replaced and that entities come whole out of the chunks.   *)
(*                                                                         *)
(* What a fold computes is shown by its run: the function of the             *)
(* accumulators after each of its elements (...Steps), whose claim is then  *)
(* carried from one to the next (UpTo).  A recursive function is shown to   *)
(* exist by the smallest argument at which it could not (GapExists,         *)
(* SplitExists).                                                            *)
(***************************************************************************)
EXTENDS Masking, SpansProofs

-----------------------------------------------------------------------------
(* Apply, step by step *)

Replacement ==
  [type : Types, start : Nat, end : Nat, maskStart : Nat, maskEnd : Nat,
   original : Seq(Bytes), masked : Seq(Glyphs)]
Applying(text) == [out : Seq(Glyphs), cursor : 0 .. Len(text), reps : Seq(Replacement)]
Untouched == [out |-> <<>>, cursor |-> 0, reps |-> <<>>]

\* What a span that is not dropped adds, m being its mask.
Added(text, acc, s, m, front, new) ==
  /\ front = acc.out \o Slice(text, acc.cursor, s.start)
  /\ new = [out |-> front \o m, cursor |-> s.end,
            reps |-> Append(acc.reps,
              [type |-> s.type, start |-> s.start, end |-> s.end,
               maskStart |-> Len(front), maskEnd |-> Len(front) + Len(m),
               original |-> Slice(text, s.start, s.end), masked |-> m])]

LEMMA ReplaceAdds ==
  ASSUME NEW text \in Seq(Bytes), NEW pick, MasksOf(text, pick),
         NEW acc \in Applying(text), NEW s \in Span, ~Droppable(text, acc.cursor, s)
  PROVE  /\ acc.cursor <= s.start /\ s.start < s.end /\ s.end <= Len(text)
         /\ \E m \in Seq(Glyphs) \ {<<>>}, front \in Seq(Glyphs) :
              /\ Added(text, acc, s, m, front, Replace(text, pick, acc, s))
              /\ Len(front) = Len(acc.out) + (s.start - acc.cursor)
<1> DEFINE m == MaskOf(pick[s.type], s.type, Slice(text, s.start, s.end))
           front == acc.out \o Slice(text, acc.cursor, s.start)
<1>0. /\ s.start \in Nat /\ s.end \in Nat /\ s.type \in Types /\ Len(text) \in Nat
      /\ acc.cursor \in 0 .. Len(text) /\ acc.out \in Seq(Glyphs)
  BY DEF Span, Applying
<1>1. acc.cursor <= s.start /\ s.start < s.end /\ s.end <= Len(text)
  BY <1>0 DEF Droppable
<1>2. m \in Seq(Glyphs) \ {<<>>}
  <2>1. s.start \in 0 .. Len(text) /\ s.end \in 0 .. Len(text)
    BY <1>0, <1>1
  <2>2. QED
    BY <1>0, <1>1, <2>1 DEF MasksOf
<1>3. front \in Seq(Glyphs) /\ Len(front) = Len(acc.out) + (s.start - acc.cursor)
  <2> DEFINE y == Slice(text, acc.cursor, s.start)
  <2>1. acc.cursor \in Nat /\ s.start <= Len(text)
    BY <1>0, <1>1
  <2>2. y \in Seq(Bytes) /\ Len(y) = s.start - acc.cursor
    <3>1. text \in Seq(Bytes) /\ acc.cursor \in Nat /\ s.start \in Nat
      BY <1>0, <2>1
    <3>2. acc.cursor <= s.start
      BY <1>1
    <3> QED
      BY <2>1, <3>1, <3>2, SliceIs, Zenon
  <2>3. y \in Seq(Glyphs)
    BY <2>2, CasesAssumption
  <2> HIDE DEF y
  <2>4. acc.out \o y \in Seq(Glyphs) /\ Len(acc.out \o y) = Len(acc.out) + Len(y)
    BY <1>0, <2>3, JoinIs
  <2>5. QED
    BY <2>2, <2>4 DEF y
<1>4. Replace(text, pick, acc, s) =
        [out |-> front \o m, cursor |-> s.end,
         reps |-> Append(acc.reps,
           [type |-> s.type, start |-> s.start, end |-> s.end,
            maskStart |-> Len(front), maskEnd |-> Len(front) + Len(m),
            original |-> Slice(text, s.start, s.end), masked |-> m])]
  BY DEF Replace
<1>5. Added(text, acc, s, m, front, Replace(text, pick, acc, s))
  BY <1>4 DEF Added
<1> HIDE DEF m, front
<1>6. QED
  BY <1>1, <1>2, <1>3, <1>5

LEMMA ReplaceDrops ==
  ASSUME NEW text, NEW pick, NEW acc, NEW s, Droppable(text, acc.cursor, s)
  PROVE  Replace(text, pick, acc, s) = acc
BY DEF Replace

LEMMA ReplaceTyped ==
  ASSUME NEW text \in Seq(Bytes), NEW pick, MasksOf(text, pick),
         NEW acc \in Applying(text), NEW s \in Span
  PROVE  Replace(text, pick, acc, s) \in Applying(text)
<1>1. CASE Droppable(text, acc.cursor, s)
  BY <1>1, ReplaceDrops
<1>2. CASE ~Droppable(text, acc.cursor, s)
  <2>1. acc.cursor <= s.start /\ s.start < s.end /\ s.end <= Len(text)
    BY <1>2, ReplaceAdds
  <2>2. PICK m \in Seq(Glyphs) \ {<<>>}, front \in Seq(Glyphs) :
          Added(text, acc, s, m, front, Replace(text, pick, acc, s))
    BY <1>2, ReplaceAdds
  <2> DEFINE r == [type |-> s.type, start |-> s.start, end |-> s.end,
                   maskStart |-> Len(front), maskEnd |-> Len(front) + Len(m),
                   original |-> Slice(text, s.start, s.end), masked |-> m]
  <2>3. s.start \in Nat /\ s.end \in Nat /\ s.type \in Types /\ Len(text) \in Nat
    BY DEF Span
  <2>a. s.start <= s.end
    BY <2>1, <2>3
  <2>4. Slice(text, s.start, s.end) \in Seq(Bytes)
    BY <2>1, <2>3, <2>a, SliceIs
  <2>5. Len(front) \in Nat /\ Len(m) \in Nat /\ m \in Seq(Glyphs) /\ front \o m \in Seq(Glyphs)
    BY <2>2, JoinIs
  <2>6. r \in Replacement
    BY <2>3, <2>4, <2>5 DEF Replacement
  <2> HIDE DEF r
  <2>7. Append(acc.reps, r) \in Seq(Replacement)
    BY <2>6 DEF Applying
  <2>8. Replace(text, pick, acc, s)
          = [out |-> front \o m, cursor |-> s.end, reps |-> Append(acc.reps, r)]
    BY <2>2 DEF Added, r
  <2>9. s.end \in 0 .. Len(text)
    BY <2>1, <2>3
  <2>10. QED
    BY <2>5, <2>7, <2>8, <2>9 DEF Applying
<1>3. QED
  BY <1>1, <1>2

\* Apply goes from nothing to its result one span at a time.
AllReplaced(text, pick, seq) ==
  FoldLeft(LAMBDA acc, s : Replace(text, pick, acc, s), Untouched, seq)
ApplyRun(text, pick, seq, a) ==
  /\ a[0] = Untouched
  /\ \A i \in 1 .. Len(seq) : a[i] = Replace(text, pick, a[i - 1], seq[i])
  /\ a[Len(seq)] = AllReplaced(text, pick, seq)

LEMMA ApplySteps ==
  ASSUME NEW text \in Seq(Bytes), NEW pick, MasksOf(text, pick), NEW seq \in Seq(Span)
  PROVE  \E a \in [0 .. Len(seq) -> Applying(text)] : ApplyRun(text, pick, seq, a)
<1> DEFINE n == Len(seq)
           Acc == Applying(text)
           Adds(h) == h = [S \in SUBSET DOMAIN seq |->
                             IF S = {} THEN Untouched
                             ELSE Replace(text, pick, h[S \ {Max(S)}], seq[Max(S)])]
           step == [i \in 1 .. n |-> [acc \in Acc |-> Replace(text, pick, acc, seq[i])]]
           f == CHOOSE h : Adds(h)
<1>0. n \in Nat /\ DOMAIN seq = 1 .. n /\ \A i \in 1 .. n : seq[i] \in Span
  OBVIOUS
<1>1. Untouched \in Acc
  BY DEF Untouched, Applying
<1>2. step \in [1 .. n -> [Acc -> Acc]]
  BY <1>0, ReplaceTyped
<1>3. \A i \in 1 .. n, acc \in Acc : step[i][acc] = Replace(text, pick, acc, seq[i])
  OBVIOUS
<1>4. AllReplaced(text, pick, seq) = f[1 .. n]
  BY <1>0 DEF AllReplaced, FoldLeft, MapThenFoldSet
<1> HIDE DEF step, Acc
<1>5. PICK g \in [SUBSET (1 .. n) -> Acc] : FoldsAll(n, g, Untouched, step)
  BY <1>0, <1>1, <1>2, FoldsExist
<1>6. ASSUME NEW S \in SUBSET (1 .. n), S # {}
      PROVE  Max(S) \in 1 .. n /\ S \ {Max(S)} \in SUBSET (1 .. n)
  <2>1. S \subseteq 0 .. n
    OBVIOUS
  <2>2. Max(S) \in S
    BY <1>0, <1>6, <2>1, Greatest
  <2>3. QED
    BY <2>2
<1>7. Adds(g)
  <2>1. ASSUME NEW S \in SUBSET (1 .. n)
        PROVE  g[S] = IF S = {} THEN Untouched
                      ELSE Replace(text, pick, g[S \ {Max(S)}], seq[Max(S)])
    <3>1. CASE S = {}
      BY <1>5, <3>1 DEF FoldsAll
    <3>2. CASE S # {}
      <4>1. Max(S) \in 1 .. n /\ g[S \ {Max(S)}] \in Acc
        BY <1>6, <3>2
      <4>2. g[S] = step[Max(S)][g[S \ {Max(S)}]]
        BY <1>5, <3>2 DEF FoldsAll
      <4>3. QED
        BY <1>3, <3>2, <4>1, <4>2
    <3>3. QED
      BY <3>1, <3>2
  <2>2. QED
    BY <1>0, <2>1
<1>8. Adds(f)
  <2> HIDE DEF Adds
  <2>1. QED
    BY <1>7
<1> DEFINE a == [i \in 0 .. n |-> f[1 .. i]]
<1>9. a[0] = Untouched
  <2>1. 1 .. 0 = {} /\ {} \in SUBSET DOMAIN seq
    OBVIOUS
  <2> HIDE DEF f
  <2>2. f[{}] = Untouched
    BY <1>8, <2>1
  <2>3. QED
    BY <1>0, <2>1, <2>2
<1>10. ASSUME NEW i \in 1 .. n PROVE a[i] = Replace(text, pick, a[i - 1], seq[i])
  <2>1. 1 .. i # {} /\ Max(1 .. i) = i /\ (1 .. i) \ {i} = 1 .. i - 1
    <3>1. i \in Nat \ {0}
      OBVIOUS
    <3> QED
      BY <3>1, LastOf
  <2>2. 1 .. i \in SUBSET DOMAIN seq
    BY <1>0
  <2> HIDE DEF f
  <2>3. f[1 .. i] = Replace(text, pick, f[(1 .. i) \ {Max(1 .. i)}], seq[Max(1 .. i)])
    BY <1>8, <2>1, <2>2
  <2>4. f[1 .. i] = Replace(text, pick, f[1 .. i - 1], seq[i])
    BY <2>1, <2>3
  <2>5. QED
    BY <2>4
<1>11. a[n] = f[1 .. n] /\ DOMAIN a = 0 .. n
  BY <1>0
<1>12. a = [i \in 0 .. n |-> a[i]]
  OBVIOUS
<1> HIDE DEF a, f
<1>13. \A i \in 0 .. n : a[i] \in Acc
  <2> DEFINE T == {i \in 0 .. n : a[i] \in Acc}
  <2>1. 0 \in T
    BY <1>0, <1>1, <1>9
  <2>2. ASSUME NEW i \in 0 .. n - 1, i \in T PROVE i + 1 \in T
    <3>1. i + 1 \in 1 .. n /\ (i + 1) - 1 = i
      BY <1>0
    <3>2. a[i + 1] = Replace(text, pick, a[i], seq[i + 1])
      BY <1>10, <3>1
    <3>3. a[i] \in Acc /\ seq[i + 1] \in Span
      BY <1>0, <2>2, <3>1
    <3>4. a[i + 1] \in Acc
      BY <3>2, <3>3, ReplaceTyped DEF Acc
    <3>5. QED
      BY <1>0, <3>1, <3>4
  <2> HIDE DEF T
  <2>3. \A i \in 0 .. n : i \in T
    BY <1>0, <2>1, <2>2, UpTo, Zenon
  <2>4. QED
    BY <2>3 DEF T
<1>14. a \in [0 .. n -> Acc]
  BY <1>12, <1>13
<1>15. ApplyRun(text, pick, seq, a)
  BY <1>4, <1>9, <1>10, <1>11 DEF ApplyRun
<1>16. QED
  BY <1>14, <1>15 DEF Acc

-----------------------------------------------------------------------------
(* What Apply records mirrors what it writes *)

\* How far the first k replacements go in the masked text and in the text.
MaskedTo(reps, k) == IF k = 0 THEN 0 ELSE reps[k].maskEnd
DoneTo(reps, k) == IF k = 0 THEN 0 ELSE reps[k].end

\* The replacements in turn, and in front of each what is in front of it in the
\* text.
MirrorsAt(text, masked, reps, k) ==
  /\ MaskedTo(reps, k - 1) <= reps[k].maskStart /\ reps[k].maskStart < reps[k].maskEnd
  /\ reps[k].maskEnd <= Len(masked)
  /\ DoneTo(reps, k - 1) <= reps[k].start /\ reps[k].start < reps[k].end
  /\ reps[k].end <= Len(text)
  /\ Slice(masked, MaskedTo(reps, k - 1), reps[k].maskStart)
       = Slice(text, DoneTo(reps, k - 1), reps[k].start)
  /\ reps[k].original = Slice(text, reps[k].start, reps[k].end)
Mirrors(text, masked, reps) == \A k \in 1 .. Len(reps) : MirrorsAt(text, masked, reps, k)

\* Where Apply is after each of its steps.
Applied(text, acc) ==
  /\ Mirrors(text, acc.out, acc.reps)
  /\ acc.cursor = DoneTo(acc.reps, Len(acc.reps))
  /\ Len(acc.out) = MaskedTo(acc.reps, Len(acc.reps))

LEMMA MarksTyped ==
  ASSUME NEW reps \in Seq(Replacement), NEW k \in 0 .. Len(reps)
  PROVE  MaskedTo(reps, k) \in Nat /\ DoneTo(reps, k) \in Nat
<1>1. CASE k = 0
  BY <1>1 DEF MaskedTo, DoneTo
<1>2. CASE k # 0
  <2>1. k \in 1 .. Len(reps)
    BY <1>2
  <2>2. reps[k] \in Replacement
    BY <2>1
  <2>3. QED
    BY <1>2, <2>2 DEF MaskedTo, DoneTo, Replacement
<1>3. QED
  BY <1>1, <1>2

LEMMA MirrorsLonger ==
  ASSUME NEW text, NEW x \in Seq(Glyphs), NEW y \in Seq(Glyphs),
         NEW reps \in Seq(Replacement), Mirrors(text, x, reps)
  PROVE  Mirrors(text, x \o y, reps)
<1>1. Len(x) \in Nat /\ Len(x) <= Len(x \o y) /\ Len(x \o y) \in Nat
  BY JoinIs
<1>2. ASSUME NEW k \in 1 .. Len(reps) PROVE MirrorsAt(text, x \o y, reps, k)
  <2>1. MirrorsAt(text, x, reps, k)
    BY DEF Mirrors
  <2>2. k - 1 \in 0 .. Len(reps) /\ reps[k] \in Replacement
    OBVIOUS
  <2> DEFINE a == MaskedTo(reps, k - 1)
             b == reps[k].maskStart
             c == reps[k].maskEnd
  <2>3. a \in Nat /\ b \in Nat /\ c \in Nat
    BY <2>2, MarksTyped DEF Replacement
  <2>4. a <= b /\ b < c /\ c <= Len(x)
    BY <2>1 DEF MirrorsAt
  <2>5. Slice(x, a, b) = Slice(text, DoneTo(reps, k - 1), reps[k].start)
    BY <2>1 DEF MirrorsAt
  <2> HIDE DEF a, b, c
  <2>6. b <= Len(x) /\ c <= Len(x \o y)
    BY <1>1, <2>3, <2>4
  <2>7. Slice(x \o y, a, b) = Slice(x, a, b)
    BY <2>3, <2>4, <2>6, SliceOfFront
  <2>8. QED
    BY <2>1, <2>5, <2>6, <2>7 DEF MirrorsAt, a, b, c
<1>3. QED
  BY <1>2 DEF Mirrors

LEMMA AppendIs ==
  ASSUME NEW U, NEW seq \in Seq(U), NEW x \in U
  PROVE  /\ Append(seq, x) \in Seq(U) /\ Len(Append(seq, x)) = Len(seq) + 1
         /\ Len(seq) \in Nat
         /\ Append(seq, x)[Len(seq) + 1] = x
         /\ \A i \in 1 .. Len(seq) : Append(seq, x)[i] = seq[i]
OBVIOUS

LEMMA AppendMarks ==
  ASSUME NEW reps \in Seq(Replacement), NEW r \in Replacement, NEW k \in 0 .. Len(reps)
  PROVE  /\ MaskedTo(Append(reps, r), k) = MaskedTo(reps, k)
         /\ DoneTo(Append(reps, r), k) = DoneTo(reps, k)
<1>1. CASE k = 0
  BY <1>1 DEF MaskedTo, DoneTo
<1>2. CASE k # 0
  <2>1. k \in 1 .. Len(reps)
    BY <1>2
  <2>2. Append(reps, r)[k] = reps[k]
    BY <2>1, AppendIs
  <2>3. QED
    BY <1>2, <2>2 DEF MaskedTo, DoneTo
<1>3. QED
  BY <1>1, <1>2

\* One more replacement.
LEMMA MirrorsMore ==
  ASSUME NEW text, NEW x, NEW reps \in Seq(Replacement), NEW r \in Replacement,
         Mirrors(text, x, reps),
         MirrorsAt(text, x, Append(reps, r), Len(reps) + 1)
  PROVE  Mirrors(text, x, Append(reps, r))
<1> DEFINE n == Len(reps)
           more == Append(reps, r)
<1>0. n \in Nat /\ Len(more) = n + 1 /\ \A i \in 1 .. n : more[i] = reps[i]
  BY AppendIs
<1>1. ASSUME NEW k \in 1 .. n PROVE MirrorsAt(text, x, more, k)
  <2>1. MirrorsAt(text, x, reps, k)
    BY DEF Mirrors
  <2>2. k - 1 \in 0 .. n
    BY <1>0
  <2>3. /\ MaskedTo(more, k - 1) = MaskedTo(reps, k - 1)
        /\ DoneTo(more, k - 1) = DoneTo(reps, k - 1)
    BY <2>2, AppendMarks
  <2>4. more[k] = reps[k]
    BY <1>0
  <2> HIDE DEF more
  <2>5. QED
    BY <2>1, <2>3, <2>4 DEF MirrorsAt
<1>2. \A k \in 1 .. n + 1 : k \in 1 .. n \/ k = n + 1
  BY <1>0
<1> HIDE DEF more
<1>3. \A k \in 1 .. Len(more) : MirrorsAt(text, x, more, k)
  BY <1>0, <1>1, <1>2 DEF more
<1>4. QED
  BY <1>3 DEF Mirrors, more

LEMMA ReplaceMirrors ==
  ASSUME NEW text \in Seq(Bytes), NEW pick, MasksOf(text, pick),
         NEW acc \in Applying(text), NEW s \in Span, Applied(text, acc)
  PROVE  Applied(text, Replace(text, pick, acc, s))
<1>1. CASE Droppable(text, acc.cursor, s)
  BY <1>1, ReplaceDrops
<1>2. CASE ~Droppable(text, acc.cursor, s)
  <2>1. acc.cursor <= s.start /\ s.start < s.end /\ s.end <= Len(text)
    BY <1>2, ReplaceAdds
  <2> DEFINE new == Replace(text, pick, acc, s)
  <2>2. PICK m \in Seq(Glyphs) \ {<<>>}, front \in Seq(Glyphs) :
          Added(text, acc, s, m, front, new) /\ Len(front) = Len(acc.out) + (s.start - acc.cursor)
    BY <1>2, ReplaceAdds
  <2> DEFINE y == Slice(text, acc.cursor, s.start)
             n == Len(acc.reps)
             r == [type |-> s.type, start |-> s.start, end |-> s.end,
                   maskStart |-> Len(front), maskEnd |-> Len(front) + Len(m),
                   original |-> Slice(text, s.start, s.end), masked |-> m]
             more == Append(acc.reps, r)
  <2>3. /\ s.start \in Nat /\ s.end \in Nat /\ Len(text) \in Nat /\ s.type \in Types
        /\ acc.cursor \in Nat /\ acc.out \in Seq(Glyphs) /\ acc.reps \in Seq(Replacement)
        /\ Len(acc.out) \in Nat /\ n \in Nat
    BY DEF Span, Applying
  <2>4. s.start <= s.end /\ s.start <= Len(text)
    BY <2>1, <2>3
  <2>5. Slice(text, s.start, s.end) \in Seq(Bytes)
    BY <2>1, <2>3, <2>4, SliceIs
  <2>6. y \in Seq(Bytes) /\ Len(y) = s.start - acc.cursor
    <3>1. acc.cursor \in Nat /\ s.start \in Nat
      BY <2>3
    <3>2. acc.cursor <= s.start /\ s.start <= Len(text)
      BY <2>1, <2>4
    <3> QED
      BY <3>1, <3>2, SliceIs, Zenon
  <2>7. y \in Seq(Glyphs) /\ m \in Seq(Glyphs)
    BY <2>6, CasesAssumption
  <2>8. Len(m) \in Nat /\ Len(m) > 0 /\ Len(front) \in Nat /\ Len(acc.out) <= Len(front)
    BY <2>1, <2>2, <2>3
  <2>9. r \in Replacement
    BY <2>3, <2>5, <2>7, <2>8 DEF Replacement
  <2>10. new.out = front \o m /\ new.cursor = s.end /\ new.reps = more
    <3> HIDE DEF new
    <3>1. QED
      BY <2>2 DEF Added
  <2>11. front = acc.out \o y
    BY <2>2 DEF Added
  <2>12. /\ r.start = s.start /\ r.end = s.end /\ r.original = Slice(text, s.start, s.end)
         /\ r.maskStart = Len(front) /\ r.maskEnd = Len(front) + Len(m)
    OBVIOUS
  <2> HIDE DEF r, y, new
  <2>13. more[n + 1] = r /\ Len(more) = n + 1
    BY <2>3, <2>9, AppendIs
  <2>14. MaskedTo(more, n) = Len(acc.out) /\ DoneTo(more, n) = acc.cursor
    <3>1. n \in 0 .. Len(acc.reps)
      BY <2>3
    <3>2. MaskedTo(more, n) = MaskedTo(acc.reps, n) /\ DoneTo(more, n) = DoneTo(acc.reps, n)
      BY <2>3, <2>9, <3>1, AppendMarks
    <3>3. QED
      BY <3>2 DEF Applied
  <2>15. Mirrors(text, front \o m, acc.reps)
    <3>1. Mirrors(text, acc.out, acc.reps)
      BY DEF Applied
    <3>2. Mirrors(text, front, acc.reps)
      BY <2>3, <2>7, <2>11, <3>1, MirrorsLonger
    <3>3. QED
      BY <2>3, <2>7, <3>2, MirrorsLonger
  <2>16. MirrorsAt(text, front \o m, more, n + 1)
    <3>1. (n + 1) - 1 = n
      BY <2>3
    <3>2. Slice(front, Len(acc.out), Len(front)) = y
      BY <2>3, <2>7, <2>11, SliceOfBack
    <3>3. Slice(front \o m, Len(acc.out), Len(front)) = Slice(front, Len(acc.out), Len(front))
      <4>1. Len(front) <= Len(front)
        BY <2>8
      <4>2. QED
        BY <2>3, <2>7, <2>8, <4>1, SliceOfFront
    <3>4. Slice(front \o m, MaskedTo(more, n), r.maskStart) = Slice(text, DoneTo(more, n), r.start)
      BY <2>12, <2>14, <3>2, <3>3 DEF y
    <3>5. /\ Len(acc.out) <= Len(front) /\ Len(front) < Len(front) + Len(m)
          /\ Len(front) + Len(m) <= Len(front \o m)
      <4>1. Len(front \o m) = Len(front) + Len(m)
        BY <2>7, JoinIs
      <4>2. QED
        BY <2>8, <4>1
    <3> HIDE DEF more, n
    <3>6. QED
      BY <2>1, <2>12, <2>13, <2>14, <3>1, <3>4, <3>5 DEF MirrorsAt
  <2>17. Mirrors(text, front \o m, more)
    BY <2>3, <2>9, <2>15, <2>16, MirrorsMore
  <2>18. new.cursor = DoneTo(new.reps, Len(new.reps)) /\ Len(new.out) = MaskedTo(new.reps, Len(new.reps))
    <3>1. Len(front \o m) = Len(front) + Len(m) /\ n + 1 # 0
      BY <2>3, <2>7, JoinIs
    <3> HIDE DEF more, n
    <3>2. QED
      BY <2>10, <2>12, <2>13, <3>1 DEF DoneTo, MaskedTo
  <2>19. Applied(text, new)
    BY <2>10, <2>17, <2>18 DEF Applied
  <2>20. QED
    BY <2>19 DEF new
<1>3. QED
  BY <1>1, <1>2

\* What Apply returns.
Result(text, res) ==
  /\ res.masked \in Seq(Glyphs) /\ res.reps \in Seq(Replacement)
  /\ Mirrors(text, res.masked, res.reps)
  /\ LET n == Len(res.reps)
     IN  /\ MaskedTo(res.reps, n) <= Len(res.masked) /\ DoneTo(res.reps, n) <= Len(text)
         /\ Slice(res.masked, MaskedTo(res.reps, n), Len(res.masked))
              = Slice(text, DoneTo(res.reps, n), Len(text))

LEMMA ByStartIs ==
  ASSUME NEW U \in SUBSET Span, NEW seq \in Seq(U)
  PROVE  /\ ByStart(seq) \in Seq(U) /\ Len(ByStart(seq)) = Len(seq)
         /\ \E p : Rearranges(p, seq, ByStart(seq))
         /\ \A i, j \in 1 .. Len(seq) : i < j => ByStart(seq)[i].start <= ByStart(seq)[j].start
<1>1. \A s \in U : s.start \in Nat
  BY DEF Span
<1> QED
  BY <1>1, ByStartSorts

LEMMA ApplyMirrors ==
  ASSUME NEW text \in Seq(Bytes), NEW pick, MasksOf(text, pick), NEW seq \in Seq(Span)
  PROVE  Result(text, Apply(text, seq, pick))
<1> DEFINE q == ByStart(seq)
           n == Len(q)
           done == AllReplaced(text, pick, q)
<1>1. q \in Seq(Span)
  BY ByStartIs
<1>2. Apply(text, seq, pick) =
        [masked |-> done.out \o Slice(text, done.cursor, Len(text)), reps |-> done.reps]
  BY DEF Apply, AllReplaced, Untouched
<1> HIDE DEF q, done
<1>a. PICK a \in [0 .. n -> Applying(text)] : ApplyRun(text, pick, q, a)
  BY <1>1, ApplySteps
<1>3. /\ a[0] = Untouched /\ a[n] = done
      /\ \A i \in 1 .. n : a[i] = Replace(text, pick, a[i - 1], q[i])
  BY <1>a DEF ApplyRun, done
<1>4. n \in Nat
  BY <1>1
<1>5. Applied(text, a[n])
  <2> DEFINE T == {i \in 0 .. n : Applied(text, a[i])}
  <2>1. Applied(text, Untouched)
    BY DEF Applied, Untouched, Mirrors, DoneTo, MaskedTo
  <2>2. 0 \in T
    BY <1>3, <1>4, <2>1
  <2>3. ASSUME NEW i \in 0 .. n - 1, i \in T PROVE i + 1 \in T
    <3>1. i + 1 \in 1 .. n /\ (i + 1) - 1 = i
      BY <1>4
    <3>2. a[i + 1] = Replace(text, pick, a[i], q[i + 1])
      BY <1>3, <3>1
    <3>3. a[i] \in Applying(text) /\ q[i + 1] \in Span /\ Applied(text, a[i])
      <4>1. i \in 0 .. n
        BY <1>4
      <4>2. a[i] \in Applying(text)
        BY <4>1
      <4>3. q[i + 1] \in Span
        BY <1>1, <3>1
      <4> QED
        BY <2>3, <4>2, <4>3
    <3>4. Applied(text, a[i + 1])
      BY <3>2, <3>3, ReplaceMirrors
    <3>5. QED
      BY <1>4, <3>1, <3>4
  <2> HIDE DEF T
  <2>4. \A i \in 0 .. n : i \in T
    BY <1>4, <2>2, <2>3, UpTo, Zenon
  <2>5. n \in T
    BY <1>4, <2>4
  <2>6. QED
    BY <2>5 DEF T
<1>6. done \in Applying(text) /\ Applied(text, done)
  BY <1>3, <1>4, <1>5
<1> DEFINE y == Slice(text, done.cursor, Len(text))
           x == done.out
<1>7. /\ x \in Seq(Glyphs) /\ done.cursor \in Nat /\ done.cursor <= Len(text)
      /\ done.reps \in Seq(Replacement) /\ Len(text) \in Nat
  BY <1>6 DEF Applying
<1>8. y \in Seq(Bytes)
  <2>1. Len(text) <= Len(text)
    BY <1>7
  <2>2. QED
    BY <1>7, <2>1, SliceIs
<1>9. y \in Seq(Glyphs)
  BY <1>8, CasesAssumption
<1>10. Mirrors(text, x \o y, done.reps)
  <2>1. Mirrors(text, x, done.reps)
    BY <1>6 DEF Applied
  <2> HIDE DEF x, y
  <2>2. QED
    BY <1>7, <1>9, <2>1, MirrorsLonger
<1>11. x \o y \in Seq(Glyphs) /\ Len(x) <= Len(x \o y) /\ Slice(x \o y, Len(x), Len(x \o y)) = y
  <2> HIDE DEF x, y
  <2>1. x \o y \in Seq(Glyphs) /\ Len(x \o y) = Len(x) + Len(y) /\ Len(x) \in Nat /\ Len(y) \in Nat
    BY <1>7, <1>9, JoinIs
  <2>2. QED
    BY <1>7, <1>9, <2>1, SliceOfBack
<1>12. Len(x) = MaskedTo(done.reps, Len(done.reps)) /\ done.cursor = DoneTo(done.reps, Len(done.reps))
  BY <1>6 DEF Applied
<1> DEFINE res == [masked |-> x \o y, reps |-> done.reps]
<1>13. res.masked = x \o y /\ res.reps = done.reps /\ res = Apply(text, seq, pick)
  BY <1>2
<1>14. y = Slice(text, DoneTo(done.reps, Len(done.reps)), Len(text))
  BY <1>12
<1> HIDE DEF x, y, res
<1>15. Result(text, res)
  BY <1>7, <1>10, <1>11, <1>12, <1>13, <1>14 DEF Result
<1>16. QED
  BY <1>13, <1>15

-----------------------------------------------------------------------------
(* Restore *)

\* Replacements that follow each other are in the order Restore sorts them into.
LEMMA MasksFollow ==
  ASSUME NEW text, NEW x, NEW reps \in Seq(Replacement), Mirrors(text, x, reps)
  PROVE  \A i, j \in 1 .. Len(reps) : i < j => reps[i].maskStart < reps[j].maskStart
<1> DEFINE n == Len(reps)
           T == {j \in 0 .. n : \A i \in 1 .. n : i < j => reps[i].maskEnd <= reps[j].maskStart}
<1>0. n \in Nat
  OBVIOUS
<1>1. ASSUME NEW i \in 1 .. n
      PROVE  /\ reps[i].maskStart \in Nat /\ reps[i].maskEnd \in Nat
             /\ reps[i].maskStart < reps[i].maskEnd
  <2>1. reps[i] \in Replacement /\ MirrorsAt(text, x, reps, i)
    BY DEF Mirrors
  <2>2. QED
    BY <2>1 DEF Replacement, MirrorsAt
<1>2. ASSUME NEW i \in 1 .. n, i + 1 \in 1 .. n PROVE reps[i].maskEnd <= reps[i + 1].maskStart
  <2>1. MirrorsAt(text, x, reps, i + 1)
    BY <1>2 DEF Mirrors
  <2>2. (i + 1) - 1 = i /\ i # 0
    OBVIOUS
  <2>3. QED
    BY <2>1, <2>2 DEF MirrorsAt, MaskedTo
<1>3. 0 \in T
  BY <1>0
<1>4. ASSUME NEW j \in 0 .. n - 1, j \in T PROVE j + 1 \in T
  <2>1. ASSUME NEW i \in 1 .. n, i < j + 1 PROVE reps[i].maskEnd <= reps[j + 1].maskStart
    <3>1. j \in 1 .. n /\ j + 1 \in 1 .. n
      BY <1>0, <2>1
    <3>2. CASE i = j
      BY <1>2, <3>1, <3>2
    <3>3. CASE i < j
      <4>1. reps[i].maskEnd <= reps[j].maskStart
        BY <1>4, <3>3
      <4>2. reps[j].maskEnd <= reps[j + 1].maskStart
        BY <1>2, <3>1
      <4>3. QED
        BY <1>1, <3>1, <4>1, <4>2
    <3>4. i \in Int /\ j \in Int
      OBVIOUS
    <3>5. QED
      BY <2>1, <3>2, <3>3, <3>4
  <2>2. j + 1 \in 0 .. n
    BY <1>0
  <2>3. QED
    BY <2>1, <2>2
<1>5. \A j \in 0 .. n : j \in T
  <2> HIDE DEF T
  <2>1. QED
    BY <1>0, <1>3, <1>4, UpTo, Zenon
<1>6. ASSUME NEW i \in 1 .. n, NEW j \in 1 .. n, i < j
      PROVE  reps[i].maskStart < reps[j].maskStart
  <2>1. j \in 0 .. n
    BY <1>0
  <2>2. reps[i].maskEnd <= reps[j].maskStart
    BY <1>5, <1>6, <2>1
  <2>3. QED
    BY <1>1, <2>2
<1>7. QED
  BY <1>6

ByMask(reps) == InOrder(reps, LAMBDA q, r : q.maskStart < r.maskStart)

LEMMA AlreadyInOrder ==
  ASSUME NEW reps \in Seq(Replacement),
         \A i, j \in 1 .. Len(reps) : i < j => reps[i].maskStart < reps[j].maskStart
  PROVE  ByMask(reps) = reps
<1> DEFINE n == Len(reps)
           before == {pair \in (DOMAIN reps) \X (DOMAIN reps) :
                        \/ reps[pair[1]].maskStart < reps[pair[2]].maskStart
                        \/ /\ ~(reps[pair[2]].maskStart < reps[pair[1]].maskStart)
                           /\ pair[1] < pair[2]}
           p == Ordered(1 .. n, before)
<1>0. n \in Nat /\ DOMAIN reps = 1 .. n
  OBVIOUS
<1>1. ByMask(reps) = [k \in 1 .. n |-> reps[p[k]]]
  BY <1>0 DEF ByMask, InOrder
<1>2. ASSUME NEW i \in 1 .. n, NEW j \in 1 .. n PROVE <<i, j>> \in before <=> i < j
  <2>1. reps[i] \in Replacement /\ reps[j] \in Replacement
    OBVIOUS
  <2>2. reps[i].maskStart \in Nat /\ reps[j].maskStart \in Nat
    BY <2>1 DEF Replacement
  <2>3. (i < j => reps[i].maskStart < reps[j].maskStart) /\ (j < i => reps[j].maskStart < reps[i].maskStart)
    OBVIOUS
  <2>4. i = j \/ i < j \/ j < i
    OBVIOUS
  <2>5. <<i, j>> \in before <=> \/ reps[i].maskStart < reps[j].maskStart
                                \/ ~(reps[j].maskStart < reps[i].maskStart) /\ i < j
    BY <1>0
  <2>6. QED
    BY <2>2, <2>3, <2>4, <2>5
<1> HIDE DEF before
<1>3. ASSUME NEW j \in 1 .. n
      PROVE  Cardinality({i \in 1 .. n : <<i, j>> \in before}) = j - 1
  <2>1. {i \in 1 .. n : <<i, j>> \in before} = 1 .. j - 1
    BY <1>2
  <2>2. Cardinality(1 .. j - 1) = j - 1
    <3>1. j - 1 \in Nat
      BY <1>0
    <3> QED
      BY <3>1, FirstNumbers
  <2>3. QED
    BY <2>1, <2>2
<1>4. Cardinality(1 .. n) = n
  BY <1>0, FirstNumbers
<1>5. p = [k \in 1 .. n |->
             CHOOSE j \in 1 .. n : Cardinality({i \in 1 .. n : <<i, j>> \in before}) = k - 1]
  BY <1>4 DEF Ordered
<1> HIDE DEF p
<1>6. ASSUME NEW k \in 1 .. n PROVE p[k] = k
  <2> DEFINE j == p[k]
  <2>1. Cardinality({i \in 1 .. n : <<i, k>> \in before}) = k - 1
    BY <1>3
  <2>2. j \in 1 .. n /\ Cardinality({i \in 1 .. n : <<i, j>> \in before}) = k - 1
    BY <1>5, <2>1
  <2>3. j - 1 = k - 1
    BY <1>3, <2>2
  <2>4. QED
    BY <2>2, <2>3
<1>7. ByMask(reps) = [k \in 1 .. n |-> reps[k]]
  BY <1>1, <1>6
<1>8. reps = [k \in 1 .. n |-> reps[k]]
  BY <1>0
<1>9. QED
  BY <1>7, <1>8

Restoring(masked) == [out : Seq(Glyphs), cursor : 0 .. Len(masked)]
Nothing == [out |-> <<>>, cursor |-> 0]

LEMMA PutBackTyped ==
  ASSUME NEW masked \in Seq(Glyphs), NEW acc \in Restoring(masked), NEW r \in Replacement
  PROVE  PutBack(masked, acc, r) \in Restoring(masked)
<1>0. /\ acc.out \in Seq(Glyphs) /\ acc.cursor \in 0 .. Len(masked) /\ Len(masked) \in Nat
      /\ r.maskStart \in Nat /\ r.maskEnd \in Nat /\ r.original \in Seq(Bytes)
  BY DEF Restoring, Replacement
<1>1. CASE Misplaced(masked, acc.cursor, r)
  BY <1>1 DEF PutBack
<1>2. CASE ~Misplaced(masked, acc.cursor, r)
  <2> DEFINE y == Slice(masked, acc.cursor, r.maskStart)
  <2>1. /\ acc.cursor \in Nat /\ acc.cursor <= r.maskStart /\ r.maskStart <= Len(masked)
        /\ r.maskEnd \in 0 .. Len(masked)
    BY <1>0, <1>2 DEF Misplaced
  <2>2. y \in Seq(Glyphs)
    BY <1>0, <2>1, SliceIs
  <2>3. r.original \in Seq(Glyphs)
    BY <1>0, CasesAssumption
  <2>4. PutBack(masked, acc, r) = [out |-> acc.out \o y \o r.original, cursor |-> r.maskEnd]
    BY <1>2 DEF PutBack
  <2> HIDE DEF y
  <2>5. acc.out \o y \in Seq(Glyphs)
    BY <1>0, <2>2, JoinIs
  <2>6. acc.out \o y \o r.original \in Seq(Glyphs)
    BY <2>3, <2>5, JoinIs
  <2>7. QED
    BY <2>1, <2>4, <2>6 DEF Restoring
<1>3. QED
  BY <1>1, <1>2

AllPutBack(masked, seq) == FoldLeft(LAMBDA acc, r : PutBack(masked, acc, r), Nothing, seq)
RestoreRun(masked, seq, a) ==
  /\ a[0] = Nothing
  /\ \A i \in 1 .. Len(seq) : a[i] = PutBack(masked, a[i - 1], seq[i])
  /\ a[Len(seq)] = AllPutBack(masked, seq)

LEMMA RestoreSteps ==
  ASSUME NEW masked \in Seq(Glyphs), NEW seq \in Seq(Replacement)
  PROVE  \E a \in [0 .. Len(seq) -> Restoring(masked)] : RestoreRun(masked, seq, a)
<1> DEFINE n == Len(seq)
           Acc == Restoring(masked)
           Adds(h) == h = [S \in SUBSET DOMAIN seq |->
                             IF S = {} THEN Nothing
                             ELSE PutBack(masked, h[S \ {Max(S)}], seq[Max(S)])]
           step == [i \in 1 .. n |-> [acc \in Acc |-> PutBack(masked, acc, seq[i])]]
           f == CHOOSE h : Adds(h)
<1>0. n \in Nat /\ DOMAIN seq = 1 .. n /\ \A i \in 1 .. n : seq[i] \in Replacement
  OBVIOUS
<1>1. Nothing \in Acc
  BY DEF Nothing, Restoring
<1>2. step \in [1 .. n -> [Acc -> Acc]]
  BY <1>0, PutBackTyped
<1>3. \A i \in 1 .. n, acc \in Acc : step[i][acc] = PutBack(masked, acc, seq[i])
  OBVIOUS
<1>4. AllPutBack(masked, seq) = f[1 .. n]
  BY <1>0 DEF AllPutBack, FoldLeft, MapThenFoldSet
<1> HIDE DEF step, Acc
<1>5. PICK g \in [SUBSET (1 .. n) -> Acc] : FoldsAll(n, g, Nothing, step)
  BY <1>0, <1>1, <1>2, FoldsExist
<1>6. ASSUME NEW S \in SUBSET (1 .. n), S # {}
      PROVE  Max(S) \in 1 .. n /\ S \ {Max(S)} \in SUBSET (1 .. n)
  <2>1. S \subseteq 0 .. n
    OBVIOUS
  <2>2. Max(S) \in S
    BY <1>0, <1>6, <2>1, Greatest
  <2>3. QED
    BY <2>2
<1>7. Adds(g)
  <2>1. ASSUME NEW S \in SUBSET (1 .. n)
        PROVE  g[S] = IF S = {} THEN Nothing
                      ELSE PutBack(masked, g[S \ {Max(S)}], seq[Max(S)])
    <3>1. CASE S = {}
      BY <1>5, <3>1 DEF FoldsAll
    <3>2. CASE S # {}
      <4>1. Max(S) \in 1 .. n /\ g[S \ {Max(S)}] \in Acc
        BY <1>6, <3>2
      <4>2. g[S] = step[Max(S)][g[S \ {Max(S)}]]
        BY <1>5, <3>2 DEF FoldsAll
      <4>3. QED
        BY <1>3, <3>2, <4>1, <4>2
    <3>3. QED
      BY <3>1, <3>2
  <2>2. QED
    BY <1>0, <2>1
<1>8. Adds(f)
  <2> HIDE DEF Adds
  <2>1. QED
    BY <1>7
<1> DEFINE a == [i \in 0 .. n |-> f[1 .. i]]
<1>9. a[0] = Nothing
  <2>1. 1 .. 0 = {} /\ {} \in SUBSET DOMAIN seq
    OBVIOUS
  <2> HIDE DEF f
  <2>2. f[{}] = Nothing
    BY <1>8, <2>1
  <2>3. QED
    BY <1>0, <2>1, <2>2
<1>10. ASSUME NEW i \in 1 .. n PROVE a[i] = PutBack(masked, a[i - 1], seq[i])
  <2>1. 1 .. i # {} /\ Max(1 .. i) = i /\ (1 .. i) \ {i} = 1 .. i - 1
    <3>1. i \in Nat \ {0}
      OBVIOUS
    <3> QED
      BY <3>1, LastOf
  <2>2. 1 .. i \in SUBSET DOMAIN seq
    BY <1>0
  <2> HIDE DEF f
  <2>3. f[1 .. i] = PutBack(masked, f[(1 .. i) \ {Max(1 .. i)}], seq[Max(1 .. i)])
    BY <1>8, <2>1, <2>2
  <2>4. f[1 .. i] = PutBack(masked, f[1 .. i - 1], seq[i])
    BY <2>1, <2>3
  <2>5. QED
    BY <2>4
<1>11. a[n] = f[1 .. n] /\ DOMAIN a = 0 .. n
  BY <1>0
<1>12. a = [i \in 0 .. n |-> a[i]]
  OBVIOUS
<1> HIDE DEF a, f
<1>13. \A i \in 0 .. n : a[i] \in Acc
  <2> DEFINE T == {i \in 0 .. n : a[i] \in Acc}
  <2>1. 0 \in T
    BY <1>0, <1>1, <1>9
  <2>2. ASSUME NEW i \in 0 .. n - 1, i \in T PROVE i + 1 \in T
    <3>1. i + 1 \in 1 .. n /\ (i + 1) - 1 = i
      BY <1>0
    <3>2. a[i + 1] = PutBack(masked, a[i], seq[i + 1])
      BY <1>10, <3>1
    <3>3. a[i] \in Acc /\ seq[i + 1] \in Replacement
      BY <1>0, <2>2, <3>1
    <3>4. a[i + 1] \in Acc
      BY <3>2, <3>3, PutBackTyped DEF Acc
    <3>5. QED
      BY <1>0, <3>1, <3>4
  <2> HIDE DEF T
  <2>3. \A i \in 0 .. n : i \in T
    BY <1>0, <2>1, <2>2, UpTo, Zenon
  <2>4. QED
    BY <2>3 DEF T
<1>14. a \in [0 .. n -> Acc]
  BY <1>12, <1>13
<1>15. RestoreRun(masked, seq, a)
  BY <1>4, <1>9, <1>10, <1>11 DEF RestoreRun
<1>16. QED
  BY <1>14, <1>15 DEF Acc

\* After k replacements Restore has the text up to the end of the k-th.
Undone(text, reps, acc, k) ==
  acc.cursor = MaskedTo(reps, k) /\ acc.out = Slice(text, 0, DoneTo(reps, k))

LEMMA PutBackUndoes ==
  ASSUME NEW text \in Seq(Bytes), NEW res, Result(text, res),
         NEW k \in 1 .. Len(res.reps), NEW acc, Undone(text, res.reps, acc, k - 1)
  PROVE  Undone(text, res.reps, PutBack(res.masked, acc, res.reps[k]), k)
<1> DEFINE r == res.reps[k]
           x == res.masked
           c == MaskedTo(res.reps, k - 1)
           d == DoneTo(res.reps, k - 1)
<1>0. MirrorsAt(text, x, res.reps, k) /\ r \in Replacement /\ res.reps \in Seq(Replacement)
  BY DEF Result, Mirrors
<1>1. /\ c <= r.maskStart /\ r.maskStart < r.maskEnd /\ r.maskEnd <= Len(x)
      /\ d <= r.start /\ r.start < r.end /\ r.end <= Len(text)
      /\ Slice(x, c, r.maskStart) = Slice(text, d, r.start)
      /\ r.original = Slice(text, r.start, r.end)
  BY <1>0 DEF MirrorsAt
<1>2. /\ r.maskStart \in Nat /\ r.maskEnd \in Nat /\ r.start \in Nat /\ r.end \in Nat
      /\ Len(text) \in Nat /\ Len(x) \in Nat
  <2>1. x \in Seq(Glyphs)
    BY DEF Result
  <2>2. Len(text) \in Nat /\ Len(x) \in Nat
    BY <2>1
  <2>3. r \in Replacement
    BY <1>0
  <2> HIDE DEF r, x
  <2>4. r.maskStart \in Nat /\ r.maskEnd \in Nat /\ r.start \in Nat /\ r.end \in Nat
    BY <2>3 DEF Replacement
  <2>5. QED
    BY <2>2, <2>4
<1>3. c \in Nat /\ d \in Nat
  <2>1. k - 1 \in 0 .. Len(res.reps)
    BY <1>0
  <2>2. QED
    BY <1>0, <2>1, MarksTyped
<1>4. MaskedTo(res.reps, k) = r.maskEnd /\ DoneTo(res.reps, k) = r.end
  BY DEF MaskedTo, DoneTo
<1>5. acc.cursor = c /\ acc.out = Slice(text, 0, d)
  BY DEF Undone
<1> HIDE DEF r, x, c, d
<1>6. ~Misplaced(x, acc.cursor, r)
  BY <1>1, <1>2, <1>3, <1>5 DEF Misplaced
<1>7. PutBack(x, acc, r) = [out |-> acc.out \o Slice(x, acc.cursor, r.maskStart) \o r.original,
                            cursor |-> r.maskEnd]
  BY <1>6 DEF PutBack
<1>8. /\ 0 \in Nat /\ d \in Nat /\ r.start \in Nat /\ r.end \in Nat
      /\ 0 <= d /\ d <= r.start /\ 0 <= r.start /\ r.start <= Len(text)
      /\ r.start <= r.end /\ r.end <= Len(text)
  BY <1>1, <1>2, <1>3
<1>9. Slice(text, 0, d) \o Slice(text, d, r.start) = Slice(text, 0, r.start)
  BY <1>8, SliceJoin
<1>10. Slice(text, 0, r.start) \o Slice(text, r.start, r.end) = Slice(text, 0, r.end)
  BY <1>8, SliceJoin
<1>11. PutBack(x, acc, r) = [out |-> Slice(text, 0, r.end), cursor |-> r.maskEnd]
  BY <1>1, <1>5, <1>7, <1>9, <1>10
<1>12. Undone(text, res.reps, PutBack(x, acc, r), k)
  BY <1>4, <1>11 DEF Undone
<1>13. QED
  BY <1>12 DEF x, r

LEMMA RestoreUndoes ==
  ASSUME NEW text \in Seq(Bytes), NEW res, Result(text, res)
  PROVE  Restore(res.masked, res.reps) = text
<1> DEFINE x == res.masked
           reps == res.reps
           n == Len(reps)
           done == AllPutBack(x, reps)
<1>0. x \in Seq(Glyphs) /\ reps \in Seq(Replacement) /\ n \in Nat /\ Mirrors(text, x, reps)
  BY DEF Result
<1>1. ByMask(reps) = reps
  BY <1>0, MasksFollow, AlreadyInOrder
<1>2. Restore(x, reps) = done.out \o Slice(x, done.cursor, Len(x))
  <2>1. Restore(x, reps)
          = AllPutBack(x, ByMask(reps)).out \o Slice(x, AllPutBack(x, ByMask(reps)).cursor, Len(x))
    BY DEF Restore, AllPutBack, ByMask, Nothing
  <2>2. QED
    BY <1>1, <2>1
<1> HIDE DEF done
<1>3. PICK a \in [0 .. n -> Restoring(x)] : RestoreRun(x, reps, a)
  BY <1>0, RestoreSteps
<1>4. /\ a[0] = Nothing /\ a[n] = done
      /\ \A i \in 1 .. n : a[i] = PutBack(x, a[i - 1], reps[i])
  BY <1>3 DEF RestoreRun, done
<1>5. Undone(text, reps, a[n], n)
  <2> DEFINE T == {i \in 0 .. n : Undone(text, reps, a[i], i)}
  <2>1. Slice(text, 0, 0) = <<>>
    BY SliceAll
  <2>2. Undone(text, reps, Nothing, 0)
    BY <2>1 DEF Undone, Nothing, MaskedTo, DoneTo
  <2>3. 0 \in T
    BY <1>0, <1>4, <2>2
  <2>4. ASSUME NEW i \in 0 .. n - 1, i \in T PROVE i + 1 \in T
    <3>1. i + 1 \in 1 .. n /\ (i + 1) - 1 = i
      BY <1>0
    <3>2. a[i + 1] = PutBack(x, a[i], reps[i + 1])
      BY <1>4, <3>1
    <3>3. Undone(text, reps, a[i], (i + 1) - 1)
      BY <2>4, <3>1
    <3>4. Undone(text, reps, a[i + 1], i + 1)
      BY <3>1, <3>2, <3>3, PutBackUndoes
    <3>5. QED
      BY <1>0, <3>1, <3>4
  <2> HIDE DEF T
  <2>5. \A i \in 0 .. n : i \in T
    BY <1>0, <2>3, <2>4, UpTo, Zenon
  <2>6. n \in T
    BY <1>0, <2>5
  <2>7. QED
    BY <2>6 DEF T
<1> DEFINE c == MaskedTo(reps, n)
           d == DoneTo(reps, n)
<1>6. done.cursor = c /\ done.out = Slice(text, 0, d)
  BY <1>4, <1>5 DEF Undone
<1>7. d <= Len(text) /\ Slice(x, c, Len(x)) = Slice(text, d, Len(text))
  BY DEF Result
<1>8. d \in Nat /\ 0 \in Nat /\ 0 <= d /\ Len(text) \in Nat /\ Len(text) <= Len(text)
  <2>1. n \in 0 .. Len(reps)
    BY <1>0
  <2>2. d \in Nat
    BY <1>0, <2>1, MarksTyped
  <2>3. QED
    BY <2>2
<1> HIDE DEF c, d
<1>9. Slice(text, 0, d) \o Slice(text, d, Len(text)) = Slice(text, 0, Len(text))
  BY <1>7, <1>8, SliceJoin
<1>10. Slice(text, 0, Len(text)) = text
  BY SliceAll
<1>11. QED
  BY <1>2, <1>6, <1>7, <1>9, <1>10

-----------------------------------------------------------------------------
(* Where detection cuts a long text *)

LEMMA CutAfterStart ==
  ASSUME NEW text \in Seq(Bytes), NEW start \in Nat, NEW limit \in Nat,
         limit \div 4 >= 1, start + limit < Len(text)
  PROVE  CutOf(text, start, limit) \in start + 1 .. start + limit
<1> DEFINE end == start + limit
           after(b) == {i + 1 : i \in {j \in end - limit \div 4 .. end - 1 : text[j + 1] = b}}
           runes == {i \in start .. end : ~Continuation(text[i + 1])}
           cut == IF after("n") # {} THEN Max(after("n"))
                  ELSE IF after(" ") # {} THEN Max(after(" ")) ELSE Max(runes \cup {start})
<1>1. limit >= 1 /\ end \in Nat /\ end - limit \div 4 >= 0 /\ limit \div 4 \in Nat
  OBVIOUS
<1>2. ASSUME NEW b PROVE after(b) \subseteq 0 .. end
  BY <1>1
<1>3. ASSUME NEW b, after(b) # {} PROVE Max(after(b)) \in 0 .. end
  BY <1>1, <1>2, <1>3, Greatest
<1>4. Max(runes \cup {start}) \in 0 .. end
  <2>1. runes \cup {start} \subseteq 0 .. end /\ runes \cup {start} # {}
    BY <1>1
  <2>2. QED
    BY <1>1, <2>1, Greatest
<1>5. cut \in 0 .. end
  BY <1>3, <1>4
<1>6. CutOf(text, start, limit) = IF cut <= start THEN end ELSE cut
  BY DEF CutOf
<1> HIDE DEF cut
<1>7. QED
  BY <1>1, <1>5, <1>6

\* The points at which a text is cut from `start' on.
CutsFrom(c, start, size) ==
  /\ c \in Seq(0 .. size) /\ Len(c) >= 2 /\ c[1] = start
  /\ c[Len(c)] = size
  /\ \A k \in 1 .. Len(c) - 1 : c[k] < c[k + 1]

LEMMA ConsIs ==
  ASSUME NEW U, NEW x \in U, NEW seq \in Seq(U)
  PROVE  /\ <<x>> \o seq \in Seq(U) /\ Len(<<x>> \o seq) = Len(seq) + 1 /\ Len(seq) \in Nat
         /\ (<<x>> \o seq)[1] = x
         /\ \A i \in 1 .. Len(seq) : (<<x>> \o seq)[i + 1] = seq[i]
OBVIOUS

LEMMA ConsCuts ==
  ASSUME NEW size \in Nat, NEW start \in 0 .. size, NEW next \in 0 .. size, start < next,
         NEW c, CutsFrom(c, next, size)
  PROVE  CutsFrom(<<start>> \o c, start, size)
<1> DEFINE d == <<start>> \o c
<1>1. c \in Seq(0 .. size) /\ Len(c) >= 2 /\ c[1] = next
  BY DEF CutsFrom
<1>2. /\ d \in Seq(0 .. size) /\ Len(d) = Len(c) + 1 /\ Len(c) \in Nat
      /\ d[1] = start /\ \A i \in 1 .. Len(c) : d[i + 1] = c[i]
  BY <1>1, ConsIs
<1> HIDE DEF d
<1>3. ASSUME NEW k \in 1 .. Len(d) - 1 PROVE d[k] < d[k + 1]
  <2>1. CASE k = 1
    <3>1. 1 \in 1 .. Len(c)
      BY <1>1, <1>2
    <3>2. d[1 + 1] = c[1]
      BY <1>2, <3>1
    <3>3. QED
      BY <1>1, <1>2, <2>1, <3>2
  <2>2. CASE k > 1
    <3>1. PICK i \in 1 .. Len(c) - 1 : k = i + 1
      BY <1>2, <2>2
    <3>2. d[i + 1] = c[i] /\ d[(i + 1) + 1] = c[i + 1]
      BY <1>2, <3>1
    <3>3. c[i] < c[i + 1]
      BY <3>1 DEF CutsFrom
    <3>4. QED
      BY <3>1, <3>2, <3>3
  <2>3. k \in Int /\ k >= 1
    OBVIOUS
  <2>4. QED
    BY <2>1, <2>2, <2>3
<1>4. Len(d) >= 2
  BY <1>1, <1>2
<1>5. d[Len(d)] = size
  <2>1. Len(c) \in 1 .. Len(c)
    BY <1>1, <1>2
  <2>2. d[Len(c) + 1] = c[Len(c)]
    BY <1>2, <2>1
  <2>3. c[Len(c)] = size
    BY DEF CutsFrom
  <2>4. QED
    BY <1>2, <2>2, <2>3
<1>6. CutsFrom(d, start, size)
  BY <1>2, <1>3, <1>4, <1>5 DEF CutsFrom
<1>7. QED
  BY <1>6 DEF d

\* What the recursion of SplitPoints asks of its value at `start'.
Split(text, limit, from, start) ==
  IF Len(text) - start > limit
  THEN <<start>> \o from[CutOf(text, start, limit)]
  ELSE <<start, Len(text)>>

\* A function that meets it exists: it is built from the end of the text on.
LEMMA SplitExists ==
  ASSUME NEW text \in Seq(Bytes), NEW limit \in Nat, limit \div 4 >= 1
  PROVE  \E from : from = [start \in 0 .. Len(text) |-> Split(text, limit, from, start)]
<1> DEFINE n == Len(text)
           Holds(g, k) == \A start \in n - k .. n : g[start] = Split(text, limit, g, start)
           T == {k \in 0 .. n : \E g : DOMAIN g = 0 .. n /\ g = [x \in 0 .. n |-> g[x]] /\ Holds(g, k)}
<1>0. n \in Nat
  OBVIOUS
<1>1. ASSUME NEW start \in 0 .. n, n - start > limit
      PROVE  CutOf(text, start, limit) \in start + 1 .. n
  <2>1. start \in Nat /\ start + limit < Len(text)
    BY <1>0, <1>1
  <2>2. CutOf(text, start, limit) \in start + 1 .. start + limit
    BY <2>1, CutAfterStart
  <2>3. QED
    BY <1>0, <2>1, <2>2
<1>2. 0 \in T
  <2> DEFINE g == [x \in 0 .. n |-> <<x, n>>]
  <2>1. n - 0 .. n = {n} /\ n \in 0 .. n /\ ~(n - n > limit)
    BY <1>0
  <2>2. g[n] = Split(text, limit, g, n)
    BY <2>1 DEF Split
  <2>3. DOMAIN g = 0 .. n /\ g = [x \in 0 .. n |-> g[x]]
    OBVIOUS
  <2> HIDE DEF g
  <2>4. Holds(g, 0)
    BY <2>1, <2>2
  <2> HIDE DEF Holds
  <2>5. QED
    BY <1>0, <2>3, <2>4
<1>3. ASSUME NEW k \in 0 .. n - 1, k \in T PROVE k + 1 \in T
  <2>1. PICK g : DOMAIN g = 0 .. n /\ g = [x \in 0 .. n |-> g[x]] /\ Holds(g, k)
    BY <1>3
  <2> DEFINE e == [x \in 0 .. n |-> Split(text, limit, g, x)]
  <2>2. DOMAIN e = 0 .. n /\ e = [x \in 0 .. n |-> e[x]]
    OBVIOUS
  <2>3. \A x \in 0 .. n : e[x] = Split(text, limit, g, x)
    OBVIOUS
  <2> HIDE DEF e
  <2>4. ASSUME NEW x \in n - (k + 1) .. n PROVE e[x] = Split(text, limit, e, x)
    <3>1. x \in 0 .. n
      BY <1>0
    <3>2. CASE ~(n - x > limit)
      BY <2>3, <3>1, <3>2 DEF Split
    <3>3. CASE n - x > limit
      <4> DEFINE y == CutOf(text, x, limit)
      <4>1. y \in x + 1 .. n
        BY <1>1, <3>1, <3>3
      <4>2. y \in n - k .. n /\ y \in 0 .. n
        BY <1>0, <3>1, <4>1
      <4> HIDE DEF y
      <4>3. g[y] = Split(text, limit, g, y) /\ e[y] = Split(text, limit, g, y)
        BY <2>1, <2>3, <4>2
      <4>4. e[x] = <<x>> \o g[y]
        BY <2>3, <3>1, <3>3 DEF Split, y
      <4>5. Split(text, limit, e, x) = <<x>> \o e[y]
        BY <3>3 DEF Split, y
      <4>6. QED
        BY <4>3, <4>4, <4>5
    <3>4. QED
      BY <3>2, <3>3
  <2>5. Holds(e, k + 1)
    BY <2>4
  <2>6. k + 1 \in 0 .. n
    BY <1>0
  <2> HIDE DEF Holds
  <2>7. QED
    BY <2>2, <2>5, <2>6
<1> HIDE DEF T
<1>4. \A k \in 0 .. n : k \in T
  BY <1>0, <1>2, <1>3, UpTo, Zenon
<1>5. n \in T
  BY <1>0, <1>4
<1>6. PICK g : DOMAIN g = 0 .. n /\ g = [x \in 0 .. n |-> g[x]] /\ Holds(g, n)
  BY <1>5 DEF T
<1>7. n - n .. n = 0 .. n
  BY <1>0
<1>8. \A x \in 0 .. n : g[x] = Split(text, limit, g, x)
  BY <1>6, <1>7
<1>9. g = [x \in 0 .. n |-> Split(text, limit, g, x)]
  BY <1>6, <1>8
<1>10. QED
  BY <1>9

\* A text that is not empty is cut from its first byte to its last.
LEMMA SplitPointsRise ==
  ASSUME NEW text \in Seq(Bytes), NEW limit \in Nat, limit \div 4 >= 1, Len(text) > 0
  PROVE  CutsFrom(SplitPoints(text, limit), 0, Len(text))
<1> DEFINE n == Len(text)
           Is(h) == h = [start \in 0 .. Len(text) |-> Split(text, limit, h, start)]
           from == CHOOSE h : Is(h)
<1>0. n \in Nat /\ n > 0
  OBVIOUS
<1>1. SplitPoints(text, limit) = from[0]
  BY DEF SplitPoints, Split
<1>2. Is(from)
  <2>1. \E h : Is(h)
    BY SplitExists
  <2> HIDE DEF Is
  <2>2. QED
    BY <2>1
<1>3. \A x \in 0 .. n : from[x] = Split(text, limit, from, x)
  <2> HIDE DEF from
  <2>1. QED
    BY <1>2
<1> HIDE DEF from
<1> DEFINE T == {k \in 0 .. n : \A x \in n - k .. n - 1 : CutsFrom(from[x], x, n)}
<1>4. 0 \in T
  <2>1. n - 0 .. n - 1 = {}
    BY <1>0
  <2>2. QED
    BY <1>0, <2>1
<1>5. ASSUME NEW k \in 0 .. n - 1, k \in T PROVE k + 1 \in T
  <2>1. ASSUME NEW x \in n - (k + 1) .. n - 1 PROVE CutsFrom(from[x], x, n)
    <3>1. x \in 0 .. n /\ x < n /\ n \in 0 .. n
      BY <1>0
    <3>2. CASE n - x > limit
      <4> DEFINE y == CutOf(text, x, limit)
      <4>1. x \in Nat /\ x + limit < Len(text)
        BY <1>0, <3>1, <3>2
      <4>2. y \in x + 1 .. x + limit
        BY <4>1, CutAfterStart
      <4> HIDE DEF y
      <4>3. y \in n - k .. n - 1 /\ y \in 0 .. n /\ x < y
        BY <1>0, <4>1, <4>2
      <4>4. CutsFrom(from[y], y, n)
        BY <1>5, <4>3
      <4>5. from[x] = <<x>> \o from[y]
        BY <1>3, <3>1, <3>2 DEF Split, y
      <4>6. QED
        BY <1>0, <3>1, <4>3, <4>4, <4>5, ConsCuts
    <3>3. CASE ~(n - x > limit)
      <4>1. from[x] = <<x, n>>
        BY <1>3, <3>1, <3>3 DEF Split
      <4>2. <<x, n>> \in Seq(0 .. n) /\ Len(<<x, n>>) = 2
        BY <3>1
      <4>3. QED
        BY <3>1, <4>1, <4>2 DEF CutsFrom
    <3>4. QED
      BY <3>2, <3>3
  <2>2. k + 1 \in 0 .. n
    BY <1>0
  <2>3. QED
    BY <2>1, <2>2
<1>6. n \in T
  <2> HIDE DEF T
  <2>1. \A k \in 0 .. n : k \in T
    BY <1>0, <1>4, <1>5, UpTo, Zenon
  <2>2. QED
    BY <1>0, <2>1
<1>7. 0 \in n - n .. n - 1
  BY <1>0
<1>8. CutsFrom(from[0], 0, n)
  BY <1>6, <1>7
<1>9. QED
  BY <1>1, <1>8

LEMMA ChunkStartBefore ==
  ASSUME NEW text, NEW cut \in Nat
  PROVE  /\ ChunkStart(text, cut) \in 0 .. cut
         /\ ChunkStart(text, cut) = 0 \/ ChunkStart(text, cut) <= cut - ChunkOverlap
<1> DEFINE runes == {i \in 0 .. cut - ChunkOverlap : i = 0 \/ ~Continuation(text[i + 1])}
<1>1. ChunkOverlap \in Nat
  BY LimitsAssumption
<1>2. CASE cut <= ChunkOverlap
  BY <1>2 DEF ChunkStart
<1>3. CASE ~(cut <= ChunkOverlap)
  <2>1. runes \subseteq 0 .. cut /\ 0 \in runes
    BY <1>1, <1>3
  <2>2. Max(runes) \in runes
    BY <2>1, Greatest
  <2>3. ChunkStart(text, cut) = Max(runes)
    BY <1>3 DEF ChunkStart
  <2>4. \A i \in runes : i \in Nat /\ i <= cut - ChunkOverlap
    BY <1>1, <1>3
  <2> HIDE DEF runes
  <2>5. QED
    BY <2>1, <2>2, <2>3, <2>4
<1>4. QED
  BY <1>2, <1>3

-----------------------------------------------------------------------------
(* A span that takes in the label in front of it stays behind the one before *)

\* What the recursion of GapStart asks of its value at i.
Gap(text, at, limit, gap, i) ==
  IF i <= limit \/ at - i >= MaxLabelGap THEN i
  ELSE IF Separator(text[i]) THEN gap[i - 1]
  ELSE IF text[i] = "A" /\ i - 2 >= limit /\ text[i - 1] = "N" THEN gap[i - 2]
  ELSE i

LEMMA GapExists ==
  ASSUME NEW text, NEW at \in Nat, NEW limit \in Nat
  PROVE  \E gap : gap = [i \in 0 .. at |-> Gap(text, at, limit, gap, i)]
<1> DEFINE Term(g, i) == Gap(text, at, limit, g, i)
           Holds(g, k) == \A i \in 0 .. k : g[i] = Term(g, i)
           T == {k \in 0 .. at : \E g : DOMAIN g = 0 .. at /\ g = [x \in 0 .. at |-> g[x]] /\ Holds(g, k)}
<1>1. ASSUME NEW g, NEW e, NEW k \in Nat, NEW i \in 0 .. k + 1, \A j \in 0 .. k : g[j] = e[j]
      PROVE  Term(g, i) = Term(e, i)
  <2>1. CASE i <= limit
    BY <2>1 DEF Gap
  <2>2. CASE ~(i <= limit)
    <3>1. i - 1 \in 0 .. k /\ (i - 2 >= limit => i - 2 \in 0 .. k)
      BY <2>2
    <3>2. g[i - 1] = e[i - 1] /\ (i - 2 >= limit => g[i - 2] = e[i - 2])
      BY <1>1, <3>1
    <3>3. QED
      BY <2>2, <3>2 DEF Gap
  <2>3. QED
    BY <2>1, <2>2
<1> HIDE DEF Term
<1>2. 0 \in T
  <2> DEFINE g == [x \in 0 .. at |-> 0]
  <2>1. Term(g, 0) = 0
    BY DEF Gap, Term
  <2>2. g[0] = 0 /\ DOMAIN g = 0 .. at /\ g = [x \in 0 .. at |-> g[x]]
    OBVIOUS
  <2> HIDE DEF g
  <2>3. Holds(g, 0)
    BY <2>1, <2>2
  <2> HIDE DEF Holds
  <2>4. QED
    BY <2>2, <2>3
<1>3. ASSUME NEW k \in 0 .. at - 1, k \in T PROVE k + 1 \in T
  <2>1. PICK g : DOMAIN g = 0 .. at /\ g = [x \in 0 .. at |-> g[x]] /\ Holds(g, k)
    BY <1>3
  <2> DEFINE e == [x \in 0 .. at |-> Term(g, x)]
  <2>2. DOMAIN e = 0 .. at /\ e = [x \in 0 .. at |-> e[x]]
    OBVIOUS
  <2>3. \A x \in 0 .. at : e[x] = Term(g, x)
    OBVIOUS
  <2> HIDE DEF e
  <2>4. ASSUME NEW j \in 0 .. k PROVE g[j] = e[j]
    <3>1. j \in 0 .. at
      OBVIOUS
    <3>2. QED
      BY <2>1, <2>3, <3>1
  <2>5. ASSUME NEW x \in 0 .. k + 1 PROVE e[x] = Term(e, x)
    <3>1. x \in 0 .. at /\ k \in Nat
      OBVIOUS
    <3>2. Term(g, x) = Term(e, x)
      BY <1>1, <2>4, <3>1
    <3>3. QED
      BY <2>3, <3>1, <3>2
  <2>6. Holds(e, k + 1)
    BY <2>5
  <2>7. k + 1 \in 0 .. at
    OBVIOUS
  <2> HIDE DEF Holds
  <2>8. QED
    BY <2>2, <2>6, <2>7
<1> HIDE DEF T
<1>4. \A k \in 0 .. at : k \in T
  BY <1>2, <1>3, UpTo, Zenon
<1>5. at \in T
  BY <1>4
<1>6. PICK g : DOMAIN g = 0 .. at /\ g = [x \in 0 .. at |-> g[x]] /\ Holds(g, at)
  BY <1>5 DEF T
<1>7. \A x \in 0 .. at : g[x] = Gap(text, at, limit, g, x)
  BY <1>6 DEF Term
<1>8. g = [x \in 0 .. at |-> Gap(text, at, limit, g, x)]
  BY <1>6, <1>7
<1>9. QED
  BY <1>8

LEMMA GapStartIn ==
  ASSUME NEW text, NEW at \in Nat, NEW limit \in Nat
  PROVE  /\ at <= limit => GapStart(text, at, limit) = at
         /\ limit <= at => GapStart(text, at, limit) \in limit .. at
<1> DEFINE Is(g) == g = [i \in 0 .. at |-> Gap(text, at, limit, g, i)]
           gap == CHOOSE g : Is(g)
<1>1. GapStart(text, at, limit) = gap[at]
  BY DEF GapStart, Gap
<1>2. Is(gap)
  <2>1. \E g : Is(g)
    BY GapExists
  <2> HIDE DEF Is
  <2>2. QED
    BY <2>1
<1>3. \A i \in 0 .. at : gap[i] = Gap(text, at, limit, gap, i)
  <2> HIDE DEF gap
  <2>1. QED
    BY <1>2
<1> HIDE DEF gap
<1>4. \A i \in 0 .. at : i <= limit => gap[i] = i
  BY <1>3 DEF Gap
<1> DEFINE T == {k \in 0 .. at : \A i \in 0 .. k : limit <= i => gap[i] \in limit .. i}
<1>5. ASSUME NEW i \in 0 .. at, i <= limit, limit <= i PROVE gap[i] \in limit .. i
  BY <1>4, <1>5
<1>6. 0 \in T
  BY <1>5
<1>7. ASSUME NEW k \in 0 .. at - 1, k \in T PROVE k + 1 \in T
  <2>0. k + 1 \in 0 .. at
    OBVIOUS
  <2>1. ASSUME limit <= k + 1 PROVE gap[k + 1] \in limit .. k + 1
    <3>1. CASE k + 1 <= limit
      BY <1>5, <2>0, <2>1, <3>1
    <3>2. CASE ~(k + 1 <= limit)
      <4>1. \/ gap[k + 1] = k + 1
            \/ gap[k + 1] = gap[(k + 1) - 1]
            \/ (k + 1) - 2 >= limit /\ gap[k + 1] = gap[(k + 1) - 2]
        BY <1>3, <2>0, <3>2 DEF Gap
      <4>2. (k + 1) - 1 \in 0 .. k /\ limit <= (k + 1) - 1 /\ (k + 1) - 1 <= k + 1
        BY <3>2
      <4>3. gap[(k + 1) - 1] \in limit .. (k + 1) - 1
        BY <1>7, <4>2
      <4>4. (k + 1) - 2 >= limit => gap[(k + 1) - 2] \in limit .. (k + 1) - 2
        <5>1. (k + 1) - 2 >= limit => (k + 1) - 2 \in 0 .. k /\ limit <= (k + 1) - 2
          OBVIOUS
        <5>2. QED
          BY <1>7, <5>1
      <4>5. k + 1 \in limit .. k + 1
        BY <3>2
      <4>6. QED
        BY <4>1, <4>3, <4>4, <4>5
    <3>3. QED
      BY <3>1, <3>2
  <2>2. \A i \in 0 .. k + 1 : i \in 0 .. k \/ i = k + 1
    OBVIOUS
  <2>3. \A i \in 0 .. k + 1 : limit <= i => gap[i] \in limit .. i
    BY <1>7, <2>1, <2>2
  <2>4. QED
    BY <2>0, <2>3
<1>8. at \in T
  <2> HIDE DEF T
  <2>1. \A k \in 0 .. at : k \in T
    BY <1>6, <1>7, UpTo, Zenon
  <2>2. QED
    BY <2>1
<1>9. at \in 0 .. at
  OBVIOUS
<1>10. QED
  BY <1>1, <1>4, <1>8, <1>9

LEMMA LabelWordIn ==
  ASSUME NEW text, NEW at \in Nat, NEW limit \in Nat
  PROVE  \/ LabelWordStart(text, at, limit) = NoWord
         \/ limit <= at /\ LabelWordStart(text, at, limit) \in limit .. at
<1> DEFINE i == GapStart(text, at, limit)
           Js == {j \in limit .. i : \A k \in j + 1 .. i : WordByte(text[k])}
           j == LeftmostOf(text, i, limit)
<1>1. (at <= limit => i = at) /\ (limit <= at => i \in limit .. at)
  BY GapStartIn
<1>2. i \in Nat /\ i <= at
  BY <1>1
<1> HIDE DEF i
<1>3. j \in {i} \cup Js
  <2>1. {i} \cup Js \subseteq Nat /\ {i} \cup Js # {}
    BY <1>2
  <2>2. Min({i} \cup Js) \in {i} \cup Js
    BY <2>1, Lowest
  <2>3. QED
    BY <2>2 DEF LeftmostOf
<1>4. LabelWordStart(text, at, limit) = NoWord \/ (LabelWordStart(text, at, limit) = j /\ j # i)
  BY DEF LabelWordStart, i
<1> HIDE DEF j
<1>5. j # i => j \in limit .. at /\ limit <= at
  BY <1>2, <1>3
<1>6. QED
  BY <1>4, <1>5

LEMMA WidenedIn ==
  ASSUME NEW text, NEW at \in Nat, NEW limit \in Nat
  PROVE  \/ Widened(text, at, limit) = at
         \/ limit <= at /\ Widened(text, at, limit) \in limit .. at
<1> DEFINE once == LabelWordStart(text, at, limit)
           twice == LabelWordStart(text, once, limit)
           wide == Widened(text, at, limit)
<1>1. wide = IF once = NoWord THEN at ELSE IF twice = NoWord THEN once ELSE twice
  BY DEF Widened
<1>2. once = NoWord \/ (limit <= at /\ once \in limit .. at)
  BY LabelWordIn
<1> HIDE DEF wide
<1>3. CASE once = NoWord
  BY <1>1, <1>3 DEF wide
<1>4. CASE limit <= at /\ once \in limit .. at
  <2>1. once \in Nat
    BY <1>4
  <2> HIDE DEF once
  <2>2. twice = NoWord \/ twice \in limit .. once
    BY <2>1, LabelWordIn
  <2> HIDE DEF twice
  <2>3. wide \in limit .. at \/ wide = at
    BY <1>1, <1>4, <2>2
  <2>4. QED
    BY <1>4, <2>3 DEF wide
<1>5. QED
  BY <1>2, <1>3, <1>4

-----------------------------------------------------------------------------
(* Resolve: the longer of two claims wins, and only a kept one drops another *)

LEMMA SpanNumbers ==
  ASSUME NEW s \in Span
  PROVE  /\ s.start \in Nat /\ s.end \in Nat /\ s.conf \in Int /\ Length(s) \in Int
         /\ Priority[s.type] \in Int
BY CasesAssumption DEF Span, Length

LEMMA LessIs ==
  ASSUME NEW s \in Span, NEW t \in Span
  PROVE  ResolveLess(s, t) <=>
           \/ Length(s) > Length(t)
           \/ Length(s) = Length(t) /\ Priority[s.type] > Priority[t.type]
           \/ /\ Length(s) = Length(t) /\ Priority[s.type] = Priority[t.type]
              /\ s.conf > t.conf
           \/ /\ Length(s) = Length(t) /\ Priority[s.type] = Priority[t.type]
              /\ s.conf = t.conf /\ - s.start > - t.start
<1>1. /\ Rank(s)[1] = Length(s) /\ Rank(s)[2] = Priority[s.type]
      /\ Rank(s)[3] = s.conf /\ Rank(s)[4] = - s.start
      /\ Rank(t)[1] = Length(t) /\ Rank(t)[2] = Priority[t.type]
      /\ Rank(t)[3] = t.conf /\ Rank(t)[4] = - t.start
  BY DEF Rank
<1>2. 1 .. 4 = {1, 2, 3, 4}
  OBVIOUS
<1>3. 1 .. 1 - 1 = {} /\ 1 .. 2 - 1 = {1} /\ 1 .. 3 - 1 = {1, 2} /\ 1 .. 4 - 1 = {1, 2, 3}
  OBVIOUS
<1> DEFINE Wins(k) == /\ Rank(s)[k] > Rank(t)[k]
                      /\ \A j \in 1 .. k - 1 : Rank(s)[j] = Rank(t)[j]
<1>4. ResolveLess(s, t) <=> Wins(1) \/ Wins(2) \/ Wins(3) \/ Wins(4)
  <2>1. ResolveLess(s, t) <=> \E k \in {1, 2, 3, 4} : Wins(k)
    BY <1>2 DEF ResolveLess
  <2> HIDE DEF Wins
  <2>2. QED
    BY <2>1
<1>5. /\ Wins(1) <=> Rank(s)[1] > Rank(t)[1]
      /\ Wins(2) <=> Rank(s)[2] > Rank(t)[2] /\ Rank(s)[1] = Rank(t)[1]
      /\ Wins(3) <=> /\ Rank(s)[3] > Rank(t)[3]
                     /\ Rank(s)[1] = Rank(t)[1] /\ Rank(s)[2] = Rank(t)[2]
      /\ Wins(4) <=> /\ Rank(s)[4] > Rank(t)[4] /\ Rank(s)[1] = Rank(t)[1]
                     /\ Rank(s)[2] = Rank(t)[2] /\ Rank(s)[3] = Rank(t)[3]
  BY <1>3
<1> HIDE DEF Wins
<1>6. QED
  BY <1>1, <1>4, <1>5

LEMMA LessIrreflexive ==
  ASSUME NEW s \in Span
  PROVE  ~ResolveLess(s, s)
<1>1. PICK a1, a2, a3 \in Int, a4 \in Nat :
        a1 = Length(s) /\ a2 = Priority[s.type] /\ a3 = s.conf /\ a4 = s.start
  BY SpanNumbers
<1>2. ResolveLess(s, s) <=> a1 > a1 \/ a2 > a2 \/ a3 > a3 \/ - a4 > - a4
  BY <1>1, LessIs
<1>3. QED
  BY <1>2

LEMMA LessTransitive ==
  ASSUME NEW s \in Span, NEW t \in Span, NEW u \in Span
  PROVE  /\ ResolveLess(s, t) /\ ResolveLess(t, u) => ResolveLess(s, u)
         /\ ResolveLess(s, u) => ResolveLess(s, t) \/ ResolveLess(t, u)
<1>1. PICK a1, a2, a3 \in Int, a4 \in Nat :
        a1 = Length(s) /\ a2 = Priority[s.type] /\ a3 = s.conf /\ a4 = s.start
  BY SpanNumbers
<1>2. PICK b1, b2, b3 \in Int, b4 \in Nat :
        b1 = Length(t) /\ b2 = Priority[t.type] /\ b3 = t.conf /\ b4 = t.start
  BY SpanNumbers
<1>3. PICK c1, c2, c3 \in Int, c4 \in Nat :
        c1 = Length(u) /\ c2 = Priority[u.type] /\ c3 = u.conf /\ c4 = u.start
  BY SpanNumbers
<1> DEFINE Less(x1, x2, x3, x4, y1, y2, y3, y4) ==
             \/ x1 > y1
             \/ x1 = y1 /\ x2 > y2
             \/ x1 = y1 /\ x2 = y2 /\ x3 > y3
             \/ x1 = y1 /\ x2 = y2 /\ x3 = y3 /\ - x4 > - y4
<1>4. ResolveLess(s, t) <=> Less(a1, a2, a3, a4, b1, b2, b3, b4)
  BY <1>1, <1>2, LessIs
<1>5. ResolveLess(t, u) <=> Less(b1, b2, b3, b4, c1, c2, c3, c4)
  BY <1>2, <1>3, LessIs
<1>6. ResolveLess(s, u) <=> Less(a1, a2, a3, a4, c1, c2, c3, c4)
  BY <1>1, <1>3, LessIs
<1>7. QED
  BY <1>4, <1>5, <1>6

ByRank(seq) == InOrder(seq, ResolveLess)
Winning(seq) == {pair \in (1 .. Len(seq)) \X (1 .. Len(seq)) : ResolveLess(seq[pair[1]], seq[pair[2]])}

\* Resolve sorts the longer claims to the front.
LEMMA ByRankIs ==
  ASSUME NEW U \in SUBSET Span, NEW seq \in Seq(U)
  PROVE  /\ ByRank(seq) \in Seq(U) /\ Len(ByRank(seq)) = Len(seq)
         /\ \E p : Rearranges(p, seq, ByRank(seq))
         /\ \A i, j \in 1 .. Len(seq) : i < j => Length(ByRank(seq)[i]) >= Length(ByRank(seq)[j])
<1> DEFINE n == Len(seq)
           L == Winning(seq)
           q == ByRank(seq)
<1>0. n \in Nat /\ DOMAIN seq = 1 .. n /\ \A i \in 1 .. n : seq[i] \in U /\ seq[i] \in Span
  OBVIOUS
<1>1. \A i, j \in 1 .. n : <<i, j>> \in L <=> ResolveLess(seq[i], seq[j])
  BY DEF Winning
<1>2. Weak(n, L)
  <2> HIDE DEF L
  <2>1. ASSUME NEW i \in 1 .. n, NEW j \in 1 .. n, NEW k \in 1 .. n
        PROVE  /\ <<i, i>> \notin L
               /\ <<i, j>> \in L /\ <<j, k>> \in L => <<i, k>> \in L
               /\ <<i, k>> \in L => <<i, j>> \in L \/ <<j, k>> \in L
    <3> DEFINE s == seq[i]
               t == seq[j]
               u == seq[k]
    <3>1. s \in Span /\ t \in Span /\ u \in Span
      BY <1>0
    <3> HIDE DEF s, t, u
    <3>2. ~ResolveLess(s, s)
      BY <3>1, LessIrreflexive
    <3>3. /\ ResolveLess(s, t) /\ ResolveLess(t, u) => ResolveLess(s, u)
          /\ ResolveLess(s, u) => ResolveLess(s, t) \/ ResolveLess(t, u)
      BY <3>1, LessTransitive
    <3>4. QED
      BY <1>1, <3>2, <3>3 DEF s, t, u
  <2> HIDE DEF n
  <2>2. QED
    BY <2>1 DEF Weak
<1>3. q = Sorted(seq, L)
  <2> DEFINE before == {pair \in (DOMAIN seq) \X (DOMAIN seq) :
                          \/ ResolveLess(seq[pair[1]], seq[pair[2]])
                          \/ ~ResolveLess(seq[pair[2]], seq[pair[1]]) /\ pair[1] < pair[2]}
  <2>1. before = Before(n, L)
    BY <1>0, <1>1 DEF Before
  <2>2. q = [k \in DOMAIN seq |-> seq[Ordered(DOMAIN seq, before)[k]]]
    BY DEF ByRank, InOrder
  <2> HIDE DEF before
  <2>3. QED
    BY <2>1, <2>2 DEF Sorted
<1> HIDE DEF L, q
<1>4. q \in Seq(U) /\ Len(q) = n
  <2> HIDE DEF n
  <2>1. QED
    BY <1>2, <1>3, SortedPermutes DEF n
<1>5. PICK p : Rearranges(p, seq, q) /\ InOrderOf(p, n, L)
  BY <1>2, <1>3, SortedPermutes
<1>6. ASSUME NEW i \in 1 .. n, NEW j \in 1 .. n, i < j
      PROVE  Length(q[i]) >= Length(q[j])
  <2>1. p[i] \in 1 .. n /\ p[j] \in 1 .. n /\ <<p[j], p[i]>> \notin L
    BY <1>5, <1>6 DEF Rearranges, Permutes, InOrderOf
  <2>2. q[i] = seq[p[i]] /\ q[j] = seq[p[j]]
    BY <1>5 DEF Rearranges
  <2>3. ~ResolveLess(q[j], q[i])
    BY <1>1, <2>1, <2>2
  <2>4. q[i] \in Span /\ q[j] \in Span
    BY <1>0, <2>1, <2>2
  <2>5. ~(Length(q[j]) > Length(q[i]))
    BY <2>3, <2>4, LessIs
  <2>6. Length(q[j]) \in Int /\ Length(q[i]) \in Int
    BY <2>4, SpanNumbers
  <2>7. QED
    BY <2>5, <2>6
<1>7. QED
  BY <1>4, <1>5, <1>6 DEF q

\* What has been decided of the first i claims.
Settled(seq, kept, i) ==
  /\ \A m \in 1 .. Len(kept) : \E j \in 1 .. i : kept[m] = seq[j]
  /\ \A m, l \in 1 .. Len(kept) :
       m # l /\ Length(kept[m]) > 0 /\ Length(kept[l]) > 0 => ~Overlaps(kept[m], kept[l])
  /\ \A j \in 1 .. i : Length(seq[j]) > 0 =>
       \E m \in 1 .. Len(kept) :
         \/ kept[m] = seq[j]
         \/ Overlaps(seq[j], kept[m]) /\ Length(kept[m]) >= Length(seq[j])

LongestFirst(seq) == \A i, j \in 1 .. Len(seq) : i < j => Length(seq[i]) >= Length(seq[j])

LEMMA SettledKept ==
  ASSUME NEW U \in SUBSET Span, NEW seq \in Seq(U), NEW kept \in Seq(U),
         NEW i \in 1 .. Len(seq), Settled(seq, kept, i - 1),
         \A m \in 1 .. Len(kept) :
           Length(kept[m]) > 0 /\ Length(seq[i]) > 0 => ~Overlaps(seq[i], kept[m])
  PROVE  Settled(seq, Append(kept, seq[i]), i)
<1> DEFINE n == Len(kept)
           more == Append(kept, seq[i])
           s == seq[i]
<1>0. /\ n \in Nat /\ Len(more) = n + 1 /\ more[n + 1] = s
      /\ \A m \in 1 .. n : more[m] = kept[m]
  <2>1. s \in U
    OBVIOUS
  <2> HIDE DEF s
  <2>2. QED
    BY <2>1, AppendIs DEF s
<1> HIDE DEF more, s
<1>1. ASSUME NEW m \in 1 .. n + 1 PROVE m \in 1 .. n \/ m = n + 1
  BY <1>0
<1>2. ASSUME NEW m \in 1 .. n + 1 PROVE \E j \in 1 .. i : more[m] = seq[j]
  <2>1. CASE m \in 1 .. n
    <3>1. PICK j \in 1 .. i - 1 : kept[m] = seq[j]
      BY <2>1 DEF Settled
    <3>2. j \in 1 .. i
      OBVIOUS
    <3>3. QED
      BY <1>0, <2>1, <3>1, <3>2
  <2>2. CASE m = n + 1
    <3>1. i \in 1 .. i
      OBVIOUS
    <3>2. QED
      BY <1>0, <2>2, <3>1 DEF s
  <2>3. QED
    BY <1>1, <2>1, <2>2
<1>3. ASSUME NEW m \in 1 .. n + 1, NEW l \in 1 .. n + 1, m # l,
             Length(more[m]) > 0, Length(more[l]) > 0
      PROVE  ~Overlaps(more[m], more[l])
  <2>0. \A m1 \in 1 .. n : Length(kept[m1]) > 0 /\ Length(s) > 0 => ~Overlaps(s, kept[m1]) /\ ~Overlaps(kept[m1], s)
    BY DEF s, Overlaps
  <2>1. CASE m \in 1 .. n /\ l \in 1 .. n
    BY <1>0, <1>3, <2>1 DEF Settled
  <2>2. CASE m = n + 1 /\ l \in 1 .. n
    BY <1>0, <1>3, <2>0, <2>2
  <2>3. CASE l = n + 1 /\ m \in 1 .. n
    BY <1>0, <1>3, <2>0, <2>3
  <2>4. QED
    BY <1>1, <1>3, <2>1, <2>2, <2>3
<1>4. ASSUME NEW j \in 1 .. i, Length(seq[j]) > 0
      PROVE  \E m \in 1 .. n + 1 :
               \/ more[m] = seq[j]
               \/ Overlaps(seq[j], more[m]) /\ Length(more[m]) >= Length(seq[j])
  <2>1. CASE j = i
    <3>1. n + 1 \in 1 .. n + 1
      BY <1>0
    <3>2. QED
      BY <1>0, <2>1, <3>1 DEF s
  <2>2. CASE j # i
    <3>1. j \in 1 .. i - 1
      BY <2>2
    <3>2. PICK m \in 1 .. n :
            \/ kept[m] = seq[j]
            \/ Overlaps(seq[j], kept[m]) /\ Length(kept[m]) >= Length(seq[j])
      BY <1>4, <3>1 DEF Settled
    <3>3. m \in 1 .. n + 1 /\ more[m] = kept[m]
      BY <1>0
    <3>4. QED
      BY <3>2, <3>3
  <2>3. QED
    BY <2>1, <2>2
<1>5. Settled(seq, more, i)
  <2>1. \A m \in 1 .. Len(more) : \E j \in 1 .. i : more[m] = seq[j]
    BY <1>0, <1>2
  <2>2. \A m, l \in 1 .. Len(more) :
          m # l /\ Length(more[m]) > 0 /\ Length(more[l]) > 0 => ~Overlaps(more[m], more[l])
    BY <1>0, <1>3
  <2>3. \A j \in 1 .. i : Length(seq[j]) > 0 =>
          \E m \in 1 .. Len(more) :
            \/ more[m] = seq[j]
            \/ Overlaps(seq[j], more[m]) /\ Length(more[m]) >= Length(seq[j])
    BY <1>0, <1>4
  <2>4. QED
    BY <2>1, <2>2, <2>3 DEF Settled
<1>6. QED
  BY <1>5 DEF more, s

LEMMA SettledDropped ==
  ASSUME NEW U \in SUBSET Span, NEW seq \in Seq(U), LongestFirst(seq), NEW kept \in Seq(U),
         NEW i \in 1 .. Len(seq), Settled(seq, kept, i - 1),
         Length(seq[i]) > 0 => \E m \in 1 .. Len(kept) : Overlaps(seq[i], kept[m])
  PROVE  Settled(seq, kept, i)
<1>1. ASSUME NEW m \in 1 .. Len(kept) PROVE \E j \in 1 .. i : kept[m] = seq[j]
  <2>1. PICK j \in 1 .. i - 1 : kept[m] = seq[j]
    BY DEF Settled
  <2>2. j \in 1 .. i
    OBVIOUS
  <2>3. QED
    BY <2>1, <2>2
<1>2. ASSUME NEW j \in 1 .. i, Length(seq[j]) > 0
      PROVE  \E m \in 1 .. Len(kept) :
               \/ kept[m] = seq[j]
               \/ Overlaps(seq[j], kept[m]) /\ Length(kept[m]) >= Length(seq[j])
  <2>1. CASE j = i
    <3>1. PICK m \in 1 .. Len(kept) : Overlaps(seq[i], kept[m])
      BY <1>2, <2>1
    <3>2. PICK l \in 1 .. i - 1 : kept[m] = seq[l]
      BY DEF Settled
    <3>3. l \in 1 .. Len(seq) /\ l < i
      OBVIOUS
    <3>4. Length(seq[l]) >= Length(seq[i])
      BY <3>3 DEF LongestFirst
    <3>5. QED
      BY <2>1, <3>1, <3>2, <3>4
  <2>2. CASE j # i
    <3>1. j \in 1 .. i - 1
      BY <2>2
    <3>2. QED
      BY <1>2, <3>1 DEF Settled
  <2>3. QED
    BY <2>1, <2>2
<1>3. \A m, l \in 1 .. Len(kept) :
        m # l /\ Length(kept[m]) > 0 /\ Length(kept[l]) > 0 => ~Overlaps(kept[m], kept[l])
  BY DEF Settled
<1>4. QED
  BY <1>1, <1>2, <1>3 DEF Settled

\* Below the threshold every claim is compared with every kept one.
PairwiseRun(seq, a) ==
  /\ a[0] = <<>>
  /\ \A i \in 1 .. Len(seq) : a[i] = KeepApart(a[i - 1], seq[i])
  /\ a[Len(seq)] = Pairwise(seq)

LEMMA PairwiseSteps ==
  ASSUME NEW U \in SUBSET Span, NEW seq \in Seq(U)
  PROVE  \E a \in [0 .. Len(seq) -> Seq(U)] : PairwiseRun(seq, a)
<1> DEFINE n == Len(seq)
           Acc == Seq(U)
           Adds(h) == h = [S \in SUBSET DOMAIN seq |->
                             IF S = {} THEN <<>>
                             ELSE KeepApart(h[S \ {Max(S)}], seq[Max(S)])]
           step == [i \in 1 .. n |-> [kept \in Acc |-> KeepApart(kept, seq[i])]]
           f == CHOOSE h : Adds(h)
<1>0. n \in Nat /\ DOMAIN seq = 1 .. n /\ \A i \in 1 .. n : seq[i] \in U
  OBVIOUS
<1>1. <<>> \in Acc
  OBVIOUS
<1>a. ASSUME NEW kept \in Acc, NEW s \in U PROVE KeepApart(kept, s) \in Acc
  BY DEF KeepApart
<1>2. step \in [1 .. n -> [Acc -> Acc]]
  BY <1>0, <1>a
<1>3. \A i \in 1 .. n, kept \in Acc : step[i][kept] = KeepApart(kept, seq[i])
  OBVIOUS
<1>4. Pairwise(seq) = f[1 .. n]
  BY <1>0 DEF Pairwise, FoldLeft, MapThenFoldSet
<1> HIDE DEF step, Acc
<1>5. PICK g \in [SUBSET (1 .. n) -> Acc] : FoldsAll(n, g, <<>>, step)
  BY <1>0, <1>1, <1>2, FoldsExist
<1>6. ASSUME NEW S \in SUBSET (1 .. n), S # {}
      PROVE  Max(S) \in 1 .. n /\ S \ {Max(S)} \in SUBSET (1 .. n)
  <2>1. S \subseteq 0 .. n
    OBVIOUS
  <2>2. Max(S) \in S
    BY <1>0, <1>6, <2>1, Greatest
  <2>3. QED
    BY <2>2
<1>7. Adds(g)
  <2>1. ASSUME NEW S \in SUBSET (1 .. n)
        PROVE  g[S] = IF S = {} THEN <<>> ELSE KeepApart(g[S \ {Max(S)}], seq[Max(S)])
    <3>1. CASE S = {}
      BY <1>5, <3>1 DEF FoldsAll
    <3>2. CASE S # {}
      <4>1. Max(S) \in 1 .. n /\ g[S \ {Max(S)}] \in Acc
        BY <1>6, <3>2
      <4>2. g[S] = step[Max(S)][g[S \ {Max(S)}]]
        BY <1>5, <3>2 DEF FoldsAll
      <4>3. QED
        BY <1>3, <3>2, <4>1, <4>2
    <3>3. QED
      BY <3>1, <3>2
  <2>2. QED
    BY <1>0, <2>1
<1>8. Adds(f)
  <2> HIDE DEF Adds
  <2>1. QED
    BY <1>7
<1> DEFINE a == [i \in 0 .. n |-> f[1 .. i]]
<1>9. a[0] = <<>>
  <2>1. 1 .. 0 = {} /\ {} \in SUBSET DOMAIN seq
    OBVIOUS
  <2> HIDE DEF f
  <2>2. f[{}] = <<>>
    BY <1>8, <2>1
  <2>3. QED
    BY <1>0, <2>1, <2>2
<1>10. ASSUME NEW i \in 1 .. n PROVE a[i] = KeepApart(a[i - 1], seq[i])
  <2>1. 1 .. i # {} /\ Max(1 .. i) = i /\ (1 .. i) \ {i} = 1 .. i - 1
    <3>1. i \in Nat \ {0}
      OBVIOUS
    <3> QED
      BY <3>1, LastOf
  <2>2. 1 .. i \in SUBSET DOMAIN seq
    BY <1>0
  <2> HIDE DEF f
  <2>3. f[1 .. i] = KeepApart(f[(1 .. i) \ {Max(1 .. i)}], seq[Max(1 .. i)])
    BY <1>8, <2>1, <2>2
  <2>4. f[1 .. i] = KeepApart(f[1 .. i - 1], seq[i])
    BY <2>1, <2>3
  <2>5. QED
    BY <2>4
<1>11. a[n] = f[1 .. n] /\ DOMAIN a = 0 .. n
  BY <1>0
<1>12. a = [i \in 0 .. n |-> a[i]]
  OBVIOUS
<1> HIDE DEF a, f
<1>13. \A i \in 0 .. n : a[i] \in Acc
  <2> DEFINE T == {i \in 0 .. n : a[i] \in Acc}
  <2>1. 0 \in T
    BY <1>0, <1>1, <1>9
  <2>2. ASSUME NEW i \in 0 .. n - 1, i \in T PROVE i + 1 \in T
    <3>1. i + 1 \in 1 .. n /\ (i + 1) - 1 = i
      BY <1>0
    <3>2. a[i + 1] = KeepApart(a[i], seq[i + 1])
      BY <1>10, <3>1
    <3>3. a[i] \in Acc /\ seq[i + 1] \in U
      BY <1>0, <2>2, <3>1
    <3>4. a[i + 1] \in Acc
      BY <1>a, <3>2, <3>3
    <3>5. QED
      BY <1>0, <3>1, <3>4
  <2> HIDE DEF T
  <2>3. \A i \in 0 .. n : i \in T
    BY <1>0, <2>1, <2>2, UpTo, Zenon
  <2>4. QED
    BY <2>3 DEF T
<1>14. a \in [0 .. n -> Acc]
  BY <1>12, <1>13
<1>15. PairwiseRun(seq, a)
  BY <1>4, <1>9, <1>10, <1>11 DEF PairwiseRun
<1>16. QED
  BY <1>14, <1>15 DEF Acc

LEMMA PairwiseRunSettles ==
  ASSUME NEW U \in SUBSET Span, NEW seq \in Seq(U), LongestFirst(seq),
         NEW a \in [0 .. Len(seq) -> Seq(U)], PairwiseRun(seq, a)
  PROVE  \A i \in 0 .. Len(seq) : Settled(seq, a[i], i)
<1> DEFINE n == Len(seq)
<1>0. n \in Nat
  OBVIOUS
<1>2. /\ a[0] = <<>>
      /\ \A i \in 1 .. n : a[i] = KeepApart(a[i - 1], seq[i])
  BY DEF PairwiseRun
<1> DEFINE T == {i \in 0 .. n : Settled(seq, a[i], i)}
<1>3. 0 \in T
  <2>1. Settled(seq, <<>>, 0)
    BY DEF Settled
  <2>2. QED
    BY <1>0, <1>2, <2>1
<1>4. ASSUME NEW i \in 0 .. n - 1, i \in T PROVE i + 1 \in T
  <2> DEFINE k == i + 1
             kept == a[i]
  <2>1. k \in 1 .. n /\ k - 1 = i /\ i \in 0 .. n
    BY <1>0
  <2>2. a[k] = KeepApart(kept, seq[k]) /\ Settled(seq, kept, k - 1) /\ kept \in Seq(U)
    BY <1>2, <1>4, <2>1
  <2>3. DOMAIN kept = 1 .. Len(kept)
    BY <2>2
  <2> HIDE DEF k, kept
  <2>4. CASE \E m \in 1 .. Len(kept) : Overlaps(seq[k], kept[m])
    <3>1. a[k] = kept
      BY <2>2, <2>3, <2>4 DEF KeepApart
    <3>2. QED
      <4>1. Settled(seq, kept, k)
        BY <2>1, <2>2, <2>4, SettledDropped
      <4>2. QED
        BY <1>0, <2>1, <3>1, <4>1 DEF k
  <2>5. CASE ~ \E m \in 1 .. Len(kept) : Overlaps(seq[k], kept[m])
    <3>1. a[k] = Append(kept, seq[k])
      BY <2>2, <2>3, <2>5 DEF KeepApart
    <3>2. Settled(seq, Append(kept, seq[k]), k)
      BY <2>1, <2>2, <2>5, SettledKept
    <3>3. Settled(seq, a[k], k)
      BY <3>1, <3>2
    <3>4. QED
      BY <1>0, <2>1, <3>3 DEF k
  <2>6. QED
    BY <2>4, <2>5
<1> HIDE DEF T
<1>5. \A i \in 0 .. n : i \in T
  BY <1>0, <1>3, <1>4, UpTo, Zenon
<1> QED
  BY <1>5 DEF T

LEMMA PairwiseSettles ==
  ASSUME NEW U \in SUBSET Span, NEW seq \in Seq(U), LongestFirst(seq)
  PROVE  Pairwise(seq) \in Seq(U) /\ Settled(seq, Pairwise(seq), Len(seq))
<1>1. PICK a \in [0 .. Len(seq) -> Seq(U)] : PairwiseRun(seq, a)
  BY PairwiseSteps
<1>2. \A i \in 0 .. Len(seq) : Settled(seq, a[i], i)
  BY <1>1, PairwiseRunSettles
<1>3. a[Len(seq)] = Pairwise(seq) /\ Len(seq) \in 0 .. Len(seq)
  BY <1>1 DEF PairwiseRun
<1> QED
  BY <1>2, <1>3

\* From the threshold on a bitmap of the bytes taken decides.
Claiming(U) == [kept : Seq(U), taken : SUBSET Int]
Unclaimed == [kept |-> <<>>, taken |-> {}]
AllClaimed(seq) == FoldLeft(KeepFree, Unclaimed, seq)
OccupancyRun(seq, a) ==
  /\ a[0] = Unclaimed
  /\ \A i \in 1 .. Len(seq) : a[i] = KeepFree(a[i - 1], seq[i])
  /\ a[Len(seq)] = AllClaimed(seq)

LEMMA KeepFreeTyped ==
  ASSUME NEW U \in SUBSET Span, NEW acc \in Claiming(U), NEW s \in U
  PROVE  KeepFree(acc, s) \in Claiming(U)
<1>1. acc.kept \in Seq(U) /\ acc.taken \in SUBSET Int
  BY DEF Claiming
<1>2. Append(acc.kept, s) \in Seq(U)
  BY <1>1
<1>3. Take(acc.taken, s) \in SUBSET Int
  <2>1. s.start \in Nat /\ s.end \in Nat
    BY SpanNumbers
  <2>2. QED
    BY <1>1, <2>1 DEF Take, Claimed
<1>4. QED
  BY <1>2, <1>3 DEF KeepFree, Claiming

LEMMA OccupancySteps ==
  ASSUME NEW U \in SUBSET Span, NEW seq \in Seq(U)
  PROVE  \E a \in [0 .. Len(seq) -> Claiming(U)] : OccupancyRun(seq, a)
<1> DEFINE n == Len(seq)
           Acc == Claiming(U)
           Adds(h) == h = [S \in SUBSET DOMAIN seq |->
                             IF S = {} THEN Unclaimed
                             ELSE KeepFree(h[S \ {Max(S)}], seq[Max(S)])]
           step == [i \in 1 .. n |-> [acc \in Acc |-> KeepFree(acc, seq[i])]]
           f == CHOOSE h : Adds(h)
<1>0. n \in Nat /\ DOMAIN seq = 1 .. n /\ \A i \in 1 .. n : seq[i] \in U
  OBVIOUS
<1>1. Unclaimed \in Acc
  BY DEF Claiming, Unclaimed
<1>a. ASSUME NEW acc \in Acc, NEW s \in U PROVE KeepFree(acc, s) \in Acc
  BY KeepFreeTyped
<1>2. step \in [1 .. n -> [Acc -> Acc]]
  BY <1>0, <1>a
<1>3. \A i \in 1 .. n, acc \in Acc : step[i][acc] = KeepFree(acc, seq[i])
  OBVIOUS
<1>4. AllClaimed(seq) = f[1 .. n]
  BY <1>0 DEF AllClaimed, FoldLeft, MapThenFoldSet
<1> HIDE DEF step, Acc
<1>5. PICK g \in [SUBSET (1 .. n) -> Acc] : FoldsAll(n, g, Unclaimed, step)
  BY <1>0, <1>1, <1>2, FoldsExist
<1>6. ASSUME NEW S \in SUBSET (1 .. n), S # {}
      PROVE  Max(S) \in 1 .. n /\ S \ {Max(S)} \in SUBSET (1 .. n)
  <2>1. S \subseteq 0 .. n
    OBVIOUS
  <2>2. Max(S) \in S
    BY <1>0, <1>6, <2>1, Greatest
  <2>3. QED
    BY <2>2
<1>7. Adds(g)
  <2>1. ASSUME NEW S \in SUBSET (1 .. n)
        PROVE  g[S] = IF S = {} THEN Unclaimed ELSE KeepFree(g[S \ {Max(S)}], seq[Max(S)])
    <3>1. CASE S = {}
      BY <1>5, <3>1 DEF FoldsAll
    <3>2. CASE S # {}
      <4>1. Max(S) \in 1 .. n /\ g[S \ {Max(S)}] \in Acc
        BY <1>6, <3>2
      <4>2. g[S] = step[Max(S)][g[S \ {Max(S)}]]
        BY <1>5, <3>2 DEF FoldsAll
      <4>3. QED
        BY <1>3, <3>2, <4>1, <4>2
    <3>3. QED
      BY <3>1, <3>2
  <2>2. QED
    BY <1>0, <2>1
<1>8. Adds(f)
  <2> HIDE DEF Adds
  <2>1. QED
    BY <1>7
<1> DEFINE a == [i \in 0 .. n |-> f[1 .. i]]
<1>9. a[0] = Unclaimed
  <2>1. 1 .. 0 = {} /\ {} \in SUBSET DOMAIN seq
    OBVIOUS
  <2> HIDE DEF f
  <2>2. f[{}] = Unclaimed
    BY <1>8, <2>1
  <2>3. QED
    BY <1>0, <2>1, <2>2
<1>10. ASSUME NEW i \in 1 .. n PROVE a[i] = KeepFree(a[i - 1], seq[i])
  <2>1. 1 .. i # {} /\ Max(1 .. i) = i /\ (1 .. i) \ {i} = 1 .. i - 1
    <3>1. i \in Nat \ {0}
      OBVIOUS
    <3> QED
      BY <3>1, LastOf
  <2>2. 1 .. i \in SUBSET DOMAIN seq
    BY <1>0
  <2> HIDE DEF f
  <2>3. f[1 .. i] = KeepFree(f[(1 .. i) \ {Max(1 .. i)}], seq[Max(1 .. i)])
    BY <1>8, <2>1, <2>2
  <2>4. f[1 .. i] = KeepFree(f[1 .. i - 1], seq[i])
    BY <2>1, <2>3
  <2>5. QED
    BY <2>4
<1>11. a[n] = f[1 .. n] /\ DOMAIN a = 0 .. n
  BY <1>0
<1>12. a = [i \in 0 .. n |-> a[i]]
  OBVIOUS
<1> HIDE DEF a, f
<1>13. \A i \in 0 .. n : a[i] \in Acc
  <2> DEFINE T == {i \in 0 .. n : a[i] \in Acc}
  <2>1. 0 \in T
    BY <1>0, <1>1, <1>9
  <2>2. ASSUME NEW i \in 0 .. n - 1, i \in T PROVE i + 1 \in T
    <3>1. i + 1 \in 1 .. n /\ (i + 1) - 1 = i
      BY <1>0
    <3>2. a[i + 1] = KeepFree(a[i], seq[i + 1])
      BY <1>10, <3>1
    <3>3. a[i] \in Acc /\ seq[i + 1] \in U
      BY <1>0, <2>2, <3>1
    <3>4. a[i + 1] \in Acc
      BY <1>a, <3>2, <3>3
    <3>5. QED
      BY <1>0, <3>1, <3>4
  <2> HIDE DEF T
  <2>3. \A i \in 0 .. n : i \in T
    BY <1>0, <2>1, <2>2, UpTo, Zenon
  <2>4. QED
    BY <2>3 DEF T
<1>14. a \in [0 .. n -> Acc]
  BY <1>12, <1>13
<1>15. OccupancyRun(seq, a)
  BY <1>4, <1>9, <1>10, <1>11 DEF OccupancyRun
<1>16. QED
  BY <1>14, <1>15 DEF Acc

\* A byte is taken when a kept span has it.
TakenBy(acc) ==
  \A b \in Int : b \in acc.taken <=>
    \E m \in 1 .. Len(acc.kept) : acc.kept[m].start <= b /\ b < acc.kept[m].end

LEMMA FreeIsApart ==
  ASSUME NEW U \in SUBSET Span, NEW acc \in Claiming(U), TakenBy(acc), NEW s \in U, Length(s) > 0
  PROVE  /\ acc.taken \cap (s.start .. s.end - 1) # {} =>
              \E m \in 1 .. Len(acc.kept) : Overlaps(s, acc.kept[m])
         /\ acc.taken \cap (s.start .. s.end - 1) = {} =>
              \A m \in 1 .. Len(acc.kept) : Length(acc.kept[m]) > 0 => ~Overlaps(s, acc.kept[m])
<1>0. s.start \in Nat /\ s.end \in Nat /\ s.start < s.end
  BY SpanNumbers DEF Length
<1>1. ASSUME NEW m \in 1 .. Len(acc.kept)
      PROVE  acc.kept[m].start \in Nat /\ acc.kept[m].end \in Nat
  <2>1. acc.kept[m] \in Span
    BY DEF Claiming
  <2>2. QED
    BY <2>1, SpanNumbers
<1>2. ASSUME acc.taken \cap (s.start .. s.end - 1) # {}
      PROVE  \E m \in 1 .. Len(acc.kept) : Overlaps(s, acc.kept[m])
  <2>1. PICK b \in Int : b \in acc.taken /\ s.start <= b /\ b < s.end
    BY <1>0, <1>2
  <2>2. PICK m \in 1 .. Len(acc.kept) : acc.kept[m].start <= b /\ b < acc.kept[m].end
    BY <2>1 DEF TakenBy
  <2>3. Overlaps(s, acc.kept[m])
    BY <1>0, <1>1, <2>1, <2>2 DEF Overlaps
  <2>4. QED
    BY <2>3
<1>3. ASSUME acc.taken \cap (s.start .. s.end - 1) = {}, NEW m \in 1 .. Len(acc.kept),
             Length(acc.kept[m]) > 0, Overlaps(s, acc.kept[m])
      PROVE  FALSE
  <2> DEFINE t == acc.kept[m]
             b == IF s.start <= t.start THEN t.start ELSE s.start
  <2>1. t.start \in Nat /\ t.end \in Nat /\ t.start < t.end
    BY <1>1, <1>3 DEF Length
  <2>2. s.start < t.end /\ t.start < s.end
    BY <1>3 DEF Overlaps
  <2> HIDE DEF t
  <2>3. b \in Int /\ t.start <= b /\ b < t.end /\ b \in s.start .. s.end - 1
    BY <1>0, <2>1, <2>2
  <2> HIDE DEF b
  <2>4. b \in acc.taken
    BY <2>3 DEF TakenBy, t
  <2>5. QED
    BY <1>3, <2>3, <2>4
<1>4. QED
  BY <1>2, <1>3

LEMMA OccupancyRunSettles ==
  ASSUME NEW U \in SUBSET Span, NEW seq \in Seq(U), LongestFirst(seq),
         NEW a \in [0 .. Len(seq) -> Claiming(U)], OccupancyRun(seq, a)
  PROVE  \A i \in 0 .. Len(seq) : Settled(seq, a[i].kept, i) /\ TakenBy(a[i])
<1> DEFINE n == Len(seq)
<1>0. n \in Nat
  OBVIOUS
<1>2. /\ a[0] = Unclaimed
      /\ \A i \in 1 .. n : a[i] = KeepFree(a[i - 1], seq[i])
  BY DEF OccupancyRun
<1> DEFINE T == {i \in 0 .. n : Settled(seq, a[i].kept, i) /\ TakenBy(a[i])}
<1>3. 0 \in T
  <2>1. Settled(seq, Unclaimed.kept, 0) /\ TakenBy(Unclaimed)
    BY DEF Settled, Unclaimed, TakenBy
  <2>2. QED
    BY <1>0, <1>2, <2>1
<1>4. ASSUME NEW i \in 0 .. n - 1, i \in T PROVE i + 1 \in T
  <2> DEFINE k == i + 1
             acc == a[i]
             s == seq[k]
  <2>1. k \in 1 .. n /\ k - 1 = i /\ i \in 0 .. n /\ s \in U
    BY <1>0
  <2>2. /\ a[k] = KeepFree(acc, s) /\ Settled(seq, acc.kept, k - 1)
        /\ acc \in Claiming(U) /\ TakenBy(acc)
    BY <1>2, <1>4, <2>1
  <2>3. acc.kept \in Seq(U) /\ s.start \in Nat /\ s.end \in Nat
    BY <2>1, <2>2, SpanNumbers DEF Claiming
  <2> HIDE DEF k, acc, s
  <2>4. CASE acc.taken \cap (s.start .. s.end - 1) # {}
    <3>1. a[k] = acc
      BY <2>2, <2>4 DEF KeepFree
    <3>2. Length(s) > 0 => \E m \in 1 .. Len(acc.kept) : Overlaps(s, acc.kept[m])
      BY <2>1, <2>2, <2>4, FreeIsApart
    <3>3. Settled(seq, acc.kept, k)
      BY <2>1, <2>2, <2>3, <3>2, SettledDropped DEF s
    <3>4. Settled(seq, a[k].kept, k) /\ TakenBy(a[k])
      BY <2>2, <3>1, <3>3
    <3>5. QED
      BY <1>0, <2>1, <3>4 DEF k
  <2>5. CASE acc.taken \cap (s.start .. s.end - 1) = {}
    <3> DEFINE new == [kept |-> Append(acc.kept, s), taken |-> Take(acc.taken, s)]
    <3>1. a[k] = new
      BY <2>2, <2>5 DEF KeepFree
    <3>2. \A m \in 1 .. Len(acc.kept) :
            Length(acc.kept[m]) > 0 /\ Length(s) > 0 => ~Overlaps(s, acc.kept[m])
      BY <2>1, <2>2, <2>5, FreeIsApart
    <3>3. Settled(seq, Append(acc.kept, s), k)
      BY <2>1, <2>2, <2>3, <3>2, SettledKept DEF s
    <3>4. TakenBy(new)
      <4> DEFINE l == Len(acc.kept)
                 more == Append(acc.kept, s)
      <4>0. l \in Nat /\ Len(more) = l + 1 /\ more[l + 1] = s /\ \A m \in 1 .. l : more[m] = acc.kept[m]
        BY <2>1, <2>3, AppendIs
      <4>1. new.kept = more /\ new.taken = acc.taken \cup (s.start .. s.end - 1)
        BY DEF Take, Claimed
      <4> HIDE DEF more, new
      <4>2. ASSUME NEW b \in Int
            PROVE  b \in new.taken <=>
                     \E m \in 1 .. l + 1 : more[m].start <= b /\ b < more[m].end
        <5>1. b \in acc.taken <=>
                \E m \in 1 .. l : acc.kept[m].start <= b /\ b < acc.kept[m].end
          BY <2>2 DEF TakenBy
        <5>2. b \in s.start .. s.end - 1 <=> s.start <= b /\ b < s.end
          BY <2>3
        <5>3. (\E m \in 1 .. l + 1 : more[m].start <= b /\ b < more[m].end)
                <=> \/ \E m \in 1 .. l : more[m].start <= b /\ b < more[m].end
                    \/ more[l + 1].start <= b /\ b < more[l + 1].end
          <6>1. \A m \in 1 .. l + 1 : m \in 1 .. l \/ m = l + 1
            BY <4>0
          <6>2. l + 1 \in 1 .. l + 1 /\ \A m \in 1 .. l : m \in 1 .. l + 1
            BY <4>0
          <6>3. QED
            BY <6>1, <6>2
        <5>4. QED
          BY <4>0, <4>1, <5>1, <5>2, <5>3
      <4>3. QED
        BY <4>0, <4>1, <4>2 DEF TakenBy
    <3>5. new.kept = Append(acc.kept, s)
      OBVIOUS
    <3> HIDE DEF new
    <3>6. Settled(seq, a[k].kept, k) /\ TakenBy(a[k])
      BY <3>1, <3>3, <3>4, <3>5
    <3>7. QED
      BY <1>0, <2>1, <3>6 DEF k
  <2>6. QED
    BY <2>4, <2>5
<1> HIDE DEF T
<1>5. \A i \in 0 .. n : i \in T
  BY <1>0, <1>3, <1>4, UpTo, Zenon
<1> QED
  BY <1>5 DEF T

LEMMA OccupancySettles ==
  ASSUME NEW U \in SUBSET Span, NEW seq \in Seq(U), LongestFirst(seq)
  PROVE  Occupancy(seq) \in Seq(U) /\ Settled(seq, Occupancy(seq), Len(seq))
<1>1. PICK a \in [0 .. Len(seq) -> Claiming(U)] : OccupancyRun(seq, a)
  BY OccupancySteps
<1>2. \A i \in 0 .. Len(seq) : Settled(seq, a[i].kept, i)
  BY <1>1, OccupancyRunSettles
<1>3. a[Len(seq)] = AllClaimed(seq) /\ Len(seq) \in 0 .. Len(seq)
  BY <1>1 DEF OccupancyRun
<1>4. Occupancy(seq) = a[Len(seq)].kept
  BY <1>3 DEF Occupancy, AllClaimed, Unclaimed
<1>5. a[Len(seq)].kept \in Seq(U)
  BY <1>3 DEF Claiming
<1> QED
  BY <1>2, <1>3, <1>4, <1>5

Rising(seq) == \A i, j \in 1 .. Len(seq) : i < j => seq[i].start <= seq[j].start

\* Sorting neither the claims nor the kept ones changes what is settled.
LEMMA SettledSorted ==
  ASSUME NEW U \in SUBSET Span, NEW seq \in Seq(U), NEW ranked \in Seq(U), NEW kept \in Seq(U),
         NEW risen \in Seq(U), NEW p, Rearranges(p, seq, ranked), NEW q, Rearranges(q, kept, risen),
         Settled(ranked, kept, Len(seq))
  PROVE  Settled(seq, risen, Len(seq))
<1>1. /\ p \in [1 .. Len(seq) -> 1 .. Len(seq)] /\ \A k \in 1 .. Len(seq) : ranked[k] = seq[p[k]]
      /\ \A j \in 1 .. Len(seq) : \E k \in 1 .. Len(seq) : p[k] = j
      /\ Len(ranked) = Len(seq)
  BY DEF Rearranges, Permutes
<1>2. /\ q \in [1 .. Len(kept) -> 1 .. Len(kept)] /\ \A k \in 1 .. Len(kept) : risen[k] = kept[q[k]]
      /\ \A j \in 1 .. Len(kept) : \E k \in 1 .. Len(kept) : q[k] = j
      /\ \A i, j \in 1 .. Len(kept) : i # j => q[i] # q[j]
      /\ Len(risen) = Len(kept)
  BY DEF Rearranges, Permutes
<1>3. \A m \in 1 .. Len(risen) : \E j \in 1 .. Len(seq) : risen[m] = seq[j]
  <2>1. ASSUME NEW m \in 1 .. Len(risen)
        PROVE  \E j \in 1 .. Len(seq) : risen[m] = seq[j]
    <3>1. q[m] \in 1 .. Len(kept) /\ risen[m] = kept[q[m]]
      BY <1>2
    <3>2. PICK j \in 1 .. Len(seq) : kept[q[m]] = ranked[j]
      BY <3>1 DEF Settled
    <3>3. p[j] \in 1 .. Len(seq) /\ ranked[j] = seq[p[j]]
      BY <1>1
    <3> QED
      BY <3>1, <3>2, <3>3
  <2> QED
    BY <2>1
<1>4. ASSUME NEW m \in 1 .. Len(risen), NEW l \in 1 .. Len(risen), m # l,
             Length(risen[m]) > 0, Length(risen[l]) > 0
      PROVE  ~Overlaps(risen[m], risen[l])
  <2>1. /\ q[m] \in 1 .. Len(kept) /\ risen[m] = kept[q[m]]
        /\ q[l] \in 1 .. Len(kept) /\ risen[l] = kept[q[l]] /\ q[m] # q[l]
    BY <1>2, <1>4
  <2> QED
    BY <2>1, <1>4 DEF Settled
<1>5. ASSUME NEW j \in 1 .. Len(seq), Length(seq[j]) > 0
      PROVE  \E m \in 1 .. Len(risen) :
               \/ risen[m] = seq[j]
               \/ Overlaps(seq[j], risen[m]) /\ Length(risen[m]) >= Length(seq[j])
  <2>1. PICK k \in 1 .. Len(seq) : p[k] = j
    BY <1>1
  <2>2. ranked[k] = seq[j]
    BY <2>1, <1>1
  <2>3. PICK i \in 1 .. Len(kept) :
               \/ kept[i] = seq[j]
               \/ Overlaps(seq[j], kept[i]) /\ Length(kept[i]) >= Length(seq[j])
    BY <2>2, <1>5 DEF Settled
  <2>4. PICK m \in 1 .. Len(kept) : q[m] = i
    BY <1>2
  <2>5. m \in 1 .. Len(risen) /\ risen[m] = kept[i]
    BY <2>4, <1>2
  <2> QED
    BY <2>3, <2>5
<1> QED
  BY <1>3, <1>4, <1>5 DEF Settled

\* Resolve keeps spans apart from each other, in the order of their starts, and
\* gives a claim up only for one at least as long that it keeps.
LEMMA ResolveSettles ==
  ASSUME NEW U \in SUBSET Span, NEW seq \in Seq(U)
  PROVE  /\ Resolve(seq) \in Seq(U)
         /\ Settled(seq, Resolve(seq), Len(seq))
         /\ Rising(Resolve(seq))
<1>1. CASE Len(seq) < 2
  <2>1. Resolve(seq) = seq /\ Len(seq) \in Nat
    BY <1>1 DEF Resolve
  <2>2. \A m, l \in 1 .. Len(seq) : m = l
    BY <2>1, <1>1
  <2>3. Settled(seq, seq, Len(seq))
    BY <2>2 DEF Settled
  <2>4. Rising(seq)
    BY <2>2 DEF Rising
  <2> QED
    BY <2>1, <2>3, <2>4
<1>2. CASE ~(Len(seq) < 2)
  <2> DEFINE ranked == ByRank(seq)
             kept == ResolveFilter(ranked)
             risen == ByStart(kept)
  <2>1. Resolve(seq) = risen
    BY <1>2 DEF Resolve, ByRank
  <2>2. /\ ranked \in Seq(U) /\ Len(ranked) = Len(seq)
        /\ \E p : Rearranges(p, seq, ranked)
        /\ LongestFirst(ranked)
    BY ByRankIs DEF LongestFirst
  <2>3. kept = Pairwise(ranked) \/ kept = Occupancy(ranked)
    BY DEF ResolveFilter
  <2> HIDE DEF ranked
  <2>4. Pairwise(ranked) \in Seq(U) /\ Settled(ranked, Pairwise(ranked), Len(ranked))
    BY <2>2, PairwiseSettles
  <2>5. Occupancy(ranked) \in Seq(U) /\ Settled(ranked, Occupancy(ranked), Len(ranked))
    BY <2>2, OccupancySettles
  <2> HIDE DEF kept
  <2>6. kept \in Seq(U) /\ Settled(ranked, kept, Len(seq))
    BY <2>2, <2>3, <2>4, <2>5
  <2>7. /\ risen \in Seq(U) /\ Len(risen) = Len(kept)
        /\ \E q : Rearranges(q, kept, risen)
        /\ \A i, j \in 1 .. Len(kept) : i < j => risen[i].start <= risen[j].start
    BY <2>6, ByStartIs
  <2> HIDE DEF risen
  <2>8. Rising(risen)
    BY <2>7 DEF Rising
  <2>9. PICK p : Rearranges(p, seq, ranked)
    BY <2>2
  <2>10. PICK q : Rearranges(q, kept, risen)
    BY <2>7
  <2>11. Settled(seq, risen, Len(seq))
    BY <2>2, <2>6, <2>7, <2>9, <2>10, SettledSorted
  <2> QED
    BY <2>1, <2>7, <2>8, <2>11
<1> QED
  BY <1>1, <1>2

-----------------------------------------------------------------------------
(* The filter and the labels *)

InText(text) == {s \in Span : s.start <= s.end /\ s.end <= Len(text)}
Apart(seq) ==
  \A m, l \in 1 .. Len(seq) :
    m # l /\ Length(seq[m]) > 0 /\ Length(seq[l]) > 0 => ~Overlaps(seq[m], seq[l])
\* Spans in order, those that are not empty behind each other.
Laid(seq) == Rising(seq) /\ Apart(seq)

LEMMA AmongLaid ==
  ASSUME NEW U \in SUBSET Span, NEW seq \in Seq(U), NEW S
  PROVE  /\ Among(seq, S) \in Seq(U)
         /\ \A k \in 1 .. Len(Among(seq, S)) : \E i \in 1 .. Len(seq) : Among(seq, S)[k] = seq[i]
         /\ Laid(seq) => Laid(Among(seq, S))
<1> DEFINE some == Among(seq, S)
<1>1. some \in Seq(U)
  BY AmongSelects
<1>2. PICK p : /\ Selects(p, Len(some), seq, S)
               /\ \A k \in 1 .. Len(some) : some[k] = seq[p[k]]
  BY AmongSelects
<1> HIDE DEF some
<1>3. /\ p \in [1 .. Len(some) -> 1 .. Len(seq)]
      /\ \A i, j \in 1 .. Len(some) : i < j => p[i] < p[j]
  BY <1>2 DEF Selects
<1>4. \A i, j \in 1 .. Len(some) : i # j => p[i] # p[j]
  <2>1. ASSUME NEW i \in 1 .. Len(some), NEW j \in 1 .. Len(some), i # j
        PROVE  p[i] # p[j]
    <3>1. i < j \/ j < i
      BY <2>1
    <3>2. p[i] < p[j] \/ p[j] < p[i]
      BY <3>1, <1>3
    <3>3. p[i] \in Int /\ p[j] \in Int
      BY <1>3
    <3> QED
      BY <3>2, <3>3
  <2> QED
    BY <2>1
<1>5. Laid(seq) => Rising(some)
  BY <1>2, <1>3 DEF Laid, Rising
<1>6. Laid(seq) => Apart(some)
  <2>1. ASSUME Laid(seq), NEW m \in 1 .. Len(some), NEW l \in 1 .. Len(some), m # l,
               Length(some[m]) > 0, Length(some[l]) > 0
        PROVE  ~Overlaps(some[m], some[l])
    <3>1. /\ p[m] \in 1 .. Len(seq) /\ some[m] = seq[p[m]]
          /\ p[l] \in 1 .. Len(seq) /\ some[l] = seq[p[l]] /\ p[m] # p[l]
      BY <1>2, <1>3, <1>4, <2>1
    <3> QED
      BY <2>1, <3>1 DEF Laid, Apart
  <2> QED
    BY <2>1 DEF Apart
<1>7. \A k \in 1 .. Len(some) : \E i \in 1 .. Len(seq) : some[k] = seq[i]
  BY <1>2, <1>3
<1> QED
  BY <1>1, <1>5, <1>6, <1>7 DEF Laid, some

LEMMA FilterLaid ==
  ASSUME NEW U \in SUBSET Span, NEW seq \in Seq(U), NEW rules, NEW custom
  PROVE  /\ Filter(rules, custom, seq) \in Seq(U)
         /\ Laid(seq) => Laid(Filter(rules, custom, seq))
<1> DEFINE S == {s \in ToSet(seq) : KeepSpan(rules, custom, s)}
           kept == Among(seq, S)
           T == {s \in ToSet(kept) : Vouched(rules, s, kept)}
<1>1. kept \in Seq(U) /\ (Laid(seq) => Laid(kept))
  <2> HIDE DEF S
  <2> QED
    BY AmongLaid
<1>2. Filter(rules, custom, seq) = Among(kept, T)
  BY DEF Filter
<1> HIDE DEF kept, T
<1> QED
  BY <1>1, <1>2, AmongLaid

\* Spans behind each other, each ending before the next begins.
LEMMA LaidEnds ==
  ASSUME NEW U \in SUBSET Span, NEW seq \in Seq(U), Laid(seq),
         NEW i \in 1 .. Len(seq), NEW j \in 1 .. Len(seq), i < j,
         Length(seq[i]) > 0, Length(seq[j]) > 0
  PROVE  seq[i].end <= seq[j].start
<1>1. seq[i] \in Span /\ seq[j] \in Span
  OBVIOUS
<1>2. seq[i].start <= seq[j].start
  BY DEF Laid, Rising
<1>3. ~(seq[i].start < seq[j].end /\ seq[j].start < seq[i].end)
  BY DEF Laid, Apart, Overlaps
<1>4. PICK a, b, c, d : a = seq[i].start /\ b = seq[i].end /\ c = seq[j].start /\ d = seq[j].end
  OBVIOUS
<1>5. a \in Nat /\ b \in Nat /\ c \in Nat /\ d \in Nat
  BY <1>1, <1>4, SpanNumbers
<1>6. d - c > 0
  BY <1>4 DEF Length
<1> QED
  BY <1>2, <1>3, <1>4, <1>5, <1>6

\* What the label expansion makes of the i-th span: only its start moves, and
\* never past the end of the one before it.
LEMMA ExpandAt ==
  ASSUME NEW text \in Seq(Bytes), NEW seq \in Seq(InText(text)), NEW i \in 1 .. Len(seq)
  PROVE  /\ ExpandLabelSpans(text, seq)[i] \in InText(text)
         /\ ExpandLabelSpans(text, seq)[i].end = seq[i].end
         /\ ExpandLabelSpans(text, seq)[i].start <= seq[i].start
         /\ \/ ExpandLabelSpans(text, seq)[i].start = seq[i].start
            \/ i > 1 => seq[i - 1].end <= ExpandLabelSpans(text, seq)[i].start
<1> DEFINE limit == IF i = 1 THEN 0 ELSE seq[i - 1].end
           at == seq[i].start
           wide == Widened(text, at, limit)
<1>1. seq[i] \in InText(text) /\ (i > 1 => i - 1 \in 1 .. Len(seq))
  OBVIOUS
<1>2. at \in Nat /\ limit \in Nat
  BY <1>1 DEF InText, Span
<1>3. ExpandLabelSpans(text, seq)[i] = [seq[i] EXCEPT !.start = wide]
  <2>1. i \in DOMAIN seq
    OBVIOUS
  <2> QED
    BY <2>1 DEF ExpandLabelSpans
<1>4. \/ wide = at
      \/ limit <= at /\ wide \in limit .. at
  <2>1. ASSUME NEW x \in Nat, NEW y \in Nat
        PROVE  \/ Widened(text, x, y) = x
               \/ y <= x /\ Widened(text, x, y) \in y .. x
    BY WidenedIn
  <2> HIDE DEF at, limit
  <2> QED
    BY <1>2, <2>1
<1>5. wide \in Nat /\ wide <= at
  <2> HIDE DEF wide, at, limit
  <2> QED
    BY <1>2, <1>4
<1>6. i > 1 => limit = seq[i - 1].end
  BY <1>2
<1>7. wide = at \/ limit <= wide
  <2> HIDE DEF wide, at, limit
  <2> QED
    BY <1>2, <1>4
<1> HIDE DEF wide, limit
<1>8. [seq[i] EXCEPT !.start = wide] \in InText(text)
  <2>1. seq[i] \in [start : Nat, end : Nat, type : Types, conf : Int] /\ seq[i].start <= seq[i].end
        /\ seq[i].end <= Len(text) /\ Len(text) \in Nat
    BY <1>1 DEF InText, Span
  <2> DEFINE new == [seq[i] EXCEPT !.start = wide]
  <2>2. new \in Span /\ new.start = wide /\ new.end = seq[i].end
    BY <2>1, <1>5 DEF Span
  <2>3. wide <= seq[i].end
    <3>1. PICK a, b : a = seq[i].start /\ b = seq[i].end
      OBVIOUS
    <3>2. a \in Nat /\ b \in Nat /\ a <= b
      BY <3>1, <2>1
    <3> QED
      BY <3>1, <3>2, <1>5
  <2> QED
    BY <2>1, <2>2, <2>3 DEF InText
<1>9. /\ [seq[i] EXCEPT !.start = wide].start = wide
      /\ [seq[i] EXCEPT !.start = wide].end = seq[i].end
  BY <1>1 DEF InText, Span
<1> QED
  BY <1>3, <1>5, <1>6, <1>7, <1>8, <1>9

LEMMA ExpandIs ==
  ASSUME NEW text \in Seq(Bytes), NEW seq \in Seq(InText(text))
  PROVE  /\ ExpandLabelSpans(text, seq) \in Seq(InText(text))
         /\ Len(ExpandLabelSpans(text, seq)) = Len(seq)
<1> DEFINE wide == ExpandLabelSpans(text, seq)
<1>1. \A i \in 1 .. Len(seq) : wide[i] \in InText(text)
  BY ExpandAt
<1>2. DOMAIN wide = 1 .. Len(seq) /\ wide = [i \in 1 .. Len(seq) |-> wide[i]]
  BY DEF ExpandLabelSpans
<1>3. Len(seq) \in Nat
  OBVIOUS
<1> HIDE DEF wide
<1>4. wide \in [1 .. Len(seq) -> InText(text)]
  BY <1>1, <1>2
<1> QED
  BY <1>3, <1>4 DEF wide

\* Spans none of which is empty stay apart when they take in their labels.
LEMMA ExpandLaid ==
  ASSUME NEW text \in Seq(Bytes), NEW seq \in Seq(InText(text)), Laid(seq),
         \A i \in 1 .. Len(seq) : Length(seq[i]) > 0
  PROVE  Laid(ExpandLabelSpans(text, seq))
<1> DEFINE wide == ExpandLabelSpans(text, seq)
<1>1. wide \in Seq(InText(text)) /\ Len(wide) = Len(seq) /\ Len(seq) \in Nat
  BY ExpandIs
<1>2. ASSUME NEW i \in 1 .. Len(seq), NEW j \in 1 .. Len(seq), i < j
      PROVE  wide[i].end <= wide[j].start /\ wide[i].start <= wide[i].end
  <2>1. /\ wide[i].end = seq[i].end /\ wide[i] \in InText(text)
        /\ wide[j] \in InText(text)
        /\ \/ wide[j].start = seq[j].start
           \/ j > 1 => seq[j - 1].end <= wide[j].start
    BY ExpandAt
  <2>2. InText(text) \in SUBSET Span
    BY DEF InText
  <2>3. seq[i].end <= seq[j].start
    BY <1>2, <2>2, LaidEnds
  <2>4. j - 1 \in 1 .. Len(seq) /\ j > 1 /\ (i = j - 1 \/ i < j - 1)
    BY <1>1, <1>2
  <2>5. i < j - 1 => seq[i].end <= seq[j - 1].start
    BY <2>4, <2>2, LaidEnds
  <2>6. PICK a, b, c, d : a = seq[i].end /\ b = seq[j - 1].start /\ c = seq[j - 1].end /\ d = wide[j].start
    OBVIOUS
  <2>7. a \in Nat /\ b \in Nat /\ c \in Nat /\ d \in Nat
    <3>1. \A s \in InText(text) : s.start \in Nat /\ s.end \in Nat
      BY DEF InText, Span
    <3>2. seq[i] \in InText(text) /\ seq[j - 1] \in InText(text)
      BY <2>4
    <3> QED
      BY <2>1, <2>6, <3>1, <3>2
  <2>8. b < c
    <3>1. Length(seq[j - 1]) > 0
      BY <2>4
    <3>2. c - b > 0
      BY <2>6, <3>1 DEF Length
    <3> QED
      BY <2>7, <3>2
  <2>9. wide[i].start <= wide[i].end
    BY <2>1 DEF InText
  <2>10. CASE wide[j].start = seq[j].start
    BY <2>10, <2>1, <2>3, <2>9
  <2>11. CASE seq[j - 1].end <= wide[j].start
    <3>1. c <= d
      BY <2>6, <2>11
    <3>2. a <= d
      <4>1. CASE i = j - 1
        <5>1. a = c
          BY <2>6, <4>1
        <5> QED
          BY <3>1, <5>1
      <4>2. CASE i < j - 1
        <5>1. a <= b
          BY <2>5, <2>6, <4>2
        <5> QED
          BY <2>7, <2>8, <3>1, <5>1
      <4> QED
        BY <2>4, <4>1, <4>2
    <3> QED
      BY <3>2, <2>6, <2>1, <2>9
  <2> QED
    BY <2>1, <2>4, <2>10, <2>11
<1>3. \A i \in 1 .. Len(seq) : wide[i].start \in Nat /\ wide[i].end \in Nat
  BY ExpandAt DEF InText, Span
<1> HIDE DEF wide
<1>4. Rising(wide)
  <2>1. ASSUME NEW i \in 1 .. Len(seq), NEW j \in 1 .. Len(seq), i < j
        PROVE  wide[i].start <= wide[j].start
    <3>1. PICK a, b, c : a = wide[i].start /\ b = wide[i].end /\ c = wide[j].start
      OBVIOUS
    <3>2. a \in Nat /\ b \in Nat /\ c \in Nat
      BY <1>3, <3>1
    <3>3. a <= b /\ b <= c
      BY <2>1, <1>2, <3>1
    <3> QED
      BY <3>1, <3>2, <3>3
  <2> QED
    BY <1>1, <2>1 DEF Rising
<1>5. Apart(wide)
  <2>1. ASSUME NEW i \in 1 .. Len(seq), NEW j \in 1 .. Len(seq), i < j
        PROVE  ~Overlaps(wide[i], wide[j]) /\ ~Overlaps(wide[j], wide[i])
    <3>1. PICK b, c : b = wide[i].end /\ c = wide[j].start
      OBVIOUS
    <3>2. b \in Nat /\ c \in Nat /\ b <= c
      BY <2>1, <1>2, <1>3, <3>1
    <3>3. ~(c < b)
      BY <3>2
    <3> QED
      BY <3>1, <3>3 DEF Overlaps
  <2>2. \A m, l \in 1 .. Len(seq) : m # l => m < l \/ l < m
    OBVIOUS
  <2> QED
    BY <1>1, <2>1, <2>2 DEF Apart
<1> QED
  BY <1>4, <1>5 DEF Laid, wide

-----------------------------------------------------------------------------
(* What the detectors report *)

LEMMA AmongNone ==
  ASSUME NEW U, NEW seq \in Seq(U), NEW S, \A i \in 1 .. Len(seq) : seq[i] \notin S
  PROVE  Among(seq, S) = <<>>
<1> DEFINE some == Among(seq, S)
<1>1. some \in Seq(U)
  BY AmongSelects
<1>2. PICK p : /\ Selects(p, Len(some), seq, S)
               /\ \A k \in 1 .. Len(some) : some[k] = seq[p[k]]
  BY AmongSelects
<1>3. \A k \in 1 .. Len(some) : FALSE
  BY <1>2 DEF Selects
<1> HIDE DEF some
<1>4. Len(some) = 0
  BY <1>1, <1>3
<1> QED
  BY <1>1, <1>4 DEF some

LEMMA PairOf ==
  ASSUME NEW a \in Nat, NEW b \in Nat
  PROVE  /\ Max({a, b}) \in {a, b} /\ a <= Max({a, b}) /\ b <= Max({a, b})
         /\ Min({a, b}) \in {a, b} /\ Min({a, b}) <= a /\ Min({a, b}) <= b
<1>1. {a, b} \subseteq 0 .. a + b /\ {a, b} # {} /\ {a, b} \subseteq Nat /\ a + b \in Nat
  OBVIOUS
<1>2. Max({a, b}) \in {a, b} /\ \A x \in {a, b} : x <= Max({a, b})
  BY <1>1, Greatest
<1>3. Min({a, b}) \in {a, b} /\ \A x \in {a, b} : Min({a, b}) <= x
  BY <1>1, Lowest
<1> QED
  BY <1>2, <1>3

\* Pieces of a text that are not empty.
Proper(text) == {s \in InText(text) : s.start < s.end}

Clipped(s, from, to) == [s EXCEPT !.start = Max({@, from}), !.end = Min({s.end, to})]

LEMMA ClippedIn ==
  ASSUME NEW text \in Seq(Bytes), NEW s \in InText(text), NEW from \in Nat, NEW to \in Nat,
         from < to, to <= Len(text),
         (s.start < from /\ s.end > from) \/ (s.start < to /\ s.end > to)
  PROVE  Clipped(s, from, to) \in Proper(text)
<1> DEFINE a == s.start
           b == s.end
           x == Max({a, from})
           y == Min({b, to})
<1>1. s \in Span /\ a \in Nat /\ b \in Nat /\ a <= b /\ b <= Len(text) /\ Len(text) \in Nat
  BY DEF InText, Span
<1>2. /\ x \in {a, from} /\ a <= x /\ from <= x
      /\ y \in {b, to} /\ y <= b /\ y <= to
  <2> HIDE DEF a, b
  <2> QED
    BY <1>1, PairOf
<1>3. (a < from /\ b > from) \/ (a < to /\ b > to)
  OBVIOUS
<1>4. Clipped(s, from, to) = [s EXCEPT !.start = x, !.end = y]
  BY DEF Clipped
<1> HIDE DEF a, b, x, y
<1>5. x \in Nat /\ y \in Nat /\ x < y /\ y <= Len(text)
  BY <1>1, <1>2, <1>3
<1> DEFINE new == [s EXCEPT !.start = x, !.end = y]
<1>6. new \in Span /\ new.start = x /\ new.end = y
  BY <1>1, <1>5 DEF Span
<1> HIDE DEF new
<1>7. new \in Proper(text)
  BY <1>5, <1>6 DEF Proper, InText
<1> QED
  BY <1>4, <1>7 DEF new

\* U are the pieces of the text, or those that are not empty.
LEMMA PartsIn ==
  ASSUME NEW U, U \in {InText(job.text), Proper(job.text)}, job.text \in Seq(Bytes),
         job.marks \in Seq(U), NEW from \in Nat, NEW to \in Nat, from < to, to <= Len(job.text)
  PROVE  Parts(from, to) \in Seq(U)
<1> DEFINE S == {s \in ToSet(job.marks) :
               (s.start < from /\ s.end > from) \/ (s.start < to /\ s.end > to)}
           cut == Among(job.marks, S)
<1>1. Proper(job.text) \subseteq U /\ U \subseteq InText(job.text)
  BY DEF Proper
<1>2. cut \in Seq(U) /\ \A k \in 1 .. Len(cut) : cut[k] \in S
  <2> HIDE DEF S
  <2> QED
    BY AmongSelects, AmongHas
<1>3. Parts(from, to) = [i \in DOMAIN cut |-> Clipped(cut[i], from, to)]
  BY DEF Parts, Clipped
<1>4. \A s \in S : (s.start < from /\ s.end > from) \/ (s.start < to /\ s.end > to)
  OBVIOUS
<1> HIDE DEF cut, S
<1>5. \A i \in 1 .. Len(cut) : Clipped(cut[i], from, to) \in U
  <2>1. ASSUME NEW i \in 1 .. Len(cut)
        PROVE  Clipped(cut[i], from, to) \in U
    <3>1. cut[i] \in InText(job.text) /\ cut[i] \in S
      BY <1>1, <1>2
    <3>2. Clipped(cut[i], from, to) \in Proper(job.text)
      BY <3>1, <1>4, ClippedIn
    <3> QED
      BY <3>2, <1>1
  <2> QED
    BY <2>1
<1>6. Len(cut) \in Nat /\ DOMAIN cut = 1 .. Len(cut)
  BY <1>2
<1> QED
  BY <1>3, <1>5, <1>6

Wanted(found) == Among(found, {s \in ToSet(found) : Enabled(sys, seen, s.type)})

LEMMA WantedIn ==
  ASSUME NEW U, NEW found \in Seq(U)
  PROVE  Wanted(found) \in Seq(U)
BY AmongSelects DEF Wanted

\* The first alone, or with the second before or after it.
MadeOf(found, x, y) == found = x \/ found = x \o y \/ found = y \o x

LEMMA ReportsAre ==
  ASSUME NEW U, NEW from, NEW to, Inside(from, to) \in Seq(U), Parts(from, to) \in Seq(U),
         NEW found \in Reports(from, to)
  PROVE  found \in Seq(U) /\ MadeOf(found, Wanted(Inside(from, to)), Wanted(Parts(from, to)))
<1>1. \/ found = Wanted(Inside(from, to))
      \/ found = Wanted(Inside(from, to)) \o Wanted(Parts(from, to))
      \/ found = Wanted(Parts(from, to)) \o Wanted(Inside(from, to))
  BY DEF Reports, Wanted
<1>2. Wanted(Inside(from, to)) \in Seq(U) /\ Wanted(Parts(from, to)) \in Seq(U)
  BY WantedIn
<1> QED
  BY <1>1, <1>2, JoinIs DEF MadeOf

\* A context over a chunk reports pieces of the text.
LEMMA ReportsIn ==
  ASSUME NEW U, U \in {InText(job.text), Proper(job.text)}, job.text \in Seq(Bytes),
         job.marks \in Seq(U), NEW from \in Nat, NEW to \in Nat, from < to, to <= Len(job.text),
         NEW found \in Reports(from, to)
  PROVE  found \in Seq(U)
<1>1. Inside(from, to) \in Seq(U)
  BY AmongSelects DEF Inside
<1>2. Parts(from, to) \in Seq(U)
  BY PartsIn
<1> QED
  BY <1>1, <1>2, ReportsAre

\* One over the whole of it reports the marks of the enabled types, no others.
LEMMA ReportsWhole ==
  ASSUME NEW U \in SUBSET InText(job.text), job.text \in Seq(Bytes),
         job.marks \in Seq(U), NEW found \in Reports(0, Len(job.text))
  PROVE  /\ found \in Seq(U)
         /\ \A k \in 1 .. Len(found) : found[k] \in ToSet(job.marks) /\ Enabled(sys, seen, found[k].type)
         /\ \A i \in 1 .. Len(job.marks) : Enabled(sys, seen, job.marks[i].type) =>
              \E k \in 1 .. Len(found) : found[k] = job.marks[i]
<1> DEFINE size == Len(job.text)
           marks == job.marks
           inside == Inside(0, size)
           parts == Parts(0, size)
<1>1. /\ \A i \in 1 .. Len(marks) : marks[i] \in InText(job.text)
      /\ ToSet(marks) = {marks[i] : i \in 1 .. Len(marks)}
      /\ size \in Nat
  BY DEF ToSet
<1>2. \A s \in ToSet(marks) : s.start \in Nat /\ s.end \in Nat /\ s.start <= s.end /\ s.end <= size
  BY <1>1 DEF InText, Span
<1>3. inside \in Seq(U)
  BY AmongSelects DEF Inside
<1>4. /\ \A k \in 1 .. Len(inside) : inside[k] \in ToSet(marks)
      /\ \A i \in 1 .. Len(marks) : \E k \in 1 .. Len(inside) : inside[k] = marks[i]
  <2> DEFINE S == {s \in ToSet(marks) : 0 <= s.start /\ s.end <= size}
  <2>1. \A i \in 1 .. Len(marks) : marks[i] \in S
    <3>1. ASSUME NEW i \in 1 .. Len(marks)
          PROVE  marks[i] \in S
      <4>1. marks[i] \in ToSet(marks)
        BY <1>1
      <4> QED
        BY <4>1, <1>2
    <3> QED
      BY <3>1
  <2>2. inside = Among(marks, S) /\ S \subseteq ToSet(marks)
    BY DEF Inside
  <2> HIDE DEF S
  <2> QED
    BY <2>1, <2>2, AmongHas
<1>5. parts = <<>>
  <2> DEFINE S == {s \in ToSet(marks) : (s.start < 0 /\ s.end > 0) \/ (s.start < size /\ s.end > size)}
  <2>1. \A i \in 1 .. Len(marks) : marks[i] \notin S
    <3>1. ASSUME NEW i \in 1 .. Len(marks)
          PROVE  marks[i] \notin S
      <4>1. PICK x : x = marks[i]
        OBVIOUS
      <4>2. x \in ToSet(marks)
        BY <1>1, <4>1
      <4>3. PICK a, b : a = x.start /\ b = x.end
        OBVIOUS
      <4>4. a \in Nat /\ b \in Nat /\ b <= size
        BY <1>2, <4>2, <4>3
      <4>5. ~(a < 0) /\ ~(b > size)
        BY <1>1, <4>4
      <4> QED
        BY <4>1, <4>3, <4>5
    <3> QED
      BY <3>1
  <2>2. Among(marks, S) = <<>>
    <3> HIDE DEF S
    <3> QED
      BY <2>1, AmongNone
  <2>3. parts = [i \in DOMAIN Among(marks, S) |-> Clipped(Among(marks, S)[i], 0, size)]
    BY DEF Parts, Clipped
  <2>4. parts = [i \in 1 .. 0 |-> Clipped(Among(marks, S)[i], 0, size)]
    <3>1. DOMAIN Among(marks, S) = 1 .. 0
      BY <2>2
    <3> QED
      BY <2>3, <3>1
  <2> HIDE DEF parts
  <2>5. parts \in [1 .. 0 -> {}]
    BY <2>4
  <2>6. parts \in Seq({}) /\ Len(parts) = 0
    BY <2>5
  <2> QED
    BY <2>6
<1> HIDE DEF inside, parts
<1>6. Wanted(parts) = <<>>
  <2>1. parts \in Seq({}) /\ \A i \in 1 .. Len(parts) : FALSE
    BY <1>5
  <2> QED
    BY <2>1, AmongNone DEF Wanted
<1>7. found \in Seq(U) /\ found = Wanted(inside)
  <2>1. parts \in Seq(U)
    BY <1>5
  <2>2. /\ found \in Seq(U)
        /\ \/ found = Wanted(inside)
           \/ found = Wanted(inside) \o Wanted(parts)
           \/ found = Wanted(parts) \o Wanted(inside)
    <3>1. Inside(0, size) \in Seq(U) /\ Parts(0, size) \in Seq(U) /\ found \in Reports(0, size)
      BY <2>1, <1>3 DEF inside, parts
    <3>0. inside = Inside(0, size) /\ parts = Parts(0, size)
      BY DEF inside, parts
    <3> HIDE DEF size
    <3>2. /\ found \in Seq(U)
          /\ MadeOf(found, Wanted(Inside(0, size)), Wanted(Parts(0, size)))
      BY <3>1, ReportsAre
    <3> QED
      BY <3>0, <3>2, Zenon DEF MadeOf
  <2>3. Wanted(inside) \in Seq(U)
    BY <1>3, WantedIn
  <2>4. Wanted(inside) \o <<>> = Wanted(inside) /\ <<>> \o Wanted(inside) = Wanted(inside)
    BY <2>3
  <2> QED
    BY <2>2, <2>4, <1>6
<1> DEFINE S == {s \in ToSet(inside) : Enabled(sys, seen, s.type)}
<1>8. found = Among(inside, S)
  BY <1>7 DEF Wanted
<1>9. \A k \in 1 .. Len(inside) : Enabled(sys, seen, inside[k].type) => inside[k] \in S
  BY <1>3 DEF ToSet
<1>10. \A s \in S : Enabled(sys, seen, s.type) /\ s \in ToSet(marks)
  BY <1>3, <1>4 DEF ToSet
<1> HIDE DEF S
<1>11. /\ \A k \in 1 .. Len(found) : found[k] \in S
       /\ \A i \in 1 .. Len(inside) : inside[i] \in S => \E k \in 1 .. Len(found) : found[k] = inside[i]
  BY <1>3, <1>8, AmongHas
<1>12. \A i \in 1 .. Len(marks) : Enabled(sys, seen, marks[i].type) =>
              \E k \in 1 .. Len(found) : found[k] = marks[i]
  <2>1. ASSUME NEW i \in 1 .. Len(marks), Enabled(sys, seen, marks[i].type)
        PROVE  \E k \in 1 .. Len(found) : found[k] = marks[i]
    <3>1. PICK j \in 1 .. Len(inside) : inside[j] = marks[i]
      BY <1>4
    <3>2. inside[j] \in S
      BY <3>1, <2>1, <1>9
    <3> QED
      BY <3>1, <3>2, <1>11
  <2> QED
    BY <2>1
<1> QED
  BY <1>7, <1>10, <1>11, <1>12

-----------------------------------------------------------------------------
(* What a call holds *)

\* The pieces a case is made of: of a text whose marks all hold something, the
\* spans do.
Pieces(c) ==
  IF \A i \in 1 .. Len(c.marks) : c.marks[i].start < c.marks[i].end
  THEN Proper(c.text) ELSE InText(c.text)

Holding ==
  /\ all \in Seq(Pieces(job))
  /\ stage # "done" => spans \in Seq(Pieces(job)) /\ Laid(spans)
Deciding ==
  stage = "filter" /\ ~Chunked =>
    \E found \in Reports(0, Len(job.text)) : spans = Resolve(found)
Masked ==
  stage = "done" =>
    /\ spans \in Seq(InText(job.text))
    /\ out = Apply(job.text, spans, live.strategy)
    /\ MarksNotEmpty => Laid(spans)
CallInv ==
  /\ job \in Cases /\ live \in job.configs /\ chunk \in Nat \ {0}
  /\ Holding /\ Deciding /\ Masked

LEMMA PiecesAre ==
  ASSUME NEW c \in Cases
  PROVE  /\ c.text \in Seq(Bytes) /\ Len(c.text) \in Nat
         /\ c.marks \in Seq(Pieces(c))
         /\ Pieces(c) \in {InText(c.text), Proper(c.text)}
         /\ Pieces(c) \in SUBSET InText(c.text) /\ Pieces(c) \in SUBSET Span
<1>1. /\ c.text \in Seq(Bytes) /\ c.marks \in Seq(Span)
      /\ \A m \in ToSet(c.marks) : m.start <= m.end /\ m.end <= Len(c.text)
  BY CasesAssumption
<1>2. \A i \in 1 .. Len(c.marks) : c.marks[i] \in InText(c.text)
  BY <1>1 DEF InText, ToSet
<1>3. \A i \in 1 .. Len(c.marks) : c.marks[i] \in Pieces(c)
  BY <1>2 DEF Pieces, Proper
<1>4. c.marks \in Seq(Pieces(c))
  BY <1>1, <1>3
<1> QED
  BY <1>1, <1>4 DEF Pieces, Proper, InText

LEMMA NothingLaid ==
  ASSUME NEW U
  PROVE  <<>> \in Seq(U) /\ Laid(<<>>)
BY DEF Laid, Rising, Apart

LEMMA ResolveLaid ==
  ASSUME NEW U \in SUBSET Span, NEW seq \in Seq(U)
  PROVE  Resolve(seq) \in Seq(U) /\ Laid(Resolve(seq))
BY ResolveSettles DEF Laid, Settled, Apart

\* The next chunk is not empty and ends inside the text.
LEMMA NextChunk ==
  ASSUME job.text \in Seq(Bytes), Len(job.text) \in Nat, Chunked,
         chunk \in Nat \ {0}, chunk < Len(Cuts)
  PROVE  /\ From(chunk) \in Nat /\ Cuts[chunk + 1] \in Nat
         /\ From(chunk) < Cuts[chunk + 1] /\ Cuts[chunk + 1] <= Len(job.text)
<1> DEFINE c == Cuts
<1>1. Len(job.text) > 0
  BY ChunksAssumption DEF Chunked
<1>2. CutsFrom(c, 0, Len(job.text))
  BY <1>1, ChunksAssumption, SplitPointsRise DEF Cuts
<1> HIDE DEF c
<1>3. /\ c \in Seq(0 .. Len(job.text)) /\ c[1] = 0
      /\ \A k \in 1 .. Len(c) - 1 : c[k] < c[k + 1]
  BY <1>2 DEF CutsFrom
<1>4. chunk \in 1 .. Len(c) - 1 /\ chunk \in 1 .. Len(c) /\ chunk + 1 \in 1 .. Len(c)
  <2>1. chunk \in Nat /\ chunk >= 1 /\ chunk < Len(c)
    BY DEF c
  <2>2. Len(c) \in Nat
    BY <1>3
  <2> QED
    BY <2>1, <2>2
<1>5. /\ c[chunk] \in 0 .. Len(job.text) /\ c[chunk + 1] \in 0 .. Len(job.text)
      /\ c[chunk] < c[chunk + 1]
  <2>1. \A k \in 1 .. Len(c) : c[k] \in 0 .. Len(job.text)
    BY <1>3
  <2>2. \A k \in 1 .. Len(c) - 1 : c[k] < c[k + 1]
    BY <1>3
  <2> QED
    BY <1>4, <2>1, <2>2
<1>6. From(chunk) \in 0 .. c[chunk]
  <2>1. CASE chunk = 1
    BY <2>1, <1>3 DEF From
  <2>2. CASE chunk # 1
    <3>1. From(chunk) = ChunkStart(job.text, c[chunk])
      BY <2>2 DEF From, c
    <3>2. c[chunk] \in Nat
      BY <1>5
    <3> QED
      BY <3>1, <3>2, ChunkStartBefore
  <2> QED
    BY <2>1, <2>2
<1> QED
  BY <1>5, <1>6 DEF c

\* What the filter and the label expansion make of spans that are laid out.
LEMMA FilteredIs ==
  ASSUME NEW c \in Cases, NEW k \in c.configs, NEW rules, NEW seq \in Seq(Pieces(c)), Laid(seq),
         NEW wide, NEW kept, kept = Filter(rules, k.custom, seq),
         wide = IF k.labels THEN ExpandLabelSpans(c.text, kept) ELSE kept
  PROVE  wide \in Seq(InText(c.text)) /\ (MarksNotEmpty => Laid(wide))
<1>1. /\ c.text \in Seq(Bytes)
      /\ Pieces(c) \in SUBSET Span /\ Pieces(c) \in SUBSET InText(c.text)
  BY PiecesAre
<1>2. kept \in Seq(Pieces(c)) /\ Laid(kept)
  BY <1>1, FilterLaid
<1>3. kept \in Seq(InText(c.text))
  BY <1>1, <1>2
<1>4. CASE k.labels
  <2>1. wide \in Seq(InText(c.text))
    BY <1>1, <1>3, <1>4, ExpandIs
  <2>2. ASSUME MarksNotEmpty
        PROVE  Laid(wide)
    <3>1. Pieces(c) = Proper(c.text)
      BY <2>2, <1>4 DEF MarksNotEmpty, Pieces
    <3>2. \A i \in 1 .. Len(kept) : Length(kept[i]) > 0
      <4>1. ASSUME NEW i \in 1 .. Len(kept)
            PROVE  Length(kept[i]) > 0
        <5>1. kept[i] \in Proper(c.text)
          BY <3>1, <1>2
        <5>2. kept[i].start \in Nat /\ kept[i].end \in Nat /\ kept[i].start < kept[i].end
          BY <5>1 DEF Proper, InText, Span
        <5> QED
          BY <5>2 DEF Length
      <4> QED
        BY <4>1
    <3> QED
      BY <1>1, <1>2, <1>3, <1>4, <3>2, ExpandLaid
  <2> QED
    BY <2>1, <2>2
<1>5. CASE ~k.labels
  BY <1>2, <1>3, <1>5
<1> QED
  BY <1>4, <1>5

LEMMA CallInit == Init => CallInv
<1> SUFFICES ASSUME Init
             PROVE  CallInv
  OBVIOUS
<1>1. job \in Cases /\ live \in job.configs /\ chunk \in Nat \ {0}
  BY DEF Init
<1>2. stage = "resolve" /\ all = <<>> /\ spans = <<>>
  BY DEF Init
<1>3. Holding
  BY <1>2, NothingLaid DEF Holding
<1> QED
  BY <1>1, <1>2, <1>3 DEF CallInv, Deciding, Masked

LEMMA CallNext == CallInv /\ [Next]_vars => CallInv'
<1> SUFFICES ASSUME CallInv, [Next]_vars
             PROVE  CallInv'
  OBVIOUS
<1> USE DEF CallInv
<1>0. /\ job.text \in Seq(Bytes) /\ Len(job.text) \in Nat
      /\ job.marks \in Seq(Pieces(job))
      /\ Pieces(job) \in {InText(job.text), Proper(job.text)}
      /\ Pieces(job) \in SUBSET InText(job.text) /\ Pieces(job) \in SUBSET Span
  BY PiecesAre
<1>1. CASE Begin
  BY <1>1 DEF Begin, Holding, Deciding, Masked
<1>2. CASE DetectWhole
  <2>1. PICK found \in Reports(0, Len(job.text)) : spans' = Resolve(found)
    BY <1>2 DEF DetectWhole
  <2>2. found \in Seq(Pieces(job))
    BY <1>0, ReportsWhole
  <2>3. spans' \in Seq(Pieces(job)) /\ Laid(spans')
    BY <1>0, <2>1, <2>2, ResolveLaid
  <2>4. /\ UNCHANGED <<job, live, sys, seen, chunk, all, out, reloads>> /\ stage' = "filter"
    BY <1>2 DEF DetectWhole
  <2>5. Holding' /\ Masked'
    BY <2>3, <2>4 DEF Holding, Masked
  <2>6. Reports(0, Len(job.text))' = Reports(0, Len(job.text))
    <3>1. Inside(0, Len(job.text))' = Inside(0, Len(job.text))
      BY <2>4 DEF Inside
    <3>2. Parts(0, Len(job.text))' = Parts(0, Len(job.text))
      BY <2>4 DEF Parts
    <3> QED
      BY <2>4, <3>1, <3>2 DEF Reports
  <2>7. Deciding'
    BY <2>1, <2>4, <2>6 DEF Deciding
  <2> QED
    BY <2>4, <2>5, <2>7
<1>3. CASE DetectChunk
  <2>1. PICK found \in Reports(From(chunk), Cuts[chunk + 1]) : all' = all \o Resolve(found)
    BY <1>3 DEF DetectChunk
  <2>2. /\ From(chunk) \in Nat /\ Cuts[chunk + 1] \in Nat
        /\ From(chunk) < Cuts[chunk + 1] /\ Cuts[chunk + 1] <= Len(job.text)
    BY <1>0, <1>3, NextChunk DEF DetectChunk
  <2>3. found \in Seq(Pieces(job))
    BY <1>0, <2>2, ReportsIn
  <2>4. Resolve(found) \in Seq(Pieces(job))
    BY <1>0, <2>3, ResolveLaid
  <2>5. all' \in Seq(Pieces(job))
    BY <2>1, <2>4, JoinIs DEF Holding
  <2>6. /\ UNCHANGED <<job, stage, live, sys, seen, spans, out, reloads>> /\ stage = "detect"
        /\ chunk' = chunk + 1
    BY <1>3 DEF DetectChunk
  <2>7. Holding'
    BY <2>5, <2>6 DEF Holding
  <2> QED
    BY <2>6, <2>7 DEF Deciding, Masked
<1>4. CASE Merge
  <2>1. /\ UNCHANGED <<job, live, sys, seen, chunk, all, out, reloads>> /\ stage' = "filter"
        /\ spans' = Resolve(all) /\ Chunked
    BY <1>4 DEF Merge
  <2>2. spans' \in Seq(Pieces(job)) /\ Laid(spans')
    BY <1>0, <2>1, ResolveLaid DEF Holding
  <2>3. Chunked'
    BY <2>1 DEF Chunked
  <2> QED
    BY <2>1, <2>2, <2>3 DEF Holding, Deciding, Masked
<1>5. CASE Expire
  BY <1>5 DEF Expire, Holding, Deciding, Masked
<1>6. CASE FilterAndMask
  <2> DEFINE kept == Filter(sys, live.custom, spans)
             wide == IF live.labels THEN ExpandLabelSpans(job.text, kept) ELSE kept
  <2>1. /\ UNCHANGED <<job, live, sys, seen, chunk, all, reloads>> /\ stage' = "done"
        /\ spans' = wide /\ out' = Apply(job.text, wide, live.strategy) /\ stage = "filter"
    BY <1>6 DEF FilterAndMask
  <2>2. spans \in Seq(Pieces(job)) /\ Laid(spans)
    BY <2>1 DEF Holding
  <2>3. wide \in Seq(InText(job.text)) /\ (MarksNotEmpty => Laid(wide))
    BY <2>2, FilteredIs
  <2> HIDE DEF kept, wide
  <2>4. Masked'
    BY <2>1, <2>3 DEF Masked
  <2> QED
    BY <2>1, <2>4 DEF Holding, Deciding
<1>7. CASE Reload
  <2>1. /\ UNCHANGED <<job, stage, sys, seen, chunk, all, spans, out>> /\ live' \in job.configs
        /\ stage # "done"
    BY <1>7 DEF Reload
  <2>2. Reports(0, Len(job.text))' = Reports(0, Len(job.text)) /\ Chunked' = Chunked
    BY <2>1 DEF Reports, Inside, Parts, Chunked
  <2>3. Deciding'
    BY <2>1, <2>2 DEF Deciding
  <2> QED
    BY <2>1, <2>3 DEF Holding, Masked
<1>8. CASE UNCHANGED vars
  <2>1. UNCHANGED <<job, stage, live, sys, seen, chunk, all, spans, out, reloads>>
    BY <1>8 DEF vars
  <2>2. Reports(0, Len(job.text))' = Reports(0, Len(job.text)) /\ Chunked' = Chunked
    BY <2>1 DEF Reports, Inside, Parts, Chunked
  <2>3. Deciding'
    BY <2>1, <2>2 DEF Deciding
  <2> QED
    BY <2>1, <2>3 DEF Holding, Masked
<1> QED
  BY <1>1, <1>2, <1>3, <1>4, <1>5, <1>6, <1>7, <1>8 DEF Next

LEMMA CallInvHolds == Spec => []CallInv
BY CallInit, CallNext, PTL DEF Spec

\* The mask of a text, the replacements and Restore give the text back, whatever
\* was detected, however detections overlapped and labels were taken in.
LEMMA CallRestores == CallInv => RestoreUndoesApply
<1> SUFFICES ASSUME CallInv, stage = "done"
             PROVE  Restore(out.masked, out.reps) = job.text
  BY DEF RestoreUndoesApply
<1>1. job \in Cases /\ live \in job.configs /\ Masked
  BY DEF CallInv
<1>2. job.text \in Seq(Bytes) /\ MasksOf(job.text, live.strategy)
  BY <1>1, CasesAssumption, MasksAssumption
<1>3. spans \in Seq(Span) /\ out = Apply(job.text, spans, live.strategy)
  BY <1>1 DEF Masked, InText
<1>4. Result(job.text, out)
  BY <1>2, <1>3, ApplyMirrors
<1> QED
  BY <1>2, <1>4, RestoreUndoes

LEMMA CallDecides == CallInv => ContestDecided
<1> SUFFICES ASSUME CallInv, stage = "filter", ~Chunked
             PROVE  ContestDecided
  BY DEF ContestDecided
<1> DEFINE held == {s \in ToSet(spans) : Length(s) > 0}
           wanted == {s \in ToSet(job.marks) : Enabled(sys, seen, s.type) /\ Length(s) > 0}
<1>1. job \in Cases /\ Deciding
  BY DEF CallInv
<1>2. /\ job.text \in Seq(Bytes) /\ job.marks \in Seq(Pieces(job))
      /\ Pieces(job) \in SUBSET InText(job.text) /\ Pieces(job) \in SUBSET Span
  BY <1>1, PiecesAre
<1>3. PICK found \in Reports(0, Len(job.text)) : spans = Resolve(found)
  BY <1>1 DEF Deciding
<1>4. /\ found \in Seq(Pieces(job))
      /\ \A i \in 1 .. Len(job.marks) : Enabled(sys, seen, job.marks[i].type) =>
           \E k \in 1 .. Len(found) : found[k] = job.marks[i]
  BY <1>2, ReportsWhole
<1>5. spans \in Seq(Pieces(job)) /\ Settled(found, spans, Len(found))
  BY <1>2, <1>3, <1>4, ResolveSettles
<1>6. \A s \in ToSet(spans) : \E m \in 1 .. Len(spans) : s = spans[m]
  BY <1>5 DEF ToSet
<1>7. \A m \in 1 .. Len(spans) : spans[m] \in ToSet(spans) /\ Length(spans[m]) \in Int
  BY <1>2, <1>5, SpanNumbers DEF ToSet
<1>8. ASSUME NEW s \in held, NEW t \in held
      PROVE  s = t \/ ~Overlaps(s, t)
  <2>1. PICK m \in 1 .. Len(spans) : s = spans[m]
    BY <1>6
  <2>2. PICK l \in 1 .. Len(spans) : t = spans[l]
    BY <1>6
  <2> QED
    BY <2>1, <2>2, <1>5 DEF Settled
<1>9. ASSUME NEW s \in wanted \ held
      PROVE  \E k \in held : Overlaps(s, k) /\ Length(k) >= Length(s)
  <2>1. PICK i \in 1 .. Len(job.marks) : s = job.marks[i]
    BY <1>2 DEF ToSet
  <2>2. PICK j \in 1 .. Len(found) : found[j] = s
    BY <2>1, <1>4
  <2>3. PICK m \in 1 .. Len(spans) :
          \/ spans[m] = s
          \/ Overlaps(s, spans[m]) /\ Length(spans[m]) >= Length(s)
    BY <2>2, <1>5 DEF Settled
  <2>4. spans[m] # s
    BY <1>7
  <2>5. Length(s) \in Int /\ Length(s) > 0
    BY <2>1, <1>2, SpanNumbers
  <2>6. Length(spans[m]) > 0
    BY <2>3, <2>4, <2>5, <1>7
  <2> QED
    BY <2>3, <2>4, <2>6, <1>7
<1> QED
  BY <1>8, <1>9 DEF ContestDecided

-----------------------------------------------------------------------------
(* Every span is replaced *)

\* What Apply has recorded after i spans, and that it has not gone past the rest.
Recorded(seq, i, acc) ==
  /\ \A k \in 1 .. Len(acc.reps) : \E j \in 1 .. i :
       /\ Length(seq[j]) > 0
       /\ acc.reps[k].start = seq[j].start /\ acc.reps[k].end = seq[j].end
  /\ \A j \in 1 .. i : Length(seq[j]) > 0 => \E k \in 1 .. Len(acc.reps) :
       acc.reps[k].start = seq[j].start /\ acc.reps[k].end = seq[j].end
  /\ \A j \in i + 1 .. Len(seq) : Length(seq[j]) > 0 => acc.cursor <= seq[j].start

LEMMA RecordedMore ==
  ASSUME NEW text \in Seq(Bytes), NEW pick, MasksOf(text, pick),
         NEW acc \in Applying(text), NEW seq \in Seq(InText(text)), Laid(seq),
         NEW i \in 1 .. Len(seq), Recorded(seq, i - 1, acc)
  PROVE  Recorded(seq, i, Replace(text, pick, acc, seq[i]))
<1> DEFINE s == seq[i]
           new == Replace(text, pick, acc, s)
<1>1. /\ s \in Span /\ s.start \in Nat /\ s.end \in Nat /\ s.start <= s.end /\ s.end <= Len(text)
      /\ Len(seq) \in Nat /\ Len(text) \in Nat
  BY DEF InText, Span
<1>2. /\ \A k \in 1 .. Len(acc.reps) : \E j \in 1 .. i - 1 :
           /\ Length(seq[j]) > 0
           /\ acc.reps[k].start = seq[j].start /\ acc.reps[k].end = seq[j].end
      /\ \A j \in 1 .. i - 1 : Length(seq[j]) > 0 => \E k \in 1 .. Len(acc.reps) :
           acc.reps[k].start = seq[j].start /\ acc.reps[k].end = seq[j].end
      /\ \A j \in i .. Len(seq) : Length(seq[j]) > 0 => acc.cursor <= seq[j].start
  BY DEF Recorded
<1>3. /\ \A j \in 1 .. i - 1 : j \in 1 .. i
      /\ \A j \in 1 .. i : j = i \/ j \in 1 .. i - 1
      /\ \A j \in i + 1 .. Len(seq) : j \in i .. Len(seq) /\ j \in 1 .. Len(seq) /\ i < j
      /\ i \in i .. Len(seq) /\ i \in 1 .. i
  BY <1>1
<1>4. acc.cursor \in Nat /\ acc.reps \in Seq(Replacement)
  BY <1>1 DEF Applying
<1>5. CASE Droppable(text, acc.cursor, s)
  <2>1. new = acc
    BY <1>5, ReplaceDrops
  <2>2. ~(Length(s) > 0)
    <3>1. SUFFICES ASSUME Length(s) > 0
                   PROVE  FALSE
      OBVIOUS
    <3>2. acc.cursor <= s.start
      BY <1>2, <1>3, <3>1
    <3>3. PICK a, b : a = s.start /\ b = s.end
      OBVIOUS
    <3>4. a < b
      BY <1>1, <3>1, <3>3 DEF Length
    <3> QED
      BY <1>1, <1>4, <1>5, <3>2, <3>3, <3>4 DEF Droppable
  <2> HIDE DEF new
  <2>3. Recorded(seq, i, acc)
    BY <1>2, <1>3, <2>2 DEF Recorded
  <2> QED
    BY <2>1, <2>3 DEF new
<1>6. CASE ~Droppable(text, acc.cursor, s)
  <2>1. /\ s.start < s.end
        /\ \E m \in Seq(Glyphs) \ {<<>>}, front \in Seq(Glyphs) : Added(text, acc, s, m, front, new)
    BY <1>1, <1>6, ReplaceAdds
  <2>2. PICK m, front : Added(text, acc, s, m, front, new)
    BY <2>1
  <2> HIDE DEF new
  <2>3. \E r : /\ new.reps = Append(acc.reps, r) /\ r.start = s.start /\ r.end = s.end
               /\ new.cursor = s.end
    <3> DEFINE r == [type |-> s.type, start |-> s.start, end |-> s.end,
                     maskStart |-> Len(front), maskEnd |-> Len(front) + Len(m),
                     original |-> Slice(text, s.start, s.end), masked |-> m]
    <3>1. r.start = s.start /\ r.end = s.end
      OBVIOUS
    <3>2. new = [out |-> front \o m, cursor |-> s.end, reps |-> Append(acc.reps, r)]
      BY <2>2 DEF Added
    <3> HIDE DEF r
    <3> QED
      BY <3>1, <3>2
  <2>4. PICK r : /\ new.reps = Append(acc.reps, r) /\ r.start = s.start /\ r.end = s.end
                 /\ new.cursor = s.end
    BY <2>3
  <2>5. /\ Len(new.reps) = Len(acc.reps) + 1 /\ new.reps[Len(new.reps)] = r
        /\ \A k \in 1 .. Len(acc.reps) : new.reps[k] = acc.reps[k]
        /\ Len(acc.reps) \in Nat
    BY <1>4, <2>4
  <2>6. Length(s) > 0
    BY <1>1, <2>1 DEF Length
  <2>7. ASSUME NEW k \in 1 .. Len(new.reps)
        PROVE  \E j \in 1 .. i :
                 /\ Length(seq[j]) > 0
                 /\ new.reps[k].start = seq[j].start /\ new.reps[k].end = seq[j].end
    <3>1. CASE k \in 1 .. Len(acc.reps)
      <4>1. PICK j \in 1 .. i - 1 :
              /\ Length(seq[j]) > 0
              /\ acc.reps[k].start = seq[j].start /\ acc.reps[k].end = seq[j].end
        BY <3>1, <1>2
      <4>2. j \in 1 .. i /\ new.reps[k] = acc.reps[k]
        BY <3>1, <1>3, <2>5
      <4> QED
        BY <4>1, <4>2
    <3>2. CASE k = Len(new.reps)
      <4>1. new.reps[k] = r
        BY <3>2, <2>5
      <4> QED
        BY <4>1, <1>3, <2>4, <2>6
    <3>3. k \in 1 .. Len(acc.reps) \/ k = Len(new.reps)
      <4> DEFINE x == Len(new.reps)
                 y == Len(acc.reps)
      <4>1. x = y + 1 /\ y \in Nat /\ k \in 1 .. x
        BY <2>5, <2>7
      <4> HIDE DEF x, y
      <4>2. k \in 1 .. y \/ k = x
        BY <4>1
      <4> QED
        BY <4>2 DEF x, y
    <3> QED
      BY <3>1, <3>2, <3>3
  <2>8. ASSUME NEW j \in 1 .. i, Length(seq[j]) > 0
        PROVE  \E k \in 1 .. Len(new.reps) :
                 new.reps[k].start = seq[j].start /\ new.reps[k].end = seq[j].end
    <3>1. CASE j = i
      <4>1. Len(new.reps) \in 1 .. Len(new.reps)
        BY <2>5
      <4> QED
        BY <3>1, <4>1, <2>4, <2>5
    <3>2. CASE j \in 1 .. i - 1
      <4>1. PICK k \in 1 .. Len(acc.reps) :
              acc.reps[k].start = seq[j].start /\ acc.reps[k].end = seq[j].end
        BY <3>2, <1>2, <2>8
      <4>2. k \in 1 .. Len(new.reps)
        BY <2>5
      <4> QED
        BY <4>1, <4>2, <2>5
    <3> QED
      BY <1>3, <3>1, <3>2
  <2>9. ASSUME NEW j \in i + 1 .. Len(seq), Length(seq[j]) > 0
        PROVE  new.cursor <= seq[j].start
    <3>1. InText(text) \in SUBSET Span
      BY DEF InText
    <3>2. j \in 1 .. Len(seq) /\ i < j /\ Length(seq[i]) > 0
      BY <1>3, <2>6
    <3>3. seq[i].end <= seq[j].start
      BY <2>9, <3>1, <3>2, LaidEnds
    <3> QED
      BY <2>4, <3>3
  <2> QED
    BY <2>7, <2>8, <2>9 DEF Recorded, new
<1> QED
  BY <1>5, <1>6

\* Sorting by start keeps spans apart.
LEMMA ByStartLaid ==
  ASSUME NEW U \in SUBSET Span, NEW seq \in Seq(U), Laid(seq)
  PROVE  /\ ByStart(seq) \in Seq(U) /\ Laid(ByStart(seq))
         /\ \A i \in 1 .. Len(seq) : \E k \in 1 .. Len(ByStart(seq)) : ByStart(seq)[k] = seq[i]
         /\ \A k \in 1 .. Len(ByStart(seq)) : \E i \in 1 .. Len(seq) : ByStart(seq)[k] = seq[i]
<1> DEFINE q == ByStart(seq)
<1>1. /\ q \in Seq(U) /\ Len(q) = Len(seq) /\ \E p : Rearranges(p, seq, q)
      /\ \A i, j \in 1 .. Len(seq) : i < j => q[i].start <= q[j].start
  BY ByStartIs
<1> HIDE DEF q
<1>2. PICK p : Rearranges(p, seq, q)
  BY <1>1
<1>3. /\ p \in [1 .. Len(seq) -> 1 .. Len(seq)] /\ \A k \in 1 .. Len(seq) : q[k] = seq[p[k]]
      /\ \A j \in 1 .. Len(seq) : \E k \in 1 .. Len(seq) : p[k] = j
      /\ \A i, j \in 1 .. Len(seq) : i # j => p[i] # p[j]
  BY <1>2 DEF Rearranges, Permutes
<1>4. Rising(q)
  BY <1>1 DEF Rising
<1>5. Apart(q)
  <2>1. ASSUME NEW m \in 1 .. Len(seq), NEW l \in 1 .. Len(seq), m # l,
               Length(q[m]) > 0, Length(q[l]) > 0
        PROVE  ~Overlaps(q[m], q[l])
    <3>1. /\ p[m] \in 1 .. Len(seq) /\ q[m] = seq[p[m]]
          /\ p[l] \in 1 .. Len(seq) /\ q[l] = seq[p[l]] /\ p[m] # p[l]
      BY <1>3, <2>1
    <3> QED
      BY <2>1, <3>1 DEF Laid, Apart
  <2> QED
    BY <1>1, <2>1 DEF Apart
<1>6. /\ \A i \in 1 .. Len(seq) : \E k \in 1 .. Len(q) : q[k] = seq[i]
      /\ \A k \in 1 .. Len(q) : \E i \in 1 .. Len(seq) : q[k] = seq[i]
  <2>1. ASSUME NEW i \in 1 .. Len(seq)
        PROVE  \E k \in 1 .. Len(q) : q[k] = seq[i]
    <3>1. PICK k \in 1 .. Len(seq) : p[k] = i
      BY <1>3
    <3>2. q[k] = seq[i] /\ k \in 1 .. Len(q)
      BY <1>1, <1>3, <3>1
    <3> QED
      BY <3>2
  <2>2. ASSUME NEW k \in 1 .. Len(q)
        PROVE  \E i \in 1 .. Len(seq) : q[k] = seq[i]
    <3>1. p[k] \in 1 .. Len(seq) /\ q[k] = seq[p[k]]
      BY <1>1, <1>3
    <3> QED
      BY <3>1
  <2> QED
    BY <2>1, <2>2
<1> QED
  BY <1>1, <1>4, <1>5, <1>6 DEF Laid, q

LEMMA ApplyRecords ==
  ASSUME NEW text \in Seq(Bytes), NEW pick, MasksOf(text, pick),
         NEW seq \in Seq(InText(text)), Laid(seq)
  PROVE  LET reps == Apply(text, seq, pick).reps
         IN  /\ reps \in Seq(Replacement)
             /\ \A k \in 1 .. Len(reps) : \E j \in 1 .. Len(seq) :
                  /\ Length(seq[j]) > 0
                  /\ reps[k].start = seq[j].start /\ reps[k].end = seq[j].end
             /\ \A j \in 1 .. Len(seq) : Length(seq[j]) > 0 => \E k \in 1 .. Len(reps) :
                  reps[k].start = seq[j].start /\ reps[k].end = seq[j].end
<1> DEFINE q == ByStart(seq)
           n == Len(q)
           done == AllReplaced(text, pick, q)
<1>1. InText(text) \in SUBSET Span
  BY DEF InText
<1>2. /\ q \in Seq(InText(text)) /\ Laid(q)
      /\ \A i \in 1 .. Len(seq) : \E k \in 1 .. Len(q) : q[k] = seq[i]
      /\ \A k \in 1 .. Len(q) : \E i \in 1 .. Len(seq) : q[k] = seq[i]
  BY <1>1, ByStartLaid
<1>3. Apply(text, seq, pick).reps = done.reps
  BY DEF Apply, AllReplaced, Untouched
<1> HIDE DEF q, done
<1>4. q \in Seq(Span) /\ n \in Nat
  BY <1>1, <1>2
<1>5. PICK a \in [0 .. n -> Applying(text)] : ApplyRun(text, pick, q, a)
  BY <1>4, ApplySteps
<1>6. /\ a[0] = Untouched /\ a[n] = done
      /\ \A i \in 1 .. n : a[i] = Replace(text, pick, a[i - 1], q[i])
  BY <1>5 DEF ApplyRun, done
<1>7. Recorded(q, n, a[n])
  <2> DEFINE T == {i \in 0 .. n : Recorded(q, i, a[i])}
  <2>1. Recorded(q, 0, Untouched)
    <3>1. \A j \in 1 .. n : 0 <= q[j].start
      <4>1. ASSUME NEW j \in 1 .. n
            PROVE  0 <= q[j].start
        <5>1. q[j] \in Span
          BY <1>4
        <5>2. q[j].start \in Nat
          BY <5>1 DEF Span
        <5> QED
          BY <5>2
      <4> QED
        BY <4>1
    <3>2. Len(Untouched.reps) = 0 /\ Untouched.cursor = 0
      BY DEF Untouched
    <3>3. \A j \in 0 + 1 .. Len(q) : j \in 1 .. n
      OBVIOUS
    <3> QED
      BY <3>1, <3>2, <3>3 DEF Recorded
  <2>2. 0 \in T
    BY <1>4, <1>6, <2>1
  <2>3. ASSUME NEW i \in 0 .. n - 1, i \in T PROVE i + 1 \in T
    <3>1. i + 1 \in 1 .. n /\ (i + 1) - 1 = i /\ i \in 0 .. n /\ i + 1 \in 0 .. n
      BY <1>4
    <3>2. a[i + 1] = Replace(text, pick, a[i], q[i + 1])
      BY <1>6, <3>1
    <3>3. a[i] \in Applying(text) /\ Recorded(q, i, a[i])
      BY <2>3, <3>1
    <3>4. Recorded(q, i + 1, a[i + 1])
      <4>1. Recorded(q, (i + 1) - 1, a[i]) /\ i + 1 \in 1 .. Len(q)
        BY <3>1, <3>3
      <4>2. Recorded(q, i + 1, Replace(text, pick, a[i], q[i + 1]))
        BY <1>2, <3>3, <4>1, RecordedMore, Zenon
      <4> QED
        BY <3>2, <4>2
    <3> QED
      BY <3>1, <3>4
  <2> HIDE DEF T
  <2>4. \A i \in 0 .. n : i \in T
    BY <1>4, <2>2, <2>3, UpTo, Zenon
  <2>5. n \in T
    BY <1>4, <2>4
  <2> QED
    BY <2>5 DEF T
<1>8. done \in Applying(text) /\ Recorded(q, n, done)
  BY <1>4, <1>6, <1>7
<1> DEFINE reps == done.reps
<1>9. /\ reps \in Seq(Replacement)
      /\ \A k \in 1 .. Len(reps) : \E j \in 1 .. n :
           /\ Length(q[j]) > 0
           /\ reps[k].start = q[j].start /\ reps[k].end = q[j].end
      /\ \A j \in 1 .. n : Length(q[j]) > 0 => \E k \in 1 .. Len(reps) :
           reps[k].start = q[j].start /\ reps[k].end = q[j].end
  BY <1>8 DEF Recorded, Applying
<1> HIDE DEF reps
<1>10. ASSUME NEW k \in 1 .. Len(reps)
       PROVE  \E j \in 1 .. Len(seq) :
                  /\ Length(seq[j]) > 0
                  /\ reps[k].start = seq[j].start /\ reps[k].end = seq[j].end
  <2>1. PICK j \in 1 .. n : /\ Length(q[j]) > 0
                            /\ reps[k].start = q[j].start /\ reps[k].end = q[j].end
    BY <1>9
  <2>2. PICK i \in 1 .. Len(seq) : q[j] = seq[i]
    BY <1>2
  <2> QED
    BY <2>1, <2>2
<1>11. ASSUME NEW j \in 1 .. Len(seq), Length(seq[j]) > 0
       PROVE  \E k \in 1 .. Len(reps) :
                  reps[k].start = seq[j].start /\ reps[k].end = seq[j].end
  <2>1. PICK i \in 1 .. n : q[i] = seq[j]
    BY <1>2
  <2>2. Length(q[i]) > 0
    BY <2>1, <1>11
  <2>3. PICK k \in 1 .. Len(reps) : reps[k].start = q[i].start /\ reps[k].end = q[i].end
    BY <2>2, <1>9
  <2> QED
    BY <2>1, <2>3
<1> QED
  BY <1>3, <1>9, <1>10, <1>11 DEF reps

LEMMA CallMasks == CallInv /\ MarksNotEmpty => EverySpanMasked
<1> SUFFICES ASSUME CallInv, MarksNotEmpty, stage = "done"
             PROVE  {<<s.start, s.end>> : s \in {t \in ToSet(spans) : Length(t) > 0}}
                      = {<<r.start, r.end>> : r \in ToSet(out.reps)}
  BY DEF EverySpanMasked
<1>1. job \in Cases /\ live \in job.configs /\ Masked
  BY DEF CallInv
<1>2. job.text \in Seq(Bytes) /\ MasksOf(job.text, live.strategy)
  BY <1>1, CasesAssumption, MasksAssumption
<1>3. /\ spans \in Seq(InText(job.text)) /\ Laid(spans)
      /\ out.reps = Apply(job.text, spans, live.strategy).reps
  BY <1>1 DEF Masked
<1> DEFINE reps == out.reps
<1>4. /\ reps \in Seq(Replacement)
      /\ \A k \in 1 .. Len(reps) : \E j \in 1 .. Len(spans) :
                  /\ Length(spans[j]) > 0
                  /\ reps[k].start = spans[j].start /\ reps[k].end = spans[j].end
      /\ \A j \in 1 .. Len(spans) : Length(spans[j]) > 0 => \E k \in 1 .. Len(reps) :
                  reps[k].start = spans[j].start /\ reps[k].end = spans[j].end
  BY <1>2, <1>3, ApplyRecords
<1> HIDE DEF reps
<1>5. /\ \A r \in ToSet(reps) : \E k \in 1 .. Len(reps) : r = reps[k]
      /\ \A k \in 1 .. Len(reps) : reps[k] \in ToSet(reps)
  <2>1. DOMAIN reps = 1 .. Len(reps)
    BY <1>4
  <2> QED
    BY <2>1 DEF ToSet
<1>6. /\ \A s \in ToSet(spans) : \E j \in 1 .. Len(spans) : s = spans[j]
      /\ \A j \in 1 .. Len(spans) : spans[j] \in ToSet(spans)
  BY <1>3 DEF ToSet
<1>7. ASSUME NEW s \in ToSet(spans), Length(s) > 0
      PROVE  \E r \in ToSet(reps) : <<s.start, s.end>> = <<r.start, r.end>>
  <2>1. PICK j \in 1 .. Len(spans) : s = spans[j]
    BY <1>6
  <2>2. PICK k \in 1 .. Len(reps) : reps[k].start = s.start /\ reps[k].end = s.end
    BY <1>4, <1>7, <2>1
  <2> QED
    BY <2>2, <1>5
<1>8. ASSUME NEW r \in ToSet(reps)
      PROVE  \E s \in {t \in ToSet(spans) : Length(t) > 0} : <<r.start, r.end>> = <<s.start, s.end>>
  <2>1. PICK k \in 1 .. Len(reps) : r = reps[k]
    BY <1>5
  <2>2. PICK j \in 1 .. Len(spans) :
          /\ Length(spans[j]) > 0
          /\ r.start = spans[j].start /\ r.end = spans[j].end
    BY <1>4, <2>1
  <2> QED
    BY <2>2, <1>6
<1> QED
  BY <1>7, <1>8 DEF reps

\* The mask of a text and the replacements that Apply records give the text back
\* by Restore: whatever was detected, however detections overlapped, whatever
\* labels were taken in and whichever configurations went by on the way.
THEOREM RestoreExact == Spec => []RestoreUndoesApply
BY CallInvHolds, CallRestores, PTL

\* Of a text detected in one piece Resolve leaves spans that are apart, and gives
\* a detection up only for one at least as long that overlaps it and remains.
THEOREM ContestsDecided == Spec => []ContestDecided
BY CallInvHolds, CallDecides, PTL

\* What the filter lets through is masked, all of it and nothing else, also when
\* spans have taken in the labels in front of them.
THEOREM SpansMasked ==
  ASSUME MarksNotEmpty
  PROVE  Spec => []EverySpanMasked
<1>1. CallInv => EverySpanMasked
  BY CallMasks
<1> QED
  BY <1>1, CallInvHolds, PTL

-----------------------------------------------------------------------------
(* Entities come out of the chunks in one piece *)

Has(seq, s) == \E k \in 1 .. Len(seq) : seq[k] = s

LEMMA HasJoin ==
  ASSUME NEW U, NEW x \in Seq(U), NEW y \in Seq(U), NEW s
  PROVE  Has(x \o y, s) <=> Has(x, s) \/ Has(y, s)
<1>1. Len(x \o y) = Len(x) + Len(y) /\ Len(x) \in Nat /\ Len(y) \in Nat
  BY JoinIs
<1>2. ASSUME Has(x, s)
      PROVE  Has(x \o y, s)
  <2>1. PICK k \in 1 .. Len(x) : x[k] = s
    BY <1>2 DEF Has
  <2>2. (x \o y)[k] = s
    BY <2>1, JoinFront
  <2>3. k \in 1 .. Len(x \o y)
    BY <1>1
  <2> QED
    BY <2>2, <2>3 DEF Has
<1>3. ASSUME Has(y, s)
      PROVE  Has(x \o y, s)
  <2>1. PICK k \in 1 .. Len(y) : y[k] = s
    BY <1>3 DEF Has
  <2>2. (x \o y)[Len(x) + k] = s
    BY <2>1, JoinBack
  <2>3. Len(x) + k \in 1 .. Len(x \o y)
    BY <1>1
  <2> QED
    BY <2>2, <2>3 DEF Has
<1>4. ASSUME Has(x \o y, s)
      PROVE  Has(x, s) \/ Has(y, s)
  <2>1. PICK k \in 1 .. Len(x \o y) : (x \o y)[k] = s
    BY <1>4 DEF Has
  <2>2. CASE k \in 1 .. Len(x)
    <3>1. (x \o y)[k] = x[k]
      BY <2>2, JoinFront
    <3> QED
      BY <2>1, <2>2, <3>1 DEF Has
  <2>3. CASE k \notin 1 .. Len(x)
    <3>1. PICK i \in 1 .. Len(y) : k = Len(x) + i
      <4>1. k - Len(x) \in 1 .. Len(y) /\ k = Len(x) + (k - Len(x))
        BY <1>1, <2>3
      <4> QED
        BY <4>1
    <3>2. (x \o y)[Len(x) + i] = y[i]
      BY JoinBack
    <3>3. y[i] = s
      BY <2>1, <3>1, <3>2
    <3> QED
      BY <3>3 DEF Has
  <2> QED
    BY <2>2, <2>3
<1> QED
  BY <1>2, <1>3, <1>4

LEMMA HasAmong ==
  ASSUME NEW U, NEW seq \in Seq(U), NEW S, NEW s
  PROVE  Has(Among(seq, S), s) <=> Has(seq, s) /\ s \in S
<1> DEFINE some == Among(seq, S)
<1>1. PICK p : /\ Selects(p, Len(some), seq, S)
               /\ \A k \in 1 .. Len(some) : some[k] = seq[p[k]]
  BY AmongSelects
<1>2. /\ \A k \in 1 .. Len(some) : some[k] \in S
      /\ \A i \in 1 .. Len(seq) : seq[i] \in S => \E k \in 1 .. Len(some) : some[k] = seq[i]
  BY AmongHas
<1> HIDE DEF some
<1>3. \A k \in 1 .. Len(some) : p[k] \in 1 .. Len(seq) /\ some[k] = seq[p[k]]
  BY <1>1 DEF Selects
<1>4. ASSUME Has(some, s)
      PROVE  Has(seq, s) /\ s \in S
  <2>1. PICK k \in 1 .. Len(some) : some[k] = s
    BY <1>4 DEF Has
  <2>2. p[k] \in 1 .. Len(seq) /\ seq[p[k]] = s
    BY <1>3, <2>1
  <2> QED
    BY <1>2, <2>1, <2>2 DEF Has
<1>5. ASSUME Has(seq, s), s \in S
      PROVE  Has(some, s)
  <2>1. PICK i \in 1 .. Len(seq) : seq[i] = s
    BY <1>5 DEF Has
  <2>2. PICK k \in 1 .. Len(some) : some[k] = seq[i]
    BY <1>2, <1>5, <2>1
  <2> QED
    BY <2>1, <2>2 DEF Has
<1> QED
  BY <1>4, <1>5 DEF some

LEMMA HasToSet ==
  ASSUME NEW U, NEW seq \in Seq(U), NEW s
  PROVE  s \in ToSet(seq) <=> Has(seq, s)
<1>1. DOMAIN seq = 1 .. Len(seq)
  OBVIOUS
<1> QED
  BY <1>1 DEF ToSet, Has

\* s is m, or a part of it.
Piece(s, m) ==
  /\ s \in Span /\ s.type = m.type /\ s.conf = m.conf
  /\ m.start <= s.start /\ s.start < s.end /\ s.end <= m.end

LEMMA PieceNumbers ==
  ASSUME NEW m \in Span, NEW s, Piece(s, m)
  PROVE  /\ s.start \in Nat /\ s.end \in Nat /\ m.start \in Nat /\ m.end \in Nat
         /\ m.start <= s.start /\ s.start < s.end /\ s.end <= m.end
         /\ Length(s) > 0 /\ Length(s) \in Int /\ Length(m) \in Int
         /\ Overlaps(s, m) /\ Overlaps(m, s)
<1>1. PICK a, b, c, d : a = s.start /\ b = s.end /\ c = m.start /\ d = m.end
  OBVIOUS
<1>2. a \in Nat /\ b \in Nat /\ c \in Nat /\ d \in Nat
  BY <1>1, SpanNumbers DEF Piece
<1>3. c <= a /\ a < b /\ b <= d
  BY <1>1 DEF Piece
<1>4. b - a > 0 /\ b - a \in Int /\ d - c \in Int /\ a < d /\ c < b
  BY <1>2, <1>3
<1> QED
  BY <1>1, <1>2, <1>3, <1>4 DEF Length, Overlaps

\* A part of an entity meets no other entity.
LEMMA PieceOfOne ==
  ASSUME NEW marks \in SUBSET Span, Scattered(marks), NEW m \in marks, NEW n \in marks,
         NEW s, Piece(s, n), Overlaps(m, s)
  PROVE  m = n
<1>1. PICK a, b, c, d : a = m.start /\ b = m.end /\ c = n.start /\ d = n.end
  OBVIOUS
<1>2. PICK x, y : x = s.start /\ y = s.end
  OBVIOUS
<1>3. /\ a \in Nat /\ b \in Nat /\ c \in Nat /\ d \in Nat /\ x \in Nat /\ y \in Nat
      /\ c <= x /\ y <= d
  BY <1>1, <1>2, PieceNumbers, SpanNumbers
<1>4. a < y /\ x < b
  BY <1>1, <1>2 DEF Overlaps
<1>5. a < d /\ c < b
  BY <1>3, <1>4
<1>6. Overlaps(m, n)
  BY <1>1, <1>5 DEF Overlaps
<1> QED
  BY <1>6 DEF Scattered

\* The part that is as long as the entity is the entity.
LEMMA PieceAll ==
  ASSUME NEW m \in Span, NEW s, Piece(s, m), Length(s) >= Length(m)
  PROVE  s = m
<1>1. PICK a, b, c, d : a = s.start /\ b = s.end /\ c = m.start /\ d = m.end
  OBVIOUS
<1>2. a \in Nat /\ b \in Nat /\ c \in Nat /\ d \in Nat /\ c <= a /\ b <= d
  BY <1>1, PieceNumbers
<1>3. b - a >= d - c
  BY <1>1 DEF Length
<1>4. a = c /\ b = d
  BY <1>2, <1>3
<1>5. /\ s \in [start : Nat, end : Nat, type : Types, conf : Int]
      /\ m \in [start : Nat, end : Nat, type : Types, conf : Int]
      /\ s.type = m.type /\ s.conf = m.conf
  BY DEF Piece, Span
<1>6. s.start = m.start /\ s.end = m.end
  BY <1>1, <1>4
<1> QED
  BY <1>5, <1>6

\* Resolve keeps an entity that it is given whole, and gives up the parts of it
\* that come with it.
LEMMA WholeSurvives ==
  ASSUME NEW marks \in SUBSET Span, Scattered(marks), NEW found \in Seq(Span),
         \A k \in 1 .. Len(found) : \E m \in marks : Piece(found[k], m)
  PROVE  /\ \A k \in 1 .. Len(Resolve(found)) : \E m \in marks : Piece(Resolve(found)[k], m)
         /\ \A m \in marks : Has(found, m) => Has(Resolve(found), m)
         /\ (\A m \in marks : Has(found, m)) => ToSet(Resolve(found)) = marks
<1> DEFINE kept == Resolve(found)
<1>1. kept \in Seq(Span) /\ Settled(found, kept, Len(found))
  BY ResolveSettles
<1> HIDE DEF kept
<1>2. \A k \in 1 .. Len(kept) : \E m \in marks : Piece(kept[k], m)
  <2>1. ASSUME NEW k \in 1 .. Len(kept)
        PROVE  \E m \in marks : Piece(kept[k], m)
    <3>1. PICK j \in 1 .. Len(found) : kept[k] = found[j]
      BY <1>1 DEF Settled
    <3> QED
      BY <3>1
  <2> QED
    BY <2>1
<1>3. ASSUME NEW m \in marks, Has(found, m)
      PROVE  Has(kept, m)
  <2>1. PICK i \in 1 .. Len(found) : found[i] = m
    BY <1>3 DEF Has
  <2>2. Length(m) > 0
    <3>1. PICK n \in marks : Piece(m, n)
      BY <2>1
    <3> QED
      BY <3>1, PieceNumbers
  <2>3. PICK k \in 1 .. Len(kept) :
          \/ kept[k] = m
          \/ Overlaps(m, kept[k]) /\ Length(kept[k]) >= Length(m)
    BY <1>1, <2>1, <2>2 DEF Settled
  <2>4. PICK n \in marks : Piece(kept[k], n)
    BY <1>2
  <2>5. CASE kept[k] = m
    BY <2>5 DEF Has
  <2>6. CASE Overlaps(m, kept[k]) /\ Length(kept[k]) >= Length(m)
    <3>1. m = n
      BY <2>4, <2>6, PieceOfOne
    <3>2. kept[k] = m
      BY <2>4, <2>6, <3>1, PieceAll
    <3> QED
      BY <3>2 DEF Has
  <2> QED
    BY <2>3, <2>5, <2>6
<1>4. ASSUME \A m \in marks : Has(found, m)
      PROVE  ToSet(kept) = marks
  <2>1. \A m \in marks : m \in ToSet(kept)
    BY <1>1, <1>3, <1>4, HasToSet
  <2>2. ASSUME NEW s \in ToSet(kept)
        PROVE  s \in marks
    <3>1. PICK k \in 1 .. Len(kept) : kept[k] = s
      BY <1>1, <2>2, HasToSet DEF Has
    <3>2. PICK m \in marks : Piece(s, m)
      BY <1>2, <3>1
    <3>3. PICK l \in 1 .. Len(kept) : kept[l] = m
      BY <1>3, <1>4 DEF Has
    <3>4. Overlaps(s, m) /\ Length(s) > 0 /\ Length(m) > 0
      <4>1. PICK a, b : a = m.start /\ b = m.end
        OBVIOUS
      <4>2. a \in Nat /\ b \in Nat /\ a < b
        BY <4>1, SpanNumbers DEF Scattered
      <4>3. b - a > 0
        BY <4>2
      <4>4. Length(m) > 0
        BY <4>1, <4>3 DEF Length
      <4> QED
        BY <3>2, <4>4, PieceNumbers
    <3>5. k = l
      BY <1>1, <3>1, <3>3, <3>4 DEF Settled
    <3> QED
      BY <3>1, <3>3, <3>5
  <2> QED
    BY <2>1, <2>2
<1> QED
  BY <1>2, <1>3, <1>4 DEF kept

EnabledMarks == {m \in ToSet(job.marks) : Enabled(sys, seen, m.type)}

LEMMA HasWanted ==
  ASSUME NEW U, NEW found \in Seq(U), NEW s
  PROVE  Has(Wanted(found), s) <=> Has(found, s) /\ Enabled(sys, seen, s.type)
<1> DEFINE S == {t \in ToSet(found) : Enabled(sys, seen, t.type)}
<1>1. Has(Among(found, S), s) <=> Has(found, s) /\ s \in S
  <2> HIDE DEF S
  <2> QED
    BY HasAmong
<1>2. s \in S <=> Has(found, s) /\ Enabled(sys, seen, s.type)
  BY HasToSet
<1> QED
  BY <1>1, <1>2 DEF Wanted

LEMMA HasInside ==
  ASSUME NEW U, job.marks \in Seq(U), NEW from, NEW to, NEW s
  PROVE  Has(Inside(from, to), s) <=> s \in ToSet(job.marks) /\ from <= s.start /\ s.end <= to
<1> DEFINE S == {t \in ToSet(job.marks) : from <= t.start /\ t.end <= to}
<1>1. Has(Among(job.marks, S), s) <=> Has(job.marks, s) /\ s \in S
  <2> HIDE DEF S
  <2> QED
    BY HasAmong
<1>2. s \in S <=> s \in ToSet(job.marks) /\ from <= s.start /\ s.end <= to
  OBVIOUS
<1>3. s \in ToSet(job.marks) <=> Has(job.marks, s)
  BY HasToSet
<1> QED
  BY <1>1, <1>2, <1>3 DEF Inside

LEMMA ClippedPiece ==
  ASSUME NEW text \in Seq(Bytes), NEW m \in InText(text), NEW from \in Nat, NEW to \in Nat,
         from < to, to <= Len(text),
         (m.start < from /\ m.end > from) \/ (m.start < to /\ m.end > to)
  PROVE  Piece(Clipped(m, from, to), m)
<1> DEFINE s == Clipped(m, from, to)
<1>1. s \in Span /\ s.start < s.end
  <2>1. s \in Proper(text)
    BY ClippedIn
  <2> HIDE DEF s
  <2> QED
    BY <2>1 DEF Proper, InText
<1>2. m \in [start : Nat, end : Nat, type : Types, conf : Int]
  BY DEF InText, Span
<1>3. /\ s.type = m.type /\ s.conf = m.conf
      /\ s.start = Max({m.start, from}) /\ s.end = Min({m.end, to})
  BY <1>2 DEF Clipped
<1>4. m.start <= Max({m.start, from}) /\ Min({m.end, to}) <= m.end
  <2>1. m.start \in Nat /\ m.end \in Nat
    BY <1>2
  <2> QED
    BY <2>1, PairOf
<1> HIDE DEF s
<1>5. Piece(s, m)
  BY <1>1, <1>3, <1>4 DEF Piece
<1> QED
  BY <1>5 DEF s

LEMMA PartsPieces ==
  ASSUME job.text \in Seq(Bytes), job.marks \in Seq(InText(job.text)),
         NEW from \in Nat, NEW to \in Nat, from < to, to <= Len(job.text),
         NEW s, Has(Parts(from, to), s)
  PROVE  \E m \in ToSet(job.marks) : Piece(s, m)
<1> DEFINE S == {t \in ToSet(job.marks) :
               (t.start < from /\ t.end > from) \/ (t.start < to /\ t.end > to)}
           cut == Among(job.marks, S)
<1>1. Parts(from, to) = [i \in DOMAIN cut |-> Clipped(cut[i], from, to)]
  BY DEF Parts, Clipped
<1>2. cut \in Seq(InText(job.text)) /\ \A k \in 1 .. Len(cut) : cut[k] \in S
  <2> HIDE DEF S
  <2> QED
    BY AmongSelects, AmongHas
<1>3. \A t \in S : /\ t \in ToSet(job.marks)
                   /\ (t.start < from /\ t.end > from) \/ (t.start < to /\ t.end > to)
  OBVIOUS
<1> HIDE DEF cut, S
<1>4. Len(Parts(from, to)) = Len(cut) /\ DOMAIN cut = 1 .. Len(cut)
  BY <1>1, <1>2
<1>5. PICK k \in 1 .. Len(cut) : Parts(from, to)[k] = s
  BY <1>4 DEF Has
<1>6. s = Clipped(cut[k], from, to)
  BY <1>1, <1>4, <1>5
<1>7. cut[k] \in InText(job.text) /\ cut[k] \in S
  BY <1>2
<1>8. Piece(s, cut[k])
  BY <1>3, <1>6, <1>7, ClippedPiece
<1> QED
  BY <1>3, <1>7, <1>8

\* What a chunk reports: the entities in it, and nothing but parts of entities.
LEMMA ReportsPieces ==
  ASSUME job.text \in Seq(Bytes), job.marks \in Seq(InText(job.text)),
         \A m \in ToSet(job.marks) : m.start < m.end,
         NEW from \in Nat, NEW to \in Nat, from < to, to <= Len(job.text),
         NEW found \in Reports(from, to)
  PROVE  /\ found \in Seq(InText(job.text))
         /\ \A k \in 1 .. Len(found) : \E m \in EnabledMarks : Piece(found[k], m)
         /\ \A m \in EnabledMarks : from <= m.start /\ m.end <= to => Has(found, m)
<1> DEFINE U == InText(job.text)
           inside == Inside(from, to)
           parts == Parts(from, to)
<1>1. inside \in Seq(U)
  BY AmongSelects DEF Inside
<1>2. parts \in Seq(U)
  BY PartsIn
<1>3. /\ found \in Seq(U)
      /\ \/ found = Wanted(inside)
         \/ found = Wanted(inside) \o Wanted(parts)
         \/ found = Wanted(parts) \o Wanted(inside)
  <2> HIDE DEF U
  <2>1. Inside(from, to) \in Seq(U)
    BY <1>1
  <2>2. Parts(from, to) \in Seq(U)
    BY <1>2
  <2>3. found \in Reports(from, to)
    OBVIOUS
  <2> HIDE DEF inside, parts
  <2>4. found \in Seq(U) /\ MadeOf(found, Wanted(Inside(from, to)), Wanted(Parts(from, to)))
    BY <2>1, <2>2, <2>3, ReportsAre
  <2> QED
    BY <2>4 DEF inside, parts, MadeOf
<1>4. \A s : Has(inside, s) <=> s \in ToSet(job.marks) /\ from <= s.start /\ s.end <= to
  BY HasInside
<1>5. \A s : Has(parts, s) => \E m \in ToSet(job.marks) : Piece(s, m)
  BY PartsPieces
<1>6. \A m \in ToSet(job.marks) : Piece(m, m)
  <2>1. ASSUME NEW m \in ToSet(job.marks)
        PROVE  Piece(m, m)
    <3>1. m \in Span /\ m.start \in Nat /\ m.end \in Nat /\ m.start < m.end
      <4>1. \A i \in 1 .. Len(job.marks) : job.marks[i] \in U
        OBVIOUS
      <4>2. m \in U
        BY <4>1, HasToSet DEF Has
      <4> QED
        BY <4>2 DEF InText, Span
    <3> QED
      BY <3>1 DEF Piece
  <2> QED
    BY <2>1
<1> HIDE DEF inside, parts
<1>7. \A s : Has(Wanted(inside), s) <=> Has(inside, s) /\ Enabled(sys, seen, s.type)
  BY <1>1, HasWanted
<1>8. \A s : Has(Wanted(parts), s) <=> Has(parts, s) /\ Enabled(sys, seen, s.type)
  BY <1>2, HasWanted
<1>9. Wanted(inside) \in Seq(U) /\ Wanted(parts) \in Seq(U)
  BY <1>1, <1>2, WantedIn
<1>10. \A s : /\ Has(found, s) => Has(Wanted(inside), s) \/ Has(Wanted(parts), s)
              /\ Has(Wanted(inside), s) => Has(found, s)
  <2> HIDE DEF U
  <2>1. ASSUME NEW s
        PROVE  /\ Has(Wanted(inside) \o Wanted(parts), s) <=>
                    Has(Wanted(inside), s) \/ Has(Wanted(parts), s)
               /\ Has(Wanted(parts) \o Wanted(inside), s) <=>
                    Has(Wanted(parts), s) \/ Has(Wanted(inside), s)
    BY <1>9, HasJoin
  <2> QED
    BY <1>3, <2>1
<1>11. ASSUME NEW k \in 1 .. Len(found)
       PROVE  \E m \in EnabledMarks : Piece(found[k], m)
  <2> DEFINE s == found[k]
  <2>1. Has(found, s)
    BY DEF Has
  <2> HIDE DEF s
  <2>2. CASE Has(Wanted(inside), s)
    <3>1. s \in EnabledMarks /\ Piece(s, s)
      BY <1>4, <1>6, <1>7, <2>2 DEF EnabledMarks
    <3> QED
      BY <3>1 DEF s
  <2>3. CASE Has(Wanted(parts), s)
    <3>1. PICK m \in ToSet(job.marks) : Piece(s, m)
      BY <1>5, <1>8, <2>3
    <3>2. m \in EnabledMarks
      BY <1>8, <2>3, <3>1 DEF EnabledMarks, Piece
    <3> QED
      BY <3>1, <3>2 DEF s
  <2> QED
    BY <1>10, <2>1, <2>2, <2>3
<1>12. ASSUME NEW m \in EnabledMarks, from <= m.start, m.end <= to
       PROVE  Has(found, m)
  <2>1. Has(Wanted(inside), m)
    BY <1>4, <1>7, <1>12 DEF EnabledMarks
  <2> QED
    BY <1>10, <2>1
<1> QED
  BY <1>3, <1>11, <1>12

-----------------------------------------------------------------------------
(* What the chunks so far have found *)

Gathered ==
  /\ stage = "resolve" => chunk = 1 /\ all = <<>>
  /\ stage = "detect" /\ Chunked =>
       /\ chunk \in 1 .. Len(Cuts)
       /\ \A k \in 1 .. Len(all) : \E m \in EnabledMarks : Piece(all[k], m)
       /\ \A m \in EnabledMarks : m.end <= Cuts[chunk] => Has(all, m)
  /\ EntitiesWhole

LEMMA CutsAre ==
  ASSUME job.text \in Seq(Bytes), Len(job.text) \in Nat, Chunked
  PROVE  /\ Cuts \in Seq(0 .. Len(job.text)) /\ Len(Cuts) \in Nat /\ Len(Cuts) >= 2 /\ Cuts[1] = 0
         /\ Cuts[Len(Cuts)] = Len(job.text)
<1>1. Len(job.text) > 0
  BY ChunksAssumption DEF Chunked
<1>2. CutsFrom(Cuts, 0, Len(job.text))
  BY <1>1, ChunksAssumption, SplitPointsRise DEF Cuts
<1> QED
  BY <1>2 DEF CutsFrom

\* An entity that ends in the next chunk and not in one before lies in it, for
\* the chunk begins at least an overlap in front of its cut.
LEMMA WithinNext ==
  ASSUME job.text \in Seq(Bytes), Len(job.text) \in Nat, Chunked,
         chunk \in Nat \ {0}, chunk < Len(Cuts), NEW m \in Span, m.end - m.start <= ChunkOverlap,
         ~(m.end <= Cuts[chunk])
  PROVE  From(chunk) <= m.start
<1>1. m.start \in Nat /\ m.end \in Nat /\ ChunkOverlap \in Nat
  BY SpanNumbers, LimitsAssumption
<1>2. CASE chunk = 1
  BY <1>1, <1>2 DEF From
<1>3. CASE chunk # 1
  <2> DEFINE c == Cuts
  <2>1. c \in Seq(0 .. Len(job.text)) /\ Len(c) \in Nat
    BY CutsAre
  <2>2. chunk \in 1 .. Len(c)
    BY <2>1
  <2>3. c[chunk] \in Nat
    <3> HIDE DEF c
    <3> QED
      BY <2>1, <2>2
  <2>4. From(chunk) = ChunkStart(job.text, c[chunk])
    BY <1>3 DEF From
  <2>5. ~(m.end <= c[chunk])
    OBVIOUS
  <2> HIDE DEF c
  <2>6. /\ From(chunk) \in 0 .. c[chunk]
        /\ From(chunk) = 0 \/ From(chunk) <= c[chunk] - ChunkOverlap
    BY <2>3, <2>4, ChunkStartBefore
  <2>7. PICK a, b, x, f : a = m.start /\ b = m.end /\ x = c[chunk] /\ f = From(chunk)
    OBVIOUS
  <2>8. /\ a \in Nat /\ b \in Nat /\ x \in Nat /\ f \in Nat /\ b > x /\ b - a <= ChunkOverlap
        /\ f = 0 \/ f <= x - ChunkOverlap
    BY <1>1, <2>3, <2>5, <2>6, <2>7
  <2>9. f <= a
    BY <1>1, <2>8
  <2> QED
    BY <2>7, <2>9
<1> QED
  BY <1>2, <1>3

LEMMA EntitiesAre ==
  ASSUME CallInv, EntitiesShort, Chunked
  PROVE  /\ job.text \in Seq(Bytes) /\ Len(job.text) \in Nat
         /\ job.marks \in Seq(InText(job.text))
         /\ \A m \in ToSet(job.marks) : m.start < m.end /\ m.end - m.start <= ChunkOverlap
         /\ \A m \in ToSet(job.marks) : m \in Span /\ m.end <= Len(job.text)
         /\ Scattered(EnabledMarks) /\ EnabledMarks \in SUBSET Span
<1>1. job \in Cases
  BY DEF CallInv
<1>2. /\ job.text \in Seq(Bytes) /\ Len(job.text) \in Nat /\ job.marks \in Seq(Pieces(job))
      /\ Pieces(job) \in SUBSET InText(job.text)
  BY <1>1, PiecesAre
<1>3. job.marks \in Seq(InText(job.text))
  BY <1>2
<1>4. Scattered(ToSet(job.marks))
  BY <1>1 DEF EntitiesShort, Chunked
<1>5. \A m \in ToSet(job.marks) : m \in InText(job.text)
  <2>1. \A i \in 1 .. Len(job.marks) : job.marks[i] \in InText(job.text)
    BY <1>3
  <2> QED
    BY <1>3, <2>1, HasToSet DEF Has
<1>6. \A m \in ToSet(job.marks) : m \in Span /\ m.end <= Len(job.text)
  BY <1>5 DEF InText
<1>7. EnabledMarks \subseteq ToSet(job.marks)
  BY DEF EnabledMarks
<1>8. Scattered(EnabledMarks)
  BY <1>4, <1>7 DEF Scattered
<1> QED
  BY <1>2, <1>3, <1>4, <1>6, <1>7, <1>8 DEF Scattered

LEMMA GatheredInit == Init => Gathered
BY DEF Init, Gathered, EntitiesWhole

\* The first chunk begins with nothing.
LEMMA NothingGathered ==
  ASSUME CallInv, EntitiesShort, Chunked, chunk = 1, all = <<>>
  PROVE  /\ chunk \in 1 .. Len(Cuts)
         /\ \A k \in 1 .. Len(all) : \E m \in EnabledMarks : Piece(all[k], m)
         /\ \A m \in ToSet(job.marks) : ~(m.end <= Cuts[chunk])
<1>1. Cuts[1] = 0 /\ Len(Cuts) \in Nat /\ Len(Cuts) >= 2
  BY EntitiesAre, CutsAre
<1>2. Len(all) = 0
  OBVIOUS
<1>3. ASSUME NEW m \in ToSet(job.marks)
      PROVE  ~(m.end <= 0)
  <2>1. PICK a, b : a = m.start /\ b = m.end
    OBVIOUS
  <2>2. a \in Nat /\ b \in Nat /\ a < b
    BY <2>1, EntitiesAre, SpanNumbers
  <2> QED
    BY <2>1, <2>2
<1> QED
  BY <1>1, <1>2, <1>3

LEMMA ChunkGathers ==
  ASSUME CallInv, EntitiesShort, Chunked, Gathered, stage = "detect", chunk < Len(Cuts),
         NEW found \in Reports(From(chunk), Cuts[chunk + 1]), NEW more, more = all \o Resolve(found)
  PROVE  /\ chunk + 1 \in 1 .. Len(Cuts)
         /\ \A k \in 1 .. Len(more) : \E m \in EnabledMarks : Piece(more[k], m)
         /\ \A m \in EnabledMarks : m.end <= Cuts[chunk + 1] => Has(more, m)
<1>1. /\ job.text \in Seq(Bytes) /\ Len(job.text) \in Nat
      /\ job.marks \in Seq(InText(job.text))
      /\ \A m \in ToSet(job.marks) : m.start < m.end /\ m.end - m.start <= ChunkOverlap
      /\ Scattered(EnabledMarks) /\ EnabledMarks \in SUBSET Span
  BY EntitiesAre
<1>2. chunk \in Nat \ {0} /\ Len(Cuts) \in Nat
  BY <1>1, CutsAre DEF CallInv
<1>3. /\ From(chunk) \in Nat /\ Cuts[chunk + 1] \in Nat
      /\ From(chunk) < Cuts[chunk + 1] /\ Cuts[chunk + 1] <= Len(job.text)
  BY <1>1, <1>2, NextChunk
<1>4. /\ found \in Seq(InText(job.text))
      /\ \A k \in 1 .. Len(found) : \E m \in EnabledMarks : Piece(found[k], m)
      /\ \A m \in EnabledMarks : From(chunk) <= m.start /\ m.end <= Cuts[chunk + 1] => Has(found, m)
  BY <1>1, <1>3, ReportsPieces
<1>5. found \in Seq(Span)
  BY <1>4 DEF InText
<1> DEFINE kept == Resolve(found)
<1>6. /\ \A k \in 1 .. Len(kept) : \E m \in EnabledMarks : Piece(kept[k], m)
      /\ \A m \in EnabledMarks : Has(found, m) => Has(kept, m)
  <2> DEFINE marks == EnabledMarks
  <2>1. marks \in SUBSET Span
    BY <1>1
  <2>2. Scattered(marks)
    BY <1>1
  <2>3. \A k \in 1 .. Len(found) : \E m \in marks : Piece(found[k], m)
    BY <1>4
  <2> HIDE DEF marks
  <2>4. /\ \A k \in 1 .. Len(Resolve(found)) : \E m \in marks : Piece(Resolve(found)[k], m)
        /\ \A m \in marks : Has(found, m) => Has(Resolve(found), m)
    BY <2>1, <2>2, <2>3, <1>5, WholeSurvives
  <2> QED
    BY <2>4 DEF marks
<1>7. kept \in Seq(Span)
  BY <1>5, ResolveSettles
<1> HIDE DEF kept
<1>8. all \in Seq(Span)
  <2>1. Pieces(job) \in SUBSET Span
    BY PiecesAre DEF CallInv
  <2> QED
    BY <2>1 DEF CallInv, Holding
<1>9. \A s : Has(more, s) <=> Has(all, s) \/ Has(kept, s)
  <2>1. \A s : Has(all \o kept, s) <=> Has(all, s) \/ Has(kept, s)
    BY <1>7, <1>8, HasJoin
  <2> QED
    BY <2>1 DEF kept
<1>10. /\ \A k \in 1 .. Len(all) : \E m \in EnabledMarks : Piece(all[k], m)
       /\ \A m \in EnabledMarks : m.end <= Cuts[chunk] => Has(all, m)
  BY DEF Gathered
<1>11. ASSUME NEW k \in 1 .. Len(more)
       PROVE  \E m \in EnabledMarks : Piece(more[k], m)
  <2>1. PICK s : s = more[k]
    OBVIOUS
  <2>2. Has(all, s) \/ Has(kept, s)
    BY <1>9, <2>1 DEF Has
  <2>3. CASE Has(all, s)
    BY <1>10, <2>1, <2>3 DEF Has
  <2>4. CASE Has(kept, s)
    BY <1>6, <2>1, <2>4 DEF Has
  <2> QED
    BY <2>2, <2>3, <2>4
<1>12. ASSUME NEW m \in EnabledMarks, m.end <= Cuts[chunk + 1]
       PROVE  Has(more, m)
  <2>1. CASE m.end <= Cuts[chunk]
    BY <1>9, <1>10, <2>1
  <2>2. CASE ~(m.end <= Cuts[chunk])
    <3>1. m \in Span /\ m.end - m.start <= ChunkOverlap
      BY <1>1 DEF EnabledMarks
    <3>2. From(chunk) <= m.start
      BY <1>1, <1>2, <2>2, <3>1, WithinNext
    <3>3. Has(found, m)
      BY <1>4, <1>12, <3>2
    <3> QED
      BY <1>6, <1>9, <3>3
  <2> QED
    BY <2>1, <2>2
<1>13. chunk + 1 \in 1 .. Len(Cuts)
  BY <1>2
<1> QED
  BY <1>11, <1>12, <1>13

LEMMA MergeGathers ==
  ASSUME CallInv, EntitiesShort, Chunked, Gathered, stage = "detect", chunk = Len(Cuts)
  PROVE  ToSet(Resolve(all)) = EnabledMarks
<1>1. /\ Scattered(EnabledMarks) /\ EnabledMarks \in SUBSET Span
      /\ \A m \in EnabledMarks : m.end <= Len(job.text)
  BY EntitiesAre DEF EnabledMarks
<1>2. Cuts[chunk] = Len(job.text)
  BY EntitiesAre, CutsAre
<1>3. all \in Seq(Span)
  <2>1. Pieces(job) \in SUBSET Span
    BY PiecesAre DEF CallInv
  <2> QED
    BY <2>1 DEF CallInv, Holding
<1>4. /\ \A k \in 1 .. Len(all) : \E m \in EnabledMarks : Piece(all[k], m)
      /\ \A m \in EnabledMarks : Has(all, m)
  BY <1>1, <1>2 DEF Gathered
<1> QED
  BY <1>1, <1>3, <1>4, WholeSurvives

LEMMA GatheredNext == EntitiesShort /\ CallInv /\ Gathered /\ [Next]_vars => Gathered'
<1> SUFFICES ASSUME EntitiesShort, CallInv, Gathered, [Next]_vars
             PROVE  Gathered'
  OBVIOUS
<1>1. CASE Begin
  <2>1. /\ UNCHANGED <<job, live, sys, chunk, all, spans, out, reloads>> /\ stage = "resolve"
        /\ stage' = "detect"
    BY <1>1 DEF Begin
  <2>2. chunk = 1 /\ all = <<>>
    BY <2>1 DEF Gathered
  <2>3. Chunked' = Chunked /\ Cuts' = Cuts
    BY <2>1 DEF Chunked, Cuts
  <2>4. EntitiesWhole'
    BY <2>1 DEF EntitiesWhole
  <2>5. ASSUME Chunked
        PROVE  /\ chunk \in 1 .. Len(Cuts)
               /\ \A m \in ToSet(job.marks) : ~(m.end <= Cuts[chunk])
    BY <2>2, <2>5, NothingGathered
  <2>6. \A m \in EnabledMarks' : m \in ToSet(job.marks)
    BY <2>1 DEF EnabledMarks
  <2>7. ASSUME Chunked
        PROVE  /\ chunk' \in 1 .. Len(Cuts')
               /\ \A k \in 1 .. Len(all') : \E m \in EnabledMarks' : Piece(all'[k], m)
               /\ \A m \in EnabledMarks' : m.end <= Cuts'[chunk'] => Has(all', m)
    <3>1. Len(all') = 0
      BY <2>1, <2>2
    <3> QED
      BY <2>1, <2>3, <2>5, <2>6, <2>7, <3>1
  <2> QED
    BY <2>1, <2>3, <2>4, <2>7 DEF Gathered
<1>2. CASE DetectWhole
  <2>1. ~Chunked' /\ stage' = "filter"
    BY <1>2 DEF DetectWhole, Chunked
  <2> QED
    BY <2>1 DEF Gathered, EntitiesWhole
<1>3. CASE DetectChunk
  <2>1. PICK found \in Reports(From(chunk), Cuts[chunk + 1]) : all' = all \o Resolve(found)
    BY <1>3 DEF DetectChunk
  <2>2. /\ UNCHANGED <<job, stage, live, sys, seen, spans, out, reloads>> /\ stage = "detect"
        /\ chunk' = chunk + 1 /\ Chunked /\ chunk < Len(Cuts)
    BY <1>3 DEF DetectChunk
  <2>3. /\ chunk' \in 1 .. Len(Cuts)
        /\ \A k \in 1 .. Len(all') : \E m \in EnabledMarks : Piece(all'[k], m)
        /\ \A m \in EnabledMarks : m.end <= Cuts[chunk'] => Has(all', m)
    BY <2>1, <2>2, ChunkGathers
  <2>4. Cuts' = Cuts /\ EnabledMarks' = EnabledMarks
    BY <2>2 DEF Cuts, EnabledMarks
  <2>5. EntitiesWhole'
    BY <2>2 DEF EntitiesWhole
  <2> QED
    BY <2>2, <2>3, <2>4, <2>5 DEF Gathered
<1>4. CASE Merge
  <2>1. /\ UNCHANGED <<job, live, sys, seen, chunk, all, out, reloads>> /\ stage' = "filter"
        /\ spans' = Resolve(all) /\ Chunked /\ stage = "detect" /\ chunk = Len(Cuts)
    BY <1>4 DEF Merge
  <2>2. ToSet(spans') = EnabledMarks
    BY <2>1, MergeGathers
  <2>3. EntitiesWhole'
    BY <2>1, <2>2 DEF EntitiesWhole, EnabledMarks
  <2> QED
    BY <2>1, <2>3 DEF Gathered
<1>5. CASE Expire
  BY <1>5 DEF Expire, Gathered, EntitiesWhole
<1>6. CASE FilterAndMask
  BY <1>6 DEF FilterAndMask, Gathered, EntitiesWhole
<1>7. CASE Reload \/ UNCHANGED vars
  <2>1. UNCHANGED <<job, stage, sys, seen, chunk, all, spans, out>>
    BY <1>7 DEF Reload, vars
  <2>2. Cuts' = Cuts /\ EnabledMarks' = EnabledMarks /\ Chunked' = Chunked
    BY <2>1 DEF Cuts, EnabledMarks, Chunked
  <2>3. EntitiesWhole'
    BY <2>1, <2>2 DEF EntitiesWhole, Gathered, Chunked
  <2> QED
    BY <2>1, <2>2, <2>3 DEF Gathered
<1> QED
  BY <1>1, <1>2, <1>3, <1>4, <1>5, <1>6, <1>7 DEF Next

\* An entity no longer than the overlap comes out of the chunks in one piece, and
\* nothing else does: wherever the text is cut, whatever the contexts report of
\* the parts of entities across a cut, and twice where chunks overlap.
THEOREM EntitiesComeWhole ==
  ASSUME EntitiesShort
  PROVE  Spec => []EntitiesWhole
<1>1. CallInv /\ Gathered /\ [Next]_vars => Gathered'
  BY GatheredNext
<1>2. Gathered => EntitiesWhole
  BY DEF Gathered
<1> QED
  BY <1>1, <1>2, GatheredInit, CallInvHolds, PTL DEF Spec

-----------------------------------------------------------------------------
(* The two ways to decide contests agree *)

\* The same spans, empty ones apart.
Same(x, y) == \A s \in Span : Length(s) > 0 => (Has(x, s) <=> Has(y, s))

LEMMA HasAppend ==
  ASSUME NEW U, NEW seq \in Seq(U), NEW s \in U, NEW t
  PROVE  Has(Append(seq, s), t) <=> Has(seq, t) \/ t = s
<1> DEFINE n == Len(seq)
           more == Append(seq, s)
<1>1. /\ n \in Nat /\ Len(more) = n + 1 /\ more[n + 1] = s
      /\ \A i \in 1 .. n : more[i] = seq[i]
  BY AppendIs
<1> HIDE DEF more
<1>2. ASSUME Has(more, t) PROVE Has(seq, t) \/ t = s
  <2>1. PICK k \in 1 .. n + 1 : more[k] = t
    BY <1>1, <1>2 DEF Has
  <2>2. k \in 1 .. n \/ k = n + 1
    BY <1>1
  <2> QED
    BY <1>1, <2>1, <2>2 DEF Has
<1>3. ASSUME Has(seq, t) PROVE Has(more, t)
  <2>1. PICK k \in 1 .. n : seq[k] = t
    BY <1>3 DEF Has
  <2>2. k \in 1 .. n + 1
    BY <1>1
  <2> QED
    BY <1>1, <2>1, <2>2 DEF Has
<1>4. ASSUME t = s PROVE Has(more, t)
  <2>1. n + 1 \in 1 .. n + 1
    BY <1>1
  <2> QED
    BY <1>1, <1>4, <2>1 DEF Has
<1> QED
  BY <1>2, <1>3, <1>4 DEF more

\* Before a span that is not empty comes no empty one.
LEMMA KeptNotEmpty ==
  ASSUME NEW U \in SUBSET Span, NEW seq \in Seq(U), LongestFirst(seq), NEW kept \in Seq(U),
         NEW i \in 1 .. Len(seq), Settled(seq, kept, i - 1), Length(seq[i]) > 0,
         NEW m \in 1 .. Len(kept)
  PROVE  Length(kept[m]) > 0
<1>1. PICK j \in 1 .. i - 1 : kept[m] = seq[j]
  BY DEF Settled
<1>2. j \in 1 .. Len(seq) /\ j < i
  OBVIOUS
<1>3. Length(seq[j]) >= Length(seq[i])
  BY <1>2 DEF LongestFirst
<1>4. Length(seq[j]) \in Int /\ Length(seq[i]) \in Int
  <2>1. seq[j] \in Span /\ seq[i] \in Span
    BY <1>2
  <2> QED
    BY <2>1, SpanNumbers
<1> QED
  BY <1>1, <1>3, <1>4

\* A span meets a kept one in either list or in none.
LEMMA MeetsInBoth ==
  ASSUME NEW x \in Seq(Span), NEW y \in Seq(Span), NEW s, Same(x, y),
         \A m \in 1 .. Len(x) : Length(x[m]) > 0
  PROVE  (\E m \in 1 .. Len(x) : Overlaps(s, x[m])) => \E m \in 1 .. Len(y) : Overlaps(s, y[m])
<1>1. ASSUME NEW m \in 1 .. Len(x), Overlaps(s, x[m])
      PROVE  \E l \in 1 .. Len(y) : Overlaps(s, y[l])
  <2> DEFINE t == x[m]
  <2>1. t \in Span /\ Length(t) > 0 /\ Has(x, t) /\ Overlaps(s, t)
    BY <1>1 DEF Has
  <2> HIDE DEF t
  <2>2. Has(y, t)
    BY <2>1 DEF Same
  <2> QED
    BY <2>1, <2>2 DEF Has
<1> QED
  BY <1>1

LEMMA SameMore ==
  ASSUME NEW x \in Seq(Span), NEW y \in Seq(Span), NEW s \in Span, Same(x, y)
  PROVE  /\ Same(Append(x, s), Append(y, s))
         /\ ~(Length(s) > 0) => Same(Append(x, s), y) /\ Same(x, Append(y, s))
<1>1. ASSUME NEW t \in Span
      PROVE  /\ Has(Append(x, s), t) <=> Has(x, t) \/ t = s
             /\ Has(Append(y, s), t) <=> Has(y, t) \/ t = s
  BY HasAppend
<1>2. \A t \in Span : Length(t) > 0 => (Has(x, t) <=> Has(y, t))
  BY DEF Same
<1>3. Same(Append(x, s), Append(y, s))
  BY <1>1, <1>2 DEF Same
<1>4. ASSUME ~(Length(s) > 0)
      PROVE  Same(Append(x, s), y) /\ Same(x, Append(y, s))
  BY <1>1, <1>2, <1>4 DEF Same
<1> QED
  BY <1>3, <1>4

LEMMA SameBack ==
  ASSUME NEW x, NEW y, Same(x, y)
  PROVE  Same(y, x)
BY DEF Same

\* One more claim, decided both ways.
LEMMA BothDecide ==
  ASSUME NEW U \in SUBSET Span, NEW seq \in Seq(U), LongestFirst(seq), NEW i \in 1 .. Len(seq),
         NEW x \in Seq(U), NEW acc \in Claiming(U), Same(x, acc.kept),
         Settled(seq, x, i - 1), Settled(seq, acc.kept, i - 1), TakenBy(acc)
  PROVE  Same(KeepApart(x, seq[i]), KeepFree(acc, seq[i]).kept)
<1> DEFINE s == seq[i]
           y == acc.kept
<1>1. s \in U /\ s \in Span /\ y \in Seq(U) /\ x \in Seq(Span) /\ y \in Seq(Span)
  BY DEF Claiming
<1>2. DOMAIN x = 1 .. Len(x)
  OBVIOUS
<1>3. KeepApart(x, s) = IF \E m \in 1 .. Len(x) : Overlaps(s, x[m]) THEN x ELSE Append(x, s)
  BY <1>2 DEF KeepApart
<1>4. KeepFree(acc, s).kept = IF acc.taken \cap (s.start .. s.end - 1) # {} THEN y ELSE Append(y, s)
  BY DEF KeepFree
<1>5. Same(x, y)
  OBVIOUS
<1>6. CASE ~(Length(s) > 0)
  <2> HIDE DEF s, y
  <2>1. /\ Same(Append(x, s), Append(y, s))
        /\ Same(Append(x, s), y) /\ Same(x, Append(y, s))
    BY <1>1, <1>5, <1>6, SameMore
  <2>2. Same(KeepApart(x, s), KeepFree(acc, s).kept)
    BY <1>3, <1>4, <1>5, <2>1
  <2> QED
    BY <2>2 DEF s
<1>7. CASE Length(s) > 0
  <2>1. \A m \in 1 .. Len(x) : Length(x[m]) > 0
    BY <1>7, KeptNotEmpty
  <2>2. \A m \in 1 .. Len(y) : Length(y[m]) > 0
    BY <1>1, <1>7, KeptNotEmpty
  <2>3. /\ acc.taken \cap (s.start .. s.end - 1) # {} => \E m \in 1 .. Len(y) : Overlaps(s, y[m])
        /\ acc.taken \cap (s.start .. s.end - 1) = {} =>
             \A m \in 1 .. Len(y) : Length(y[m]) > 0 => ~Overlaps(s, y[m])
    BY <1>1, <1>7, FreeIsApart
  <2> HIDE DEF s, y
  <2>4. (\E m \in 1 .. Len(x) : Overlaps(s, x[m])) => \E m \in 1 .. Len(y) : Overlaps(s, y[m])
    BY <1>1, <1>5, <2>1, MeetsInBoth
  <2>5. (\E m \in 1 .. Len(y) : Overlaps(s, y[m])) => \E m \in 1 .. Len(x) : Overlaps(s, x[m])
    <3>1. Same(y, x)
      BY <1>5, SameBack
    <3> QED
      BY <1>1, <2>2, <3>1, MeetsInBoth
  <2>6. Same(Append(x, s), Append(y, s))
    BY <1>1, <1>5, SameMore
  <2>7. Same(KeepApart(x, s), KeepFree(acc, s).kept)
    BY <1>3, <1>4, <1>5, <2>2, <2>3, <2>4, <2>5, <2>6
  <2> QED
    BY <2>7 DEF s
<1> QED
  BY <1>6, <1>7

LEMMA BothKeepTheSame ==
  ASSUME NEW U \in SUBSET Span, NEW seq \in Seq(U), LongestFirst(seq)
  PROVE  Same(Pairwise(seq), Occupancy(seq))
<1> DEFINE n == Len(seq)
<1>0. n \in Nat
  OBVIOUS
<1>1. PICK a \in [0 .. n -> Seq(U)] : PairwiseRun(seq, a)
  BY PairwiseSteps
<1>2. PICK b \in [0 .. n -> Claiming(U)] : OccupancyRun(seq, b)
  BY OccupancySteps
<1>3. /\ a[0] = <<>> /\ a[n] = Pairwise(seq)
      /\ \A i \in 1 .. n : a[i] = KeepApart(a[i - 1], seq[i])
  BY <1>1 DEF PairwiseRun
<1>4. /\ b[0] = Unclaimed /\ b[n] = AllClaimed(seq)
      /\ \A i \in 1 .. n : b[i] = KeepFree(b[i - 1], seq[i])
  BY <1>2 DEF OccupancyRun
<1>5. \A i \in 0 .. n : Settled(seq, a[i], i)
  BY <1>1, PairwiseRunSettles
<1>6. \A i \in 0 .. n : Settled(seq, b[i].kept, i) /\ TakenBy(b[i])
  BY <1>2, OccupancyRunSettles
<1> DEFINE T == {i \in 0 .. n : Same(a[i], b[i].kept)}
<1>7. 0 \in T
  <2>1. Same(<<>>, Unclaimed.kept)
    BY DEF Same, Unclaimed
  <2> QED
    BY <1>0, <1>3, <1>4, <2>1
<1>8. ASSUME NEW i \in 0 .. n - 1, i \in T PROVE i + 1 \in T
  <2> DEFINE k == i + 1
             x == a[i]
             acc == b[i]
  <2>1. k \in 1 .. n /\ k - 1 = i /\ i \in 0 .. n /\ k \in 0 .. n
    BY <1>0
  <2>2. x \in Seq(U) /\ acc \in Claiming(U) /\ Same(x, acc.kept)
    BY <1>8, <2>1
  <2>3. Settled(seq, x, k - 1) /\ Settled(seq, acc.kept, k - 1) /\ TakenBy(acc)
    BY <1>5, <1>6, <2>1
  <2>4. a[k] = KeepApart(x, seq[k]) /\ b[k] = KeepFree(acc, seq[k])
    BY <1>3, <1>4, <2>1
  <2> HIDE DEF k, x, acc
  <2>5. Same(KeepApart(x, seq[k]), KeepFree(acc, seq[k]).kept)
    BY <2>1, <2>2, <2>3, BothDecide
  <2>6. k \in T
    BY <2>1, <2>4, <2>5
  <2> QED
    BY <2>6 DEF k
<1> HIDE DEF T
<1>9. \A i \in 0 .. n : i \in T
  BY <1>0, <1>7, <1>8, UpTo, Zenon
<1>10. n \in T
  BY <1>0, <1>9
<1>11. Occupancy(seq) = b[n].kept
  BY <1>4 DEF Occupancy, AllClaimed, Unclaimed
<1> QED
  BY <1>3, <1>10, <1>11 DEF T

\* The spans among the first i that are not empty.
Filled(q, i) == {s \in Span : Length(s) > 0 /\ \E k \in 1 .. i : q[k] = s}

LEMMA FilledSkips ==
  ASSUME NEW q \in Seq(Span), NEW i \in 1 .. Len(q), ~(Length(q[i]) > 0)
  PROVE  Filled(q, i) = Filled(q, i - 1)
<1>1. ASSUME NEW s \in Span, Length(s) > 0
      PROVE  (\E k \in 1 .. i : q[k] = s) <=> \E k \in 1 .. i - 1 : q[k] = s
  <2>1. \A k \in 1 .. i : k \in 1 .. i - 1 \/ k = i
    OBVIOUS
  <2>2. \A k \in 1 .. i - 1 : k \in 1 .. i
    OBVIOUS
  <2> QED
    BY <1>1, <2>1, <2>2
<1> QED
  BY <1>1 DEF Filled

\* The last of them begins behind all the others.
LEMMA FilledGrows ==
  ASSUME NEW q \in Seq(Span), Laid(q), NEW i \in 1 .. Len(q), Length(q[i]) > 0
  PROVE  /\ Filled(q, i) = Filled(q, i - 1) \cup {q[i]}
         /\ \A s \in Filled(q, i - 1) : s.start < q[i].start
<1>1. q[i] \in Span
  OBVIOUS
<1>2. ASSUME NEW s \in Span, Length(s) > 0
      PROVE  (\E k \in 1 .. i : q[k] = s) <=> (\E k \in 1 .. i - 1 : q[k] = s) \/ s = q[i]
  <2>1. \A k \in 1 .. i : k \in 1 .. i - 1 \/ k = i
    OBVIOUS
  <2>2. i \in 1 .. i /\ \A k \in 1 .. i - 1 : k \in 1 .. i
    OBVIOUS
  <2> QED
    BY <2>1, <2>2
<1>3. Filled(q, i) = Filled(q, i - 1) \cup {q[i]}
  BY <1>1, <1>2 DEF Filled
<1>4. ASSUME NEW s \in Filled(q, i - 1)
      PROVE  s.start < q[i].start
  <2>1. PICK k \in 1 .. i - 1 : q[k] = s
    BY DEF Filled
  <2>2. k \in 1 .. Len(q) /\ k < i
    OBVIOUS
  <2>3. Length(q[k]) > 0 /\ s \in Span
    BY <2>1 DEF Filled
  <2>4. q[k].end <= q[i].start
    BY <2>2, <2>3, LaidEnds
  <2>5. PICK a, b, c : a = s.start /\ b = s.end /\ c = q[i].start
    OBVIOUS
  <2>6. a \in Nat /\ b \in Nat /\ c \in Nat
    BY <1>1, <2>3, <2>5, SpanNumbers
  <2>7. b - a > 0 /\ b <= c
    BY <2>1, <2>3, <2>4, <2>5 DEF Length
  <2>8. a < c
    BY <2>6, <2>7
  <2> QED
    BY <2>5, <2>8
<1> QED
  BY <1>3, <1>4

\* Two such sets that are the same end with the same span.
LEMMA SameLast ==
  ASSUME NEW u \in Span, NEW v \in Span, NEW A \in SUBSET Span, NEW B \in SUBSET Span,
         A \cup {u} = B \cup {v}, \A s \in A : s.start < u.start, \A s \in B : s.start < v.start
  PROVE  u = v /\ A = B
<1>1. u.start \in Nat /\ v.start \in Nat
  BY SpanNumbers
<1>2. ~(u.start < u.start) /\ ~(v.start < v.start) /\ ~(u.start < v.start /\ v.start < u.start)
  BY <1>1
<1>3. u \notin A /\ v \notin B
  BY <1>2
<1>4. u = v
  <2>1. u = v \/ (u \in B /\ v \in A)
    OBVIOUS
  <2> QED
    BY <1>2, <2>1
<1> QED
  BY <1>3, <1>4

\* An empty span is no step of Apply.
LEMMA EmptyNoStep ==
  ASSUME NEW text, NEW pick, NEW acc, NEW s \in Span, ~(Length(s) > 0)
  PROVE  Replace(text, pick, acc, s) = acc
<1>1. PICK a, b : a = s.start /\ b = s.end
  OBVIOUS
<1>2. a \in Nat /\ b \in Nat /\ ~(b - a > 0)
  BY <1>1, SpanNumbers DEF Length
<1>3. a >= b
  BY <1>2
<1>4. Droppable(text, acc.cursor, s)
  BY <1>1, <1>3 DEF Droppable
<1> QED
  BY <1>4, ReplaceDrops

\* What Apply does with spans in order depends on those that are not empty.
LEMMA SameReplaced ==
  ASSUME NEW text \in Seq(Bytes), NEW pick, MasksOf(text, pick),
         NEW p \in Seq(Span), NEW q \in Seq(Span), Laid(p), Laid(q), Same(p, q)
  PROVE  AllReplaced(text, pick, p) = AllReplaced(text, pick, q)
<1> DEFINE m == Len(p)
           n == Len(q)
<1>0. m \in Nat /\ n \in Nat /\ m + n \in Nat
  OBVIOUS
<1>1. PICK a \in [0 .. m -> Applying(text)] : ApplyRun(text, pick, p, a)
  BY ApplySteps
<1>2. PICK b \in [0 .. n -> Applying(text)] : ApplyRun(text, pick, q, b)
  BY ApplySteps
<1>3. /\ a[0] = Untouched /\ a[m] = AllReplaced(text, pick, p)
      /\ \A i \in 1 .. m : a[i] = Replace(text, pick, a[i - 1], p[i])
  BY <1>1 DEF ApplyRun
<1>4. /\ b[0] = Untouched /\ b[n] = AllReplaced(text, pick, q)
      /\ \A i \in 1 .. n : b[i] = Replace(text, pick, b[i - 1], q[i])
  BY <1>2 DEF ApplyRun
<1>5. /\ \A i \in 1 .. m : p[i] \in Span
      /\ \A i \in 1 .. n : q[i] \in Span
  OBVIOUS
<1> DEFINE T == {t \in 0 .. m + n : \A i \in 0 .. m, j \in 0 .. n :
                   i + j <= t /\ Filled(p, i) = Filled(q, j) => a[i] = b[j]}
<1>6. 0 \in T
  <2>1. ASSUME NEW i \in 0 .. m, NEW j \in 0 .. n, i + j <= 0
        PROVE  a[i] = b[j]
    <3>1. i = 0 /\ j = 0
      BY <1>0, <2>1
    <3> QED
      BY <1>3, <1>4, <3>1
  <2> QED
    BY <1>0, <2>1
<1>7. ASSUME NEW t \in 0 .. (m + n) - 1, t \in T PROVE t + 1 \in T
  <2>0. \A i \in 0 .. m, j \in 0 .. n : i + j <= t /\ Filled(p, i) = Filled(q, j) => a[i] = b[j]
    BY <1>7
  <2>1. ASSUME NEW i \in 0 .. m, NEW j \in 0 .. n, i + j <= t + 1, Filled(p, i) = Filled(q, j)
        PROVE  a[i] = b[j]
    <3>1. CASE i = 0 /\ j = 0
      BY <1>3, <1>4, <3>1
    <3>2. CASE i > 0 /\ ~(Length(p[i]) > 0)
      <4>1. i \in 1 .. m /\ i - 1 \in 0 .. m /\ (i - 1) + j <= t
        BY <1>0, <2>1, <3>2
      <4>2. p[i] \in Span /\ a[i] = Replace(text, pick, a[i - 1], p[i])
        BY <1>3, <1>5, <4>1
      <4>3. a[i] = a[i - 1]
        BY <3>2, <4>2, EmptyNoStep
      <4>4. Filled(p, i) = Filled(p, i - 1)
        BY <3>2, <4>1, FilledSkips
      <4> QED
        BY <2>0, <2>1, <4>1, <4>3, <4>4
    <3>3. CASE j > 0 /\ ~(Length(q[j]) > 0)
      <4>1. j \in 1 .. n /\ j - 1 \in 0 .. n /\ i + (j - 1) <= t
        BY <1>0, <2>1, <3>3
      <4>2. q[j] \in Span /\ b[j] = Replace(text, pick, b[j - 1], q[j])
        BY <1>4, <1>5, <4>1
      <4>3. b[j] = b[j - 1]
        BY <3>3, <4>2, EmptyNoStep
      <4>4. Filled(q, j) = Filled(q, j - 1)
        BY <3>3, <4>1, FilledSkips
      <4> QED
        BY <2>0, <2>1, <4>1, <4>3, <4>4
    <3>4. CASE i > 0 /\ j > 0 /\ Length(p[i]) > 0 /\ Length(q[j]) > 0
      <4>1. /\ i \in 1 .. m /\ i - 1 \in 0 .. m /\ j \in 1 .. n /\ j - 1 \in 0 .. n
            /\ (i - 1) + (j - 1) <= t
        BY <1>0, <2>1, <3>4
      <4>2. p[i] \in Span /\ q[j] \in Span
        BY <1>5, <4>1
      <4>3. /\ Filled(p, i) = Filled(p, i - 1) \cup {p[i]}
            /\ \A s \in Filled(p, i - 1) : s.start < p[i].start
        BY <3>4, <4>1, FilledGrows
      <4>4. /\ Filled(q, j) = Filled(q, j - 1) \cup {q[j]}
            /\ \A s \in Filled(q, j - 1) : s.start < q[j].start
        BY <3>4, <4>1, FilledGrows
      <4>5. Filled(p, i - 1) \in SUBSET Span /\ Filled(q, j - 1) \in SUBSET Span
        BY DEF Filled
      <4>6. p[i] = q[j] /\ Filled(p, i - 1) = Filled(q, j - 1)
        <5> DEFINE A == Filled(p, i - 1)
                   B == Filled(q, j - 1)
                   u == p[i]
                   v == q[j]
        <5>1. u \in Span /\ v \in Span
          BY <4>2
        <5>2. A \in SUBSET Span /\ B \in SUBSET Span
          BY <4>5
        <5>3. A \cup {u} = B \cup {v}
          BY <2>1, <4>3, <4>4
        <5>4. \A s \in A : s.start < u.start
          BY <4>3
        <5>5. \A s \in B : s.start < v.start
          BY <4>4
        <5> HIDE DEF A, B, u, v
        <5>6. u = v /\ A = B
          BY <5>1, <5>2, <5>3, <5>4, <5>5, SameLast
        <5> QED
          BY <5>6 DEF A, B, u, v
      <4>7. a[i - 1] = b[j - 1]
        BY <2>0, <4>1, <4>6
      <4>8. a[i] = Replace(text, pick, a[i - 1], p[i]) /\ b[j] = Replace(text, pick, b[j - 1], q[j])
        BY <1>3, <1>4, <4>1
      <4> QED
        BY <4>6, <4>7, <4>8
    <3>5. CASE i > 0 /\ j = 0 /\ Length(p[i]) > 0
      <4>1. i \in 1 .. i /\ p[i] \in Span
        BY <1>0, <1>5, <3>5
      <4>2. p[i] \in Filled(p, i)
        BY <3>5, <4>1 DEF Filled
      <4>3. Filled(q, 0) = {}
        BY DEF Filled
      <4> QED
        BY <2>1, <3>5, <4>2, <4>3
    <3>6. CASE i = 0 /\ j > 0 /\ Length(q[j]) > 0
      <4>1. j \in 1 .. j /\ q[j] \in Span
        BY <1>0, <1>5, <3>6
      <4>2. q[j] \in Filled(q, j)
        BY <3>6, <4>1 DEF Filled
      <4>3. Filled(p, 0) = {}
        BY DEF Filled
      <4> QED
        BY <2>1, <3>6, <4>2, <4>3
    <3> QED
      <4>1. (i = 0 \/ i > 0) /\ (j = 0 \/ j > 0)
        BY <1>0
      <4> QED
        BY <3>1, <3>2, <3>3, <3>4, <3>5, <3>6, <4>1
  <2>2. t + 1 \in 0 .. m + n
    BY <1>0
  <2> QED
    BY <2>1, <2>2
<1> HIDE DEF T
<1>8. \A t \in 0 .. m + n : t \in T
  BY <1>0, <1>6, <1>7, UpTo, Zenon
<1>9. m + n \in T
  BY <1>0, <1>8
<1>10. Filled(p, m) = Filled(q, n)
  BY DEF Filled, Same, Has
<1>11. m \in 0 .. m /\ n \in 0 .. n /\ m + n <= m + n
  BY <1>0
<1>12. a[m] = b[n]
  BY <1>9, <1>10, <1>11 DEF T
<1> QED
  BY <1>3, <1>4, <1>12

\* In the order of their starts, kept spans are laid.
LEMMA ByStartLays ==
  ASSUME NEW x \in Seq(Span), Apart(x)
  PROVE  /\ ByStart(x) \in Seq(Span) /\ Laid(ByStart(x))
         /\ \A s : Has(ByStart(x), s) <=> Has(x, s)
<1> DEFINE q == ByStart(x)
<1>1. /\ q \in Seq(Span) /\ Len(q) = Len(x)
      /\ \E p : Rearranges(p, x, q)
      /\ \A i, j \in 1 .. Len(x) : i < j => q[i].start <= q[j].start
  BY ByStartIs
<1> HIDE DEF q
<1>2. PICK p : Rearranges(p, x, q)
  BY <1>1
<1>3. /\ p \in [1 .. Len(x) -> 1 .. Len(x)]
      /\ \A j \in 1 .. Len(x) : \E k \in 1 .. Len(x) : p[k] = j
      /\ \A i, j \in 1 .. Len(x) : i # j => p[i] # p[j]
      /\ \A k \in 1 .. Len(x) : q[k] = x[p[k]]
  BY <1>2 DEF Rearranges, Permutes
<1>4. Rising(q)
  BY <1>1 DEF Rising
<1>5. Apart(q)
  <2>1. ASSUME NEW k \in 1 .. Len(q), NEW l \in 1 .. Len(q), k # l,
               Length(q[k]) > 0, Length(q[l]) > 0
        PROVE  ~Overlaps(q[k], q[l])
    <3>1. /\ p[k] \in 1 .. Len(x) /\ q[k] = x[p[k]]
          /\ p[l] \in 1 .. Len(x) /\ q[l] = x[p[l]] /\ p[k] # p[l]
      BY <1>1, <1>3, <2>1
    <3> QED
      BY <2>1, <3>1 DEF Apart
  <2> QED
    BY <2>1 DEF Apart
<1>6. ASSUME NEW s PROVE Has(q, s) <=> Has(x, s)
  <2>1. ASSUME NEW k \in 1 .. Len(x) PROVE \E l \in 1 .. Len(x) : q[l] = x[k]
    <3>1. PICK l \in 1 .. Len(x) : p[l] = k
      BY <1>3
    <3> QED
      BY <1>3, <3>1
  <2>2. \A l \in 1 .. Len(x) : \E k \in 1 .. Len(x) : q[l] = x[k]
    BY <1>3
  <2> QED
    BY <1>1, <2>1, <2>2 DEF Has
<1> QED
  BY <1>1, <1>4, <1>5, <1>6 DEF Laid, q

LEMMA SameApplied ==
  ASSUME NEW text \in Seq(Bytes), NEW pick, MasksOf(text, pick),
         NEW x \in Seq(Span), NEW y \in Seq(Span), Apart(x), Apart(y), Same(x, y)
  PROVE  Apply(text, x, pick) = Apply(text, y, pick)
<1> DEFINE p == ByStart(x)
           q == ByStart(y)
<1>1. p \in Seq(Span) /\ Laid(p) /\ \A s : Has(p, s) <=> Has(x, s)
  BY ByStartLays
<1>2. q \in Seq(Span) /\ Laid(q) /\ \A s : Has(q, s) <=> Has(y, s)
  BY ByStartLays
<1>3. /\ Apply(text, x, pick) =
           [masked |-> AllReplaced(text, pick, p).out
                         \o Slice(text, AllReplaced(text, pick, p).cursor, Len(text)),
            reps |-> AllReplaced(text, pick, p).reps]
      /\ Apply(text, y, pick) =
           [masked |-> AllReplaced(text, pick, q).out
                         \o Slice(text, AllReplaced(text, pick, q).cursor, Len(text)),
            reps |-> AllReplaced(text, pick, q).reps]
  BY DEF Apply, AllReplaced, Untouched
<1> HIDE DEF p, q
<1>4. Same(p, q)
  BY <1>1, <1>2 DEF Same
<1>5. AllReplaced(text, pick, p) = AllReplaced(text, pick, q)
  BY <1>1, <1>2, <1>4, SameReplaced
<1> QED
  BY <1>3, <1>5

LEMMA CallAgrees == CallInv => AlgorithmsAgree
<1> SUFFICES ASSUME CallInv PROVE AlgorithmsAgree
  OBVIOUS
<1> DEFINE ranked == ByRank(job.marks)
<1>1. job \in Cases /\ live \in job.configs
  BY DEF CallInv
<1>2. job.text \in Seq(Bytes) /\ job.marks \in Seq(Span)
  BY <1>1, CasesAssumption
<1>3. MasksOf(job.text, live.strategy)
  BY <1>1, MasksAssumption
<1>4. ranked \in Seq(Span) /\ LongestFirst(ranked)
  <2>1. /\ ranked \in Seq(Span) /\ Len(ranked) = Len(job.marks)
        /\ \A i, j \in 1 .. Len(job.marks) : i < j => Length(ranked[i]) >= Length(ranked[j])
    BY <1>2, ByRankIs
  <2> QED
    BY <2>1 DEF LongestFirst
<1> HIDE DEF ranked
<1>5. Pairwise(ranked) \in Seq(Span) /\ Settled(ranked, Pairwise(ranked), Len(ranked))
  BY <1>4, PairwiseSettles
<1>6. Occupancy(ranked) \in Seq(Span) /\ Settled(ranked, Occupancy(ranked), Len(ranked))
  BY <1>4, OccupancySettles
<1>7. Apart(Pairwise(ranked)) /\ Apart(Occupancy(ranked))
  BY <1>5, <1>6 DEF Settled, Apart
<1>8. Same(Pairwise(ranked), Occupancy(ranked))
  BY <1>4, BothKeepTheSame
<1>9. Apply(job.text, Pairwise(ranked), live.strategy)
        = Apply(job.text, Occupancy(ranked), live.strategy)
  BY <1>2, <1>3, <1>5, <1>6, <1>7, <1>8, SameApplied
<1> QED
  BY <1>9 DEF AlgorithmsAgree, ranked, ByRank

\* The bitmap that decides from 48 spans on and the comparison of all pairs mask
\* the same bytes of every text in the same way.
THEOREM AlgorithmsAlike == Spec => []AlgorithmsAgree
BY CallAgrees, CallInvHolds, PTL

=============================================================================
