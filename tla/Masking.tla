------------------------------ MODULE Masking ------------------------------
(***************************************************************************)
(* One masking run: Engine.detect, the filter, the label expansion and      *)
(* mask.Apply as maskInto of internal/engine/engine.go strings them         *)
(* together, the payload cut into chunks when it is long.  The              *)
(* configuration is read once for the system, once before detection and     *)
(* once after it, and may be another each time.                             *)
(*                                                                         *)
(* The detectors are external to this module: `marks' is what they would    *)
(* report of the whole text.  A context over a part of the text reports the *)
(* marks that lie in it, and may report the part it sees of any other.      *)
(***************************************************************************)
EXTENDS Spans

CONSTANTS
  ChunkLimit,   \* chunkLimit: 65536
  Glyphs,       \* what texts and masks are written with
  Cases,        \* [text, marks, truncates, configs] to run
  MaxReloads    \* bound: configurations applied in mid-call

Types == DOMAIN Priority
Span == [start : Nat, end : Nat, type : Types, conf : Int]

ASSUME ChunksAssumption ==
  ChunkLimit \in Nat /\ ChunkLimit \div 4 >= 1 /\ MaxReloads \in Nat

\* What a detector reports is a piece of the text.
ASSUME CasesAssumption ==
  /\ Bytes \subseteq Glyphs /\ Priority \in [Types -> Int]
  /\ \A c \in Cases :
       /\ c.text \in Seq(Bytes) /\ c.marks \in Seq(Span) /\ c.truncates \in BOOLEAN
       /\ \A m \in ToSet(c.marks) : m.start <= m.end /\ m.end <= Len(c.text)

\* No strategy makes nothing of a value.
MasksOf(text, pick) ==
  \A t \in Types, i, j \in 0 .. Len(text) :
    i < j => MaskOf(pick[t], t, Slice(text, i, j)) \in Seq(Glyphs) \ {<<>>}
ASSUME MasksAssumption ==
  \A c \in Cases : \A k \in c.configs : MasksOf(c.text, k.strategy)

VARIABLES
  job,      \* the case
  stage,    \* the next step of the call
  live,     \* the live configuration: [rules, custom, labels, strategy]
  sys,      \* the rules of the system as resolved at the start
  seen,     \* the custom types of the configuration detection began with
  chunk,    \* the next chunk
  all,      \* Engine.detect's `all': the spans of the chunks so far
  spans,    \* what has become of them
  out,      \* the result of Apply
  reloads

vars == <<job, stage, live, sys, seen, chunk, all, spans, out, reloads>>

NoResult == [masked |-> <<>>, reps |-> <<>>]
Cuts == SplitPoints(job.text, ChunkLimit)
Chunked == Len(job.text) > ChunkLimit

Init ==
  /\ job \in Cases
  /\ live \in job.configs
  /\ stage = "resolve" /\ sys = live.rules /\ seen = live.custom
  /\ chunk = 1 /\ all = <<>> /\ spans = <<>> /\ out = NoResult /\ reloads = 0

\* detect() reads the custom types of its predicate; system() went before.
Begin ==
  /\ stage = "resolve" /\ stage' = "detect"
  /\ seen' = live.custom
  /\ UNCHANGED <<job, live, sys, chunk, all, spans, out, reloads>>

\* What the detectors report of [from, to): marks inside it, parts of marks
\* across its edges.
Inside(from, to) == Among(job.marks, {s \in ToSet(job.marks) : from <= s.start /\ s.end <= to})
Parts(from, to) ==
  LET clip(s) == [s EXCEPT !.start = Max({@, from}), !.end = Min({s.end, to})]
      cut == Among(job.marks, {s \in ToSet(job.marks) :
               (s.start < from /\ s.end > from) \/ (s.start < to /\ s.end > to)})
  IN  [i \in DOMAIN cut |-> clip(cut[i])]
Reports(from, to) ==
  LET wanted(found) == Among(found, {s \in ToSet(found) : Enabled(sys, seen, s.type)})
      inside == wanted(Inside(from, to))
      parts == wanted(Parts(from, to))
  IN  IF job.truncates THEN {inside, inside \o parts, parts \o inside} ELSE {inside}

\* RunCtx over one context; the context may have expired at every check, the
\* partial result is thrown away.
DetectWhole ==
  /\ stage = "detect" /\ ~Chunked
  /\ \E found \in Reports(0, Len(job.text)) : spans' = Resolve(found)
  /\ stage' = "filter"
  /\ UNCHANGED <<job, live, sys, seen, chunk, all, out, reloads>>

From(i) == IF i = 1 THEN 0 ELSE ChunkStart(job.text, Cuts[i])
DetectChunk ==
  /\ stage = "detect" /\ Chunked /\ chunk < Len(Cuts)
  /\ \E found \in Reports(From(chunk), Cuts[chunk + 1]) : all' = all \o Resolve(found)
  /\ chunk' = chunk + 1
  /\ UNCHANGED <<job, stage, live, sys, seen, spans, out, reloads>>

Merge ==
  /\ stage = "detect" /\ Chunked /\ chunk = Len(Cuts)
  /\ spans' = Resolve(all)
  /\ stage' = "filter"
  /\ UNCHANGED <<job, live, sys, seen, chunk, all, out, reloads>>

Expire ==
  /\ stage = "detect" /\ stage' = "failed"
  /\ UNCHANGED <<job, live, sys, seen, chunk, all, spans, out, reloads>>

\* One configuration serves the rest of the call.
FilterAndMask ==
  /\ stage = "filter" /\ stage' = "done"
  /\ LET kept == Filter(sys, live.custom, spans)
         wide == IF live.labels THEN ExpandLabelSpans(job.text, kept) ELSE kept
     IN  spans' = wide /\ out' = Apply(job.text, wide, live.strategy)
  /\ UNCHANGED <<job, live, sys, seen, chunk, all, reloads>>

\* Manager.Apply, by another goroutine.
Reload ==
  /\ reloads < MaxReloads /\ stage \notin {"done", "failed"}
  /\ live' \in job.configs \ {live}
  /\ reloads' = reloads + 1
  /\ UNCHANGED <<job, stage, sys, seen, chunk, all, spans, out>>

Next ==
  \/ Begin \/ DetectWhole \/ DetectChunk \/ Merge \/ Expire \/ FilterAndMask \/ Reload
Spec == Init /\ [][Next]_vars

-----------------------------------------------------------------------------
(* What two of the properties below ask of the detectors *)

\* A call that may take in labels has no detection of nothing.  A custom type
\* whose expression matches the empty string makes some.
MarksNotEmpty ==
  \A c \in Cases :
    \/ \A i \in 1 .. Len(c.marks) : c.marks[i].start < c.marks[i].end
    \/ \A k \in c.configs : ~k.labels

\* Entities none of which is empty or longer than the overlap, apart from each
\* other, in every text that is cut.
Scattered(marks) ==
  /\ \A m \in marks : m.start < m.end /\ m.end - m.start <= ChunkOverlap
  /\ \A m, n \in marks : m = n \/ ~Overlaps(m, n)
EntitiesShort == \A c \in Cases : Len(c.text) > ChunkLimit => Scattered(ToSet(c.marks))

-----------------------------------------------------------------------------
\* An identifier is not split and not given up: what remains is disjoint, and a
\* span is dropped only for one at least as long that overlaps it and remains
\* (empty spans apart, which Apply drops).
ContestDecided ==
  stage = "filter" /\ ~Chunked =>
    LET kept == {s \in ToSet(spans) : Length(s) > 0}
        wanted == {s \in ToSet(job.marks) : Enabled(sys, seen, s.type) /\ Length(s) > 0}
    IN  /\ \A s, t \in kept : s = t \/ ~Overlaps(s, t)
        /\ \A s \in wanted \ kept :
             \E k \in kept : Overlaps(s, k) /\ Length(k) >= Length(s)

\* From 48 spans on a bitmap decides instead of the comparison of all pairs;
\* nobody can tell the difference by what is masked.
AlgorithmsAgree ==
  stage = "filter" /\ ~Chunked =>
    LET ordered == InOrder(job.marks, ResolveLess)
    IN  Apply(job.text, Pairwise(ordered), live.strategy)
          = Apply(job.text, Occupancy(ordered), live.strategy)

\* An entity no longer than the overlap comes out of the chunks in one piece,
\* wherever the cuts fall and whatever the chunks make of its parts (provided
\* entities do not overlap each other).
EntitiesWhole ==
  stage = "filter" /\ Chunked =>
    ToSet(spans) = {s \in ToSet(job.marks) : Enabled(sys, seen, s.type)}

\* What the filter lets through is masked: no span is lost to its neighbour,
\* not even after both have taken in the labels in front of them.
EverySpanMasked ==
  stage = "done" =>
    {<<s.start, s.end>> : s \in {t \in ToSet(spans) : Length(t) > 0}}
      = {<<r.start, r.end>> : r \in ToSet(out.reps)}

\* The mask leads back to the text: everything outside the spans is the text's,
\* and the recorded replacements undo the rest (the property Restore is for).
RestoreUndoesApply == stage = "done" => Restore(out.masked, out.reps) = job.text
=============================================================================
