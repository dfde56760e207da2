--------------------------- MODULE HarnessProofs ---------------------------
(***************************************************************************)
(* The two-step contract of /process, for any number of requests, elements, *)
(* repetitions and payload ids, and whatever fails or is lost.              *)
(***************************************************************************)
EXTENDS Harness, ProcessProofs

-----------------------------------------------------------------------------
(* The inductive invariant, of what the client knows (c), the entry under  *)
(* its id (e), and a request: its label (at), locals (l) and step (a).     *)

Client == [elem : Elements, number : Nat, stage : {"forward", "reverse"},
           held : Texts \cup {Absent}, shadowed : BOOLEAN, lost : BOOLEAN, failed : BOOLEAN,
           overlapped : BOOLEAN, tries : Nat, masks : SUBSET Texts]
Question == [step : {"none", "forward", "reverse"}, shadowed : BOOLEAN]
Stored == Entry \cup {Absent}

Sound(c) == ~Crossed(c)

\* The store has nothing to say of the element.
Apart(e, c) == e = Absent \/ c.elem \notin {e.original, e.masked}

\* Text t takes the harness back to its element: it is the other half of the
\* entry; or the element itself, which masking leaves alone; or the mask of a lost
\* entry, which every later call would draw again.
Kept(e, c, t) ==
  \/ e = Pair(c.elem, t)
  \/ t = c.elem /\ MaskOf(t) = Absent /\ Apart(e, c)
  \/ c.lost /\ e = Absent /\ t = MaskOf(c.elem)

\* An entry joins a text to its mask or, once a call has failed, to itself.
Paired(e, c) ==
  e # Absent => e.masked = MaskOf(e.original) \/ (e.masked = e.original /\ c.failed)

\* The answers the harness relies on.
Answers(c) == c.masks \cup (IF c.shadowed THEN {} ELSE {c.held} \ {Absent})

ClientInv(e, c) ==
  /\ Paired(e, c)
  /\ c.shadowed => c.held = c.elem /\ c.failed
  /\ Sound(c) => \A t \in Answers(c) : Kept(e, c, t)

\* A request is what the harness sent, and has been dealt with by its system.
Sent(at, l, a, c) ==
  /\ l.id # BlankId /\ l.header = Header
  /\ \/ a.step = "forward" /\ l.text = c.elem
     \/ a.step = "reverse" /\ c.stage = "reverse" /\ l.text = c.held /\ c.held # Absent
  /\ at \in InEngine \ {"resolve"} => l.sys = Serving
  /\ at \in {"put", "done"} => l.masked = MaskOf(l.text)
  /\ at \in {"authorize"} \cup InEngine => l.failed = "no"
  /\ at \in InFailure => l.failed # "no" /\ c.failed
  /\ at = "answer" /\ l.status = 200 =>
       l.out \in Texts /\ (l.failed # "no" => l.out = l.text /\ c.failed)

\* About to mask the text, or on the way to remember a mask of it.
Masking(at, l) ==
  (at = "check" /\ l.dir \in {"mask", "remask"}) \/ at \in {"detect", "rewrite", "put"}

\* A request that has its id to itself finds the store as it left it.
Alone(at, l, a, c, e) ==
  ~c.overlapped =>
    /\ ~a.shadowed /\ at \notin {"done", "answer"} => e = Absent
    /\ Masking(at, l) /\ l.text = c.elem => Apart(e, c)
    /\ at = "identityPut" => e = Absent

\* What a forward request knows at its steps.
Forward(at, l, a, c, e) ==
  /\ at = "check" => l.dir # "demaskMiss"
  /\ at = "check" /\ l.dir = "demask" => Kept(e, c, l.entry.original)
  /\ at = "check" /\ l.dir = "maskRetry" => Kept(e, c, l.entry.masked)
  /\ at = "done" => Kept(e, c, l.masked)
  /\ at = "answer" /\ l.status = 200 /\ (l.failed = "no" \/ ~a.shadowed) => Kept(e, c, l.out)

\* And a reverse one that does not follow a failure another entry stood beside.
Reverse(at, l, c) ==
  /\ at = "check" => l.dir # "maskRetry"
  /\ at = "check" /\ l.dir = "demask" => l.entry.original = c.elem
  /\ at = "check" /\ l.dir = "demaskMiss" => c.lost
  /\ Masking(at, l) \/ at = "done" => l.text = c.elem /\ MaskOf(c.elem) \in {Absent, c.elem}
  /\ at = "answer" /\ l.status = 200 /\ l.failed = "no" =>
       l.out \in {c.elem, l.text} /\ (~c.lost => l.out = c.elem)

RequestInv(at, l, a, c, e) ==
  /\ Sent(at, l, a, c) /\ Alone(at, l, a, c, e)
  /\ Sound(c) => /\ a.step = "forward" => Forward(at, l, a, c, e)
                 /\ a.step = "reverse" /\ ~c.shadowed => Reverse(at, l, c)

HarnessTypeOK ==
  /\ TypeOK
  /\ client \in [Slots -> Client]
  /\ asked \in [Workers -> Question]

Requested(w) == RequestInv(pc[w], loc[w], asked[w], client[KeyOf(w)], map[KeyOf(w)])

HarnessInv ==
  /\ HarnessTypeOK
  /\ \A k \in Slots : ClientInv(map[k], client[k])
  /\ \A k \in Slots : ~client[k].overlapped => \A v, w \in InFlight(k) : v = w
  /\ \A w \in Workers : pc[w] # "idle" => Requested(w)

-----------------------------------------------------------------------------
(* How the parts carry over.                                               *)

Grows(c, d) ==
  /\ d.elem = c.elem /\ (c.lost => d.lost) /\ (c.failed => d.failed)
  /\ (c.overlapped => d.overlapped)

\* What a step may do to the entry of an element for which the contract holds:
\* nothing; lose it; add the mask of the element, or the element itself after a
\* failure, and if nobody else was about, only where the entry says nothing of it.
Moves(e, c, f, d) ==
  \/ f = e
  \/ f = Absent /\ d.lost
  \/ f = Pair(c.elem, MaskOf(c.elem)) /\ MaskOf(c.elem) # Absent /\ (c.overlapped \/ Apart(e, c))
  \/ f = Pair(c.elem, c.elem) /\ d.failed /\ (c.overlapped \/ e = Absent)

LEMMA SoundBefore ==
  ASSUME NEW c, NEW d, Grows(c, d), Sound(d)
  PROVE  Sound(c)
BY DEF Grows, Sound, Crossed

LEMMA PairIsEntry ==
  ASSUME NEW o \in Texts, NEW m \in Texts
  PROVE  Pair(o, m) \in Entry /\ Pair(o, m) # Absent
         /\ Pair(o, m).original = o /\ Pair(o, m).masked = m
BY AbsentAssumption DEF Pair, Entry

LEMMA ElementFacts ==
  ASSUME NEW t \in Elements
  PROVE  t \in Texts /\ t # Absent /\ t \notin StarMasked /\ t \notin LabelMasked /\ t \notin Shown
BY HarnessAssumption, AbsentAssumption DEF Shown

\* A text whose mask is an element is that element.
LEMMA MaskIsNoElement ==
  ASSUME MasksCanBeTakenBack, NEW t \in Texts, MaskOf(t) \in Elements
  PROVE  MaskOf(t) = t
BY ElementFacts DEF MasksCanBeTakenBack

\* What leads back to the element goes on doing so.
LEMMA KeptStays ==
  ASSUME MasksCanBeTakenBack, NEW c \in Client, NEW d, NEW e \in Stored, NEW f \in Stored,
         Grows(c, d), Sound(d), Moves(e, c, f, d), Paired(e, c), NEW t \in Texts, Kept(e, c, t)
  PROVE  Kept(f, d, t)
<1>1. c.elem \in Elements /\ c.elem \in Texts /\ t # Absent /\ c.elem # Absent
  BY ElementFacts, AbsentAssumption DEF Client
<1>2. d.elem = c.elem
  BY DEF Grows
<1>3. Pair(c.elem, t) # Absent /\ Pair(c.elem, t).original = c.elem /\ Pair(c.elem, t).masked = t
  BY <1>1, PairIsEntry
<1>4. CASE f = e
  BY <1>2, <1>4 DEF Kept, Apart, Grows
<1>5. CASE f = Absent /\ d.lost
  <2>1. ~d.failed /\ ~c.failed
    BY <1>5 DEF Sound, Crossed, Grows
  <2>2. CASE e = Pair(c.elem, t)
    BY <1>2, <1>3, <1>5, <2>1, <2>2 DEF Kept, Paired
  <2>3. QED
    BY <1>2, <1>5, <2>2 DEF Kept, Apart
<1>6. CASE f = Pair(c.elem, MaskOf(c.elem)) /\ MaskOf(c.elem) # Absent /\ (c.overlapped \/ Apart(e, c))
  <2>1. CASE e = Pair(c.elem, t)
    <3>1. ~Apart(e, c)
      BY <1>3, <2>1 DEF Apart
    <3>2. ~c.failed
      BY <1>6, <3>1 DEF Sound, Crossed, Grows
    <3>3. t = MaskOf(c.elem)
      BY <1>3, <2>1, <3>2 DEF Paired
    <3>4. QED
      BY <1>2, <1>6, <3>3 DEF Kept
  <2>2. QED
    BY <1>2, <1>6, <2>1 DEF Kept
<1>7. CASE f = Pair(c.elem, c.elem) /\ d.failed /\ (c.overlapped \/ e = Absent)
  <2>1. e = Absent /\ ~c.lost
    BY <1>7 DEF Sound, Crossed, Grows
  <2>2. t = c.elem
    BY <1>3, <2>1 DEF Kept
  <2>3. QED
    BY <1>2, <1>7, <2>2 DEF Kept
<1>8. QED
  BY <1>4, <1>5, <1>6, <1>7 DEF Moves

\* No two answers differ.
LEMMA KeptAgree ==
  ASSUME NEW c \in Client, NEW e \in Stored, NEW t \in Texts, NEW u \in Texts,
         Kept(e, c, t), Kept(e, c, u)
  PROVE  t = u
<1>1. c.elem \in Texts /\ t # Absent /\ u # Absent
  BY ElementFacts, AbsentAssumption DEF Client
<1>2. ASSUME NEW x \in Texts
      PROVE  /\ Pair(c.elem, x) # Absent /\ Pair(c.elem, x).original = c.elem
             /\ Pair(c.elem, x).masked = x
  BY <1>1, PairIsEntry
<1>3. CASE e = Pair(c.elem, t)
  <2>1. ~Apart(e, c) /\ e # Absent /\ e.masked = t
    BY <1>2, <1>3 DEF Apart
  <2>2. e = Pair(c.elem, u)
    BY <2>1 DEF Kept
  <2>3. QED
    BY <1>2, <2>1, <2>2
<1>4. CASE e # Pair(c.elem, t)
  <2>1. e # Pair(c.elem, u)
    <3>1. CASE e = Pair(c.elem, u)
      <4>1. ~Apart(e, c) /\ e # Absent
        BY <1>2, <3>1 DEF Apart
      <4>2. QED
        BY <1>4, <4>1 DEF Kept
    <3>2. QED
      BY <3>1
  <2>2. QED
    BY <1>1, <1>4, <2>1 DEF Kept
<1>5. QED
  BY <1>3, <1>4

\* A request that takes no step, but may run out of time, keeps what it has, when
\* it has its id to itself because nobody else stores an entry there.
LEMMA Bystander ==
  ASSUME MasksCanBeTakenBack, NEW c \in Client, NEW d, NEW e \in Stored, NEW f \in Stored,
         NEW at, NEW l \in LocalsType, NEW r \in LocalsType, NEW a \in Question,
         r \in {l, [l EXCEPT !.late = TRUE]}, Ready(at, l),
         RequestInv(at, l, a, c, e), Grows(c, d), Paired(e, c),
         Sound(d) => Moves(e, c, f, d), ~d.overlapped => f \in {e, Absent},
         a.step = "reverse" => d.stage = c.stage /\ d.held = c.held /\ d.shadowed = c.shadowed
  PROVE  RequestInv(at, r, a, d, f)
<1>1. /\ r.id = l.id /\ r.header = l.header /\ r.text = l.text /\ r.sys = l.sys
      /\ r.entry = l.entry /\ r.dir = l.dir /\ r.masked = l.masked
      /\ r.status = l.status /\ r.out = l.out /\ r.failed = l.failed
  BY DEF LocalsType
<1>2. d.elem = c.elem /\ (c.lost => d.lost) /\ (c.failed => d.failed) /\ (c.overlapped => d.overlapped)
  BY DEF Grows
<1>3. Sent(at, r, a, d)
  BY <1>1, <1>2 DEF RequestInv, Sent
<1>4. Alone(at, r, a, d, f)
  BY <1>1, <1>2 DEF RequestInv, Alone, Masking, Apart
<1>5. ASSUME Sound(d), a.step = "forward" PROVE Forward(at, r, a, d, f)
  <2>1. Sound(c) /\ Forward(at, l, a, c, e)
    BY <1>5, SoundBefore DEF RequestInv
  <2>2. ASSUME NEW t \in Texts, Kept(e, c, t) PROVE Kept(f, d, t)
    BY <1>5, <2>2, KeptStays
  <2>3. at = "check" /\ l.dir \in {"demask", "maskRetry"} =>
          l.entry.original \in Texts /\ l.entry.masked \in Texts
    BY DEF Ready, LocalsType, Entry
  <2>4. at = "done" => l.masked \in Texts
    BY DEF Ready
  <2>5. at = "answer" /\ l.status = 200 => l.out \in Texts
    BY DEF RequestInv, Sent
  <2>6. QED
    BY <1>1, <2>1, <2>2, <2>3, <2>4, <2>5 DEF Forward
<1>6. ASSUME Sound(d), a.step = "reverse", ~d.shadowed PROVE Reverse(at, r, d)
  <2>1. Sound(c) /\ Reverse(at, l, c)
    BY <1>6, SoundBefore DEF RequestInv
  <2>2. QED
    BY <1>1, <1>2, <2>1 DEF Reverse, Masking
<1>7. QED
  BY <1>3, <1>4, <1>5, <1>6 DEF RequestInv

-----------------------------------------------------------------------------
(* A request that takes a step and leaves the store as it is.              *)

Same(c, d) ==
  /\ d.elem = c.elem /\ d.stage = c.stage /\ d.held = c.held /\ d.shadowed = c.shadowed
  /\ d.overlapped = c.overlapped /\ d.lost = c.lost /\ (c.failed => d.failed)

Works(at, l, a, c, e, r, d) ==
  /\ l \in LocalsType /\ Ready(at, l) /\ a \in Question /\ c \in Client /\ e \in Stored
  /\ RequestInv(at, l, a, c, e) /\ ClientInv(e, c) /\ Same(c, d)
  /\ r.id = l.id /\ r.header = l.header /\ r.text = l.text

LEMMA SameStore ==
  ASSUME NEW c, NEW d, NEW e, Same(c, d)
  PROVE  /\ Sound(d) => Sound(c)
         /\ Apart(e, c) <=> Apart(e, d)
         /\ \A t : Kept(e, c, t) <=> Kept(e, d, t)
BY DEF Same, Sound, Crossed, Apart, Kept

LEMMA TextSent ==
  ASSUME NEW at, NEW l, NEW a, NEW c \in Client, Sent(at, l, a, c)
  PROVE  l.text \in Texts /\ l.text # EmptyText
BY ElementFacts, RequestAssumption DEF Sent, Client

\* An answer that is no text (a refusal, a failure).
LEMMA Refusal ==
  ASSUME NEW at, NEW l, NEW a, NEW c, NEW e, NEW r, NEW d, Works(at, l, a, c, e, r, d),
         r.status # 200
  PROVE  RequestInv("answer", r, a, d, e)
BY DEF Works, RequestInv, Sent, Alone, Forward, Reverse, Masking, Same, InEngine, InFailure

LEMMA Admission ==
  ASSUME NEW l, NEW a, NEW c, NEW e, NEW d, Works("authorize", l, a, c, e, l, d)
  PROVE  RequestInv("resolve", l, a, d, e)
BY DEF Works, RequestInv, Sent, Alone, Forward, Reverse, Masking, Same, InEngine, InFailure

LEMMA Resolution ==
  ASSUME NEW l, NEW a, NEW c, NEW e, NEW r, NEW d, Works("resolve", l, a, c, e, r, d),
         r.sys = Serving, r.failed = l.failed
  PROVE  RequestInv("lookup", r, a, d, e)
BY DEF Works, RequestInv, Sent, Alone, Forward, Reverse, Masking, Same, InEngine, InFailure

\* What decide finds out about an element and about what came back for it.
LEMMA ForwardDecision ==
  ASSUME MasksCanBeTakenBack, NEW c \in Client, NEW e \in Stored, Paired(e, c)
  PROVE  LET dir == Decide(e, c.elem, Serving) IN
         /\ dir # "demaskMiss"
         /\ dir = "demask" => Kept(e, c, e.original)
         /\ dir = "maskRetry" => Kept(e, c, e.masked)
         /\ dir \in {"mask", "remask"} => Apart(e, c)
<1>1. c.elem \in Elements /\ c.elem \notin StarMasked /\ c.elem \notin LabelMasked
  BY ElementFacts DEF Client
<1>2. e # Absent => e.original \in Texts /\ e.masked \in Texts /\ e = Pair(e.original, e.masked)
  BY DEF Stored, Entry, Pair
<1>3. ASSUME e # Absent, c.elem = e.masked PROVE e.original = c.elem
  BY <1>1, <1>2, <1>3, MaskIsNoElement DEF Paired
<1>4. QED
  BY <1>1, <1>2, <1>3 DEF Decide, Kept, Apart

LEMMA ReverseDecision ==
  ASSUME MasksCanBeTakenBack, NEW c \in Client, NEW e \in Stored, NEW t \in Texts, Kept(e, c, t)
  PROVE  LET dir == Decide(e, t, Serving) IN
         /\ dir # "maskRetry"
         /\ dir = "demask" => e.original = c.elem
         /\ dir = "demaskMiss" => c.lost
         /\ dir \in {"mask", "remask"} => t = c.elem /\ MaskOf(c.elem) \in {Absent, c.elem}
<1>1. c.elem \in Elements /\ c.elem \in Texts /\ c.elem \notin StarMasked /\ c.elem \notin LabelMasked
  BY ElementFacts DEF Client
<1>2. CASE e = Pair(c.elem, t)
  <2>1. e # Absent /\ e.original = c.elem /\ e.masked = t
    BY <1>1, <1>2, PairIsEntry
  <2>2. QED
    BY <2>1 DEF Decide
<1>3. CASE t = c.elem /\ MaskOf(t) = Absent /\ Apart(e, c)
  BY <1>1, <1>3 DEF Decide, Apart
<1>4. CASE c.lost /\ e = Absent /\ t = MaskOf(c.elem)
  <2>1. t = c.elem \/ t \in Shown
    BY <1>1, <1>4, AbsentAssumption DEF MasksCanBeTakenBack
  <2>2. QED
    BY <1>4, <2>1 DEF Decide, Shown
<1>5. QED
  BY <1>2, <1>3, <1>4 DEF Kept

LEMMA Direction ==
  ASSUME MasksCanBeTakenBack, NEW l, NEW a, NEW c, NEW e, NEW r, NEW d,
         Works("lookup", l, a, c, e, r, d),
         r.sys = l.sys, r.failed = l.failed, r.entry = e, r.dir = Decide(e, l.text, l.sys)
  PROVE  RequestInv("check", r, a, d, e)
<1>1. /\ Sent("lookup", l, a, c) /\ Alone("lookup", l, a, c, e) /\ Paired(e, c)
      /\ c \in Client /\ e \in Stored /\ Same(c, d)
  BY DEF Works, RequestInv, ClientInv
<1>2. l.sys = Serving /\ l.failed = "no"
  BY <1>1 DEF Sent, InEngine
<1>3. Sent("check", r, a, d)
  BY <1>1, <1>2 DEF Works, Sent, Same, InEngine, InFailure
<1>4. ASSUME l.text = c.elem, r.dir \in {"mask", "remask"} PROVE Apart(e, d)
  BY <1>1, <1>2, <1>4, ForwardDecision, SameStore
<1>5. Alone("check", r, a, d, e)
  BY <1>1, <1>4 DEF Works, Alone, Masking, Same
<1>6. ASSUME a.step = "forward" PROVE Forward("check", r, a, d, e)
  <2>1. l.text = c.elem
    BY <1>1, <1>6 DEF Sent
  <2>2. QED
    BY <1>1, <1>2, <2>1, ForwardDecision, SameStore DEF Forward
<1>7. ASSUME Sound(d), a.step = "reverse", ~d.shadowed PROVE Reverse("check", r, d)
  <2>1. Sound(c) /\ ~c.shadowed /\ c.held = l.text /\ l.text \in Texts /\ l.text # Absent
    BY <1>1, <1>7, TextSent, SameStore, AbsentAssumption DEF Sent, Same
  <2>2. Kept(e, c, l.text)
    BY <2>1 DEF Works, ClientInv, Answers
  <2>3. QED
    BY <1>1, <1>2, <2>1, <2>2, ReverseDecision DEF Works, Reverse, Masking, Same
<1>8. QED
  BY <1>3, <1>5, <1>6, <1>7 DEF RequestInv

\* An answer of the engine.
LEMMA Served ==
  ASSUME NEW at \in InEngine, NEW l, NEW a, NEW c, NEW e, NEW r, NEW d, Works(at, l, a, c, e, r, d),
         r.failed = l.failed, r.out \in Texts,
         Sound(c) /\ a.step = "forward" => Kept(e, c, r.out),
         Sound(c) /\ a.step = "reverse" /\ ~c.shadowed =>
           r.out \in {c.elem, l.text} /\ (~c.lost => r.out = c.elem)
  PROVE  RequestInv("answer", r, a, d, e)
<1>1. Sent(at, l, a, c) /\ Same(c, d) /\ l.failed = "no"
  BY DEF Works, RequestInv, Sent
<1>2. Sent("answer", r, a, d)
  BY <1>1 DEF Works, Sent, Same, InEngine, InFailure
<1>3. Alone("answer", r, a, d, e)
  BY DEF Alone, Masking
<1>4. ASSUME Sound(d), a.step = "forward" PROVE Forward("answer", r, a, d, e)
  <2>1. Kept(e, d, r.out)
    BY <1>1, <1>4, SameStore
  <2>2. QED
    BY <2>1 DEF Forward
<1>5. ASSUME Sound(d), a.step = "reverse", ~d.shadowed PROVE Reverse("answer", r, d)
  BY <1>1, <1>5, SameStore DEF Works, Reverse, Masking, Same
<1>6. QED
  BY <1>2, <1>3, <1>4, <1>5 DEF RequestInv

LEMMA Found ==
  ASSUME NEW l, NEW a, NEW c, NEW e, NEW r, NEW d, Works("check", l, a, c, e, r, d),
         r.failed = l.failed,
         \/ l.dir = "demask" /\ r.out = l.entry.original
         \/ l.dir = "maskRetry" /\ r.out = l.entry.masked
         \/ l.dir = "demaskMiss" /\ r.out = l.text
  PROVE  RequestInv("answer", r, a, d, e)
<1>1. Sent("check", l, a, c) /\ c \in Client /\ l \in LocalsType /\ Ready("check", l)
  BY DEF Works, RequestInv
<1>2. l.dir \in {"demask", "maskRetry"} => l.entry.original \in Texts /\ l.entry.masked \in Texts
  BY <1>1 DEF Ready, LocalsType, Entry
<1>3. l.text \in Texts
  BY <1>1, TextSent
<1>4. r.out \in Texts
  BY <1>2, <1>3
<1>5. ASSUME Sound(c), a.step = "forward" PROVE Kept(e, c, r.out)
  BY <1>5 DEF Works, RequestInv, Forward
<1>6. ASSUME Sound(c), a.step = "reverse", ~c.shadowed
      PROVE  r.out \in {c.elem, l.text} /\ (~c.lost => r.out = c.elem)
  BY <1>6 DEF Works, RequestInv, Reverse
<1>7. "check" \in InEngine
  BY DEF InEngine
<1>8. QED
  BY <1>4, <1>5, <1>6, <1>7, Served

LEMMA Detection ==
  ASSUME NEW l, NEW a, NEW c, NEW e, NEW d,
         NEW at, NEW to,
         \/ at = "check" /\ l.dir \in {"mask", "remask"} /\ to = "detect"
         \/ at = "detect" /\ to = "rewrite",
         Works(at, l, a, c, e, l, d)
  PROVE  RequestInv(to, l, a, d, e)
<1>1. Sent(at, l, a, c) /\ Alone(at, l, a, c, e) /\ Same(c, d) /\ Masking(at, l)
  BY DEF Works, RequestInv, Masking
<1>2. Sent(to, l, a, d)
  BY <1>1 DEF Sent, Same, InEngine, InFailure
<1>3. Alone(to, l, a, d, e)
  BY <1>1, SameStore DEF Alone, Masking, Same
<1>4. Forward(to, l, a, d, e)
  BY DEF Forward
<1>5. ASSUME Sound(d), a.step = "reverse", ~d.shadowed PROVE Reverse(to, l, d)
  BY <1>1, <1>5, SameStore DEF Works, RequestInv, Reverse, Masking, Same
<1>6. QED
  BY <1>2, <1>3, <1>4, <1>5 DEF RequestInv

\* A failing request: whatever it was about to do, the store is as it was.
LEMMA Failing ==
  ASSUME NEW at \in InEngine \ {"done"}, NEW l, NEW a, NEW c, NEW e, NEW r, NEW d, Works(at, l, a, c, e, r, d),
         r.failed # "no", d.failed
  PROVE  RequestInv("failed", r, a, d, e)
<1>1. Sent(at, l, a, c) /\ Alone(at, l, a, c, e) /\ Same(c, d) /\ at \notin {"done", "answer"}
  BY DEF Works, RequestInv, InEngine
<1>2. Sent("failed", r, a, d)
  BY <1>1 DEF Works, Sent, Same, InEngine, InFailure
<1>3. Alone("failed", r, a, d, e)
  BY <1>1 DEF Alone, Masking, Same
<1>4. Forward("failed", r, a, d, e) /\ Reverse("failed", r, d)
  BY DEF Forward, Reverse, Masking
<1>5. QED
  BY <1>2, <1>3, <1>4 DEF RequestInv

\* Nothing was replaced.
LEMMA Unchanged ==
  ASSUME MasksCanBeTakenBack, NEW l, NEW a, NEW c, NEW e, NEW r, NEW d, Works("rewrite", l, a, c, e, r, d),
         r.failed = l.failed, r.out = l.text, MaskOf(l.text) = Absent
  PROVE  RequestInv("answer", r, a, d, e)
<1>1. /\ Sent("rewrite", l, a, c) /\ Alone("rewrite", l, a, c, e) /\ Paired(e, c)
      /\ c \in Client /\ e \in Stored /\ l.text \in Texts
  BY TextSent DEF Works, RequestInv, ClientInv
<1>2. ASSUME Sound(c), a.step = "forward" PROVE Kept(e, c, r.out)
  <2>1. l.text = c.elem /\ c.elem \in Elements
    BY <1>1, <1>2 DEF Sent, Client
  <2>2. CASE c.overlapped
    <3>1. ~c.failed
      BY <1>2, <2>2 DEF Sound, Crossed
    <3>2. e # Absent => e.original \in Texts /\ e.masked \in Texts /\ e.masked = MaskOf(e.original)
      BY <1>1, <3>1 DEF Paired, Stored, Entry
    <3>3. e # Absent => e.original # c.elem /\ e.masked # c.elem
      BY <2>1, <3>2, MaskIsNoElement, AbsentAssumption
    <3>4. QED
      BY <2>1, <3>3 DEF Kept, Apart
  <2>3. CASE ~c.overlapped
    BY <1>1, <2>1, <2>3 DEF Alone, Masking, Kept
  <2>4. QED
    BY <2>2, <2>3
<1>3. ASSUME Sound(c), a.step = "reverse", ~c.shadowed PROVE r.out = c.elem
  BY <1>3 DEF Works, RequestInv, Reverse, Masking
<1>4. "rewrite" \in InEngine
  BY DEF InEngine
<1>5. QED
  BY <1>1, <1>2, <1>3, <1>4, Served

LEMMA MaskDrawn ==
  ASSUME NEW l, NEW a, NEW c, NEW e, NEW r, NEW d, Works("rewrite", l, a, c, e, r, d),
         r.failed = l.failed, r.sys = l.sys, r.masked = MaskOf(l.text)
  PROVE  RequestInv("put", r, a, d, e)
<1>1. Sent("rewrite", l, a, c) /\ Alone("rewrite", l, a, c, e) /\ Same(c, d)
  BY DEF Works, RequestInv
<1>2. Sent("put", r, a, d)
  BY <1>1 DEF Works, Sent, Same, InEngine, InFailure
<1>3. Alone("put", r, a, d, e)
  BY <1>1, SameStore DEF Works, Alone, Masking, Same
<1>4. Forward("put", r, a, d, e)
  BY DEF Forward
<1>5. ASSUME Sound(d), a.step = "reverse", ~d.shadowed PROVE Reverse("put", r, d)
  BY <1>1, <1>5, SameStore DEF Works, RequestInv, Reverse, Masking, Same
<1>6. QED
  BY <1>2, <1>3, <1>4, <1>5 DEF RequestInv

LEMMA MaskServed ==
  ASSUME NEW l, NEW a, NEW c, NEW e, NEW r, NEW d, Works("done", l, a, c, e, r, d),
         r.failed = l.failed, r.out = l.masked
  PROVE  RequestInv("answer", r, a, d, e)
<1>1. Sent("done", l, a, c) /\ l.masked \in Texts /\ "done" \in InEngine
  BY DEF Works, RequestInv, Ready, InEngine
<1>2. ASSUME Sound(c), a.step = "forward" PROVE Kept(e, c, r.out)
  BY <1>2 DEF Works, RequestInv, Forward
<1>3. ASSUME Sound(c), a.step = "reverse", ~c.shadowed PROVE r.out = c.elem
  <2>1. l.text = c.elem /\ MaskOf(c.elem) \in {Absent, c.elem}
    BY <1>3 DEF Works, RequestInv, Reverse
  <2>2. l.masked = MaskOf(c.elem)
    BY <1>1, <2>1 DEF Sent
  <2>3. QED
    BY <1>1, <2>1, <2>2, AbsentAssumption
<1>4. QED
  BY <1>1, <1>2, <1>3, Served

\* RememberIdentity before it stores anything.
LEMMA Remembering ==
  ASSUME NEW l, NEW a, NEW c, NEW e, NEW d, NEW at, NEW to,
         \/ at = "failed" /\ to = "identityGet"
         \/ at = "identityGet" /\ to = "identityPut" /\ e = Absent,
         Works(at, l, a, c, e, l, d)
  PROVE  RequestInv(to, l, a, d, e)
BY DEF Works, RequestInv, Sent, Alone, Forward, Reverse, Masking, Same, InEngine, InFailure

LEMMA IdentityStands ==
  ASSUME NEW l, NEW a, NEW c, NEW e, NEW r, NEW d, Works("identityGet", l, a, c, e, r, d),
         e # Absent, r.failed = l.failed, r.out = l.text
  PROVE  RequestInv("answer", r, a, d, e)
<1>1. /\ Sent("identityGet", l, a, c) /\ Alone("identityGet", l, a, c, e) /\ Same(c, d)
      /\ c \in Client /\ l.text \in Texts /\ l.failed # "no" /\ c.failed
  BY TextSent DEF Works, RequestInv, Sent, InFailure
<1>2. Sent("answer", r, a, d)
  BY <1>1 DEF Works, Sent, Same, InEngine, InFailure
<1>3. Alone("answer", r, a, d, e) /\ Reverse("answer", r, d)
  BY <1>1 DEF Alone, Reverse, Masking
<1>4. ASSUME Sound(d) PROVE Forward("answer", r, a, d, e)
  <2>1. ~c.overlapped
    BY <1>1, <1>4, SameStore DEF Sound, Crossed
  <2>2. a.shadowed
    BY <1>1, <2>1 DEF Alone
  <2>3. QED
    BY <1>1, <2>2 DEF Forward
<1>5. QED
  BY <1>2, <1>3, <1>4 DEF RequestInv

-----------------------------------------------------------------------------
(* A request that changes the store.                                       *)

StoredAs(f, e, o, m) == f = IF {o, m} \cap TooLong # {} THEN e ELSE Pair(o, m)

LEMMA MaskStored ==
  ASSUME MasksCanBeTakenBack, NEW l, NEW a, NEW c, NEW e, NEW d, Works("put", l, a, c, e, l, d),
         NEW f, StoredAs(f, e, l.text, l.masked)
  PROVE  /\ Sound(d) => Moves(e, c, f, d)
         /\ Paired(f, d)
         /\ RequestInv("done", l, a, d, f)
<1>1. /\ Sent("put", l, a, c) /\ Alone("put", l, a, c, e) /\ Same(c, d) /\ c \in Client
      /\ l.text \in Texts /\ l.masked \in Texts /\ l.masked = MaskOf(l.text) /\ l.masked # Absent
  BY TextSent, AbsentAssumption DEF Works, RequestInv, Sent, Ready
<1>2. c.elem \in Elements
  BY <1>1 DEF Client
<1>3. ASSUME l.text = c.elem PROVE f = Pair(c.elem, MaskOf(c.elem))
  BY <1>1, <1>2, <1>3 DEF StoredAs, MasksCanBeTakenBack
<1>4. ASSUME Sound(c) PROVE l.text = c.elem
  <2>1. CASE a.step = "forward"
    BY <1>1, <2>1 DEF Sent
  <2>2. CASE a.step = "reverse" /\ c.shadowed
    BY <1>1, <2>2 DEF Works, ClientInv, Sent
  <2>3. CASE a.step = "reverse" /\ ~c.shadowed
    BY <1>4, <2>3 DEF Works, RequestInv, Reverse, Masking
  <2>4. QED
    BY <1>1, <2>1, <2>2, <2>3 DEF Sent
<1>5. ASSUME Sound(d) PROVE Moves(e, c, f, d)
  <2>1. l.text = c.elem
    BY <1>1, <1>4, <1>5, SameStore
  <2>2. c.overlapped \/ Apart(e, c)
    BY <1>1, <2>1 DEF Alone, Masking
  <2>3. QED
    BY <1>1, <1>3, <2>1, <2>2 DEF Moves
<1>6. Paired(f, d)
  <2>1. CASE f = e
    BY <1>1, <2>1 DEF Works, ClientInv, Paired, Same
  <2>2. CASE f = Pair(l.text, l.masked)
    BY <1>1, <2>2, PairIsEntry DEF Paired
  <2>3. QED
    BY <2>1, <2>2 DEF StoredAs
<1>7. Sent("done", l, a, d)
  BY <1>1 DEF Sent, Same, InEngine, InFailure
<1>8. Alone("done", l, a, d, f)
  BY DEF Alone, Masking
<1>9. ASSUME a.step = "forward" PROVE Forward("done", l, a, d, f)
  <2>1. l.text = c.elem
    BY <1>1, <1>9 DEF Sent
  <2>2. Kept(f, d, l.masked)
    BY <1>1, <1>3, <2>1 DEF Kept, Same
  <2>3. QED
    BY <2>2 DEF Forward
<1>10. ASSUME Sound(d), a.step = "reverse", ~d.shadowed PROVE Reverse("done", l, d)
  BY <1>1, <1>10, SameStore DEF Works, RequestInv, Reverse, Masking, Same
<1>11. QED
  BY <1>5, <1>6, <1>7, <1>8, <1>9, <1>10 DEF RequestInv

LEMMA IdentityStored ==
  ASSUME MasksCanBeTakenBack, NEW l, NEW a, NEW c, NEW e, NEW r, NEW d,
         Works("identityPut", l, a, c, e, r, d), r.failed = l.failed, r.out = l.text,
         NEW f, StoredAs(f, e, l.text, l.text)
  PROVE  /\ Sound(d) => Moves(e, c, f, d)
         /\ Paired(f, d)
         /\ RequestInv("answer", r, a, d, f)
<1>1. /\ Sent("identityPut", l, a, c) /\ Alone("identityPut", l, a, c, e) /\ Same(c, d)
      /\ c \in Client /\ l.text \in Texts /\ l.failed # "no" /\ c.failed /\ d.failed
  BY TextSent DEF Works, RequestInv, Sent, InFailure, Same
<1>2. c.elem \in Elements /\ c.elem \in Texts
  BY <1>1, ElementFacts DEF Client
<1>3. ASSUME l.text = c.elem PROVE f = Pair(c.elem, c.elem)
  BY <1>1, <1>2, <1>3 DEF StoredAs, MasksCanBeTakenBack
<1>4. ASSUME Sound(c) PROVE e = Absent /\ l.text = c.elem
  <2>1. ~c.overlapped /\ ~c.lost
    BY <1>1, <1>4 DEF Sound, Crossed
  <2>2. e = Absent
    BY <1>1, <2>1 DEF Alone
  <2>3. CASE a.step = "forward"
    BY <1>1, <2>2, <2>3 DEF Sent
  <2>4. CASE a.step = "reverse" /\ c.shadowed
    BY <1>1, <2>2, <2>4 DEF Works, ClientInv, Sent
  <2>5. CASE a.step = "reverse" /\ ~c.shadowed
    <3>1. l.text = c.held /\ c.held # Absent
      BY <1>1, <2>5 DEF Sent
    <3>2. Kept(e, c, l.text)
      BY <1>4, <2>5, <3>1 DEF Works, ClientInv, Answers
    <3>3. QED
      BY <1>1, <1>2, <2>1, <2>2, <3>2, PairIsEntry DEF Kept
  <2>6. QED
    BY <1>1, <2>3, <2>4, <2>5 DEF Sent
<1>5. ASSUME Sound(d) PROVE Moves(e, c, f, d)
  BY <1>1, <1>3, <1>4, <1>5, SameStore DEF Moves
<1>6. Paired(f, d)
  <2>1. CASE f = e
    BY <1>1, <2>1 DEF Works, ClientInv, Paired, Same
  <2>2. CASE f = Pair(l.text, l.text)
    BY <1>1, <2>2, PairIsEntry DEF Paired
  <2>3. QED
    BY <2>1, <2>2 DEF StoredAs
<1>7. Sent("answer", r, a, d)
  BY <1>1 DEF Works, Sent, Same, InEngine, InFailure
<1>8. Alone("answer", r, a, d, f) /\ Reverse("answer", r, d)
  BY <1>1 DEF Alone, Reverse, Masking
<1>9. ASSUME Sound(d) PROVE Forward("answer", r, a, d, f)
  <2>1. f = Pair(c.elem, c.elem) /\ l.text = c.elem
    BY <1>1, <1>3, <1>4, <1>9, SameStore
  <2>2. Kept(f, d, r.out)
    BY <1>1, <2>1 DEF Kept, Same
  <2>3. QED
    BY <2>2 DEF Forward
<1>10. QED
  BY <1>5, <1>6, <1>7, <1>8, <1>9 DEF RequestInv

\* What becomes of the client's view of its element.
LEMMA ClientStays ==
  ASSUME MasksCanBeTakenBack, NEW c \in Client, NEW d \in Client, NEW e \in Stored, NEW f \in Stored,
         ClientInv(e, c), Grows(c, d), d.held = c.held, d.shadowed = c.shadowed,
         Sound(d) => Moves(e, c, f, d), Paired(f, d),
         \A t \in d.masks \ c.masks : Sound(d) => Kept(f, d, t)
  PROVE  ClientInv(f, d)
<1>1. d.shadowed => d.held = d.elem /\ d.failed
  BY DEF ClientInv, Grows
<1>2. ASSUME Sound(d), NEW t \in Answers(d) PROVE Kept(f, d, t)
  <2>1. CASE t \in Answers(c)
    <3>1. t \in Texts
      BY <2>1 DEF Answers, Client
    <3>2. Kept(e, c, t)
      BY <1>2, <2>1, SoundBefore DEF ClientInv
    <3>3. QED
      BY <1>2, <3>1, <3>2, KeptStays DEF ClientInv
  <2>2. CASE t \notin Answers(c)
    BY <1>2, <2>2 DEF Answers
  <2>3. QED
    BY <2>1, <2>2
<1>3. QED
  BY <1>1, <1>2 DEF ClientInv

-----------------------------------------------------------------------------
(* A step of the server, for the request that takes it.                    *)

LEMMA SlotKeys ==
  ASSUME NEW id \in PayloadIds
  PROVE  StoreKey[id] \in Keys /\ (id # BlankId => StoreKey[id] \in Slots)
BY RequestAssumption DEF Slots

LEMMA SlotsAreKeys == Slots \subseteq Keys
BY RequestAssumption DEF Slots

\* What the invariant says of one request.
LEMMA Here ==
  ASSUME HarnessInv, NEW w \in Workers, pc[w] # "idle"
  PROVE  /\ KeyOf(w) \in Slots /\ KeyOf(w) \in Keys /\ w \in InFlight(KeyOf(w))
         /\ loc[w] \in LocalsType /\ Ready(pc[w], loc[w]) /\ asked[w] \in Question
         /\ client[KeyOf(w)] \in Client /\ map[KeyOf(w)] \in Stored
         /\ Requested(w) /\ ClientInv(map[KeyOf(w)], client[KeyOf(w)])
         /\ Sent(pc[w], loc[w], asked[w], client[KeyOf(w)])
<1>1. loc[w] \in LocalsType /\ Ready(pc[w], loc[w]) /\ asked[w] \in Question /\ Requested(w)
  BY DEF HarnessInv, HarnessTypeOK, TypeOK
<1>2. Sent(pc[w], loc[w], asked[w], client[KeyOf(w)])
  BY <1>1 DEF Requested, RequestInv
<1>3. loc[w].id # BlankId /\ loc[w].id \in PayloadIds
  BY <1>1, <1>2 DEF Sent, LocalsType
<1>4. KeyOf(w) \in Slots /\ KeyOf(w) \in Keys
  BY <1>3, SlotKeys DEF KeyOf
<1>5. QED
  BY <1>1, <1>2, <1>4 DEF HarnessInv, HarnessTypeOK, TypeOK, Stored, InFlight

\* What the harness notes of a step of the server.
LEMMA NotedAt ==
  ASSUME HarnessTypeOK, Noted, NEW k \in Slots
  PROVE  /\ client'[k].elem = client[k].elem /\ client'[k].stage = client[k].stage
         /\ client'[k].held = client[k].held /\ client'[k].shadowed = client[k].shadowed
         /\ client'[k].overlapped = client[k].overlapped
         /\ client'[k].number = client[k].number /\ client'[k].tries = client[k].tries
         /\ client'[k].lost = (client[k].lost \/ (map[k] # Absent /\ map'[k] = Absent))
         /\ client'[k].failed = (client[k].failed \/ \E w \in InFlight(k) : pc'[w] = "failed")
         /\ client'[k].masks = client[k].masks \cup {loc'[w].out : w \in {x \in InFlight(k) :
              /\ asked[x].step = "forward" /\ pc'[x] = "answer"
              /\ loc'[x].status = 200 /\ loc'[x].failed = "no"}}
<1>1. client[k] \in Client
  BY DEF HarnessTypeOK
<1>2. client'[k] = [client[k] EXCEPT
       !.lost = @ \/ (map[k] # Absent /\ map'[k] = Absent),
       !.failed = @ \/ \E w \in InFlight(k) : pc'[w] = "failed",
       !.masks = @ \cup {loc'[w].out : w \in {x \in InFlight(k) :
         /\ asked[x].step = "forward" /\ pc'[x] = "answer"
         /\ loc'[x].status = 200 /\ loc'[x].failed = "no"}}]
  BY DEF Noted
<1>3. QED
  BY <1>1, <1>2 DEF Client

LEMMA NotedGrows ==
  ASSUME HarnessTypeOK, Noted, NEW k \in Slots
  PROVE  Grows(client[k], client'[k]) /\ (map'[k] # Absent \/ map'[k] = map[k] => Same(client[k], client'[k]))
<1>1. client[k] \in Client
  BY DEF HarnessTypeOK
<1>2. client[k].lost \in BOOLEAN
  BY <1>1 DEF Client
<1>3. Grows(client[k], client'[k])
  BY NotedAt DEF Grows
<1>4. map'[k] # Absent \/ map'[k] = map[k] => client'[k].lost = client[k].lost
  BY <1>2, NotedAt
<1>5. QED
  BY <1>3, <1>4, NotedAt DEF Same

\* A request that goes on is in the situation the lemmas above are about.
LEMMA Working ==
  ASSUME HarnessInv, Noted, NEW w \in Workers, pc[w] # "idle",
         loc'[w].id = loc[w].id, loc'[w].header = loc[w].header, loc'[w].text = loc[w].text,
         LET k == KeyOf(w) IN map'[k] # Absent \/ map'[k] = map[k]
  PROVE  LET k == KeyOf(w) IN
         /\ KeyOf(w)' = k /\ asked'[w] = asked[w]
         /\ Works(pc[w], loc[w], asked[w], client[k], map[k], loc'[w], client'[k])
         /\ pc'[w] = "failed" => client'[k].failed
<1>1. KeyOf(w)' = KeyOf(w)
  BY DEF KeyOf
<1>2. Same(client[KeyOf(w)], client'[KeyOf(w)])
  BY Here, NotedGrows DEF HarnessInv
<1>3. pc'[w] = "failed" => client'[KeyOf(w)].failed
  <2>1. KeyOf(w) \in Slots /\ w \in InFlight(KeyOf(w)) /\ HarnessTypeOK
    BY Here DEF HarnessInv
  <2>2. client'[KeyOf(w)].failed
          = (client[KeyOf(w)].failed \/ \E x \in InFlight(KeyOf(w)) : pc'[x] = "failed")
    BY <2>1, NotedAt
  <2>3. QED
    BY <2>1, <2>2
<1>4. QED
  BY <1>1, <1>2, <1>3, Here DEF Works, Requested, Noted

\* The configuration serves the harness as it always does.
LEMMA Steady ==
  ASSUME MasksCanBeTakenBack, TypeOK
  PROVE  /\ Resolved(cfg, Header) = Serving /\ Serving # Absent /\ Serving.demask
         /\ \A w \in Workers :
              loc[w].sys = Serving /\ loc[w].text \in Texts => MaskWith(w) = MaskOf(loc[w].text)
<1>1. cfg \in Configs
  BY DEF TypeOK
<1>2. SystemIn(cfg) = Serving /\ \A t \in Texts : MaskIn(cfg, t) = MaskOf(t)
  BY <1>1 DEF MasksCanBeTakenBack
<1>3. ASSUME NEW w \in Workers, loc[w].sys = Serving, loc[w].text \in Texts
      PROVE  MaskWith(w) = MaskOf(loc[w].text)
  <2>1. MaskIn(cfg, loc[w].text) = MaskOf(loc[w].text)
    BY <1>2, <1>3
  <2>2. loc[w].sys = SystemIn(cfg)
    BY <1>2, <1>3
  <2>3. MaskWith(w) = MaskIn(cfg, loc[w].text)
    BY <2>2, Zenon DEF MaskWith, MaskIn
  <2>4. QED
    BY <2>1, <2>3
<1>4. Resolved(cfg, Header) = Serving /\ Serving # Absent /\ Serving.demask
  BY <1>2 DEF SystemIn, MasksCanBeTakenBack
<1>5. QED
  BY <1>3, <1>4

\* Refusals and other answers without a text, and a request admitted.
LEMMA AdmissionRequested ==
  ASSUME MasksCanBeTakenBack, HarnessInv, Noted, NEW w \in Workers,
         Refuse(w) \/ Reject(w) \/ AnswerEmpty(w) \/ Admit(w) \/ ResolveSystem(w) \/ Unavailable(w)
         \/ FailClosed(w)
  PROVE  Requested(w)'
<1> DEFINE k == KeyOf(w)
<1>1. TypeOK /\ map' = map
  BY DEF HarnessInv, HarnessTypeOK, Refuse, Reject, AnswerEmpty, Admit, ResolveSystem, Unavailable,
     FailClosed
<1>2. ASSUME NEW from, from # "idle", NEW status, status # 200, NEW out, Reply(w, from, status, out)
      PROVE  Requested(w)'
  <2>1. /\ pc[w] = from /\ pc'[w] = "answer" /\ loc'[w].id = loc[w].id
        /\ loc'[w].header = loc[w].header /\ loc'[w].text = loc[w].text /\ loc'[w].status = status
    BY <1>1, <1>2, ReplyFacts
  <2>2. /\ KeyOf(w)' = k /\ asked'[w] = asked[w]
        /\ Works(from, loc[w], asked[w], client[k], map[k], loc'[w], client'[k])
    BY <1>1, <1>2, <2>1, Working
  <2>3. RequestInv("answer", loc'[w], asked[w], client'[k], map[k])
    BY <1>2, <2>1, <2>2, Refusal
  <2>4. QED
    BY <1>1, <2>1, <2>2, <2>3 DEF Requested
<1>3. CASE Refuse(w)
  <2>1. Reply(w, "authorize", AuthStatus(w), Absent) /\ AuthStatus(w) # 200
    BY <1>3, AuthStatusIs DEF Refuse
  <2>2. PICK status : status = AuthStatus(w)
    OBVIOUS
  <2>3. status # 200 /\ Reply(w, "authorize", status, Absent)
    BY <2>1, <2>2
  <2>4. QED
    BY <1>2, <2>3
<1>4. CASE Reject(w) \/ Unavailable(w)
  BY <1>2, <1>4 DEF Reject, Unavailable
<1>5. CASE FailClosed(w)
  <2>1. \E status \in {503, 504} : Reply(w, "failed", status, Absent)
    BY <1>5 DEF FailClosed
  <2>2. QED
    BY <1>2, <2>1
<1>6. CASE AnswerEmpty(w)
  <2>1. pc[w] # "idle" /\ loc[w].text = EmptyText
    BY <1>6 DEF AnswerEmpty, Reply, Goto
  <2>2. QED
    BY <2>1, Here, TextSent
<1>7. CASE Admit(w)
  <2>1. pc[w] = "authorize" /\ pc'[w] = "resolve" /\ loc'[w] = loc[w]
    BY <1>1, <1>7, MoveFacts DEF Admit
  <2>2. QED
    BY <1>1, <2>1, Working, Admission DEF Requested
<1>8. CASE ResolveSystem(w)
  <2> DEFINE s == Resolved(cfg, loc[w].header)
             r == [loc[w] EXCEPT !.sys = s]
  <2>1. Goto(w, "resolve", "lookup") /\ loc' = [loc EXCEPT ![w] = r]
    BY <1>8 DEF ResolveSystem
  <2>2. pc[w] = "resolve" /\ loc[w] \in LocalsType
    BY <1>1, <2>1 DEF Goto, TypeOK
  <2>3. /\ r.id = loc[w].id /\ r.header = loc[w].header /\ r.text = loc[w].text
        /\ r.failed = loc[w].failed /\ r.sys = s
    BY <2>2 DEF LocalsType
  <2>4. s = Serving
    <3>1. loc[w].header = Header
      BY <2>2, Here DEF Sent
    <3>2. QED
      BY <1>1, <3>1, Steady
  <2> HIDE DEF r, s
  <2>5. pc'[w] = "lookup" /\ loc'[w] = r
    BY <1>1, <2>1, StepFacts
  <2>6. QED
    BY <1>1, <2>2, <2>3, <2>4, <2>5, Working, Resolution DEF Requested
<1>9. QED
  BY <1>3, <1>4, <1>5, <1>6, <1>7, <1>8

LEMMA LookupRequested ==
  ASSUME MasksCanBeTakenBack, HarnessInv, Noted, NEW w \in Workers, Lookup(w)
  PROVE  Requested(w)'
<1> DEFINE e == map[KeyOf(w)]
           dir == Decide(e, loc[w].text, loc[w].sys)
           r == [loc[w] EXCEPT !.entry = e, !.dir = dir]
<1>1. TypeOK /\ map' = map
  BY DEF HarnessInv, HarnessTypeOK, Lookup, Direct
<1>2. Goto(w, "lookup", "check") /\ loc' = [loc EXCEPT ![w] = r]
  BY DEF Lookup, Direct
<1>3. pc[w] = "lookup" /\ loc[w] \in LocalsType
  BY <1>1, <1>2 DEF Goto, TypeOK
<1> HIDE DEF e, dir
<1>4. /\ r.id = loc[w].id /\ r.header = loc[w].header /\ r.text = loc[w].text
      /\ r.failed = loc[w].failed /\ r.sys = loc[w].sys /\ r.entry = e /\ r.dir = dir
  BY <1>3 DEF LocalsType
<1> HIDE DEF r
<1>5. pc'[w] = "check" /\ loc'[w] = r
  BY <1>1, <1>2, StepFacts
<1>6. /\ KeyOf(w)' = KeyOf(w) /\ asked'[w] = asked[w]
      /\ Works("lookup", loc[w], asked[w], client[KeyOf(w)], e, r, client'[KeyOf(w)])
  BY <1>1, <1>3, <1>4, <1>5, Working DEF e
<1>7. RequestInv("check", r, asked[w], client'[KeyOf(w)], e)
  BY <1>4, <1>6, Direction DEF dir
<1>8. QED
  BY <1>1, <1>5, <1>6, <1>7 DEF Requested, e

LEMMA FailingRequested ==
  ASSUME HarnessInv, Noted, NEW w \in Workers, CheckLate(w) \/ DetectLate(w) \/ DetectPanics(w)
  PROVE  Requested(w)'
<1>1. TypeOK /\ map' = map
  BY DEF HarnessInv, HarnessTypeOK, CheckLate, DetectLate, DetectPanics, Abandon
<1>2. ASSUME NEW from \in {"check", "detect"}, NEW r, Goto(w, from, "failed"),
             loc' = [loc EXCEPT ![w] = r], r.id = loc[w].id, r.header = loc[w].header,
             r.text = loc[w].text, r.failed # "no"
      PROVE  Requested(w)'
  <2>1. pc[w] = from /\ pc'[w] = "failed" /\ loc'[w] = r /\ from \in InEngine \ {"done"}
    BY <1>1, <1>2, StepFacts DEF InEngine
  <2>2. QED
    BY <1>1, <1>2, <2>1, Working, Failing DEF Requested
<1>3. loc[w] \in LocalsType
  BY <1>1 DEF TypeOK
<1>4. CASE CheckLate(w) \/ DetectLate(w)
  <2>1. PICK from \in {"check", "detect"}, op \in {"mask", "demask"} : Abandon(w, from, op)
    BY <1>4 DEF CheckLate, DetectLate
  <2> DEFINE r == [loc[w] EXCEPT !.failed = "timeout", !.op = op, !.samples = loc[w].samples + 1]
  <2>2. Goto(w, from, "failed") /\ loc' = [loc EXCEPT ![w] = r]
    BY <2>1 DEF Abandon
  <2>3. /\ r.id = loc[w].id /\ r.header = loc[w].header /\ r.text = loc[w].text
        /\ r.failed # "no"
    BY <1>3 DEF LocalsType
  <2> HIDE DEF r
  <2>4. QED
    BY <1>2, <2>2, <2>3
<1>5. CASE DetectPanics(w)
  <2> DEFINE r == [loc[w] EXCEPT !.failed = "panic"]
  <2>1. Goto(w, "detect", "failed") /\ loc' = [loc EXCEPT ![w] = r]
    BY <1>5 DEF DetectPanics
  <2>2. /\ r.id = loc[w].id /\ r.header = loc[w].header /\ r.text = loc[w].text
        /\ r.failed # "no"
    BY <1>3 DEF LocalsType
  <2> HIDE DEF r
  <2>3. QED
    BY <1>2, <2>1, <2>2
<1>6. QED
  BY <1>4, <1>5

LEMMA CheckRequested ==
  ASSUME MasksCanBeTakenBack, HarnessInv, Noted, NEW w \in Workers,
         Demask(w) \/ MaskRetry(w) \/ DemaskMiss(w) \/ MaskInto(w) \/ Detected(w)
  PROVE  Requested(w)'
<1>1. TypeOK /\ map' = map
  BY DEF HarnessInv, HarnessTypeOK, Demask, MaskRetry, DemaskMiss, MaskInto, Detected
<1>2. ASSUME NEW op, NEW out, NEW cached, Finish(w, "check", op, out, cached),
             \/ loc[w].dir = "demask" /\ out = loc[w].entry.original
             \/ loc[w].dir = "maskRetry" /\ out = loc[w].entry.masked
             \/ loc[w].dir = "demaskMiss" /\ out = loc[w].text
      PROVE  Requested(w)'
  <2>1. /\ pc[w] = "check" /\ pc'[w] = "answer" /\ loc'[w].id = loc[w].id
        /\ loc'[w].header = loc[w].header /\ loc'[w].text = loc[w].text
        /\ loc'[w].failed = loc[w].failed /\ loc'[w].out = out
    BY <1>1, <1>2, FinishFacts
  <2>2. QED
    BY <1>1, <1>2, <2>1, Working, Found DEF Requested
<1>3. CASE Demask(w) \/ MaskRetry(w) \/ DemaskMiss(w)
  BY <1>2, <1>3 DEF Demask, MaskRetry, DemaskMiss
<1>4. CASE MaskInto(w) \/ Detected(w)
  <2>1. PICK from, to : /\ pc[w] = from /\ pc'[w] = to /\ loc'[w] = loc[w]
                        /\ \/ from = "check" /\ loc[w].dir \in {"mask", "remask"} /\ to = "detect"
                           \/ from = "detect" /\ to = "rewrite"
    BY <1>1, <1>4, MoveFacts DEF MaskInto, Detected
  <2>2. QED
    BY <1>1, <2>1, Working, Detection DEF Requested
<1>5. QED
  BY <1>3, <1>4

LEMMA RewriteRequested ==
  ASSUME MasksCanBeTakenBack, HarnessInv, Noted, NEW w \in Workers,
         NothingMasked(w) \/ Masked(w) \/ Done(w)
  PROVE  Requested(w)'
<1>1. TypeOK /\ map' = map
  BY DEF HarnessInv, HarnessTypeOK, NothingMasked, Masked, Done
<1>2. ASSUME pc[w] = "rewrite" PROVE MaskWith(w) = MaskOf(loc[w].text) /\ loc[w].sys.demask
  <2>1. loc[w].sys = Serving /\ loc[w].text \in Texts
    BY <1>2, Here, TextSent DEF Sent, InEngine
  <2>2. QED
    BY <1>1, <2>1, Steady
<1>3. CASE NothingMasked(w)
  <2>0. PICK cached : Finish(w, "rewrite", "mask", loc[w].text, cached)
    BY <1>3 DEF NothingMasked
  <2>1. /\ pc[w] = "rewrite" /\ pc'[w] = "answer" /\ loc'[w].id = loc[w].id
        /\ loc'[w].header = loc[w].header /\ loc'[w].text = loc[w].text
        /\ loc'[w].failed = loc[w].failed /\ loc'[w].out = loc[w].text
    BY <1>1, <2>0, FinishFacts
  <2>2. MaskOf(loc[w].text) = Absent
    BY <1>2, <1>3, <2>1 DEF NothingMasked
  <2>3. QED
    BY <1>1, <2>1, <2>2, Working, Unchanged DEF Requested
<1>4. CASE Masked(w)
  <2> DEFINE r == [loc[w] EXCEPT !.masked = MaskWith(w)]
  <2>1. Goto(w, "rewrite", IF loc[w].sys.demask THEN "put" ELSE "done") /\ loc' = [loc EXCEPT ![w] = r]
    BY <1>4 DEF Masked
  <2>2. pc[w] = "rewrite" /\ loc[w] \in LocalsType
    BY <1>1, <2>1 DEF Goto, TypeOK
  <2>3. /\ r.id = loc[w].id /\ r.header = loc[w].header /\ r.text = loc[w].text
        /\ r.failed = loc[w].failed /\ r.sys = loc[w].sys /\ r.masked = MaskWith(w)
    BY <2>2 DEF LocalsType
  <2> HIDE DEF r
  <2>4. pc'[w] = "put" /\ loc'[w] = r
    BY <1>1, <1>2, <2>1, <2>2, StepFacts
  <2>5. QED
    BY <1>1, <1>2, <2>2, <2>3, <2>4, Working, MaskDrawn DEF Requested
<1>5. CASE Done(w)
  <2>0. PICK cached : Finish(w, "done", "mask", loc[w].masked, cached)
    BY <1>5 DEF Done
  <2>1. /\ pc[w] = "done" /\ pc'[w] = "answer" /\ loc'[w].id = loc[w].id
        /\ loc'[w].header = loc[w].header /\ loc'[w].text = loc[w].text
        /\ loc'[w].failed = loc[w].failed /\ loc'[w].out = loc[w].masked
    BY <1>1, <2>0, FinishFacts
  <2>2. QED
    BY <1>1, <2>1, Working, MaskServed DEF Requested
<1>6. QED
  BY <1>3, <1>4, <1>5

LEMMA RememberRequested ==
  ASSUME MasksCanBeTakenBack, HarnessInv, Noted, NEW w \in Workers,
         IdentityRefused(w) \/ IdentityAllowed(w) \/ IdentityFound(w) \/ IdentityAbsent(w)
  PROVE  Requested(w)'
<1>1. TypeOK /\ map' = map
  BY DEF HarnessInv, HarnessTypeOK, IdentityRefused, IdentityAllowed, IdentityFound, IdentityAbsent, Echo
<1>2. CASE IdentityRefused(w)
  <2>1. pc[w] = "failed" /\ ~MayRemember(w)
    BY <1>2 DEF IdentityRefused, Echo, Reply, Goto
  <2>2. loc[w].header = Header
    BY <2>1, Here DEF Sent
  <2>3. QED
    BY <1>1, <2>1, <2>2, Steady DEF MayRemember
<1>3. CASE IdentityAllowed(w) \/ IdentityAbsent(w)
  <2>1. PICK from, to : /\ pc[w] = from /\ pc'[w] = to /\ loc'[w] = loc[w]
                        /\ \/ from = "failed" /\ to = "identityGet"
                           \/ from = "identityGet" /\ to = "identityPut" /\ map[KeyOf(w)] = Absent
    BY <1>1, <1>3, MoveFacts DEF IdentityAllowed, IdentityAbsent
  <2>2. QED
    BY <1>1, <2>1, Working, Remembering DEF Requested
<1>4. CASE IdentityFound(w)
  <2>1. Reply(w, "identityGet", 200, loc[w].text) /\ map[KeyOf(w)] # Absent
    BY <1>4 DEF IdentityFound, Echo
  <2>2. /\ pc[w] = "identityGet" /\ pc'[w] = "answer" /\ loc'[w].id = loc[w].id
        /\ loc'[w].header = loc[w].header /\ loc'[w].text = loc[w].text
        /\ loc'[w].failed = loc[w].failed /\ loc'[w].out = loc[w].text
    BY <1>1, <2>1, ReplyFacts
  <2>3. QED
    BY <1>1, <2>1, <2>2, Working, IdentityStands DEF Requested
<1>5. QED
  BY <1>2, <1>3, <1>4

\* What the step does to the store agrees with what the harness relies on.
StoreServes(k) ==
  /\ Sound(client'[k]) => Moves(map[k], client[k], map'[k], client'[k])
  /\ Paired(map'[k], client'[k])

LEMMA QuietServes ==
  ASSUME HarnessInv, Noted, NEW k \in Slots, map'[k] = map[k]
  PROVE  StoreServes(k)
<1>1. ClientInv(map[k], client[k]) /\ Same(client[k], client'[k])
  BY NotedGrows DEF HarnessInv
<1>2. QED
  BY <1>1 DEF StoreServes, Moves, ClientInv, Paired, Same

LEMMA StoreRequested ==
  ASSUME MasksCanBeTakenBack, HarnessInv, Noted, NEW w \in Workers, Put(w) \/ IdentityPut(w)
  PROVE  /\ Requested(w)' /\ StoreServes(KeyOf(w))
         /\ \A j \in Keys \ {KeyOf(w)} : map'[j] = map[j]
<1> DEFINE k == KeyOf(w)
<1>1. TypeOK /\ map \in [Keys -> Entry \cup {Absent}]
  BY DEF HarnessInv, HarnessTypeOK, TypeOK
<1>2. ASSUME NEW o \in Texts, NEW m \in Texts, Remember(w, o, m), k \in Keys
      PROVE  /\ StoredAs(map'[k], map[k], o, m) /\ (map'[k] # Absent \/ map'[k] = map[k])
             /\ \A j \in Keys \ {k} : map'[j] = map[j]
  BY <1>1, <1>2, PairIsEntry DEF Remember, StoredAs, Pair
<1>3. CASE Put(w)
  <2>1. /\ Remember(w, loc[w].text, loc[w].masked) /\ pc[w] = "put" /\ pc'[w] = "done"
        /\ loc'[w] = loc[w]
    BY <1>1, <1>3, MoveFacts DEF Put
  <2>2. k \in Keys /\ loc[w].text \in Texts /\ loc[w].masked \in Texts
    BY <2>1, Here, TextSent DEF Ready
  <2>3. /\ StoredAs(map'[k], map[k], loc[w].text, loc[w].masked)
        /\ map'[k] # Absent \/ map'[k] = map[k]
        /\ \A j \in Keys \ {k} : map'[j] = map[j]
    BY <1>2, <2>1, <2>2
  <2>4. /\ KeyOf(w)' = k /\ asked'[w] = asked[w]
        /\ Works("put", loc[w], asked[w], client[k], map[k], loc[w], client'[k])
    BY <2>1, <2>3, Working
  <2>5. /\ Sound(client'[k]) => Moves(map[k], client[k], map'[k], client'[k])
        /\ Paired(map'[k], client'[k])
        /\ RequestInv("done", loc[w], asked[w], client'[k], map'[k])
    BY <2>3, <2>4, MaskStored
  <2>6. QED
    BY <2>1, <2>3, <2>4, <2>5 DEF Requested, StoreServes
<1>4. CASE IdentityPut(w)
  <2>1. Remember(w, loc[w].text, loc[w].text) /\ Reply(w, "identityPut", 200, loc[w].text)
    BY <1>4 DEF IdentityPut
  <2>2. /\ pc[w] = "identityPut" /\ pc'[w] = "answer" /\ loc'[w].id = loc[w].id
        /\ loc'[w].header = loc[w].header /\ loc'[w].text = loc[w].text
        /\ loc'[w].failed = loc[w].failed /\ loc'[w].out = loc[w].text
    BY <1>1, <2>1, ReplyFacts
  <2>3. k \in Keys /\ loc[w].text \in Texts
    BY <2>2, Here, TextSent
  <2>4. /\ StoredAs(map'[k], map[k], loc[w].text, loc[w].text)
        /\ map'[k] # Absent \/ map'[k] = map[k]
        /\ \A j \in Keys \ {k} : map'[j] = map[j]
    BY <1>2, <2>1, <2>3
  <2>5. /\ KeyOf(w)' = k /\ asked'[w] = asked[w]
        /\ Works("identityPut", loc[w], asked[w], client[k], map[k], loc'[w], client'[k])
    BY <2>2, <2>4, Working
  <2>6. /\ Sound(client'[k]) => Moves(map[k], client[k], map'[k], client'[k])
        /\ Paired(map'[k], client'[k])
        /\ RequestInv("answer", loc'[w], asked[w], client'[k], map'[k])
    BY <2>2, <2>4, <2>5, IdentityStored
  <2>7. QED
    BY <2>2, <2>4, <2>5, <2>6 DEF Requested, StoreServes
<1>5. QED
  BY <1>3, <1>4

-----------------------------------------------------------------------------
(* The steps of the server keep the invariant.                             *)

LEMMA HandleRequested ==
  ASSUME MasksCanBeTakenBack, HarnessInv, Noted, NEW w \in Workers, Handle(w)
  PROVE  /\ Requested(w)' /\ \A k \in Slots : StoreServes(k)
         /\ \A j \in Keys \ {KeyOf(w)} : map'[j] = map[j]
<1>1. CASE map' = map
  <2>1. \A k \in Slots : StoreServes(k)
    BY <1>1, QuietServes
  <2>2. CASE Put(w) \/ IdentityPut(w)
    BY <1>1, <2>1, <2>2, StoreRequested
  <2>3. CASE ~Put(w) /\ ~IdentityPut(w)
    <3>1. Requested(w)'
      BY <2>3, AdmissionRequested, LookupRequested, FailingRequested, CheckRequested,
         RewriteRequested, RememberRequested DEF Handle, Engine, Failure
    <3>2. QED
      BY <1>1, <2>1, <3>1
  <2>4. QED
    BY <2>2, <2>3
<1>2. CASE Put(w) \/ IdentityPut(w)
  <2>1. /\ Requested(w)' /\ StoreServes(KeyOf(w))
        /\ \A j \in Keys \ {KeyOf(w)} : map'[j] = map[j]
    BY <1>2, StoreRequested
  <2>2. ASSUME NEW k \in Slots, k # KeyOf(w) PROVE StoreServes(k)
    BY <2>1, <2>2, QuietServes, SlotsAreKeys
  <2>3. QED
    BY <2>1, <2>2
<1>3. QED
  BY <1>1, <1>2, StoreUntouched

\* A request that takes no step of its own.
LEMMA OtherRequested ==
  ASSUME MasksCanBeTakenBack, HarnessInv, Noted, TypeOK', NEW v \in Workers, pc[v] # "idle",
         pc'[v] = pc[v], loc'[v] = loc[v] \/ loc'[v] = [loc[v] EXCEPT !.late = TRUE],
         StoreServes(KeyOf(v)),
         ~client[KeyOf(v)].overlapped => map'[KeyOf(v)] \in {map[KeyOf(v)], Absent}
  PROVE  Requested(v)' /\ loc'[v].id = loc[v].id
<1> DEFINE k == KeyOf(v)
<1>1. /\ k \in Slots /\ k \in Keys /\ loc[v] \in LocalsType /\ Ready(pc[v], loc[v])
      /\ asked[v] \in Question /\ client[k] \in Client /\ map[k] \in Stored
      /\ RequestInv(pc[v], loc[v], asked[v], client[k], map[k]) /\ Paired(map[k], client[k])
  BY Here DEF Requested, ClientInv
<1>2. map'[k] \in Stored /\ loc'[v] \in LocalsType
  BY <1>1 DEF TypeOK, Stored
<1>3. loc'[v].id = loc[v].id
  BY <1>1 DEF LocalsType
<1>4. /\ Grows(client[k], client'[k]) /\ asked'[v] = asked[v]
      /\ client'[k].stage = client[k].stage /\ client'[k].held = client[k].held
      /\ client'[k].shadowed = client[k].shadowed /\ client'[k].overlapped = client[k].overlapped
  BY <1>1, NotedAt, NotedGrows DEF HarnessInv, Noted
<1>5. Sound(client'[k]) => Moves(map[k], client[k], map'[k], client'[k])
  BY DEF StoreServes
<1>6. RequestInv(pc[v], loc'[v], asked[v], client'[k], map'[k])
  BY <1>1, <1>2, <1>4, <1>5, Bystander
<1>7. KeyOf(v)' = k
  BY <1>3 DEF KeyOf
<1>8. QED
  BY <1>3, <1>4, <1>6, <1>7 DEF Requested

\* What is left to show for the invariant, once the requests are dealt with.
LEMMA ServerKeeps ==
  ASSUME MasksCanBeTakenBack, HarnessInv, Noted, TypeOK',
         \A k \in Slots : StoreServes(k),
         \A v \in Workers : pc'[v] # "idle" =>
           pc[v] # "idle" /\ loc'[v].id = loc[v].id /\ Requested(v)'
  PROVE  HarnessInv'
<1>1. HarnessTypeOK /\ asked' = asked
  BY DEF HarnessInv, Noted
<1>2. ASSUME NEW v \in Workers, pc'[v] # "idle"
      PROVE  /\ pc[v] # "idle" /\ KeyOf(v)' = KeyOf(v)
             /\ RequestInv(pc'[v], loc'[v], asked[v], client'[KeyOf(v)], map'[KeyOf(v)])
  <2>1. KeyOf(v)' = KeyOf(v)
    BY <1>2 DEF KeyOf
  <2>2. QED
    BY <1>1, <1>2, <2>1 DEF Requested
<1>3. ASSUME NEW k \in Slots, NEW x \in InFlight(k), asked[x].step = "forward",
             pc'[x] = "answer", loc'[x].status = 200, loc'[x].failed = "no"
      PROVE  loc'[x].out \in Texts /\ (Sound(client'[k]) => Kept(map'[k], client'[k], loc'[x].out))
  <2>1. x \in Workers /\ KeyOf(x) = k
    BY DEF InFlight
  <2>2. RequestInv("answer", loc'[x], asked[x], client'[k], map'[k])
    BY <1>2, <1>3, <2>1
  <2>3. QED
    BY <1>3, <2>2 DEF RequestInv, Sent, Forward
<1>4. ASSUME NEW k \in Slots PROVE client'[k] \in Client /\ ClientInv(map'[k], client'[k])
  <2> DEFINE c == client[k]
             d == client'[k]
             told == {loc'[w].out : w \in {x \in InFlight(k) :
                        /\ asked[x].step = "forward" /\ pc'[x] = "answer"
                        /\ loc'[x].status = 200 /\ loc'[x].failed = "no"}}
  <2>1. c \in Client /\ map[k] \in Stored /\ map'[k] \in Stored /\ ClientInv(map[k], c)
    BY <1>1, SlotsAreKeys DEF HarnessTypeOK, HarnessInv, TypeOK, Stored
  <2>2. d = [c EXCEPT !.lost = @ \/ (map[k] # Absent /\ map'[k] = Absent),
                      !.failed = @ \/ \E w \in InFlight(k) : pc'[w] = "failed",
                      !.masks = @ \cup told]
    BY DEF Noted
  <2>3. \A t \in told : t \in Texts /\ (Sound(d) => Kept(map'[k], d, t))
    BY <1>3
  <2>4. d.masks = c.masks \cup told /\ Grows(c, d) /\ d.held = c.held /\ d.shadowed = c.shadowed
    BY <1>1, NotedAt, NotedGrows
  <2> HIDE DEF told
  <2>5. d \in Client
    <3>1. d.lost \in BOOLEAN /\ d.failed \in BOOLEAN /\ d.masks \in SUBSET Texts
      BY <1>1, <2>1, <2>3, <2>4, NotedAt DEF Client
    <3>2. d = [c EXCEPT !.lost = d.lost, !.failed = d.failed, !.masks = d.masks]
      BY <2>1, <2>2 DEF Client
    <3> HIDE DEF d
    <3>3. QED
      BY <2>1, <3>1, <3>2 DEF Client
  <2> HIDE DEF c, d
  <2>6. (Sound(d) => Moves(map[k], c, map'[k], d)) /\ Paired(map'[k], d)
    BY DEF StoreServes, c, d
  <2>7. ClientInv(map'[k], d)
    BY <2>1, <2>3, <2>4, <2>5, <2>6, ClientStays
  <2>8. QED
    BY <2>5, <2>7 DEF d
<1>5. client' \in [Slots -> Client]
  BY <1>4 DEF Noted
<1>6. HarnessTypeOK'
  BY <1>1, <1>5 DEF HarnessTypeOK
<1>7. ASSUME NEW k \in Slots, ~client'[k].overlapped, NEW v \in InFlight(k)', NEW x \in InFlight(k)'
      PROVE  v = x
  <2>1. v \in InFlight(k) /\ x \in InFlight(k)
    BY <1>2, <1>7 DEF InFlight
  <2>2. ~client[k].overlapped
    BY <1>1, <1>7, NotedAt
  <2>3. QED
    BY <2>1, <2>2 DEF HarnessInv
<1>8. QED
  BY <1>4, <1>6, <1>7 DEF HarnessInv

LEMMA HandleKeeps ==
  ASSUME MasksCanBeTakenBack, HarnessInv, Noted, NEW w \in Workers, Handle(w)
  PROVE  HarnessInv'
<1>1. TypeOK /\ TypeOK'
  BY NextTypes DEF HarnessInv, HarnessTypeOK, Next
<1>2. pc[w] # "idle" /\ loc'[w].id = loc[w].id
  BY <1>1, CallGoesOn
<1>3. /\ Requested(w)' /\ \A k \in Slots : StoreServes(k)
      /\ \A j \in Keys \ {KeyOf(w)} : map'[j] = map[j]
  BY HandleRequested
<1>4. ASSUME NEW v \in Workers, v # w, pc'[v] # "idle"
      PROVE  pc[v] # "idle" /\ loc'[v].id = loc[v].id /\ Requested(v)'
  <2>1. pc'[v] = pc[v] /\ loc'[v] = loc[v] /\ pc[v] # "idle"
    BY <1>1, <1>4, OthersStay
  <2>2. KeyOf(v) \in Slots /\ KeyOf(v) \in Keys /\ v \in InFlight(KeyOf(v))
    BY <2>1, Here
  <2>3. ASSUME ~client[KeyOf(v)].overlapped PROVE map'[KeyOf(v)] = map[KeyOf(v)]
    <3>1. KeyOf(v) # KeyOf(w)
      BY <1>2, <1>4, <2>2, <2>3, Here DEF HarnessInv
    <3>2. QED
      BY <1>3, <2>2, <3>1
  <2>4. QED
    BY <1>1, <1>3, <2>1, <2>2, <2>3, OtherRequested
<1>5. QED
  BY <1>1, <1>2, <1>3, <1>4, ServerKeeps

LEMMA SurroundingsKeep ==
  ASSUME MasksCanBeTakenBack, HarnessInv, Noted, Surroundings
  PROVE  HarnessInv'
<1>1. TypeOK /\ TypeOK' /\ map \in [Keys -> Stored]
  BY NextTypes DEF HarnessInv, HarnessTypeOK, Next, TypeOK, Stored
<1>2. \A k \in Keys : map'[k] \in {map[k], Absent}
  BY <1>1 DEF Surroundings, Deadline, Reconfigure, Forget
<1>3. ASSUME NEW k \in Slots PROVE StoreServes(k)
  <2>1. CASE map'[k] = map[k]
    BY <2>1, QuietServes
  <2>2. CASE map'[k] = Absent /\ map[k] # Absent
    BY <2>2, NotedAt DEF HarnessInv, StoreServes, Moves, Paired
  <2>3. QED
    BY <1>2, <2>1, <2>2, SlotsAreKeys
<1>4. ASSUME NEW v \in Workers, pc'[v] # "idle"
      PROVE  pc[v] # "idle" /\ loc'[v].id = loc[v].id /\ Requested(v)'
  <2>1. /\ pc'[v] = pc[v] /\ pc[v] # "idle"
        /\ loc'[v] = loc[v] \/ loc'[v] = [loc[v] EXCEPT !.late = TRUE]
    BY <1>1, <1>4, AroundStays
  <2>2. KeyOf(v) \in Slots /\ KeyOf(v) \in Keys
    BY <2>1, Here
  <2>3. QED
    BY <1>1, <1>2, <1>3, <2>1, <2>2, OtherRequested
<1>5. QED
  BY <1>1, <1>3, <1>4, ServerKeeps

-----------------------------------------------------------------------------
(* The steps of the harness keep the invariant.                            *)

\* What the harness makes (d) of what it knows under id k, with a request w of it
\* that comes or goes and then works on q.
Turn(k, w, d, q) ==
  /\ map' = map
  /\ client' = [client EXCEPT ![k] = d] /\ asked' = [asked EXCEPT ![w] = q]
  /\ Grows(client[k], d) /\ ClientInv(map[k], d)
  /\ ~d.overlapped => \A v, x \in InFlight(k)' : v = x
  /\ \A v \in Workers \ {w} : pc'[v] = pc[v] /\ loc'[v] = loc[v]
  /\ \A v \in InFlight(k) : v # w /\ asked[v].step = "reverse" =>
       d.stage = client[k].stage /\ d.held = client[k].held /\ d.shadowed = client[k].shadowed
  /\ pc'[w] # "idle" => KeyOf(w)' = k /\ RequestInv(pc'[w], loc'[w], q, d, map[k])

LEMMA ClientKeeps ==
  ASSUME MasksCanBeTakenBack, HarnessInv, TypeOK', NEW k \in Slots, NEW w \in Workers,
         NEW d \in Client, NEW q \in Question, Turn(k, w, d, q)
  PROVE  HarnessInv'
<1> USE DEF Turn
<1>1. /\ client \in [Slots -> Client] /\ asked \in [Workers -> Question]
      /\ client' \in [Slots -> Client] /\ asked' \in [Workers -> Question]
      /\ client'[k] = d /\ asked'[w] = q
      /\ \A j \in Slots \ {k} : client'[j] = client[j]
      /\ \A v \in Workers \ {w} : asked'[v] = asked[v]
  BY DEF HarnessInv, HarnessTypeOK
<1>2. HarnessTypeOK'
  BY <1>1 DEF HarnessTypeOK
<1>3. ASSUME NEW j \in Slots PROVE ClientInv(map'[j], client'[j])
  BY <1>1 DEF HarnessInv
<1>4. ASSUME NEW v \in Workers \ {w}, pc'[v] # "idle"
      PROVE  pc[v] # "idle" /\ KeyOf(v)' = KeyOf(v) /\ Requested(v)'
  <2>1. pc'[v] = pc[v] /\ loc'[v] = loc[v] /\ pc[v] # "idle" /\ KeyOf(v)' = KeyOf(v)
    BY <1>4 DEF KeyOf
  <2>2. /\ KeyOf(v) \in Slots /\ v \in InFlight(KeyOf(v)) /\ loc[v] \in LocalsType
        /\ Ready(pc[v], loc[v]) /\ asked[v] \in Question /\ client[KeyOf(v)] \in Client
        /\ map[KeyOf(v)] \in Stored /\ Paired(map[KeyOf(v)], client[KeyOf(v)])
        /\ RequestInv(pc[v], loc[v], asked[v], client[KeyOf(v)], map[KeyOf(v)])
    BY <2>1, Here DEF Requested, ClientInv
  <2>3. CASE KeyOf(v) = k
    <3>1. RequestInv(pc[v], loc[v], asked[v], d, map[k])
      BY <2>2, <2>3, Bystander DEF Moves
    <3>2. QED
      BY <1>1, <2>1, <2>3, <3>1 DEF Requested
  <2>4. CASE KeyOf(v) # k
    BY <1>1, <2>1, <2>2, <2>4 DEF Requested
  <2>5. QED
    BY <2>1, <2>3, <2>4
<1>5. pc'[w] # "idle" => Requested(w)'
  BY <1>1 DEF Requested
<1>6. ASSUME NEW j \in Slots, ~client'[j].overlapped, NEW v \in InFlight(j)', NEW x \in InFlight(j)'
      PROVE  v = x
  <2>1. CASE j = k
    BY <1>1, <1>6, <2>1
  <2>2. CASE j # k
    <3>1. v \in InFlight(j) /\ x \in InFlight(j)
      BY <1>4, <1>6, <2>2 DEF InFlight
    <3>2. QED
      BY <1>1, <1>6, <2>2, <3>1 DEF HarnessInv
  <2>3. QED
    BY <2>1, <2>2
<1>7. QED
  BY <1>2, <1>3, <1>4, <1>5, <1>6 DEF HarnessInv

OneMore(c, step, busy) ==
  [c EXCEPT !.tries = @ + 1, !.stage = step, !.overlapped = @ \/ busy]

LEMMA Sending ==
  ASSUME NEW c \in Client, NEW step \in {"forward", "reverse"}, NEW busy \in BOOLEAN, NEW d,
         d = OneMore(c, step, busy)
  PROVE  /\ d \in Client /\ d.elem = c.elem /\ d.held = c.held
         /\ d.shadowed = c.shadowed /\ d.lost = c.lost /\ d.failed = c.failed /\ d.masks = c.masks
         /\ d.stage = step /\ d.overlapped = (c.overlapped \/ busy)
<1> DEFINE over == c.overlapped \/ busy
<1>1. over \in BOOLEAN /\ c.tries + 1 \in Nat
  BY DEF Client
<1>2. d = [c EXCEPT !.tries = c.tries + 1, !.stage = step, !.overlapped = over]
  BY DEF Client, OneMore
<1> HIDE DEF over
<1>3. /\ d \in Client /\ d.elem = c.elem /\ d.held = c.held
      /\ d.shadowed = c.shadowed /\ d.lost = c.lost /\ d.failed = c.failed /\ d.masks = c.masks
      /\ d.stage = step /\ d.overlapped = over
  BY <1>1, <1>2 DEF Client
<1>4. QED
  BY <1>3 DEF over

\* A forward step begins before the reverse one, which may be repeated.
LEMMA SendKeeps ==
  ASSUME MasksCanBeTakenBack, HarnessInv, NEW w \in Workers, NEW k \in Slots,
         SendForward(w, k) \/ SendReverse(w, k)
  PROVE  HarnessInv'
<1> DEFINE c == client[k]
<1>1. PICK step \in {"forward", "reverse"}, t \in Texts :
        /\ Send(w, k, step, t)
        /\ step = "forward" => c.stage = "forward" /\ t = c.elem
        /\ step = "reverse" => c.held # Absent /\ t = c.held
  <2>1. c \in Client /\ c.elem \in Texts
    BY ElementFacts DEF HarnessInv, HarnessTypeOK, Client
  <2>2. CASE SendForward(w, k)
    BY <2>1, <2>2 DEF SendForward
  <2>3. CASE SendReverse(w, k)
    <3>1. Send(w, k, "reverse", c.held) /\ c.held # Absent /\ c.held \in Texts
      BY <2>1, <2>3 DEF SendReverse, Client
    <3>2. QED
      BY <3>1
  <2>4. QED
    BY <2>2, <2>3
<1>2. PICK id \in PayloadIds \ {BlankId} :
        /\ StoreKey[id] = k
        /\ Receive(w, [id |-> id, header |-> Header, secret |-> NoSecret, text |-> t])
  BY <1>1 DEF Send
<1>3. PICK busy \in BOOLEAN : busy = (InFlight(k) # {})
  OBVIOUS
<1> DEFINE r == [id |-> id, header |-> Header, secret |-> NoSecret, text |-> t]
           d == OneMore(c, step, busy)
           q == [step |-> step, shadowed |-> map[k] # Absent]
<1>4. TypeOK /\ c \in Client /\ client \in [Slots -> Client]
  BY DEF HarnessInv, HarnessTypeOK
<1>5. r \in Request
  BY HarnessAssumption, RequestAssumption DEF Request
<1>6. TypeOK' /\ map' = map
  BY <1>2, <1>4, <1>5, ReceiveTypes DEF Receive
<1>7. /\ d \in Client /\ q \in Question /\ d.elem = c.elem /\ d.held = c.held
      /\ d.shadowed = c.shadowed /\ d.lost = c.lost /\ d.failed = c.failed /\ d.masks = c.masks
      /\ d.stage = step /\ d.overlapped = (c.overlapped \/ busy)
  <2>1. q \in Question
    BY DEF Question
  <2>2. d = OneMore(c, step, busy)
    OBVIOUS
  <2>3. step \in {"forward", "reverse"}
    BY <1>1
  <2>4. busy \in BOOLEAN
    BY <1>3
  <2>5. c \in Client
    BY <1>4
  <2> HIDE DEF c, q, d
  <2>6. /\ d \in Client /\ d.elem = c.elem /\ d.held = c.held /\ d.shadowed = c.shadowed
        /\ d.lost = c.lost /\ d.failed = c.failed /\ d.masks = c.masks /\ d.stage = step
    BY <2>2, <2>3, <2>4, <2>5, Sending
  <2>7. d.overlapped = (c.overlapped \/ busy)
    BY <2>2, <2>3, <2>4, <2>5, Sending
  <2>8. QED
    BY <2>1, <2>6, <2>7
<1>8. client' = [client EXCEPT ![k] = d] /\ asked' = [asked EXCEPT ![w] = q]
  BY <1>1, <1>3, <1>4 DEF Send, OneMore
<1>9. /\ pc[w] = "idle" /\ pc'[w] = "authorize" /\ loc'[w].id = id /\ loc'[w].header = Header
      /\ loc'[w].text = t /\ loc'[w].failed = "no"
  <2>1. r.id = id /\ r.header = Header /\ r.text = t
    OBVIOUS
  <2>2. PICK new : new = [NoLocals EXCEPT
                            !.id = r.id, !.header = r.header, !.secret = r.secret,
                            !.text = r.text, !.allowList = cfg.requireSystem,
                            !.failOpen = cfg.failOpen]
    OBVIOUS
  <2>3. Goto(w, "idle", "authorize") /\ loc' = [loc EXCEPT ![w] = new]
    BY <1>2, <2>2 DEF Receive
  <2>4. pc[w] = "idle" /\ pc'[w] = "authorize" /\ loc'[w] = new
    BY <1>4, <2>3, StepFacts
  <2> HIDE DEF r
  <2>5. new.id = r.id /\ new.header = r.header /\ new.text = r.text /\ new.failed = "no"
    BY <2>2 DEF NoLocals
  <2>6. QED
    BY <2>1, <2>4, <2>5
<1>10. \A v \in Workers \ {w} : pc'[v] = pc[v] /\ loc'[v] = loc[v]
  BY <1>2, <1>4, <1>5, OthersStay
<1> HIDE DEF r, d, q
<1>11. Grows(c, d)
  BY <1>7 DEF Grows
<1>12. ClientInv(map[k], d)
  <2>1. ClientInv(map[k], c)
    BY DEF HarnessInv
  <2>2. QED
    BY <1>7, <2>1 DEF ClientInv, Paired, Sound, Crossed, Answers, Kept, Apart
<1>13. KeyOf(w)' = k
  BY <1>2, <1>9 DEF KeyOf
<1>14. ASSUME ~d.overlapped, NEW v \in InFlight(k)' PROVE v = w
  <2>1. InFlight(k) = {}
    BY <1>3, <1>7, <1>14
  <2>2. CASE v # w
    <3>1. v \in InFlight(k)
      BY <1>10, <1>14, <2>2 DEF InFlight, KeyOf
    <3>2. QED
      BY <2>1, <3>1
  <2>3. QED
    BY <2>2
<1>15. ASSUME NEW v \in InFlight(k), asked[v].step = "reverse"
       PROVE  d.stage = c.stage
  <2>1. v \in Workers /\ pc[v] # "idle" /\ KeyOf(v) = k
    BY DEF InFlight
  <2>2. Sent(pc[v], loc[v], asked[v], c)
    BY <2>1, Here
  <2>3. c.stage = "reverse"
    BY <1>15, <2>2 DEF Sent
  <2>4. QED
    BY <1>1, <1>7, <2>3
<1>16. RequestInv("authorize", loc'[w], q, d, map[k])
  <2>1. q.step = step /\ q.shadowed = (map[k] # Absent)
    BY DEF q
  <2>2. Sent("authorize", loc'[w], q, d)
    BY <1>1, <1>2, <1>7, <1>9, <2>1 DEF Sent, InEngine, InFailure
  <2>3. QED
    BY <2>1, <2>2 DEF RequestInv, Alone, Forward, Reverse, Masking
<1>17. ~d.overlapped => \A v, x \in InFlight(k)' : v = x
  BY <1>14
<1>18. \A v \in InFlight(k) : v # w /\ asked[v].step = "reverse" =>
         d.stage = client[k].stage /\ d.held = client[k].held /\ d.shadowed = client[k].shadowed
  BY <1>7, <1>15
<1>19. KeyOf(w)' = k /\ RequestInv(pc'[w], loc'[w], q, d, map[k])
  BY <1>9, <1>13, <1>16
<1>20. QED
  <2>1. Turn(k, w, d, q)
    BY <1>6, <1>8, <1>10, <1>11, <1>12, <1>17, <1>18, <1>19 DEF Turn
  <2>2. QED
    BY <1>6, <1>7, <2>1, ClientKeeps

\* An answer arrives or is given up on; what it brings is the harness's to send back.
LEMMA AnswerKeeps ==
  ASSUME MasksCanBeTakenBack, HarnessInv, NEW w \in Workers, Collect(w) \/ GiveUp(w)
  PROVE  HarnessInv'
<1>1. PICK k : k = KeyOf(w)
  OBVIOUS
<1> DEFINE c == client[k]
           counts == asked[w].step = "forward" /\ c.stage = "forward" /\ loc[w].status = 200
           got == [c EXCEPT !.held = loc[w].out,
                            !.shadowed = loc[w].failed # "no" /\ asked[w].shadowed]
<1>2. TypeOK /\ Answer(w) /\ client \in [Slots -> Client] /\ asked \in [Workers -> Question]
  BY DEF HarnessInv, HarnessTypeOK, Collect, GiveUp
<1>3. TypeOK' /\ map' = map /\ pc[w] = "answer" /\ pc'[w] = "idle"
  BY <1>2, AnswerTypes, StepFacts DEF Answer
<1>4. /\ k \in Slots /\ c \in Client /\ ClientInv(map[k], c)
      /\ RequestInv("answer", loc[w], asked[w], c, map[k]) /\ w \in InFlight(k)
  BY <1>1, <1>3, Here DEF Requested
<1>5. \A v \in Workers \ {w} : pc'[v] = pc[v] /\ loc'[v] = loc[v]
  BY <1>2, OthersStay
<1>6. PICK d \in {c, got} :
        /\ client' = [client EXCEPT ![k] = d] /\ asked' = [asked EXCEPT ![w] = NotAsked]
        /\ d = c \/ counts
  <2>1. asked' = [asked EXCEPT ![w] = NotAsked]
    BY DEF Collect, GiveUp
  <2>2. client' = client \/ (counts /\ client' = [client EXCEPT ![k] = got])
    BY <1>1, <1>2, <1>4 DEF Collect, GiveUp
  <2>3. client = [client EXCEPT ![k] = c]
    BY <1>2, <1>4
  <2> HIDE DEF got, c, counts
  <2>4. QED
    BY <2>1, <2>2, <2>3
<1>7. NotAsked \in Question
  BY DEF NotAsked, Question
<1>8. ASSUME counts
      PROVE  /\ got \in Client /\ got.elem = c.elem /\ got.stage = c.stage /\ got.lost = c.lost
             /\ got.failed = c.failed /\ got.overlapped = c.overlapped /\ got.masks = c.masks
             /\ got.held = loc[w].out
             /\ got.shadowed = (loc[w].failed # "no" /\ asked[w].shadowed)
  <2>1. loc[w].out \in Texts /\ asked[w] \in Question
    BY <1>2, <1>4, <1>8 DEF RequestInv, Sent
  <2>2. QED
    BY <1>4, <2>1 DEF Client, Question
<1> HIDE DEF got
<1>9. ASSUME counts PROVE ClientInv(map[k], got)
  <2>1. Paired(map[k], got)
    BY <1>4, <1>8, <1>9 DEF ClientInv, Paired
  <2>2. ASSUME got.shadowed PROVE got.held = got.elem /\ got.failed
    <3>1. loc[w].failed # "no"
      BY <1>8, <1>9, <2>2
    <3>2. Sent("answer", loc[w], asked[w], c)
      BY <1>4 DEF RequestInv
    <3>3. loc[w].text = c.elem /\ loc[w].out = loc[w].text /\ c.failed
      BY <1>9, <3>1, <3>2 DEF Sent
    <3>4. QED
      BY <1>8, <1>9, <3>3
  <2>3. ASSUME Sound(got), NEW t \in Answers(got) PROVE Kept(map[k], got, t)
    <3>1. Sound(c)
      BY <1>8, <1>9, <2>3 DEF Sound, Crossed
    <3>2. Kept(map[k], c, t)
      <4>1. CASE t \in c.masks
        BY <1>4, <3>1, <4>1 DEF ClientInv, Answers
      <4>2. CASE t \notin c.masks
        <5>1. ~got.shadowed /\ t = loc[w].out
          BY <1>8, <1>9, <2>3, <4>2 DEF Answers
        <5>2. Forward("answer", loc[w], asked[w], c, map[k])
          BY <1>4, <1>9, <3>1 DEF RequestInv
        <5>3. QED
          BY <1>8, <1>9, <5>1, <5>2 DEF Forward
      <4>3. QED
        BY <4>1, <4>2
    <3>3. QED
      BY <1>8, <1>9, <3>2 DEF Kept, Apart
  <2>4. QED
    BY <2>1, <2>2, <2>3 DEF ClientInv
<1>10. /\ d \in Client /\ Grows(c, d) /\ ClientInv(map[k], d) /\ d.stage = c.stage
      /\ d.overlapped = c.overlapped
  BY <1>4, <1>6, <1>8, <1>9 DEF Grows
<1>11. InFlight(k)' \subseteq InFlight(k)
  BY <1>3, <1>5 DEF InFlight, KeyOf
<1>12. ~d.overlapped => \A v, x \in InFlight(k)' : v = x
  BY <1>4, <1>10, <1>11 DEF HarnessInv
<1>13. ASSUME NEW v \in InFlight(k), asked[v].step = "reverse"
       PROVE  d.held = c.held /\ d.shadowed = c.shadowed
  <2>1. v \in Workers /\ pc[v] # "idle" /\ KeyOf(v) = k
    BY DEF InFlight
  <2>2. Sent(pc[v], loc[v], asked[v], c)
    BY <2>1, Here
  <2>3. d = c
    BY <1>6, <1>13, <2>2 DEF Sent
  <2>4. QED
    BY <2>3
<1>14. \A v \in InFlight(k) : v # w /\ asked[v].step = "reverse" =>
         d.stage = client[k].stage /\ d.held = client[k].held /\ d.shadowed = client[k].shadowed
  BY <1>10, <1>13
<1>15. pc'[w] # "idle" => KeyOf(w)' = k /\ RequestInv(pc'[w], loc'[w], NotAsked, d, map[k])
  BY <1>3
<1>16. Grows(client[k], d) /\ ClientInv(map[k], d) /\ d \in Client
  BY <1>10
<1> HIDE DEF c
<1>17. Turn(k, w, d, NotAsked)
  BY <1>3, <1>5, <1>6, <1>12, <1>14, <1>15, <1>16 DEF Turn
<1>18. QED
  BY <1>3, <1>4, <1>7, <1>16, <1>17, ClientKeeps

\* Another element starts with nothing known but that a call has failed.
LEMMA NextElementKeeps ==
  ASSUME HarnessInv, NEW k \in Slots, NEW e \in Elements, NextElement(k, e)
  PROVE  HarnessInv'
<1> DEFINE c == client[k]
           d == Fresh(e, c.number + 1, c.failed)
<1>1. /\ HarnessTypeOK /\ c \in Client /\ UNCHANGED <<vars, asked>>
      /\ client' = [client EXCEPT ![k] = d] /\ InFlight(k) = {}
  BY DEF HarnessInv, HarnessTypeOK, NextElement
<1>2. d \in Client
  BY <1>1 DEF Client, Fresh
<1>3. ClientInv(map[k], d)
  <2>1. Paired(map[k], c)
    BY DEF HarnessInv, ClientInv
  <2>2. d.failed = c.failed /\ ~d.shadowed /\ Answers(d) = {}
    BY DEF Fresh, Answers
  <2>3. QED
    BY <2>1, <2>2 DEF ClientInv, Paired
<1> HIDE DEF d
<1>4. /\ client' \in [Slots -> Client] /\ client'[k] = d
      /\ \A j \in Slots \ {k} : client'[j] = client[j]
  BY <1>1, <1>2 DEF HarnessTypeOK
<1>5. pc' = pc /\ loc' = loc /\ map' = map /\ asked' = asked
  BY <1>1 DEF vars
<1>6. HarnessTypeOK'
  BY <1>1, <1>4, <1>5 DEF HarnessTypeOK, TypeOK, vars
<1>7. ASSUME NEW j \in Slots PROVE ClientInv(map'[j], client'[j])
  BY <1>3, <1>4, <1>5 DEF HarnessInv
<1>8. ASSUME NEW v \in Workers, pc'[v] # "idle" PROVE Requested(v)'
  <2>1. pc[v] # "idle" /\ KeyOf(v) \in Slots \ {k} /\ Requested(v)
    BY <1>1, <1>5, <1>8, Here
  <2>2. KeyOf(v)' = KeyOf(v)
    BY <1>5 DEF KeyOf
  <2>3. QED
    BY <1>4, <1>5, <2>1, <2>2 DEF Requested
<1>9. ASSUME NEW j \in Slots, ~client'[j].overlapped, NEW v \in InFlight(j)', NEW x \in InFlight(j)'
      PROVE  v = x
  <2>1. v \in InFlight(j) /\ x \in InFlight(j)
    BY <1>5, <1>9 DEF InFlight, KeyOf
  <2>2. j # k
    BY <1>1, <2>1
  <2>3. QED
    BY <1>4, <1>9, <2>1, <2>2 DEF HarnessInv
<1>10. QED
  BY <1>6, <1>7, <1>8, <1>9 DEF HarnessInv

LEMMA HarnessBegins == CInit => HarnessInv
<1> SUFFICES ASSUME CInit PROVE HarnessInv
  OBVIOUS
<1>1. TypeOK /\ pc = [w \in Workers |-> "idle"] /\ map = [k \in Keys |-> Absent]
  BY InitTypes DEF CInit, Init
<1>2. ASSUME NEW e \in Elements PROVE Fresh(e, 1, FALSE) \in Client /\ ClientInv(Absent, Fresh(e, 1, FALSE))
  <2> DEFINE c == Fresh(e, 1, FALSE)
  <2>1. c \in Client
    BY DEF Fresh, Client
  <2>2. ~c.shadowed /\ Answers(c) = {}
    BY DEF Fresh, Answers
  <2>3. QED
    BY <2>1, <2>2 DEF ClientInv, Paired
<1>3. ASSUME NEW k \in Slots PROVE client[k] \in Client /\ ClientInv(map[k], client[k])
  BY <1>1, <1>2, SlotsAreKeys DEF CInit
<1>4. client \in [Slots -> Client] /\ asked \in [Workers -> Question]
  <2>1. NotAsked \in Question
    BY DEF NotAsked, Question
  <2>2. QED
    BY <1>3, <2>1 DEF CInit
<1>5. ASSUME NEW k \in Slots PROVE InFlight(k) = {}
  BY <1>1 DEF InFlight
<1>6. QED
  BY <1>1, <1>3, <1>4, <1>5 DEF HarnessInv, HarnessTypeOK

LEMMA HarnessStays ==
  ASSUME MasksCanBeTakenBack, HarnessInv, [CNext]_cvars
  PROVE  HarnessInv'
<1>1. CASE CNext
  BY <1>1, SendKeeps, AnswerKeeps, NextElementKeeps, HandleKeeps, SurroundingsKeep
     DEF CNext, ServerSteps
<1>2. CASE UNCHANGED cvars
  BY <1>2 DEF cvars, vars, HarnessInv, HarnessTypeOK, TypeOK, Requested, InFlight, KeyOf
<1>3. QED
  BY <1>1, <1>2

LEMMA HarnessInvariant == ASSUME MasksCanBeTakenBack PROVE CSpec => []HarnessInv
<1>1. HarnessInv /\ [CNext]_cvars => HarnessInv'
  BY HarnessStays
<1>2. QED
  BY <1>1, HarnessBegins, PTL DEF CSpec

-----------------------------------------------------------------------------
(* The contract.                                                           *)

\* What the invariant says of a reverse request about to be answered.
LEMMA TakenBack ==
  ASSUME HarnessInv, NEW w \in Workers, Returned(w), ~Crossed(client[KeyOf(w)])
  PROVE  LET c == client[KeyOf(w)] IN
         /\ c.shadowed => loc[w].text = c.elem
         /\ ~c.shadowed => /\ loc[w].out \in {c.elem, loc[w].text}
                           /\ ~c.lost => loc[w].out = c.elem
<1> DEFINE c == client[KeyOf(w)]
<1>1. pc[w] = "answer" /\ asked[w].step = "reverse" /\ loc[w].status = 200 /\ loc[w].failed = "no"
  BY DEF Returned
<1>2. /\ Sent("answer", loc[w], asked[w], c) /\ ClientInv(map[KeyOf(w)], c)
      /\ RequestInv("answer", loc[w], asked[w], c, map[KeyOf(w)])
  BY <1>1, Here DEF Requested
<1>3. c.shadowed => loc[w].text = c.elem
  BY <1>1, <1>2 DEF Sent, ClientInv
<1>4. ~c.shadowed => Reverse("answer", loc[w], c)
  BY <1>1, <1>2 DEF RequestInv, Sound
<1>5. QED
  BY <1>1, <1>3, <1>4 DEF Reverse

\* As long as the store kept the entry, sending a mask back brings the element
\* that was sent, byte for byte: however many requests there are, for however many
\* ids, and however often either step is repeated (decide, maskInto); after a
\* failed step too, unless repetitions overlapped it (RememberIdentity).
THEOREM RoundTripKept == ASSUME MasksCanBeTakenBack PROVE CSpec => []RoundTrip
<1>1. HarnessInv => RoundTrip
  BY TakenBack DEF RoundTrip
<1>2. QED
  BY <1>1, HarnessInvariant, PTL

\* A mask is never masked again: what decide finds no entry for and takes for a
\* mask is echoed (demaskMiss), and what it would mask is the element itself.
THEOREM MaskNeverMasked == ASSUME MasksCanBeTakenBack PROVE CSpec => []NeverMaskOfMask
<1>1. HarnessInv => NeverMaskOfMask
  BY TakenBack DEF NeverMaskOfMask
<1>2. QED
  BY <1>1, HarnessInvariant, PTL

\* However many times an element is sent under its id, one mask comes back: the
\* entry's (maskInto's maskRetry), or the one Rewrite makes of it every time.
THEOREM RetriesGetOneMask == ASSUME MasksCanBeTakenBack PROVE CSpec => []RetriesAgree
<1>1. ASSUME HarnessInv, NEW k \in Slots, ~Crossed(client[k]),
             NEW x \in client[k].masks, NEW y \in client[k].masks
      PROVE  x = y
  <2>1. client[k] \in Client /\ map[k] \in Stored
    BY <1>1, SlotsAreKeys DEF HarnessInv, HarnessTypeOK, TypeOK, Stored
  <2>2. x \in Texts /\ y \in Texts
    BY <1>1, <2>1 DEF Client
  <2>3. Kept(map[k], client[k], x) /\ Kept(map[k], client[k], y)
    BY <1>1 DEF HarnessInv, ClientInv, Answers, Sound
  <2>4. QED
    BY <2>1, <2>2, <2>3, KeptAgree
<1>2. HarnessInv => RetriesAgree
  BY <1>1 DEF RetriesAgree
<1>3. QED
  BY <1>2, HarnessInvariant, PTL
=============================================================================
