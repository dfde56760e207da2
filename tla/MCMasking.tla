----------------------------- MODULE MCMasking -----------------------------
(* Values for the constants of Masking, for TLC. *)
EXTENDS Masking, TLC

TypeNames == {"card", "pin", "own"}
MCPriority == [t \in TypeNames |-> CASE t = "card" -> 100 [] t = "pin" -> 40 [] OTHER -> 10]
MCGlyphs == Bytes \cup TypeNames \cup {"[", "]"}
MCLabelWords == {<<"a">>, <<"L", "C">>}

\* A label strategy and one that keeps the value.
MCMaskOf(strategy, type, value) == IF strategy = "none" THEN value ELSE <<"[", type, "]">>

Rule(floor, needs) == [enabled |-> TRUE, floor |-> floor, needs |-> needs]
Off == [enabled |-> FALSE, floor |-> 5, needs |-> {}]
Custom == [floor |-> 5]
Conf(card, pin, custom, labels) ==
  [rules |-> [t \in Types |-> CASE t = "card" -> card [] t = "pin" -> pin [] OTHER -> NoRule],
   custom |-> [t \in Types |-> IF t = "own" THEN custom ELSE NoRule],
   labels |-> labels,
   strategy |-> [t \in Types |-> IF t = "own" THEN "none" ELSE "label"]]

AllOn == Conf(Rule(0, {}), Rule(0, {}), Custom, FALSE)
Paired == Conf(Rule(6, {}), Rule(0, {"card"}), NoRule, TRUE)
WithLabels == Conf(Rule(0, {}), Rule(0, {}), Custom, TRUE)
NoCards == Conf(Off, Rule(0, {"card"}), Custom, TRUE)

Mark(a, b, t, c) == [start |-> a, end |-> b, type |-> t, conf |-> c]
Case(text, marks, truncates, configs) ==
  [text |-> text, marks |-> marks, truncates |-> truncates, configs |-> configs]

\* Detections that overlap each other in every way, an empty one among them.
Intervals == {p \in (0 .. 3) \X (0 .. 3) : p[1] < p[2]} \cup {<<1, 1>>}
Claims == {Mark(p[1], p[2], k[1], k[2]) :
             p \in Intervals, k \in {<<"card", 5>>, <<"pin", 5>>, <<"own", 6>>}}
Contests ==
  {Case(<<"1", "1", "1">>, marks, FALSE, {AllOn}) :
     marks \in UNION {[1 .. n -> Claims] : n \in 2 .. 3}}

\* Long texts: every sequence of five letters, spaces and line breaks, the
\* letters of one byte or two, with an entity in it no longer than the overlap.
RunesOf == {<<"a">>, <<"L", "C">>, <<" ">>, <<"n">>}
LongTexts == {FlattenSeq(runes) : runes \in [1 .. 5 -> RunesOf]}
RuneStart(text, i) == i = Len(text) \/ ~Continuation(text[i + 1])
Entities(text) ==
  {Mark(p[1], p[2], "card", 5) : p \in
     {q \in (0 .. Len(text)) \X (0 .. Len(text)) :
        q[1] < q[2] /\ q[2] - q[1] <= ChunkOverlap /\ RuneStart(text, q[1]) /\ RuneStart(text, q[2])}}
LongCases ==
  UNION {{Case(text, <<s>>, TRUE, {AllOn}) : s \in Entities(text)} : text \in LongTexts}

\* Two values and what may stand in front of each.
Fillers == {<<"a">>, <<"L", "C">>, <<" ">>, <<"n">>, <<"N", "A">>}
Fronts(m) == {FlattenSeq(f) : f \in UNION {[1 .. n -> Fillers] : n \in 0 .. m}}
Labelled(p, v, q, c) ==
  Case(p \o <<v>> \o q \o <<"1">>,
       <<Mark(Len(p), Len(p) + 1, "card", c),
         Mark(Len(p) + 1 + Len(q), Len(p) + 2 + Len(q), "pin", 5)>>,
       FALSE, {WithLabels, Paired, NoCards})
LabelCases ==
  {Labelled(p, v, q, c) : p \in Fronts(1), v \in {"1", "a"}, q \in Fronts(3), c \in {5, 6}}

MCCases == Contests \cup LongCases \cup LabelCases

ASSUME DetectionsAreFit == MarksNotEmpty /\ EntitiesShort
=============================================================================
