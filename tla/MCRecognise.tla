---------------------------- MODULE MCRecognise ----------------------------
(* Values for the constants of Recognise, for TLC. *)
EXTENDS Recognise

MCWidth ==
  [word |-> 8, long |-> 60, fake |-> 4, and |-> 4, x1 |-> 1,
   card |-> 10, account |-> 8, inn |-> 6, cvv |-> 3, pin |-> 6, phone |-> 14, snils |-> 10,
   licence |-> 20, permit |-> 6, military |-> 25, policy |-> 6, abroad |-> 12, certificate |-> 15,
   pair |-> 4, number |-> 10, Ivanov |-> 12, dob |-> 25, issued |-> 10,
   yr |-> 2, br |-> 2, year |-> 8, born |-> 16, february |-> 14, april |-> 12, may |-> 6, december |-> 14,
   first |-> 12, thirty |-> 16, thirtieth |-> 20, thousand |-> 12, ninehundred |-> 18, ninetieth |-> 22]
MCRoles ==
  {<<"card", "card">>, <<"account", "account">>, <<"account", "negative">>, <<"inn", "inn">>, <<"inn", "negative">>,
   <<"cvv", "cvv">>, <<"pin", "pin">>, <<"phone", "phone">>, <<"snils", "snils">>, <<"licence", "licence">>,
   <<"permit", "permit">>, <<"military", "military id">>, <<"policy", "policy">>, <<"abroad", "foreign passport">>,
   <<"certificate", "birth certificate">>, <<"pair", "pair">>, <<"pair", "capital">>,
   <<"number", "label">>, <<"number", "number label">>, <<"Ivanov", "name">>, <<"Ivanov", "capital">>,
   <<"dob", "birth">>, <<"dob", "birth label">>, <<"issued", "issue">>, <<"issued", "issue verb">>,
   <<"yr", "year letter">>, <<"br", "birth letter">>, <<"year", "year word">>, <<"born", "born">>,
   <<"february", "month">>, <<"april", "month">>, <<"may", "month">>, <<"december", "month">>,
   <<"first", "ordinal">>, <<"thirty", "tens">>, <<"thirtieth", "ordinal">>, <<"thousand", "scale">>,
   <<"ninehundred", "cardinal">>, <<"ninetieth", "year ordinal">>}
MCNumber ==
  [february |-> 2, april |-> 4, may |-> 5, december |-> 12, first |-> 1, thirty |-> 30, thirtieth |-> 30,
   thousand |-> 1000, ninehundred |-> 900, ninetieth |-> 90]

Types == {"card", "account", "inn", "cvv", "pin", "email", "phone", "birth date", "issue date", "snils",
          "licence", "foreign passport", "birth certificate", "military id", "permit", "policy"}
MCPriority ==
  [t \in Types |-> CASE t \in {"card", "account"} -> 100
                     [] t \in {"snils", "inn"} -> 95
                     [] t \in {"foreign passport", "licence", "policy"} -> 90
                     [] t = "email" -> 88
                     [] t = "phone" -> 85
                     [] t \in {"birth date", "issue date"} -> 70
                     [] t \in {"military id", "birth certificate", "permit"} -> 60
                     [] OTHER -> 40]
MCBirthMarks == {<<"yr", ".", "br", ".">>}
MCBirthSuffixes == {<<"yr", ".", "br", ".">>, <<"dob">>}
MCLocalStop == {<<"i", "n", "d">>}
MCDomainStop == {<<"b", "a", "n", ".", "r", "u">>}
MCLocals == <<<<"i", "v", "a", "n">>, <<"r", "i", ".", "a">>>>

Streams == {[k \in 0 .. 40 |-> (7 * k + 3) % 256]}
MCStrategies ==
  {[name |-> n] : n \in {"stars_keep2", "stars_all", "keep_domain", "none"}}
    \cup {[name |-> "synthetic", stream |-> h] : h \in Streams}

-----------------------------------------------------------------------------
(* Payloads *)

\* The cells of a numeral, and of a list of its digits, grouped by commas.
Ds(ds) == [k \in DOMAIN ds |-> ToString(ds[k])]
Num(n, width) == [k \in 1 .. width |-> ToString((n \div (10 ^ (width - k))) % 10)]
Join(parts, sep) == FoldLeft(LAMBDA acc, p : IF acc = <<>> THEN p ELSE acc \o sep \o p, <<>>, parts)
Text(text, on) == [text |-> text, on |-> on, items |-> {}, dates |-> {}]

Visa == <<Ds(<<4,1,1,1>>), Ds(<<1,1,1,1>>), Ds(<<1,1,1,1>>), Ds(<<1,1,1,1>>)>>
Amex == <<Ds(<<3,7,8,2>>), Ds(<<8,2,2,4,6,3>>), Ds(<<1,0,0,0,5>>)>>
Thirteen == <<Ds(<<4,2,2,2>>), Ds(<<2,2,2,2>>), Ds(<<2,2,2,2>>), Ds(<<2>>)>>
AccountNo == Num(40817, 5) \o Num(810, 3) \o Num(99910, 5) \o Num(4312, 7)

\* Lists
ItemSet == {
  <<"card", " ">> \o Join(Visa, <<" ">>),
  <<"account", " ">> \o AccountNo,
  <<"i", "v", "a", "n", "@", "m", "a", "i", "l", ".", "r", "u">>,
  <<"+", "7", " ">> \o Join(<<Num(912, 3), Num(345, 3), Num(67, 2), Num(89, 2)>>, <<"-">>),
  <<"snils", " ">> \o Join(<<Num(112, 3), Num(233, 3), Num(445, 3)>>, <<"-">>) \o <<" ">> \o Num(95, 2),
  <<"dob", " ">> \o Join(<<Num(12, 2), Num(5, 2), Num(1990, 4)>>, <<".">>),
  <<"issued", " ">> \o Num(20, 2) \o <<" ", "april", " ">> \o Num(2010, 4),
  <<"licence", " ">> \o Join(<<Num(77, 2), Num(12, 2), Num(345678, 6)>>, <<" ">>),
  <<"military", " ", "pair", " ">> \o Num(1234567, 7)}
Joiners == {<<",", " ">>, <<".", " ">>, <<"nl">>, <<" ", "and", " ">>}
ListOf(a, j, b) ==
  [text |-> a \o j \o b, on |-> Types, dates |-> {},
   items |-> {[start |-> 0, cells |-> a], [start |-> Len(a \o j), cells |-> b]}]
Lists == {ListOf(a, j, b) : a \in ItemSet, j \in Joiners, b \in ItemSet}

\* Chains of digits
Blocks == {Join(Visa, <<>>), Join(Visa, <<" ">>), Join(Amex, <<" ">>), Join(Thirteen, <<" ">>),
           AccountNo, Num(2024, 4), Num(123, 3)}
ChainSet == UNION {[1 .. n -> Blocks] : n \in 1 .. 2}
              \cup {<<Num(2024, 4), b, Num(123, 3)>> : b \in Blocks}
Cues == {<<>>, <<"card", " ">>, <<"account", " ">>, <<"cvv", " ">>}
ChainInputs == {Text(cue \o Join(c, <<" ">>), Types) : cue \in Cues, c \in ChainSet}
                 \cup {Text(Join(c, <<" ">>), {"card"}) : c \in ChainSet}

\* Dates
DayOf == {0, 1, 29, 30, 31}
MonthWords == [m \in {2, 4, 12} |-> CASE m = 2 -> "february" [] m = 4 -> "april" [] m = 12 -> "december"]
DayWords == [d \in {1, 30, 31} |->
  CASE d = 1 -> <<"first">> [] d = 30 -> <<"thirtieth">> [] d = 31 -> <<"thirty", " ", "first">>]
Years == {1899, 1900, 1990, 2000}
Reading(d, m, y) == [day |-> d, month |-> m, year |-> y]
InDigits(d, m, y) ==
  {Join(<<Num(d, 2), Num(m, 2), Num(y, 4)>>, sep) : sep \in {<<".">>, <<"-">>, <<" ">>, <<" ", ".", " ">>, <<>>}}
    \cup {Join(<<Num(y, 4), Num(m, 2), Num(d, 2)>>, <<"-">>)}
\* Of an impossible "thirty-first" the code reads the "first": see the README.
InWords(d, m, y) ==
  IF m \notin DOMAIN MonthWords THEN {}
  ELSE {day \o <<" ", MonthWords[m], " ">> \o year :
          year \in {Num(y, 4)} \cup (IF y = 1990 THEN {<<"thousand", " ", "ninehundred", " ", "ninetieth">>} ELSE {}),
          day \in {Num(d, 2)} \cup (IF d \in {1, 30} \/ (d = 31 /\ RealDate(Reading(d, m, y)))
                                  THEN {DayWords[d]} ELSE {})}
DateInput(readings, cells, tail) ==
  [text |-> <<"dob", " ">> \o cells \o tail, on |-> Types, items |-> {},
   dates |-> {[readings |-> readings, start |-> 2, end |-> 2 + Len(cells)]}]
DateInputs ==
  UNION {{DateInput({Reading(d, m, y), Reading(m, d, y)}, cells, <<>>) : cells \in InDigits(d, m, y)}
           \cup {DateInput({Reading(d, m, y)}, cells, tail) :
                    cells \in InWords(d, m, y), tail \in {<<>>, <<" ", "yr", ".">>}} :
         d \in DayOf, m \in {0, 2, 4, 12, 13}, y \in Years}

\* Documents: a cue, a distance, a number, and one more.
DocNumbers == {
  Join(<<Num(77, 2), Num(12, 2), Num(345678, 6)>>, <<" ">>),
  Num(77, 2) \o Num(12, 2) \o <<" ", "number", " ">> \o Num(345678, 6),
  <<"pair", " ">> \o Num(345678, 6),
  <<"pair", " ">> \o Num(1234567, 7),
  Num(75, 2) \o <<" ">> \o Num(1234567, 7),
  Num(12345678, 8),
  <<"i", "i", "-", "pair", " ">> \o Num(123456, 6),
  Join(<<Num(1234, 4), Num(5678, 4), Num(1234, 4), Num(5678, 4)>>, <<" ", " ">>),
  Join(<<Num(112, 3), Num(233, 3), Num(445, 3), Num(95, 2)>>, <<"-", " ">>)}
Distances == {<<>>, <<"long", " ">>, <<"long", " ", "x1", " ">>} \cup
             {<<"long", " ">> \o [k \in 1 .. n |-> "-"] \o <<" ">> : n \in {15, 16, 17}}
Placed(c, gap, n, tail) == Text(<<c, " ">> \o gap \o n \o <<" ">> \o tail, Types)
DocInputs ==
  {Placed(c, gap, n, tail) : c \in {"licence", "abroad", "military", "permit", "policy"},
     gap \in Distances, n \in DocNumbers, tail \in {<<"word">>, <<"permit", " ">> \o Num(7654321, 7)}}
    \cup {Placed(c, <<>>, n, <<"word">>) : c \in {"certificate", "snils"}, n \in DocNumbers}

\* Dates without a cue in front of them.
Full == Join(<<Num(12, 2), Num(5, 2), Num(1990, 4)>>, <<".">>)
Loose == {
  <<"Ivanov", " ">> \o Full,
  Full \o <<" ", "yr", ".", "br", ".">>,
  Num(1990, 4) \o <<"yr", ".", "br", ".">>,
  Num(1990, 4) \o <<" ", "year", " ", "born">>,
  <<"dob", " ">> \o Full \o <<" ", "and", " ">> \o Full,
  <<"issued", " ">> \o Num(12, 2) \o <<" ", "may">>,
  <<"dob", " ">> \o Join(<<Num(12, 2), Num(5, 2)>>, <<".">>)}

MCInputs == Lists \cup ChainInputs \cup DateInputs \cup DocInputs \cup {Text(t, Types) : t \in Loose}
=============================================================================
