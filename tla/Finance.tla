------------------------------ MODULE Finance ------------------------------
(***************************************************************************)
(* financeDetector of internal/pd/detect/finance.go: card numbers, bank    *)
(* accounts and IBANs, INNs, CVVs and PINs.  A chain of digit groups is    *)
(* offered to four scans in turn, each sees what the ones before claimed.  *)
(* Confidences are in percent.                                             *)
(*                                                                         *)
(* The probes over the whole payload are left out: every cue holds one, so *)
(* they only save the search for a cue that cannot be there.               *)
(***************************************************************************)
EXTENDS Payload

CONSTANTS
  AnchorWindow,      \* finAnchorWindow: 72 bytes
  ShortAnchorWindow  \* finShortAnchorWindow: 56 bytes

CardDigits == 13 .. 19

-----------------------------------------------------------------------------
(* Chains and their groups *)

\* finChainSep: past the separator at i, or i when none is there.
ChainSep(s, i) ==
  LET spaces == {n \in 1 .. 3 : \A k \in 0 .. n - 1 : CellAt(s, i + k, {" "})}
      next == IF CellAt(s, i, {"-", "."}) THEN i + 1
              ELSE IF spaces = {} THEN i ELSE i + Max(spaces)
  IN  IF DigitAt(s, next) THEN next ELSE i

ChainEnd(s, start) ==
  LET end[i \in start .. Len(s)] ==
        IF DigitAt(s, i) THEN end[RunEnd(s, i, IsDigit)]
        ELSE IF ChainSep(s, i) > i THEN end[ChainSep(s, i)] ELSE i
  IN  end[start]

\* The loop of Detect: a chain ends where the search for the next one begins.
Chains(s) ==
  LET starts == Offsets(Len(s), LAMBDA i : DigitAt(s, i) /\ ~DigitAt(s, i - 1))
      at == [i \in 0 .. Len(s) - 1 |-> Hit(<<[start |-> i, end |-> ChainEnd(s, i)]>>, ChainEnd(s, i))]
  IN  SelectSeq(Sweep(starts, at), LAMBDA c : Boundary(s, c.start) /\ Boundary(s, c.end))

\* The groups of a chain.
GroupsOf(s, chain) ==
  LET opens(k) == k > chain.start /\ IsDigit(s[k]) /\ (k = chain.start + 1 \/ ~IsDigit(s[k - 1]))
      starts == Ascending(chain.end, opens)
  IN  [k \in DOMAIN starts |-> [start |-> starts[k] - 1, end |-> RunEnd(s, starts[k] - 1, IsDigit)]]

Bare(s) ==
  LET blank == {" ", "nl"}
      inner == {k \in 1 .. Len(s) :
                  \E i \in 1 .. k, j \in k .. Len(s) : s[i] \notin blank /\ s[j] \notin blank}
  IN  /\ \A k \in inner : IsDigit(s[k]) \/ s[k] \in {" ", "-", "."}
      /\ \E k \in inner : IsDigit(s[k])

Size(g) == g.end - g.start
\* The artifact of a spreadsheet: a last group of one zero after a dot.
DropExportSuffix(s, groups) ==
  LET last == groups[Len(groups)]
  IN  IF Len(groups) >= 2 /\ Size(last) = 1 /\ s[last.end] = "0" /\ s[last.start] = "."
      THEN Front(groups) ELSE groups

-----------------------------------------------------------------------------
(* A window is the groups i .. j of a chain *)

Count(groups, i, j) == MapThenSumSet(LAMBDA k : Size(groups[k]), i .. j)
WindowDigits(s, groups, i, j) ==
  FlattenSeq([k \in 1 .. j - i + 1 |-> Digits(s, groups[i + k - 1].start, groups[i + k - 1].end)])
AllSame(ds) == \A k \in DOMAIN ds : ds[k] = ds[1]

Doubled(d) == IF d > 4 THEN 2 * d - 9 ELSE 2 * d
\* Every second digit from the right is doubled.
Luhn(ds) ==
  LET term(k) == IF (Len(ds) - k) % 2 = 0 THEN ds[k] ELSE Doubled(ds[k])
  IN  MapThenSumSet(term, DOMAIN ds) % 10 = 0

Control(ds, weights) ==
  LET sum == MapThenSumSet(LAMBDA k : ds[k] * weights[k], DOMAIN weights) IN (sum % 11) % 10
INNChecksum(ds) ==
  \/ Len(ds) = 10 /\ Control(ds, <<2, 4, 10, 3, 5, 9, 4, 6, 8>>) = ds[10]
  \/ /\ Len(ds) = 12
     /\ Control(ds, <<7, 2, 4, 10, 3, 5, 9, 4, 6, 8>>) = ds[11]
     /\ Control(ds, <<3, 7, 2, 4, 10, 3, 5, 9, 4, 6, 8>>) = ds[12]

Grouped(groups, i, j) ==
  LET sizes == [k \in 1 .. j - i + 1 |-> Size(groups[i + k - 1])]
  IN  \/ i = j
      \/ sizes \in {<<4, 6, 5>>, <<4, 4, 8>>}
      \/ (\A k \in 1 .. j - i : sizes[k] = 4) /\ sizes[j - i + 1] \in 1 .. 4

Reach(groups, i, j) == [start |-> groups[i].start, end |-> groups[j].end]
UsedOverlap(claims, r) == \E c \in ToSet(claims) : Touch(c, r)
UsedWithin(claims, r) == \A c \in ToSet(claims) : c.start >= r.start /\ c.end <= r.end

\* A scan: from each group on, the last group of the window that hit finds (none:
\* 0) and its confidence; the next search starts behind it.
Window(last, conf) == [last |-> last, conf |-> conf]
Claim(groups, acc, type, i, w) ==
  LET r == Reach(groups, i, w.last)
  IN  IF w.last = 0 THEN acc
      ELSE [next |-> w.last + 1, claims |-> Append(acc.claims, Span(r.start, r.end, type, w.conf))]
Scan(groups, claims, type, hit(_, _)) ==
  LET step(acc, i) == IF i < acc.next THEN acc ELSE Claim(groups, acc, type, i, hit(acc.claims, i))
  IN  FoldLeft(step, [next |-> 1, claims |-> claims], [i \in DOMAIN groups |-> i]).claims

Longest(windows) == IF windows = {} THEN 0 ELSE Max(windows)
Shortest(windows) == IF windows = {} THEN 0 ELSE Min(windows)

Cued(s, at, role) == \E k \in CueLeft(s, at, role, AnchorWindow) : NoDigits(s, k, at)

-----------------------------------------------------------------------------
(* Cards *)

\* finCardBareShape: sixteen digits that are not three years or more.
BareShape(s, groups, i, j) ==
  LET year(k) == /\ Size(groups[k]) = 4
                 /\ NumberOf(Digits(s, groups[k].start, groups[k].end)) \in 1900 .. 2099
  IN  Count(groups, i, j) = 16 /\ Cardinality({k \in i .. j : year(k)}) < 3

Slip_SixteenOnly(s, groups, claims, i) ==
  {j \in i .. Len(groups) : /\ Count(groups, i, j) = 16
                            /\ ~AllSame(WindowDigits(s, groups, i, j))
                            /\ ~UsedOverlap(claims, Reach(groups, i, j))}
\* cardBounds, and what every pass passes over.
CardWindows(s, groups, claims, i) ==
  {j \in i .. Len(groups) : /\ Count(groups, i, j) \in CardDigits
                            /\ ~AllSame(WindowDigits(s, groups, i, j))
                            /\ ~UsedOverlap(claims, Reach(groups, i, j))}

CardPass(s, groups, claims, i) ==
  LET windows == CardWindows(s, groups, claims, i)
      luhn == {j \in windows : Luhn(WindowDigits(s, groups, i, j))}
      shaped == {j \in windows : Grouped(groups, i, j)}
      cued == Cued(s, groups[i].start, "card")
      issuer == Digit[s[groups[i].start + 1]] \in 2 .. 6
  IN  CASE luhn \cap shaped # {} -> Window(Max(luhn \cap shaped), 98)
        [] ~issuer -> Window(0, 0)
        [] cued /\ luhn # {} -> Window(Max(luhn), 98)
        [] cued -> Window(Longest(shaped), 85)
        [] Bare(s) -> Window(Longest({j \in shaped : BareShape(s, groups, i, j)}), 85)
        [] OTHER -> Window(0, 0)

ScanCard(s, groups, claims) == Scan(groups, claims, "card", LAMBDA c, i : CardPass(s, groups, c, i))

-----------------------------------------------------------------------------
(* Accounts *)

\* An account may take over what lies in it, when that is all there is.
MayClaim(claims, r) == ~UsedOverlap(claims, r) \/ UsedWithin(claims, r)

AccountPass(s, groups, claims, i) ==
  Window(Shortest({j \in i .. Len(groups) : /\ Count(groups, i, j) = 20
                                     /\ MayClaim(claims, Reach(groups, i, j))
                                     /\ Cued(s, groups[i].start, "account")}), 95)

ScanAccount(s, groups, claims) == Scan(groups, claims, "account", LAMBDA c, i : AccountPass(s, groups, c, i))

-----------------------------------------------------------------------------
(* INNs *)

SentenceOf(s, at) ==
  LET stops == {k \in 1 .. Len(s) : s[k] \in {".", "!", "?", "nl"}}
  IN  Max({k \in stops : k <= at} \cup {0}) + 1 .. Min({k \in stops : k > at} \cup {Len(s) + 1}) - 1
Marked(s, at, role) == \E k \in SentenceOf(s, at) : CueAt(s, k, role)

INNConf(s, ds, cued) ==
  LET valid == INNChecksum(ds)
  IN  CASE valid /\ cued -> 98
        [] valid /\ Len(ds) = 12 -> 90
        [] cued -> 85
        [] Bare(s) /\ valid /\ (10 * ds[1] + ds[2]) \in (1 .. 92) \cup {99} -> 80
        [] OTHER -> 0

SingleINNConf(s, groups, i) ==
  LET g == groups[i]
      ds == Digits(s, g.start, g.end)
  IN  IF Size(g) \notin {10, 12} \/ AllSame(ds) \/ (Size(g) = 10 /\ Marked(s, g.start, "org"))
      THEN 0 ELSE INNConf(s, ds, Cued(s, g.start, "inn"))

SplitINNConf(s, groups, i, j) ==
  LET valid == INNChecksum(WindowDigits(s, groups, i, j))
      cued == Cued(s, groups[i].start, "inn")
  IN  CASE cued -> IF valid THEN 98 ELSE 85
        [] Bare(s) /\ valid /\ Count(groups, i, j) = 12 /\ i = 1 /\ j = Len(groups) -> 90
        [] OTHER -> 0

SplitINN(s, groups, claims, i) ==
  LET last == Shortest({j \in i + 1 .. Len(groups) :
                          /\ Count(groups, i, j) \in {10, 12}
                          /\ ~AllSame(WindowDigits(s, groups, i, j))
                          /\ ~UsedOverlap(claims, Reach(groups, i, j))
                          /\ SplitINNConf(s, groups, i, j) > 0})
  IN  IF last = 0 THEN Window(0, 0) ELSE Window(last, SplitINNConf(s, groups, i, last))

SingleINN(s, groups, claims, i) ==
  LET conf == SingleINNConf(s, groups, i)
  IN  IF UsedOverlap(claims, groups[i]) \/ conf = 0 THEN Window(0, 0) ELSE Window(i, conf)

ScanINN(s, groups, claims) ==
  Scan(groups, Scan(groups, claims, "inn", LAMBDA c, i : SingleINN(s, groups, c, i)),
       "inn", LAMBDA c, i : SplitINN(s, groups, c, i))

-----------------------------------------------------------------------------
(* CVVs and PINs *)

AfterCard(s, groups, claims, k, want) ==
  /\ k > 1 /\ Size(groups[k]) = want /\ Size(groups[k - 1]) = 16
  /\ Boundary(s, groups[k].end)
  /\ \E c \in ToSet(claims) : c.start = groups[k - 1].start /\ c.end = groups[k - 1].end

ShortCue(s, at, role) ==
  \E k \in CueLeft(s, at, role, ShortAnchorWindow) : NoDigits(s, k, at)

CVVHit(s, groups, claims, k) ==
  LET g == groups[k]
  IN  /\ Size(g) \in 3 .. 4
      /\ \/ ShortCue(s, g.start, "cvv")
         \/ /\ Size(g) = 3
            /\ \E c \in CueRight(s, g.end, "cvv", ShortAnchorWindow) : NoDigits(s, g.end, c - 1)
         \/ AfterCard(s, groups, claims, k, 3)

PINHit(s, groups, claims, k) ==
  LET g == groups[k]
  IN  /\ Size(g) \in 4 .. 6
      /\ \/ AfterCard(s, groups, claims, k, 4)
         \/ ShortCue(s, g.start, "pin") /\ ~Marked(s, g.start, "not a card's pin")

ScanSecrets(s, on, groups, claims) ==
  LET step(c, k) ==
        LET g == groups[k]
            cvv == "cvv" \in on /\ CVVHit(s, groups, c, k)
        IN  IF UsedOverlap(c, g) THEN c
            ELSE IF cvv THEN Append(c, Span(g.start, g.end, "cvv", 93))
            ELSE IF "pin" \in on /\ PINHit(s, groups, c, k)
            THEN Append(c, Span(g.start, g.end, "pin", 93)) ELSE c
  IN  FoldLeft(step, claims, [k \in DOMAIN groups |-> k])

-----------------------------------------------------------------------------
(* IBANs *)

\* finIBANEnd: more groups of at most four, one space before each.
IBANEnd(s, from) ==
  LET next(j) == RunEnd(s, j + 1, IsAlnum)
      joined(j) == CellAt(s, j, {" "}) /\ next(j) - (j + 1) \in 1 .. 4
      end[j \in from .. Len(s)] == IF joined(j) THEN end[next(j)] ELSE j
  IN  end[RunEnd(s, from, IsAlnum)]

\* The first four move to the end, a letter counts as its two-digit value.
Mod97(cells) ==
  LET fold(rem, c) == IF IsDigit(c) THEN (10 * rem + Digit[c]) % 97 ELSE (100 * rem + Latin[c]) % 97
  IN  FoldLeft(fold, 0, SubSeq(cells, 5, Len(cells)) \o SubSeq(cells, 1, 4))

IBANAt(s, i) ==
  LET end == IBANEnd(s, i + 4)
      cells == SelectSeq(SubSeq(s, i + 1, end), LAMBDA c : c # " ")
      conf == IF Mod97(cells) = 1 THEN 97 ELSE IF Cued(s, i, "account") THEN 95 ELSE 0
  IN  IF Boundary(s, end) /\ Len(cells) \in 15 .. 34 /\ conf > 0
      THEN <<Span(i, end, "account", conf)>> ELSE <<>>

IBANs(s) ==
  LET opens(i) == /\ i + 4 <= Len(s) /\ Boundary(s, i)
                  /\ \A k \in 1 .. 2 : IsLatin(s[i + k]) /\ IsDigit(s[i + k + 2])
  IN  Sweep(Offsets(Len(s), opens), [i \in 0 .. Len(s) - 1 |-> Hit(IBANAt(s, i), IBANEnd(s, i + 4))])

-----------------------------------------------------------------------------

ChainClaims(s, on, chain) ==
  LET all == GroupsOf(s, chain)
      groups == IF Bare(s) THEN DropExportSuffix(s, all) ELSE all
      cards(claims) == IF "card" \in on THEN ScanCard(s, groups, claims) ELSE claims
      accounts(claims) == IF "account" \in on THEN ScanAccount(s, groups, claims) ELSE claims
      inns(claims) == IF "inn" \in on THEN ScanINN(s, groups, claims) ELSE claims
  IN  ScanSecrets(s, on, groups, inns(accounts(cards(<<>>))))

InsideIBAN(chain, ibans) == \E b \in ToSet(ibans) : Touch(b, chain)

AndChains(s, on, ibans) ==
  LET chains == SelectSeq(Chains(s), LAMBDA c : ~InsideIBAN(c, ibans))
  IN  ibans \o FlattenSeq([k \in DOMAIN chains |-> ChainClaims(s, on, chains[k])])
FinanceSpans(s, on) == AndChains(s, on, IF "account" \in on THEN IBANs(s) ELSE <<>>)
=============================================================================
