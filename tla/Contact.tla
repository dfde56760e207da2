------------------------------ MODULE Contact ------------------------------
(***************************************************************************)
(* contactDetector of internal/pd/detect/contact.go: e-mail addresses,     *)
(* grown around an "@", and telephone numbers, runs of digit groups.       *)
(*                                                                         *)
(* contactPhoneShortStop has no counterpart: no shape has fewer than eight *)
(* digits, so its numbers of three or four never reach it.                 *)
(***************************************************************************)
EXTENDS Payload

CONSTANTS
  PhoneWindow, \* contactAnchorWindow: 48 bytes
  LocalStop,   \* local parts that speak for an institution
  DomainStop   \* the domains of institutions

-----------------------------------------------------------------------------
(* E-mail addresses *)

LocalByte(c) == IsAlnum(c) \/ c \in {".", "_", "+", "-"}
DomainByte(c) == IsAlnum(c) \/ IsWord(c) \/ c \in {".", "-"}

\* The local part opens with a letter or a digit.
EmailStart(s, at) ==
  LET opens(i) == \A k \in i + 1 .. at : LocalByte(s[k])
  IN  Min({i \in 0 .. at - 1 : opens(i) /\ IsAlnum(s[i + 1])} \cup {at})

Slip_StopInDomain(s, at) == RunEnd(s, at + 1, DomainByte)
\* The dot or hyphen at its end belongs to the sentence.
EmailEnd(s, at) ==
  LET run == RunEnd(s, at + 1, DomainByte)
  IN  Max({i \in at + 2 .. run : s[i] \notin {".", "-"}} \cup {at + 1})

DomainOK(d) ==
  LET dots == {k \in DOMAIN d : d[k] = "."}
      tld == SubSeq(d, Max(dots) + 1, Len(d))
  IN  /\ dots # {}
      /\ \A k \in dots : k > 1 /\ k < Len(d) /\ d[k - 1] # "."
      /\ \A k \in DOMAIN tld : IsLatin(tld[k]) \/ IsWord(tld[k])
      /\ Len(tld) >= 2 \/ IsWord(tld[1])

EmailExcluded(local, domain) ==
  LET plus == {k \in DOMAIN local : local[k] = "+"}
      untagged == IF plus = {} THEN local ELSE SubSeq(local, 1, Min(plus) - 1)
  IN  \/ untagged \in LocalStop
      \/ \E d \in DomainStop : domain = d \/ IsSuffix(<<".">> \o d, domain)

EmailAround(s, at) ==
  LET start == EmailStart(s, at)
      end == EmailEnd(s, at)
      domain == SubSeq(s, at + 2, end)
  IN  IF /\ start < at /\ Boundary(s, start)
         /\ DomainOK(domain) /\ Boundary(s, end)
         /\ ~EmailExcluded(SubSeq(s, start + 1, at), domain)
      THEN <<Span(start, end, "email", 98)>> ELSE <<>>

Emails(s) ==
  LET at(i, email) == Hit(email, IF email = <<>> THEN i + 1 ELSE email[1].end)
  IN  Sweep(Offsets(Len(s), LAMBDA i : s[i + 1] = "@"), [i \in 0 .. Len(s) - 1 |-> at(i, EmailAround(s, i))])

-----------------------------------------------------------------------------
(* Telephone runs *)

PhoneSeparators == {" ", "-", ".", "(", ")"}

\* Past the separators at i when a digit follows them, else i.
SepRun(s, i) ==
  LET n == Max({n \in 0 .. 3 : \A k \in 0 .. n - 1 : CellAt(s, i + k, PhoneSeparators)})
      dot == \E k \in i + 1 .. i + n : s[k] = "."
  IN  IF DigitAt(s, i + n) /\ (dot => n = 1) THEN i + n ELSE i

\* contactRunAt: the starts of the digit groups and the end of the last one.
RunAt(s, i) ==
  LET walk[j \in i .. Len(s)] ==
        IF DigitAt(s, j) THEN <<[start |-> j, end |-> RunEnd(s, j, IsDigit)]>> \o walk[RunEnd(s, j, IsDigit)]
        ELSE IF SepRun(s, j) > j THEN walk[SepRun(s, j)] ELSE <<>>
  IN  walk[IF s[i + 1] = "+" THEN i + 1 ELSE i]

Sizes(run) == [k \in DOMAIN run |-> run[k].end - run[k].start]
PhoneDigits(s, run) ==
  FlattenSeq([k \in DOMAIN run |-> Digits(s, run[k].start, run[k].end)])

\* contactDropExportSuffix: only where the value ends.
DropFloat(s, run) ==
  LET last == run[Len(run)]
  IN  IF /\ Len(run) >= 2 /\ s[last.end] = "0" /\ s[last.end - 1] = "."
         /\ last.end = Len(s) \/ s[last.end + 1] \in {" ", ",", "."}
      THEN Front(run) ELSE run

\* contactClassify
Classify(s, i, run) ==
  LET n == Len(PhoneDigits(s, run))
      opens == s[i + 1]
      dots == \E k \in i + 1 .. run[Len(run)].end : s[k] = "."
      whole == IF opens \in {"+", "("} THEN i ELSE run[1].start
      kind(start, conf, cue) == [ok |-> TRUE, start |-> start, conf |-> conf, cue |-> cue]
      plus == IF opens = "+" THEN i ELSE run[1].start
  IN  CASE n = 11 /\ PhoneDigits(s, run)[1] \in {7, 8} -> kind(plus, 95, FALSE)
        [] opens = "(" /\ n \in {9, 10} \cup {11} -> kind(whole, 80, dots)
        [] opens = "+" /\ n \in 8 .. 15 -> kind(plus, 80, dots)
        [] n = 10 -> kind(plus, 80, dots \/ Sizes(run) # <<3, 3, 2, 2>>)
        [] OTHER -> [ok |-> FALSE, start |-> i, conf |-> 0, cue |-> FALSE]

\* contactBoundsOK
PhoneBounds(s, i, run) ==
  /\ IF DigitAt(s, i) THEN Boundary(s, i) ELSE ~DigitAt(s, i - 1)
  /\ Boundary(s, run[Len(run)].end)

\* Toll-free and service ranges, with the country prefix or without.
PhoneExcluded(ds) ==
  LET national == IF Len(ds) = 11 /\ ds[1] \in {7, 8} THEN Tail(ds) ELSE ds
  IN  SubSeq(national, 1, 3) \in {<<8, 0, 0>>, <<8, 0, 4>>}

PhoneAt(s, i, whole, emails) ==
  LET run == DropFloat(s, whole)
      kind == Classify(s, i, run)
      span == Span(kind.start, run[Len(run)].end, "phone", kind.conf)
  IN  IF /\ kind.ok /\ PhoneBounds(s, i, run)
         /\ \A e \in ToSet(emails) : ~Touch(e, span)
         /\ ~PhoneExcluded(PhoneDigits(s, run))
         /\ kind.cue => CueLeft(s, kind.start, "phone", PhoneWindow) # {}
      THEN <<span>> ELSE <<>>

Phones(s, emails) ==
  LET opens(i) == CellAt(s, i, {"+", "("}) \/ (DigitAt(s, i) /\ ~DigitAt(s, i - 1))
      at(i, run) == IF run = <<>> THEN Hit(<<>>, i + 1)
                    ELSE Hit(PhoneAt(s, i, run, emails), run[Len(run)].end)
  IN  Sweep(Offsets(Len(s), opens), [i \in 0 .. Len(s) - 1 |-> at(i, RunAt(s, i))])

AndPhones(s, on, emails) == emails \o (IF "phone" \in on THEN Phones(s, emails) ELSE <<>>)
ContactSpans(s, on) == AndPhones(s, on, IF "email" \in on THEN Emails(s) ELSE <<>>)
=============================================================================
