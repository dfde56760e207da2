------------------------------ MODULE Harness ------------------------------
(***************************************************************************)
(* The two-step contract of /process, seen by the client it was written    *)
(* for: Process driven by a harness that sends each dataset element        *)
(* forward under some payload_id, may repeat a request (its own timeout    *)
(* passed, or the answer was no good), and then sends what it got back in   *)
(* the reverse direction, expecting the element.  The same payload_id may   *)
(* be used again for another element once the first is finished.            *)
(*                                                                         *)
(* The harness is no part of the repository; it is modelled from what       *)
(* decide, demaskMiss and RememberIdentity say they were written for.       *)
(***************************************************************************)
EXTENDS Process

CONSTANTS
  Elements,      \* texts of the dataset
  Header,        \* the system the harness names
  Overlap,       \* a repeated request may run beside the one it repeats
  MaxTries,      \* bound: requests per element
  MaxElements    \* bound: elements sent under one id

ASSUME HarnessAssumption ==
  /\ Elements \subseteq Texts \ (StarMasked \cup LabelMasked)
  /\ Header \in Headers /\ Overlap \in BOOLEAN
  /\ MaxTries \in Nat /\ MaxElements \in Nat

VARIABLES
  client,   \* key -> what the harness knows about its element
  asked     \* worker -> the step it works on; was there an entry when it was sent

cvars == <<vars, client, asked>>

Slots == {StoreKey[id] : id \in PayloadIds \ {BlankId}}

Fresh(e, n, f) == [elem |-> e, number |-> n, stage |-> "forward", held |-> Absent,
                   shadowed |-> FALSE, lost |-> FALSE, failed |-> f,
                   overlapped |-> FALSE, tries |-> 0, masks |-> {}]
NotAsked == [step |-> "none", shadowed |-> FALSE]

CInit ==
  /\ Init
  /\ client \in [Slots -> {Fresh(e, 1, FALSE) : e \in Elements}]
  /\ asked = [w \in Workers |-> NotAsked]

InFlight(k) == {w \in Workers : pc[w] # "idle" /\ KeyOf(w) = k}

Send(w, k, step, t) ==
  /\ Overlap \/ InFlight(k) = {}
  /\ client[k].tries < MaxTries
  /\ \E id \in PayloadIds \ {BlankId} :
       /\ StoreKey[id] = k
       /\ Receive(w, [id |-> id, header |-> Header, secret |-> NoSecret, text |-> t])
  /\ asked' = [asked EXCEPT ![w] = [step |-> step, shadowed |-> map[k] # Absent]]
  /\ client' = [client EXCEPT ![k].tries = @ + 1, ![k].stage = step,
                              ![k].overlapped = @ \/ InFlight(k) # {}]

SendForward(w, k) ==
  /\ client[k].stage = "forward"
  /\ Send(w, k, "forward", client[k].elem)

SendReverse(w, k) ==
  /\ client[k].held # Absent
  /\ Send(w, k, "reverse", client[k].held)

\* The answer arrives; a forward answer counts until the reverse step begins.
Collect(w) ==
  LET k == KeyOf(w)  c == client[k] IN
  /\ Answer(w)
  /\ client' =
       IF asked[w].step = "forward" /\ c.stage = "forward" /\ loc[w].status = 200
       THEN [client EXCEPT ![k].held = loc[w].out,
               ![k].shadowed = loc[w].failed # "no" /\ asked[w].shadowed]
       ELSE client
  /\ asked' = [asked EXCEPT ![w] = NotAsked]

\* The harness gave up on the request and never sees the answer.
GiveUp(w) ==
  /\ Answer(w)
  /\ asked' = [asked EXCEPT ![w] = NotAsked]
  /\ UNCHANGED client

NextElement(k, e) ==
  /\ client[k].stage = "reverse" /\ client[k].number < MaxElements
  /\ InFlight(k) = {}
  /\ client' = [client EXCEPT ![k] = Fresh(e, client[k].number + 1, client[k].failed)]
  /\ UNCHANGED <<vars, asked>>

\* History: which elements lost their entry, under which ids a call ever failed,
\* and the masks given for each element.
Noted ==
  /\ client' = [k \in Slots |-> [client[k] EXCEPT
       !.lost = @ \/ (map[k] # Absent /\ map'[k] = Absent),
       !.failed = @ \/ \E w \in InFlight(k) : pc'[w] = "failed",
       !.masks = @ \cup {loc'[w].out : w \in {x \in InFlight(k) :
         /\ asked[x].step = "forward" /\ pc'[x] = "answer"
         /\ loc'[x].status = 200 /\ loc'[x].failed = "no"}}]]
  /\ UNCHANGED asked

ServerSteps == ((\E w \in Workers : Handle(w)) \/ Surroundings) /\ Noted

CNext ==
  \/ \E w \in Workers, k \in Slots : SendForward(w, k) \/ SendReverse(w, k)
  \/ \E w \in Workers : Collect(w) \/ GiveUp(w)
  \/ \E k \in Slots, e \in Elements : NextElement(k, e)
  \/ ServerSteps

CSpec == CInit /\ [][CNext]_cvars

-----------------------------------------------------------------------------
\* The system the harness names, and what it makes of a text.  No
\* configuration tells them apart where masks can be taken back.
SystemIn(c) == Resolved(c, Header)
MaskIn(c, t) == Rewrite[SystemIn(c).rules, c.extra, t]
SomeConfig == CHOOSE c \in Configs : TRUE
Serving == SystemIn(SomeConfig)
MaskOf(t) == MaskIn(SomeConfig, t)
Shown == StarMasked \cup (IF Serving.labels THEN LabelMasked ELSE {})

\* What a configuration owes its harness: its system is in service and keeps
\* mappings; whatever it replaces in a text shows (looksMasked, looksLabelMasked);
\* elements and their masks fit the store; and the operator changes none of this
\* while the harness runs, whatever else is reconfigured.
MasksCanBeTakenBack ==
  /\ \A c \in Configs : /\ SystemIn(c) = Serving
                        /\ \A t \in Texts : MaskIn(c, t) = MaskOf(t)
  /\ Serving # Absent /\ Serving.demask
  /\ \A t \in Texts : MaskOf(t) \in {Absent, t} \cup Shown
  /\ \A e \in Elements : {e, MaskOf(e)} \cap TooLong = {}

-----------------------------------------------------------------------------
\* A reverse call is about to be answered, and was not hit by a fault itself.
Returned(w) ==
  /\ pc[w] = "answer" /\ asked[w].step = "reverse"
  /\ loc[w].status = 200 /\ loc[w].failed = "no"

\* A call under the id has failed, and the element was asked for twice at a time
\* or its entry was lost: an identity remembered for a failed call, of this or an
\* earlier element, may stand beside the mask another call was given.
Crossed(c) == c.failed /\ (c.overlapped \/ c.lost)

\* The contract: as long as the store kept the entry, the reverse step answers
\* with the element that was sent, byte for byte, however often the two steps
\* were repeated (decide, maskInto); also when the forward step failed and
\* nothing was remembered under its id before it (RememberIdentity).  Only
\* repetitions that overlap a failing one are beyond it.
RoundTrip ==
  \A w \in Workers :
    LET c == client[KeyOf(w)]
    IN  Returned(w) /\ ~c.lost /\ ~c.shadowed /\ ~Crossed(c) => loc[w].out = c.elem

\* "Masking an already-masked payload a second time is guaranteed to be wrong":
\* a mask sent back is answered with the element or, if that is lost, with
\* itself, never with a mask of the mask.
NeverMaskOfMask ==
  \A w \in Workers :
    LET c == client[KeyOf(w)]
    IN  Returned(w) /\ loc[w].text # c.elem /\ ~Crossed(c) =>
          loc[w].out \in {c.elem, loc[w].text}

\* "The endpoint is idempotent per payload_id": all forward calls for one
\* element that did not fail are answered with the same text.
RetriesAgree ==
  \A k \in Slots : ~Crossed(client[k]) => \A x, y \in client[k].masks : x = y
=============================================================================
