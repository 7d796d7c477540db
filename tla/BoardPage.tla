------------------------------ MODULE BoardPage ------------------------------
(***************************************************************************)
(* The two pages a person works with (extension/options/options.js and     *)
(* extension/popup/popup.js) and the worker's answers to them              *)
(* (extension/sw.js, handleUiMessage).  A page polls while it is visible;  *)
(* a poll asks for the board, which has to reach the broker, and for the   *)
(* profile itself, which the worker answers out of storage.                *)
(*                                                                         *)
(* The broker is what a page can see of it: whether this profile's link    *)
(* stands, the panic switch, and this profile's line.  The other lines,    *)
(* the audit tail, the theme, wording and layout are left out.             *)
(***************************************************************************)
EXTENDS Naturals, Sequences, SequencesExt

CONSTANTS
  LineNames,     \* what a line may be called
  Grace,         \* OUTAGE_GRACE_MS, in ticks of the clock
  MaxTicks,
  MaxEvents,     \* what the person does, and what happens to link, broker and line
  MaxPolls       \* polls under way at once

ASSUME BoardAssumption == {Grace, MaxTicks, MaxEvents, MaxPolls} \subseteq Nat

VARIABLES
  surface,       \* the board, or the popup
  visible,
  time,
  up,            \* the profile's link stands
  truth,         \* the broker: panic, and the line's label, claim, arming
  stored,        \* the extension's own copy: label and claim
  page,          \* what the page holds
  timer, ticking,
  polls,         \* the polls under way, and what each was answered
  ask,           \* the request the person's click sent
  lastGood,      \* when a board last arrived
  promised,      \* the name a page said an outage would not eat
  left           \* what may still happen

boardVars == <<surface, visible, time, up, truth, stored, page, timer, ticking, polls, ask, lastGood, promised, left>>
outside == <<up, truth, stored>>
pace == <<timer, ticking>>
notes == <<lastGood, promised>>

(* What may not be there is a set of at most one.                          *)
Nothing == {}
The(s) == CHOOSE x \in s : TRUE
NoAsk == [kind |-> "none"]
Answer(is, of) == [is |-> is, of |-> of]
Unanswered == Answer("asked", Nothing)
Asked(immediate) == [immediate |-> immediate, board |-> Unanswered, self |-> Unanswered]
Refresh(immediate) == polls' = Append(polls, Asked(immediate))
Room == Len(polls) < MaxPolls
Happens == left > 0 /\ left' = left - 1

(* Which card the page shows of its own line.                              *)
Mode ==
  IF page.self = Nothing THEN "unknown"
  ELSE IF The(page.self).claimed /\ ~page.reclaiming THEN "identity" ELSE "claim"
Panicking == \E b \in page.board : b.panic

(* What its pill says of the broker.                                       *)
Status ==
  IF page.error THEN "down" ELSE IF page.board = Nothing THEN "connecting"
  ELSE IF page.since # Nothing THEN "reconnecting" ELSE IF Panicking THEN "panic" ELSE "connected"

BoardInit ==
  /\ surface \in {"board", "popup"} /\ visible \in BOOLEAN /\ time = 0
  /\ up \in BOOLEAN
  /\ \E l \in LineNames, c \in BOOLEAN :
       /\ truth = [panic |-> FALSE, label |-> l, claimed |-> c, armed |-> FALSE]
       /\ stored = [label |-> l, claimed |-> c]
  /\ page = [booted |-> "no", board |-> Nothing, self |-> Nothing, error |-> FALSE, since |-> Nothing,
             reclaiming |-> FALSE, editing |-> FALSE, busy |-> FALSE, holding |-> FALSE]
  /\ timer = FALSE /\ ticking = FALSE
  /\ polls = <<>> /\ ask = NoAsk
  /\ lastGood = 0 /\ promised = Nothing
  /\ left = MaxEvents

-----------------------------------------------------------------------------
(* Boot.  Without its protocol module a page stops with a message.         *)
Boots ==
  /\ page.booted = "no"
  /\ \/ page' = [page EXCEPT !.booted = "fatal"] /\ UNCHANGED <<ticking, polls>>
     \/ page' = [page EXCEPT !.booted = "yes"] /\ ticking' = visible /\ Refresh(FALSE)
  /\ UNCHANGED <<surface, visible, time, outside, timer, ask, notes, left>>

-----------------------------------------------------------------------------
(* A poll.  The broker's answer is the board as it was then; an outage, or *)
(* a worker that is gone, fails it; so may a refusal, which is no outage.  *)

AnswersBoard(i) ==
  /\ polls[i].board = Unanswered
  /\ \E answer \in (IF up THEN {Answer("board", {truth}), Answer("refused", Nothing)} ELSE {Answer("outage", Nothing)}) :
       polls' = [polls EXCEPT ![i].board = answer]
  /\ UNCHANGED <<surface, visible, time, outside, page, pace, ask, notes, left>>

AnswersSelf(i) ==
  /\ polls[i].self = Unanswered
  /\ \E answer \in {Answer("self", {stored}), Answer("no worker", Nothing)} :
       polls' = [polls EXCEPT ![i].self = answer]
  /\ UNCHANGED <<surface, visible, time, outside, page, pace, ask, notes, left>>

OutageState(since) == IF time - since >= Grace THEN "down" ELSE "reconnecting"

Fails(p) ==
  LET since == IF p.since = Nothing THEN time ELSE The(p.since)
  IN  IF OutageState(since) = "down" THEN [p EXCEPT !.since = {since}, !.error = TRUE, !.board = Nothing]
      ELSE [p EXCEPT !.since = {since}]

(* Mutant: the outage is counted from the first failure ever.              *)
CountsOn(p, board) == [p EXCEPT !.board = board, !.error = FALSE]

Arrives(p, board) == [p EXCEPT !.board = board, !.error = FALSE, !.since = Nothing]

NotesBoard(p, answer) ==
  CASE answer.is = "board" -> Arrives(p, answer.of)
    [] answer.is = "outage" -> Fails(p)
    [] answer.is = "refused" -> p

NotesSelf(p, answer) == IF answer.is = "self" THEN [p EXCEPT !.self = answer.of] ELSE p

(* Mutant: a page that shows an outage waits for the person.               *)
StopsWhenDown(immediate) == IF immediate THEN timer ELSE visible /\ ~page.error

ScheduleNextPoll(immediate) == IF immediate THEN timer ELSE visible

Settles(i) ==
  /\ polls[i].board # Unanswered /\ polls[i].self # Unanswered
  /\ page' = NotesBoard(NotesSelf(page, polls[i].self), polls[i].board)
  /\ lastGood' = IF polls[i].board.is = "board" THEN time ELSE lastGood
  /\ timer' = ScheduleNextPoll(polls[i].immediate)
  /\ polls' = RemoveAt(polls, i)
  /\ UNCHANGED <<surface, visible, time, outside, ticking, ask, promised, left>>

PollDue ==
  /\ timer /\ Room
  /\ timer' = FALSE /\ Refresh(FALSE)
  /\ UNCHANGED <<surface, visible, time, outside, page, ticking, ask, notes, left>>

(* Polling, and the clock that repaints, are bound to visibility.          *)
Shows ==
  /\ ~visible /\ Room /\ Happens
  /\ visible' = TRUE
  /\ IF page.booted = "yes" THEN ticking' = TRUE /\ Refresh(FALSE) ELSE UNCHANGED <<ticking, polls>>
  /\ UNCHANGED <<surface, time, outside, page, timer, ask, notes>>

Hides ==
  /\ visible /\ Happens
  /\ visible' = FALSE
  /\ IF page.booted = "yes" THEN timer' = FALSE /\ ticking' = FALSE ELSE UNCHANGED pace
  /\ UNCHANGED <<surface, time, outside, page, polls, ask, notes>>

-----------------------------------------------------------------------------
(* What the person does.  One request of theirs is under way at a time.    *)

PersonHere == page.booted = "yes" /\ visible /\ Happens
Sends(message) == ask = NoAsk /\ ask' = message

(* The claim card.  The busy mark outlives the card's rebuilding.          *)
PicksProfile ==
  /\ PersonHere /\ surface = "board" /\ Mode = "claim" /\ ~page.busy
  /\ Sends([kind |-> "claim"])
  /\ page' = [page EXCEPT !.busy = TRUE]
  /\ UNCHANGED <<surface, visible, time, outside, pace, polls, notes>>

Reclaims ==
  /\ PersonHere /\ surface = "board"
  /\ \/ Mode = "identity" /\ page' = [page EXCEPT !.reclaiming = TRUE]
     \/ Mode = "claim" /\ page.reclaiming /\ The(page.self).claimed /\ page' = [page EXCEPT !.reclaiming = FALSE]
  /\ UNCHANGED <<surface, visible, time, outside, pace, polls, ask, notes>>

StartsRename ==
  /\ PersonHere /\ surface = "board" /\ Mode = "identity" /\ ~page.editing
  /\ page' = [page EXCEPT !.editing = TRUE]
  /\ UNCHANGED <<surface, visible, time, outside, pace, polls, ask, notes>>

FinishesRename ==
  /\ page.editing /\ page' = [page EXCEPT !.editing = FALSE]
  /\ \/ \E name \in LineNames : Sends([kind |-> "setLabel", label |-> name])
     \/ UNCHANGED ask
  /\ UNCHANGED <<surface, visible, time, outside, pace, polls, notes, left>>

ArmsOrDisarms ==
  /\ PersonHere
  /\ \E b \in page.board : b.claimed /\ Sends([kind |-> IF b.armed THEN "disarm" ELSE "arm", label |-> b.label])
  /\ UNCHANGED <<surface, visible, time, outside, page, pace, polls, notes>>

(* The hold.  What the popup's does is decided when it ends; the board's   *)
(* goes with the panic, and its other button asks to clear it.             *)
HoldBegins ==
  /\ PersonHere /\ ~page.holding /\ (surface = "board" => ~Panicking)
  /\ page' = [page EXCEPT !.holding = TRUE]
  /\ UNCHANGED <<surface, visible, time, outside, pace, polls, ask, notes>>

HoldEnds ==
  /\ page.holding /\ page' = [page EXCEPT !.holding = FALSE]
  /\ \/ UNCHANGED ask
     \/ surface = "popup" /\ Sends([kind |-> IF Panicking THEN "resume" ELSE "panic"])
     \/ surface = "board" /\ ~Panicking /\ Sends([kind |-> "panic"])
  /\ UNCHANGED <<surface, visible, time, outside, pace, polls, notes, left>>

ClearsPanic ==
  /\ PersonHere /\ surface = "board" /\ Panicking
  /\ Sends([kind |-> "clear"])
  /\ UNCHANGED <<surface, visible, time, outside, page, pace, polls, notes>>

-----------------------------------------------------------------------------
(* The worker relays the request to the broker.  A success is followed by  *)
(* a poll at once; a failure is said.                                      *)

Held == truth.panic
Heard(t) == [label |-> t.label, claimed |-> t.claimed]
Follows(said) ==
  /\ ask' = NoAsk
  /\ IF said THEN Room /\ Refresh(TRUE) ELSE UNCHANGED polls
  /\ page' = [page EXCEPT !.busy = FALSE, !.reclaiming = @ /\ ~(said /\ ask.kind = "claim")]

(* What the broker does with it, and what the extension stores.            *)
Effect(t, a) ==
  CASE a.kind = "claim" -> [t EXCEPT !.claimed = TRUE]
    [] a.kind = "setLabel" -> [t EXCEPT !.label = a.label]
    [] a.kind = "arm" -> [t EXCEPT !.armed = TRUE]
    [] a.kind = "disarm" -> [t EXCEPT !.armed = FALSE]
    [] a.kind = "panic" -> [t EXCEPT !.panic = TRUE, !.armed = FALSE]
    [] a.kind = "resume" -> [t EXCEPT !.panic = FALSE]
    [] OTHER -> t

(* Another line may hold the name; in panic only the switch and the board  *)
(* are answered, and no page can clear it but the popup's own resume.      *)
Grants(a) ==
  /\ Held => a.kind \in {"panic", "resume"}
  /\ a.kind \in {"arm", "disarm"} => a.label = truth.label /\ truth.claimed

BrokerAsked ==
  /\ ask # NoAsk /\ up
  /\ \/ /\ Grants(ask) /\ truth' = Effect(truth, ask)
        /\ up' = (ask.kind # "resume")
        /\ stored' = IF ask.kind \in {"claim", "setLabel"} THEN Heard(truth') ELSE stored
        /\ promised' = IF ask.kind \in {"claim", "setLabel"} THEN Nothing ELSE promised
        /\ Follows(TRUE)
     \/ Follows(FALSE) /\ UNCHANGED <<outside, promised>>
  /\ UNCHANGED <<surface, visible, time, pace, lastGood, left>>

(* An outage fails all but a rename, whose local copy stands, to be        *)
(* carried up by the next REGISTER.  The broker may have done it.          *)
AsksInOutage ==
  /\ ask # NoAsk /\ ~up
  /\ IF ask.kind = "setLabel"
     THEN /\ truth' \in {truth, Effect(truth, ask)}
          /\ stored' = [stored EXCEPT !.label = ask.label]
          /\ promised' = {ask.label} /\ Follows(TRUE)
     ELSE Follows(FALSE) /\ UNCHANGED <<truth, stored, promised>>
  /\ UNCHANGED <<surface, visible, time, up, pace, lastGood, left>>

-----------------------------------------------------------------------------
(* The link, and the broker, which hears others too.                       *)

LinkDrops ==
  /\ up /\ Happens /\ up' = FALSE
  /\ UNCHANGED <<surface, visible, time, truth, stored, page, pace, polls, ask, notes>>

(* REGISTER: the broker's name for the line is the answer.                 *)
LinkReturns ==
  /\ ~up /\ up' = TRUE
  /\ stored' = IF truth.panic THEN stored ELSE Heard(truth)
  /\ UNCHANGED <<surface, visible, time, truth, page, pace, polls, ask, notes, left>>

(* Panic from elsewhere and its end, an account switch, an arming that     *)
(* lapses, a name given on another board.                                  *)
HappensElsewhere ==
  /\ Happens
  /\ \/ truth' = [truth EXCEPT !.panic = ~@, !.armed = FALSE]
     \/ truth' = [truth EXCEPT !.claimed = FALSE, !.armed = FALSE]
     \/ truth' = [truth EXCEPT !.armed = FALSE]
  /\ truth' # truth
  /\ stored' = IF up /\ ~truth'.panic THEN Heard(truth') ELSE stored
  /\ UNCHANGED <<surface, visible, time, up, page, pace, polls, ask, notes>>

ClockTicks ==
  /\ time < MaxTicks /\ time' = time + 1
  /\ UNCHANGED <<surface, visible, outside, page, pace, polls, ask, notes, left>>

BoardNext ==
  \/ Boots \/ PollDue \/ Shows \/ Hides
  \/ \E i \in DOMAIN polls : AnswersBoard(i) \/ AnswersSelf(i) \/ Settles(i)
  \/ PicksProfile \/ Reclaims \/ StartsRename \/ FinishesRename \/ ArmsOrDisarms \/ HoldBegins \/ HoldEnds \/ ClearsPanic
  \/ BrokerAsked \/ AsksInOutage \/ LinkDrops \/ LinkReturns \/ HappensElsewhere \/ ClockTicks

BoardSpec == BoardInit /\ [][BoardNext]_boardVars

-----------------------------------------------------------------------------
(* A visible page always has its next poll coming, whichever polls failed, *)
(* overlapped, or were hidden away from; and its clock runs                *)
(* (options.js, refresh, scheduleNextPoll and bindVisibility).             *)
PollingGoesOn ==
  page.booted = "yes" /\ visible => ticking /\ (timer \/ \E i \in DOMAIN polls : ~polls[i].immediate)

(* The outage panel is up only when no board has arrived for the grace     *)
(* (options.js, refresh; lib/outage.js).                                   *)
OutageIsEarned == Status = "down" => time - lastGood >= Grace

(* A rename a page accepted during an outage is not lost when the link     *)
(* returns (sw.js, setLabel).                                              *)
RenamesAreCarriedUp == up /\ ~truth.panic => promised \subseteq {truth.label}
=============================================================================
