-------------------------- MODULE ExtensionProofs ---------------------------
(***************************************************************************)
(* Three parts of the extension.                                           *)
(*                                                                         *)
(* The operations on a page, for any number of operations, documents, keys *)
(* and mishaps: no key lands in a secret field without a yes for its site, *)
(* a ref never outlives its document, and the debugger is let go of.  The  *)
(* line of debugger requests is what the three have in common: what it     *)
(* still holds decides what focus has to be now, and what the attachment   *)
(* will be once it is empty.                                               *)
(*                                                                         *)
(* The ledger of ages, for any number of tabs, starts and updates in line: *)
(* the ages it keeps came to their tabs by address, and a tidy restart     *)
(* loses none that it need not.  What a ledger may say is one predicate    *)
(* (Good) that every operator of lib/tab-ages.js keeps; in a tidy re-key a *)
(* tab's own pair of windows beats every pair it clashes with.             *)
(*                                                                         *)
(* What an operation on the tab strip leaves when nobody interferes, on    *)
(* what StripProofs shows of its steps: here a gather, which carries where *)
(* every tab of the title is and which group of it stands first in the     *)
(* named window, and with it every operation, from request to result.      *)
(***************************************************************************)
EXTENDS PageOps, TabAges, StripProofs, TLAPS, FiniteSetTheorems, SequenceTheorems

Doers == Ops \cup {"worker", "sweep"}
DebuggerCalls == [do : {"attach", "command"}, by : Ops] \cup [do : {"detach"}, by : Doers]
TabNotices == [what : {"request", "landed", "removed", "detached"}, at : Sites]
Stages == {"idle", "ready", "write", "clear", "guard", "ask", "asked", "attaching", "attached", "held", "cdp",
           "finally", "detaching", "done"}
Jobs == [pc : Stages, kind : Kinds \cup {"none"}, yes : BOOLEAN, sent : Nat, enter : BOOLEAN,
         site : {"none", "plain", "named"}, doc : Nat, raced : BOOLEAN, inside : BOOLEAN, again : BOOLEAN]

PageTypeOK ==
  /\ tab \in [open : BOOLEAN, doc : Nat, since : Nat, at : Sites, heading : Sites \cup {"nowhere"}, shown : BOOLEAN,
              by : Ops \cup {"person"}, focus : Fields]
  /\ attached \in BOOLEAN /\ signingIn \in BOOLEAN /\ listed \in BOOLEAN /\ torn \in BOOLEAN /\ leaked \in BOOLEAN
  /\ calls \in Seq(DebuggerCalls) /\ events \in Seq(TabNotices)
  /\ snap \in [doc : Nat, raced : BOOLEAN]
  /\ job \in [Ops -> Jobs]
  /\ sweep \in {"due", "detaching", "clearing", "done"}
  /\ mishaps \in Nat

(* Inside withDebugger: only from the note of an attachment to its detach. *)
JobSound(j) ==
  /\ j.pc \in {"idle", "ready", "write", "clear"} => ~j.inside
  /\ j.pc \in {"held", "cdp", "finally", "detaching"} => j.inside
  /\ j.again => j.inside

JobsSound == \A o \in Ops : JobSound(job[o])

(* A command in line is the one its operation waits for, or was waiting    *)
(* for when its worker died.                                               *)
LineSound ==
  /\ \A i \in 1..Len(calls) : calls[i].do = "command" => job[calls[i].by].pc \in {"cdp", "done"}
  /\ \A i, j \in 1..Len(calls) : calls[i].do = "command" /\ calls[i] = calls[j] => i = j

-----------------------------------------------------------------------------
(* Keys.                                                                   *)

Typing(o) == job[o].kind = "keys" /\ Running(o)
Coming(o) == job[o].kind = "keys" /\ InLine(o)
Aimed(o) == BeforeItsKey(o) \/ Coming(o)

(* One sequence at a time; the keys of an earlier one landed before this   *)
(* one looked at the page.                                                 *)
OneTypes ==
  \A o, p \in Ops : o # p =>
    /\ ~(Typing(o) /\ Typing(p)) /\ ~(Coming(o) /\ Coming(p))
    /\ ~(Typing(o) /\ job[o].pc # "ready" /\ Coming(p))

(* A page an Enter of the sequence sent for comes only while the sequence  *)
(* waits for it, or is over.                                               *)
Settling(o) ==
  /\ Typing(o)
  /\ job[o].pc \in {"guard", "finally", "detaching"}
  /\ job[o].pc = "guard" => job[o].enter

EnterSettles ==
  tab.by \in Ops =>
    /\ job[tab.by].pc # "idle"
    /\ tab.heading # "nowhere" /\ Running(tab.by) => Settling(tab.by)

(* The focus a key was judged for is the focus it lands in.                *)
AimHolds == \A o \in Ops : Aimed(o) => Agreed(o, tab.focus)

KeysSound == OneTypes /\ EnterSettles /\ AimHolds /\ NoSecretWithoutAYes

-----------------------------------------------------------------------------
(* Refs.                                                                   *)

Word(what) == \E i \in 1..Len(events) : events[i].what \in what
RefGood(doc, raced) == raced \/ (tab.open /\ doc >= tab.since) \/ Word({"landed", "removed"})

RefsSound ==
  /\ tab.since <= tab.doc
  /\ snap.doc # 0 => RefGood(snap.doc, snap.raced)
  /\ \A o \in Ops : job[o].pc = "write" => RefGood(job[o].doc, job[o].raced)

-----------------------------------------------------------------------------
(* The debugger.                                                           *)

AtSignIn == tab.open /\ tab.at = "signin"

(* The last word of an address is of the one the tab is at.                *)
WordsAreTrue ==
  /\ tab.open => ~Word({"removed"})
  /\ \A i \in 1..Len(events) :
       tab.open /\ events[i].what = "landed" /\ (\A j \in i + 1..Len(events) : events[j].what # "landed")
         => events[i].at = tab.at

(* The debugger is not attached once the line is empty.                    *)
EndsDetached ==
  \/ ~attached /\ \A i \in 1..Len(calls) : calls[i].do # "attach"
  \/ \E i \in 1..Len(calls) : calls[i].do = "detach" /\ \A j \in i + 1..Len(calls) : calls[j].do # "attach"

SignInSound ==
  /\ WordsAreTrue
  /\ \A o \in Ops : IsAt(o, "asked") /\ AtSignIn => signingIn \/ Word({"landed"})
  /\ AtSignIn => Word({"landed"}) \/ EndsDetached

PageInv ==
  /\ PageTypeOK /\ JobsSound /\ LineSound
  /\ KeysSound /\ RefsSound /\ SignInSound /\ DebuggerLetGo

-----------------------------------------------------------------------------
(* Sequences.                                                              *)

LEMMA Appended ==
  ASSUME NEW S, NEW s \in Seq(S), NEW e \in S
  PROVE  /\ Append(s, e) \in Seq(S) /\ Len(s) \in Nat /\ Len(Append(s, e)) = Len(s) + 1
         /\ \A i \in 1..Len(s) : Append(s, e)[i] = s[i]
         /\ Append(s, e)[Len(s) + 1] = e
OBVIOUS

LEMMA Taken ==
  ASSUME NEW S, NEW s \in Seq(S), s # <<>>
  PROVE  /\ Tail(s) \in Seq(S) /\ Len(s) \in Nat \ {0} /\ Len(Tail(s)) = Len(s) - 1
         /\ \A i \in 1..Len(Tail(s)) : Tail(s)[i] = s[i + 1] /\ i + 1 \in 1..Len(s)
         /\ Head(s) = s[1] /\ s[1] \in S
OBVIOUS

-----------------------------------------------------------------------------
(* Types.                                                                  *)

LEMMA DoneIsAJob == Done \in Jobs /\ NotBegun \in Jobs /\ Done.pc = "done" /\ Done.kind = "none"
<1>1. NotBegun \in Jobs
  BY DEF NotBegun, Jobs, Stages
<1>2. [NotBegun EXCEPT !.pc = "done"] \in Jobs /\ [NotBegun EXCEPT !.pc = "done"].pc = "done"
  BY <1>1 DEF Jobs, Stages
<1>3. [NotBegun EXCEPT !.pc = "done"].kind = "none"
  BY DEF NotBegun
<1> QED
  BY <1>1, <1>2, <1>3 DEF Done

LEMMA JobFields ==
  ASSUME NEW j \in Jobs
  PROVE  /\ j.pc \in Stages /\ j.kind \in Kinds \cup {"none"} /\ j.sent \in Nat /\ j.doc \in Nat
         /\ j.site \in {"none", "plain", "named"}
         /\ j.yes \in BOOLEAN /\ j.enter \in BOOLEAN /\ j.raced \in BOOLEAN /\ j.inside \in BOOLEAN /\ j.again \in BOOLEAN
         /\ \A pc \in Stages : [j EXCEPT !.pc = pc] \in Jobs
BY DEF Jobs

(* Where an operation goes.                                                *)
LEMMA GoTypes ==
  ASSUME job \in [Ops -> Jobs], NEW o \in Ops, NEW pc \in Stages, Go(o, pc)
  PROVE  job' \in [Ops -> Jobs]
<1>1. IF pc = "done" THEN Done \in Jobs ELSE [job[o] EXCEPT !.pc = pc] \in Jobs
  BY DoneIsAJob, JobFields
<1> QED
  BY <1>1 DEF Go, Step

LEMMA CallTypes ==
  ASSUME calls \in Seq(DebuggerCalls), NEW o \in Doers, NEW do \in {"attach", "command", "detach"}, Call(o, do),
         do = "detach" \/ o \in Ops
  PROVE  calls' \in Seq(DebuggerCalls)
<1>1. [do |-> do, by |-> o] \in DebuggerCalls
  BY DEF DebuggerCalls
<1> QED
  BY <1>1, Appended DEF Call

LEMMA TakeTypes ==
  ASSUME events \in Seq(TabNotices), Take
  PROVE  events' \in Seq(TabNotices) /\ Notice \in TabNotices
BY Taken DEF Take, Notice

LEMMA ServedTypes ==
  ASSUME calls \in Seq(DebuggerCalls), Served
  PROVE  /\ calls' \in Seq(DebuggerCalls) /\ Head(calls) \in DebuggerCalls /\ Asker \in Doers
         /\ Head(calls).do \in {"attach", "command"} => Asker \in Ops
         /\ \A pc : Waits(pc) => Asker \in Ops
<1>1. Tail(calls) \in Seq(DebuggerCalls) /\ Head(calls) \in DebuggerCalls
  BY Taken DEF Served
<1> QED
  BY <1>1 DEF Served, Asker, Waits, DebuggerCalls, Doers

(* An operation that asks, judges, waits or ends.                          *)
OpSteps(o) ==
  \/ \E k \in Kinds, yes \in BOOLEAN : Starts(o, k, yes)
  \/ LooksAt(o) \/ BuildSnapshot(o) \/ CloseTab(o) \/ Cleared(o)
  \/ \E s \in Sites : Navigate(o, s)
  \/ \E f \in Fields : Click(o, f) \/ Fill(o, f) \/ FocusSelect(o, f)
  \/ TimeIsUp(o) \/ SettleAfterEnter(o) \/ GuardFocus(o)
  \/ Screenshot(o) \/ EvalJs(o) \/ AsksTab(o) \/ AttachDebugger(o) \/ NoteAttached(o) \/ SendCommand(o)
  \/ DetachDebugger(o)

LEMMA OpTypes ==
  ASSUME PageTypeOK, NEW o \in Ops, OpSteps(o)
  PROVE  PageTypeOK'
<1> USE DEF PageTypeOK, memo, ghosts, world
<1>1. /\ job[o] \in Jobs /\ Finally(o) \in Stages /\ o \in Doers /\ NotBegun \in Jobs
      /\ \A pc \in Stages : Go(o, pc) => job' \in [Ops -> Jobs]
      /\ \A j \in Jobs : Step(o, j) => job' \in [Ops -> Jobs]
      /\ \A do \in {"attach", "command", "detach"} : Call(o, do) => calls' \in Seq(DebuggerCalls)
  BY GoTypes, CallTypes, DoneIsAJob DEF Finally, Stages, Doers, Step
<1>2. /\ {"idle", "ready", "write", "clear", "guard", "ask", "asked", "attaching", "attached", "held", "cdp",
          "finally", "detaching", "done"} = Stages
      /\ tab.doc \in Nat /\ tab.focus \in Fields /\ tab.at \in Sites /\ tab.heading \in Sites \cup {"nowhere"}
      /\ job[o].doc \in Nat /\ job[o].raced \in BOOLEAN
  BY <1>1, JobFields DEF Stages
<1>3. \A e \in TabNotices : Append(events, e) \in Seq(TabNotices)
  BY Appended
<1>4. ASSUME NEW k \in Kinds, NEW yes \in BOOLEAN, Starts(o, k, yes) PROVE PageTypeOK'
  <2>1. [job[o] EXCEPT !.pc = "ready", !.kind = k, !.yes = yes] \in Jobs
    BY <1>1, <1>2 DEF Jobs
  <2> QED
    BY <1>1, <1>4, <2>1 DEF Starts
<1>5. CASE LooksAt(o)
  <2>1. [job[o] EXCEPT !.pc = "write", !.doc = tab.doc] \in Jobs
    BY <1>1, <1>2 DEF Jobs
  <2> QED
    BY <1>1, <1>5, <2>1 DEF LooksAt
<1>6. CASE BuildSnapshot(o)
  BY <1>1, <1>2, <1>6 DEF BuildSnapshot
<1>7. CASE CloseTab(o)
  <2>1. [what |-> "removed", at |-> tab.at] \in TabNotices
    BY <1>2 DEF TabNotices
  <2> QED
    BY <1>1, <1>2, <1>3, <1>7, <2>1 DEF CloseTab
<1>8. CASE Cleared(o)
  BY <1>1, <1>2, <1>8 DEF Cleared, ClearSnapshot
<1>9. ASSUME NEW s \in Sites, Navigate(o, s) PROVE PageTypeOK'
  <2>1. [what |-> "request", at |-> s] \in TabNotices
    BY DEF TabNotices
  <2>2. events' \in Seq(TabNotices)
    BY <1>3, <1>9, <2>1 DEF Navigate, Heads
  <2> QED
    BY <1>1, <1>2, <1>9, <2>2 DEF Navigate, Heads
<1>10. ASSUME NEW f \in Fields, Click(o, f) \/ Fill(o, f) \/ FocusSelect(o, f) PROVE PageTypeOK'
  BY <1>1, <1>2, <1>10 DEF Click, Fill, FocusSelect, PageClick, PageFill, PageFocusSelect
<1>11. CASE TimeIsUp(o) \/ SettleAfterEnter(o)
  <2>1. [job[o] EXCEPT !.enter = FALSE] \in Jobs
    BY <1>1 DEF Jobs
  <2> QED
    BY <1>1, <1>11, <2>1 DEF TimeIsUp, SettleAfterEnter
<1>12. CASE GuardFocus(o)
  <2>1. SiteAfter(o, PageFieldKind) \in {"none", "plain", "named"}
    BY <1>1, <1>2, JobFields DEF SiteAfter, PageFieldKind, Fields
  <2>2. [job[o] EXCEPT !.pc = IF job[o].inside THEN "held" ELSE "ask", !.site = SiteAfter(o, PageFieldKind)] \in Jobs
    BY <1>1, <1>2, <2>1 DEF Jobs
  <2> QED
    BY <1>1, <1>12, <2>2 DEF GuardFocus
<1>13. CASE Screenshot(o) \/ EvalJs(o) \/ AsksTab(o)
  BY <1>1, <1>2, <1>13 DEF Screenshot, EvalJs, AsksTab
<1>14. CASE AttachDebugger(o) \/ DetachDebugger(o)
  BY <1>1, <1>2, <1>14 DEF AttachDebugger, DetachDebugger
<1>15. CASE NoteAttached(o)
  <2>1. [job[o] EXCEPT !.pc = "held", !.inside = TRUE] \in Jobs
    BY <1>1, <1>2 DEF Jobs
  <2> QED
    BY <1>1, <1>2, <1>15, <2>1 DEF NoteAttached
<1>16. CASE SendCommand(o)
  <2>1. [job[o] EXCEPT !.pc = "cdp", !.again = FALSE] \in Jobs
    BY <1>1, <1>2 DEF Jobs
  <2> QED
    BY <1>1, <1>2, <1>16, <2>1 DEF SendCommand
<1> QED
  BY <1>4, <1>5, <1>6, <1>7, <1>8, <1>9, <1>10, <1>11, <1>12, <1>13, <1>14, <1>15, <1>16 DEF OpSteps

(* The browser serves the line.                                            *)
ServeSteps ==
  \/ ServeAttach \/ ServeDetach \/ CommandFails \/ CommandRuns
  \/ \E enter \in BOOLEAN, f \in Fields, s \in Sites \cup {"nowhere"} : KeyLands(enter, f, s)

LEMMA ServeTypes ==
  ASSUME PageTypeOK, ServeSteps
  PROVE  PageTypeOK'
<1> USE DEF PageTypeOK, memo, ghosts, world
<1>1. Served
  BY DEF ServeSteps, ServeAttach, ServeDetach, CommandFails, CommandRuns, KeyLands
<1>2. calls' \in Seq(DebuggerCalls) /\ Asker \in Doers
  BY <1>1, ServedTypes
<1>3. ASSUME NEW pc, Waits(pc)
      PROVE  /\ Asker \in Ops /\ job[Asker] \in Jobs /\ Finally(Asker) \in Stages
             /\ \A to \in Stages : Go(Asker, to) => job' \in [Ops -> Jobs]
             /\ \A j \in Jobs : Step(Asker, j) => job' \in [Ops -> Jobs]
  BY <1>1, <1>3, ServedTypes, GoTypes DEF Finally, Stages, Step
<1>4. {"attached", "done", "finally", "ask", "guard"} \subseteq Stages
  BY DEF Stages
<1>5. CASE ServeAttach
  BY <1>2, <1>3, <1>4, <1>5 DEF ServeAttach
<1>6. CASE ServeDetach
  BY <1>2, <1>3, <1>4, <1>6 DEF ServeDetach
<1>7. CASE CommandFails
  <2>1. Waits("cdp") => [job[Asker] EXCEPT !.pc = "ask", !.again = TRUE] \in Jobs
    BY <1>3, <1>4 DEF Jobs
  <2> QED
    BY <1>2, <1>3, <1>4, <1>7, <2>1, ZenonT(60) DEF CommandFails
<1>8. CASE CommandRuns
  BY <1>2, <1>3, <1>4, <1>8 DEF CommandRuns
<1>9. ASSUME NEW enter \in BOOLEAN, NEW f \in Fields, NEW s \in Sites \cup {"nowhere"}, KeyLands(enter, f, s)
      PROVE  PageTypeOK'
  <2>1. ASSUME Waits("cdp"), NEW pc \in Stages
        PROVE  [job[Asker] EXCEPT !.pc = pc, !.sent = @ + 1, !.enter = enter] \in Jobs
    <3>1. job[Asker] \in Jobs /\ job[Asker].sent + 1 \in Nat
      BY <1>3, <2>1 DEF Jobs
    <3> QED
      BY <3>1 DEF Jobs
  <2>2. job' \in [Ops -> Jobs]
    BY <1>3, <1>4, <1>9, <2>1 DEF KeyLands
  <2>3. Asker \in Ops
    BY <1>1, <1>9, ServedTypes DEF KeyLands
  <2>4. events' \in Seq(TabNotices)
    <3>1. [what |-> "request", at |-> "signin"] \in TabNotices
      BY DEF TabNotices, Sites
    <3>2. Append(events, [what |-> "request", at |-> "signin"]) \in Seq(TabNotices)
      BY <3>1, Appended
    <3> QED
      BY <1>9, <3>2 DEF KeyLands, Heads
  <2>5. tab' \in [open : BOOLEAN, doc : Nat, since : Nat, at : Sites, heading : Sites \cup {"nowhere"}, shown : BOOLEAN,
                  by : Ops \cup {"person"}, focus : Fields]
    BY <1>9, <2>3 DEF KeyLands, Heads
  <2> QED
    BY <1>2, <1>9, <2>2, <2>4, <2>5 DEF KeyLands
<1> QED
  BY <1>5, <1>6, <1>7, <1>8, <1>9 DEF ServeSteps

(* The person, the browser's events and the worker's own life.             *)
WorldSteps ==
  \/ \E s \in Sites, shown \in BOOLEAN : PersonNavigates(s, shown)
  \/ \E f \in Fields, same \in BOOLEAN : Lands(f, same)
  \/ PageRenames \/ PersonCloses \/ BannerDismissed

WorkerSteps ==
  \/ OnBeforeRequest \/ OnUpdated \/ OnRemoved \/ NoteDebuggerDetached
  \/ WorkerDies \/ BootsAgain \/ SweepDebuggees \/ SweepEnds

LEMMA WorldTypes ==
  ASSUME PageTypeOK, WorldSteps
  PROVE  PageTypeOK'
<1> USE DEF PageTypeOK, memo, ghosts
<1>1. /\ \A e \in TabNotices : Append(events, e) \in Seq(TabNotices)
      /\ \A what \in {"request", "landed", "removed", "detached"}, at \in Sites : [what |-> what, at |-> at] \in TabNotices
      /\ tab.at \in Sites /\ tab.heading \in Sites \cup {"nowhere"} /\ tab.doc \in Nat
      /\ Mishap => mishaps' \in Nat
  BY Appended DEF TabNotices, Mishap
<1>2. ASSUME NEW s \in Sites, NEW shown \in BOOLEAN, PersonNavigates(s, shown) PROVE PageTypeOK'
  <2>1. events' \in Seq(TabNotices) /\ mishaps' \in Nat
    BY <1>1, <1>2 DEF PersonNavigates, Heads
  <2> QED
    BY <1>2, <2>1 DEF PersonNavigates, Heads
<1>3. ASSUME NEW f \in Fields, NEW same \in BOOLEAN, Lands(f, same) PROVE PageTypeOK'
  <2>1. events' \in Seq(TabNotices)
    BY <1>1, <1>3 DEF Lands
  <2>2. PICK n : n = IF same THEN tab.since ELSE tab.doc + 1
    OBVIOUS
  <2>3. n \in Nat /\ tab.doc + 1 \in Nat
    BY <1>1, <2>2
  <2>4. tab' = [tab EXCEPT !.doc = tab.doc + 1, !.since = n, !.at = tab.heading, !.heading = "nowhere", !.shown = TRUE,
                           !.by = "person", !.focus = f]
        /\ tab.heading \in Sites
    BY <1>1, <1>3, <2>2 DEF Lands
  <2> QED
    BY <1>3, <2>1, <2>3, <2>4 DEF Lands
<1>4. CASE PageRenames \/ PersonCloses \/ BannerDismissed
  <2>1. events' \in Seq(TabNotices) /\ mishaps' \in Nat
    <3>1. \E what \in {"landed", "removed", "detached"} : events' = Append(events, [what |-> what, at |-> tab.at])
      BY <1>4 DEF PageRenames, PersonCloses, BannerDismissed
    <3>2. Mishap
      BY <1>4 DEF PageRenames, PersonCloses, BannerDismissed
    <3> QED
      BY <1>1, <3>1, <3>2
  <2> QED
    BY <1>4, <2>1 DEF PageRenames, PersonCloses, BannerDismissed
<1> QED
  BY <1>2, <1>3, <1>4 DEF WorldSteps

LEMMA WorkerTypes ==
  ASSUME PageTypeOK, WorkerSteps
  PROVE  PageTypeOK'
<1> USE DEF PageTypeOK, memo, ghosts, world
<1>1. \A o \in {"worker", "sweep"} : Call(o, "detach") => calls' \in Seq(DebuggerCalls)
  BY CallTypes DEF Doers
<1>2. Take => events' \in Seq(TabNotices)
  BY TakeTypes
<1>3. Raced => job' \in [Ops -> Jobs]
  <2>1. \A o \in Ops : job[o] \in Jobs /\ [job[o] EXCEPT !.raced = TRUE] \in Jobs
    BY SMTT(30), ZenonT(60) DEF Jobs
  <2> QED
    BY <2>1 DEF Raced
<1>a. Mishap => mishaps' \in Nat
  BY DEF Mishap
<1>4. CASE OnBeforeRequest
  BY <1>1, <1>2, <1>4 DEF OnBeforeRequest, DetachForSignIn
<1>5. CASE OnUpdated \/ OnRemoved
  <2>1. events' \in Seq(TabNotices) /\ job' \in [Ops -> Jobs]
    BY <1>2, <1>3, <1>5 DEF OnUpdated, OnRemoved
  <2>2. calls' \in Seq(DebuggerCalls) /\ signingIn' \in BOOLEAN /\ snap' \in [doc : Nat, raced : BOOLEAN]
    <3>1. signingIn' \in BOOLEAN /\ snap' = [doc |-> 0, raced |-> FALSE]
      BY <1>5 DEF OnUpdated, OnRemoved, DetachForSignIn, ClearSnapshot
    <3>2. Call("worker", "detach") \/ UNCHANGED calls
      BY <1>5 DEF OnUpdated, OnRemoved, DetachForSignIn
    <3> QED
      BY <1>1, <3>1, <3>2
  <2> QED
    BY <1>5, <2>1, <2>2 DEF OnUpdated, OnRemoved
<1>6. CASE NoteDebuggerDetached
  BY <1>2, <1>6 DEF NoteDebuggerDetached
<1>7. CASE WorkerDies
  <2>1. \A o \in Ops : Abandoned(o) \in Jobs
    BY DoneIsAJob, JobFields DEF Abandoned, Stages
  <2> QED
    BY <1>7, <1>a, <2>1 DEF WorkerDies
<1>8. CASE BootsAgain \/ SweepDebuggees \/ SweepEnds
  BY <1>1, <1>8, <1>a DEF BootsAgain, SweepDebuggees, SweepEnds
<1> QED
  BY <1>4, <1>5, <1>6, <1>7, <1>8 DEF WorkerSteps

LEMMA PageSteps ==
  ASSUME PageNext
  PROVE  (\E o \in Ops : OpSteps(o)) \/ ServeSteps \/ WorldSteps \/ WorkerSteps
BY DEF PageNext, OpSteps, ServeSteps, WorldSteps, WorkerSteps

LEMMA PageTypes ==
  ASSUME PageTypeOK, [PageNext]_pageVars
  PROVE  PageTypeOK'
<1>1. CASE UNCHANGED pageVars
  BY <1>1 DEF pageVars, PageTypeOK
<1> QED
  BY <1>1, PageSteps, OpTypes, ServeTypes, WorldTypes, WorkerTypes

-----------------------------------------------------------------------------
(* Operations and the line.                                                *)

(* Only where it is changes, or it ends.                                   *)
SameBut(n, j) ==
  /\ n.kind = j.kind /\ n.yes = j.yes /\ n.enter = j.enter /\ n.site = j.site /\ n.doc = j.doc
  /\ n.raced = j.raced /\ n.inside = j.inside /\ n.again = j.again

OnlyMoves(o) == job \in [Ops -> Jobs] /\ o \in Ops /\ \A p \in Ops : p # o => job'[p] = job[p]

LEMMA DoneIs ==
  /\ Done.pc = "done" /\ Done.kind = "none" /\ ~Done.inside /\ ~Done.again /\ ~Done.enter /\ Done.doc = 0
  /\ Done.site = "none" /\ JobSound(Done)
BY DEF Done, NotBegun, JobSound

LEMMA GoMoves ==
  ASSUME job \in [Ops -> Jobs], NEW o \in Ops, NEW pc \in Stages, Go(o, pc)
  PROVE  /\ OnlyMoves(o) /\ job'[o].pc = pc
         /\ pc = "done" => job'[o] = Done
         /\ pc # "done" => SameBut(job'[o], job[o])
<1>1. job' = [job EXCEPT ![o] = IF pc = "done" THEN Done ELSE [job[o] EXCEPT !.pc = pc]]
  BY DEF Go, Step
<1>2. job[o] \in Jobs /\ [job[o] EXCEPT !.pc = pc].pc = pc /\ SameBut([job[o] EXCEPT !.pc = pc], job[o])
  BY DEF Jobs, SameBut
<1> QED
  BY <1>1, <1>2, DoneIs DEF OnlyMoves

LEMMA StepMoves ==
  ASSUME job \in [Ops -> Jobs], NEW o \in Ops, NEW j, Step(o, j)
  PROVE  OnlyMoves(o) /\ job'[o] = j
BY DEF Step, OnlyMoves

LEMMA FinallyIs ==
  ASSUME NEW o \in Ops
  PROVE  Finally(o) \in {"finally", "done"} /\ (Finally(o) = "finally" <=> job[o].inside)
BY DEF Finally

(* A step of one operation leaves the others alone; where it may lead.     *)
LEMMA OpMoves ==
  ASSUME PageTypeOK, JobsSound, NEW o \in Ops, OpSteps(o)
  PROVE  /\ OnlyMoves(o)
         /\ job[o].pc \notin {"attaching", "cdp", "detaching", "done"}
         /\ JobSound(job'[o])
<1> USE DEF JobSound, IsAt
<1>1. job[o] \in Jobs /\ JobSound(job[o]) /\ job \in [Ops -> Jobs]
  BY DEF PageTypeOK, JobsSound
<1>2. ASSUME NEW pc \in Stages, Go(o, pc)
      PROVE  /\ OnlyMoves(o) /\ job'[o].pc = pc
             /\ pc = "done" => JobSound(job'[o])
             /\ pc # "done" => job'[o].inside = job[o].inside /\ job'[o].again = job[o].again
  BY <1>1, <1>2, GoMoves, DoneIs DEF SameBut
<1>3. {"idle", "ready", "write", "clear", "guard", "ask", "asked", "attaching", "attached", "held", "cdp",
       "finally", "detaching", "done"} = Stages
  BY DEF Stages
<1>4. ASSUME NEW k \in Kinds, NEW yes \in BOOLEAN, Starts(o, k, yes)
      PROVE  OnlyMoves(o) /\ job[o].pc = "idle" /\ JobSound(job'[o])
  <2>1. OnlyMoves(o) /\ job'[o] = [job[o] EXCEPT !.pc = "ready", !.kind = k, !.yes = yes]
    BY <1>1, <1>4, StepMoves DEF Starts
  <2> QED
    BY <1>1, <1>4, <2>1 DEF Starts, Jobs
<1>5. CASE LooksAt(o)
  <2>1. OnlyMoves(o) /\ job'[o] = [job[o] EXCEPT !.pc = "write", !.doc = tab.doc]
    BY <1>1, <1>5, StepMoves DEF LooksAt
  <2> QED
    BY <1>1, <1>5, <2>1 DEF LooksAt, Jobs
<1>6. CASE BuildSnapshot(o) \/ Cleared(o)
  BY <1>2, <1>3, <1>6 DEF BuildSnapshot, Cleared
<1>7. CASE CloseTab(o) \/ \E s \in Sites : Navigate(o, s)
  <2>1. Go(o, "clear") /\ job[o].pc = "ready"
    BY <1>7 DEF CloseTab, Navigate
  <2> QED
    BY <1>1, <1>2, <1>3, <2>1
<1>8. CASE \E f \in Fields : Click(o, f) \/ Fill(o, f) \/ FocusSelect(o, f)
  <2>1. (Go(o, "done") \/ Go(o, "guard")) /\ job[o].pc = "ready"
    BY <1>8 DEF Click, Fill, FocusSelect
  <2> QED
    BY <1>1, <1>2, <1>3, <2>1
<1>9. CASE Screenshot(o) \/ EvalJs(o)
  <2>1. (Go(o, "done") \/ Go(o, "ask")) /\ job[o].pc = "ready"
    BY <1>9 DEF Screenshot, EvalJs
  <2> QED
    BY <1>1, <1>2, <1>3, <2>1
<1>10. Go(o, Finally(o)) => OnlyMoves(o) /\ JobSound(job'[o])
  BY <1>1, <1>2, <1>3, FinallyIs
<1>11. CASE TimeIsUp(o) \/ SettleAfterEnter(o)
  <2>1. job[o].pc = "guard"
    BY <1>11 DEF TimeIsUp, SettleAfterEnter
  <2>2. ASSUME Step(o, [job[o] EXCEPT !.enter = FALSE]) PROVE OnlyMoves(o) /\ JobSound(job'[o])
    BY <1>1, <2>1, <2>2, StepMoves DEF Jobs
  <2> QED
    BY <1>10, <1>11, <2>1, <2>2 DEF TimeIsUp, SettleAfterEnter
<1>12. CASE GuardFocus(o)
  <2> DEFINE j == [job[o] EXCEPT !.pc = IF job[o].inside THEN "held" ELSE "ask", !.site = SiteAfter(o, PageFieldKind)]
  <2>1. JobSound(j)
    BY <1>1 DEF Jobs
  <2>2. Step(o, j) => OnlyMoves(o) /\ job'[o] = j
    BY <1>1, StepMoves
  <2> QED
    BY <1>10, <1>12, <2>1, <2>2 DEF GuardFocus
<1>13. CASE AsksTab(o)
  <2>1. job[o].pc = "ask" /\ (Go(o, "asked") \/ Go(o, Finally(o)))
    BY <1>13 DEF AsksTab
  <2> QED
    BY <1>1, <1>2, <1>3, <1>10, <2>1
<1>14. CASE AttachDebugger(o)
  <2>1. job[o].pc = "asked" /\ (Go(o, "attaching") \/ Go(o, Finally(o)))
    BY <1>14 DEF AttachDebugger
  <2> QED
    BY <1>1, <1>2, <1>3, <1>10, <2>1
<1>15. CASE NoteAttached(o)
  <2>1. ASSUME job[o].again, Go(o, "cdp") PROVE OnlyMoves(o) /\ JobSound(job'[o])
    BY <1>1, <1>2, <1>3, <2>1
  <2>2. ASSUME Step(o, [job[o] EXCEPT !.pc = "held", !.inside = TRUE]) PROVE OnlyMoves(o) /\ JobSound(job'[o])
    <3> DEFINE j == [job[o] EXCEPT !.pc = "held", !.inside = TRUE]
    <3>1. j.inside = TRUE /\ j.pc = "held"
      BY <1>1 DEF Jobs
    <3>2. OnlyMoves(o) /\ job'[o] = j
      BY <1>1, <2>2, StepMoves
    <3> QED
      BY <3>1, <3>2
  <2> QED
    BY <1>15, <2>1, <2>2 DEF NoteAttached
<1>16. CASE SendCommand(o)
  <2>1. OnlyMoves(o) /\ job'[o] = [job[o] EXCEPT !.pc = "cdp", !.again = FALSE]
    BY <1>1, <1>16, StepMoves DEF SendCommand
  <2> QED
    BY <1>1, <1>16, <2>1 DEF SendCommand, Jobs
<1>17. CASE DetachDebugger(o)
  BY <1>1, <1>2, <1>3, <1>17 DEF DetachDebugger
<1> QED
  BY <1>4, <1>5, <1>6, <1>7, <1>8, <1>9, <1>11, <1>12, <1>13, <1>14, <1>15, <1>16, <1>17 DEF OpSteps

(* Being served moves only the operation that waits, from where it waits.  *)
LEMMA ServeMoves ==
  ASSUME PageTypeOK, JobsSound, ServeSteps
  PROVE  \/ job' = job
         \/ /\ OnlyMoves(Asker)
            /\ \/ Waits("attaching") /\ Head(calls).do = "attach"
               \/ Waits("detaching") /\ Head(calls).do = "detach"
               \/ Waits("cdp") /\ Head(calls).do = "command"
            /\ JobSound(job'[Asker])
<1> USE DEF JobSound
<1>1. ASSUME NEW pc \in Stages, Waits(pc)
      PROVE  Asker \in Ops /\ job[Asker] \in Jobs /\ JobSound(job[Asker]) /\ job[Asker].pc = pc /\ job \in [Ops -> Jobs]
  BY <1>1 DEF Waits, PageTypeOK, JobsSound
<1>2. {"attaching", "attached", "detaching", "done", "cdp", "finally", "ask", "guard"} \subseteq Stages
  BY DEF Stages
<1>3. ASSUME NEW pc \in Stages, Waits(pc), NEW to \in Stages, Go(Asker, to)
      PROVE  /\ OnlyMoves(Asker) /\ job'[Asker].pc = to
             /\ to = "done" => JobSound(job'[Asker])
             /\ to # "done" => job'[Asker].inside = job[Asker].inside /\ job'[Asker].again = job[Asker].again
  BY <1>1, <1>3, GoMoves, DoneIs DEF SameBut
<1>4. CASE ServeAttach
  <2>1. CASE Waits("attaching")
    <3>1. Go(Asker, "attached") \/ Go(Asker, Finally(Asker))
      BY <1>4, <2>1 DEF ServeAttach
    <3> QED
      BY <1>1, <1>2, <1>3, <1>4, <2>1, <3>1, FinallyIs DEF ServeAttach
  <2> QED
    BY <1>4, <2>1 DEF ServeAttach
<1>5. CASE ServeDetach
  BY <1>2, <1>3, <1>5 DEF ServeDetach
<1>6. CASE CommandFails
  <2>1. CASE Waits("cdp")
    <3>1. job[Asker].inside /\ Head(calls).do = "command"
      BY <1>1, <1>2, <1>6, <2>1 DEF CommandFails
    <3>2. ASSUME Go(Asker, "finally") PROVE OnlyMoves(Asker) /\ JobSound(job'[Asker])
      BY <1>2, <1>3, <2>1, <3>1, <3>2
    <3>3. ASSUME Step(Asker, [job[Asker] EXCEPT !.pc = "ask", !.again = TRUE]) PROVE OnlyMoves(Asker) /\ JobSound(job'[Asker])
      <4> DEFINE j == [job[Asker] EXCEPT !.pc = "ask", !.again = TRUE]
      <4>1. j.inside = TRUE /\ j.pc = "ask"
        BY <1>1, <1>2, <2>1, <3>1 DEF Jobs
      <4>2. OnlyMoves(Asker) /\ job'[Asker] = j
        BY <1>1, <1>2, <2>1, <3>3, StepMoves
      <4> QED
        BY <4>1, <4>2
    <3> QED
      BY <1>6, <2>1, <3>1, <3>2, <3>3 DEF CommandFails
  <2> QED
    BY <1>6, <2>1 DEF CommandFails
<1>7. CASE CommandRuns
  <2>1. CASE Waits("cdp")
    <3>1. Go(Asker, "finally") /\ Head(calls).do = "command"
      BY <1>7, <2>1 DEF CommandRuns
    <3> QED
      BY <1>1, <1>2, <1>3, <2>1, <3>1
  <2> QED
    BY <1>7, <2>1 DEF CommandRuns
<1>8. ASSUME NEW enter \in BOOLEAN, NEW f \in Fields, NEW s \in Sites \cup {"nowhere"}, KeyLands(enter, f, s)
      PROVE  \/ job' = job
             \/ OnlyMoves(Asker) /\ Waits("cdp") /\ Head(calls).do = "command" /\ JobSound(job'[Asker])
  <2>1. CASE Waits("cdp")
    <3> DEFINE pc == IF job[Asker].sent + 1 < MaxKeys THEN "guard" ELSE "finally"
               j == [job[Asker] EXCEPT !.pc = pc, !.sent = @ + 1, !.enter = enter]
    <3>1. JobSound(j)
      BY <1>1, <1>2, <2>1 DEF Jobs
    <3>2. Step(Asker, j) /\ Head(calls).do = "command"
      BY <1>8, <2>1 DEF KeyLands
    <3> HIDE DEF j
    <3> QED
      BY <1>1, <1>2, <2>1, <3>1, <3>2, StepMoves
  <2> QED
    BY <1>8, <2>1 DEF KeyLands
<1> QED
  BY <1>4, <1>5, <1>6, <1>7, <1>8 DEF ServeSteps

LEMMA JobsKept ==
  ASSUME PageTypeOK, JobsSound, [PageNext]_pageVars
  PROVE  JobsSound'
<1>1. \A o \in Ops : OpSteps(o) => JobsSound'
  BY OpMoves DEF JobsSound, OnlyMoves
<1>2. CASE ServeSteps
  BY <1>2, ServeMoves DEF JobsSound, OnlyMoves
<1>3. CASE WorldSteps \/ UNCHANGED pageVars
  <2>1. job' = job
    BY <1>3 DEF WorldSteps, PersonNavigates, Lands, PageRenames, PersonCloses, BannerDismissed, pageVars
  <2> QED
    BY <2>1 DEF JobsSound
<1>4. CASE WorkerSteps
  <2>1. CASE WorkerDies
    <3>1. \A o \in Ops : Abandoned(o).pc = "done" /\ (Abandoned(o).again => Abandoned(o).inside)
      BY DEF Abandoned, Done, NotBegun, JobsSound, JobSound, PageTypeOK, Jobs
    <3> QED
      BY <2>1, <3>1 DEF WorkerDies, JobsSound, JobSound
  <2>2. CASE Raced
    <3>1. \A o \in Ops : job'[o] \in {job[o], [job[o] EXCEPT !.raced = TRUE]} /\ job[o] \in Jobs
      BY <2>2 DEF Raced, PageTypeOK
    <3>2. \A o \in Ops : job'[o].pc = job[o].pc /\ job'[o].inside = job[o].inside /\ job'[o].again = job[o].again
      BY <3>1 DEF Jobs
    <3> QED
      BY <3>2 DEF JobsSound, JobSound
  <2>3. CASE UNCHANGED job
    BY <2>3 DEF JobsSound
  <2> QED
    BY <1>4, <2>1, <2>2, <2>3
       DEF WorkerSteps, OnBeforeRequest, OnUpdated, OnRemoved, NoteDebuggerDetached, BootsAgain, SweepDebuggees, SweepEnds
<1> QED
  BY <1>1, <1>2, <1>3, <1>4, PageSteps

(* What a step of an operation puts in line.                               *)
LEMMA OpCalls ==
  ASSUME PageTypeOK, NEW o \in Ops, OpSteps(o)
  PROVE  \/ calls' = calls
         \/ /\ calls' = Append(calls, [do |-> "attach", by |-> o])
            /\ job[o].pc = "asked" /\ ~signingIn /\ UNCHANGED <<tab, events>>
         \/ calls' = Append(calls, [do |-> "command", by |-> o]) /\ job'[o].pc = "cdp"
         \/ calls' = Append(calls, [do |-> "detach", by |-> o])
<1>1. CASE AttachDebugger(o)
  BY <1>1 DEF AttachDebugger, IsAt, Call, world
<1>2. CASE NoteAttached(o)
  <2>1. Go(o, "cdp") => job'[o].pc = "cdp"
    BY GoMoves DEF PageTypeOK, Stages
  <2> QED
    BY <1>2, <2>1 DEF NoteAttached, Call
<1>3. CASE SendCommand(o)
  <2>1. job[o] \in Jobs /\ Step(o, [job[o] EXCEPT !.pc = "cdp", !.again = FALSE])
    BY <1>3 DEF SendCommand, PageTypeOK
  <2> DEFINE j == [job[o] EXCEPT !.pc = "cdp", !.again = FALSE]
  <2>a. j.pc = "cdp"
    BY <2>1 DEF Jobs
  <2>2. job'[o].pc = "cdp"
    BY <2>1, <2>a, StepMoves DEF PageTypeOK
  <2> QED
    BY <1>3, <2>2 DEF SendCommand, Call
<1>4. CASE DetachDebugger(o)
  BY <1>4 DEF DetachDebugger, Call
<1> QED
  BY <1>1, <1>2, <1>3, <1>4
     DEF OpSteps, Starts, LooksAt, BuildSnapshot, CloseTab, Cleared, Navigate, Click, Fill, FocusSelect, TimeIsUp,
         SettleAfterEnter, GuardFocus, Screenshot, EvalJs, AsksTab

LEMMA ServedCalls == ServeSteps => Served
BY DEF ServeSteps, ServeAttach, ServeDetach, CommandFails, CommandRuns, KeyLands

LEMMA WorkerCalls ==
  WorkerSteps => \/ calls' = calls
                 \/ \E who \in {"worker", "sweep"} : calls' = Append(calls, [do |-> "detach", by |-> who])
BY DEF WorkerSteps, OnBeforeRequest, OnUpdated, OnRemoved, NoteDebuggerDetached, WorkerDies, BootsAgain, SweepDebuggees,
       SweepEnds, DetachForSignIn, Call

LEMMA WorldCalls == WorldSteps => calls' = calls /\ job' = job
BY DEF WorldSteps, PersonNavigates, Lands, PageRenames, PersonCloses, BannerDismissed

(* Who has a command in line, after one is put there and after one is      *)
(* served.                                                                 *)
LEMMA InLineAppended ==
  ASSUME PageTypeOK, NEW c \in DebuggerCalls, calls' = Append(calls, c), NEW o \in Ops
  PROVE  InLine(o)' <=> InLine(o) \/ c = [do |-> "command", by |-> o]
<1>1. /\ Len(calls) \in Nat /\ Len(calls') = Len(calls) + 1
      /\ \A i \in 1..Len(calls) : calls'[i] = calls[i]
      /\ calls'[Len(calls) + 1] = c
  BY Appended DEF PageTypeOK
<1> QED
  BY <1>1 DEF InLine

LEMMA InLineServed ==
  ASSUME PageTypeOK, LineSound, Served, NEW o \in Ops
  PROVE  InLine(o)' => InLine(o) /\ Head(calls) # [do |-> "command", by |-> o]
<1>1. /\ Len(calls) \in Nat \ {0} /\ Len(calls') = Len(calls) - 1
      /\ \A i \in 1..Len(calls') : calls'[i] = calls[i + 1] /\ i + 1 \in 1..Len(calls)
      /\ Head(calls) = calls[1]
  BY Taken DEF PageTypeOK, Served
<1> SUFFICES ASSUME NEW i \in 1..Len(calls'), calls'[i] = [do |-> "command", by |-> o]
             PROVE  InLine(o) /\ calls[1] # [do |-> "command", by |-> o]
  BY <1>1 DEF InLine
<1>2. i + 1 \in 1..Len(calls) /\ calls[i + 1] = [do |-> "command", by |-> o] /\ i + 1 # 1 /\ 1 \in 1..Len(calls)
  BY <1>1
<1>3. calls[i + 1].do = "command"
  BY <1>2
<1> QED
  BY <1>2, <1>3 DEF InLine, LineSound

LEMMA InLineAt ==
  ASSUME PageTypeOK, LineSound, NEW o \in Ops, InLine(o)
  PROVE  job[o].pc \in {"cdp", "done"}
BY DEF InLine, LineSound

LEMMA LineGrows ==
  ASSUME PageTypeOK, LineSound, NEW c \in DebuggerCalls, calls' = Append(calls, c),
         \A i \in 1..Len(calls) : calls[i].do = "command" => job'[calls[i].by].pc \in {"cdp", "done"},
         c.do = "command" => job'[c.by].pc \in {"cdp", "done"} /\ \A i \in 1..Len(calls) : calls[i] # c
  PROVE  LineSound'
<1>1. /\ Len(calls) \in Nat /\ Len(calls') = Len(calls) + 1
      /\ \A i \in 1..Len(calls) : calls'[i] = calls[i]
      /\ calls'[Len(calls) + 1] = c
  BY Appended DEF PageTypeOK
<1>2. \A i \in 1..Len(calls') : i \in 1..Len(calls) \/ i = Len(calls) + 1
  BY <1>1
<1>3. \A i \in 1..Len(calls') : calls'[i].do = "command" => job'[calls'[i].by].pc \in {"cdp", "done"}
  BY <1>1, <1>2
<1>4. \A i, j \in 1..Len(calls') : calls'[i].do = "command" /\ calls'[i] = calls'[j] => i = j
  BY <1>1, <1>2 DEF LineSound
<1> QED
  BY <1>3, <1>4 DEF LineSound

LEMMA CommandsOfOps ==
  ASSUME PageTypeOK, NEW i \in 1..Len(calls), calls[i].do = "command"
  PROVE  calls[i].by \in Ops /\ calls[i] = [do |-> "command", by |-> calls[i].by]
<1>1. calls[i] \in DebuggerCalls
  BY DEF PageTypeOK
<1> QED
  BY <1>1 DEF DebuggerCalls

LEMMA LineKept ==
  ASSUME PageTypeOK, JobsSound, LineSound, [PageNext]_pageVars
  PROVE  LineSound'
<1>1. ASSUME NEW o \in Ops, OpSteps(o) PROVE LineSound'
  <2>1. OnlyMoves(o) /\ job[o].pc \notin {"cdp", "done"}
    BY <1>1, OpMoves
  <2>2. \A i \in 1..Len(calls) : calls[i].do = "command" => calls[i].by # o /\ job'[calls[i].by].pc \in {"cdp", "done"}
    BY <2>1, CommandsOfOps DEF LineSound, OnlyMoves
  <2>3. CASE calls' = calls
    BY <2>2, <2>3 DEF LineSound
  <2>4. ASSUME NEW do \in {"attach", "command", "detach"}, calls' = Append(calls, [do |-> do, by |-> o]),
               do = "command" => job'[o].pc = "cdp"
        PROVE  LineSound'
    <3> DEFINE c == [do |-> do, by |-> o]
    <3>1. c \in DebuggerCalls /\ c.by = o /\ c.do = do
      BY DEF DebuggerCalls, Doers
    <3>2. c.do = "command" => \A i \in 1..Len(calls) : calls[i] # c
      BY <2>2, <3>1
    <3> QED
      BY <2>2, <2>4, <3>1, <3>2, LineGrows
  <2> QED
    BY <1>1, <2>3, <2>4, OpCalls
<1>2. CASE ServeSteps
  <2>1. /\ Len(calls) \in Nat \ {0} /\ Len(calls') = Len(calls) - 1
        /\ \A i \in 1..Len(calls') : calls'[i] = calls[i + 1] /\ i + 1 \in 1..Len(calls)
        /\ Head(calls) = calls[1] /\ 1 \in 1..Len(calls)
    <3>1. calls # <<>> /\ calls' = Tail(calls)
      BY <1>2, ServedCalls DEF Served
    <3> QED
      BY <3>1, Taken DEF PageTypeOK
  <2>2. \A i, j \in 1..Len(calls') : calls'[i].do = "command" /\ calls'[i] = calls'[j] => i = j
    BY <2>1 DEF LineSound
  <2>3. ASSUME NEW i \in 1..Len(calls'), calls'[i].do = "command" PROVE job'[calls'[i].by].pc \in {"cdp", "done"}
    <3>1. /\ i + 1 \in 1..Len(calls) /\ calls'[i] = calls[i + 1] /\ i + 1 # 1
          /\ calls[i + 1].by \in Ops /\ calls[i + 1] = [do |-> "command", by |-> calls[i + 1].by]
          /\ job[calls[i + 1].by].pc \in {"cdp", "done"}
      BY <2>1, <2>3, CommandsOfOps DEF LineSound
    <3>2. CASE job' = job
      BY <3>1, <3>2
    <3>3. CASE OnlyMoves(Asker) /\ (Waits("attaching") \/ Waits("detaching"))
      BY <3>1, <3>3 DEF OnlyMoves, Waits
    <3>4. CASE OnlyMoves(Asker) /\ Waits("cdp") /\ Head(calls).do = "command"
      <4>1. calls[1] = [do |-> "command", by |-> Asker]
        BY <2>1, <3>4, CommandsOfOps DEF Asker
      <4>2. calls[i + 1].by # Asker
        BY <2>1, <3>1, <4>1 DEF LineSound
      <4> QED
        BY <3>1, <3>4, <4>2 DEF OnlyMoves
    <3> QED
      BY <1>2, <3>2, <3>3, <3>4, ServeMoves
  <2> QED
    BY <2>2, <2>3 DEF LineSound
<1>3. CASE WorldSteps \/ UNCHANGED pageVars
  BY <1>3, WorldCalls DEF LineSound, pageVars
<1>4. CASE WorkerSteps
  <2>1. \A o \in Ops : job[o].pc \in {"cdp", "done"} /\ InLine(o) => job'[o].pc \in {"cdp", "done"}
    <3>1. CASE WorkerDies
      BY <3>1 DEF WorkerDies, Abandoned, Running, PageTypeOK, Jobs
    <3>2. CASE Raced
      <4>1. \A o \in Ops : job[o].pc # "write" => job'[o] = job[o]
        BY <3>2 DEF Raced
      <4> QED
        BY <4>1
    <3> QED
      BY <1>4, <3>1, <3>2
         DEF WorkerSteps, OnBeforeRequest, OnUpdated, OnRemoved, NoteDebuggerDetached, BootsAgain, SweepDebuggees, SweepEnds
  <2>2. \A i \in 1..Len(calls) : calls[i].do = "command" => job'[calls[i].by].pc \in {"cdp", "done"}
    BY <2>1, CommandsOfOps DEF LineSound, InLine
  <2>3. CASE calls' = calls
    BY <2>2, <2>3 DEF LineSound
  <2>4. ASSUME NEW who \in {"worker", "sweep"}, calls' = Append(calls, [do |-> "detach", by |-> who]) PROVE LineSound'
    <3>1. [do |-> "detach", by |-> who] \in DebuggerCalls /\ [do |-> "detach", by |-> who].do = "detach"
      BY DEF DebuggerCalls, Doers
    <3> QED
      BY <2>2, <2>4, <3>1, LineGrows
  <2> QED
    BY <1>4, <2>3, <2>4, WorkerCalls
<1> QED
  BY <1>1, <1>2, <1>3, <1>4, PageSteps

-----------------------------------------------------------------------------
(* Keys.                                                                   *)

(* An operation moves on without having moved the page.                    *)
LEMMA KeysStep ==
  ASSUME PageTypeOK, KeysSound, NEW o \in Ops, OnlyMoves(o),
         UNCHANGED tab, leaked' = leaked,
         \A p \in Ops : p # o => (InLine(p)' => InLine(p)),
         job[o].pc # "idle", job'[o].pc # "idle",
         Typing(o)' => Typing(o) /\ (job'[o].pc # "ready" => job[o].pc # "ready"),
         Coming(o)' => Coming(o) \/ (Typing(o) /\ job[o].pc # "ready"),
         Settling(o) => ~Running(o)' \/ Settling(o)',
         Aimed(o)' => Agreed(o, tab.focus)',
         Running(o)' => Running(o)
  PROVE  KeysSound'
<1>1. \A p \in Ops : p # o =>
        /\ Typing(p)' <=> Typing(p)
        /\ Coming(p)' => Coming(p)
        /\ Aimed(p)' => Aimed(p)
        /\ Running(p)' <=> Running(p)
        /\ Settling(p)' <=> Settling(p)
        /\ Agreed(p, tab.focus)' <=> Agreed(p, tab.focus)
        /\ job'[p] = job[p]
  BY DEF OnlyMoves, Typing, Coming, Aimed, BeforeItsKey, Running, Settling, Agreed
<1>2. OneTypes'
  BY <1>1 DEF KeysSound, OneTypes
<1>3. EnterSettles'
  BY <1>1 DEF KeysSound, EnterSettles
<1>4. AimHolds'
  BY <1>1 DEF KeysSound, AimHolds
<1> QED
  BY <1>2, <1>3, <1>4 DEF KeysSound, NoSecretWithoutAYes

(* Nobody is about to type, and the page moves under an operation that is  *)
(* not yet typing.                                                         *)
LEMMA UndisturbedStep ==
  ASSUME PageTypeOK, KeysSound, LineSound, NEW o \in Ops, OnlyMoves(o), Undisturbed,
         job[o].pc = "ready", job'[o].pc \in {"clear", "guard", "done"}, UNCHANGED <<calls, leaked>>,
         SameBut(job'[o], job[o]) \/ job'[o] = Done,
         \/ tab'.heading = tab.heading /\ tab'.by = tab.by
         \/ tab'.heading = "nowhere" /\ tab'.by = tab.by
         \/ tab'.by = "person"
  PROVE  KeysSound'
<1>1. \A p \in Ops : InLine(p)' <=> InLine(p)
  BY DEF InLine
<1>2. \A p \in Ops : ~Aimed(p) /\ ~InLine(p)
  BY DEF Undisturbed, Aimed, Coming
<1>3. \A p \in Ops : p # o =>
        /\ Typing(p)' <=> Typing(p)
        /\ Running(p)' <=> Running(p)
        /\ Settling(p)' <=> Settling(p)
        /\ Aimed(p)' <=> Aimed(p)
        /\ job'[p] = job[p]
  BY <1>1 DEF OnlyMoves, Typing, Running, Settling, Aimed, BeforeItsKey, Coming
<1>4. ~Aimed(o)' /\ (Typing(o)' => Typing(o)) /\ ~Settling(o) /\ Running(o)
  BY <1>1, <1>2, DoneIs DEF Aimed, BeforeItsKey, Coming, Typing, Running, Settling, SameBut
<1>5. \A p \in Ops : ~Coming(p)'
  BY <1>1, <1>2 DEF Coming
<1>6. OneTypes'
  BY <1>3, <1>4, <1>5 DEF KeysSound, OneTypes
<1>7. EnterSettles'
  BY <1>3, <1>4, OpsAssumption DEF KeysSound, EnterSettles
<1>8. AimHolds'
  BY <1>2, <1>3, <1>4 DEF AimHolds
<1> QED
  BY <1>6, <1>7, <1>8 DEF KeysSound, NoSecretWithoutAYes

LEMMA StartsKeepsKeys ==
  ASSUME PageTypeOK, KeysSound, LineSound, NEW o \in Ops, NEW k \in Kinds, NEW yes \in BOOLEAN, Starts(o, k, yes)
  PROVE  KeysSound'
<1>1. /\ OnlyMoves(o) /\ job'[o] = [job[o] EXCEPT !.pc = "ready", !.kind = k, !.yes = yes]
      /\ job[o].pc = "idle" /\ job[o] \in Jobs /\ UNCHANGED <<tab, calls, leaked>>
      /\ k = "keys" => \A p \in Ops : ~Typing(p)
  BY StepMoves DEF Starts, IsAt, ghosts, world, PageTypeOK, Typing
<1>2. job'[o].pc = "ready" /\ job'[o].kind = k
  BY <1>1 DEF Jobs
<1>3. \A p \in Ops : InLine(p)' <=> InLine(p)
  BY <1>1 DEF InLine
<1>4. ~InLine(o)
  BY <1>1, InLineAt
<1>5. \A p \in Ops : p # o =>
        /\ Typing(p)' <=> Typing(p)
        /\ Coming(p)' <=> Coming(p)
        /\ Aimed(p)' <=> Aimed(p)
        /\ Running(p)' <=> Running(p)
        /\ Settling(p)' <=> Settling(p)
        /\ Agreed(p, tab.focus)' <=> Agreed(p, tab.focus)
        /\ job'[p] = job[p]
  BY <1>1, <1>3 DEF OnlyMoves, Typing, Coming, Aimed, BeforeItsKey, Running, Settling, Agreed
<1>6. ~Coming(o)' /\ ~Aimed(o)' /\ (Typing(o)' => \A p \in Ops : ~Typing(p))
  BY <1>1, <1>2, <1>3, <1>4 DEF Coming, Aimed, BeforeItsKey, Typing
<1>7. OneTypes'
  BY <1>2, <1>5, <1>6 DEF KeysSound, OneTypes
<1>8. EnterSettles'
  BY <1>1, <1>5 DEF KeysSound, EnterSettles
<1>9. AimHolds'
  BY <1>5, <1>6 DEF KeysSound, AimHolds
<1> QED
  BY <1>1, <1>7, <1>8, <1>9 DEF KeysSound, NoSecretWithoutAYes

LEMMA OpInLine ==
  ASSUME PageTypeOK, NEW o \in Ops, OpSteps(o)
  PROVE  /\ \A p \in Ops : p # o => (InLine(p)' <=> InLine(p))
         /\ InLine(o)' => InLine(o) \/ job'[o].pc = "cdp"
<1>1. ASSUME NEW do \in {"attach", "command", "detach"}, calls' = Append(calls, [do |-> do, by |-> o]), NEW p \in Ops
      PROVE  InLine(p)' <=> InLine(p) \/ [do |-> do, by |-> o] = [do |-> "command", by |-> p]
  <2>1. [do |-> do, by |-> o] \in DebuggerCalls
    BY DEF DebuggerCalls, Doers
  <2> QED
    BY <1>1, <2>1, InLineAppended
<1>2. \A do, p : [do |-> do, by |-> o] = [do |-> "command", by |-> p] <=> do = "command" /\ p = o
  OBVIOUS
<1>3. calls' = calls => \A p \in Ops : InLine(p)' <=> InLine(p)
  BY DEF InLine
<1> QED
  BY <1>1, <1>2, <1>3, OpCalls

(* Goes on, or ends, with the same answers as before.                      *)
LEMMA GoesKeepsKeys ==
  ASSUME PageTypeOK, JobsSound, LineSound, KeysSound, NEW o \in Ops, OpSteps(o), UNCHANGED <<tab, leaked>>,
         SameBut(job'[o], job[o]) \/ job'[o] = Done,
         job[o].pc \notin {"idle", "cdp", "done"}, job'[o].pc \notin {"idle", "ready", "held"},
         job[o].pc = "ready" => job[o].kind # "keys",
         job'[o].pc \in {"ask", "asked", "attaching", "attached", "cdp"} => BeforeItsKey(o) \/ job[o].kind # "keys",
         job[o].pc \in {"finally", "detaching"} => job'[o].pc \in {"detaching", "done"},
         job[o].pc = "guard" => job'[o].pc \in {"finally", "done"}
  PROVE  KeysSound'
<1>1. OnlyMoves(o)
  BY OpMoves
<1>2. ~InLine(o) /\ (\A p \in Ops : p # o => (InLine(p)' <=> InLine(p))) /\ (InLine(o)' => job'[o].pc = "cdp")
  BY OpInLine, InLineAt
<1>3. job[o].pc \in Stages /\ Running(o)
  BY DEF PageTypeOK, Jobs, Running
<1>4. Typing(o)' => Typing(o) /\ job[o].pc # "ready"
  BY <1>3, DoneIs DEF Typing, Running, SameBut
<1>5. Coming(o)' => Typing(o) /\ job[o].pc # "ready"
  BY <1>2, <1>3, DoneIs DEF Coming, Typing, SameBut
<1>6. Settling(o) => ~Running(o)' \/ Settling(o)'
  BY DoneIs DEF Settling, Typing, Running, SameBut
<1>7. Aimed(o)' => BeforeItsKey(o)
  BY <1>2, DoneIs DEF Aimed, BeforeItsKey, Coming, SameBut
<1>8. Aimed(o)' => Agreed(o, tab.focus)'
  <2>1. Aimed(o)' => Agreed(o, tab.focus) /\ SameBut(job'[o], job[o])
    BY <1>7, DoneIs DEF KeysSound, AimHolds, Aimed, BeforeItsKey, Coming
  <2> QED
    BY <2>1 DEF Agreed, SameBut
<1> QED
  BY <1>1, <1>2, <1>3, <1>4, <1>5, <1>6, <1>8, KeysStep

LEMMA OpKeys ==
  ASSUME PageTypeOK, JobsSound, LineSound, KeysSound, NEW o \in Ops, OpSteps(o)
  PROVE  KeysSound'
<1>1. job[o] \in Jobs /\ job \in [Ops -> Jobs] /\ OnlyMoves(o)
  BY OpMoves DEF PageTypeOK
<1>2. {"idle", "ready", "write", "clear", "guard", "ask", "asked", "attaching", "attached", "held", "cdp",
       "finally", "detaching", "done"} = Stages
  BY DEF Stages
<1>3. ASSUME NEW pc \in Stages, Go(o, pc)
      PROVE  job'[o].pc = pc /\ (SameBut(job'[o], job[o]) \/ job'[o] = Done)
  BY <1>1, <1>3, GoMoves
<1>4. CASE \E k \in Kinds, yes \in BOOLEAN : Starts(o, k, yes)
  BY <1>4, StartsKeepsKeys
<1>5. CASE LooksAt(o)
  <2> DEFINE j == [job[o] EXCEPT !.pc = "write", !.doc = tab.doc]
  <2>1. job'[o] = j /\ job[o].pc = "ready" /\ job[o].kind = "snapshot" /\ UNCHANGED <<tab, leaked, calls>>
    BY <1>1, <1>5, StepMoves DEF LooksAt, IsAt, ghosts, world
  <2>2. j.pc = "write" /\ j.kind = "snapshot"
    BY <1>1, <2>1 DEF Jobs
  <2>3. \A p \in Ops : InLine(p)' <=> InLine(p)
    BY <2>1 DEF InLine
  <2>4. ~Typing(o)' /\ ~Coming(o)' /\ ~Aimed(o)' /\ ~Settling(o)
    BY <2>1, <2>2 DEF Typing, Coming, Aimed, BeforeItsKey, Settling
  <2>5. Running(o) /\ job'[o].pc # "idle"
    BY <2>1, <2>2 DEF Running
  <2> QED
    BY <1>1, <2>1, <2>3, <2>4, <2>5, KeysStep
<1>6. CASE BuildSnapshot(o) \/ Cleared(o)
  <2>1. job[o].pc \in {"write", "clear"} /\ Go(o, "done") /\ UNCHANGED <<tab, leaked>>
    BY <1>6 DEF BuildSnapshot, Cleared, IsAt, ghosts, world
  <2> QED
    BY <1>2, <1>3, <2>1, GoesKeepsKeys
<1>7. CASE CloseTab(o) \/ \E s \in Sites : Navigate(o, s)
  <2>1. Go(o, "clear") /\ job[o].pc = "ready" /\ Undisturbed /\ UNCHANGED <<calls, leaked>>
    BY <1>7 DEF CloseTab, Navigate, IsAt, ghosts
  <2>2. \/ tab'.heading = "nowhere" /\ tab'.by = tab.by
        \/ tab'.by = "person"
    BY <1>7 DEF CloseTab, Navigate, Heads, PageTypeOK
  <2> QED
    BY <1>1, <1>2, <1>3, <2>1, <2>2, UndisturbedStep
<1>8. CASE \E f \in Fields : Click(o, f) \/ FocusSelect(o, f)
  <2>1. (Go(o, "done") \/ Go(o, "guard")) /\ job[o].pc = "ready" /\ Undisturbed /\ UNCHANGED <<calls, leaked>>
    BY <1>8 DEF Click, FocusSelect, IsAt, ghosts
  <2>2. tab'.heading = tab.heading /\ tab'.by = tab.by
    BY <1>8 DEF Click, FocusSelect, PageClick, PageFocusSelect, PageTypeOK
  <2> QED
    BY <1>1, <1>2, <1>3, <2>1, <2>2, UndisturbedStep
<1>9. CASE \E f \in Fields : Fill(o, f)
  <2>1. Go(o, "done") /\ job[o].pc = "ready" /\ Undisturbed /\ UNCHANGED calls
    BY <1>9 DEF Fill, IsAt
  <2>2. leaked' = leaked
    BY <1>9 DEF Fill, GuardSecretField, PageTypeOK
  <2>3. tab'.heading = tab.heading /\ tab'.by = tab.by
    BY <1>9 DEF Fill, PageFill, PageTypeOK
  <2> QED
    BY <1>1, <1>2, <1>3, <2>1, <2>2, <2>3, UndisturbedStep
<1>10. ASSUME job[o].pc = "guard", Go(o, Finally(o)), UNCHANGED <<tab, leaked>> PROVE KeysSound'
  BY <1>2, <1>3, <1>10, FinallyIs, GoesKeepsKeys
<1>11. CASE TimeIsUp(o)
  BY <1>10, <1>11 DEF TimeIsUp, IsAt, ghosts, world
<1>12. CASE SettleAfterEnter(o)
  <2>1. job[o].pc = "guard" /\ UNCHANGED <<tab, leaked, calls>>
    BY <1>12 DEF SettleAfterEnter, IsAt, ghosts, world
  <2>2. CASE tab.heading = "nowhere" /\ Step(o, [job[o] EXCEPT !.enter = FALSE])
    <3> DEFINE j == [job[o] EXCEPT !.enter = FALSE]
    <3>1. job'[o] = j
      BY <1>1, <2>2, StepMoves
    <3>2. j.pc = "guard" /\ j.kind = job[o].kind
      BY <1>1, <2>1 DEF Jobs
    <3>3. \A p \in Ops : p # o => /\ job'[p] = job[p] /\ Typing(p)' = Typing(p) /\ Coming(p)' = Coming(p)
                                  /\ Aimed(p)' = Aimed(p) /\ Running(p)' = Running(p)
                                  /\ Agreed(p, tab.focus)' = Agreed(p, tab.focus)
      BY <1>1, <2>1 DEF OnlyMoves, Typing, Coming, Aimed, BeforeItsKey, Running, Agreed, InLine
    <3>4. Typing(o)' = Typing(o) /\ Coming(o)' = Coming(o) /\ ~Coming(o) /\ ~Aimed(o)' /\ Running(o)' = Running(o)
      BY <2>1, <3>1, <3>2, InLineAt DEF Typing, Coming, Aimed, BeforeItsKey, Running, InLine
    <3>5. OneTypes'
      BY <2>1, <3>1, <3>2, <3>3, <3>4 DEF KeysSound, OneTypes
    <3>6. EnterSettles'
      BY <2>1, <2>2, <3>1, <3>2, <3>3 DEF KeysSound, EnterSettles
    <3>7. AimHolds'
      BY <2>1, <3>3, <3>4 DEF KeysSound, AimHolds
    <3> QED
      BY <2>1, <3>5, <3>6, <3>7 DEF KeysSound, NoSecretWithoutAYes
  <2> QED
    BY <1>10, <1>12, <2>1, <2>2 DEF SettleAfterEnter
<1>13. CASE GuardFocus(o)
  <2>1. job[o].pc = "guard" /\ ~job[o].enter /\ UNCHANGED <<tab, leaked, calls>>
    BY <1>13 DEF GuardFocus, IsAt, ghosts, world
  <2>2. ASSUME GuardSecretField(o, tab.focus),
               Step(o, [job[o] EXCEPT !.pc = IF job[o].inside THEN "held" ELSE "ask", !.site = SiteAfter(o, tab.focus)])
        PROVE  KeysSound'
    <3> DEFINE j == [job[o] EXCEPT !.pc = IF job[o].inside THEN "held" ELSE "ask", !.site = SiteAfter(o, tab.focus)]
    <3>1. job'[o] = j
      BY <1>1, <2>2, StepMoves
    <3>2. j.pc \in {"held", "ask"} /\ j.kind = job[o].kind /\ j.yes = job[o].yes /\ j.site = SiteAfter(o, tab.focus)
      BY <1>1 DEF Jobs
    <3>3. \A p \in Ops : InLine(p)' <=> InLine(p)
      BY <2>1 DEF InLine
    <3>4. Agreed(o, tab.focus)'
      BY <2>1, <2>2, <3>1, <3>2 DEF Agreed, GuardSecretField, SiteAfter
    <3>5. (Typing(o)' => Typing(o)) /\ (Coming(o)' => Coming(o)) /\ ~Settling(o) /\ Running(o)
      BY <2>1, <3>1, <3>2, <3>3 DEF Typing, Coming, Running, Settling
    <3> QED
      BY <1>1, <2>1, <3>1, <3>2, <3>3, <3>4, <3>5, KeysStep
  <2> QED
    BY <1>10, <1>13, <2>1, <2>2 DEF GuardFocus, PageFieldKind
<1>14. CASE Screenshot(o) \/ EvalJs(o)
  <2>1. job[o].pc = "ready" /\ job[o].kind = "debug" /\ UNCHANGED <<tab, leaked>> /\ (Go(o, "ask") \/ Go(o, "done"))
    BY <1>14 DEF Screenshot, EvalJs, IsAt, ghosts, world
  <2> QED
    BY <1>2, <1>3, <2>1, GoesKeepsKeys DEF BeforeItsKey
<1>15. CASE AsksTab(o)
  <2>1. job[o].pc = "ask" /\ UNCHANGED <<tab, leaked>> /\ (Go(o, "asked") \/ Go(o, Finally(o)))
    BY <1>15 DEF AsksTab, IsAt, ghosts, world
  <2> QED
    BY <1>2, <1>3, <2>1, FinallyIs, GoesKeepsKeys DEF BeforeItsKey
<1>16. CASE AttachDebugger(o)
  <2>1. job[o].pc = "asked" /\ UNCHANGED <<tab, leaked>> /\ (Go(o, "attaching") \/ Go(o, Finally(o)))
    BY <1>16 DEF AttachDebugger, IsAt, ghosts, world
  <2> QED
    BY <1>2, <1>3, <2>1, FinallyIs, GoesKeepsKeys DEF BeforeItsKey
<1>17. CASE DetachDebugger(o)
  <2>1. job[o].pc = "finally" /\ UNCHANGED <<tab, leaked>> /\ Go(o, "detaching")
    BY <1>17 DEF DetachDebugger, IsAt, ghosts, world
  <2> QED
    BY <1>2, <1>3, <2>1, GoesKeepsKeys
<1>18. ASSUME job[o].pc \in {"attached", "held"}, UNCHANGED <<tab, leaked>>, job'[o].pc \in {"held", "cdp"},
              job'[o].kind = job[o].kind, job'[o].yes = job[o].yes, job'[o].site = job[o].site
       PROVE  KeysSound'
  <2>1. ~InLine(o) /\ \A p \in Ops : p # o => (InLine(p)' <=> InLine(p))
    BY <1>18, OpInLine, InLineAt
  <2>2. (Typing(o)' => Typing(o)) /\ (Coming(o)' => Typing(o)) /\ ~Settling(o) /\ Running(o)
    BY <1>18 DEF Typing, Coming, Running, Settling
  <2>3. Aimed(o)' => BeforeItsKey(o)
    BY <1>18 DEF Aimed, BeforeItsKey, Coming
  <2>4. Aimed(o)' => Agreed(o, tab.focus)'
    BY <1>18, <2>3 DEF Agreed, KeysSound, AimHolds, Aimed
  <2> QED
    BY <1>1, <1>18, <2>1, <2>2, <2>4, KeysStep
<1>19. CASE NoteAttached(o)
  <2>1. job[o].pc = "attached" /\ UNCHANGED <<tab, leaked>>
    BY <1>19 DEF NoteAttached, IsAt, ghosts, world
  <2>2. CASE Go(o, "cdp")
    <3>1. SameBut(job'[o], job[o]) /\ job'[o].pc = "cdp"
      BY <1>1, <1>2, <2>2, GoMoves
    <3> QED
      BY <1>18, <2>1, <3>1 DEF SameBut
  <2>3. CASE Step(o, [job[o] EXCEPT !.pc = "held", !.inside = TRUE])
    <3> DEFINE j == [job[o] EXCEPT !.pc = "held", !.inside = TRUE]
    <3>1. j.pc = "held" /\ j.kind = job[o].kind /\ j.yes = job[o].yes /\ j.site = job[o].site
      BY <1>1 DEF Jobs
    <3>2. job'[o] = j
      BY <1>1, <2>3, StepMoves
    <3> QED
      BY <1>18, <2>1, <3>1, <3>2
  <2> QED
    BY <1>19, <2>2, <2>3 DEF NoteAttached
<1>20. CASE SendCommand(o)
  <2> DEFINE j == [job[o] EXCEPT !.pc = "cdp", !.again = FALSE]
  <2>1. job[o].pc = "held" /\ UNCHANGED <<tab, leaked>> /\ Step(o, j)
    BY <1>20 DEF SendCommand, IsAt, ghosts, world
  <2>2. j.pc = "cdp" /\ j.kind = job[o].kind /\ j.yes = job[o].yes /\ j.site = job[o].site
    BY <1>1 DEF Jobs
  <2>3. job'[o] = j
    BY <1>1, <2>1, StepMoves
  <2> QED
    BY <1>18, <2>1, <2>2, <2>3
<1> QED
  BY <1>4, <1>5, <1>6, <1>7, <1>8, <1>9, <1>11, <1>12, <1>13, <1>14, <1>15, <1>16, <1>17, <1>19, <1>20 DEF OpSteps

(* A key lands in the focus it was judged for; whoever asked for it, and   *)
(* nobody else, was about to type.                                         *)
LEMMA KeyLandsKeeps ==
  ASSUME PageTypeOK, JobsSound, LineSound, KeysSound,
         NEW enter \in BOOLEAN, NEW f \in Fields, NEW s \in Sites \cup {"nowhere"}, KeyLands(enter, f, s)
  PROVE  KeysSound'
<1> SUFFICES ASSUME NEW o, o = Asker PROVE KeysSound'
  OBVIOUS
<1>1. Served /\ Head(calls).do = "command" /\ job[o].kind = "keys"
  BY DEF KeyLands
<1>2. o \in Ops /\ Head(calls) = [do |-> "command", by |-> o] /\ Len(calls) \in Nat \ {0} /\ Head(calls) = calls[1]
  <2>1. Len(calls) \in Nat \ {0} /\ Head(calls) = calls[1]
    BY <1>1, Taken DEF Served, PageTypeOK
  <2> QED
    <3>1. 1 \in 1..Len(calls)
      BY <2>1
    <3> QED
      BY <1>1, <2>1, <3>1, CommandsOfOps DEF Asker
<1>3. InLine(o) /\ Coming(o) /\ Aimed(o)
  BY <1>1, <1>2 DEF InLine, Coming, Aimed
<1>4. job \in [Ops -> Jobs] /\ job[o] \in Jobs /\ job[o].pc \in {"cdp", "done"}
  BY <1>2, <1>3, InLineAt DEF PageTypeOK
<1>5. \A p \in Ops : p # o => ~Aimed(p) /\ ~Coming(p)
  BY <1>2, <1>3 DEF KeysSound, OneTypes, Aimed, BeforeItsKey, Typing, Running
<1>6. Agreed(o, tab.focus) /\ leaked' = leaked
  <2>1. Agreed(o, tab.focus)
    BY <1>2, <1>3 DEF KeysSound, AimHolds
  <2> QED
    BY <2>1 DEF KeyLands, PageTypeOK
<1>7. \/ /\ tab'.by = o /\ enter
      \/ tab'.by = tab.by /\ tab'.heading = tab.heading
  BY DEF KeyLands, Heads, PageTypeOK
<1>8. \/ job' = job /\ job[o].pc = "done"
      \/ /\ job[o].pc = "cdp" /\ OnlyMoves(o)
         /\ job'[o].pc \in {"guard", "finally"} /\ job'[o].kind = "keys" /\ job'[o].enter = enter
  <2>1. CASE Waits("cdp")
    <3> DEFINE pc == IF job[o].sent + 1 < MaxKeys THEN "guard" ELSE "finally"
               j == [job[o] EXCEPT !.pc = pc, !.sent = @ + 1, !.enter = enter]
    <3>1. j.pc \in {"guard", "finally"} /\ j.kind = "keys" /\ j.enter = enter
      BY <1>1, <1>4 DEF Jobs
    <3>2. Step(o, j)
      BY <2>1 DEF KeyLands
    <3>3. OnlyMoves(o) /\ job'[o] = j
      BY <1>2, <1>4, <3>2, StepMoves
    <3> QED
      BY <2>1, <3>1, <3>3 DEF Waits
  <2>2. CASE ~Waits("cdp")
    BY <1>2, <1>4, <2>2 DEF KeyLands, Waits
  <2> QED
    BY <2>1, <2>2
<1>9. /\ \A p \in Ops : p # o => job'[p] = job[p]
      /\ \A p \in Ops : InLine(p)' => InLine(p) /\ p # o
  <2>1. \A p \in Ops : InLine(p)' => InLine(p) /\ Head(calls) # [do |-> "command", by |-> p]
    BY <1>1, InLineServed
  <2> QED
    BY <1>2, <1>8, <2>1 DEF OnlyMoves
<1>10. \A p \in Ops : ~Coming(p)' /\ ~Aimed(p)' /\ (Typing(p)' => Typing(p) /\ (job'[p].pc # "ready" => job[p].pc # "ready"))
  <2>1. \A p \in Ops : p # o => ~BeforeItsKey(p) /\ ~Coming(p) /\ job'[p] = job[p]
    BY <1>5, <1>9 DEF Aimed
  <2>2. ~InLine(o)' /\ (job'[o].pc \in {"guard", "finally", "done"}) /\ (Typing(o)' => Typing(o) /\ job[o].pc # "ready")
    BY <1>1, <1>2, <1>4, <1>8, <1>9 DEF Typing, Running
  <2> QED
    BY <1>2, <1>9, <2>1, <2>2 DEF Coming, Aimed, BeforeItsKey, Typing, Running
<1>11. OneTypes'
  BY <1>10 DEF KeysSound, OneTypes
<1>12. EnterSettles'
  <2> SUFFICES ASSUME NEW p \in Ops, tab'.by = p
               PROVE  /\ job'[p].pc # "idle"
                      /\ tab'.heading # "nowhere" /\ Running(p)' => Settling(p)'
    BY DEF EnterSettles, Running, Settling, Typing
  <2>1. CASE p # o
    <3>1. p = tab.by /\ tab'.heading = tab.heading /\ job'[p] = job[p]
      BY <1>7, <1>9, <2>1
    <3> QED
      BY <3>1 DEF KeysSound, EnterSettles, Running, Settling, Typing
  <2>2. CASE p = o /\ enter
    BY <1>4, <1>8, <2>2 DEF Running, Settling, Typing
  <2>3. CASE p = o /\ tab.by = o /\ tab'.heading = tab.heading
    <3>1. tab.heading # "nowhere" => job[o].pc # "cdp"
      BY <1>2, <2>3 DEF KeysSound, EnterSettles, Settling, Running
    <3> QED
      BY <1>4, <1>8, <2>3, <3>1 DEF Running
  <2> QED
    BY <1>7, <2>1, <2>2, <2>3
<1>13. AimHolds'
  BY <1>10 DEF AimHolds
<1> QED
  BY <1>6, <1>11, <1>12, <1>13 DEF KeysSound, NoSecretWithoutAYes

LEMMA ServeKeys ==
  ASSUME PageTypeOK, JobsSound, LineSound, KeysSound, ServeSteps
  PROVE  KeysSound'
<1>1. ASSUME NEW enter \in BOOLEAN, NEW f \in Fields, NEW s \in Sites \cup {"nowhere"}, KeyLands(enter, f, s)
      PROVE  KeysSound'
  BY <1>1, KeyLandsKeeps
<1> SUFFICES ASSUME ServeAttach \/ ServeDetach \/ CommandFails \/ CommandRuns, NEW o, o = Asker
             PROVE  KeysSound'
  BY <1>1 DEF ServeSteps
<1>2. Served /\ UNCHANGED <<tab, leaked>>
  BY DEF ServeAttach, ServeDetach, CommandFails, CommandRuns, world, ghosts
<1>3. \A p \in Ops : InLine(p)' => InLine(p)
  BY <1>2, InLineServed
<1>4. CASE job' = job
  BY <1>2, <1>3, <1>4
     DEF KeysSound, OneTypes, EnterSettles, AimHolds, NoSecretWithoutAYes, Typing, Coming, Aimed, BeforeItsKey, Running,
         Settling, Agreed
<1>5. ASSUME OnlyMoves(o), job[o].pc \in {"attaching", "cdp", "detaching"}, SameBut(job'[o], job[o]) \/ job'[o] = Done,
             ~InLine(o)',
             \/ job'[o].pc \in {"finally", "done"}
             \/ job[o].pc = "attaching" /\ job'[o].pc = "attached"
             \/ job[o].pc = "cdp" /\ job'[o].pc = "ask" /\ InLine(o),
             job[o].pc = "detaching" => job'[o].pc = "done"
      PROVE  KeysSound'
  <2>1. Running(o) /\ o \in Ops
    BY <1>5 DEF Running, OnlyMoves
  <2>2. (Typing(o)' => Typing(o)) /\ ~Coming(o)'
    BY <1>5, <2>1, DoneIs DEF Typing, Coming, SameBut
  <2>3. Settling(o) => ~Running(o)'
    BY <1>5, DoneIs DEF Settling, Running
  <2>4. Aimed(o)' => Aimed(o) /\ SameBut(job'[o], job[o])
    BY <1>5, <2>2, DoneIs DEF Aimed, BeforeItsKey, Coming, SameBut
  <2>5. Aimed(o)' => Agreed(o, tab.focus)'
    BY <1>2, <2>1, <2>4 DEF KeysSound, AimHolds, Agreed, SameBut
  <2>6. job[o].pc \notin {"idle", "ready"} /\ job'[o].pc # "idle"
    BY <1>5, DoneIs
  <2> QED
    BY <1>2, <1>3, <1>5, <2>1, <2>2, <2>3, <2>5, <2>6, KeysStep
<1>6. CASE job' # job
  <2>1. OnlyMoves(o) /\ o \in Ops /\ job[o] \in Jobs /\ job \in [Ops -> Jobs]
    BY <1>6, ServeMoves DEF OnlyMoves, PageTypeOK
  <2>2. {"attached", "done", "finally", "ask"} \subseteq Stages
    BY DEF Stages
  <2>3. \A pc \in Stages : Go(o, pc) => job'[o].pc = pc /\ (SameBut(job'[o], job[o]) \/ job'[o] = Done)
    BY <2>1, GoMoves
  <2>4. ~InLine(o) => ~InLine(o)'
    BY <1>3, <2>1
  <2>5. job[o].pc # "cdp" /\ job[o].pc # "done" => ~InLine(o)
    BY <2>1, InLineAt
  <2>6. CASE ServeAttach
    <3>1. job[o].pc = "attaching" /\ (Go(o, "attached") \/ Go(o, Finally(o)))
      BY <1>6, <2>6 DEF ServeAttach, Waits
    <3> QED
      BY <1>5, <2>1, <2>2, <2>3, <2>4, <2>5, <3>1, FinallyIs
  <2>7. CASE ServeDetach
    <3>1. job[o].pc = "detaching" /\ Go(o, "done")
      BY <1>6, <2>7 DEF ServeDetach, Waits
    <3> QED
      BY <1>5, <2>1, <2>2, <2>3, <2>4, <2>5, <3>1
  <2>8. CASE CommandFails \/ CommandRuns
    <3>1. job[o].pc = "cdp" /\ Head(calls).do = "command"
      BY <1>6, <2>8 DEF CommandFails, CommandRuns, Waits
    <3>2. Len(calls) \in Nat \ {0} /\ Head(calls) = calls[1] /\ 1 \in 1..Len(calls)
      <4>1. Len(calls) \in Nat \ {0} /\ Head(calls) = calls[1]
        BY <1>2, Taken DEF Served, PageTypeOK
      <4> QED
        BY <4>1
    <3>3. Head(calls) = [do |-> "command", by |-> o]
      BY <3>1, <3>2, CommandsOfOps DEF Asker
    <3>4. InLine(o) /\ ~InLine(o)'
      BY <1>2, <2>1, <3>2, <3>3, InLineServed DEF InLine
    <3>5. CASE Go(o, "finally")
      BY <1>5, <2>1, <2>2, <2>3, <3>1, <3>4, <3>5
    <3>6. CASE Step(o, [job[o] EXCEPT !.pc = "ask", !.again = TRUE])
      <4> DEFINE j == [job[o] EXCEPT !.pc = "ask", !.again = TRUE]
      <4>1. job'[o] = j
        BY <2>1, <3>6, StepMoves
      <4>2. j.pc = "ask" /\ j.kind = job[o].kind /\ j.yes = job[o].yes /\ j.site = job[o].site
        BY <2>1 DEF Jobs
      <4>3. Typing(o)' = Typing(o) /\ ~Coming(o)' /\ ~Settling(o) /\ Running(o)
        BY <3>1, <3>4, <4>1, <4>2 DEF Typing, Coming, Settling, Running
      <4>4. Aimed(o)' => Agreed(o, tab.focus)'
        <5>1. job[o].kind = "keys" => Agreed(o, tab.focus)
          BY <2>1, <3>4 DEF KeysSound, AimHolds, Aimed, Coming
        <5> QED
          BY <1>2, <4>1, <4>2, <4>3, <5>1 DEF Aimed, BeforeItsKey, Agreed
      <4> HIDE DEF j
      <4> QED
        BY <1>2, <1>3, <2>1, <3>1, <4>1, <4>2, <4>3, <4>4, KeysStep
    <3> QED
      BY <1>6, <2>8, <3>5, <3>6 DEF CommandFails, CommandRuns
  <2> QED
    BY <2>6, <2>7, <2>8
<1> QED
  BY <1>4, <1>6

LEMMA WorldKeys ==
  ASSUME PageTypeOK, LineSound, KeysSound, WorldSteps
  PROVE  KeysSound'
<1>1. UNCHANGED <<calls, job, leaked>>
  BY DEF WorldSteps, PersonNavigates, Lands, PageRenames, PersonCloses, BannerDismissed, ghosts
<1>2. \A o \in Ops : /\ Typing(o)' <=> Typing(o)
                     /\ Coming(o)' <=> Coming(o)
                     /\ Aimed(o)' <=> Aimed(o)
                     /\ Running(o)' <=> Running(o)
                     /\ Settling(o)' <=> Settling(o)
  BY <1>1 DEF Typing, Coming, Aimed, BeforeItsKey, Running, Settling, InLine
<1>3. OneTypes' /\ NoSecretWithoutAYes'
  BY <1>1, <1>2 DEF KeysSound, OneTypes, NoSecretWithoutAYes
<1>4. \/ tab'.by = tab.by /\ tab'.heading \in {tab.heading, "nowhere"}
      \/ tab'.by = "person"
  BY DEF WorldSteps, PersonNavigates, Lands, PageRenames, PersonCloses, BannerDismissed, Heads, PageTypeOK
<1>5. EnterSettles'
  BY <1>1, <1>2, <1>4, OpsAssumption DEF KeysSound, EnterSettles
<1>6. CASE tab'.focus = tab.focus
  <2>1. AimHolds'
    BY <1>1, <1>2, <1>6 DEF KeysSound, AimHolds, Agreed
  <2> QED
    BY <1>3, <1>5, <2>1 DEF KeysSound
<1>7. CASE \E f \in Fields, same \in BOOLEAN : Lands(f, same)
  <2>1. \A o \in Ops : ~Aimed(o)
    <3>1. CASE Undisturbed
      BY <3>1 DEF Undisturbed, Aimed, Coming
    <3>2. CASE tab.by \in Ops /\ Running(tab.by)
      <4>1. Settling(tab.by)
        BY <1>7, <3>2 DEF Lands, KeysSound, EnterSettles
      <4>2. ~InLine(tab.by) /\ ~BeforeItsKey(tab.by)
        BY <3>2, <4>1, InLineAt DEF Settling, BeforeItsKey
      <4>3. \A o \in Ops : o # tab.by => ~Typing(o) /\ ~Coming(o)
        BY <3>2, <4>1 DEF Settling, KeysSound, OneTypes
      <4> QED
        BY <4>2, <4>3 DEF Aimed, Coming, BeforeItsKey, Typing, Running
    <3> QED
      BY <1>7, <3>1, <3>2 DEF Lands
  <2>2. AimHolds'
    BY <1>2, <2>1 DEF AimHolds
  <2> QED
    BY <1>3, <1>5, <2>2 DEF KeysSound
<1> QED
  BY <1>6, <1>7 DEF WorldSteps, PersonNavigates, PageRenames, PersonCloses, BannerDismissed, Heads, PageTypeOK

LEMMA WorkerKeys ==
  ASSUME PageTypeOK, LineSound, KeysSound, WorkerSteps
  PROVE  KeysSound'
<1>1. UNCHANGED <<tab, leaked>>
  BY DEF WorkerSteps, OnBeforeRequest, OnUpdated, OnRemoved, NoteDebuggerDetached, WorkerDies, BootsAgain, SweepDebuggees,
         SweepEnds, ghosts, world
<1>2. \A o \in Ops : InLine(o)' <=> InLine(o)
  <2>1. CASE calls' = calls
    BY <2>1 DEF InLine
  <2>2. ASSUME NEW who \in {"worker", "sweep"}, calls' = Append(calls, [do |-> "detach", by |-> who]), NEW o \in Ops
        PROVE  InLine(o)' <=> InLine(o)
    <3>1. [do |-> "detach", by |-> who] \in DebuggerCalls /\ [do |-> "detach", by |-> who] # [do |-> "command", by |-> o]
      <4>1. [do |-> "detach", by |-> who].do # [do |-> "command", by |-> o].do
        OBVIOUS
      <4> QED
        BY <4>1 DEF DebuggerCalls, Doers
    <3> QED
      BY <2>2, <3>1, InLineAppended
  <2> QED
    BY <2>1, <2>2, WorkerCalls
<1>3. CASE UNCHANGED job \/ Raced
  <2>1. \A o \in Ops : /\ job'[o].pc = job[o].pc /\ job'[o].kind = job[o].kind /\ job'[o].yes = job[o].yes
                       /\ job'[o].site = job[o].site /\ job'[o].enter = job[o].enter
    BY <1>3, SMTT(30) DEF Raced, PageTypeOK, Jobs
  <2> QED
    BY <1>1, <1>2, <2>1
       DEF KeysSound, OneTypes, EnterSettles, AimHolds, NoSecretWithoutAYes, Typing, Coming, Aimed, BeforeItsKey, Running,
           Settling, Agreed
<1>4. CASE WorkerDies
  <2>1. \A o \in Ops : /\ ~Running(o)'
                       /\ job[o].pc # "idle" => job'[o].pc # "idle"
                       /\ InLine(o) => /\ job'[o].kind = job[o].kind /\ job'[o].yes = job[o].yes
                                       /\ job'[o].site = job[o].site
    <3>1. \A o \in Ops : Abandoned(o).pc = "done"
      BY DoneIs DEF Abandoned, PageTypeOK, Jobs
    <3>2. \A o \in Ops : job'[o] = IF Running(o) THEN Abandoned(o) ELSE job[o]
      BY <1>4 DEF WorkerDies
    <3>3. \A o \in Ops : InLine(o) => /\ Abandoned(o).kind = job[o].kind /\ Abandoned(o).yes = job[o].yes
                                      /\ Abandoned(o).site = job[o].site
      BY DEF Abandoned, PageTypeOK, Jobs
    <3> QED
      BY <3>1, <3>2, <3>3 DEF Running
  <2>2. \A o \in Ops : ~Typing(o)' /\ ~BeforeItsKey(o)' /\ (Coming(o)' => Coming(o))
    BY <1>2, <2>1 DEF Typing, BeforeItsKey, Running, Coming
  <2>3. OneTypes' /\ EnterSettles'
    BY <1>1, <2>1, <2>2 DEF KeysSound, OneTypes, EnterSettles
  <2>4. AimHolds'
    BY <1>1, <1>2, <2>1, <2>2 DEF KeysSound, AimHolds, Aimed, Coming, Agreed
  <2> QED
    BY <1>1, <2>3, <2>4 DEF KeysSound, NoSecretWithoutAYes
<1> QED
  BY <1>3, <1>4
     DEF WorkerSteps, OnBeforeRequest, OnUpdated, OnRemoved, NoteDebuggerDetached, BootsAgain, SweepDebuggees, SweepEnds

LEMMA KeysKept ==
  ASSUME PageTypeOK, JobsSound, LineSound, KeysSound, [PageNext]_pageVars
  PROVE  KeysSound'
<1>1. CASE UNCHANGED pageVars
  BY <1>1 DEF pageVars, KeysSound, OneTypes, EnterSettles, AimHolds, NoSecretWithoutAYes, Typing, Coming, Aimed,
              BeforeItsKey, Running, Settling, Agreed, InLine
<1> QED
  BY <1>1, PageSteps, OpKeys, ServeKeys, WorldKeys, WorkerKeys

-----------------------------------------------------------------------------
(* Words of the browser.                                                   *)

LEMMA WordAppended ==
  ASSUME PageTypeOK, NEW e \in TabNotices, events' = Append(events, e), NEW what
  PROVE  Word(what)' <=> Word(what) \/ e.what \in what
<1>1. /\ Len(events) \in Nat /\ Len(events') = Len(events) + 1
      /\ \A i \in 1..Len(events) : events'[i] = events[i]
      /\ events'[Len(events) + 1] = e
  BY Appended DEF PageTypeOK
<1> QED
  BY <1>1 DEF Word

LEMMA WordTaken ==
  ASSUME PageTypeOK, Take, NEW what
  PROVE  /\ Word(what)' => Word(what)
         /\ Word(what) => Word(what)' \/ Notice.what \in what
<1>1. /\ Len(events) \in Nat \ {0} /\ Len(events') = Len(events) - 1
      /\ \A i \in 1..Len(events') : events'[i] = events[i + 1] /\ i + 1 \in 1..Len(events)
      /\ Head(events) = events[1]
  BY Taken DEF PageTypeOK, Take
<1>2. Word(what)' => Word(what)
  BY <1>1 DEF Word
<1>3. ASSUME NEW i \in 1..Len(events), events[i].what \in what
      PROVE  Word(what)' \/ Notice.what \in what
  <2>1. CASE i = 1
    BY <1>1, <1>3, <2>1 DEF Notice
  <2>2. CASE i # 1
    <3>1. i - 1 \in 1..Len(events') /\ (i - 1) + 1 = i
      BY <1>1, <2>2
    <3>2. events'[i - 1] = events[i]
      BY <1>1, <3>1
    <3> QED
      BY <1>3, <3>1, <3>2 DEF Word
  <2> QED
    BY <2>1, <2>2
<1> QED
  BY <1>2, <1>3 DEF Word

(* What a step says, of the page's address and of its end.                 *)
LEMMA OpWords ==
  ASSUME PageTypeOK, NEW o \in Ops, OpSteps(o)
  PROVE  /\ tab'.doc = tab.doc /\ tab'.since = tab.since
         /\ \/ tab'.open = tab.open /\ tab'.at = tab.at /\ events' = events
            \/ tab'.open = tab.open /\ tab'.at = tab.at /\ events' = Append(events, [what |-> "request", at |-> "signin"])
            \/ ~tab'.open /\ ~attached' /\ events' = Append(events, [what |-> "removed", at |-> tab.at]) /\ UNCHANGED calls
<1>1. CASE CloseTab(o)
  BY <1>1 DEF CloseTab, PageTypeOK
<1>2. CASE \E s \in Sites : Navigate(o, s)
  BY <1>2 DEF Navigate, Heads, PageTypeOK
<1>3. CASE \E f \in Fields : Click(o, f) \/ Fill(o, f) \/ FocusSelect(o, f)
  BY <1>3 DEF Click, Fill, FocusSelect, PageClick, PageFill, PageFocusSelect, PageTypeOK
<1>4. CASE UNCHANGED <<tab, events>>
  BY <1>4
<1> QED
  BY <1>1, <1>2, <1>3, <1>4
     DEF OpSteps, Starts, LooksAt, BuildSnapshot, Cleared, TimeIsUp, SettleAfterEnter, GuardFocus, Screenshot, EvalJs,
         AsksTab, AttachDebugger, NoteAttached, SendCommand, DetachDebugger, world

LEMMA ServeWords ==
  ASSUME PageTypeOK, ServeSteps
  PROVE  /\ tab'.open = tab.open /\ tab'.doc = tab.doc /\ tab'.since = tab.since /\ tab'.at = tab.at
         /\ \/ events' = events
            \/ events' = Append(events, [what |-> "request", at |-> "signin"])
<1>1. ASSUME NEW enter \in BOOLEAN, NEW f \in Fields, NEW s \in Sites \cup {"nowhere"}, KeyLands(enter, f, s)
      PROVE  /\ tab'.open = tab.open /\ tab'.doc = tab.doc /\ tab'.since = tab.since /\ tab'.at = tab.at
             /\ \/ events' = events
                \/ events' = Append(events, [what |-> "request", at |-> "signin"])
  BY <1>1 DEF KeyLands, Heads, PageTypeOK
<1> QED
  BY <1>1 DEF ServeSteps, ServeAttach, ServeDetach, CommandFails, CommandRuns, world

LEMMA WorldWords ==
  ASSUME PageTypeOK, WorldSteps
  PROVE  /\ tab.since <= tab.doc => tab'.since <= tab'.doc
         /\ \/ /\ tab'.open = tab.open /\ tab'.since = tab.since /\ tab'.at = tab.at
               /\ \/ events' = events
                  \/ events' = Append(events, [what |-> "request", at |-> "signin"])
                  \/ events' = Append(events, [what |-> "detached", at |-> tab.at]) /\ ~attached'
            \/ tab'.open = tab.open /\ events' = Append(events, [what |-> "landed", at |-> tab'.at]) /\ tab'.at \in Sites
            \/ ~tab'.open /\ ~attached' /\ events' = Append(events, [what |-> "removed", at |-> tab.at])
<1>1. CASE \E s \in Sites, shown \in BOOLEAN : PersonNavigates(s, shown)
  BY <1>1 DEF PersonNavigates, Heads, PageTypeOK
<1>2. ASSUME NEW f \in Fields, NEW same \in BOOLEAN, Lands(f, same)
      PROVE  /\ tab.since <= tab.doc => tab'.since <= tab'.doc
             /\ \/ /\ tab'.open = tab.open /\ tab'.since = tab.since /\ tab'.at = tab.at /\ events' = events
                \/ tab'.open = tab.open /\ events' = Append(events, [what |-> "landed", at |-> tab'.at]) /\ tab'.at \in Sites
  <2>1. CASE same
    <3>1. /\ tab'.doc = tab.doc + 1 /\ tab'.since = tab.since /\ tab'.at = tab.at /\ tab'.open = tab.open
          /\ events' = events /\ tab.doc \in Nat /\ tab.since \in Nat
      BY <1>2, <2>1 DEF Lands, PageTypeOK
    <3> QED
      BY <3>1
  <2>2. CASE ~same
    <3>1. /\ tab'.doc = tab.doc + 1 /\ tab'.since = tab.doc + 1 /\ tab'.at = tab.heading /\ tab'.open = tab.open
          /\ events' = Append(events, [what |-> "landed", at |-> tab.heading]) /\ tab.heading \in Sites
          /\ tab.doc \in Nat
      BY <1>2, <2>2 DEF Lands, PageTypeOK
    <3> QED
      BY <3>1
  <2> QED
    BY <2>1, <2>2
<1>3. CASE PageRenames
  <2>1. /\ tab'.open = tab.open /\ tab'.at = tab.at /\ tab'.since = tab.doc /\ tab'.doc = tab.doc
        /\ tab.at \in Sites /\ tab.doc \in Nat /\ events' = Append(events, [what |-> "landed", at |-> tab.at])
    BY <1>3 DEF PageRenames, PageTypeOK
  <2> QED
    BY <2>1
<1>4. CASE BannerDismissed
  BY <1>4 DEF BannerDismissed
<1>5. CASE PersonCloses
  BY <1>5 DEF PersonCloses, PageTypeOK
<1> QED
  BY <1>1, <1>2, <1>3, <1>4, <1>5 DEF WorldSteps

-----------------------------------------------------------------------------
(* Refs.                                                                   *)

LEMMA RefsStep ==
  ASSUME RefsSound, tab'.since <= tab'.doc,
         \/ tab'.open = tab.open /\ tab'.since = tab.since /\ (Word({"landed", "removed"}) => Word({"landed", "removed"})')
         \/ Word({"landed", "removed"})',
         snap' = snap \/ snap'.doc = 0,
         \A o \in Ops : job'[o].pc = "write" =>
            job[o].pc = "write" /\ job'[o].doc = job[o].doc /\ (job[o].raced => job'[o].raced)
  PROVE  RefsSound'
<1> DEFINE After(doc, raced) == raced \/ (tab'.open /\ doc >= tab'.since) \/ Word({"landed", "removed"})'
<1>1. \A doc, raced : RefGood(doc, raced) => After(doc, raced)
  BY DEF RefGood
<1>2. snap'.doc # 0 => After(snap'.doc, snap'.raced)
  BY <1>1 DEF RefsSound
<1>3. \A o \in Ops : job'[o].pc = "write" => After(job'[o].doc, job'[o].raced)
  <2> SUFFICES ASSUME NEW o \in Ops, job'[o].pc = "write" PROVE After(job'[o].doc, job'[o].raced)
    OBVIOUS
  <2>1. RefGood(job[o].doc, job[o].raced) /\ job'[o].doc = job[o].doc /\ (job[o].raced => job'[o].raced)
    BY DEF RefsSound
  <2> QED
    BY <2>1 DEF RefGood
<1> QED
  BY <1>2, <1>3 DEF RefsSound, RefGood

(* An operation is about to write refs only once it has read the page, and *)
(* has asked for the tab only once it was told.                            *)
LEMMA OpEnters ==
  ASSUME PageTypeOK, JobsSound, NEW o \in Ops, OpSteps(o)
  PROVE  /\ job'[o].pc = "write" => LooksAt(o)
         /\ job'[o].pc = "asked" => AsksTab(o)
<1> DEFINE Other(pc) == (pc = "write" => LooksAt(o)) /\ (pc = "asked" => AsksTab(o))
<1>1. OnlyMoves(o) /\ job[o] \in Jobs /\ job \in [Ops -> Jobs]
  BY OpMoves DEF PageTypeOK
<1>2. {"idle", "ready", "write", "clear", "guard", "ask", "asked", "attaching", "attached", "held", "cdp",
       "finally", "detaching", "done"} = Stages
  BY DEF Stages
<1>3. \A pc \in Stages : Other(pc) /\ Go(o, pc) => Other(job'[o].pc)
  BY <1>1, GoMoves
<1>4. Go(o, Finally(o)) => Other(job'[o].pc)
  BY <1>2, <1>3, FinallyIs
<1>5. \A j : Other(j.pc) /\ Step(o, j) => Other(job'[o].pc)
  BY <1>1, StepMoves
<1>6. CASE \E k \in Kinds, yes \in BOOLEAN : Starts(o, k, yes)
  <2>1. PICK k \in Kinds, yes \in BOOLEAN : Starts(o, k, yes)
    BY <1>6
  <2> DEFINE j == [job[o] EXCEPT !.pc = "ready", !.kind = k, !.yes = yes]
  <2>2. Step(o, j) /\ j.pc = "ready"
    BY <1>1, <2>1 DEF Starts, Jobs
  <2> HIDE DEF j
  <2> QED
    BY <1>5, <2>2
<1>7. CASE SettleAfterEnter(o)
  <2> DEFINE j == [job[o] EXCEPT !.enter = FALSE]
  <2>1. Other(j.pc) /\ (Step(o, j) \/ Go(o, Finally(o)))
    BY <1>1, <1>7 DEF SettleAfterEnter, IsAt, Jobs
  <2> HIDE DEF j
  <2> QED
    BY <1>4, <1>5, <2>1
<1>8. CASE GuardFocus(o)
  <2> DEFINE j == [job[o] EXCEPT !.pc = IF job[o].inside THEN "held" ELSE "ask", !.site = SiteAfter(o, PageFieldKind)]
  <2>1. Other(j.pc) /\ (Step(o, j) \/ Go(o, Finally(o)))
    BY <1>1, <1>8 DEF GuardFocus, Jobs
  <2> HIDE DEF j
  <2> QED
    BY <1>4, <1>5, <2>1
<1>9. CASE NoteAttached(o)
  <2> DEFINE j == [job[o] EXCEPT !.pc = "held", !.inside = TRUE]
  <2>1. Other(j.pc) /\ (Step(o, j) \/ Go(o, "cdp"))
    BY <1>1, <1>9 DEF NoteAttached, Jobs
  <2> HIDE DEF j
  <2> QED
    BY <1>2, <1>3, <1>5, <2>1
<1>10. CASE SendCommand(o)
  <2> DEFINE j == [job[o] EXCEPT !.pc = "cdp", !.again = FALSE]
  <2>1. Other(j.pc) /\ Step(o, j)
    BY <1>1, <1>10 DEF SendCommand, Jobs
  <2> HIDE DEF j
  <2> QED
    BY <1>5, <2>1
<1>11. CASE Go(o, Finally(o)) \/ \E pc \in Stages : Other(pc) /\ Go(o, pc)
  BY <1>3, <1>4, <1>11
<1>12. CASE LooksAt(o)
  <2> DEFINE j == [job[o] EXCEPT !.pc = "write", !.doc = tab.doc]
  <2>1. Other(j.pc) /\ Step(o, j)
    BY <1>1, <1>12 DEF LooksAt, Jobs
  <2> HIDE DEF j
  <2> QED
    BY <1>5, <2>1
<1>13. CASE AsksTab(o)
  <2>1. Go(o, "asked") \/ Go(o, Finally(o))
    BY <1>13 DEF AsksTab
  <2> QED
    BY <1>2, <1>3, <1>4, <1>13, <2>1
<1>14. CASE OpSteps(o) /\ ~LooksAt(o) /\ ~AsksTab(o)
  BY <1>2, <1>6, <1>7, <1>8, <1>9, <1>10, <1>11, <1>14
     DEF OpSteps, BuildSnapshot, Cleared, CloseTab, Navigate, Click, Fill, FocusSelect, TimeIsUp, Screenshot, EvalJs,
         AttachDebugger, DetachDebugger
<1> QED
  BY <1>12, <1>13, <1>14

(* Where being served leaves an operation.                                 *)
LEMMA ServeEnters ==
  ASSUME PageTypeOK, JobsSound, ServeSteps, job' # job
  PROVE  \A p \in Ops : p = Asker => job'[p].pc \in {"attached", "finally", "ask", "guard", "done"}
<1> SUFFICES ASSUME NEW p \in Ops, p = Asker PROVE job'[p].pc \in {"attached", "finally", "ask", "guard", "done"}
  OBVIOUS
<1>1. JobSound(job'[p]) /\ job[p] \in Jobs /\ job \in [Ops -> Jobs]
  BY ServeMoves DEF PageTypeOK
<1>2. {"attached", "finally", "ask", "guard", "done"} \subseteq Stages
  BY DEF Stages
<1>3. \A pc \in Stages : Go(p, pc) => job'[p].pc = pc
  BY <1>1, GoMoves
<1>4. CASE ServeAttach \/ ServeDetach \/ CommandRuns
  <2>1. \E pc \in {"attached", "finally", "done"} : Go(p, pc)
    BY <1>4, FinallyIs DEF ServeAttach, ServeDetach, CommandRuns
  <2> QED
    BY <1>2, <1>3, <2>1
<1>5. CASE CommandFails
  <2> DEFINE j == [job[p] EXCEPT !.pc = "ask", !.again = TRUE]
  <2>1. j.pc = "ask" /\ (Step(p, j) => job'[p] = j)
    BY <1>1, StepMoves DEF Jobs
  <2>2. Go(p, "finally") \/ Step(p, j)
    BY <1>5 DEF CommandFails
  <2> QED
    BY <1>2, <1>3, <2>1, <2>2
<1>6. ASSUME NEW enter \in BOOLEAN, NEW f \in Fields, NEW s \in Sites \cup {"nowhere"}, KeyLands(enter, f, s)
      PROVE  job'[p].pc \in {"attached", "finally", "ask", "guard", "done"}
  <2> DEFINE j == [job[p] EXCEPT !.pc = IF job[p].sent + 1 < MaxKeys THEN "guard" ELSE "finally",
                                 !.sent = @ + 1, !.enter = enter]
  <2>1. j.pc \in {"guard", "finally"} /\ (Step(p, j) => job'[p] = j)
    BY <1>1, StepMoves DEF Jobs
  <2>2. Step(p, j)
    BY <1>6 DEF KeyLands
  <2> QED
    BY <2>1, <2>2
<1> QED
  BY <1>4, <1>5, <1>6 DEF ServeSteps

LEMMA RefsKept ==
  ASSUME PageTypeOK, JobsSound, RefsSound, [PageNext]_pageVars
  PROVE  RefsSound'
<1> DEFINE Ends == {"landed", "removed"}
           After(doc, raced) == raced \/ (tab'.open /\ doc >= tab'.since) \/ Word(Ends)'
<1>1. UNCHANGED events => (Word(Ends)' <=> Word(Ends))
  BY DEF Word
<1>2. ASSUME NEW what \in {"request", "landed", "removed", "detached"}, NEW at \in Sites,
             events' = Append(events, [what |-> what, at |-> at])
      PROVE  Word(Ends)' <=> Word(Ends) \/ what \in Ends
  <2>1. [what |-> what, at |-> at] \in TabNotices /\ [what |-> what, at |-> at].what = what
    BY DEF TabNotices
  <2> QED
    BY <1>2, <2>1, WordAppended
<1>3. tab.at \in Sites /\ "signin" \in Sites
  BY DEF PageTypeOK, Sites
<1>4. ASSUME NEW o \in Ops, OpSteps(o) PROVE RefsSound'
  <2>0. tab'.since <= tab'.doc
    BY <1>4, OpWords DEF RefsSound
  <2>1. \/ tab'.open = tab.open /\ tab'.since = tab.since /\ (Word(Ends) => Word(Ends)')
        \/ Word(Ends)'
    BY <1>1, <1>2, <1>3, <1>4, OpWords
  <2>2. CASE LooksAt(o)
    <3> DEFINE j == [job[o] EXCEPT !.pc = "write", !.doc = tab.doc]
    <3>1. OnlyMoves(o) /\ job'[o] = j /\ UNCHANGED <<snap, tab, events>> /\ tab.open
      BY <2>2, StepMoves DEF LooksAt, memo, world, PageTypeOK
    <3>2. j.doc >= tab.since
      <4>1. j.doc = tab.doc /\ tab.doc \in Nat /\ tab.since \in Nat
        BY DEF PageTypeOK, Jobs
      <4> QED
        BY <4>1 DEF RefsSound
    <3>3. After(j.doc, j.raced) /\ (snap'.doc # 0 => After(snap'.doc, snap'.raced))
      BY <1>1, <3>1, <3>2 DEF RefGood, RefsSound
    <3>4. \A p \in Ops : p # o /\ job'[p].pc = "write" => After(job'[p].doc, job'[p].raced)
      BY <1>1, <3>1 DEF OnlyMoves, RefGood, RefsSound
    <3>5. \A p \in Ops : job'[p].pc = "write" => After(job'[p].doc, job'[p].raced)
      BY <3>1, <3>3, <3>4
    <3> QED
      BY <2>0, <3>3, <3>5 DEF RefsSound, RefGood
  <2>3. CASE BuildSnapshot(o)
    <3>1. snap' = [doc |-> job[o].doc, raced |-> job[o].raced] /\ job[o].pc = "write" /\ UNCHANGED <<tab, events>>
      BY <2>3 DEF BuildSnapshot, IsAt, world
    <3>2. After(job[o].doc, job[o].raced)
      BY <1>1, <3>1 DEF RefGood, RefsSound
    <3>3. \A p \in Ops : job'[p].pc = "write" => job'[p] = job[p]
      BY <1>4, <2>3, OpMoves, OpEnters DEF OnlyMoves, LooksAt, BuildSnapshot, IsAt
    <3>4. \A p \in Ops : job'[p].pc = "write" => After(job'[p].doc, job'[p].raced)
      BY <1>1, <3>1, <3>3 DEF RefGood, RefsSound
    <3> QED
      BY <2>0, <3>1, <3>2, <3>4 DEF RefsSound, RefGood
  <2>4. CASE ~LooksAt(o) /\ ~BuildSnapshot(o)
    <3>1. UNCHANGED snap \/ ClearSnapshot
      BY <1>4, <2>4
         DEF OpSteps, Starts, CloseTab, Cleared, Navigate, Click, Fill, FocusSelect, TimeIsUp, SettleAfterEnter, GuardFocus,
             Screenshot, EvalJs, AsksTab, AttachDebugger, NoteAttached, SendCommand, DetachDebugger, memo
    <3>a. snap' = snap \/ snap'.doc = 0
      BY <3>1 DEF ClearSnapshot
    <3>2. \A p \in Ops : job'[p].pc = "write" => job'[p] = job[p]
      BY <1>4, <2>4, OpMoves, OpEnters DEF OnlyMoves
    <3> QED
      BY <2>0, <2>1, <3>a, <3>2, RefsStep
  <2> QED
    BY <2>2, <2>3, <2>4
<1>5. CASE ServeSteps
  <2>0. tab'.since <= tab'.doc
    BY <1>5, ServeWords DEF RefsSound
  <2>1. tab'.open = tab.open /\ tab'.since = tab.since /\ (Word(Ends) => Word(Ends)')
    BY <1>1, <1>2, <1>3, <1>5, ServeWords
  <2>2. \A p \in Ops : job'[p].pc = "write" => job'[p] = job[p]
    BY <1>5, ServeMoves, ServeEnters DEF OnlyMoves
  <2>3. snap' = snap
    BY <1>5 DEF ServeSteps, ServeAttach, ServeDetach, CommandFails, CommandRuns, KeyLands, memo
  <2> QED
    BY <2>0, <2>1, <2>2, <2>3, RefsStep
<1>6. CASE WorldSteps
  <2>0. tab'.since <= tab'.doc
    BY <1>6, WorldWords DEF RefsSound
  <2>1. \/ tab'.open = tab.open /\ tab'.since = tab.since /\ (Word(Ends) => Word(Ends)')
        \/ Word(Ends)'
    BY <1>1, <1>2, <1>3, <1>6, WorldWords
  <2>2. UNCHANGED <<snap, job>>
    BY <1>6 DEF WorldSteps, PersonNavigates, Lands, PageRenames, PersonCloses, BannerDismissed, memo
  <2> QED
    BY <2>0, <2>1, <2>2, RefsStep
<1>7. CASE WorkerSteps
  <2>1. tab' = tab
    BY <1>7 DEF WorkerSteps, OnBeforeRequest, OnUpdated, OnRemoved, NoteDebuggerDetached, WorkerDies, BootsAgain,
                SweepDebuggees, SweepEnds, world
  <2>2. CASE OnUpdated \/ OnRemoved
    <3>1. snap'.doc = 0 /\ Raced
      BY <2>2 DEF OnUpdated, OnRemoved, ClearSnapshot
    <3>2. \A o \in Ops : job'[o].pc = "write" => job'[o].raced
      BY <3>1 DEF Raced, PageTypeOK, Jobs
    <3> QED
      BY <2>1, <3>1, <3>2 DEF RefsSound, RefGood
  <2>3. CASE ~OnUpdated /\ ~OnRemoved
    <3>1. UNCHANGED snap
      BY <1>7, <2>3 DEF WorkerSteps, OnBeforeRequest, NoteDebuggerDetached, WorkerDies, BootsAgain, SweepDebuggees, SweepEnds
    <3>2. Word(Ends) => Word(Ends)'
      <4>1. Take /\ Notice.what \notin Ends => (Word(Ends) => Word(Ends)')
        BY WordTaken
      <4> QED
        BY <1>1, <1>7, <2>3, <4>1
           DEF WorkerSteps, OnBeforeRequest, NoteDebuggerDetached, WorkerDies, BootsAgain, SweepDebuggees, SweepEnds, world
    <3>3. \A o \in Ops : job'[o].pc = "write" => job'[o] = job[o]
      <4>1. CASE WorkerDies
        BY <4>1, DoneIs DEF WorkerDies, Abandoned, Running, PageTypeOK, Jobs
      <4> QED
        BY <1>7, <2>3, <4>1
           DEF WorkerSteps, OnBeforeRequest, NoteDebuggerDetached, BootsAgain, SweepDebuggees, SweepEnds
    <3> QED
      BY <2>1, <3>1, <3>2, <3>3, RefsStep DEF RefsSound
  <2> QED
    BY <2>2, <2>3
<1>8. CASE UNCHANGED pageVars
  BY <1>8 DEF pageVars, RefsSound, RefGood, Word
<1> QED
  BY <1>4, <1>5, <1>6, <1>7, <1>8, PageSteps

-----------------------------------------------------------------------------
(* The debugger.                                                           *)

LEMMA WordsStay ==
  ASSUME PageTypeOK, WordsAreTrue, tab'.open = tab.open, tab'.at = tab.at,
         \/ events' = events
         \/ \E e \in TabNotices : e.what \notin {"landed", "removed"} /\ events' = Append(events, e)
         \/ Take
  PROVE  WordsAreTrue'
<1>1. CASE events' = events
  BY <1>1 DEF WordsAreTrue, Word
<1>2. ASSUME NEW e \in TabNotices, e.what \notin {"landed", "removed"}, events' = Append(events, e) PROVE WordsAreTrue'
  <2>1. /\ Len(events) \in Nat /\ Len(events') = Len(events) + 1
        /\ \A i \in 1..Len(events) : events'[i] = events[i]
        /\ events'[Len(events) + 1] = e
    BY <1>2, Appended DEF PageTypeOK
  <2>2. \A i \in 1..Len(events') : i \in 1..Len(events) \/ i = Len(events) + 1
    BY <2>1
  <2>3. \A i \in 1..Len(events) : \A j \in i + 1..Len(events) : j \in i + 1..Len(events') /\ events'[j] = events[j]
    BY <2>1
  <2>4. tab'.open => ~Word({"removed"})'
    BY <1>2, WordAppended DEF WordsAreTrue
  <2>5. \A i \in 1..Len(events') :
          tab'.open /\ events'[i].what = "landed" /\ (\A j \in i + 1..Len(events') : events'[j].what # "landed")
            => events'[i].at = tab'.at
    BY <1>2, <2>1, <2>2, <2>3 DEF WordsAreTrue
  <2> QED
    BY <2>4, <2>5 DEF WordsAreTrue
<1>3. CASE Take
  <2>1. /\ Len(events) \in Nat \ {0} /\ Len(events') = Len(events) - 1
        /\ \A i \in 1..Len(events') : events'[i] = events[i + 1] /\ i + 1 \in 1..Len(events)
    BY <1>3, Taken DEF PageTypeOK, Take
  <2>2. tab'.open => ~Word({"removed"})'
    BY <1>3, WordTaken DEF WordsAreTrue
  <2>3. ASSUME NEW i \in 1..Len(events'), tab'.open, events'[i].what = "landed",
               \A j \in i + 1..Len(events') : events'[j].what # "landed"
        PROVE  events'[i].at = tab'.at
    <3>1. i + 1 \in 1..Len(events) /\ events[i + 1] = events'[i]
      BY <2>1
    <3>2. \A j \in (i + 1) + 1..Len(events) : j - 1 \in i + 1..Len(events') /\ events[j] = events'[j - 1]
      <4> SUFFICES ASSUME NEW j \in (i + 1) + 1..Len(events)
                   PROVE  j - 1 \in i + 1..Len(events') /\ events[j] = events'[j - 1]
        OBVIOUS
      <4>1. j - 1 \in i + 1..Len(events') /\ j - 1 \in 1..Len(events') /\ (j - 1) + 1 = j
        BY <2>1
      <4> QED
        BY <2>1, <4>1
    <3> QED
      BY <2>3, <3>1, <3>2 DEF WordsAreTrue
  <2> QED
    BY <2>2, <2>3 DEF WordsAreTrue
<1> QED
  BY <1>1, <1>2, <1>3

LEMMA WordsLand ==
  ASSUME PageTypeOK, WordsAreTrue, tab'.open = tab.open, NEW at \in Sites, tab'.at = at,
         events' = Append(events, [what |-> "landed", at |-> at])
  PROVE  WordsAreTrue' /\ Word({"landed"})'
<1> DEFINE e == [what |-> "landed", at |-> at]
<1>1. e \in TabNotices /\ e.what = "landed" /\ e.at = at
  BY DEF TabNotices
<1>2. /\ Len(events) \in Nat /\ Len(events') = Len(events) + 1
      /\ events'[Len(events) + 1] = e
  BY <1>1, Appended DEF PageTypeOK
<1>3. tab'.open => ~Word({"removed"})'
  BY <1>1, WordAppended DEF WordsAreTrue
<1>4. \A i \in 1..Len(events') : i = Len(events) + 1 \/ Len(events) + 1 \in i + 1..Len(events')
  BY <1>2
<1>5. Word({"landed"})'
  BY <1>1, WordAppended
<1> QED
  BY <1>1, <1>2, <1>3, <1>4, <1>5 DEF WordsAreTrue

(* The last word of an address, once taken, was of the one the tab is at.  *)
LEMMA LastLanded ==
  ASSUME PageTypeOK, WordsAreTrue, Take, Notice.what = "landed", tab.open, ~Word({"landed"})'
  PROVE  Notice.at = tab.at
<1>1. /\ Len(events) \in Nat \ {0} /\ Len(events') = Len(events) - 1
      /\ \A i \in 1..Len(events') : events'[i] = events[i + 1]
      /\ Notice = events[1] /\ 1 \in 1..Len(events)
  <2>1. /\ Len(events) \in Nat \ {0} /\ Len(events') = Len(events) - 1
        /\ \A i \in 1..Len(events') : events'[i] = events[i + 1]
        /\ Notice = events[1]
    BY Taken DEF PageTypeOK, Take, Notice
  <2> QED
    BY <2>1
<1>2. \A j \in 1 + 1..Len(events) : j - 1 \in 1..Len(events') /\ events[j] = events'[j - 1]
  <2> SUFFICES ASSUME NEW j \in 1 + 1..Len(events) PROVE j - 1 \in 1..Len(events') /\ events[j] = events'[j - 1]
    OBVIOUS
  <2>1. j - 1 \in 1..Len(events') /\ (j - 1) + 1 = j
    BY <1>1
  <2> QED
    BY <1>1, <2>1
<1>3. \A j \in 1 + 1..Len(events) : events[j].what # "landed"
  BY <1>2 DEF Word
<1> QED
  BY <1>1, <1>3 DEF WordsAreTrue

LEMMA LineGrowsDetached ==
  ASSUME PageTypeOK, NEW c \in DebuggerCalls, calls' = Append(calls, c), attached' = attached, c.do # "attach",
         EndsDetached \/ c.do = "detach"
  PROVE  EndsDetached'
<1>1. /\ Len(calls) \in Nat /\ Len(calls') = Len(calls) + 1
      /\ \A i \in 1..Len(calls) : calls'[i] = calls[i]
      /\ calls'[Len(calls) + 1] = c
  BY Appended DEF PageTypeOK
<1>2. \A i \in 1..Len(calls') : i \in 1..Len(calls) \/ i = Len(calls) + 1
  BY <1>1
<1>3. CASE c.do = "detach"
  <2>1. Len(calls) + 1 \in 1..Len(calls') /\ \A j \in (Len(calls) + 1) + 1..Len(calls') : calls'[j].do # "attach"
    BY <1>1
  <2> QED
    BY <1>1, <1>3, <2>1 DEF EndsDetached
<1>4. CASE ~attached /\ \A i \in 1..Len(calls) : calls[i].do # "attach"
  BY <1>1, <1>2, <1>4 DEF EndsDetached
<1>5. ASSUME NEW i \in 1..Len(calls), calls[i].do = "detach", \A j \in i + 1..Len(calls) : calls[j].do # "attach"
      PROVE  EndsDetached'
  <2>1. i \in 1..Len(calls') /\ \A j \in i + 1..Len(calls') : j \in i + 1..Len(calls) \/ j = Len(calls) + 1
    BY <1>1
  <2>2. \A j \in i + 1..Len(calls) : j \in 1..Len(calls)
    BY <1>1
  <2>3. \A j \in i + 1..Len(calls') : calls'[j].do # "attach"
    BY <1>1, <1>5, <2>1, <2>2
  <2> QED
    BY <1>1, <1>5, <2>1, <2>3 DEF EndsDetached
<1> QED
  BY <1>3, <1>4, <1>5 DEF EndsDetached

LEMMA LineServedDetached ==
  ASSUME PageTypeOK, ServeSteps, EndsDetached
  PROVE  EndsDetached'
<1>1. calls # <<>> /\ calls' = Tail(calls)
  BY ServedCalls DEF Served
<1>2. /\ Len(calls) \in Nat \ {0} /\ Len(calls') = Len(calls) - 1
      /\ \A i \in 1..Len(calls') : calls'[i] = calls[i + 1] /\ i + 1 \in 1..Len(calls)
      /\ Head(calls) = calls[1]
  BY <1>1, Taken DEF PageTypeOK
<1>3. /\ Head(calls).do # "attach" => attached' \in {attached, FALSE}
      /\ Head(calls).do = "detach" => ~attached'
  BY DEF ServeSteps, ServeAttach, ServeDetach, CommandFails, CommandRuns, KeyLands
<1>4. CASE ~attached /\ \A i \in 1..Len(calls) : calls[i].do # "attach"
  <2>1. 1 \in 1..Len(calls)
    BY <1>2
  <2> QED
    BY <1>2, <1>3, <1>4, <2>1 DEF EndsDetached
<1>5. ASSUME NEW i \in 1..Len(calls), calls[i].do = "detach", \A j \in i + 1..Len(calls) : calls[j].do # "attach"
      PROVE  EndsDetached'
  <2>1. CASE i = 1
    <3>1. \A k \in 1..Len(calls') : k + 1 \in i + 1..Len(calls)
      BY <1>2, <2>1
    <3>2. \A k \in 1..Len(calls') : calls'[k].do # "attach"
      BY <1>2, <1>5, <3>1
    <3> QED
      BY <1>2, <1>3, <1>5, <2>1, <3>2 DEF EndsDetached
  <2>2. CASE i # 1
    <3>1. i - 1 \in 1..Len(calls') /\ (i - 1) + 1 = i
      BY <1>2, <2>2
    <3>2. calls'[i - 1].do = "detach"
      BY <1>2, <1>5, <3>1
    <3>3. \A j \in (i - 1) + 1..Len(calls') : j \in 1..Len(calls') /\ j + 1 \in i + 1..Len(calls)
      BY <1>2, <2>2
    <3>4. \A j \in (i - 1) + 1..Len(calls') : calls'[j].do # "attach"
      BY <1>2, <1>5, <3>3
    <3> QED
      BY <3>1, <3>2, <3>4 DEF EndsDetached
  <2> QED
    BY <2>1, <2>2
<1> QED
  BY <1>4, <1>5 DEF EndsDetached

LEMMA LineSameDetached ==
  ASSUME calls' = calls, attached' \in {attached, FALSE}, EndsDetached
  PROVE  EndsDetached'
BY DEF EndsDetached

(* What is said of a tab that shows the same page.                         *)
LEMMA WordsOfAPage ==
  ASSUME PageTypeOK, WordsAreTrue, tab'.open = tab.open, tab'.at = tab.at,
         NEW what \in {"request", "detached"}, NEW at \in Sites,
         events' = events \/ events' = Append(events, [what |-> what, at |-> at])
  PROVE  WordsAreTrue' /\ (Word({"landed"})' <=> Word({"landed"})) /\ (AtSignIn' <=> AtSignIn)
<1> DEFINE e == [what |-> what, at |-> at]
<1>1. e \in TabNotices /\ e.what = what
  BY DEF TabNotices
<1>2. AtSignIn' <=> AtSignIn
  BY DEF AtSignIn
<1>3. CASE events' = events
  BY <1>2, <1>3, WordsStay DEF Word
<1>4. CASE events' = Append(events, e)
  BY <1>1, <1>2, <1>4, WordsStay, WordAppended
<1> QED
  BY <1>3, <1>4

LEMMA ClosedIsSound ==
  ASSUME ~tab'.open
  PROVE  SignInSound'
BY DEF SignInSound, WordsAreTrue, AtSignIn

LEMMA OpSignIn ==
  ASSUME PageTypeOK, JobsSound, SignInSound, NEW o \in Ops, OpSteps(o)
  PROVE  SignInSound'
<1>1. CASE ~tab'.open
  BY <1>1, ClosedIsSound
<1>2. CASE tab'.open
  <2>1. /\ tab'.open = tab.open /\ tab'.at = tab.at
        /\ events' = events \/ events' = Append(events, [what |-> "request", at |-> "signin"])
    BY <1>2, OpWords
  <2>2. WordsAreTrue' /\ (Word({"landed"})' <=> Word({"landed"})) /\ (AtSignIn' <=> AtSignIn)
    BY <2>1, WordsOfAPage DEF SignInSound, Sites
  <2>3. signingIn' = signingIn /\ attached' = attached
    BY <1>2 DEF OpSteps, Starts, LooksAt, BuildSnapshot, CloseTab, Cleared, Navigate, Click, Fill, FocusSelect, TimeIsUp,
                SettleAfterEnter, GuardFocus, Screenshot, EvalJs, AsksTab, AttachDebugger, NoteAttached, SendCommand,
                DetachDebugger, memo, PageTypeOK
  <2>4. ASSUME NEW p \in Ops, job'[p].pc = "asked", AtSignIn PROVE signingIn \/ Word({"landed"})
    <3>1. CASE p # o
      BY <2>4, <3>1, OpMoves DEF OnlyMoves, SignInSound, IsAt
    <3>2. CASE p = o
      <4>1. AsksTab(o)
        BY <2>4, <3>2, OpEnters
      <4>2. Go(o, Finally(o))
        BY <2>4, <4>1 DEF AsksTab, AtSignIn
      <4>3. job'[o].pc = Finally(o)
        BY <4>2, FinallyIs, GoMoves DEF PageTypeOK, Stages
      <4> QED
        BY <2>4, <3>2, <4>3, FinallyIs
    <3> QED
      BY <3>1, <3>2
  <2>5. ASSUME AtSignIn, ~Word({"landed"}) PROVE EndsDetached'
    <3>1. EndsDetached
      BY <2>5 DEF SignInSound
    <3>2. CASE calls' = calls
      BY <2>3, <3>1, <3>2, LineSameDetached
    <3>3. ASSUME NEW do \in {"command", "detach"}, calls' = Append(calls, [do |-> do, by |-> o]) PROVE EndsDetached'
      <4>1. [do |-> do, by |-> o] \in DebuggerCalls /\ [do |-> do, by |-> o].do = do
        BY DEF DebuggerCalls, Doers
      <4> QED
        BY <2>3, <3>1, <3>3, <4>1, LineGrowsDetached
    <3>4. ~(job[o].pc = "asked" /\ ~signingIn)
      BY <2>5 DEF SignInSound, IsAt
    <3> QED
      BY <3>2, <3>3, <3>4, OpCalls
  <2> QED
    BY <2>2, <2>3, <2>4, <2>5 DEF SignInSound, IsAt
<1> QED
  BY <1>1, <1>2

LEMMA ServeSignIn ==
  ASSUME PageTypeOK, JobsSound, SignInSound, ServeSteps
  PROVE  SignInSound'
<1>1. WordsAreTrue' /\ (Word({"landed"})' <=> Word({"landed"})) /\ (AtSignIn' <=> AtSignIn)
  BY ServeWords, WordsOfAPage DEF SignInSound, Sites
<1>2. signingIn' = signingIn
  BY DEF ServeSteps, ServeAttach, ServeDetach, CommandFails, CommandRuns, KeyLands, memo
<1>3. \A p \in Ops : job'[p].pc = "asked" => job'[p] = job[p]
  BY ServeMoves, ServeEnters DEF OnlyMoves
<1> QED
  BY <1>1, <1>2, <1>3, LineServedDetached DEF SignInSound, IsAt

LEMMA WorldSignIn ==
  ASSUME PageTypeOK, SignInSound, WorldSteps
  PROVE  SignInSound'
<1>1. CASE ~tab'.open
  BY <1>1, ClosedIsSound
<1>2. UNCHANGED <<calls, job, signingIn>> /\ attached' \in {attached, FALSE}
  BY DEF WorldSteps, PersonNavigates, Lands, PageRenames, PersonCloses, BannerDismissed, memo
<1>3. tab.at \in Sites /\ "signin" \in Sites
  BY DEF PageTypeOK, Sites
<1>4. CASE /\ tab'.open = tab.open /\ tab'.at = tab.at
           /\ \/ events' = events
              \/ events' = Append(events, [what |-> "request", at |-> "signin"])
              \/ events' = Append(events, [what |-> "detached", at |-> tab.at])
  <2>1. WordsAreTrue' /\ (Word({"landed"})' <=> Word({"landed"})) /\ (AtSignIn' <=> AtSignIn)
    BY <1>3, <1>4, WordsOfAPage DEF SignInSound
  <2> QED
    BY <1>2, <2>1, LineSameDetached DEF SignInSound, IsAt
<1>5. CASE tab'.open = tab.open /\ tab'.at \in Sites /\ events' = Append(events, [what |-> "landed", at |-> tab'.at])
  <2>1. ASSUME NEW at \in Sites, tab'.at = at, events' = Append(events, [what |-> "landed", at |-> at])
        PROVE  WordsAreTrue' /\ Word({"landed"})'
    BY <1>5, <2>1, WordsLand DEF SignInSound
  <2>2. WordsAreTrue' /\ Word({"landed"})'
    BY <1>5, <2>1
  <2> QED
    BY <2>2 DEF SignInSound
<1> QED
  BY <1>1, <1>3, <1>4, <1>5, WorldWords

LEMMA WorkerSignIn ==
  ASSUME PageTypeOK, SignInSound, WorkerSteps
  PROVE  SignInSound'
<1>1. UNCHANGED <<tab, attached>> /\ (events' = events \/ Take)
  BY DEF WorkerSteps, OnBeforeRequest, OnUpdated, OnRemoved, NoteDebuggerDetached, WorkerDies, BootsAgain, SweepDebuggees,
         SweepEnds, world
<1>2. WordsAreTrue' /\ (AtSignIn' <=> AtSignIn)
  BY <1>1, WordsStay DEF SignInSound, AtSignIn
<1>3. events' = events => (Word({"landed"})' <=> Word({"landed"}))
  BY DEF Word
<1>4. Take /\ Notice.what # "landed" => (Word({"landed"}) => Word({"landed"})')
  BY WordTaken
<1>5. ASSUME NEW who \in {"worker", "sweep"}, calls' = Append(calls, [do |-> "detach", by |-> who]) PROVE EndsDetached'
  <2>1. [do |-> "detach", by |-> who] \in DebuggerCalls /\ [do |-> "detach", by |-> who].do = "detach"
    BY DEF DebuggerCalls, Doers
  <2> QED
    BY <1>1, <1>5, <2>1, LineGrowsDetached
<1>6. EndsDetached => EndsDetached'
  BY <1>1, <1>5, WorkerCalls, LineSameDetached
<1>7. DetachForSignIn => signingIn' /\ EndsDetached'
  BY <1>5 DEF DetachForSignIn, Call
<1>8. CASE OnBeforeRequest
  BY <1>2, <1>7, <1>8 DEF OnBeforeRequest, SignInSound
<1>9. CASE OnUpdated
  <2>1. CASE Notice.at = "signin"
    BY <1>2, <1>7, <1>9, <2>1 DEF OnUpdated, SignInSound
  <2>2. CASE Notice.at # "signin"
    <3>1. AtSignIn => Word({"landed"})'
      BY <1>9, <2>2, LastLanded DEF OnUpdated, SignInSound, AtSignIn
    <3> QED
      BY <1>2, <3>1 DEF SignInSound
  <2> QED
    BY <2>1, <2>2
<1>10. CASE OnRemoved
  <2>1. Word({"removed"})
    <3>1. events # <<>> /\ Notice.what = "removed"
      BY <1>10 DEF OnRemoved, Take
    <3>2. Notice = events[1] /\ 1 \in 1..Len(events)
      BY <3>1, Taken DEF Notice, PageTypeOK
    <3> QED
      BY <3>1, <3>2 DEF Word
  <2>2. ~tab'.open
    BY <1>1, <2>1 DEF SignInSound, WordsAreTrue
  <2> QED
    BY <2>2, ClosedIsSound
<1>11. CASE WorkerDies
  <2>1. \A p \in Ops : job'[p].pc # "asked"
    BY <1>11, DoneIs DEF WorkerDies, Abandoned, Running, PageTypeOK, Jobs
  <2>2. events' = events
    BY <1>11 DEF WorkerDies
  <2> QED
    BY <1>2, <1>3, <1>6, <2>1, <2>2 DEF SignInSound, IsAt
<1>12. CASE NoteDebuggerDetached \/ BootsAgain \/ SweepDebuggees \/ SweepEnds
  <2>1. UNCHANGED <<job, signingIn>> /\ (Word({"landed"}) => Word({"landed"})')
    BY <1>3, <1>4, <1>12 DEF NoteDebuggerDetached, BootsAgain, SweepDebuggees, SweepEnds, world
  <2> QED
    BY <1>2, <1>6, <2>1 DEF SignInSound, IsAt
<1> QED
  BY <1>8, <1>9, <1>10, <1>11, <1>12 DEF WorkerSteps

LEMMA SignInKept ==
  ASSUME PageTypeOK, JobsSound, SignInSound, [PageNext]_pageVars
  PROVE  SignInSound'
<1>1. CASE UNCHANGED pageVars
  BY <1>1 DEF pageVars, SignInSound, WordsAreTrue, Word, AtSignIn, EndsDetached, IsAt
<1> QED
  BY <1>1, PageSteps, OpSignIn, ServeSignIn, WorldSignIn, WorkerSignIn

-----------------------------------------------------------------------------
(* Who holds the debugger.                                                 *)

LetGoComes == \E i \in 1..Len(calls) : calls[i].do = "detach"

LEMMA LetGoAppended ==
  ASSUME PageTypeOK, NEW c \in DebuggerCalls, calls' = Append(calls, c)
  PROVE  LetGoComes' <=> LetGoComes \/ c.do = "detach"
<1>1. /\ Len(calls) \in Nat /\ Len(calls') = Len(calls) + 1
      /\ \A i \in 1..Len(calls) : calls'[i] = calls[i]
      /\ calls'[Len(calls) + 1] = c
  BY Appended DEF PageTypeOK
<1> QED
  BY <1>1 DEF LetGoComes

LEMMA LetGoServed ==
  ASSUME PageTypeOK, Served, Head(calls).do # "detach", LetGoComes
  PROVE  LetGoComes'
<1>1. /\ Len(calls) \in Nat \ {0} /\ Len(calls') = Len(calls) - 1
      /\ \A i \in 1..Len(calls') : calls'[i] = calls[i + 1]
      /\ Head(calls) = calls[1]
  BY Taken DEF PageTypeOK, Served
<1>2. PICK i \in 1..Len(calls) : calls[i].do = "detach"
  BY DEF LetGoComes
<1>3. i - 1 \in 1..Len(calls') /\ (i - 1) + 1 = i
  BY <1>1, <1>2
<1>4. calls'[i - 1] = calls[i]
  BY <1>1, <1>3
<1> QED
  BY <1>2, <1>3, <1>4 DEF LetGoComes

(* An operation that holds the debugger does so until it asks to let go.   *)
LEMMA OpHolds ==
  ASSUME PageTypeOK, JobsSound, NEW o \in Ops, OpSteps(o), Holds(o)
  PROVE  Holds(o)'
<1>1. /\ job[o] \in Jobs /\ JobSound(job[o]) /\ job \in [Ops -> Jobs]
      /\ job[o].inside \/ job[o].pc = "attached"
      /\ job[o].pc \notin {"idle", "ready", "write", "clear"}
  BY DEF Holds, Running, JobsSound, JobSound, PageTypeOK
<1>2. \A pc \in Stages \ {"idle", "done"} : Go(o, pc) /\ job[o].inside => Holds(o)'
  BY <1>1, GoMoves DEF Holds, Running, SameBut
<1>3. {"asked", "attaching", "detaching", "finally", "cdp"} \subseteq Stages
  BY DEF Stages
<1>4. job[o].inside /\ Go(o, Finally(o)) => Holds(o)'
  BY <1>2, <1>3, FinallyIs
<1>5. \A j : Step(o, j) /\ j.inside /\ j.pc \notin {"idle", "done"} => Holds(o)'
  BY <1>1, StepMoves DEF Holds, Running
<1>6. CASE TimeIsUp(o) \/ AsksTab(o) \/ AttachDebugger(o) \/ DetachDebugger(o)
  <2>1. job[o].inside
    BY <1>1, <1>6 DEF TimeIsUp, AsksTab, AttachDebugger, DetachDebugger, IsAt
  <2>2. Go(o, Finally(o)) \/ \E pc \in {"asked", "attaching", "detaching"} : Go(o, pc)
    BY <1>6 DEF TimeIsUp, AsksTab, AttachDebugger, DetachDebugger
  <2> QED
    BY <1>2, <1>3, <1>4, <2>1, <2>2
<1>7. CASE SettleAfterEnter(o)
  <2> DEFINE j == [job[o] EXCEPT !.enter = FALSE]
  <2>1. job[o].inside /\ j.inside = job[o].inside /\ j.pc = "guard" /\ (Step(o, j) \/ Go(o, Finally(o)))
    BY <1>1, <1>7 DEF SettleAfterEnter, IsAt, Jobs
  <2> HIDE DEF j
  <2> QED
    BY <1>4, <1>5, <2>1
<1>8. CASE GuardFocus(o)
  <2> DEFINE j == [job[o] EXCEPT !.pc = IF job[o].inside THEN "held" ELSE "ask", !.site = SiteAfter(o, PageFieldKind)]
  <2>1. job[o].inside /\ j.inside = job[o].inside /\ j.pc \in {"held", "ask"} /\ (Step(o, j) \/ Go(o, Finally(o)))
    BY <1>1, <1>8 DEF GuardFocus, IsAt, Jobs
  <2> HIDE DEF j
  <2> QED
    BY <1>4, <1>5, <2>1
<1>9. CASE NoteAttached(o)
  <2> DEFINE j == [job[o] EXCEPT !.pc = "held", !.inside = TRUE]
  <2>1. j.inside /\ j.pc = "held" /\ (Step(o, j) \/ (Go(o, "cdp") /\ job[o].inside))
    BY <1>1, <1>9 DEF NoteAttached, JobSound, Jobs
  <2> HIDE DEF j
  <2> QED
    BY <1>2, <1>3, <1>5, <2>1
<1>10. CASE SendCommand(o)
  <2> DEFINE j == [job[o] EXCEPT !.pc = "cdp", !.again = FALSE]
  <2>1. job[o].inside /\ j.inside = job[o].inside /\ j.pc = "cdp" /\ Step(o, j)
    BY <1>1, <1>10 DEF SendCommand, IsAt, Jobs
  <2> HIDE DEF j
  <2> QED
    BY <1>5, <2>1
<1> QED
  BY <1>1, <1>6, <1>7, <1>8, <1>9, <1>10
     DEF OpSteps, Starts, LooksAt, BuildSnapshot, CloseTab, Cleared, Navigate, Click, Fill, FocusSelect, Screenshot, EvalJs,
         IsAt

LEMMA OpHeld ==
  ASSUME PageTypeOK, JobsSound, DebuggerLetGo, NEW o \in Ops, OpSteps(o)
  PROVE  DebuggerLetGo'
<1>1. \A p \in Ops : Holds(p) => Holds(p)'
  <2>1. \A p \in Ops : p # o => job'[p] = job[p]
    BY OpMoves DEF OnlyMoves
  <2> QED
    BY <2>1, OpHolds DEF Holds, Running
<1>2. LetGoComes => LetGoComes'
  <2>1. ASSUME NEW do \in {"attach", "command", "detach"}, calls' = Append(calls, [do |-> do, by |-> o])
        PROVE  LetGoComes => LetGoComes'
    <3>1. [do |-> do, by |-> o] \in DebuggerCalls
      BY DEF DebuggerCalls, Doers
    <3> QED
      BY <2>1, <3>1, LetGoAppended
  <2>2. calls' = calls => (LetGoComes => LetGoComes')
    BY DEF LetGoComes
  <2> QED
    BY <2>1, <2>2, OpCalls
<1>3. attached' \in {attached, FALSE} /\ UNCHANGED <<torn, sweep>> /\ (listed => listed')
  <2>1. CASE NoteAttached(o)
    BY <2>1 DEF NoteAttached, ghosts
  <2>2. CASE ~NoteAttached(o)
    <3>1. attached' \in {attached, FALSE} /\ UNCHANGED <<torn, sweep, listed>>
      BY <2>2
         DEF OpSteps, Starts, LooksAt, BuildSnapshot, CloseTab, Cleared, Navigate, Click, Fill, FocusSelect, TimeIsUp,
             SettleAfterEnter, GuardFocus, Screenshot, EvalJs, AsksTab, AttachDebugger, SendCommand, DetachDebugger, memo,
             ghosts
    <3> QED
      BY <3>1
  <2> QED
    BY <2>1, <2>2
<1> QED
  BY <1>1, <1>2, <1>3 DEF DebuggerLetGo, LetGoComes

LEMMA ServeHeld ==
  ASSUME PageTypeOK, JobsSound, DebuggerLetGo, ServeSteps
  PROVE  DebuggerLetGo'
<1>1. Served
  BY ServedCalls
<1>2. CASE ServeDetach \/ CommandFails
  BY <1>2 DEF ServeDetach, CommandFails, DebuggerLetGo
<1>3. CASE ServeAttach
  <2>1. CASE Waits("attaching") /\ tab.open
    <3>1. ASSUME NEW p \in Ops, p = Asker PROVE Holds(p)'
      <4>1. Go(p, "attached") /\ job \in [Ops -> Jobs] /\ "attached" \in Stages
        BY <1>3, <2>1, <3>1 DEF ServeAttach, PageTypeOK, Stages
      <4>2. job'[p].pc = "attached"
        BY <4>1, GoMoves
      <4> QED
        BY <4>2 DEF Holds, Running
    <3>2. Asker \in Ops
      BY <2>1 DEF Waits
    <3> QED
      BY <3>1, <3>2 DEF DebuggerLetGo
  <2>2. CASE ~Waits("attaching") \/ ~tab.open
    BY <1>3, <2>2 DEF ServeAttach, DebuggerLetGo
  <2> QED
    BY <2>1, <2>2
<1>4. CASE CommandRuns \/ \E enter \in BOOLEAN, f \in Fields, s \in Sites \cup {"nowhere"} : KeyLands(enter, f, s)
  <2>1. /\ Head(calls).do # "detach" /\ attached /\ UNCHANGED <<torn, sweep, listed>>
        /\ Waits("cdp") \/ job' = job
    BY <1>4 DEF CommandRuns, KeyLands, memo, ghosts
  <2>2. LetGoComes => LetGoComes'
    BY <1>1, <2>1, LetGoServed
  <2>3. ASSUME NEW p \in Ops, Holds(p) PROVE Holds(p)'
    <3>1. CASE job' = job
      BY <2>3, <3>1 DEF Holds, Running
    <3>2. CASE job' # job /\ p # Asker
      BY <2>3, <3>2, ServeMoves DEF OnlyMoves, Holds, Running
    <3>3. CASE job' # job /\ p = Asker
      <4>1. job[p].pc = "cdp" /\ job[p].inside /\ job \in [Ops -> Jobs] /\ job[p] \in Jobs
        BY <2>1, <3>3 DEF Waits, JobsSound, JobSound, PageTypeOK
      <4>2. CASE CommandRuns
        <5>1. Go(p, "finally") /\ "finally" \in Stages
          BY <3>3, <4>2 DEF CommandRuns, Stages
        <5> QED
          BY <4>1, <5>1, GoMoves DEF SameBut, Holds, Running
      <4>3. ASSUME NEW enter \in BOOLEAN, NEW f \in Fields, NEW s \in Sites \cup {"nowhere"}, KeyLands(enter, f, s)
            PROVE  Holds(p)'
        <5> DEFINE j == [job[p] EXCEPT !.pc = IF job[p].sent + 1 < MaxKeys THEN "guard" ELSE "finally",
                                       !.sent = @ + 1, !.enter = enter]
        <5>1. j.inside = job[p].inside /\ j.pc \in {"guard", "finally"}
          BY <4>1 DEF Jobs
        <5>2. Step(p, j)
          BY <3>3, <4>3 DEF KeyLands
        <5> HIDE DEF j
        <5> QED
          BY <4>1, <5>1, <5>2, StepMoves DEF Holds, Running
      <4> QED
        BY <1>4, <4>2, <4>3
    <3> QED
      BY <3>1, <3>2, <3>3
  <2> QED
    BY <2>1, <2>2, <2>3 DEF DebuggerLetGo, LetGoComes
<1> QED
  BY <1>2, <1>3, <1>4 DEF ServeSteps

LEMMA WorkerHeld ==
  ASSUME PageTypeOK, DebuggerLetGo, WorkerSteps
  PROVE  DebuggerLetGo'
<1>1. attached' = attached
  BY DEF WorkerSteps, OnBeforeRequest, OnUpdated, OnRemoved, NoteDebuggerDetached, WorkerDies, BootsAgain, SweepDebuggees,
         SweepEnds
<1>2. ASSUME NEW who \in {"worker", "sweep"}, calls' = Append(calls, [do |-> "detach", by |-> who]) PROVE LetGoComes'
  <2>1. [do |-> "detach", by |-> who] \in DebuggerCalls /\ [do |-> "detach", by |-> who].do = "detach"
    BY DEF DebuggerCalls, Doers
  <2> QED
    BY <1>2, <2>1, LetGoAppended
<1>3. LetGoComes => LetGoComes'
  <2>1. calls' = calls => (LetGoComes => LetGoComes')
    BY DEF LetGoComes
  <2> QED
    BY <1>2, <2>1, WorkerCalls
<1>4. CASE WorkerDies
  BY <1>4 DEF WorkerDies, DebuggerLetGo, PageTypeOK
<1>5. CASE SweepDebuggees
  <2>1. listed => LetGoComes'
    BY <1>2, <1>5 DEF SweepDebuggees, Call
  <2> QED
    BY <1>1, <1>3, <1>5, <2>1 DEF SweepDebuggees, DebuggerLetGo, LetGoComes, Holds, Running, ghosts
<1>6. CASE NoteDebuggerDetached
  <2>1. \A o \in Ops : Holds(o)' <=> Holds(o)
    BY <1>6 DEF NoteDebuggerDetached, Holds, Running
  <2>2. torn' \/ ~attached \/ \E o \in Ops : Holds(o)
    BY <1>6 DEF NoteDebuggerDetached, PageTypeOK
  <2> QED
    BY <1>1, <2>1, <2>2 DEF DebuggerLetGo
<1>7. CASE OnBeforeRequest \/ OnUpdated \/ OnRemoved \/ BootsAgain \/ SweepEnds
  <2>1. UNCHANGED torn /\ (sweep = "due" /\ listed => sweep' = "due" /\ listed')
    BY <1>7 DEF OnBeforeRequest, OnUpdated, OnRemoved, BootsAgain, SweepEnds, ghosts
  <2>2. \A o \in Ops : Holds(o)' <=> Holds(o)
    <3>1. \A o \in Ops : job'[o].pc = job[o].pc /\ job'[o].inside = job[o].inside
      BY <1>7 DEF OnBeforeRequest, OnUpdated, OnRemoved, BootsAgain, SweepEnds, Raced, PageTypeOK, Jobs
    <3> QED
      BY <3>1 DEF Holds, Running
  <2> QED
    BY <1>1, <1>3, <2>1, <2>2 DEF DebuggerLetGo, LetGoComes
<1> QED
  BY <1>4, <1>5, <1>6, <1>7 DEF WorkerSteps

LEMMA HeldKept ==
  ASSUME PageTypeOK, JobsSound, DebuggerLetGo, [PageNext]_pageVars
  PROVE  DebuggerLetGo'
<1>1. CASE WorldSteps
  <2>1. UNCHANGED <<calls, job, torn, sweep, listed>> /\ attached' \in {attached, FALSE}
    BY <1>1 DEF WorldSteps, PersonNavigates, Lands, PageRenames, PersonCloses, BannerDismissed, memo, ghosts
  <2> QED
    BY <2>1 DEF DebuggerLetGo, Holds, Running
<1>2. CASE UNCHANGED pageVars
  BY <1>2 DEF pageVars, DebuggerLetGo, Holds, Running
<1> QED
  BY <1>1, <1>2, PageSteps, OpHeld, ServeHeld, WorkerHeld

-----------------------------------------------------------------------------
(* The theorems.                                                           *)

LEMMA PageInitially == PageInit => PageInv
<1> SUFFICES ASSUME PageInit PROVE PageInv
  OBVIOUS
<1>1. job = [o \in Ops |-> NotBegun] /\ calls = <<>> /\ events = <<>> /\ Len(calls) = 0 /\ Len(events) = 0
  BY DEF PageInit
<1>2. NotBegun.pc = "idle" /\ NotBegun.kind = "none" /\ ~NotBegun.inside /\ ~NotBegun.again /\ JobSound(NotBegun)
  BY DEF NotBegun, JobSound
<1>3. PageTypeOK
  <2>1. job \in [Ops -> Jobs]
    BY <1>1, DoneIsAJob
  <2>2. tab \in [open : BOOLEAN, doc : Nat, since : Nat, at : Sites, heading : Sites \cup {"nowhere"}, shown : BOOLEAN,
                 by : Ops \cup {"person"}, focus : Fields]
    BY DEF PageInit, Sites, Fields
  <2>3. calls \in Seq(DebuggerCalls) /\ events \in Seq(TabNotices)
    BY <1>1
  <2>4. /\ attached \in BOOLEAN /\ signingIn \in BOOLEAN /\ listed \in BOOLEAN /\ torn \in BOOLEAN /\ leaked \in BOOLEAN
        /\ snap \in [doc : Nat, raced : BOOLEAN] /\ sweep = "due" /\ mishaps = 0
    BY DEF PageInit
  <2> QED
    BY <2>1, <2>2, <2>3, <2>4 DEF PageTypeOK
<1>4. JobsSound
  BY <1>1, <1>2 DEF JobsSound
<1>5. LineSound
  BY <1>1 DEF LineSound
<1>6. KeysSound
  <2>1. tab.by \notin Ops
    BY OpsAssumption DEF PageInit
  <2>2. \A o \in Ops : ~InLine(o) /\ ~Typing(o) /\ ~BeforeItsKey(o)
    BY <1>1, <1>2 DEF InLine, Typing, BeforeItsKey
  <2> QED
    BY <2>1, <2>2 DEF KeysSound, OneTypes, EnterSettles, AimHolds, NoSecretWithoutAYes, Coming, Aimed, PageInit
<1>7. RefsSound
  BY <1>1, <1>2 DEF RefsSound, PageInit
<1>8. SignInSound
  BY <1>1, <1>2 DEF SignInSound, WordsAreTrue, Word, AtSignIn, EndsDetached, IsAt, PageInit
<1>9. DebuggerLetGo
  BY DEF DebuggerLetGo, PageInit
<1> QED
  BY <1>3, <1>4, <1>5, <1>6, <1>7, <1>8, <1>9 DEF PageInv

LEMMA PageStep == PageInv /\ [PageNext]_pageVars => PageInv'
BY PageTypes, JobsKept, LineKept, KeysKept, RefsKept, SignInKept, HeldKept DEF PageInv

(* Every state an operation, the page, the browser or the worker can lead  *)
(* to satisfies the invariant the three properties follow from.            *)
THEOREM PageInvariant == PageSpec => []PageInv
BY PageInitially, PageStep, PTL DEF PageSpec

(* No trusted key lands in a password or one-time-code field without a     *)
(* recorded yes for the site that holds it, nor off that site once one was *)
(* typed: however many sequences, in however many documents, are judged by *)
(* guardFocus, carried on after their worker died (typeText, pressKeys) or *)
(* wait for a page after an Enter (settleAfterEnter).                      *)
THEOREM KeysLandWhereAgreed == PageSpec => []NoSecretWithoutAYes
<1>1. PageInv => NoSecretWithoutAYes
  BY DEF PageInv, KeysSound
<1> QED
  BY <1>1, PageInvariant, PTL

(* Refs do not outlive the address they were minted at, but for those of a *)
(* snapshot that was written down across the navigation, or that the       *)
(* worker is about to hear of: however the tab reloads, loads the same     *)
(* address, renames itself and goes elsewhere meanwhile (buildSnapshot,    *)
(* onUpdated, onRemoved).                                                  *)
THEOREM RefsDie == PageSpec => []RefsDieWithTheirAddress
<1>1. PageInv => RefsDieWithTheirAddress
  <2> SUFFICES ASSUME PageInv, snap.doc # 0, ~tab.open \/ snap.doc < tab.since
               PROVE  snap.raced \/ Word({"landed", "removed"})
    BY DEF RefsDieWithTheirAddress, Word
  <2>1. snap.doc \in Nat /\ tab.since \in Nat
    BY DEF PageInv, PageTypeOK
  <2> QED
    BY <2>1 DEF PageInv, RefsSound, RefGood
<1> QED
  BY <1>1, PageInvariant, PTL

(* The debugger is let go of at a sign-in page the worker has heard of,    *)
(* and is otherwise held by an operation, on its way out or written down   *)
(* for the next worker (detachForSignIn, withDebugger, sweepDebuggees).    *)
THEOREM TheDebuggerEnds == PageSpec => []DebuggerEnds
<1>1. PageInv => DebuggerEnds
  <2> SUFFICES ASSUME PageInv, tab.open, tab.at = "signin", events = <<>>, calls = <<>> PROVE ~attached
    BY DEF DebuggerEnds, SignInIsLetGo, PageInv
  <2>1. Len(events) = 0 /\ Len(calls) = 0
    OBVIOUS
  <2> QED
    BY <2>1 DEF PageInv, SignInSound, AtSignIn, Word, EndsDetached
<1> QED
  BY <1>1, PageInvariant, PTL

-----------------------------------------------------------------------------
(* The ledger of ages.                                                     *)

Ids == DOMAIN info
KnownTab == [u : Addresses, birth : Nat, seen : Nat, was : Nat]

TabsAreKnown ==
  /\ Ids = 1..Cardinality(Ids) /\ Cardinality(Ids) \in 0..MaxTabs
  /\ info \in [Ids -> KnownTab]
  /\ \A t \in Ids : /\ info[t].seen <= now
                    /\ info[t].was # 0 => info[t].was \in Ids /\ info[t].birth = info[info[t].was].birth

(* A tab is in one place.                                                  *)
OnePlace(st) ==
  \A s, r \in Slots : \A i \in DOMAIN st[s], j \in DOMAIN st[r] : st[s][i] = st[r][j] => s = r /\ i = j

StripSound == strip \in [Slots -> Seq(Ids)] /\ OnePlace(strip)

WindowsSound ==
  /\ windows \in [Slots -> Nat]
  /\ (windows[1] # 0 /\ windows[1] # windows[2]) \/ (windows[1] = 0 /\ windows[2] = 0 /\ back # <<>>)
  /\ back \in Seq([slot : Slots, tabs : Seq(Ids)])

(* A ledger whose ages came by their addresses.                            *)
LedgerEntry == [w : Nat, i : Nat, u : Addresses, at : Nat]
Good(l) ==
  /\ DOMAIN l \subseteq Ids /\ l \in [DOMAIN l -> LedgerEntry]
  /\ \A t \in DOMAIN l : <<l[t].u, l[t].at>> \in heard /\ <<info[t].u, l[t].at>> \in heard

CreatedSound(e) ==
  /\ e.tab \in Ids /\ e.seen \in Nat /\ e.seen <= now /\ e.pos \in [w : Nat, i : Nat, u : Addresses]
  /\ now <= e.seen => {<<e.pos.u, now>>, <<info[e.tab].u, now>>} \subseteq heard

RemovedSound(e) == e.closing \in BOOLEAN /\ (~e.closing => e.tab \in Ids \ Open)

EventSound(e) ==
  /\ e.do \in {"created", "removed", "refresh", "start"}
  /\ e.do = "created" => CreatedSound(e)
  /\ e.do = "removed" => RemovedSound(e)

TabUpdate ==
  [do : {"created"}, tab : Ids, pos : [w : Nat, i : Nat, u : Addresses], seen : Nat]
  \cup [do : {"removed"}, tab : Ids, closing : BOOLEAN] \cup [do : {"refresh", "start"}]

ChainSound == chain \in Seq(TabUpdate) /\ \A e \in ToSet(chain) : EventSound(e)

KeepsAges(l, S) == \A t \in S \cap Open : t \in DOMAIN l /\ l[t].at = info[t].birth

WritingSound ==
  /\ writing.on \in BOOLEAN
  /\ writing.on => /\ keyed /\ Good(writing.to) /\ writing.rekey \in BOOLEAN /\ writing.owes \subseteq Ids
                   /\ KeepsAges(writing.to, IF writing.rekey THEN writing.owes ELSE owed)

-----------------------------------------------------------------------------
LEMMA PlaceOf ==
    ASSUME StripSound, NEW s \in Slots, NEW i \in DOMAIN strip[s]
    PROVE  /\ strip[s][i] \in Open /\ SlotOf(strip[s][i]) = s /\ IndexOf(strip[s][i]) = i
           /\ i \in Nat /\ i > 0
<1> DEFINE t == strip[s][i]
<1>1. strip[s] \in Seq(Ids) /\ DOMAIN strip[s] = 1..Len(strip[s]) /\ Len(strip[s]) \in Nat
  BY DEF StripSound
<1>2. i \in Nat /\ i > 0
  BY <1>1
<1>3. t \in ToSet(strip[s]) /\ \A r \in Slots : t \in ToSet(strip[r]) => r = s
  BY DEF ToSet, StripSound, OnePlace
<1>4. SlotOf(t) = s
  BY <1>3 DEF SlotOf
<1>5. t \in Open
  BY <1>3 DEF Open
<1>6. {j \in 1..Len(strip[s]) : strip[s][j] = t} = {i}
  BY <1>1 DEF StripSound, OnePlace
<1>7. Min({i}) = i
  BY <1>2, LeastOf
<1>8. IndexOf(t) = i
  BY <1>4, <1>6, <1>7 DEF IndexOf, SelectInSeq
<1> QED
  BY <1>2, <1>4, <1>5, <1>8

LEMMA OpenPlace ==
    ASSUME StripSound, NEW t \in Open
    PROVE  /\ t \in Ids /\ SlotOf(t) \in Slots /\ IndexOf(t) \in DOMAIN strip[SlotOf(t)]
           /\ strip[SlotOf(t)][IndexOf(t)] = t
           /\ IndexOf(t) \in Nat /\ IndexOf(t) > 0
<1>1. PICK s \in Slots : t \in ToSet(strip[s])
  BY DEF Open
<1>2. PICK i \in DOMAIN strip[s] : strip[s][i] = t
  BY <1>1 DEF ToSet
<1>3. strip[s] \in Seq(Ids)
  BY DEF StripSound
<1>4. t \in Ids
  BY <1>2, <1>3
<1>5. SlotOf(t) = s /\ IndexOf(t) = i /\ i \in Nat /\ i > 0
  BY <1>2, PlaceOf
<1> QED
  BY <1>2, <1>4, <1>5

LEMMA SamePlace ==
    ASSUME StripSound, NEW t \in Open, NEW x \in Open, SlotOf(t) = SlotOf(x), IndexOf(t) = IndexOf(x)
    PROVE  t = x
  BY OpenPlace

LEMMA PositionIs ==
    ASSUME StripSound, WindowsSound, TabsAreKnown, NEW t \in Open
    PROVE  /\ Position(t) \in [w : Nat, i : Nat, u : Addresses]
           /\ Position(t).w = windows[SlotOf(t)] /\ Position(t).i = IndexOf(t) /\ Position(t).u = info[t].u
           /\ info[t].u \in Addresses
<1>1. t \in Ids /\ SlotOf(t) \in Slots /\ IndexOf(t) \in Nat
  BY OpenPlace
<1>2. info[t].u \in Addresses
  BY <1>1 DEF TabsAreKnown, KnownTab
<1>3. windows[SlotOf(t)] \in Nat
  BY <1>1 DEF WindowsSound
<1> QED
  BY <1>1, <1>2, <1>3 DEF Position

-----------------------------------------------------------------------------
(* What a re-key carries.                                                  *)

LEMMA IdsAreNumbers ==
    ASSUME TabsAreKnown
    PROVE  /\ Ids \subseteq Nat /\ IsFiniteSet(Ids) /\ MaxTabs \in Nat /\ Cardinality(Ids) <= MaxTabs
           /\ \A t \in Ids : t > 0 /\ t <= MaxTabs
<1>1. Cardinality(Ids) \in Nat /\ Cardinality(Ids) <= MaxTabs /\ MaxTabs \in Nat
  BY AgesAssumption DEF TabsAreKnown
<1>2. Ids = 1..Cardinality(Ids)
  BY DEF TabsAreKnown
<1>3. IsFiniteSet(Ids)
  BY <1>1, <1>2, FS_Interval
<1> QED
  BY <1>1, <1>2, <1>3

LEMMA ExactIsThere ==
    ASSUME TabsAreKnown, NEW l, NEW t, NEW olds, olds \subseteq Ids, MatchExact(l, t, olds) <= MaxTabs
    PROVE  LET o == MatchExact(l, t, olds) IN o \in olds /\ l[o].i = Position(t).i /\ l[o].u = info[t].u
<1> DEFINE S == {o \in olds : l[o].i = Position(t).i /\ l[o].u = info[t].u} \cup {MaxTabs + 1}
<1>1. S \subseteq Nat /\ S # {} /\ MaxTabs \in Nat
  BY IdsAreNumbers
<1>2. MatchExact(l, t, olds) = Min(S)
  BY DEF MatchExact
<1> HIDE DEF S
<1>3. Min(S) \in S
  BY <1>1, LeastOf
<1>4. Min(S) <= MaxTabs
  BY <1>2
<1> USE DEF S
<1>5. Min(S) # MaxTabs + 1
  BY <1>1, <1>4
<1> QED
  BY <1>2, <1>3, <1>5

LEMMA UniqueIsThere ==
    ASSUME TabsAreKnown, NEW l, NEW t, NEW olds, olds \subseteq Ids, NEW taken, NEW rest,
           MatchUnique(l, t, olds, taken, rest) <= MaxTabs
    PROVE  LET o == MatchUnique(l, t, olds, taken, rest) IN o \in olds /\ l[o].u = info[t].u
<1> DEFINE S == {o \in olds \ taken : l[o].u = info[t].u}
<1>1. S \subseteq Nat /\ MaxTabs \in Nat
  BY IdsAreNumbers
<1>2. Cardinality(S) = 1 /\ MatchUnique(l, t, olds, taken, rest) = Min(S)
  BY <1>1 DEF MatchUnique
<1> HIDE DEF S
<1>3. S # {}
  BY <1>2, FS_EmptySet
<1>4. Min(S) \in S
  BY <1>1, <1>3, LeastOf
<1> USE DEF S
<1> QED
  BY <1>2, <1>4

(* The old id of each tab of a window, above MaxTabs where there is none.  *)
From(l, olds, news) ==
  LET exact == [t \in news |-> MatchExact(l, t, olds)]
      taken == {exact[t] : t \in news}
      rest == {t \in news : exact[t] > MaxTabs}
  IN [t \in news |-> IF t \in rest THEN MatchUnique(l, t, olds, taken, rest) ELSE exact[t]]

LEMMA CarryPairIs ==
    ASSUME NEW l, NEW olds, NEW news
    PROVE  CarryPair(l, olds, news) = {<<t, From(l, olds, news)[t]>> : t \in {x \in news : From(l, olds, news)[x] <= MaxTabs}}
  BY DEF CarryPair, From

LEMMA FromIsThere ==
    ASSUME TabsAreKnown, NEW l, NEW olds, olds \subseteq Ids, NEW news, NEW t \in news,
           From(l, olds, news)[t] <= MaxTabs
    PROVE  LET o == From(l, olds, news)[t] IN o \in olds /\ l[o].u = info[t].u
<1> DEFINE exact == [x \in news |-> MatchExact(l, x, olds)]
           taken == {exact[x] : x \in news}
           rest == {x \in news : exact[x] > MaxTabs}
<1>1. From(l, olds, news)[t] = IF t \in rest THEN MatchUnique(l, t, olds, taken, rest) ELSE exact[t]
  BY DEF From
<1>2. CASE t \in rest
  <2>1. From(l, olds, news)[t] = MatchUnique(l, t, olds, taken, rest)
    BY <1>1, <1>2
  <2> HIDE DEF rest, taken
  <2> QED
    BY <2>1, UniqueIsThere
<1>3. CASE t \notin rest
  <2>1. From(l, olds, news)[t] = MatchExact(l, t, olds)
    BY <1>1, <1>3
  <2> QED
    BY <2>1, ExactIsThere
<1> QED
  BY <1>2, <1>3

LEMMA CarriedOver ==
    ASSUME TabsAreKnown, NEW l, NEW olds, olds \subseteq Ids, NEW news, NEW c \in CarryPair(l, olds, news)
    PROVE  c = <<c[1], c[2]>> /\ c[1] \in news /\ c[2] \in olds /\ l[c[2]].u = info[c[1]].u
<1>1. PICK t \in news : From(l, olds, news)[t] <= MaxTabs /\ c = <<t, From(l, olds, news)[t]>>
  BY CarryPairIs
<1>2. From(l, olds, news)[t] \in olds /\ l[From(l, olds, news)[t]].u = info[t].u
  BY <1>1, FromIsThere
<1> QED
  BY <1>1, <1>2

(* The parts of RekeyLedger.                                               *)
SameOf(l) == {t \in DOMAIN l \cap Open : l[t].u = info[t].u}
OldsOf(l) == DOMAIN l \ SameOf(l)
NewsOf(l) == Open \ SameOf(l)
OfPair(l, p) == CarryPair(l, {o \in OldsOf(l) : l[o].w = p[1]}, {t \in NewsOf(l) : Position(t).w = p[2]})
KeptOf(l, m) == {<<t, t>> : t \in SameOf(l)} \cup UNION {OfPair(l, p) : p \in m}
NextOf(l, k) == [t \in {c[1] : c \in k} |-> Entry(Position(t), l[(CHOOSE c \in k : c[1] = t)[2]].at)]

LEMMA RekeyLedgerIs ==
    ASSUME NEW l
    PROVE  RekeyLedger(l) = {NextOf(l, KeptOf(l, m)) : m \in Pairings(l, OldsOf(l), NewsOf(l))}
  BY DEF RekeyLedger, NextOf, KeptOf, OfPair, NewsOf, OldsOf, SameOf

LEMMA KeptIsThere ==
    ASSUME TabsAreKnown, NEW l, DOMAIN l \subseteq Ids, NEW m, NEW c \in KeptOf(l, m)
    PROVE  c[1] \in Open /\ c[2] \in DOMAIN l /\ l[c[2]].u = info[c[1]].u
<1>1. CASE \E t \in SameOf(l) : c = <<t, t>>
  BY <1>1 DEF SameOf
<1>2. CASE \E p \in m : c \in OfPair(l, p)
  <2>1. PICK p \in m : c \in OfPair(l, p)
    BY <1>2
  <2> DEFINE olds == {o \in OldsOf(l) : l[o].w = p[1]}
             news == {t \in NewsOf(l) : Position(t).w = p[2]}
  <2>2. c \in CarryPair(l, olds, news) /\ olds \subseteq DOMAIN l /\ news \subseteq Open
    BY <2>1 DEF OfPair, OldsOf, NewsOf
  <2> HIDE DEF olds, news
  <2>3. c[1] \in news /\ c[2] \in olds /\ l[c[2]].u = info[c[1]].u
    BY <2>2, CarriedOver
  <2> QED
    BY <2>2, <2>3
<1> QED
  BY <1>1, <1>2 DEF KeptOf

LEMMA RekeyIsGood ==
    ASSUME TabsAreKnown, StripSound, WindowsSound, NEW l, Good(l), NEW r \in RekeyLedger(l)
    PROVE  Good(r)
<1>1. PICK m : r = NextOf(l, KeptOf(l, m))
  BY RekeyLedgerIs
<1> DEFINE k == KeptOf(l, m)
<1>2. \A c \in k : c[1] \in Open /\ c[2] \in DOMAIN l /\ l[c[2]].u = info[c[1]].u
  BY KeptIsThere DEF Good
<1> HIDE DEF k
<1>3. DOMAIN r = {c[1] : c \in k} /\ r = [t \in DOMAIN r |-> Entry(Position(t), l[(CHOOSE c \in k : c[1] = t)[2]].at)]
  BY <1>1 DEF NextOf, k
<1>4. DOMAIN r \subseteq Open /\ Open \subseteq Ids
  BY <1>2, <1>3, OpenPlace
<1>5. ASSUME NEW t \in DOMAIN r
      PROVE  r[t] \in LedgerEntry /\ <<r[t].u, r[t].at>> \in heard /\ <<info[t].u, r[t].at>> \in heard
  <2> DEFINE c == CHOOSE c \in k : c[1] = t
  <2>1. c \in k /\ c[1] = t
    BY <1>3
  <2>2. t \in Open /\ c[2] \in DOMAIN l /\ l[c[2]].u = info[t].u
    BY <1>2, <2>1
  <2>3. r[t] = Entry(Position(t), l[c[2]].at)
    BY <1>3
  <2> HIDE DEF c
  <2>4. l[c[2]] \in LedgerEntry /\ <<info[t].u, l[c[2]].at>> \in heard
    BY <2>2 DEF Good
  <2>5. Position(t) \in [w : Nat, i : Nat, u : Addresses] /\ Position(t).u = info[t].u
    BY <2>2, PositionIs
  <2> QED
    BY <2>3, <2>4, <2>5 DEF Entry, LedgerEntry
<1>6. r \in [DOMAIN r -> LedgerEntry]
  BY <1>3, <1>5
<1> QED
  BY <1>4, <1>5, <1>6 DEF Good

-----------------------------------------------------------------------------
(* An update.                                                              *)

LEMMA StampedIs ==
    ASSUME NEW l, NEW e, NEW x, e.tab \notin DOMAIN l, x = Joined(l, Stamp(e))
    PROVE  /\ DOMAIN x = DOMAIN l \cup {e.tab} /\ x = [t \in DOMAIN x |-> x[t]]
           /\ x[e.tab] = Entry(e.pos, now) /\ \A t \in DOMAIN l : x[t] = l[t]
  BY DEF Stamp, Joined

LEMMA RecordIsGood ==
    ASSUME TabsAreKnown, now \in Nat, NEW e, CreatedSound(e), NEW l, Good(l)
    PROVE  Good(RecordOpened(l, e))
<1> DEFINE x == Joined(l, Stamp(e))
<1>1. CASE e.tab \in DOMAIN l \/ now > e.seen
  BY <1>1 DEF RecordOpened
<1>2. CASE e.tab \notin DOMAIN l /\ ~(now > e.seen)
  <2>1. RecordOpened(l, e) = x
    BY <1>2 DEF RecordOpened
  <2>0. x = Joined(l, Stamp(e))
    OBVIOUS
  <2> HIDE DEF x
  <2>2. /\ DOMAIN x = DOMAIN l \cup {e.tab} /\ x = [t \in DOMAIN x |-> x[t]]
        /\ x[e.tab] = Entry(e.pos, now) /\ \A t \in DOMAIN l : x[t] = l[t]
    BY <1>2, <2>0, StampedIs DEF Good
  <2>3. x[e.tab] \in LedgerEntry /\ <<x[e.tab].u, x[e.tab].at>> \in heard /\ <<info[e.tab].u, x[e.tab].at>> \in heard
    BY <1>2, <2>2 DEF CreatedSound, Entry, LedgerEntry
  <2>4. \A t \in DOMAIN l : x[t] \in LedgerEntry /\ <<x[t].u, x[t].at>> \in heard /\ <<info[t].u, x[t].at>> \in heard
    BY <2>2 DEF Good
  <2>5. DOMAIN x \subseteq Ids
    BY <2>2 DEF Good, CreatedSound
  <2>6. Good(x)
    BY <2>2, <2>3, <2>4, <2>5 DEF Good
  <2> QED
    BY <2>1, <2>6
<1> QED
  BY <1>1, <1>2

LEMMA PartIsGood ==
    ASSUME NEW l, Good(l), NEW S
    PROVE  Good([t \in DOMAIN l \cap S |-> l[t]])
  BY DEF Good

LEMMA RefreshIsGood ==
    ASSUME TabsAreKnown, StripSound, WindowsSound, NEW l, Good(l)
    PROVE  Good(RefreshPositions(l))
<1> DEFINE x == RefreshPositions(l)
<1>1. /\ DOMAIN x = DOMAIN l /\ x = [t \in DOMAIN l |-> x[t]]
      /\ \A t \in DOMAIN l : x[t] = IF t \in Open THEN Entry(Position(t), l[t].at) ELSE l[t]
  BY DEF RefreshPositions
<1> HIDE DEF x
<1>2. ASSUME NEW t \in DOMAIN l
      PROVE  x[t] \in LedgerEntry /\ <<x[t].u, x[t].at>> \in heard /\ <<info[t].u, x[t].at>> \in heard
  <2>1. l[t] \in LedgerEntry /\ <<l[t].u, l[t].at>> \in heard /\ <<info[t].u, l[t].at>> \in heard
    BY DEF Good
  <2>2. CASE t \notin Open
    BY <1>1, <2>1, <2>2
  <2>3. CASE t \in Open
    <3>1. x[t] = Entry(Position(t), l[t].at)
      BY <1>1, <2>3
    <3>2. Position(t) \in [w : Nat, i : Nat, u : Addresses] /\ Position(t).u = info[t].u
      BY <2>3, PositionIs
    <3> QED
      BY <2>1, <3>1, <3>2 DEF Entry, LedgerEntry
  <2> QED
    BY <2>2, <2>3
<1>3. DOMAIN x \subseteq Ids
  BY <1>1 DEF Good
<1>4. x \in [DOMAIN x -> LedgerEntry]
  BY <1>1, <1>2
<1>5. Good(x)
  BY <1>1, <1>2, <1>3, <1>4 DEF Good
<1> QED
  BY <1>5 DEF x

LEMMA ApplyIsGood ==
    ASSUME TabsAreKnown, StripSound, WindowsSound, now \in Nat, NEW e, EventSound(e), NEW l, Good(l)
    PROVE  Good(ApplyUpdate(l, e))
<1>1. CASE e.do = "created"
  BY <1>1, RecordIsGood DEF ApplyUpdate, EventSound
<1>2. CASE e.do = "removed"
  <2>1. ApplyUpdate(l, e) = ForgetTab(l, e)
    BY <1>2 DEF ApplyUpdate
  <2>2. [t \in DOMAIN l \ {e.tab} |-> l[t]] = [t \in DOMAIN l \cap (DOMAIN l \ {e.tab}) |-> l[t]]
    OBVIOUS
  <2> QED
    BY <2>1, <2>2, PartIsGood DEF ForgetTab
<1>3. CASE e.do = "refresh"
  <2> DEFINE x == RefreshPositions(l)
  <2>1. ApplyUpdate(l, e) \in {x, PruneClosed(x)}
    BY <1>3 DEF ApplyUpdate
  <2>2. Good(x)
    BY RefreshIsGood
  <2> HIDE DEF x
  <2>3. Good(PruneClosed(x))
    BY <2>2, PartIsGood DEF PruneClosed
  <2> QED
    BY <2>1, <2>2, <2>3
<1>4. CASE e.do = "start"
  BY <1>4 DEF ApplyUpdate
<1> QED
  BY <1>1, <1>2, <1>3, <1>4 DEF EventSound

LEMMA ApplyKeeps ==
    ASSUME NEW e, EventSound(e), NEW l, DOMAIN l \subseteq Ids, NEW S, KeepsAges(l, S)
    PROVE  KeepsAges(ApplyUpdate(l, e), S)
<1>1. CASE e.do = "created"
  <2>1. ApplyUpdate(l, e) = RecordOpened(l, e)
    BY <1>1 DEF ApplyUpdate
  <2>2. CASE e.tab \in DOMAIN l \/ now > e.seen
    BY <2>1, <2>2 DEF RecordOpened
  <2>3. CASE e.tab \notin DOMAIN l /\ ~(now > e.seen)
    <3> DEFINE x == Joined(l, Stamp(e))
    <3>0. x = Joined(l, Stamp(e)) /\ ApplyUpdate(l, e) = x
      BY <2>1, <2>3 DEF RecordOpened
    <3> HIDE DEF x
    <3>1. DOMAIN x = DOMAIN l \cup {e.tab} /\ \A t \in DOMAIN l : x[t] = l[t]
      BY <2>3, <3>0 DEF Joined, Stamp
    <3>2. ApplyUpdate(l, e) = x
      BY <3>0
    <3> QED
      BY <3>1, <3>2 DEF KeepsAges
  <2> QED
    BY <2>2, <2>3
<1>2. CASE e.do = "removed"
  <2>1. ApplyUpdate(l, e) = ForgetTab(l, e)
    BY <1>2 DEF ApplyUpdate
  <2>2. e.closing \/ e.tab \notin Open
    BY <1>2 DEF EventSound, RemovedSound
  <2> QED
    BY <2>1, <2>2 DEF ForgetTab, KeepsAges
<1>3. CASE e.do = "refresh"
  <2> DEFINE x == RefreshPositions(l)
  <2>1. ApplyUpdate(l, e) \in {x, PruneClosed(x)}
    BY <1>3 DEF ApplyUpdate
  <2>2. DOMAIN x = DOMAIN l /\ \A t \in DOMAIN l : x[t].at = l[t].at
    BY DEF RefreshPositions, Entry
  <2> HIDE DEF x
  <2>3. KeepsAges(x, S)
    BY <2>2 DEF KeepsAges
  <2>4. KeepsAges(PruneClosed(x), S)
    BY <2>3 DEF KeepsAges, PruneClosed
  <2> QED
    BY <2>1, <2>3, <2>4
<1>4. CASE e.do = "start"
  BY <1>4 DEF ApplyUpdate
<1> QED
  BY <1>1, <1>2, <1>3, <1>4 DEF EventSound

-----------------------------------------------------------------------------
(* The re-key of a browser that brought everything back.                   *)

(* What the ledger says of the tabs that were open when the browser quit.  *)
SavedSound(l) ==
  /\ DOMAIN l = DOMAIN saved /\ DOMAIN saved \subseteq Ids /\ DOMAIN saved \cap Open = {}
  /\ \A o \in DOMAIN saved : l[o].i = saved[o].i /\ l[o].u = saved[o].u /\ l[o].at = info[o].birth
  /\ \A o, x \in DOMAIN saved : l[o].w = l[x].w <=> saved[o].s = saved[x].s

Old(t) == info[t].was

(* Each entry has the one tab that it is of.                               *)
Matched(l) ==
  /\ \A t \in Open : /\ Old(t) \in DOMAIN l /\ l[Old(t)].i = Position(t).i /\ l[Old(t)].u = info[t].u
                     /\ l[Old(t)].at = info[t].birth
  /\ \A t, x \in Open : l[Old(t)].w = l[Old(x)].w <=> Position(t).w = Position(x).w
  /\ \A t, x \in Open : Position(t).w = Position(x).w /\ Position(t).i = Position(x).i => t = x
  /\ \A o \in DOMAIN l : \E t \in Open : o = Old(t)
  /\ DOMAIN l \cap Open = {}

LEMMA TidyIsMatched ==
    ASSUME TabsAreKnown, StripSound, WindowsSound, NEW l, SavedSound(l), Tidy
    PROVE  Matched(l)
<1>1. \A t, x \in Open : windows[SlotOf(t)] = windows[SlotOf(x)] <=> SlotOf(t) = SlotOf(x)
  <2>1. windows[1] # windows[2]
    <3>1. back = <<>>
      BY DEF Tidy
    <3> QED
      BY <3>1 DEF WindowsSound
  <2>2. \A t \in Open : SlotOf(t) \in {1, 2}
    BY OpenPlace DEF Slots
  <2> QED
    BY <2>1, <2>2
<1>2. ASSUME NEW t \in Open
      PROVE  /\ Old(t) \in DOMAIN saved /\ saved[Old(t)] = [s |-> SlotOf(t), i |-> IndexOf(t), u |-> info[t].u]
             /\ info[t].birth = info[Old(t)].birth
  <2>1. Old(t) \in DOMAIN saved /\ saved[Old(t)] = [s |-> SlotOf(t), i |-> IndexOf(t), u |-> info[t].u]
    BY DEF Tidy, Old
  <2>2. Old(t) \in Ids /\ t \in Ids
    BY <2>1, OpenPlace DEF SavedSound
  <2>3. Old(t) # 0
    BY <2>2, IdsAreNumbers
  <2> QED
    BY <2>1, <2>2, <2>3 DEF TabsAreKnown, Old
<1>3. ASSUME NEW t \in Open
      PROVE  /\ Old(t) \in DOMAIN l /\ l[Old(t)].i = Position(t).i /\ l[Old(t)].u = info[t].u
             /\ l[Old(t)].at = info[t].birth /\ saved[Old(t)].s = SlotOf(t)
  <2>1. saved[Old(t)].i = IndexOf(t) /\ saved[Old(t)].u = info[t].u /\ saved[Old(t)].s = SlotOf(t)
    <3>1. saved[Old(t)] = [s |-> SlotOf(t), i |-> IndexOf(t), u |-> info[t].u]
      BY <1>2
    <3> QED
      BY ONLY <3>1
  <2>2. /\ Old(t) \in DOMAIN l /\ l[Old(t)].i = saved[Old(t)].i /\ l[Old(t)].u = saved[Old(t)].u
        /\ l[Old(t)].at = info[Old(t)].birth
    BY <1>2 DEF SavedSound
  <2>3. Position(t).i = IndexOf(t)
    BY PositionIs
  <2> QED
    BY <1>2, <2>1, <2>2, <2>3
<1>4. \A t, x \in Open : l[Old(t)].w = l[Old(x)].w <=> Position(t).w = Position(x).w
  BY <1>1, <1>2, <1>3, PositionIs DEF SavedSound
<1>5. \A t, x \in Open : Position(t).w = Position(x).w /\ Position(t).i = Position(x).i => t = x
  BY <1>1, PositionIs, SamePlace
<1>6. \A o \in DOMAIN l : \E t \in Open : o = Old(t)
  BY DEF Tidy, SavedSound, Old
<1>7. DOMAIN l \cap Open = {}
  BY DEF SavedSound
<1> QED
  BY <1>3, <1>4, <1>5, <1>6, <1>7 DEF Matched

(* The parts of Pairings, for all entries and all tabs.                    *)
IdsIn(l, w) == {o \in DOMAIN l : l[o].w = w}
In(w) == {t \in Open : Position(t).w = w}
ExactOf(l, p) == {o \in IdsIn(l, p[1]) : \E t \in In(p[2]) : Position(t).i = l[o].i /\ info[t].u = l[o].u}
CommonOf(l, p) == {o \in IdsIn(l, p[1]) : \E t \in In(p[2]) : info[t].u = l[o].u}
ScoreOf(l, p) == Cardinality(ExactOf(l, p)) * (MaxTabs + 1) + Cardinality(CommonOf(l, p))
PairsOf(l) == {p \in {l[o].w : o \in DOMAIN l} \X {Position(t).w : t \in Open} : Cardinality(CommonOf(l, p)) > 0}
Clash(p, q) == p # q /\ (p[1] = q[1] \/ p[2] = q[2])

LEMMA PairingIs ==
    ASSUME NEW l, NEW m \in Pairings(l, DOMAIN l, Open)
    PROVE  /\ m \subseteq PairsOf(l)
           /\ \A p, q \in m : ~Clash(p, q)
           /\ \A q \in PairsOf(l) \ m : \E p \in m : Clash(p, q) /\ ScoreOf(l, p) >= ScoreOf(l, q)
  BY DEF Pairings, IdsIn, In, ExactOf, CommonOf, ScoreOf, PairsOf, Clash

LEMMA PartOfIds ==
    ASSUME TabsAreKnown, NEW S, S \subseteq Ids
    PROVE  IsFiniteSet(S) /\ Cardinality(S) \in 0..MaxTabs
<1>1. IsFiniteSet(Ids) /\ Cardinality(Ids) \in Nat /\ Cardinality(Ids) <= MaxTabs /\ MaxTabs \in Nat
  BY IdsAreNumbers, FS_CardinalityType
<1>2. IsFiniteSet(S) /\ Cardinality(S) <= Cardinality(Ids)
  BY <1>1, FS_Subset
<1>3. Cardinality(S) \in Nat
  BY <1>2, FS_CardinalityType
<1> QED
  BY <1>1, <1>2, <1>3

LEMMA FewerExact ==
    ASSUME NEW k \in Nat, NEW e \in Nat, NEW f \in Nat, e < f, NEW c \in 0..k, NEW d \in Nat
    PROVE  e * (k + 1) + c < f * (k + 1) + d
<1>1. PICK g \in Nat : f = e + 1 + g
  <2>1. f - (e + 1) \in Nat
    OBVIOUS
  <2> QED
    BY <2>1
<1>2. f * (k + 1) = e * (k + 1) + (k + 1) + g * (k + 1)
  BY <1>1
<1>3. g * (k + 1) \in Nat /\ e * (k + 1) \in Nat
  OBVIOUS
<1> QED
  BY <1>2, <1>3

(* The pair of a tab's windows beats every pair it clashes with.           *)
OwnPair(l, t) == <<l[Old(t)].w, Position(t).w>>

LEMMA SmallerWithout ==
    ASSUME NEW S, NEW T, IsFiniteSet(T), S \subseteq T, NEW x \in T, x \notin S
    PROVE  Cardinality(S) < Cardinality(T) /\ Cardinality(S) \in Nat /\ Cardinality(T) \in Nat
<1>1. IsFiniteSet(S) /\ Cardinality(S) <= Cardinality(T) /\ Cardinality(S) # Cardinality(T)
  BY FS_Subset
<1>2. Cardinality(S) \in Nat /\ Cardinality(T) \in Nat
  BY <1>1, FS_CardinalityType
<1> QED
  BY <1>1, <1>2

LEMMA OwnIsExact ==
    ASSUME NEW l, Matched(l), NEW t \in Open
    PROVE  /\ ExactOf(l, OwnPair(l, t)) = IdsIn(l, l[Old(t)].w) /\ Old(t) \in IdsIn(l, l[Old(t)].w)
           /\ Old(t) \in CommonOf(l, OwnPair(l, t))
<1>1. Old(t) \in IdsIn(l, l[Old(t)].w)
  BY DEF Matched, IdsIn
<1>2. ASSUME NEW o \in IdsIn(l, l[Old(t)].w)
      PROVE  o \in ExactOf(l, OwnPair(l, t))
  <2>1. PICK x \in Open : o = Old(x)
    BY DEF Matched, IdsIn
  <2>2. x \in In(Position(t).w)
    BY <2>1 DEF Matched, IdsIn, In
  <2>3. Position(x).i = l[o].i /\ info[x].u = l[o].u
    BY <2>1 DEF Matched
  <2> QED
    BY <2>2, <2>3 DEF ExactOf, OwnPair
<1>3. ExactOf(l, OwnPair(l, t)) \subseteq IdsIn(l, l[Old(t)].w)
  BY DEF ExactOf, OwnPair
<1>4. Old(t) \in ExactOf(l, OwnPair(l, t))
  BY <1>1, <1>2
<1>5. Old(t) \in CommonOf(l, OwnPair(l, t))
  BY <1>4 DEF ExactOf, CommonOf
<1>6. ExactOf(l, OwnPair(l, t)) = IdsIn(l, l[Old(t)].w)
  BY <1>2, <1>3
<1> QED
  BY <1>1, <1>5, <1>6

LEMMA OwnBeats ==
    ASSUME TabsAreKnown, NEW l, DOMAIN l \subseteq Ids, Matched(l), NEW t \in Open, Unshared(t),
           NEW q, Clash(q, OwnPair(l, t)), q = <<q[1], q[2]>>
    PROVE  ScoreOf(l, q) < ScoreOf(l, OwnPair(l, t))
<1> DEFINE own == OwnPair(l, t)
           o == Old(t)
           all == IdsIn(l, l[o].w)
<1>1. ExactOf(l, own) = all /\ o \in all
  BY OwnIsExact
<1>2. all \subseteq Ids /\ ExactOf(l, q) \subseteq IdsIn(l, q[1]) /\ IdsIn(l, q[1]) \subseteq Ids
      /\ CommonOf(l, q) \subseteq Ids /\ CommonOf(l, own) \subseteq Ids
  BY DEF IdsIn, ExactOf, CommonOf
<1>3. IsFiniteSet(all)
  BY <1>2, PartOfIds
<1>4. own[1] = l[o].w /\ own[2] = Position(t).w
  BY DEF OwnPair
<1>5. \A x \in Open : info[x].u = info[t].u => x = t
  BY DEF Unshared
<1>6. \A x \in Open : Old(x) \in DOMAIN l /\ l[Old(x)].i = Position(x).i /\ l[Old(x)].u = info[x].u
  BY DEF Matched
<1>8. ASSUME q[2] = own[2], q[1] # own[1]
      PROVE  Cardinality(ExactOf(l, q)) < Cardinality(ExactOf(l, own))
  <2> DEFINE tabOf(a) == CHOOSE x \in In(q[2]) : Position(x).i = l[a].i /\ info[x].u = l[a].u
             f == [a \in ExactOf(l, q) |-> Old(tabOf(a))]
             S == all \ {o}
  <2>1. \A a \in ExactOf(l, q) : /\ tabOf(a) \in In(q[2]) /\ tabOf(a) \in Open
                                 /\ Position(tabOf(a)).i = l[a].i /\ info[tabOf(a)].u = l[a].u
                                 /\ a \in DOMAIN l /\ l[a].w = q[1]
    BY DEF ExactOf, In, IdsIn
  <2> HIDE DEF tabOf
  <2>2. ASSUME NEW a \in ExactOf(l, q)
        PROVE  Old(tabOf(a)) \in S
    <3>1. Old(tabOf(a)) \in all
      BY <1>4, <1>6, <1>8, <2>1 DEF Matched, IdsIn, In
    <3>2. ASSUME Old(tabOf(a)) = o PROVE FALSE
      <4>1. tabOf(a) = t
        BY <1>5, <1>6, <2>1, <3>2
      <4>2. l[a].u = info[t].u
        BY <2>1, <4>1
      <4>3. PICK y \in Open : a = Old(y)
        BY <2>1 DEF Matched
      <4>4. y = t
        BY <1>5, <1>6, <4>2, <4>3
      <4> QED
        BY <1>4, <1>8, <2>1, <4>3, <4>4
    <3> QED
      BY <3>1, <3>2
  <2>3. ASSUME NEW a \in ExactOf(l, q), NEW bb \in ExactOf(l, q), Old(tabOf(a)) = Old(tabOf(bb))
        PROVE  a = bb
    <3>1. Position(tabOf(a)).i = Position(tabOf(bb)).i
      BY <1>6, <2>1, <2>3
    <3>2. l[a].i = l[bb].i
      BY <2>1, <3>1
    <3>3. PICK y \in Open : a = Old(y)
      BY <2>1 DEF Matched
    <3>4. PICK z \in Open : bb = Old(z)
      BY <2>1 DEF Matched
    <3>5. Position(y).w = Position(z).w
      BY <2>1, <3>3, <3>4 DEF Matched
    <3>6. Position(y).i = Position(z).i
      BY <1>6, <3>2, <3>3, <3>4
    <3>7. y = z
      BY <3>5, <3>6 DEF Matched
    <3> QED
      BY <3>3, <3>4, <3>7
  <2>4. f \in Injection(ExactOf(l, q), S)
    BY <2>2, <2>3 DEF Injection, IsInjective
  <2>5. IsFiniteSet(S) /\ Cardinality(S) = Cardinality(all) - 1
    BY <1>1, <1>3, FS_RemoveElement
  <2> HIDE DEF f, S, all
  <2>6. Cardinality(ExactOf(l, q)) <= Cardinality(S) /\ IsFiniteSet(ExactOf(l, q))
    BY <2>4, <2>5, FS_Injection
  <2>7. Cardinality(ExactOf(l, q)) \in Nat /\ Cardinality(all) \in Nat
    BY <1>3, <2>6, FS_CardinalityType
  <2> QED
    BY <1>1, <2>5, <2>6, <2>7
<1>9. Cardinality(ExactOf(l, q)) < Cardinality(ExactOf(l, own))
  <2>1. CASE q[1] = own[1] /\ q[2] # own[2]
    <3>1. o \notin ExactOf(l, q)
      <4> SUFFICES ASSUME o \in ExactOf(l, q) PROVE FALSE
        OBVIOUS
      <4>1. PICK x \in In(q[2]) : info[x].u = l[o].u
        BY DEF ExactOf
      <4>2. x = t
        BY <1>5, <1>6, <4>1 DEF In
      <4> QED
        BY <1>4, <2>1, <4>1, <4>2 DEF In
    <3>2. ExactOf(l, q) \subseteq all
      BY <1>2, <1>4, <2>1
    <3> HIDE DEF all, o
    <3> QED
      BY <1>1, <1>3, <3>1, <3>2, SmallerWithout
  <2>2. CASE q[2] = own[2] /\ q[1] # own[1]
    BY <1>8, <2>2
  <2>3. (q[1] = own[1] /\ q[2] # own[2]) \/ (q[2] = own[2] /\ q[1] # own[1])
    BY DEF Clash, OwnPair
  <2> QED
    BY <2>1, <2>2, <2>3
<1>10. /\ Cardinality(ExactOf(l, q)) \in Nat /\ Cardinality(ExactOf(l, own)) \in Nat
       /\ Cardinality(CommonOf(l, q)) \in 0..MaxTabs /\ Cardinality(CommonOf(l, own)) \in Nat /\ MaxTabs \in Nat
  <2> HIDE DEF all, own
  <2>1. ExactOf(l, q) \subseteq Ids /\ ExactOf(l, own) \subseteq Ids
    BY <1>1, <1>2
  <2> QED
    BY <1>2, <2>1, PartOfIds, IdsAreNumbers
<1> HIDE DEF all, own
<1>11. ScoreOf(l, q) < ScoreOf(l, own)
  BY <1>9, <1>10, FewerExact DEF ScoreOf
<1> QED
  BY <1>11 DEF own

LEMMA OwnIsChosen ==
    ASSUME TabsAreKnown, NEW l, DOMAIN l \subseteq Ids, Matched(l), NEW t \in Open, Unshared(t),
           NEW m \in Pairings(l, DOMAIN l, Open)
    PROVE  /\ OwnPair(l, t) \in m
           /\ \A p \in m : p[2] = Position(t).w => p = OwnPair(l, t)
<1> DEFINE own == OwnPair(l, t)
<1>1. /\ m \subseteq PairsOf(l)
      /\ \A p, q \in m : ~Clash(p, q)
      /\ \A q \in PairsOf(l) \ m : \E p \in m : Clash(p, q) /\ ScoreOf(l, p) >= ScoreOf(l, q)
  BY PairingIs
<1>2. own \in PairsOf(l)
  <2>1. CommonOf(l, own) \subseteq Ids /\ CommonOf(l, own) # {}
    BY OwnIsExact DEF CommonOf, IdsIn
  <2>2. IsFiniteSet(CommonOf(l, own)) /\ Cardinality(CommonOf(l, own)) \in Nat
    BY <2>1, PartOfIds
  <2>3. Cardinality(CommonOf(l, own)) > 0
    BY <2>1, <2>2, FS_EmptySet
  <2>4. Old(t) \in DOMAIN l
    BY DEF Matched
  <2> QED
    BY <2>3, <2>4 DEF PairsOf, OwnPair
<1>3. \A p \in m : p = <<p[1], p[2]>>
  BY <1>1 DEF PairsOf
<1>4. own \in m
  <2> SUFFICES ASSUME own \notin m PROVE FALSE
    OBVIOUS
  <2>1. PICK p \in m : Clash(p, own) /\ ScoreOf(l, p) >= ScoreOf(l, own)
    BY <1>1, <1>2
  <2>2. ScoreOf(l, p) < ScoreOf(l, own)
    BY <1>3, <2>1, OwnBeats
  <2>3. ScoreOf(l, p) \in Nat /\ ScoreOf(l, own) \in Nat
    <3>1. \A q : ExactOf(l, q) \subseteq Ids /\ CommonOf(l, q) \subseteq Ids
      BY DEF ExactOf, CommonOf, IdsIn
    <3>2. \A q : Cardinality(ExactOf(l, q)) \in Nat /\ Cardinality(CommonOf(l, q)) \in Nat /\ MaxTabs \in Nat
      BY <3>1, PartOfIds, IdsAreNumbers
    <3> HIDE DEF own
    <3> QED
      BY <3>2 DEF ScoreOf
  <2> QED
    BY <2>1, <2>2, <2>3
<1>5. ASSUME NEW p \in m, p[2] = Position(t).w PROVE p = own
  BY <1>1, <1>4, <1>5 DEF Clash, OwnPair
<1> QED
  BY <1>4, <1>5

LEMMA LeastAndMore ==
    ASSUME NEW o \in Nat, NEW k \in Nat, o <= k
    PROVE  Min({o} \cup {k + 1}) = o
<1>1. {o} \cup {k + 1} \subseteq Nat
  OBVIOUS
<1>2. Min({o} \cup {k + 1}) \in {o} \cup {k + 1} /\ \A x \in {o} \cup {k + 1} : Min({o} \cup {k + 1}) <= x
  BY <1>1, LeastOf
<1> DEFINE least == Min({o} \cup {k + 1})
<1> HIDE DEF least
<1>3. least \in {o, k + 1} /\ least <= o
  BY <1>2 DEF least
<1>4. least = o
  BY <1>3
<1> QED
  BY <1>4 DEF least

LEMMA OwnCarries ==
    ASSUME TabsAreKnown, NEW l, DOMAIN l \subseteq Ids, Matched(l), NEW t \in Open,
           NEW olds, olds = IdsIn(l, l[Old(t)].w), NEW news, news = In(Position(t).w)
    PROVE  From(l, olds, news)[t] = Old(t) /\ <<t, Old(t)>> \in CarryPair(l, olds, news)
<1>1. t \in news
  BY DEF In
<1>2. {o \in olds : l[o].i = Position(t).i /\ l[o].u = info[t].u} = {Old(t)}
  <2>1. Old(t) \in olds /\ l[Old(t)].i = Position(t).i /\ l[Old(t)].u = info[t].u
    BY DEF Matched, IdsIn
  <2>2. ASSUME NEW o \in olds, l[o].i = Position(t).i PROVE o = Old(t)
    <3>1. PICK x \in Open : o = Old(x)
      BY DEF Matched, IdsIn
    <3>2. Position(x).w = Position(t).w /\ Position(x).i = Position(t).i
      BY <2>2, <3>1 DEF Matched, IdsIn
    <3> QED
      BY <3>1, <3>2 DEF Matched
  <2> QED
    BY <2>1, <2>2
<1>3. Old(t) \in Nat /\ Old(t) <= MaxTabs /\ MaxTabs \in Nat
  BY IdsAreNumbers DEF Matched
<1>4. MatchExact(l, t, olds) = Old(t)
  BY <1>2, <1>3, LeastAndMore DEF MatchExact
<1>5. ~(Old(t) > MaxTabs)
  BY <1>3
<1>6. From(l, olds, news)[t] = Old(t)
  BY <1>1, <1>4, <1>5 DEF From
<1>7. <<t, Old(t)>> \in CarryPair(l, olds, news)
  BY <1>1, <1>3, <1>6, CarryPairIs
<1> QED
  BY <1>6, <1>7

LEMMA TidyRekeyKeeps ==
    ASSUME TabsAreKnown, StripSound, WindowsSound, NEW l, DOMAIN l \subseteq Ids, SavedSound(l), Tidy,
           NEW r \in RekeyLedger(l)
    PROVE  KeepsAges(r, {t \in Open : Unshared(t)})
<1>1. Matched(l)
  BY TidyIsMatched
<1>2. SameOf(l) = {} /\ OldsOf(l) = DOMAIN l /\ NewsOf(l) = Open
  BY <1>1 DEF Matched, SameOf, OldsOf, NewsOf
<1>3. PICK m \in Pairings(l, DOMAIN l, Open) : r = NextOf(l, KeptOf(l, m))
  BY <1>2, RekeyLedgerIs
<1> DEFINE k == KeptOf(l, m)
<1>4. ASSUME NEW t \in Open, Unshared(t)
      PROVE  t \in DOMAIN r /\ r[t].at = info[t].birth
  <2> DEFINE own == OwnPair(l, t)
  <2>1. own \in m /\ \A p \in m : p[2] = Position(t).w => p = own
    BY <1>1, <1>4, OwnIsChosen
  <2>2. own[1] = l[Old(t)].w /\ own[2] = Position(t).w
    BY DEF OwnPair
  <2> HIDE DEF own
  <2>3. \A p : OfPair(l, p) = CarryPair(l, IdsIn(l, p[1]), In(p[2]))
    BY <1>2 DEF OfPair, IdsIn, In
  <2>4. <<t, Old(t)>> \in OfPair(l, own)
    BY <1>1, <2>2, <2>3, OwnCarries
  <2>5. <<t, Old(t)>> \in k
    BY <2>1, <2>4 DEF KeptOf
  <2>6. ASSUME NEW c \in k, c[1] = t PROVE c[2] = Old(t)
    <3>1. PICK p \in m : c \in OfPair(l, p)
      BY <1>2 DEF KeptOf
    <3>2. IdsIn(l, p[1]) \subseteq Ids
      BY DEF IdsIn
    <3>3. c[1] \in In(p[2])
      BY <2>3, <3>1, <3>2, CarriedOver
    <3>4. p = own
      BY <2>1, <2>6, <3>3 DEF In
    <3>5. c \in CarryPair(l, IdsIn(l, l[Old(t)].w), In(Position(t).w))
      BY <2>2, <2>3, <3>1, <3>4
    <3>6. PICK x : c = <<x, From(l, IdsIn(l, l[Old(t)].w), In(Position(t).w))[x]>>
      BY <3>5, CarryPairIs
    <3>7. c[2] = From(l, IdsIn(l, l[Old(t)].w), In(Position(t).w))[t]
      BY <2>6, <3>6
    <3> QED
      BY <1>1, <3>7, OwnCarries
  <2> DEFINE c == CHOOSE c \in k : c[1] = t
  <2>7. c \in k /\ c[1] = t
    BY <2>5
  <2>8. c[2] = Old(t)
    BY <2>6, <2>7
  <2>9. t \in DOMAIN r /\ r[t] = Entry(Position(t), l[c[2]].at)
    BY <1>3, <2>7 DEF NextOf
  <2> HIDE DEF c
  <2>10. r[t].at = l[Old(t)].at
    BY <2>8, <2>9 DEF Entry
  <2> QED
    BY <1>1, <2>9, <2>10 DEF Matched
<1> QED
  BY <1>4 DEF KeepsAges

-----------------------------------------------------------------------------
(* The invariant.                                                          *)

(* Between the quit and the start only what changes nothing is left to do. *)
IdleUpdate(e) ==
  \/ e.do = "start" \/ (e.do = "removed" /\ e.closing)
  \/ e.do = "refresh" /\ Cardinality(DOMAIN ledger) <= SoftCap

LedgerRests ==
  /\ Open = {} /\ windows[1] = 0
  /\ writing.on => ~writing.rekey /\ writing.to = ledger
  /\ refresh => Cardinality(DOMAIN ledger) <= SoftCap
  /\ \A e \in ToSet(chain) : IdleUpdate(e)

SavedLasts == DOMAIN saved # {} => SavedSound(ledger) /\ (keyed => LedgerRests)

AgesInv ==
  /\ TabsAreKnown /\ StripSound /\ WindowsSound /\ ChainSound /\ WritingSound /\ SavedLasts
  /\ Good(ledger) /\ owed \subseteq Ids /\ KeepsAges(ledger, owed)
  /\ now \in Nat /\ starts \in Nat /\ keyed \in BOOLEAN /\ refresh \in BOOLEAN

-----------------------------------------------------------------------------
(* Sequences.                                                              *)

LEMMA Queued ==
    ASSUME NEW S, NEW c \in Seq(S), NEW d \in Seq(S)
    PROVE  c \o d \in Seq(S) /\ ToSet(c \o d) = ToSet(c) \cup ToSet(d)
<1>1. c \o d \in Seq(S) /\ Len(c \o d) = Len(c) + Len(d) /\ Len(c) \in Nat /\ Len(d) \in Nat
  OBVIOUS
<1>2. \A i \in 1..Len(c) : (c \o d)[i] = c[i]
  OBVIOUS
<1>3. \A i \in 1..Len(d) : (c \o d)[Len(c) + i] = d[i]
  OBVIOUS
<1>4. \A i \in (Len(c) + 1)..(Len(c) + Len(d)) : i - Len(c) \in 1..Len(d) /\ (c \o d)[i] = d[i - Len(c)]
  BY <1>1, <1>3
<1>5. DOMAIN c = 1..Len(c) /\ DOMAIN d = 1..Len(d) /\ DOMAIN (c \o d) = 1..(Len(c) + Len(d))
  BY <1>1
<1>6. ASSUME NEW x \in ToSet(c \o d) PROVE x \in ToSet(c) \cup ToSet(d)
  <2>1. PICK i \in 1..(Len(c) + Len(d)) : x = (c \o d)[i]
    BY <1>5 DEF ToSet
  <2>2. CASE i <= Len(c)
    BY <1>1, <1>2, <1>5, <2>1, <2>2 DEF ToSet
  <2>3. CASE i > Len(c)
    BY <1>1, <1>4, <1>5, <2>1, <2>3 DEF ToSet
  <2> QED
    BY <1>1, <2>2, <2>3
<1>7. ASSUME NEW x \in ToSet(c) PROVE x \in ToSet(c \o d)
  <2>1. PICK i \in 1..Len(c) : x = c[i]
    BY <1>5 DEF ToSet
  <2>2. i \in DOMAIN (c \o d) /\ (c \o d)[i] = x
    BY <1>1, <1>2, <1>5, <2>1
  <2> QED
    BY <2>2 DEF ToSet
<1>8. ASSUME NEW x \in ToSet(d) PROVE x \in ToSet(c \o d)
  <2>1. PICK i \in 1..Len(d) : x = d[i]
    BY <1>5 DEF ToSet
  <2>2. Len(c) + i \in DOMAIN (c \o d) /\ (c \o d)[Len(c) + i] = x
    BY <1>1, <1>3, <1>5, <2>1
  <2> QED
    BY <2>2 DEF ToSet
<1> QED
  BY <1>1, <1>6, <1>7, <1>8

LEMMA FirstAndRest ==
    ASSUME NEW S, NEW c \in Seq(S), c # <<>>
    PROVE  Head(c) \in ToSet(c) /\ Tail(c) \in Seq(S) /\ ToSet(Tail(c)) \subseteq ToSet(c)
<1>1. Len(c) \in Nat /\ Len(c) > 0 /\ DOMAIN c = 1..Len(c) /\ Head(c) = c[1]
  OBVIOUS
<1>2. Tail(c) \in Seq(S) /\ DOMAIN Tail(c) = 1..(Len(c) - 1) /\ \A i \in 1..(Len(c) - 1) : Tail(c)[i] = c[i + 1]
  BY <1>1
<1>3. Head(c) \in ToSet(c)
  BY <1>1 DEF ToSet
<1>4. ToSet(Tail(c)) \subseteq ToSet(c)
  BY <1>1, <1>2 DEF ToSet
<1> QED
  BY <1>2, <1>3, <1>4

LEMMA FirstOnes ==
    ASSUME NEW S, NEW c \in Seq(S), NEW n \in 0..Len(c)
    PROVE  SubSeq(c, 1, n) \in Seq(S) /\ ToSet(SubSeq(c, 1, n)) \subseteq ToSet(c)
<1>1. Len(c) \in Nat /\ DOMAIN c = 1..Len(c)
  OBVIOUS
<1>2. SubSeq(c, 1, n) \in Seq(S) /\ DOMAIN SubSeq(c, 1, n) = 1..n /\ \A i \in 1..n : SubSeq(c, 1, n)[i] = c[i]
  BY <1>1
<1> QED
  BY <1>1, <1>2 DEF ToSet

(* A sequence without its i-th.                                            *)
LEMMA TakenOut ==
    ASSUME NEW S, NEW c \in Seq(S), NEW i \in DOMAIN c
    PROVE  /\ RemoveAt(c, i) \in Seq(S) /\ Len(RemoveAt(c, i)) = Len(c) - 1
           /\ DOMAIN RemoveAt(c, i) = 1..(Len(c) - 1)
           /\ \A j \in 1..(Len(c) - 1) : RemoveAt(c, i)[j] = IF j < i THEN c[j] ELSE c[j + 1]
<1>1. Len(c) \in Nat /\ i \in 1..Len(c)
  OBVIOUS
<1> DEFINE a == SubSeq(c, 1, i - 1)
           bb == SubSeq(c, i + 1, Len(c))
<1>2. a \in Seq(S) /\ Len(a) = i - 1 /\ \A j \in 1..(i - 1) : a[j] = c[j]
  BY <1>1
<1>3. bb \in Seq(S) /\ Len(bb) = Len(c) - i
  BY <1>1
<1>4. \A j \in 1..(Len(c) - i) : bb[j] = c[i + j]
  BY <1>1
<1> HIDE DEF a, bb
<1>5. a \o bb \in Seq(S) /\ Len(a \o bb) = Len(c) - 1
  BY <1>1, <1>2, <1>3
<1>6. DOMAIN (a \o bb) = 1..(Len(c) - 1)
  BY <1>5
<1>7. ASSUME NEW j \in 1..(Len(c) - 1)
      PROVE  (a \o bb)[j] = IF j < i THEN c[j] ELSE c[j + 1]
  <2>1. CASE j < i
    BY <1>1, <1>2, <1>3, <2>1
  <2>2. CASE ~(j < i)
    <3>1. j - (i - 1) \in 1..(Len(c) - i) /\ (a \o bb)[j] = bb[j - (i - 1)]
      BY <1>1, <1>2, <1>3, <2>2
    <3>2. bb[j - (i - 1)] = c[i + (j - (i - 1))]
      BY <1>4, <3>1
    <3>3. i + (j - (i - 1)) = j + 1
      BY <1>1
    <3> QED
      BY <2>2, <3>1, <3>2, <3>3
  <2> QED
    BY <2>1, <2>2
<1>8. RemoveAt(c, i) = a \o bb
  BY DEF RemoveAt, a, bb
<1> QED
  BY <1>5, <1>6, <1>7, <1>8

-----------------------------------------------------------------------------
(* Steps of the worker.                                                    *)

LEMMA AgesInitially == AgesInit => AgesInv
<1> SUFFICES ASSUME AgesInit PROVE AgesInv
  OBVIOUS
<1>1. PICK a \in Addresses :
        /\ strip = [s \in Slots |-> IF s = 1 THEN <<1>> ELSE <<>>]
        /\ info = [t \in {1} |-> [u |-> a, birth |-> 0, seen |-> 0, was |-> 0]]
        /\ ledger = [t \in {1} |-> [w |-> 1, i |-> 1, u |-> a, at |-> 0]]
        /\ heard = {<<a, 0>>}
  BY DEF AgesInit
<1>2. /\ windows = [s \in Slots |-> s] /\ keyed = FALSE /\ chain = <<>> /\ writing = NoWrite /\ refresh = FALSE
      /\ back = <<>> /\ now = 0 /\ starts = 0 /\ saved = <<>> /\ owed = {}
  BY DEF AgesInit
<1>3. Ids = {1} /\ Cardinality(Ids) = 1 /\ Ids = 1..1
  <2>1. Ids = {1}
    BY <1>1 DEF Ids
  <2>2. Cardinality({1}) = 1
    BY FS_Singleton
  <2>3. {1} = 1..1
    OBVIOUS
  <2> QED
    BY <2>1, <2>2, <2>3
<1>4. TabsAreKnown
  BY <1>1, <1>2, <1>3, AgesAssumption DEF TabsAreKnown, KnownTab, Ids
<1>5. StripSound
  BY <1>1, <1>3 DEF StripSound, OnePlace, Slots
<1>6. WindowsSound
  BY <1>2 DEF WindowsSound, Slots
<1>7. ChainSound
  BY <1>2 DEF ChainSound, ToSet
<1>8. WritingSound
  BY <1>2 DEF WritingSound, NoWrite
<1>9. SavedLasts
  BY <1>2 DEF SavedLasts
<1>10. Good(ledger)
  BY <1>1, <1>3 DEF Good, LedgerEntry
<1>11. KeepsAges(ledger, owed)
  BY <1>2 DEF KeepsAges
<1> QED
  BY <1>2, <1>4, <1>5, <1>6, <1>7, <1>8, <1>9, <1>10, <1>11 DEF AgesInv

(* Steps that leave the browser as it is.                                  *)
BrowserRests == UNCHANGED <<strip, info, heard, back, now>>

LEMMA BrowserKept ==
    ASSUME AgesInv, BrowserRests, windows' = windows
    PROVE  /\ TabsAreKnown' /\ StripSound' /\ WindowsSound' /\ now' \in Nat
           /\ Ids' = Ids /\ Open' = Open /\ TabUpdate' = TabUpdate
  BY DEF AgesInv, BrowserRests, TabsAreKnown, StripSound, WindowsSound, Ids, Open, TabUpdate

LEMMA UpdateKept ==
    ASSUME BrowserRests, NEW e, EventSound(e)
    PROVE  EventSound(e)'
<1>1. Ids' = Ids /\ Open' = Open
  BY DEF BrowserRests, Ids, Open
<1> QED
  BY <1>1 DEF EventSound, CreatedSound, RemovedSound, BrowserRests

LEMMA ChainShrinks ==
    ASSUME AgesInv, BrowserRests, chain' \in Seq(TabUpdate), ToSet(chain') \subseteq ToSet(chain)
    PROVE  ChainSound'
<1>1. Ids' = Ids /\ TabUpdate' = TabUpdate
  BY DEF BrowserRests, Ids, TabUpdate
<1>2. \A e \in ToSet(chain') : EventSound(e)'
  BY UpdateKept DEF AgesInv, ChainSound
<1> QED
  BY <1>1, <1>2 DEF ChainSound

LEMMA EmptyIsSound ==
    ASSUME chain' = <<>>
    PROVE  ChainSound'
  BY DEF ChainSound, ToSet

LEMMA LedgerKept ==
    ASSUME BrowserRests, NEW l
    PROVE  /\ Good(l) => Good(l)'
           /\ \A S : KeepsAges(l, S) => KeepsAges(l, S)'
<1>1. Ids' = Ids /\ Open' = Open
  BY DEF BrowserRests, Ids, Open
<1> QED
  BY <1>1 DEF Good, KeepsAges, BrowserRests

LEMMA IdleChangesNothing ==
    ASSUME TabsAreKnown, NEW e, IdleUpdate(e), EventSound(e), Open = {}, Good(ledger)
    PROVE  ApplyUpdate(ledger, e) = ledger
<1>1. CASE e.do = "start"
  BY <1>1 DEF ApplyUpdate
<1>2. CASE e.do = "removed" /\ e.closing
  BY <1>2 DEF ApplyUpdate, ForgetTab
<1>3. CASE e.do = "refresh" /\ Cardinality(DOMAIN ledger) <= SoftCap
  <2>1. RefreshPositions(ledger) = ledger
    BY DEF RefreshPositions, Good
  <2>2. ~(Cardinality(DOMAIN ledger) > SoftCap)
    BY <1>3, PartOfIds, AgesAssumption DEF Good
  <2> QED
    BY <1>3, <2>1, <2>2 DEF ApplyUpdate
<1> QED
  BY <1>1, <1>2, <1>3 DEF IdleUpdate

LEMMA WithLedgerKeeps ==
    ASSUME AgesInv, WithLedger
    PROVE  AgesInv'
<1> DEFINE e == Head(chain)
<1>1. BrowserRests /\ windows' = windows /\ ledger' = ledger /\ refresh' = refresh /\ owed' = owed
      /\ starts' = starts /\ chain # <<>> /\ ~writing.on /\ keyed' = TRUE /\ chain' = Tail(chain)
      /\ saved' = IF keyed THEN saved ELSE <<>>
  BY DEF WithLedger, BrowserRests, bounds
<1>2. PICK r \in Rekeys :
        writing' = [on |-> TRUE, to |-> ApplyUpdate(r, e), rekey |-> ~keyed,
                    owes |-> IF keyed THEN owed ELSE IF Tidy THEN {t \in Open : Unshared(t)} ELSE {}]
  BY DEF WithLedger, Updated
<1>3. e \in ToSet(chain) /\ chain' \in Seq(TabUpdate) /\ ToSet(chain') \subseteq ToSet(chain)
  BY <1>1, FirstAndRest DEF AgesInv, ChainSound
<1>4. EventSound(e)
  BY <1>3 DEF AgesInv, ChainSound
<1> HIDE DEF e
<1>5. TabsAreKnown /\ StripSound /\ WindowsSound /\ Good(ledger) /\ now \in Nat /\ keyed \in BOOLEAN
  BY DEF AgesInv
<1>6. Good(r)
  BY <1>2, <1>5, RekeyIsGood DEF Rekeys
<1>7. Good(ApplyUpdate(r, e))
  BY <1>4, <1>5, <1>6, ApplyIsGood
<1>8. KeepsAges(ApplyUpdate(r, e), IF keyed THEN owed ELSE IF Tidy THEN {t \in Open : Unshared(t)} ELSE {})
  <2>1. KeepsAges(r, IF keyed THEN owed ELSE IF Tidy THEN {t \in Open : Unshared(t)} ELSE {})
    <3>1. CASE keyed
      BY <1>2, <3>1 DEF Rekeys, AgesInv
    <3>2. CASE ~keyed /\ Tidy /\ DOMAIN saved # {}
      <4>1. SavedSound(ledger) /\ DOMAIN ledger \subseteq Ids /\ r \in RekeyLedger(ledger)
        BY <1>2, <1>5, <3>2 DEF AgesInv, SavedLasts, Rekeys, Good
      <4>2. KeepsAges(r, {t \in Open : Unshared(t)})
        BY <1>5, <3>2, <4>1, TidyRekeyKeeps
      <4> QED
        BY <3>2, <4>2
    <3>3. CASE ~keyed /\ Tidy /\ DOMAIN saved = {}
      <4>1. Open = {}
        BY <3>3 DEF Tidy
      <4> QED
        BY <4>1 DEF KeepsAges
    <3>4. CASE ~keyed /\ ~Tidy
      BY <3>4 DEF KeepsAges
    <3> QED
      BY <3>1, <3>2, <3>3, <3>4
  <2>2. DOMAIN r \subseteq Ids
    BY <1>6 DEF Good
  <2> QED
    BY <1>4, <2>1, <2>2, ApplyKeeps
<1>9. WritingSound'
  <2>1. /\ writing'.on = TRUE /\ writing'.to = ApplyUpdate(r, e) /\ writing'.rekey = ~keyed
        /\ writing'.owes = IF keyed THEN owed ELSE IF Tidy THEN {t \in Open : Unshared(t)} ELSE {}
    BY <1>2
  <2>2. writing'.owes \subseteq Ids
    BY <1>5, <2>1, OpenPlace DEF AgesInv
  <2>3. Ids' = Ids
    BY <1>1 DEF BrowserRests, Ids
  <2>4. Good(writing'.to) /\ KeepsAges(writing'.to, IF writing'.rekey THEN writing'.owes ELSE owed')
    <3>1. (IF writing'.rekey THEN writing'.owes ELSE owed') =
             IF keyed THEN owed ELSE IF Tidy THEN {t \in Open : Unshared(t)} ELSE {}
      BY <1>1, <1>5, <2>1
    <3> QED
      BY <1>7, <1>8, <2>1, <3>1
  <2>5. Open' = Open
    BY <1>1 DEF BrowserRests, Open
  <2>6. /\ DOMAIN writing'.to \subseteq Ids' /\ writing'.to \in [DOMAIN writing'.to -> LedgerEntry]
        /\ \A t \in DOMAIN writing'.to :
             <<writing'.to[t].u, writing'.to[t].at>> \in heard' /\ <<info'[t].u, writing'.to[t].at>> \in heard'
    BY <1>1, <2>3, <2>4 DEF Good, BrowserRests
  <2>7. \A t \in (IF writing'.rekey THEN writing'.owes ELSE owed') \cap Open' :
          t \in DOMAIN writing'.to /\ writing'.to[t].at = info'[t].birth
    BY <1>1, <2>4, <2>5 DEF KeepsAges, BrowserRests
  <2>8. writing'.rekey \in BOOLEAN
    BY <1>5, <2>1
  <2> QED
    BY <1>1, <2>1, <2>2, <2>3, <2>6, <2>7, <2>8 DEF WritingSound, Good, KeepsAges
<1>10. SavedLasts'
  <2>1. CASE ~keyed
    BY <1>1, <2>1 DEF SavedLasts
  <2>2. CASE keyed /\ DOMAIN saved # {}
    <3>1. SavedSound(ledger) /\ LedgerRests
      BY <2>2 DEF AgesInv, SavedLasts
    <3>2. SavedSound(ledger)'
      <4>1. Ids' = Ids /\ Open' = Open /\ saved' = saved /\ info' = info
        BY <1>1, <2>2 DEF BrowserRests, Ids, Open
      <4> QED
        BY <1>1, <3>1, <4>1 DEF SavedSound
    <3>3. writing'.to = ledger /\ ~writing'.rekey
      <4>1. r = ledger
        BY <1>2, <2>2 DEF Rekeys
      <4>2. ApplyUpdate(ledger, e) = ledger
        BY <1>3, <1>4, <1>5, <3>1, IdleChangesNothing DEF LedgerRests
      <4> QED
        BY <1>2, <2>2, <4>1, <4>2
    <3>4. Open' = Open
      BY <1>1 DEF BrowserRests, Open
    <3>5. \A x \in ToSet(chain') : IdleUpdate(x)'
      BY <1>1, <1>3, <3>1 DEF LedgerRests, IdleUpdate
    <3>6. LedgerRests'
      BY <1>1, <3>1, <3>3, <3>4, <3>5 DEF LedgerRests
    <3> QED
      BY <3>2, <3>6 DEF SavedLasts
  <2>3. CASE keyed /\ DOMAIN saved = {}
    BY <1>1, <2>3 DEF SavedLasts
  <2> QED
    BY <2>1, <2>2, <2>3
<1>11. TabsAreKnown' /\ StripSound' /\ WindowsSound' /\ now' \in Nat /\ Ids' = Ids /\ Open' = Open
  BY <1>1, BrowserKept
<1>12. ChainSound'
  BY <1>1, <1>3, ChainShrinks
<1>13. Good(ledger)' /\ KeepsAges(ledger, owed)' /\ (owed \subseteq Ids)' /\ refresh' \in BOOLEAN
  BY <1>1, <1>11 DEF AgesInv, Good, KeepsAges, BrowserRests
<1> QED
  BY <1>1, <1>9, <1>10, <1>11, <1>12, <1>13 DEF AgesInv

LEMMA LedgerStays ==
    ASSUME AgesInv, BrowserRests, ledger' = ledger, owed' = owed
    PROVE  /\ Good(ledger)' /\ KeepsAges(ledger, owed)' /\ (owed \subseteq Ids)'
           /\ SavedSound(ledger) /\ saved' = saved => SavedSound(ledger)'
<1>1. Ids' = Ids /\ Open' = Open
  BY DEF BrowserRests, Ids, Open
<1>2. Good(ledger)' /\ KeepsAges(ledger, owed)' /\ (owed \subseteq Ids)'
  BY <1>1 DEF AgesInv, BrowserRests, Good, KeepsAges
<1>3. ASSUME SavedSound(ledger), saved' = saved PROVE SavedSound(ledger)'
  BY <1>1, <1>3 DEF BrowserRests, SavedSound
<1> QED
  BY <1>2, <1>3

LEMMA WritingStays ==
    ASSUME AgesInv, BrowserRests, owed' = owed, keyed' = keyed, writing' = writing
    PROVE  WritingSound'
<1>1. Ids' = Ids /\ Open' = Open
  BY DEF BrowserRests, Ids, Open
<1> QED
  BY <1>1 DEF AgesInv, BrowserRests, WritingSound, Good, KeepsAges

LEMMA NothingWritten ==
    ASSUME writing' = NoWrite
    PROVE  WritingSound' /\ ~writing'.on
  BY DEF WritingSound, NoWrite

LEMMA WriteLedgerKeeps ==
    ASSUME AgesInv, WriteLedger
    PROVE  AgesInv'
<1>1. /\ BrowserRests /\ windows' = windows /\ refresh' = refresh /\ starts' = starts /\ keyed' = keyed
      /\ chain' = chain /\ saved' = saved
      /\ writing.on /\ ledger' = writing.to /\ writing' = NoWrite
      /\ owed' = IF writing.rekey THEN writing.owes ELSE owed
  BY DEF WriteLedger, BrowserRests, bounds
<1>2. /\ keyed /\ Good(writing.to) /\ writing.rekey \in BOOLEAN /\ writing.owes \subseteq Ids
      /\ KeepsAges(writing.to, IF writing.rekey THEN writing.owes ELSE owed)
  BY <1>1 DEF AgesInv, WritingSound
<1>3. TabsAreKnown' /\ StripSound' /\ WindowsSound' /\ now' \in Nat /\ Ids' = Ids /\ Open' = Open
  BY <1>1, BrowserKept
<1>4. ChainSound'
  BY <1>1, ChainShrinks DEF AgesInv, ChainSound
<1>5. WritingSound' /\ ~writing'.on
  BY <1>1, NothingWritten
<1>6. Good(ledger)' /\ KeepsAges(ledger, owed)' /\ (owed \subseteq Ids)'
  <2>1. Good(ledger)'
    BY <1>1, <1>2, <1>3 DEF Good, BrowserRests
  <2>2. KeepsAges(ledger, owed)'
    BY <1>1, <1>2, <1>3 DEF KeepsAges, BrowserRests
  <2>3. (owed \subseteq Ids)'
    BY <1>1, <1>2, <1>3 DEF AgesInv
  <2> QED
    BY <2>1, <2>2, <2>3
<1>7. SavedLasts'
  <2> SUFFICES ASSUME DOMAIN saved # {} PROVE SavedSound(ledger)' /\ LedgerRests'
    BY <1>1 DEF SavedLasts
  <2>1. SavedSound(ledger) /\ LedgerRests /\ ledger' = ledger
    BY <1>1, <1>2 DEF AgesInv, SavedLasts, LedgerRests
  <2>2. SavedSound(ledger)'
    BY <1>1, <1>3, <2>1 DEF SavedSound, BrowserRests
  <2>3. LedgerRests'
    BY <1>1, <1>3, <1>5, <2>1 DEF LedgerRests, IdleUpdate
  <2> QED
    BY <2>2, <2>3
<1> QED
  BY <1>1, <1>3, <1>4, <1>5, <1>6, <1>7 DEF AgesInv

LEMMA SingleIs ==
    ASSUME NEW S, NEW x \in S
    PROVE  <<x>> \in Seq(S) /\ ToSet(<<x>>) = {x}
  BY DEF ToSet

(* One more update waits, which asks nothing of a tab.                     *)
LEMMA AskedFor ==
    ASSUME AgesInv, BrowserRests, NEW do \in {"refresh", "start"}, chain' = chain \o <<[do |-> do]>>
    PROVE  ChainSound' /\ ToSet(chain') = ToSet(chain) \cup {[do |-> do]}
<1> DEFINE e == [do |-> do]
<1>1. e \in TabUpdate /\ EventSound(e)
  BY DEF TabUpdate, EventSound
<1>2. chain \in Seq(TabUpdate) /\ \A x \in ToSet(chain) : EventSound(x)
  BY DEF AgesInv, ChainSound
<1> DEFINE d == <<e>>
<1>3. d \in Seq(TabUpdate) /\ ToSet(d) = {e}
  BY <1>1, SingleIs
<1>4. chain' = chain \o d
  OBVIOUS
<1> HIDE DEF e, d
<1>5. chain' \in Seq(TabUpdate) /\ ToSet(chain') = ToSet(chain) \cup {e}
  BY <1>2, <1>3, <1>4, Queued
<1>6. TabUpdate' = TabUpdate
  BY DEF BrowserRests, TabUpdate, Ids
<1>7. \A x \in ToSet(chain') : EventSound(x)'
  BY <1>1, <1>2, <1>5, UpdateKept
<1> QED
  BY <1>5, <1>6, <1>7 DEF ChainSound, e

LEMMA EnsureAgesSessionKeeps ==
    ASSUME AgesInv, EnsureAgesSession
    PROVE  AgesInv'
<1>1. /\ BrowserRests /\ windows' = windows /\ refresh' = refresh /\ starts' = starts /\ keyed' = keyed
      /\ saved' = saved /\ ledger' = ledger /\ writing' = writing /\ owed' = owed
      /\ chain' = chain \o <<[do |-> "start"]>>
  BY DEF EnsureAgesSession, BrowserRests, bounds, agesGhosts, Queue
<1>2. TabsAreKnown' /\ StripSound' /\ WindowsSound' /\ now' \in Nat /\ Ids' = Ids /\ Open' = Open
  BY <1>1, BrowserKept
<1>3. ChainSound' /\ ToSet(chain') = ToSet(chain) \cup {[do |-> "start"]}
  BY <1>1, AskedFor
<1>4. Good(ledger)' /\ KeepsAges(ledger, owed)' /\ (owed \subseteq Ids)' /\ (SavedSound(ledger) => SavedSound(ledger)')
  BY <1>1, LedgerStays
<1>5. WritingSound'
  BY <1>1, WritingStays
<1>6. LedgerRests => LedgerRests'
  BY <1>1, <1>2, <1>3 DEF LedgerRests, IdleUpdate
<1>7. SavedLasts'
  BY <1>1, <1>4, <1>6 DEF AgesInv, SavedLasts
<1> QED
  BY <1>1, <1>2, <1>3, <1>4, <1>5, <1>7 DEF AgesInv

LEMMA RefreshTimerKeeps ==
    ASSUME AgesInv, RefreshTimer
    PROVE  AgesInv'
<1>1. /\ BrowserRests /\ windows' = windows /\ refresh /\ refresh' = FALSE /\ starts' = starts /\ keyed' = keyed
      /\ saved' = saved /\ ledger' = ledger /\ writing' = writing /\ owed' = owed
      /\ chain' = chain \o <<[do |-> "refresh"]>>
  BY DEF RefreshTimer, BrowserRests, bounds, agesGhosts, Queue
<1>2. TabsAreKnown' /\ StripSound' /\ WindowsSound' /\ now' \in Nat /\ Ids' = Ids /\ Open' = Open
  BY <1>1, BrowserKept
<1>3. ChainSound' /\ ToSet(chain') = ToSet(chain) \cup {[do |-> "refresh"]}
  BY <1>1, AskedFor
<1>4. Good(ledger)' /\ KeepsAges(ledger, owed)' /\ (owed \subseteq Ids)' /\ (SavedSound(ledger) => SavedSound(ledger)')
  BY <1>1, LedgerStays
<1>5. WritingSound'
  BY <1>1, WritingStays
<1>6. LedgerRests => LedgerRests'
  BY <1>1, <1>2, <1>3 DEF LedgerRests, IdleUpdate
<1>7. SavedLasts'
  BY <1>1, <1>4, <1>6 DEF AgesInv, SavedLasts
<1> QED
  BY <1>1, <1>2, <1>3, <1>4, <1>5, <1>7 DEF AgesInv

LEMMA TimePassesKeeps ==
    ASSUME AgesInv, TimePasses
    PROVE  AgesInv'
<1>1. /\ UNCHANGED <<strip, info, heard, back, windows, refresh, starts, keyed, saved, ledger, writing, owed, chain>>
      /\ chain = <<>> /\ ~writing.on /\ now' = now + 1
  BY DEF TimePasses, memory, agesGhosts
<1>2. Ids' = Ids /\ Open' = Open
  BY <1>1 DEF Ids, Open
<1>3. TabsAreKnown'
  <2>1. \A t \in Ids : info[t].seen \in Nat /\ info[t].seen <= now
    BY DEF AgesInv, TabsAreKnown, KnownTab
  <2>2. \A t \in Ids : info[t].seen <= now + 1
    BY <2>1 DEF AgesInv
  <2> QED
    BY <1>1, <1>2, <2>2 DEF AgesInv, TabsAreKnown
<1>4. StripSound' /\ WindowsSound' /\ Good(ledger)' /\ KeepsAges(ledger, owed)' /\ (owed \subseteq Ids)'
  BY <1>1, <1>2 DEF AgesInv, StripSound, WindowsSound, Good, KeepsAges
<1>5. ChainSound'
  BY <1>1, EmptyIsSound
<1>6. WritingSound'
  BY <1>1 DEF AgesInv, WritingSound
<1>7. SavedLasts'
  BY <1>1, <1>2 DEF AgesInv, SavedLasts, SavedSound, LedgerRests, IdleUpdate
<1>8. now' \in Nat
  BY <1>1 DEF AgesInv
<1> QED
  BY <1>1, <1>3, <1>4, <1>5, <1>6, <1>7, <1>8 DEF AgesInv

LEMMA WorkerGone ==
    ASSUME AgesInv, BrowserRests, MemoryLost, ledger' = ledger, owed' = owed, saved' = saved, starts' \in Nat,
           \/ keyed' = keyed /\ windows' = windows
           \/ keyed' = FALSE /\ WindowsSound'
    PROVE  AgesInv'
<1>1. chain' = <<>> /\ writing' = NoWrite /\ refresh' = FALSE
  BY DEF MemoryLost
<1>2. Ids' = Ids /\ Open' = Open
  BY DEF BrowserRests, Ids, Open
<1>3. TabsAreKnown' /\ StripSound' /\ now' \in Nat
  BY <1>2 DEF AgesInv, TabsAreKnown, StripSound, BrowserRests
<1>4. WindowsSound'
  BY BrowserKept
<1>5. ChainSound'
  BY <1>1, EmptyIsSound
<1>6. WritingSound' /\ ~writing'.on
  BY <1>1, NothingWritten
<1>7. Good(ledger)' /\ KeepsAges(ledger, owed)' /\ (owed \subseteq Ids)' /\ (SavedSound(ledger) => SavedSound(ledger)')
  BY LedgerStays
<1>8. LedgerRests /\ windows' = windows => LedgerRests'
  BY <1>1, <1>2, <1>6 DEF LedgerRests, ToSet
<1>9. SavedLasts'
  BY <1>7, <1>8 DEF AgesInv, SavedLasts
<1>10. keyed' \in BOOLEAN /\ refresh' \in BOOLEAN
  BY <1>1 DEF AgesInv
<1> QED
  BY <1>3, <1>4, <1>5, <1>6, <1>7, <1>9, <1>10 DEF AgesInv

LEMMA WriterDiesKeeps ==
    ASSUME AgesInv, WriterDies
    PROVE  AgesInv'
<1>1. /\ BrowserRests /\ MemoryLost /\ ledger' = ledger /\ owed' = owed /\ saved' = saved /\ starts' = starts
      /\ keyed' = keyed /\ windows' = windows
  BY DEF WriterDies, BrowserRests, agesGhosts
<1>2. starts' \in Nat
  BY <1>1 DEF AgesInv
<1> QED
  BY <1>1, <1>2, WorkerGone

LEMMA ExtensionReloadsKeeps ==
    ASSUME AgesInv, ExtensionReloads
    PROVE  AgesInv'
<1>1. /\ BrowserRests /\ MemoryLost /\ ledger' = ledger /\ owed' = owed /\ saved' = saved /\ starts' = starts + 1
      /\ keyed' = FALSE /\ windows' = windows
  BY DEF ExtensionReloads, BrowserRests, agesGhosts
<1>2. starts' \in Nat
  BY <1>1 DEF AgesInv
<1>3. WindowsSound'
  BY <1>1, BrowserKept
<1> QED
  BY <1>1, <1>2, <1>3, WorkerGone

LEMMA BrowserStartsKeeps ==
    ASSUME AgesInv, BrowserStarts
    PROVE  AgesInv'
<1>1. /\ BrowserRests /\ MemoryLost /\ ledger' = ledger /\ owed' = owed /\ saved' = saved /\ starts' = starts
      /\ keyed' = FALSE /\ windows' = [s \in Slots |-> 2 * starts + s]
  BY DEF BrowserStarts, BrowserRests, agesGhosts, bounds
<1>2. starts' \in Nat
  BY <1>1 DEF AgesInv
<1>3. WindowsSound'
  <2>1. windows' \in [Slots -> Nat] /\ windows'[1] = 2 * starts + 1 /\ windows'[2] = 2 * starts + 2
    BY <1>1 DEF Slots, AgesInv
  <2>2. back' \in Seq([slot : Slots, tabs : Seq(Ids')])
    BY <1>1 DEF AgesInv, WindowsSound, BrowserRests, Ids
  <2>3. windows'[1] # 0 /\ windows'[1] # windows'[2]
    BY <2>1 DEF AgesInv
  <2> QED
    BY <2>1, <2>2, <2>3 DEF WindowsSound
<1> QED
  BY <1>1, <1>2, <1>3, WorkerGone

-----------------------------------------------------------------------------
(* The browser and the person.                                             *)

(* What no step of theirs takes away.                                      *)
WorldStep ==
  /\ Ids \subseteq Ids' /\ heard \subseteq heard' /\ Open' \cap Ids \subseteq Open
  /\ \A t \in Ids : /\ info'[t].birth = info[t].birth
                    /\ \A x : <<info[t].u, x>> \in heard => <<info'[t].u, x>> \in heard'
  /\ UNCHANGED <<now, ledger, keyed, writing, owed>>

LEMMA WiderSeq ==
    ASSUME NEW S, NEW T, S \subseteq T, NEW c \in Seq(S)
    PROVE  c \in Seq(T)
  OBVIOUS

LEMMA WorldKeeps ==
    ASSUME AgesInv, WorldStep
    PROVE  Good(ledger)' /\ KeepsAges(ledger, owed)' /\ (owed \subseteq Ids)' /\ WritingSound'
<1>1. Good(ledger) /\ owed \subseteq Ids /\ KeepsAges(ledger, owed) /\ WritingSound
  BY DEF AgesInv
<1>2. ledger' = ledger /\ owed' = owed /\ writing' = writing /\ keyed' = keyed /\ Ids \subseteq Ids'
  BY DEF WorldStep
<1>3. Good(ledger)'
  BY <1>1, <1>2 DEF WorldStep, Good
<1>4. KeepsAges(ledger, owed)'
  BY <1>1, <1>2 DEF WorldStep, KeepsAges
<1>5. WritingSound'
  <2>1. CASE ~writing.on
    BY <1>1, <1>2, <2>1 DEF WritingSound
  <2>2. CASE writing.on
    <3>1. /\ keyed /\ Good(writing.to) /\ writing.rekey \in BOOLEAN /\ writing.owes \subseteq Ids
          /\ KeepsAges(writing.to, IF writing.rekey THEN writing.owes ELSE owed)
      BY <1>1, <2>2 DEF WritingSound
    <3>2. Good(writing.to)'
      BY <1>2, <3>1 DEF WorldStep, Good
    <3>3. KeepsAges(writing.to, IF writing.rekey THEN writing.owes ELSE owed)'
      <4>1. (IF writing.rekey THEN writing.owes ELSE owed) \subseteq Ids
        BY <1>1, <3>1
      <4> DEFINE S == IF writing.rekey THEN writing.owes ELSE owed
      <4>2. S' = S
        BY <1>2
      <4> HIDE DEF S
      <4>3. KeepsAges(writing.to, S)'
        BY <1>2, <3>1, <4>1, <4>2 DEF WorldStep, KeepsAges, S
      <4> QED
        BY <4>3 DEF S
    <3> QED
      BY <1>1, <1>2, <2>2, <3>1, <3>2, <3>3 DEF WritingSound
  <2> QED
    BY <1>1, <2>1, <2>2 DEF WritingSound
<1> QED
  BY <1>1, <1>2, <1>3, <1>4, <1>5

LEMMA EventOutlives ==
    ASSUME WorldStep, NEW e \in TabUpdate, EventSound(e)
    PROVE  e \in TabUpdate' /\ EventSound(e)'
<1>1. e \in TabUpdate'
  BY DEF WorldStep, TabUpdate
<1>2. e.do = "created" => CreatedSound(e)'
  <2> SUFFICES ASSUME e.do = "created" PROVE CreatedSound(e)'
    OBVIOUS
  <2>1. CreatedSound(e)
    BY DEF EventSound
  <2> QED
    BY <2>1 DEF WorldStep, CreatedSound
<1>3. e.do = "removed" => RemovedSound(e)'
  <2> SUFFICES ASSUME e.do = "removed" PROVE RemovedSound(e)'
    OBVIOUS
  <2>1. RemovedSound(e)
    BY DEF EventSound
  <2> QED
    BY <2>1 DEF WorldStep, RemovedSound
<1> QED
  BY <1>1, <1>2, <1>3 DEF EventSound

LEMMA ChainOutlives ==
    ASSUME AgesInv, WorldStep
    PROVE  chain \in Seq(TabUpdate') /\ \A e \in ToSet(chain) : EventSound(e)'
<1>1. chain \in Seq(TabUpdate) /\ \A e \in ToSet(chain) : EventSound(e)
  BY DEF AgesInv, ChainSound
<1>2. TabUpdate \subseteq TabUpdate'
  BY DEF WorldStep, TabUpdate
<1>3. chain \in Seq(TabUpdate')
  BY <1>1, <1>2
<1>4. \A e \in ToSet(chain) : e \in TabUpdate
  BY <1>1 DEF ToSet
<1> QED
  BY <1>1, <1>3, <1>4, EventOutlives

LEMMA ChainGrows ==
    ASSUME AgesInv, WorldStep, NEW c, c \in Seq(TabUpdate'), \A e \in ToSet(c) : e \in ToSet(chain) \/ EventSound(e)',
           NEW es, es \in Seq(TabUpdate'), \A e \in ToSet(es) : EventSound(e)', chain' = c \o es
    PROVE  ChainSound'
<1>1. \A e \in ToSet(chain) : EventSound(e)'
  BY ChainOutlives
<1>2. chain' \in Seq(TabUpdate') /\ ToSet(chain') = ToSet(c) \cup ToSet(es)
  BY Queued
<1> QED
  BY <1>1, <1>2 DEF ChainSound

LEMMA SavedStays ==
    ASSUME AgesInv, WorldStep, saved' = saved, windows[1] # 0
    PROVE  SavedLasts'
<1> SUFFICES ASSUME DOMAIN saved # {} PROVE SavedSound(ledger)' /\ ~keyed'
  BY DEF SavedLasts
<1>1. SavedSound(ledger) /\ ~keyed
  BY DEF AgesInv, SavedLasts, LedgerRests
<1>2. SavedSound(ledger)'
  BY <1>1 DEF SavedSound, WorldStep
<1> QED
  BY <1>1, <1>2 DEF WorldStep

LEMMA WorldDone ==
    ASSUME AgesInv, WorldStep, TabsAreKnown', StripSound', WindowsSound', ChainSound', SavedLasts',
           starts' \in Nat, refresh' \in BOOLEAN
    PROVE  AgesInv'
<1>1. now' \in Nat /\ keyed' \in BOOLEAN
  BY DEF AgesInv, WorldStep
<1> QED
  BY <1>1, WorldKeeps DEF AgesInv

-----------------------------------------------------------------------------
OpenIn(st) == UNION {ToSet(st[s]) : s \in Slots}

LEMMA OpenInIs ==
    ASSUME NEW st, NEW x
    PROVE  x \in OpenIn(st) <=> \E s \in Slots : \E i \in DOMAIN st[s] : x = st[s][i]
  BY DEF OpenIn, ToSet

LEMMA WithoutIs ==
    ASSUME StripSound, NEW t \in Open
    PROVE  /\ StripWithout(t) \in [Slots -> Seq(Ids)] /\ OnePlace(StripWithout(t)) /\ OpenIn(StripWithout(t)) = Open \ {t}
<1> DEFINE s0 == SlotOf(t)
           i0 == IndexOf(t)
           w == StripWithout(t)
           at(s, j) == IF s = s0 /\ j >= i0 THEN j + 1 ELSE j
<1>1. s0 \in Slots /\ i0 \in DOMAIN strip[s0] /\ strip[s0][i0] = t
  BY OpenPlace
<1>2. strip \in [Slots -> Seq(Ids)]
  BY DEF StripSound
<1>3. w[s0] = RemoveAt(strip[s0], i0) /\ (\A s \in Slots : s # s0 => w[s] = strip[s]) /\ DOMAIN w = Slots
      /\ w = [s \in Slots |-> w[s]]
  BY <1>1, <1>2 DEF StripWithout
<1> HIDE DEF w
<1>4. /\ w[s0] \in Seq(Ids) /\ DOMAIN w[s0] = 1..(Len(strip[s0]) - 1)
      /\ \A j \in 1..(Len(strip[s0]) - 1) : w[s0][j] = IF j < i0 THEN strip[s0][j] ELSE strip[s0][j + 1]
  BY <1>1, <1>2, <1>3, TakenOut
<1>5. \A s \in Slots : w[s] \in Seq(Ids)
  BY <1>2, <1>3, <1>4
<1>6. w \in [Slots -> Seq(Ids)]
  BY <1>3, <1>5
<1>7. \A s \in Slots : Len(strip[s]) \in Nat /\ DOMAIN strip[s] = 1..Len(strip[s])
  BY <1>2
<1> HIDE DEF s0, i0
<1>8. ASSUME NEW s \in Slots, NEW j \in DOMAIN w[s]
      PROVE  /\ at(s, j) \in DOMAIN strip[s] /\ w[s][j] = strip[s][at(s, j)] /\ (s = s0 => at(s, j) # i0)
             /\ j \in Nat
  <2>1. CASE s = s0
    BY <1>1, <1>4, <1>7, <2>1
  <2>2. CASE s # s0
    BY <1>3, <1>7, <2>2
  <2> QED
    BY <2>1, <2>2
<1>9. i0 \in Nat
  BY <1>1, <1>7
<1>10. \A s, r \in Slots : \A i \in DOMAIN strip[s], j \in DOMAIN strip[r] : strip[s][i] = strip[r][j] => s = r /\ i = j
  BY DEF StripSound, OnePlace
<1>11. OnePlace(w)
  <2> SUFFICES ASSUME NEW s \in Slots, NEW r \in Slots, NEW i \in DOMAIN w[s], NEW j \in DOMAIN w[r], w[s][i] = w[r][j]
               PROVE  s = r /\ i = j
    BY DEF OnePlace
  <2>1. s = r /\ at(s, i) = at(r, j)
    BY <1>8, <1>10
  <2>2. i \in Nat /\ j \in Nat
    BY <1>8
  <2> QED
    BY <1>9, <2>1, <2>2
<1>12. ASSUME NEW x \in OpenIn(w) PROVE x \in Open \ {t}
  <2>0. PICK s \in Slots : \E j \in DOMAIN w[s] : x = w[s][j]
    BY OpenInIs
  <2>1. PICK j \in DOMAIN w[s] : x = w[s][j]
    BY <2>0
  <2>2. x = strip[s][at(s, j)] /\ at(s, j) \in DOMAIN strip[s]
    BY <1>8, <2>1
  <2>3. x \in Open
    BY <2>2, PlaceOf
  <2>4. x # t
    BY <1>1, <1>8, <1>10, <2>1, <2>2
  <2> QED
    BY <2>3, <2>4
<1>13. ASSUME NEW x \in Open, x # t PROVE x \in OpenIn(w)
  <2>0. PICK s \in Slots : \E i \in DOMAIN strip[s] : x = strip[s][i]
    BY OpenPlace
  <2>1. PICK i \in DOMAIN strip[s] : x = strip[s][i]
    BY <2>0
  <2>2. CASE s # s0
    BY <1>3, <2>1, <2>2, OpenInIs
  <2>3. CASE s = s0 /\ i < i0
    <3>1. i \in DOMAIN w[s0] /\ w[s0][i] = x
      BY <1>1, <1>4, <1>7, <2>1, <2>3
    <3> QED
      BY <1>1, <3>1, OpenInIs
  <2>4. CASE s = s0 /\ i > i0
    <3>0. i \in 1..Len(strip[s0]) /\ i0 \in 1..Len(strip[s0]) /\ Len(strip[s0]) \in Nat
      BY <1>1, <1>7, <2>1, <2>4
    <3>1. i - 1 \in DOMAIN w[s0] /\ w[s0][i - 1] = x
      <4>1. i - 1 \in 1..(Len(strip[s0]) - 1) /\ ~(i - 1 < i0) /\ (i - 1) + 1 = i
        BY <2>4, <3>0
      <4>2. w[s0][i - 1] = strip[s0][(i - 1) + 1]
        BY <1>4, <4>1
      <4> QED
        BY <1>4, <2>1, <2>4, <4>1, <4>2
    <3> QED
      BY <1>1, <3>1, OpenInIs
  <2>5. i # i0 \/ s # s0
    BY <1>1, <1>13, <2>1
  <2>6. i \in Nat
    BY <1>7, <2>1
  <2> QED
    BY <1>9, <2>2, <2>3, <2>4, <2>5, <2>6
<1>14. OpenIn(w) = Open \ {t}
  BY <1>12, <1>13
<1> QED
  BY <1>6, <1>11, <1>14 DEF w

LongerBy(st, s, x) == [st EXCEPT ![s] = Append(@, x)]
SetTo(st, s, ids) == [st EXCEPT ![s] = ids]

Fits(S, T, st, x) ==
  S \subseteq T /\ st \in [Slots -> Seq(S)] /\ OnePlace(st) /\ x \in T /\ x \notin OpenIn(st)

LEMMA WithAtTheEnd ==
    ASSUME NEW S, NEW T, NEW st, NEW x, Fits(S, T, st, x), NEW s \in Slots
    PROVE  /\ LongerBy(st, s, x) \in [Slots -> Seq(T)] /\ OnePlace(LongerBy(st, s, x))
           /\ OpenIn(LongerBy(st, s, x)) = OpenIn(st) \cup {x}
<1>0. S \subseteq T /\ st \in [Slots -> Seq(S)] /\ OnePlace(st) /\ x \in T /\ x \notin OpenIn(st)
  BY DEF Fits
<1> DEFINE new == LongerBy(st, s, x)
<1>1. \A r \in Slots : st[r] \in Seq(T) /\ Len(st[r]) \in Nat /\ DOMAIN st[r] = 1..Len(st[r])
  <2> TAKE r \in Slots
  <2>1. st[r] \in Seq(S)
    BY <1>0
  <2> QED
    BY <1>0, <2>1
<1>2. new[s] = Append(st[s], x) /\ (\A r \in Slots : r # s => new[r] = st[r]) /\ DOMAIN new = Slots
      /\ new = [r \in Slots |-> new[r]]
  BY <1>0 DEF LongerBy
<1> HIDE DEF new
<1>3. /\ new[s] \in Seq(T) /\ DOMAIN new[s] = 1..(Len(st[s]) + 1) /\ new[s][Len(st[s]) + 1] = x
      /\ \A i \in 1..Len(st[s]) : new[s][i] = st[s][i]
  BY <1>0, <1>1, <1>2
<1>4. new \in [Slots -> Seq(T)]
  BY <1>1, <1>2, <1>3
<1>5. ASSUME NEW r \in Slots, NEW i \in DOMAIN new[r]
      PROVE  (r = s /\ i = Len(st[s]) + 1 /\ new[r][i] = x) \/ (i \in DOMAIN st[r] /\ new[r][i] = st[r][i])
  <2>1. CASE r # s
    BY <1>2, <2>1
  <2>2. CASE r = s
    <3>1. i \in 1..(Len(st[s]) + 1) /\ Len(st[s]) \in Nat
      BY <1>1, <1>3, <2>2
    <3>2. i = Len(st[s]) + 1 \/ i \in 1..Len(st[s])
      BY <3>1
    <3> QED
      BY <1>1, <1>3, <2>2, <3>2
  <2> QED
    BY <2>1, <2>2
<1>6. \A r \in Slots : \A i \in DOMAIN st[r] : st[r][i] # x
  BY <1>0, OpenInIs
<1>7. \A a, bb \in Slots : \A i \in DOMAIN st[a], j \in DOMAIN st[bb] : st[a][i] = st[bb][j] => a = bb /\ i = j
  BY <1>0 DEF OnePlace
<1>8. OnePlace(new)
  <2> SUFFICES ASSUME NEW a \in Slots, NEW bb \in Slots, NEW i \in DOMAIN new[a], NEW j \in DOMAIN new[bb],
                      new[a][i] = new[bb][j]
               PROVE  a = bb /\ i = j
    BY DEF OnePlace
  <2> QED
    BY <1>5, <1>6, <1>7
<1>9. ASSUME NEW y \in OpenIn(new) PROVE y \in OpenIn(st) \cup {x}
  <2>0. PICK r \in Slots : \E i \in DOMAIN new[r] : y = new[r][i]
    BY DEF OpenIn, ToSet
  <2>1. PICK i \in DOMAIN new[r] : y = new[r][i]
    BY <2>0
  <2> QED
    BY <1>5, <2>1, OpenInIs
<1>10. ASSUME NEW y \in OpenIn(st) PROVE y \in OpenIn(new)
  <2>0. PICK r \in Slots : \E i \in DOMAIN st[r] : y = st[r][i]
    BY OpenInIs
  <2>1. PICK i \in DOMAIN st[r] : y = st[r][i]
    BY <2>0
  <2>2. i \in DOMAIN new[r] /\ new[r][i] = y
    BY <1>1, <1>2, <1>3, <2>1
  <2> QED
    BY <2>2, OpenInIs
<1>11. x \in OpenIn(new)
  <2>1. Len(st[s]) + 1 \in DOMAIN new[s] /\ new[s][Len(st[s]) + 1] = x
    BY <1>1, <1>3
  <2> QED
    BY <2>1, OpenInIs
<1> QED
  BY <1>4, <1>8, <1>9, <1>10, <1>11 DEF new

FitsSlot(S, T, st, ids) ==
  /\ S \subseteq T /\ st \in [Slots -> Seq(S)] /\ OnePlace(st)
  /\ ids \in Seq(T) /\ ToSet(ids) \cap S = {} /\ \A i, j \in DOMAIN ids : ids[i] = ids[j] => i = j

LEMMA WithASlot ==
    ASSUME NEW S, NEW T, NEW st, NEW ids, FitsSlot(S, T, st, ids), NEW s \in Slots
    PROVE  /\ SetTo(st, s, ids) \in [Slots -> Seq(T)] /\ OnePlace(SetTo(st, s, ids))
           /\ OpenIn(SetTo(st, s, ids)) \subseteq OpenIn(st) \cup ToSet(ids)
<1>0. /\ S \subseteq T /\ st \in [Slots -> Seq(S)] /\ OnePlace(st)
      /\ ids \in Seq(T) /\ ToSet(ids) \cap S = {} /\ \A i, j \in DOMAIN ids : ids[i] = ids[j] => i = j
  BY DEF FitsSlot
<1> DEFINE new == SetTo(st, s, ids)
<1>1. \A r \in Slots : st[r] \in Seq(T) /\ \A i \in DOMAIN st[r] : st[r][i] \in S
  <2> TAKE r \in Slots
  <2>1. st[r] \in Seq(S)
    BY <1>0
  <2> QED
    BY <1>0, <2>1
<1>2. new[s] = ids /\ (\A r \in Slots : r # s => new[r] = st[r]) /\ new = [r \in Slots |-> new[r]]
  BY <1>0 DEF SetTo
<1> HIDE DEF new
<1>3. new \in [Slots -> Seq(T)]
  BY <1>0, <1>1, <1>2
<1>4. \A i \in DOMAIN ids : ids[i] \notin S /\ ids[i] \in ToSet(ids)
  BY <1>0 DEF ToSet
<1>5. OnePlace(new)
  <2> SUFFICES ASSUME NEW a \in Slots, NEW bb \in Slots, NEW i \in DOMAIN new[a], NEW j \in DOMAIN new[bb],
                      new[a][i] = new[bb][j]
               PROVE  a = bb /\ i = j
    BY DEF OnePlace
  <2>1. CASE a = s /\ bb = s
    BY <1>0, <1>2, <2>1
  <2>2. CASE a # s /\ bb # s
    BY <1>0, <1>2, <2>2 DEF OnePlace
  <2>3. CASE a = s /\ bb # s
    BY <1>1, <1>2, <1>4, <2>3
  <2>4. CASE a # s /\ bb = s
    BY <1>1, <1>2, <1>4, <2>4
  <2> QED
    BY <2>1, <2>2, <2>3, <2>4
<1>6. ASSUME NEW y \in OpenIn(new) PROVE y \in OpenIn(st) \cup ToSet(ids)
  <2>0. PICK r \in Slots : \E i \in DOMAIN new[r] : y = new[r][i]
    BY DEF OpenIn, ToSet
  <2>1. PICK i \in DOMAIN new[r] : y = new[r][i]
    BY <2>0
  <2>2. CASE r = s
    BY <1>2, <1>4, <2>1, <2>2
  <2>3. CASE r # s
    BY <1>2, <2>1, <2>3, OpenInIs
  <2> QED
    BY <2>2, <2>3
<1> QED
  BY <1>3, <1>5, <1>6 DEF new

-----------------------------------------------------------------------------
(* The next k tab ids after n are given out.                               *)
NewTabs(n, k, g) ==
  /\ n = Cardinality(Ids) /\ k \in Nat /\ n + k <= MaxTabs /\ DOMAIN g = (n + 1)..(n + k)
  /\ \A x \in DOMAIN g : /\ g[x] \in KnownTab /\ g[x].seen <= now
                         /\ g[x].was # 0 => g[x].was \in Ids /\ g[x].birth = info[g[x].was].birth
  /\ info' = Joined(info, g) /\ now' = now

LEMMA TabsGrow ==
    ASSUME AgesInv, NEW n, NEW k, NEW g, NewTabs(n, k, g)
    PROVE  /\ TabsAreKnown' /\ Ids' = 1..(n + k) /\ Ids = 1..n /\ n \in Nat /\ Ids \subseteq Ids'
           /\ (\A t \in Ids : info'[t] = info[t]) /\ \A t \in DOMAIN g : info'[t] = g[t]
<1>0. /\ n = Cardinality(Ids) /\ k \in Nat /\ n + k <= MaxTabs /\ DOMAIN g = (n + 1)..(n + k)
      /\ \A x \in DOMAIN g : /\ g[x] \in KnownTab /\ g[x].seen <= now
                             /\ g[x].was # 0 => g[x].was \in Ids /\ g[x].birth = info[g[x].was].birth
      /\ info' = Joined(info, g) /\ now' = now
  BY DEF NewTabs
<1>1. Ids = 1..n /\ n \in Nat /\ MaxTabs \in Nat
  BY <1>0, IdsAreNumbers DEF AgesInv, TabsAreKnown
<1>2. DOMAIN info' = Ids \cup DOMAIN g /\ info' = [t \in DOMAIN info' |-> info'[t]]
  BY <1>0 DEF Joined, Ids
<1>3. \A t \in Ids : info'[t] = info[t]
  BY <1>0 DEF Joined, Ids
<1>4. \A t \in DOMAIN g : info'[t] = g[t]
  <2>0. \A t \in (n + 1)..(n + k) : t \notin 1..n
    BY <1>0, <1>1
  <2>1. \A t \in DOMAIN g : t \notin DOMAIN info
    BY <1>0, <1>1, <2>0 DEF Ids
  <2> QED
    BY <1>0, <2>1 DEF Joined
<1>5. Ids' = 1..(n + k)
  <2>1. Ids' = Ids \cup DOMAIN g
    BY <1>0, <1>2 DEF Ids
  <2>2. 1..(n + k) = (1..n) \cup ((n + 1)..(n + k))
    BY <1>0, <1>1
  <2> QED
    BY <1>0, <1>1, <2>1, <2>2
<1>6. Cardinality(1..(n + k)) = n + k
  <2> DEFINE m == n + k
  <2>1. m \in Nat
    BY <1>0, <1>1
  <2> HIDE DEF m
  <2>2. Cardinality(1..m) = IF 1 > m THEN 0 ELSE m - 1 + 1
    BY <1>0, <2>1, FS_Interval
  <2>3. Cardinality(1..m) = m
    BY <1>0, <2>1, <2>2
  <2> QED
    BY <1>0, <2>3 DEF m
<1>7. \A t \in Ids : /\ info[t] \in KnownTab /\ info[t].seen <= now
                     /\ info[t].was # 0 => info[t].was \in Ids /\ info[t].birth = info[info[t].was].birth
  BY <1>0 DEF AgesInv, TabsAreKnown
<1>8. \A t \in Ids' : t \in Ids \/ t \in DOMAIN g
  BY <1>0, <1>2 DEF Ids
<1>9. Ids \subseteq Ids'
  BY <1>0, <1>2 DEF Ids
<1>10. ASSUME NEW t \in Ids'
       PROVE  /\ info'[t] \in KnownTab /\ info'[t].seen <= now
              /\ info'[t].was # 0 => info'[t].was \in Ids' /\ info'[t].birth = info'[info'[t].was].birth
  <2>1. CASE t \in Ids
    BY <1>0, <1>3, <1>7, <1>9, <2>1
  <2>2. CASE t \in DOMAIN g
    BY <1>0, <1>3, <1>4, <1>9, <2>2
  <2> QED
    BY <1>0, <1>8, <2>1, <2>2
<1>11. info' \in [Ids' -> KnownTab]
  BY <1>0, <1>2, <1>10 DEF Ids
<1>12. TabsAreKnown'
  <2>0. n + k \in 0..MaxTabs
    BY <1>0, <1>1
  <2>1. Cardinality(Ids') = n + k
    BY <1>0, <1>5, <1>6
  <2>2. Ids' = 1..Cardinality(Ids') /\ Cardinality(Ids') \in 0..MaxTabs
    BY <1>0, <1>5, <2>0, <2>1
  <2> QED
    BY <1>0, <1>10, <1>11, <2>2 DEF TabsAreKnown
<1> QED
  BY <1>0, <1>1, <1>3, <1>4, <1>5, <1>9, <1>12

LEMMA QuietIs ==
    ASSUME AgesInv, back = <<>>
    PROVE  windows[1] # 0 /\ windows[1] # windows[2]
  BY DEF AgesInv, WindowsSound

LEMMA WindowsStay ==
    ASSUME AgesInv, WorldStep, windows' = windows, back' = back
    PROVE  WindowsSound'
<1>1. [slot : Slots, tabs : Seq(Ids)] \subseteq [slot : Slots, tabs : Seq(Ids')]
  BY DEF WorldStep
<1> DEFINE A == [slot : Slots, tabs : Seq(Ids)]
           B == [slot : Slots, tabs : Seq(Ids')]
<1>0. back' \in Seq(A)
  BY DEF AgesInv, WindowsSound
<1> HIDE DEF A, B
<1>2. back' \in Seq(B)
  BY <1>0, <1>1, WiderSeq DEF A, B
<1> USE DEF B
<1> QED
  BY <1>2 DEF AgesInv, WindowsSound

LEMMA OnTabCreatedKeeps ==
    ASSUME AgesInv, NEW s \in Slots, NEW a \in Addresses, OnTabCreated(s, a)
    PROVE  AgesInv'
<1> DEFINE pos == [w |-> windows[s], i |-> Len(strip[s]) + 1, u |-> a]
<1>02. PICK n : n = Cardinality(Ids)
  OBVIOUS
<1>03. PICK t : t = n + 1
  OBVIOUS
<1>00. PICK g : g = [x \in {t} |-> [u |-> a, birth |-> now, seen |-> now, was |-> 0]]
  OBVIOUS
<1>01. PICK k \in Nat : k = 1
  OBVIOUS
<1>0. PICK e : e = Created(t, pos)
  OBVIOUS
<1>1. /\ back = <<>> /\ t <= MaxTabs /\ strip' = [strip EXCEPT ![s] = Append(@, t)]
      /\ info' = Joined(info, g) /\ heard' = heard \cup {<<a, now>>}
      /\ chain' = chain \o <<e>>
      /\ UNCHANGED <<windows, ledger, keyed, writing, refresh, back, now, starts, saved, owed>>
  BY <1>0, <1>00, <1>02, <1>03 DEF OnTabCreated, Change, Quiet, Queue, worker, Ids
<1>2. now \in Nat /\ starts \in Nat /\ refresh \in BOOLEAN /\ StripSound /\ n \in Nat
  BY <1>02 DEF AgesInv, TabsAreKnown
<1>3. DOMAIN g = (n + 1)..(n + k)
  BY <1>00, <1>01, <1>03, <1>2
<1>4. \A x \in DOMAIN g : /\ g[x] \in KnownTab /\ g[x].seen <= now
                          /\ g[x].was # 0 => g[x].was \in Ids /\ g[x].birth = info[g[x].was].birth
  BY <1>00, <1>2 DEF KnownTab
<1>40. k \in Nat /\ n = Cardinality(Ids) /\ n + k <= MaxTabs /\ now' = now /\ info' = Joined(info, g)
  BY <1>01, <1>02, <1>03, <1>1
<1>5. /\ TabsAreKnown' /\ Ids' = 1..(n + k) /\ Ids = 1..n /\ Ids \subseteq Ids'
      /\ (\A x \in Ids : info'[x] = info[x]) /\ \A x \in DOMAIN g : info'[x] = g[x]
  <2>1. NewTabs(n, k, g)
    BY <1>3, <1>4, <1>40 DEF NewTabs
  <2> QED
    BY <2>1, TabsGrow
<1>6. t \in Ids' /\ t \notin Ids /\ t \in DOMAIN g
  BY <1>01, <1>03, <1>2, <1>3, <1>5
<1>7. info'[t].u = a /\ info'[t].seen = now
  BY <1>00, <1>5, <1>6
<1>8. strip' \in [Slots -> Seq(Ids')] /\ OnePlace(strip') /\ OpenIn(strip') = OpenIn(strip) \cup {t}
  <2>1. strip \in [Slots -> Seq(Ids)] /\ OnePlace(strip)
    BY <1>2 DEF StripSound
  <2>2. t \notin OpenIn(strip)
    BY <1>2, <1>6, OpenPlace DEF OpenIn, Open
  <2>3. strip' = LongerBy(strip, s, t)
    BY <1>1 DEF LongerBy
  <2>4. PICK T : T = Ids'
    OBVIOUS
  <2>5. Ids \subseteq T /\ t \in T
    BY <1>5, <1>6, <2>4
  <2>6. /\ LongerBy(strip, s, t) \in [Slots -> Seq(T)] /\ OnePlace(LongerBy(strip, s, t))
        /\ OpenIn(LongerBy(strip, s, t)) = OpenIn(strip) \cup {t}
    BY <2>1, <2>2, <2>5, WithAtTheEnd DEF Fits
  <2> QED
    BY <2>3, <2>4, <2>6
<1>9. Open' = Open \cup {t}
  BY <1>8 DEF Open, OpenIn
<1>10. WorldStep
  BY <1>1, <1>5, <1>6, <1>9 DEF WorldStep
<1>11. StripSound'
  BY <1>8 DEF StripSound, OnePlace
<1>12. WindowsSound'
  BY <1>1, <1>10, WindowsStay
<1>13. SavedLasts'
  BY <1>1, <1>10, QuietIs, SavedStays
<1>14. e \in TabUpdate' /\ EventSound(e)'
  <2>1. e = [do |-> "created", tab |-> t, pos |-> pos, seen |-> now]
    BY <1>0, <1>7 DEF Created
  <2>2. windows[s] \in Nat /\ Len(strip[s]) \in Nat
    BY <1>2 DEF AgesInv, WindowsSound, StripSound
  <2>3. pos \in [w : Nat, i : Nat, u : Addresses] /\ pos.u = a
    BY <2>2
  <2> HIDE DEF pos
  <2>4. e \in TabUpdate'
    BY <1>2, <1>6, <2>1, <2>3 DEF TabUpdate
  <2>5. e.do = "created" /\ e.tab = t /\ e.pos = pos /\ e.seen = now
    BY <2>1
  <2>6. CreatedSound(e)'
    BY <1>1, <1>2, <1>6, <1>7, <2>3, <2>5 DEF CreatedSound
  <2> QED
    BY <2>4, <2>5, <2>6 DEF EventSound
<1>15. ChainSound'
  <2> DEFINE es == <<e>>
  <2>1. es \in Seq(TabUpdate') /\ ToSet(es) = {e}
    BY <1>14, SingleIs
  <2>2. chain \in Seq(TabUpdate')
    BY <1>10, ChainOutlives
  <2>3. \A x \in ToSet(es) : EventSound(x)'
    BY <1>14, <2>1
  <2>4. chain' = chain \o es
    BY <1>1
  <2> HIDE DEF es
  <2> QED
    BY <1>10, <2>1, <2>2, <2>3, <2>4, ChainGrows
<1> QED
  BY <1>1, <1>2, <1>5, <1>10, <1>11, <1>12, <1>13, <1>15, WorldDone

LEMMA OnTabRemovedKeeps ==
    ASSUME AgesInv, NEW t \in Open, OnTabRemoved(t)
    PROVE  AgesInv'
<1>0. PICK e : e = [do |-> "removed", tab |-> t, closing |-> FALSE]
  OBVIOUS
<1>1. /\ back = <<>> /\ strip' = StripWithout(t) /\ chain' = chain \o <<e>>
      /\ UNCHANGED <<windows, info, heard, ledger, keyed, writing, refresh, back, now, starts, saved, owed>>
  BY <1>0 DEF OnTabRemoved, Removed, Change, Quiet, Queue, worker, agesGhosts
<1>2. StripSound /\ t \in Ids
  BY OpenPlace DEF AgesInv
<1>3. strip' \in [Slots -> Seq(Ids)] /\ OnePlace(strip') /\ OpenIn(strip') = Open \ {t}
  BY <1>1, <1>2, WithoutIs
<1>4. Ids' = Ids /\ Open' = Open \ {t}
  BY <1>1, <1>3 DEF Ids, Open, OpenIn
<1>5. WorldStep
  BY <1>1, <1>4 DEF WorldStep
<1>6. TabsAreKnown'
  BY <1>1, <1>4 DEF AgesInv, TabsAreKnown
<1>7. StripSound'
  BY <1>3, <1>4 DEF StripSound, OnePlace
<1>8. WindowsSound'
  BY <1>1, <1>5, WindowsStay
<1>9. SavedLasts'
  BY <1>1, <1>5, QuietIs, SavedStays
<1>10. e \in TabUpdate' /\ EventSound(e)'
  <2>2. e \in TabUpdate'
    BY <1>0, <1>2, <1>4 DEF TabUpdate
  <2>3. e.do = "removed" /\ e.tab = t /\ e.closing \in BOOLEAN
    BY <1>0
  <2> QED
    BY <1>2, <1>4, <2>2, <2>3 DEF EventSound, RemovedSound
<1>11. ChainSound'
  <2> DEFINE es == <<e>>
  <2>1. es \in Seq(TabUpdate') /\ ToSet(es) = {e}
    BY <1>10, SingleIs
  <2>2. chain \in Seq(TabUpdate')
    BY <1>5, ChainOutlives
  <2>3. \A x \in ToSet(es) : EventSound(x)'
    BY <1>10, <2>1
  <2>4. chain' = chain \o es
    BY <1>1
  <2> HIDE DEF es
  <2> QED
    BY <1>5, <2>1, <2>2, <2>3, <2>4, ChainGrows
<1>12. starts' \in Nat /\ refresh' \in BOOLEAN
  BY <1>1 DEF AgesInv
<1> QED
  BY <1>5, <1>6, <1>7, <1>8, <1>9, <1>11, <1>12, WorldDone

LEMMA TabMovesKeeps ==
    ASSUME AgesInv, NEW t \in Open, NEW s \in Slots, TabMoves(t, s)
    PROVE  AgesInv'
<1>1. /\ back = <<>> /\ strip' = [StripWithout(t) EXCEPT ![s] = Append(@, t)] /\ refresh' = TRUE
      /\ UNCHANGED <<windows, info, heard, ledger, keyed, writing, chain, back, now, starts, saved, owed>>
  BY DEF TabMoves, Change, Quiet, SchedulePositionRefresh, agesGhosts
<1>2. StripSound /\ t \in Ids
  BY OpenPlace DEF AgesInv
<1>3. StripWithout(t) \in [Slots -> Seq(Ids)] /\ OnePlace(StripWithout(t)) /\ OpenIn(StripWithout(t)) = Open \ {t}
  BY <1>2, WithoutIs
<1>4. strip' \in [Slots -> Seq(Ids)] /\ OnePlace(strip') /\ OpenIn(strip') = (Open \ {t}) \cup {t}
  <2>1. t \notin OpenIn(StripWithout(t))
    BY <1>3
  <2>2. strip' = LongerBy(StripWithout(t), s, t)
    BY <1>1 DEF LongerBy
  <2> QED
    BY <1>2, <1>3, <2>1, <2>2, WithAtTheEnd DEF Fits
<1>5. Ids' = Ids /\ Open' = Open
  BY <1>1, <1>4 DEF Ids, Open, OpenIn
<1>6. WorldStep
  BY <1>1, <1>5 DEF WorldStep
<1>7. TabsAreKnown'
  BY <1>1, <1>5 DEF AgesInv, TabsAreKnown
<1>8. StripSound'
  BY <1>4, <1>5 DEF StripSound, OnePlace
<1>9. WindowsSound'
  BY <1>1, <1>6, WindowsStay
<1>10. SavedLasts'
  BY <1>1, <1>6, QuietIs, SavedStays
<1>11. ChainSound'
  BY <1>1, <1>6, ChainOutlives DEF ChainSound
<1>12. starts' \in Nat /\ refresh' \in BOOLEAN
  BY <1>1 DEF AgesInv
<1> QED
  BY <1>6, <1>7, <1>8, <1>9, <1>10, <1>11, <1>12, WorldDone

LEMMA TabNavigatesKeeps ==
    ASSUME AgesInv, NEW t \in Open, NEW a \in Addresses, TabNavigates(t, a)
    PROVE  AgesInv'
<1>1. /\ back = <<>> /\ info' = [info EXCEPT ![t].u = a, ![t].seen = now] /\ refresh' = TRUE
      /\ heard' = heard \cup {<<a, h[2]>> : h \in {x \in heard : x[1] = info[t].u}}
      /\ UNCHANGED <<windows, strip, ledger, keyed, writing, chain, back, now, starts, saved, owed>>
  BY DEF TabNavigates, Change, Quiet, SchedulePositionRefresh
<1>2. StripSound /\ t \in Ids /\ now \in Nat
  BY OpenPlace DEF AgesInv
<1>3. /\ info \in [Ids -> KnownTab]
      /\ \A x \in Ids : /\ info[x].seen <= now
                        /\ info[x].was # 0 => info[x].was \in Ids /\ info[x].birth = info[info[x].was].birth
  BY DEF AgesInv, TabsAreKnown
<1>4. /\ Ids' = Ids /\ info' \in [Ids -> KnownTab]
      /\ \A x \in Ids : /\ info'[x].birth = info[x].birth /\ info'[x].was = info[x].was
                        /\ IF x = t THEN info'[x].u = a /\ info'[x].seen = now ELSE info'[x] = info[x]
  <2>1. DOMAIN info' = Ids /\ info' = [x \in Ids |-> info'[x]]
    BY <1>1, <1>3 DEF Ids
  <2>2. \A x \in Ids : x # t => info'[x] = info[x]
    BY <1>1, <1>3 DEF Ids
  <2>3. info'[t] = [u |-> a, birth |-> info[t].birth, seen |-> now, was |-> info[t].was]
    BY <1>1, <1>2, <1>3 DEF Ids, KnownTab
  <2>4. info'[t] \in KnownTab
    BY <1>2, <1>3, <2>3 DEF KnownTab
  <2>5. info' \in [Ids -> KnownTab]
    BY <1>3, <2>1, <2>2, <2>4
  <2> QED
    BY <2>1, <2>2, <2>3, <2>5 DEF Ids
<1>5. Open' = Open
  BY <1>1 DEF Open
<1>6. \A x \in Ids : \A y : <<info[x].u, y>> \in heard => <<info'[x].u, y>> \in heard'
  <2> TAKE x \in Ids
  <2>1. CASE x # t
    BY <1>1, <1>4, <2>1
  <2>2. CASE x = t
    <3> SUFFICES ASSUME NEW y, <<info[t].u, y>> \in heard PROVE <<a, y>> \in heard'
      BY <1>4, <2>2
    <3> DEFINE h == <<info[t].u, y>>
    <3>1. h \in heard /\ h[1] = info[t].u /\ h[2] = y
      OBVIOUS
    <3> HIDE DEF h
    <3> QED
      BY <1>1, <3>1
  <2> QED
    BY <2>1, <2>2
<1>7. WorldStep
  BY <1>1, <1>4, <1>5, <1>6 DEF WorldStep
<1>8. TabsAreKnown'
  <2>1. Ids = 1..Cardinality(Ids) /\ Cardinality(Ids) \in 0..MaxTabs
    BY DEF AgesInv, TabsAreKnown
  <2>2. \A x \in Ids : /\ info'[x].seen <= now
                       /\ info'[x].was # 0 => info'[x].was \in Ids /\ info'[x].birth = info'[info'[x].was].birth
    BY <1>2, <1>3, <1>4
  <2> QED
    BY <1>1, <1>4, <2>1, <2>2 DEF TabsAreKnown
<1>9. StripSound'
  BY <1>1, <1>2, <1>4 DEF StripSound
<1>10. WindowsSound'
  BY <1>1, <1>7, WindowsStay
<1>11. SavedLasts'
  BY <1>1, <1>7, QuietIs, SavedStays
<1>12. ChainSound'
  BY <1>1, <1>7, ChainOutlives DEF ChainSound
<1>13. starts' \in Nat /\ refresh' \in BOOLEAN
  BY <1>1 DEF AgesInv
<1> QED
  BY <1>7, <1>8, <1>9, <1>10, <1>11, <1>12, <1>13, WorldDone


LEMMA IsASequence ==
    ASSUME NEW W, NEW m \in Nat, NEW f, f = [i \in 1..m |-> f[i]], \A i \in 1..m : f[i] \in W
    PROVE  f \in Seq(W)
  OBVIOUS

(* The removed updates of tabs that closed with their window.              *)
LEMMA ClosingsAreSound ==
    ASSUME AgesInv, WorldStep, NEW m \in Nat, NEW f, \A i \in 1..m : f[i] \in Ids,
           NEW es, es = [i \in 1..m |-> Removed(f[i], TRUE)]
    PROVE  /\ es \in Seq(TabUpdate') /\ \A e \in ToSet(es) : EventSound(e)'
           /\ \A e \in ToSet(es) : e.do = "removed" /\ e.closing
<1>1. \A i \in 1..m : f[i] \in Ids'
  BY DEF WorldStep
<1>2. ASSUME NEW t \in Ids'
      PROVE  /\ Removed(t, TRUE) \in TabUpdate' /\ EventSound(Removed(t, TRUE))'
             /\ Removed(t, TRUE).do = "removed" /\ Removed(t, TRUE).closing = TRUE
  <2>1. PICK e : e = Removed(t, TRUE)
    OBVIOUS
  <2>2. e.do = "removed" /\ e.tab = t /\ e.closing = TRUE
    BY <2>1 DEF Removed
  <2>3. e \in TabUpdate'
    BY <2>1 DEF Removed, TabUpdate
  <2>4. EventSound(e)'
    BY <2>2 DEF EventSound, RemovedSound
  <2>5. Removed(t, TRUE)' = Removed(t, TRUE)
    BY DEF Removed
  <2> QED
    BY <2>1, <2>2, <2>3, <2>4
<1>3. es \in Seq(TabUpdate')
  <2>1. PICK W : W = TabUpdate'
    OBVIOUS
  <2>2. \A i \in 1..m : es[i] \in W
    BY <1>1, <1>2, <2>1
  <2>3. es = [i \in 1..m |-> es[i]]
    OBVIOUS
  <2>4. es \in Seq(W)
    BY <2>2, <2>3, IsASequence
  <2> QED
    BY <2>1, <2>4
<1>4. \A e \in ToSet(es) : \E i \in 1..m : e = Removed(f[i], TRUE)
  BY DEF ToSet
<1> QED
  BY <1>1, <1>2, <1>3, <1>4

LEMMA WindowClosesKeeps ==
    ASSUME AgesInv, NEW s \in Slots, WindowCloses(s)
    PROVE  AgesInv'
<1>0. PICK es : es = [i \in 1..Len(strip[s]) |-> Removed(strip[s][i], TRUE)]
  OBVIOUS
<1>1. /\ back = <<>> /\ strip' = [strip EXCEPT ![s] = <<>>] /\ chain' = chain \o es
      /\ UNCHANGED <<windows, info, heard, ledger, keyed, writing, refresh, back, now, starts, saved, owed>>
  BY <1>0 DEF WindowCloses, Change, Quiet, Queue, worker, agesGhosts
<1>2. strip \in [Slots -> Seq(Ids)] /\ OnePlace(strip)
  BY DEF AgesInv, StripSound
<1>3. strip' \in [Slots -> Seq(Ids)] /\ OnePlace(strip') /\ OpenIn(strip') \subseteq OpenIn(strip)
  <2>1. PICK ids : ids = <<>>
    OBVIOUS
  <2>2. ids \in Seq(Ids) /\ ToSet(ids) = {} /\ \A i, j \in DOMAIN ids : ids[i] = ids[j] => i = j
    BY <2>1 DEF ToSet
  <2>3. strip' = SetTo(strip, s, ids)
    BY <1>1, <2>1 DEF SetTo
  <2>4. FitsSlot(Ids, Ids, strip, ids)
    BY <1>2, <2>2 DEF FitsSlot
  <2> QED
    BY <2>2, <2>3, <2>4, WithASlot
<1>4. Ids' = Ids /\ Open' \subseteq Open
  BY <1>1, <1>3 DEF Ids, Open, OpenIn
<1>5. WorldStep
  BY <1>1, <1>4 DEF WorldStep
<1>6. TabsAreKnown'
  BY <1>1, <1>4 DEF AgesInv, TabsAreKnown
<1>7. StripSound'
  BY <1>3, <1>4 DEF StripSound, OnePlace
<1>8. WindowsSound'
  BY <1>1, <1>5, WindowsStay
<1>9. SavedLasts'
  BY <1>1, <1>5, QuietIs, SavedStays
<1>10. ChainSound'
  <2>1. PICK f : f = strip[s]
    OBVIOUS
  <2>2. Len(f) \in Nat /\ \A i \in 1..Len(f) : f[i] \in Ids
    BY <1>2, <2>1
  <2>3. es = [i \in 1..Len(f) |-> Removed(f[i], TRUE)]
    BY <1>0, <2>1
  <2>4. es \in Seq(TabUpdate') /\ \A e \in ToSet(es) : EventSound(e)'
    BY <1>5, <2>2, <2>3, ClosingsAreSound
  <2>5. chain \in Seq(TabUpdate')
    BY <1>5, ChainOutlives
  <2> QED
    BY <1>1, <1>5, <2>4, <2>5, ChainGrows
<1>11. starts' \in Nat /\ refresh' \in BOOLEAN
  BY <1>1 DEF AgesInv
<1> QED
  BY <1>5, <1>6, <1>7, <1>8, <1>9, <1>10, <1>11, WorldDone

LEMMA WindowComesBackKeeps ==
    ASSUME AgesInv, WindowComesBack
    PROVE  AgesInv'
<1>1. PICK k \in 1..Len(back) :
        LET bb == back[k]
            id(i) == Cardinality(DOMAIN info) + i
            ids == [i \in 1..Len(bb.tabs) |-> id(i)]
        IN /\ id(Len(bb.tabs)) <= MaxTabs
           /\ strip' = [strip EXCEPT ![bb.slot] = ids]
           /\ info' = Joined(info, [t \in ToSet(ids) |->
                                         LET old == bb.tabs[t - Cardinality(DOMAIN info)]
                                         IN [info[old] EXCEPT !.was = old]])
           /\ heard' = heard \cup {<<info[t].u, now>> : t \in {x \in ToSet(bb.tabs) : info[x].seen = now}}
           /\ Queue([i \in 1..Len(ids) |-> Created(ids[i], [w |-> windows[bb.slot], i |-> i, u |-> info'[ids[i]].u])])
           /\ back' = RemoveAt(back, k)
  BY DEF WindowComesBack
<1>2. PICK bb : bb = back[k]
  OBVIOUS
<1>3. PICK n : n = Cardinality(Ids)
  OBVIOUS
<1>4. PICK m : m = Len(bb.tabs)
  OBVIOUS
<1>5. PICK ids : ids = [i \in 1..m |-> n + i]
  OBVIOUS
<1>6. PICK g : g = [t \in ToSet(ids) |-> [info[bb.tabs[t - n]] EXCEPT !.was = bb.tabs[t - n]]]
  OBVIOUS
<1>7. PICK es : es = [i \in 1..Len(ids) |-> Created(ids[i], [w |-> windows[bb.slot], i |-> i, u |-> info'[ids[i]].u])]
  OBVIOUS
<1>8. /\ n + m <= MaxTabs /\ strip' = [strip EXCEPT ![bb.slot] = ids] /\ info' = Joined(info, g)
      /\ heard' = heard \cup {<<info[t].u, now>> : t \in {x \in ToSet(bb.tabs) : info[x].seen = now}}
      /\ chain' = chain \o es /\ back' = RemoveAt(back, k)
  <2>1. n = Cardinality(DOMAIN info)
    BY <1>3 DEF Ids
  <2>2. n + m <= MaxTabs
    BY <1>1, <1>2, <1>4, <2>1
  <2>3. ids = [i \in 1..Len(bb.tabs) |-> Cardinality(DOMAIN info) + i]
    BY <1>4, <1>5, <2>1
  <2>4. strip' = [strip EXCEPT ![bb.slot] = ids]
    BY <1>1, <1>2, <2>3
  <2>5. info' = Joined(info, g)
    BY <1>1, <1>2, <1>6, <2>1, <2>3
  <2>6. heard' = heard \cup {<<info[t].u, now>> : t \in {x \in ToSet(bb.tabs) : info[x].seen = now}}
    BY <1>1, <1>2
  <2>7. chain' = chain \o es
    <3> DEFINE created(x, c) == [i \in 1..Len(x) |->
                                   Created(x[i], [w |-> windows[c.slot], i |-> i, u |-> info'[x[i]].u])]
               x0 == [i \in 1..Len(back[k].tabs) |-> Cardinality(DOMAIN info) + i]
    <3>1. chain' = chain \o created(x0, back[k])
      BY <1>1 DEF Queue
    <3>2. es = created(ids, bb)
      BY <1>7
    <3>3. ids = x0
      BY <1>2, <2>3
    <3> HIDE DEF created, x0
    <3> QED
      BY <1>2, <3>1, <3>2, <3>3
  <2>8. back' = RemoveAt(back, k)
    BY <1>1
  <2> QED
    BY <2>2, <2>4, <2>5, <2>6, <2>7, <2>8
<1>9. /\ windows[1] # 0
      /\ UNCHANGED <<windows, ledger, keyed, writing, refresh, now, starts, saved, owed>>
  BY DEF WindowComesBack, worker, bounds
<1>10. /\ strip \in [Slots -> Seq(Ids)] /\ OnePlace(strip) /\ windows \in [Slots -> Nat] /\ now \in Nat
       /\ TabsAreKnown /\ windows[1] # windows[2] /\ back \in Seq([slot : Slots, tabs : Seq(Ids)])
  BY <1>9 DEF AgesInv, StripSound, WindowsSound
<1>11. bb \in [slot : Slots, tabs : Seq(Ids)] /\ k \in DOMAIN back
  <2>1. PICK A : A = [slot : Slots, tabs : Seq(Ids)]
    OBVIOUS
  <2>2. back \in Seq(A)
    BY <1>10, <2>1
  <2>3. k \in DOMAIN back /\ back[k] \in A
    BY <2>2
  <2> QED
    BY <1>2, <2>1, <2>3
<1>12. bb.slot \in Slots /\ bb.tabs \in Seq(Ids) /\ m \in Nat /\ n \in Nat
  BY <1>3, <1>4, <1>10, <1>11 DEF TabsAreKnown
<1>13. ids \in Seq(Nat) /\ Len(ids) = m /\ DOMAIN ids = 1..m /\ \A i \in 1..m : ids[i] = n + i
  BY <1>5, <1>12
<1>14. ToSet(ids) = (n + 1)..(n + m)
  <2>1. ASSUME NEW x \in (n + 1)..(n + m) PROVE x \in ToSet(ids)
    <3>1. x - n \in 1..m /\ n + (x - n) = x
      BY <1>12
    <3> QED
      BY <1>13, <3>1 DEF ToSet
  <2>2. ASSUME NEW x \in ToSet(ids) PROVE x \in (n + 1)..(n + m)
    BY <1>12, <1>13 DEF ToSet
  <2> QED
    BY <2>1, <2>2
<1>15. ASSUME NEW t \in (n + 1)..(n + m)
       PROVE  /\ bb.tabs[t - n] \in Ids /\ g[t].u = info[bb.tabs[t - n]].u /\ g[t].birth = info[bb.tabs[t - n]].birth
              /\ g[t].seen = info[bb.tabs[t - n]].seen /\ g[t].was = bb.tabs[t - n] /\ g[t] \in KnownTab
  <2>1. t - n \in 1..m
    BY <1>12
  <2>2. PICK old : old = bb.tabs[t - n]
    OBVIOUS
  <2>3. old \in Ids
    BY <1>4, <1>12, <2>1, <2>2
  <2>4. old \in Nat /\ info[old] \in KnownTab
    BY <1>10, <2>3, IdsAreNumbers DEF TabsAreKnown
  <2>5. g[t] = [info[old] EXCEPT !.was = old]
    BY <1>6, <1>14, <2>2
  <2>6. g[t] = [u |-> info[old].u, birth |-> info[old].birth, seen |-> info[old].seen, was |-> old]
    BY <2>4, <2>5 DEF KnownTab
  <2> QED
    BY <2>2, <2>3, <2>4, <2>6 DEF KnownTab
<1>16. DOMAIN g = (n + 1)..(n + m)
  BY <1>6, <1>14
<1>17. \A x \in Ids : info[x].seen \in Nat /\ info[x].seen <= now /\ info[x].u \in Addresses
  BY <1>10 DEF TabsAreKnown, KnownTab
<1>18. NewTabs(n, m, g)
  <2>1. \A x \in DOMAIN g : /\ g[x] \in KnownTab /\ g[x].seen <= now
                            /\ g[x].was # 0 => g[x].was \in Ids /\ g[x].birth = info[g[x].was].birth
    BY <1>15, <1>16, <1>17
  <2> QED
    BY <1>3, <1>8, <1>9, <1>12, <1>16, <2>1 DEF NewTabs
<1>19. /\ TabsAreKnown' /\ Ids' = 1..(n + m) /\ Ids = 1..n /\ Ids \subseteq Ids'
       /\ (\A t \in Ids : info'[t] = info[t]) /\ \A t \in DOMAIN g : info'[t] = g[t]
  BY <1>18, TabsGrow
<1>20. strip' \in [Slots -> Seq(Ids')] /\ OnePlace(strip') /\ OpenIn(strip') \subseteq OpenIn(strip) \cup ToSet(ids)
       /\ ToSet(ids) \cap Ids = {}
  <2>1. PICK T : T = Ids'
    OBVIOUS
  <2>2. \A i \in 1..m : ids[i] \in T
    BY <1>12, <1>13, <1>19, <2>1
  <2>3. ids \in Seq(T)
    BY <1>12, <1>13, <2>2
  <2>4. ToSet(ids) \cap Ids = {}
    BY <1>12, <1>14, <1>19
  <2>5. \A i, j \in DOMAIN ids : ids[i] = ids[j] => i = j
    BY <1>12, <1>13
  <2>6. FitsSlot(Ids, T, strip, ids)
    BY <1>10, <1>19, <2>1, <2>3, <2>4, <2>5 DEF FitsSlot
  <2>7. strip' = SetTo(strip, bb.slot, ids)
    BY <1>8 DEF SetTo
  <2>8. /\ SetTo(strip, bb.slot, ids) \in [Slots -> Seq(T)] /\ OnePlace(SetTo(strip, bb.slot, ids))
        /\ OpenIn(SetTo(strip, bb.slot, ids)) \subseteq OpenIn(strip) \cup ToSet(ids)
    BY <1>12, <2>6, WithASlot
  <2> QED
    BY <2>1, <2>4, <2>7, <2>8
<1>21. Open' \cap Ids \subseteq Open
  BY <1>20 DEF Open, OpenIn
<1>22. WorldStep
  BY <1>8, <1>9, <1>19, <1>21 DEF WorldStep
<1>23. StripSound'
  BY <1>20 DEF StripSound, OnePlace
<1>24. WindowsSound'
  <2> DEFINE A == [slot : Slots, tabs : Seq(Ids)]
             B == [slot : Slots, tabs : Seq(Ids')]
  <2>0. Ids \subseteq Ids'
    BY <1>19
  <2>1. A \subseteq B
    BY ONLY <2>0
  <2>2. back \in Seq(A)
    BY <1>10
  <2> HIDE DEF A, B
  <2>3. back' \in Seq(A)
    BY <1>8, <1>11, <2>2, TakenOut
  <2>4. back' \in Seq(B)
    BY <2>1, <2>3, WiderSeq
  <2> USE DEF B
  <2> QED
    BY <1>9, <1>10, <2>4 DEF WindowsSound
<1>25. SavedLasts'
  BY <1>9, <1>22, SavedStays
<1>26. ASSUME NEW i \in 1..m
       PROVE  es[i] \in TabUpdate' /\ EventSound(es[i])'
  <2>1. n + i \in (n + 1)..(n + m) /\ (n + i) - n = i /\ n + i \in Ids'
    BY <1>12, <1>19
  <2>2. PICK old : old = bb.tabs[i]
    OBVIOUS
  <2>3. PICK t : t = n + i
    OBVIOUS
  <2>4. old \in Ids /\ old \in ToSet(bb.tabs)
    BY <1>4, <1>12, <2>2 DEF ToSet
  <2>5. info'[t].u = info[old].u /\ info'[t].seen = info[old].seen
    BY <1>15, <1>16, <1>19, <2>1, <2>2, <2>3
  <2>6. PICK pos : pos = [w |-> windows[bb.slot], i |-> i, u |-> info[old].u]
    OBVIOUS
  <2>7. pos \in [w : Nat, i : Nat, u : Addresses] /\ pos.u = info[old].u
    BY <1>10, <1>12, <1>17, <2>4, <2>6
  <2>8. es[i] = [do |-> "created", tab |-> t, pos |-> pos, seen |-> info[old].seen]
    BY <1>7, <1>13, <2>3, <2>5, <2>6 DEF Created
  <2>9. PICK e : e = es[i]
    OBVIOUS
  <2>10. e.do = "created" /\ e.tab = t /\ e.pos = pos /\ e.seen = info[old].seen
    BY <2>8, <2>9
  <2>11. e \in TabUpdate'
    BY <1>17, <2>1, <2>3, <2>4, <2>7, <2>8, <2>9 DEF TabUpdate
  <2>12. now <= info[old].seen => <<info[old].u, now>> \in heard'
    BY <1>8, <1>10, <1>17, <2>4
  <2>13. CreatedSound(e)'
    BY <1>9, <1>17, <2>1, <2>3, <2>4, <2>5, <2>7, <2>10, <2>12 DEF CreatedSound
  <2>14. EventSound(e)'
    BY <2>10, <2>13 DEF EventSound
  <2>15. es' = es /\ i' = i
    OBVIOUS
  <2> QED
    BY <2>9, <2>11, <2>14
<1>27. ChainSound'
  <2>1. es \in Seq(TabUpdate')
    <3>1. es = [i \in 1..m |-> es[i]]
      BY <1>7, <1>13
    <3> QED
      BY <1>12, <1>26, <3>1
  <2>2. \A e \in ToSet(es) : EventSound(e)'
    <3>1. DOMAIN es = 1..m
      BY <1>7, <1>13
    <3>2. \A e \in ToSet(es) : \E i \in 1..m : e = es[i]
      BY <3>1 DEF ToSet
    <3> QED
      BY <1>26, <3>2
  <2>3. chain \in Seq(TabUpdate')
    BY <1>22, ChainOutlives
  <2> QED
    BY <1>8, <1>22, <2>1, <2>2, <2>3, ChainGrows
<1>28. starts' \in Nat /\ refresh' \in BOOLEAN
  BY <1>9 DEF AgesInv
<1> QED
  BY <1>19, <1>22, <1>23, <1>24, <1>25, <1>27, <1>28, WorldDone

LEMMA BrowserQuitsKeeps ==
    ASSUME AgesInv, BrowserQuits
    PROVE  AgesInv'
<1>1. /\ back = <<>> /\ Open # {} /\ starts' = starts + 1
      /\ strip' = [s \in Slots |-> <<>>] /\ windows' = [s \in Slots |-> 0]
      /\ back' = [i \in 1..Cardinality(Kept) |-> [slot |-> SetToSeq(Kept)[i], tabs |-> strip[SetToSeq(Kept)[i]]]]
      /\ UNCHANGED <<info, heard, ledger, keyed, writing, refresh, now, owed>>
  BY DEF BrowserQuits, worker
<1>2. PICK es : es = [i \in 1..Cardinality(Open) |-> Removed(SetToSeq(Open)[i], TRUE)]
  OBVIOUS
<1>3. PICK n \in 0..Len(chain) : chain' = SubSeq(chain, 1, n) \o IF n = Len(chain) THEN es ELSE <<>>
  BY <1>2 DEF BrowserQuits
<1>4. /\ strip \in [Slots -> Seq(Ids)] /\ OnePlace(strip) /\ windows[1] # 0 /\ windows[1] # windows[2]
      /\ TabsAreKnown /\ now \in Nat /\ StripSound /\ WindowsSound
  BY <1>1, QuietIs DEF AgesInv, StripSound
<1>5. Ids' = Ids /\ Open' = {}
  BY <1>1 DEF Ids, Open, ToSet
<1>6. WorldStep
  BY <1>1, <1>5 DEF WorldStep
<1>7. TabsAreKnown'
  BY <1>1, <1>4, <1>5 DEF TabsAreKnown
<1>8. StripSound'
  <2>1. \A s \in Slots : strip'[s] = <<>>
    BY <1>1
  <2>2. strip' \in [Slots -> Seq(Ids')]
    BY <1>1
  <2> QED
    BY <2>1, <2>2 DEF StripSound, OnePlace
<1>9. WindowsSound'
  <2> DEFINE B == [slot : Slots, tabs : Seq(Ids')]
  <2>1. IsFiniteSet(Kept) /\ Kept \subseteq Slots
    <3>1. Slots = {1, 2} /\ Kept \subseteq Slots
      BY DEF Slots, Kept
    <3>2. IsFiniteSet(1..2)
      <4>1. 1 \in Int /\ 2 \in Int
        OBVIOUS
      <4> QED
        BY <4>1, FS_Interval
    <3>3. Kept \subseteq 1..2
      BY <3>1
    <3> QED
      BY <3>1, <3>2, <3>3, FS_Subset
  <2>2. PICK f : f = SetToSeq(Kept)
    OBVIOUS
  <2>3. PICK m : m = Cardinality(Kept)
    OBVIOUS
  <2>4. m \in Nat /\ f \in [1..m -> Kept]
    BY <2>1, <2>2, <2>3, Listed
  <2>5. back' = [i \in 1..m |-> [slot |-> f[i], tabs |-> strip[f[i]]]]
    BY <1>1, <2>2, <2>3
  <2>6. \A i \in 1..m : [slot |-> f[i], tabs |-> strip[f[i]]] \in B
    BY <1>4, <1>5, <2>1, <2>4
  <2>7. Kept # {}
    <3>1. PICK t \in Open : TRUE
      BY <1>1
    <3>2. SlotOf(t) \in Slots /\ IndexOf(t) \in DOMAIN strip[SlotOf(t)]
      BY <1>4, OpenPlace
    <3>3. strip[SlotOf(t)] # <<>>
      BY <3>2
    <3> QED
      BY <3>2, <3>3 DEF Kept
  <2>8. m # 0
    BY <2>1, <2>3, <2>7, FS_EmptySet
  <2>9. back' \in Seq(B)
    <3> HIDE DEF B
    <3>1. PICK W : W = B
      OBVIOUS
    <3>2. PICK h : h = back'
      OBVIOUS
    <3>3. h = [i \in 1..m |-> h[i]] /\ \A i \in 1..m : h[i] \in W
      BY <2>5, <2>6, <3>1, <3>2
    <3>4. h \in Seq(W)
      BY <2>4, <3>3, IsASequence
    <3> QED
      BY <3>1, <3>2, <3>4
  <2>10. back' # <<>>
    <3>1. PICK h : h = back'
      OBVIOUS
    <3>2. DOMAIN h = 1..m /\ 1 \in DOMAIN h
      BY <2>4, <2>5, <2>8, <3>1
    <3>3. h # <<>>
      <4>1. 1 \notin DOMAIN <<>>
        OBVIOUS
      <4> QED
        BY <3>2, <4>1
    <3> QED
      BY <3>1, <3>3
  <2>11. windows' \in [Slots -> Nat] /\ windows'[1] = 0 /\ windows'[2] = 0
    BY <1>1 DEF Slots
  <2> QED
    BY <2>9, <2>10, <2>11 DEF WindowsSound
<1>10. /\ es \in Seq(TabUpdate') /\ (\A e \in ToSet(es) : EventSound(e)')
       /\ \A e \in ToSet(es) : e.do = "removed" /\ e.closing
  <2>1. IsFiniteSet(Open) /\ Open \subseteq Ids
    <3>1. Open \subseteq Ids
      BY <1>4, OpenPlace
    <3> QED
      BY <1>4, <3>1, IdsAreNumbers, FS_Subset
  <2>2. PICK f : f = SetToSeq(Open)
    OBVIOUS
  <2>3. PICK m : m = Cardinality(Open)
    OBVIOUS
  <2>4. m \in Nat /\ f \in [1..m -> Open]
    BY <2>1, <2>2, <2>3, Listed
  <2>5. \A i \in 1..m : f[i] \in Ids
    BY <2>1, <2>4
  <2>6. es = [i \in 1..m |-> Removed(f[i], TRUE)]
    BY <1>2, <2>2, <2>3
  <2> QED
    BY <1>6, <2>4, <2>5, <2>6, ClosingsAreSound
<1>11. ChainSound'
  <2>1. PICK c : c = SubSeq(chain, 1, n)
    OBVIOUS
  <2>2. PICK d : d = IF n = Len(chain) THEN es ELSE <<>>
    OBVIOUS
  <2>3. PICK W : W = TabUpdate'
    OBVIOUS
  <2>4. chain \in Seq(W)
    BY <1>6, <2>3, ChainOutlives
  <2>5. c \in Seq(W) /\ ToSet(c) \subseteq ToSet(chain)
    BY <1>3, <2>1, <2>4, FirstOnes
  <2>6. d \in Seq(W) /\ \A e \in ToSet(d) : e \in ToSet(es)
    <3>1. CASE d = es
      BY <1>10, <2>3, <3>1
    <3>2. CASE d = <<>>
      BY <3>2 DEF ToSet
    <3> QED
      BY <2>2, <3>1, <3>2
  <2>7. \A e \in ToSet(d) : EventSound(e)'
    BY <1>10, <2>6
  <2>8. chain' = c \o d
    BY <1>3, <2>1, <2>2
  <2> QED
    BY <1>6, <2>3, <2>5, <2>6, <2>7, <2>8, ChainGrows
<1>12. SavedLasts'
  <2> DEFINE upToDate == /\ keyed /\ chain = <<>> /\ ~writing.on /\ (refresh => Cardinality(DOMAIN ledger) <= SoftCap)
                         /\ DOMAIN ledger = Open /\ \A t \in Open : ledger[t] = Entry(Position(t), info[t].birth)
             places == [t \in Open |-> [s |-> SlotOf(t), i |-> IndexOf(t), u |-> info[t].u]]
  <2>1. saved' = IF upToDate THEN places ELSE <<>>
    BY DEF BrowserQuits
  <2>2. CASE ~upToDate
    <3>1. DOMAIN saved' = {}
      BY <2>1, <2>2
    <3> QED
      BY <3>1 DEF SavedLasts
  <2>3. CASE upToDate
    <3>0. saved' = places /\ DOMAIN saved' = Open
      BY <2>1, <2>3
    <3>1. \A o \in Open : o \in Ids /\ SlotOf(o) \in Slots
      BY <1>4, OpenPlace
    <3>2. \A o \in Open : saved'[o].s = SlotOf(o) /\ saved'[o].i = IndexOf(o) /\ saved'[o].u = info[o].u
      BY <3>0
    <3>3. \A o \in Open : ledger[o].w = windows[SlotOf(o)] /\ ledger[o].i = IndexOf(o) /\ ledger[o].u = info[o].u
                          /\ ledger[o].at = info[o].birth
      BY <1>4, <2>3, PositionIs DEF Entry
    <3>4. ASSUME NEW o \in Open, NEW x \in Open
          PROVE  ledger[o].w = ledger[x].w <=> saved'[o].s = saved'[x].s
      BY <1>4, <3>1, <3>2, <3>3 DEF Slots
    <3>5. SavedSound(ledger)'
      BY <1>1, <1>5, <2>3, <3>0, <3>1, <3>2, <3>3, <3>4 DEF SavedSound
    <3>6. chain = <<>> /\ n = 0 /\ ToSet(chain) = {}
      BY <1>3, <2>3 DEF ToSet
    <3>7. \A e \in ToSet(chain') : e.do = "removed" /\ e.closing
      <4>1. PICK c : c = SubSeq(chain, 1, n)
        OBVIOUS
      <4>2. PICK W : W = TabUpdate'
        OBVIOUS
      <4>3. chain \in Seq(W) /\ es \in Seq(W)
        BY <1>6, <1>10, <4>2, ChainOutlives
      <4>4. c \in Seq(W) /\ ToSet(c) = {}
        BY <1>3, <3>6, <4>1, <4>3, FirstOnes
      <4>5. chain' = c \o es
        BY <1>3, <3>6, <4>1
      <4>6. ToSet(chain') = ToSet(c) \cup ToSet(es)
        BY <4>3, <4>4, <4>5, Queued, ZenonT(60)
      <4> QED
        BY <1>10, <4>4, <4>6
    <3>8. LedgerRests'
      <4>1. windows'[1] = 0
        BY <1>1 DEF Slots
      <4>2. \A e \in ToSet(chain') : IdleUpdate(e)'
        BY <3>7 DEF IdleUpdate
      <4> QED
        BY <1>1, <1>5, <2>3, <4>1, <4>2 DEF LedgerRests
    <3> QED
      BY <3>5, <3>8 DEF SavedLasts
  <2> QED
    BY <2>2, <2>3
<1>13. starts' \in Nat /\ refresh' \in BOOLEAN
  BY <1>1 DEF AgesInv
<1> QED
  BY <1>6, <1>7, <1>8, <1>9, <1>11, <1>12, <1>13, WorldDone

-----------------------------------------------------------------------------
LEMMA AgesStep ==
    ASSUME AgesInv, [AgesNext]_agesVars
    PROVE  AgesInv'
<1>1. CASE AgesNext
  <2>1. CASE \/ WithLedger \/ WriteLedger \/ EnsureAgesSession \/ RefreshTimer \/ TimePasses \/ WriterDies
             \/ ExtensionReloads \/ BrowserStarts
    BY <2>1, WithLedgerKeeps, WriteLedgerKeeps, EnsureAgesSessionKeeps, RefreshTimerKeeps, TimePassesKeeps,
       WriterDiesKeeps, ExtensionReloadsKeeps, BrowserStartsKeeps
  <2>2. CASE BrowserQuits \/ WindowComesBack
    BY <2>2, BrowserQuitsKeeps, WindowComesBackKeeps
  <2>3. CASE \E s \in Slots : WindowCloses(s) \/ \E a \in Addresses : OnTabCreated(s, a)
    BY <2>3, WindowClosesKeeps, OnTabCreatedKeeps
  <2>4. CASE \E t \in Open : \/ OnTabRemoved(t) \/ (\E s \in Slots : TabMoves(t, s))
                             \/ \E a \in Addresses : TabNavigates(t, a)
    BY <2>4, OnTabRemovedKeeps, TabMovesKeeps, TabNavigatesKeeps
  <2> QED
    BY <1>1, <2>1, <2>2, <2>3, <2>4 DEF AgesNext
<1>2. CASE UNCHANGED agesVars
  <2>1. BrowserRests /\ UNCHANGED <<windows, ledger, keyed, chain, writing, refresh, starts, saved, owed>>
    BY <1>2 DEF agesVars, BrowserRests
  <2>2. TabsAreKnown' /\ StripSound' /\ WindowsSound' /\ now' \in Nat /\ Ids' = Ids /\ Open' = Open
    BY <2>1, BrowserKept
  <2>3. ChainSound'
    BY <2>1, ChainShrinks DEF AgesInv, ChainSound
  <2>4. Good(ledger)' /\ KeepsAges(ledger, owed)' /\ (owed \subseteq Ids)' /\ (SavedSound(ledger) => SavedSound(ledger)')
    BY <2>1, LedgerStays
  <2>5. WritingSound'
    BY <2>1, WritingStays
  <2>6. LedgerRests => LedgerRests'
    BY <2>1, <2>2 DEF LedgerRests, IdleUpdate
  <2>7. SavedLasts'
    BY <2>1, <2>4, <2>6 DEF AgesInv, SavedLasts
  <2> QED
    BY <2>1, <2>2, <2>3, <2>4, <2>5, <2>7 DEF AgesInv
<1> QED
  BY <1>1, <1>2

(* The age the sort reads of a tab is one its address was heard of with, and a browser that quit with an up-to-date *)
(* ledger and brought its tabs back where they were loses the age of no tab that shares its address with no other:  *)
(* the ledger's operators of lib/tab-ages.js and the one chain every update goes through.                           *)
THEOREM TheAgesAreTrue == AgesSpec => []AgesAreTrue
<1>1. AgesInit => AgesInv
  BY AgesInitially
<1>2. AgesInv /\ [AgesNext]_agesVars => AgesInv'
  BY AgesStep
<1>3. AgesInv => AgesAreTrue
  <2> SUFFICES ASSUME AgesInv PROVE AgesAreTrue
    OBVIOUS
  <2>1. NoAgeIsInvented
    BY DEF AgesInv, Good, NoAgeIsInvented
  <2>2. NoAgeIsLost
    BY DEF AgesInv, KeepsAges, NoAgeIsLost
  <2> QED
    BY <2>1, <2>2 DEF AgesAreTrue
<1> QED
  BY <1>1, <1>2, <1>3, PTL DEF AgesSpec

(***************************************************************************)
(* What a gather leaves when nobody interferes.                            *)
(***************************************************************************)
\* What leads a unit is in the group of the unit.
LEMMA UnitGroup ==
    ASSUME NEW B, NEW s \in Seq(Tabs), IsInjective(s), NEW i \in 1..Len(s), Leads(B, s, i)
    PROVE  B.group[Head(UnitAt(B, s, i))] = B.group[s[i]]
<1>1. PICK u : u = UnitAt(B, s, i)
  OBVIOUS
<1>2. u \in Seq(Tabs) /\ ToSet(u) = {x \in ToSet(s) : Kin(B, s[i], x)}
  BY <1>1, UnitAtIs
<1>3. s[i] \in ToSet(u)
  BY <1>2, KinIs DEF ToSet
<1>4. u # <<>>
  BY <1>3 DEF ToSet
<1>5. Head(u) \in ToSet(u)
  BY <1>2, <1>4, TailIs
<1>6. Kin(B, s[i], Head(u))
  BY <1>2, <1>5
<1> QED
  BY <1>1, <1>6 DEF Kin

\* A group left of another in the list of a title stands left of it in the strip.
LEMMA TitledInOrder ==
    ASSUME NEW B, WellFormed(B), NEW title, NEW w \in Windows, NEW g, NEW h, g # h,
           Before(TitledIn(B, title, w), g, h), NEW x \in ToSet(B.strip[w]), NEW y \in ToSet(B.strip[w]),
           B.group[x] = g, B.group[y] = h
    PROVE  Before(B.strip[w], x, y)
<1>1. PICK s : s = B.strip[w]
  OBVIOUS
<1>2. s \in Seq(Tabs) /\ IsInjective(s) /\ Whole(B, s) /\ None \notin Groups /\ \A t \in Tabs : B.group[t] \in Groups \cup {None}
  BY <1>1, WellFormedIs, WholeIs, BrowserIs
<1>3. PICK us, K, gs, T : /\ us = Units(B, s) /\ K = {k \in Groups : B.title[k] = title}
                          /\ gs = [i \in 1..Len(us) |-> B.group[Head(us[i])]] /\ T = TitledIn(B, title, w)
  OBVIOUS
<1> HIDE DEF Before
<1>4. /\ us \in Seq(Seq(Tabs))
      /\ ToSet(us) = {UnitAt(B, s, i) : i \in {j \in 1..Len(s) : Leads(B, s, j)}}
      /\ \A u, v : Before(us, u, v) <=>
           \E i, j \in 1..Len(s) : /\ i < j /\ Leads(B, s, i) /\ Leads(B, s, j)
                                   /\ u = UnitAt(B, s, i) /\ v = UnitAt(B, s, j)
  <2>1. /\ Units(B, s) \in Seq(Seq(Tabs))
        /\ ToSet(Units(B, s)) = {UnitAt(B, s, i) : i \in {j \in 1..Len(s) : Leads(B, s, j)}}
        /\ \A u, v : Before(Units(B, s), u, v) <=>
             \E i, j \in 1..Len(s) : /\ i < j /\ Leads(B, s, i) /\ Leads(B, s, j)
                                     /\ u = UnitAt(B, s, i) /\ v = UnitAt(B, s, j)
    BY ONLY <1>2, UnitsAre
  <2>2. us = Units(B, s)
    BY ONLY <1>3
  <2> QED
    BY ONLY <2>1, <2>2
<1>5. \A i \in 1..Len(s) : Leads(B, s, i) => B.group[Head(UnitAt(B, s, i))] = B.group[s[i]]
  BY <1>2, UnitGroup
<1>6. Len(us) \in Nat /\ DOMAIN us = 1..Len(us)
  BY <1>4, Numbered
<1>7. T = Only(gs, K)
  BY <1>1, <1>3 DEF TitledIn
<1>8. Before(gs, g, h) /\ g \in K /\ h \in K
  <2>1. PICK V : V = {B.group[Head(us[i])] : i \in 1..Len(us)}
    OBVIOUS
  <2>2. gs \in Seq(V)
    <3>1. \A i \in 1..Len(us) : B.group[Head(us[i])] \in V
      BY <2>1
    <3> QED
      BY <1>3, <1>6, <3>1
  <2>3. \A p, q : Before(Only(gs, K), p, q) <=> (Before(gs, p, q) /\ p \in K /\ q \in K)
    BY ONLY <2>2, OnlyIs
  <2> QED
    BY <1>3, <1>7, <2>3
<1>9. \E u, v : Before(us, u, v) /\ B.group[Head(u)] = g /\ B.group[Head(v)] = h
  <2>1. PICK i, j \in DOMAIN gs : i < j /\ gs[i] = g /\ gs[j] = h
    BY <1>8 DEF Before
  <2>2. i \in 1..Len(us) /\ j \in 1..Len(us) /\ B.group[Head(us[i])] = g /\ B.group[Head(us[j])] = h
    BY <1>3, <2>1
  <2>3. Before(us, us[i], us[j])
    BY <1>6, <2>1, <2>2 DEF Before
  <2> QED
    BY <2>2, <2>3
<1>10. PICK i, j \in 1..Len(s) : i < j /\ Leads(B, s, i) /\ Leads(B, s, j) /\ B.group[s[i]] = g /\ B.group[s[j]] = h
  <2>1. PICK u, v : Before(us, u, v) /\ B.group[Head(u)] = g /\ B.group[Head(v)] = h
    BY <1>9
  <2>2. PICK i, j \in 1..Len(s) : /\ i < j /\ Leads(B, s, i) /\ Leads(B, s, j)
                                  /\ u = UnitAt(B, s, i) /\ v = UnitAt(B, s, j)
    BY <1>4, <2>1
  <2> QED
    BY <1>5, <2>1, <2>2
<1>11. g # None /\ h # None
  BY <1>2, <1>3, <1>8
<1>12. PICK m, n \in 1..Len(s) : s[m] = x /\ s[n] = y
  BY <1>1, <1>2, Numbered DEF ToSet
<1>13. j <= n
  <2>1. Kin(B, s[n], s[j])
    BY <1>10, <1>11, <1>12 DEF Kin
  <2>2. \A k \in 1..(j - 1) : ~Kin(B, s[k], s[j])
    BY <1>10 DEF Leads
  <2> QED
    BY <2>1, <2>2, <1>2
<1>14. x # y
  OBVIOUS
<1>15. CASE m < n
  BY <1>1, <1>2, <1>12, <1>15, Numbered DEF Before
<1>16. CASE n < m
  <2>1. Before(s, s[i], y) /\ Before(s, y, x)
    <3>1. i < n /\ DOMAIN s = 1..Len(s) /\ Len(s) \in Nat
      BY <1>2, <1>10, <1>13, Numbered
    <3> QED
      BY <1>12, <1>16, <3>1 DEF Before
  <2>2. Kin(B, s[i], x)
    BY <1>10, <1>11 DEF Kin
  <2>3. Kin(B, s[i], y)
    BY <1>2, <2>1, <2>2 DEF Whole
  <2> QED
    BY <1>10, <2>3, <1>14 DEF Kin
<1> QED
  BY <1>12, <1>14, <1>15, <1>16

LEMMA HeadBefore ==
    ASSUME NEW T, NEW s \in Seq(T), s # <<>>, NEW x \in ToSet(s), x # Head(s)
    PROVE  Before(s, Head(s), x)
<1>1. Len(s) \in Nat /\ DOMAIN s = 1..Len(s) /\ Len(s) > 0 /\ Head(s) = s[1]
  OBVIOUS
<1>2. PICK k \in 1..Len(s) : s[k] = x
  BY <1>1 DEF ToSet
<1>3. 1 < k
  BY <1>1, <1>2
<1> QED
  BY <1>1, <1>2, <1>3 DEF Before

(***************************************************************************)
(* The tabs of a title, and the group of it that stands first.             *)
(***************************************************************************)
TT(B, title) == {t \in OpenTabs(B) : B.group[t] # None /\ B.title[B.group[t]] = title}
Foremost(B, g, title, w) ==
  /\ B.title[g] = title /\ g \in Groups /\ \E x \in ToSet(B.strip[w]) : B.group[x] = g
  /\ \A y \in TT(B, title) : y \in ToSet(B.strip[w]) /\ B.group[y] # g => Follows(B, g, w, y)

LEMMA HeadIsForemost ==
    ASSUME NEW B, WellFormed(B), NEW title, NEW w \in Windows, NEW T, T = TitledIn(B, title, w), T # <<>>
    PROVE  Foremost(B, Head(T), title, w)
<1>1. /\ T \in Seq(Groups)
      /\ ToSet(T) = {g \in Groups : B.title[g] = title /\ \E x \in ToSet(B.strip[w]) : B.group[x] = g}
  BY TitledInIs
<1>2. PICK g : g = Head(T)
  OBVIOUS
<1>3. g \in ToSet(T)
  BY <1>1, <1>2 DEF ToSet
<1>4. Ready(B)
  BY WellFormedIsReady
<1> HIDE DEF Before
<1>5. ASSUME NEW y \in TT(B, title), y \in ToSet(B.strip[w]), B.group[y] # g
      PROVE  Follows(B, g, w, y)
  <2>1. y \in Tabs /\ B.group[y] \in Groups /\ B.title[B.group[y]] = title
    BY <1>4, <1>5, BrowserIs DEF TT
  <2>2. B.group[y] \in ToSet(T)
    BY <1>1, <1>5, <2>1
  <2>3. PICK h : h = B.group[y]
    OBVIOUS
  <2>4. Before(T, g, h) /\ g # h
    BY <1>1, <1>2, <1>5, <2>2, <2>3, HeadBefore
  <2>5. ASSUME NEW x \in ToSet(B.strip[w]), B.group[x] = g PROVE Before(B.strip[w], x, y)
    BY <1>5, <2>3, <2>4, <2>5, TitledInOrder
  <2> QED
    BY <1>5, <2>5 DEF Follows
<1> QED
  BY <1>1, <1>2, <1>3, <1>5 DEF Foremost

LEMMA ForemostIsHead ==
    ASSUME NEW B, WellFormed(B), NEW title, NEW w \in Windows, NEW g, Foremost(B, g, title, w), g # None
    PROVE  TitledIn(B, title, w) # <<>> /\ Head(TitledIn(B, title, w)) = g
<1>1. PICK T : T = TitledIn(B, title, w)
  OBVIOUS
<1>2. /\ T \in Seq(Groups)
      /\ ToSet(T) = {h \in Groups : B.title[h] = title /\ \E x \in ToSet(B.strip[w]) : B.group[x] = h}
  BY <1>1, TitledInIs
<1>3. g \in ToSet(T)
  BY <1>2 DEF Foremost
<1>4. T # <<>>
  BY <1>3 DEF ToSet
<1> HIDE DEF Before
<1>5. ASSUME Head(T) # g PROVE FALSE
  <2>1. PICK h : h = Head(T)
    OBVIOUS
  <2>2. h \in ToSet(T) /\ h # g
    BY <1>2, <1>4, <1>5, <2>1 DEF ToSet
  <2>3. PICK x \in ToSet(B.strip[w]) : B.group[x] = g
    BY DEF Foremost
  <2>4. PICK y \in ToSet(B.strip[w]) : B.group[y] = h
    BY <1>2, <2>2
  <2>5. Ready(B) /\ h \in Groups /\ B.title[h] = title
    BY <1>2, <2>2, WellFormedIsReady
  <2>6. y \in TT(B, title)
    BY <2>4, <2>5, OpenIs, BrowserIs DEF TT
  <2>7. Before(B.strip[w], x, y)
    BY <2>2, <2>3, <2>4, <2>6 DEF Foremost, Follows
  <2>8. Before(B.strip[w], y, x)
    <3>1. Before(T, h, g)
      BY <1>2, <1>3, <1>4, <2>1, <2>2, HeadBefore
    <3> QED
      BY <1>1, <2>2, <2>3, <2>4, <3>1, TitledInOrder
  <2>9. B.strip[w] \in Seq(Tabs) /\ IsInjective(B.strip[w])
    BY <2>5, BrowserIs
  <2> QED
    BY <2>7, <2>8, <2>9, OneWay
<1> QED
  BY <1>1, <1>4, <1>5

(***************************************************************************)
(* Gathering: where the tabs of the title are, at every step.              *)
(***************************************************************************)
LEMMA TTIs ==
    ASSUME NEW B, Ready(B), NEW title, NEW t
    PROVE  t \in TT(B, title) <=> /\ t \in Tabs /\ B.group[t] \in Groups /\ B.title[B.group[t]] = title
                                  /\ \E v \in Windows : t \in ToSet(B.strip[v])
<1>1. OpenTabs(B) \subseteq Tabs /\ None \notin Groups /\ \A x \in Tabs : B.group[x] \in Groups \cup {None}
  BY BrowserIs
<1> QED
  BY <1>1, OpenIs DEF TT

LEMMA TitledIs ==
    ASSUME NEW B, WellFormed(B), NEW title
    PROVE  /\ \A g : g \in Titled(B, title) <=> g \in Groups /\ \E t \in TT(B, title) : B.group[t] = g
           /\ IsFiniteSet(Titled(B, title))
<1>1. Ready(B) /\ B.group \in [Tabs -> Groups \cup {None}] /\ None \notin Groups
  BY WellFormedIsReady, BrowserIs DEF WellFormed, Browsers
<1>2. ASSUME NEW g, g \in Groups, B.title[g] = title, Lives(B, g)
      PROVE  \E t \in TT(B, title) : B.group[t] = g
  <2>1. PICK t : t = Head(Members(B, g))
    OBVIOUS
  <2>2. t \in ToSet(Members(B, g)) /\ ToSet(Members(B, g)) = {x \in OpenTabs(B) : B.group[x] = g}
    BY <1>1, <1>2, <2>1, MembersAre
  <2>3. t \in TT(B, title)
    BY <1>1, <1>2, <2>2 DEF TT
  <2> QED
    BY <2>2, <2>3
<1>3. ASSUME NEW t \in TT(B, title)
      PROVE  Lives(B, B.group[t])
  <2>1. PICK g : g = B.group[t]
    OBVIOUS
  <2>2. t \in OpenTabs(B) /\ B.group[t] = g /\ g # None
    BY <1>3, <2>1 DEF TT
  <2>3. Lives(B, g)
    BY <1>1, <2>2, MembersAre
  <2> QED
    BY <2>1, <2>3
<1>4. \A t \in TT(B, title) : B.title[B.group[t]] = title
  BY DEF TT
<1>5. IsFiniteSet(Titled(B, title))
  <2>1. PICK T, f : f = B.group /\ T = {f[x] : x \in Tabs}
    OBVIOUS
  <2>2. f \in Surjection(Tabs, T)
    BY <1>1, <2>1 DEF Surjection
  <2>3. IsFiniteSet(T)
    BY <2>2, StripAssumption, FS_Surjection
  <2>4. Titled(B, title) \subseteq T
    <3>1. SUFFICES ASSUME NEW g \in Titled(B, title) PROVE g \in T
      OBVIOUS
    <3>2. PICK t \in TT(B, title) : B.group[t] = g
      BY <1>2, <3>1 DEF Titled
    <3>3. t \in Tabs
      BY <1>1, TTIs
    <3> QED
      BY <2>1, <3>2, <3>3
  <2> QED
    BY <2>3, <2>4, FS_Subset
<1> QED
  BY <1>2, <1>3, <1>4, <1>5 DEF Titled

LEMMA SameTT ==
    ASSUME NEW B, NEW C, WellFormed(B), SameGroups(B, C), C.title = B.title, NEW title
    PROVE  TT(C, title) = TT(B, title)
<1>1. Ready(B) /\ Ready(C)
  BY WellFormedIsReady DEF SameGroups
<1>2. \A t : t \in TT(B, title) <=> t \in TT(C, title)
  BY <1>1, TTIs DEF SameGroups
<1> QED
  BY <1>2

Wanted(o) == TT(o.was, o.title)
\* The window's own first group of the title is still its first, and what is outside is listed.
Standing(o, B) ==
  /\ o.rest \in Seq(Groups)
  /\ First(o) # <<>> => Foremost(B, Head(First(o)), o.title, o.w) /\ o.keep = Head(First(o))
  /\ \A t \in TT(B, o.title) : \/ t \in ToSet(B.strip[o.w]) \/ B.group[t] \in ToSet(o.rest)
                               \/ o.pc = "move in" /\ B.group[t] = o.g
MovingIn(o, B) ==
  /\ TT(B, o.title) \cup ToSet(o.moved) = Wanted(o)
  /\ ToSet(o.moved) \subseteq ToSet(B.strip[o.w]) \ B.pinned
  /\ o.from # o.w /\ o.g \in Groups /\ B.title[o.g] = o.title
  /\ ToSet(o.part) = {t \in OpenTabs(B) : B.group[t] = o.g} /\ ToSet(o.part) \subseteq ToSet(B.strip[o.from])
Together2(o, B) ==
  ItsFirst(o) /\ \A t \in OpenTabs(B) : B.group[t] = o.g => t \in Wanted(o) /\ t \in ToSet(B.strip[o.w])
Folding(o, B) ==
  /\ o.todo \in Seq(Groups) /\ o.keep \in Groups /\ B.title[o.keep] = o.title
  /\ \E x \in ToSet(B.strip[o.w]) : B.group[x] = o.keep
  /\ First(o) # <<>> => o.keep = Head(First(o))
  /\ \A t \in TT(B, o.title) : t \in ToSet(B.strip[o.w]) /\ B.group[t] \in ToSet(o.todo) \cup {o.keep}
Gathered(o, B) ==
  \/ Wanted(o) = {}
  \/ /\ TT(B, o.title) = Wanted(o) /\ o.keep \in Groups /\ TT(B, o.title) # {}
     /\ First(o) # <<>> => o.keep = Head(First(o))
     /\ \A t \in TT(B, o.title) : t \in ToSet(B.strip[o.w]) /\ B.group[t] = o.keep
GatherSteps == JoinSteps \cup {"gather", "gather next", "move in", "fold", "done"}
GatherKnown(o, B) ==
  /\ o.pc = "gather" => B = o.was
  /\ o.pc \in JoinSteps \cup {"gather next", "move in"} => Standing(o, B)
  /\ o.pc \in {"gather next", "fold"} => TT(B, o.title) = Wanted(o)
  /\ o.pc = "move in" => MovingIn(o, B)
  /\ o.pc = "group" => o.ids # <<>> /\ ToSet(o.ids) \subseteq ToSet(B.strip[o.w]) \ B.pinned
  /\ o.pc \in JoinSteps => TT(B, o.title) \cup ToSet(o.ids) = Wanted(o)
  /\ o.pc \in Late => Together2(o, B)
  /\ o.pc = "collapse" => B.title[o.g] = o.title
  /\ o.pc = "fold" => Folding(o, B)
  /\ o.pc = "done" => o.failed \/ Gathered(o, B)
GatherGoes(o, B) ==
  /\ o.kind = "gather" /\ o.pc \in GatherSteps /\ (o.failed => o.pc = "done") /\ o.title # "same" /\ WellFormed(o.was)
  /\ JoinKnown(o, B) /\ GatherKnown(o, B)

\* What the steps of a gather leave of it as it was.
Same(o, n) == /\ n.kind = o.kind /\ n.title = o.title /\ n.w = o.w /\ n.was = o.was /\ n.failed = o.failed
              /\ First(n) = First(o) /\ Wanted(n) = Wanted(o)
LEMMA SameIs ==
    ASSUME NEW o, NEW n, NEW f, Wrote(o, n, f), DOMAIN f \subseteq {"pc", "g", "todo", "keep", "rest", "part", "moved", "from", "ids"}
    PROVE  Same(o, n)
<1>1. n.kind = o.kind /\ n.title = o.title /\ n.w = o.w
  BY WroteIs
<1>2. n.was = o.was /\ n.failed = o.failed
  BY WroteMore
<1> QED
  BY <1>1, <1>2 DEF Same, First, Wanted

LEMMA GatherStarts ==
    ASSUME BrowserSound, GatherGroup, GatherGoes(op, b)
    PROVE  GatherGoes(op', b')
<1>1. op.pc = "gather" /\ b' = b /\ WellFormed(b) /\ OpFields \subseteq DOMAIN op /\ op.w \in Windows
  BY StepsAt, WorkingTold DEF GatherGroup, Named
<1>2. op.kind = "gather" /\ ~op.failed /\ op.title # "same" /\ WellFormed(op.was) /\ b = op.was
  BY <1>1 DEF GatherGoes, GatherKnown
<1>3. PICK n, o, B : n = op' /\ o = op /\ B = b
  OBVIOUS
<1>4. PICK here, h, l : /\ here = TitledIn(b, op.title, op.w) /\ h = (IF here = <<>> THEN None ELSE Head(here))
                        /\ l = SetToSeq(Titled(b, op.title) \ ToSet(here))
  OBVIOUS
<1>5. PICK f, e : f = [pc |-> "gather next", keep |-> h, rest |-> l] /\ e = [pc |-> "done", failed |-> TRUE]
  OBVIOUS
<1>6. /\ DOMAIN f = {"pc", "keep", "rest"} /\ f.pc = "gather next" /\ f.keep = h /\ f.rest = l
      /\ DOMAIN e = {"pc", "failed"} /\ e.pc = "done" /\ e.failed
  BY <1>5
<1>7. Wrote(op, n, f) \/ Wrote(op, n, e)
  <2>1. Move(f) \/ Move(e)
    BY <1>4, <1>5 DEF GatherGroup
  <2> QED
    BY <1>1, <1>3, <2>1, MoveIs
<1>8. CASE Wrote(op, n, e)
  <2>0. Wrote(o, n, e) /\ DOMAIN e = {"pc", "failed"} /\ e.pc = "done"
    BY <1>3, <1>6, <1>8
  <2>1. n.pc = "done" /\ n.kind = "gather" /\ n.title = op.title
    <3>1. n.pc = e.pc /\ n.kind = o.kind /\ n.title = o.title
      BY ONLY <2>0, WroteIs
    <3> QED
      BY <1>2, <1>3, <2>0, <3>1
  <2>2. n.failed /\ n.was = op.was
    BY <1>6, <1>8, WroteMore
  <2> QED
    BY <1>2, <1>3, <2>1, <2>2 DEF GatherGoes, GatherKnown, GatherSteps, JoinSteps, JoinKnown, Late
<1>9. CASE Wrote(op, n, f)
  <2>1. n.pc = "gather next" /\ n.keep = h /\ n.w = op.w /\ n.title = op.title
    BY <1>6, <1>9, WroteIs, ZenonT(60)
  <2>2. n.rest = l
    BY <1>6, <1>9, WroteMore
  <2>3. Same(o, n)
    BY <1>3, <1>6, <1>9, SameIs
  <2>4. First(n) = here /\ Wanted(n) = TT(B, o.title)
    BY <1>2, <1>3, <1>4, <2>3 DEF Same, First, Wanted
  <2>5. /\ ToSet(here) = {g \in Groups : b.title[g] = op.title /\ \E x \in ToSet(b.strip[op.w]) : b.group[x] = g}
    BY <1>1, <1>4, TitledInIs
  <2>6. l \in Seq(Groups) /\ ToSet(l) = Titled(b, op.title) \ ToSet(here)
    <3>1. PICK S : S = Titled(b, op.title) \ ToSet(here)
      OBVIOUS
    <3>2. IsFiniteSet(S) /\ S \subseteq Groups
      <4>1. PICK T : T = Titled(b, op.title)
        OBVIOUS
      <4>2. IsFiniteSet(T) /\ T \subseteq Groups
        BY <1>1, <4>1, TitledIs DEF Titled
      <4>3. S \subseteq T
        BY <3>1, <4>1
      <4> QED
        BY <4>2, <4>3, FS_Subset
    <3>3. l = SetToSeq(S) /\ SetToSeq(S) \in Seq(S) /\ ToSet(SetToSeq(S)) = S
      BY <1>4, <3>1, <3>2, ListedAll
    <3> QED
      BY <3>1, <3>2, <3>3, SeqMonotonic
  <2>7. here # <<>> => Foremost(B, Head(here), o.title, o.w) /\ h = Head(here)
    BY <1>1, <1>3, <1>4, HeadIsForemost
  <2>8. ASSUME NEW t \in TT(B, o.title) PROVE t \in ToSet(B.strip[o.w]) \/ B.group[t] \in ToSet(l)
    <3>1. Ready(B)
      BY <1>1, <1>3, WellFormedIsReady
    <3>2. t \in Tabs /\ B.group[t] \in Groups /\ B.title[B.group[t]] = o.title
      BY <3>1, TTIs
    <3>3. B.group[t] \in Titled(B, o.title)
      BY <1>1, <1>3, <3>2, TitledIs
    <3>4. CASE B.group[t] \in ToSet(here)
      <4>1. PICK x \in ToSet(B.strip[o.w]) : B.group[x] = B.group[t]
        BY <1>3, <2>5, <3>4
      <4>2. PICK v \in Windows : t \in ToSet(B.strip[v])
        BY <3>1, TTIs
      <4>3. B.group[t] # None
        BY <3>1, <3>2, BrowserIs
      <4>4. v = o.w
        BY <1>1, <1>3, <3>1, <4>1, <4>2, <4>3 DEF Ready
      <4> QED
        BY <4>2, <4>4
    <3> QED
      BY <1>3, <2>6, <3>3, <3>4
  <2>9. Standing(n, B)
    BY <1>3, <2>1, <2>2, <2>4, <2>6, <2>7, <2>8 DEF Standing
  <2> QED
    BY <1>1, <1>2, <1>3, <2>1, <2>3, <2>4, <2>9 DEF Same, GatherGoes, GatherKnown, GatherSteps, JoinSteps, JoinKnown, Late
<1> QED
  BY <1>7, <1>8, <1>9

LEMMA NoneIn == ToSet(<<>>) = {}
  BY DEF ToSet

LEMMA HeadTail ==
    ASSUME NEW T, NEW s \in Seq(T), s # <<>>
    PROVE  Head(s) \in T /\ Tail(s) \in Seq(T) /\ ToSet(s) = {Head(s)} \cup ToSet(Tail(s))
<1>1. PICK g, l : g = Head(s) /\ l = Tail(s)
  OBVIOUS
<1>2. l \in Seq(T) /\ g \in T /\ Len(l) = Len(s) - 1 /\ Len(s) \in Nat
      /\ (\A i \in 1..Len(l) : l[i] = s[i + 1]) /\ g = s[1] /\ Len(s) > 0
  BY <1>1
<1>3. \A x \in ToSet(s) : x \in {g} \cup ToSet(l)
  <2>1. SUFFICES ASSUME NEW i \in 1..Len(s) PROVE s[i] \in {g} \cup ToSet(l)
    BY Numbered DEF ToSet
  <2>2. CASE i = 1
    BY <1>2, <2>2
  <2>3. CASE i # 1
    <3>1. i - 1 \in 1..Len(l) /\ l[i - 1] = s[i]
      BY <1>2, <2>3
    <3> QED
      BY <1>2, <3>1 DEF ToSet
  <2> QED
    BY <2>2, <2>3
<1>4. \A x \in {g} \cup ToSet(l) : x \in ToSet(s)
  <2>1. /\ \A i \in 1..Len(s) : s[i] \in ToSet(s)
        /\ \A x \in ToSet(l) : \E i \in 1..Len(l) : x = l[i]
    BY <1>2 DEF ToSet
  <2>2. \A i \in 1..Len(l) : i + 1 \in 1..Len(s)
    BY <1>2
  <2>3. g \in ToSet(s)
    BY ONLY <1>2, <2>1
  <2>4. \A x \in ToSet(l) : x \in ToSet(s)
    BY ONLY <1>2, <2>1, <2>2
  <2> QED
    BY ONLY <2>3, <2>4
<1> QED
  BY <1>1, <1>2, <1>3, <1>4

LEMMA GatherNexts ==
    ASSUME BrowserSound, NextGroup, GatherGoes(op, b)
    PROVE  GatherGoes(op', b')
<1>1. op.pc = "gather next" /\ op.rest # <<>> /\ b' = b /\ WellFormed(b) /\ OpFields \subseteq DOMAIN op /\ op.w \in Windows
  BY StepsAt, WorkingTold DEF NextGroup, Named
<1>2. PICK n, o, B : n = op' /\ o = op /\ B = b
  OBVIOUS
<1>3. /\ o.kind = "gather" /\ ~o.failed /\ o.title # "same" /\ WellFormed(o.was)
      /\ Standing(o, B) /\ TT(B, o.title) = Wanted(o) /\ o.pc = "gather next" /\ WellFormed(B)
  BY <1>1, <1>2 DEF GatherGoes, GatherKnown
<1>4. PICK g, l, p, v : g = Head(o.rest) /\ l = Tail(o.rest) /\ p = Members(B, g) /\ v = GroupWindow(B, g)
  OBVIOUS
<1>5. l \in Seq(Groups) /\ g \in Groups /\ ToSet(o.rest) = {g} \cup ToSet(l)
  <2>1. o.rest \in Seq(Groups) /\ o.rest # <<>>
    BY <1>1, <1>2, <1>3 DEF Standing
  <2> QED
    BY <1>4, <2>1, HeadTail
<1>6. PICK f, e : /\ f = [pc |-> "move in", rest |-> l, g |-> g, from |-> v, part |-> p, moved |-> <<>>]
                  /\ e = [rest |-> l]
  OBVIOUS
<1>7. /\ DOMAIN f = {"pc", "rest", "g", "from", "part", "moved"} /\ f.pc = "move in" /\ f.rest = l /\ f.g = g
      /\ f.from = v /\ f.part = p /\ f.moved = <<>>
  BY <1>6
<1>8. DOMAIN e = {"rest"} /\ e.rest = l
  BY <1>6
<1>9. PICK moves : moves = (g \in Titled(B, o.title) /\ v # o.w)
  OBVIOUS
<1>10. (moves /\ Wrote(o, n, f)) \/ (~moves /\ Wrote(o, n, e))
  <2>1. (moves /\ Move(f)) \/ (~moves /\ Move(e))
    BY <1>2, <1>4, <1>6, <1>9 DEF NextGroup
  <2> QED
    BY <1>1, <1>2, <2>1, MoveIs
<1>11. CASE moves /\ Wrote(o, n, f)
  <2>0. Wrote(o, n, f)
    BY <1>11
  <2>1. n.pc = "move in" /\ n.g = g /\ n.from = v /\ n.part = p /\ n.moved = <<>> /\ n.keep = o.keep
    BY ONLY <1>7, <2>0, WroteIs, ZenonT(60)
  <2>2. n.rest = l
    <3>1. n.rest = IF "rest" \in DOMAIN f THEN f.rest ELSE o.rest
      BY ONLY <2>0, WroteMore
    <3> QED
      BY <1>7, <3>1
  <2>3. Same(o, n)
    BY ONLY <1>7, <2>0, SameIs
  <2>4. Ready(B) /\ Lives(B, g) /\ B.title[g] = o.title
    BY <1>3, <1>9, <1>11, WellFormedIsReady DEF Titled
  <2>5. ToSet(p) = {t \in OpenTabs(B) : B.group[t] = g} /\ ToSet(p) \subseteq ToSet(B.strip[v])
    BY <1>4, <2>4, MembersAre
  <2>6. MovingIn(n, B)
    <3>1. ToSet(<<>>) = {}
      BY DEF ToSet
    <3> QED
      BY <1>3, <1>5, <1>9, <1>11, <2>1, <2>3, <2>4, <2>5, <3>1 DEF MovingIn, Same
  <2>7. Standing(n, B)
    BY <1>3, <1>5, <2>1, <2>2, <2>3 DEF Standing, Same
  <2> QED
    BY <1>1, <1>2, <1>3, <2>1, <2>3, <2>6, <2>7 DEF Same, GatherGoes, GatherKnown, GatherSteps, JoinSteps, JoinKnown, Late
<1>12. CASE ~moves /\ Wrote(o, n, e)
  <2>0. Wrote(o, n, e)
    BY <1>12
  <2>1. n.pc = o.pc /\ n.keep = o.keep
    BY ONLY <1>8, <2>0, WroteIs
  <2>2. n.rest = l
    BY ONLY <1>8, <2>0, WroteMore
  <2>3. Same(o, n)
    BY ONLY <1>8, <2>0, SameIs
  <2>4. ASSUME NEW t \in TT(B, o.title), B.group[t] = g PROVE t \in ToSet(B.strip[o.w])
    <3>1. Ready(B)
      BY <1>3, WellFormedIsReady
    <3>2. g \in Titled(B, o.title)
      BY <1>3, <1>5, <2>4, TitledIs
    <3>3. v = o.w
      BY <1>9, <1>12, <3>2
    <3>4. t \in OpenTabs(B) /\ g # None
      BY <2>4 DEF TT
    <3>5. t \in ToSet(B.strip[GroupWindow(B, g)])
      BY <2>4, <3>1, <3>4, MembersAre
    <3> QED
      BY <1>4, <3>3, <3>5
  <2>5. Standing(n, B)
    <3>1. \A t \in TT(B, o.title) : t \in ToSet(B.strip[o.w]) \/ B.group[t] \in ToSet(l)
      BY <1>3, <1>5, <2>4 DEF Standing
    <3> QED
      BY <1>3, <1>5, <2>1, <2>2, <2>3, <3>1 DEF Standing, Same
  <2> QED
    BY <1>1, <1>2, <1>3, <2>1, <2>3, <2>5 DEF Same, GatherGoes, GatherKnown, GatherSteps, JoinSteps, JoinKnown, Late
<1> QED
  BY <1>10, <1>11, <1>12

\* All that moved is in the window and may join; nothing is left of the group it came from.
LEMMA GatherArrives ==
    ASSUME BrowserSound, JoinHost, GatherGoes(op, b)
    PROVE  GatherGoes(op', b')
<1>1. /\ op.pc = "move in" /\ op.part = <<>> /\ b' = b /\ OpFields \subseteq DOMAIN op /\ Once(op.moved)
  BY StepsAt, WorkingTold DEF JoinHost, Stage
<1>2. PICK n, o, B : n = op' /\ o = op /\ B = b
  OBVIOUS
<1>3. /\ o.kind = "gather" /\ ~o.failed /\ o.title # "same" /\ WellFormed(o.was)
      /\ Standing(o, B) /\ MovingIn(o, B)
  BY <1>1, <1>2 DEF GatherGoes, GatherKnown
<1>4. PICK S, here : S = ToSet(B.strip[o.w]) \ B.pinned /\ here = Only(o.moved, S)
  OBVIOUS
<1>5. here = o.moved
  <2>1. PICK m : m = o.moved
    OBVIOUS
  <2>2. m \in Seq(Tabs) /\ IsInjective(m) /\ ToSet(m) \subseteq S
    BY <1>1, <1>2, <1>3, <1>4, <2>1 DEF MovingIn, Once
  <2>3. Only(m, S) = m
    BY ONLY <2>2, OnlyAll
  <2> QED
    BY <1>4, <2>1, <2>3
<1>6. \A t \in TT(B, o.title) : t \in ToSet(B.strip[o.w]) \/ B.group[t] \in ToSet(o.rest)
  <2>1. ToSet(o.part) = {}
    BY <1>1, <1>2, NoneIn
  <2>2. \A t \in TT(B, o.title) : B.group[t] # o.g
    BY <1>3, <2>1 DEF MovingIn, TT
  <2> QED
    BY <1>3, <2>2 DEF Standing
<1>7. PICK f, e : f = [pc |-> "gather next"] /\ e = [pc |-> "group", ids |-> here]
  OBVIOUS
<1>8. DOMAIN f = {"pc"} /\ f.pc = "gather next"
  BY <1>7
<1>9. DOMAIN e = {"pc", "ids"} /\ e.pc = "group" /\ e.ids = here
  BY <1>7
<1>10. (here = <<>> /\ Wrote(o, n, f)) \/ (here # <<>> /\ Wrote(o, n, e))
  <2>1. (here = <<>> /\ Move(f)) \/ (here # <<>> /\ Move(e))
    BY <1>2, <1>4, <1>7 DEF JoinHost
  <2> QED
    BY <1>1, <1>2, <2>1, MoveIs
<1>11. CASE here = <<>> /\ Wrote(o, n, f)
  <2>0. Wrote(o, n, f)
    BY <1>11
  <2>1. n.pc = "gather next" /\ n.keep = o.keep
    BY ONLY <1>8, <2>0, WroteIs
  <2>2. n.rest = o.rest
    BY ONLY <1>8, <2>0, WroteMore
  <2>3. Same(o, n)
    BY ONLY <1>8, <2>0, SameIs
  <2>4. TT(B, o.title) = Wanted(o)
    <3>1. ToSet(o.moved) = {}
      BY <1>5, <1>11 DEF ToSet
    <3> QED
      BY <1>3, <3>1 DEF MovingIn
  <2>5. Standing(n, B)
    BY <1>3, <1>6, <2>1, <2>2, <2>3 DEF Standing, Same
  <2> QED
    BY <1>1, <1>2, <1>3, <2>1, <2>3, <2>4, <2>5 DEF Same, GatherGoes, GatherKnown, GatherSteps, JoinSteps, JoinKnown, Late
<1>12. CASE here # <<>> /\ Wrote(o, n, e)
  <2>0. Wrote(o, n, e)
    BY <1>12
  <2>1. n.pc = "group" /\ n.keep = o.keep /\ n.ids = here
    BY ONLY <1>9, <2>0, WroteIs
  <2>2. n.rest = o.rest
    BY ONLY <1>9, <2>0, WroteMore
  <2>3. Same(o, n)
    BY ONLY <1>9, <2>0, SameIs
  <2>4. TT(B, o.title) \cup ToSet(n.ids) = Wanted(o) /\ ToSet(n.ids) \subseteq ToSet(B.strip[o.w]) \ B.pinned
    BY <1>3, <1>5, <2>1 DEF MovingIn
  <2>5. Standing(n, B)
    BY <1>3, <1>6, <2>1, <2>2, <2>3 DEF Standing, Same
  <2> QED
    BY <1>1, <1>2, <1>3, <1>12, <2>1, <2>3, <2>4, <2>5 DEF Same, GatherGoes, GatherKnown, GatherSteps, JoinSteps, JoinKnown, Late
<1> QED
  BY <1>10, <1>11, <1>12

LEMMA GatherPlansFold ==
    ASSUME BrowserSound, FoldPlan, GatherGoes(op, b)
    PROVE  GatherGoes(op', b')
<1>1. op.pc = "gather next" /\ op.rest = <<>> /\ b' = b /\ WellFormed(b) /\ OpFields \subseteq DOMAIN op /\ op.w \in Windows
  BY StepsAt, WorkingTold DEF FoldPlan, Named
<1>2. PICK n, o, B : n = op' /\ o = op /\ B = b
  OBVIOUS
<1>3. /\ o.kind = "gather" /\ ~o.failed /\ o.title # "same" /\ WellFormed(o.was) /\ o.pc = "gather next"
      /\ Standing(o, B) /\ TT(B, o.title) = Wanted(o) /\ WellFormed(B)
  BY <1>1, <1>2 DEF GatherGoes, GatherKnown
<1>4. PICK here, w : w = o.w /\ here = TitledIn(B, o.title, w)
  OBVIOUS
<1>5. /\ here \in Seq(Groups) /\ w \in Windows
      /\ ToSet(here) = {g \in Groups : B.title[g] = o.title /\ \E x \in ToSet(B.strip[w]) : B.group[x] = g}
  <2>1. PICK title : title = o.title
    OBVIOUS
  <2>2. WellFormed(B) /\ w \in Windows /\ here = TitledIn(B, title, w)
    BY <1>1, <1>2, <1>3, <1>4, <2>1
  <2>3. /\ here \in Seq(Groups)
        /\ ToSet(here) = {g \in Groups : B.title[g] = title /\ \E x \in ToSet(B.strip[w]) : B.group[x] = g}
    BY ONLY <2>2, TitledInIs
  <2> QED
    BY <2>1, <2>2, <2>3
<1>6. \A t \in TT(B, o.title) : t \in ToSet(B.strip[w]) /\ B.group[t] \in ToSet(here)
  <2>1. Ready(B) /\ ToSet(o.rest) = {}
    BY <1>1, <1>2, <1>3, NoneIn, WellFormedIsReady
  <2>2. \A t \in TT(B, o.title) : t \in ToSet(B.strip[w])
    BY <1>3, <1>4, <2>1 DEF Standing
  <2>3. \A t \in TT(B, o.title) : B.group[t] \in Groups /\ B.title[B.group[t]] = o.title
    BY <2>1, TTIs
  <2> QED
    BY <1>5, <2>2, <2>3
<1>7. PICK k : k = IF o.keep \in ToSet(here) THEN o.keep ELSE Head(here)
  OBVIOUS
<1>8. PICK f, e : f = [pc |-> "fold", keep |-> k, todo |-> Without(here, {k})] /\ e = [pc |-> "done"]
  OBVIOUS
<1>9. DOMAIN f = {"pc", "keep", "todo"} /\ f.pc = "fold" /\ f.keep = k /\ f.todo = Without(here, {k})
  BY <1>8
<1>10. DOMAIN e = {"pc"} /\ e.pc = "done"
  BY <1>8
<1>11. (here # <<>> /\ Wrote(o, n, f)) \/ (here = <<>> /\ Wrote(o, n, e))
  <2>1. (here # <<>> /\ Move(f)) \/ (here = <<>> /\ Move(e))
    BY <1>2, <1>4, <1>7, <1>8 DEF FoldPlan, FoldKeep
  <2> QED
    BY <1>1, <1>2, <2>1, MoveIs
<1>12. CASE here # <<>> /\ Wrote(o, n, f)
  <2>0. Wrote(o, n, f)
    BY <1>12
  <2>1. n.pc = "fold" /\ n.keep = k /\ n.todo = Without(here, {k})
    BY <1>9, <2>0, WroteIs
  <2>2. Same(o, n)
    BY ONLY <1>9, <2>0, SameIs
  <2>3. k \in ToSet(here)
    <3>1. Head(here) \in ToSet(here)
      BY <1>5, <1>12 DEF ToSet
    <3> QED
      BY <1>7, <3>1
  <2>4. ASSUME First(o) # <<>> PROVE k = Head(First(o))
    <3>1. PICK h : h = Head(First(o))
      OBVIOUS
    <3>2. Foremost(B, h, o.title, w) /\ o.keep = h
      BY <1>3, <1>4, <2>4, <3>1 DEF Standing
    <3>3. h \in ToSet(here)
      BY <1>5, <3>2 DEF Foremost
    <3> QED
      BY <1>7, <3>1, <3>2, <3>3
  <2>5. n.todo \in Seq(Groups) /\ ToSet(n.todo) = ToSet(here) \ {k}
    <3>1. PICK S : S = ToSet(here) \ {k}
      OBVIOUS
    <3>2. Only(here, S) \in Seq(Groups) /\ ToSet(Only(here, S)) = ToSet(here) \cap S
      BY <1>5, OnlyIs
    <3>3. n.todo = Only(here, S)
      BY <2>1, <3>1 DEF Without
    <3> QED
      BY <3>1, <3>2, <3>3
  <2>6. Folding(n, B)
    <3>1. \A t \in TT(B, n.title) : t \in ToSet(B.strip[n.w]) /\ B.group[t] \in ToSet(n.todo) \cup {n.keep}
      BY <1>4, <1>6, <2>1, <2>2, <2>5 DEF Same
    <3> QED
      BY <1>4, <1>5, <2>1, <2>2, <2>3, <2>4, <2>5, <3>1 DEF Folding, Same
  <2> QED
    BY <1>1, <1>2, <1>3, <2>1, <2>2, <2>6 DEF Same, GatherGoes, GatherKnown, GatherSteps, JoinSteps, JoinKnown, Late
<1>13. CASE here = <<>> /\ Wrote(o, n, e)
  <2>0. Wrote(o, n, e)
    BY <1>13
  <2>1. n.pc = "done"
    BY <1>10, <2>0, WroteIs
  <2>2. Same(o, n)
    BY ONLY <1>10, <2>0, SameIs
  <2>3. ToSet(here) = {}
    BY <1>13 DEF ToSet
  <2>4. Gathered(n, B)
    BY <1>3, <1>6, <2>2, <2>3 DEF Gathered, Same
  <2> QED
    BY <1>1, <1>2, <1>3, <2>1, <2>2, <2>4 DEF Same, GatherGoes, GatherKnown, GatherSteps, JoinSteps, JoinKnown, Late
<1> QED
  BY <1>11, <1>12, <1>13

\* A tab comes to stand last in a window, alone or in the group of the last.
Behind(B, C, t, w) ==
  /\ WellFormed(B) /\ WellFormed(C) /\ C.title = B.title /\ \A x \in Tabs \ {t} : C.group[x] = B.group[x]
  /\ t \in Tabs /\ t \notin ToSet(B.strip[w]) /\ C.strip[w] = Append(B.strip[w], t)
  /\ C.group[t] = None \/ (B.strip[w] # <<>> /\ C.group[t] = B.group[Last(B.strip[w])])

LEMMA ForemostStill ==
    ASSUME NEW B, NEW C, NEW t, NEW w \in Windows, Behind(B, C, t, w), NEW h, NEW title, Foremost(B, h, title, w),
           \A x \in TT(C, title) \ {t} : x \in TT(B, title)
    PROVE  Foremost(C, h, title, w)
<1>1. PICK l : l = B.strip[w]
  OBVIOUS
<1>2. l \in Seq(Tabs) /\ IsInjective(l) /\ t \in Tabs /\ t \notin ToSet(l) /\ ToSet(l) \subseteq Tabs /\ None \notin Groups
  BY <1>1, WellFormedIsReady, BrowserIs, Numbered DEF Behind
<1> HIDE DEF Before
<1>3. /\ C.strip[w] = Append(l, t) /\ ToSet(Append(l, t)) = ToSet(l) \cup {t}
      /\ \A x, y : Before(Append(l, t), x, y) <=> (Before(l, x, y) \/ (x \in ToSet(l) /\ y = t))
  <2>1. C.strip[w] = Append(l, t)
    BY <1>1 DEF Behind
  <2> QED
    BY <1>2, <2>1, OneMore
<1>4. \A x \in ToSet(l) : C.group[x] = B.group[x]
  BY <1>2 DEF Behind
<1>5. B.title[h] = title /\ C.title[h] = title /\ h \in Groups /\ \E x \in ToSet(l) : B.group[x] = h
  BY <1>1 DEF Foremost, Behind
<1>6. ASSUME NEW y \in TT(C, title), y \in ToSet(C.strip[w]), C.group[y] # h,
             NEW x \in ToSet(C.strip[w]), C.group[x] = h
      PROVE  Before(Append(l, t), x, y)
  <2>1. CASE y = t
    BY <1>3, <1>6, <2>1
  <2>2. CASE y # t
    <3>1. y \in ToSet(l) /\ y \in TT(B, title) /\ B.group[y] # h
      BY <1>3, <1>4, <1>6, <2>2
    <3>2. \A z \in ToSet(l) : B.group[z] = h => Before(l, z, y)
      BY <1>1, <3>1 DEF Foremost, Follows
    <3>3. CASE x # t
      BY <1>3, <1>4, <1>6, <3>2, <3>3
    <3>4. CASE x = t
      <4>1. l # <<>> /\ B.group[Last(l)] = h
        BY <1>1, <1>2, <1>5, <1>6, <3>4 DEF Behind
      <4>2. Last(l) \in ToSet(l) /\ (y = Last(l) \/ Before(l, y, Last(l)))
        BY <1>2, <3>1, <4>1, LastIs
      <4>3. Before(l, Last(l), y)
        BY <3>2, <4>1, <4>2
      <4> QED
        BY <1>2, <3>1, <4>1, <4>2, <4>3, OneWay
    <3> QED
      BY <3>3, <3>4
  <2> QED
    BY <2>1, <2>2
<1>7. \E x \in ToSet(C.strip[w]) : C.group[x] = h
  BY <1>3, <1>4, <1>5
<1> QED
  BY <1>3, <1>5, <1>6, <1>7 DEF Foremost, Follows

LEMMA GatherMovesIn ==
    ASSUME BrowserSound, MoveGroupTabsIn, GatherGoes(op, b), ~dragging
    PROVE  GatherGoes(op', b')
<1>1. /\ op.pc = "move in" /\ op.part # <<>> /\ WellFormed(b) /\ OpFields \subseteq DOMAIN op /\ op.w \in Windows
      /\ op.from \in Windows /\ Once(op.part) /\ Once(op.moved) /\ ToSet(op.part) \cap ToSet(op.moved) = {}
  BY StepsAt, WorkingTold DEF MoveGroupTabsIn, Named, Stage
<1>2. PICK n, o, B, C : n = op' /\ o = op /\ B = b /\ C = b'
  OBVIOUS
<1>3. /\ o.kind = "gather" /\ ~o.failed /\ o.title # "same" /\ WellFormed(o.was)
      /\ Standing(o, B) /\ MovingIn(o, B)
  BY <1>1, <1>2 DEF GatherGoes, GatherKnown
<1>4. PICK t, p, m, w, s, i : /\ t = Head(o.part) /\ p = Tail(o.part) /\ m = Append(o.moved, t) /\ w = o.w
                              /\ s = B.strip[w] /\ i = Len(s) + 1
  OBVIOUS
<1>5. /\ p \in Seq(Tabs) /\ t \in Tabs /\ ToSet(o.part) = {t} \cup ToSet(p) /\ t \notin ToSet(p)
      /\ ToSet(m) = ToSet(o.moved) \cup {t}
  <2>1. PICK q : q = o.part
    OBVIOUS
  <2>2. q \in Seq(Tabs) /\ IsInjective(q) /\ q # <<>>
    BY <1>1, <1>2, <2>1 DEF Once
  <2>3. t \in Tabs /\ p \in Seq(Tabs) /\ ToSet(q) = {t} \cup ToSet(p) /\ t \notin ToSet(p)
    BY <1>4, <2>1, <2>2, HeadTail, TailOnce
  <2>5. PICK d : d = o.moved
    OBVIOUS
  <2>6. d \in Seq(Tabs) /\ t \in Tabs
    BY <1>1, <1>2, <2>3, <2>5 DEF Once
  <2>7. ToSet(Append(d, t)) = ToSet(d) \cup {t}
    BY ONLY <2>6, OneMore
  <2>4. ToSet(m) = ToSet(o.moved) \cup {t}
    BY <1>4, <2>5, <2>7
  <2> QED
    BY <2>1, <2>3, <2>4
<1>6. /\ t \in ToSet(B.strip[o.from]) /\ B.group[t] = o.g /\ t \notin B.pinned /\ t \in OpenTabs(B) /\ t \in TT(B, o.title)
      /\ Ready(B) /\ o.g # None
  <2>1. t \in ToSet(B.strip[o.from]) /\ B.group[t] = o.g /\ t \in OpenTabs(B) /\ o.g \in Groups /\ B.title[o.g] = o.title
    BY <1>3, <1>5 DEF MovingIn
  <2>2. Ready(B) /\ o.g # None
    BY <1>1, <1>2, <2>1, WellFormedIsReady, BrowserIs
  <2> QED
    BY <1>5, <2>1, <2>2 DEF Ready, TT
<1>7. s \in Seq(Tabs) /\ IsInjective(s) /\ t \notin ToSet(s) /\ Len(s) \in Nat /\ w \in Windows
  <2>1. w \in Windows /\ o.from \in Windows /\ o.from # w
    BY <1>1, <1>2, <1>3, <1>4 DEF MovingIn
  <2> QED
    BY <1>4, <1>6, <2>1, BrowserIs, Numbered DEF Ready
<1>8. C \in TabsMove(B, t, w, i) /\ Wrote(o, n, [part |-> p, moved |-> m])
  <2>1. PICK stays : stays = (t \notin ToSet(b.strip[op.from]) \/ b.group[t] # op.g \/ t \in b.pinned)
    OBVIOUS
  <2>2. ~stays
    BY <1>2, <1>6, <2>1
  <2>3. PICK then, e, Bs : /\ then = [part |-> p, moved |-> m] /\ e = [part |-> <<>>] /\ Bs = TabsMove(b, t, w, i)
    OBVIOUS
  <2>4. Edit(TRUE, Bs, then, e)
    BY <1>2, <1>4, <2>1, <2>2, <2>3 DEF MoveGroupTabsIn
  <2>5. \/ TRUE /\ b' \in Bs /\ Wrote(op, op', then)
        \/ ~TRUE /\ b' = b /\ Wrote(op, op', e)
    BY <1>1, <2>4, EditNow
  <2> QED
    BY <1>2, <2>3, <2>5
<1>9. Lifted(B, {t})[w] = s
  <2>1. PICK S, l : S = {t} /\ l = Lifted(B, S)[w]
    OBVIOUS
  <2> HIDE DEF Before
  <2>2. /\ l \in Seq(Tabs) /\ IsInjective(l) /\ ToSet(l) = ToSet(s) \ S
        /\ \A x, y : Before(l, x, y) <=> (Before(s, x, y) /\ x \notin S /\ y \notin S)
    <3>1. Ready(B)
      BY <1>6
    <3>2. \A v \in Windows : /\ Lifted(B, S)[v] \in Seq(Tabs) /\ IsInjective(Lifted(B, S)[v])
                             /\ ToSet(Lifted(B, S)[v]) = ToSet(B.strip[v]) \ S
                             /\ \A x, y : Before(Lifted(B, S)[v], x, y) <=> (Before(B.strip[v], x, y) /\ x \notin S /\ y \notin S)
      BY ONLY <3>1, LiftedIs
    <3> QED
      BY <1>4, <1>7, <2>1, <3>2
  <2>3. ToSet(l) = ToSet(s)
    BY <1>7, <2>1, <2>2
  <2>4. l = s
    BY <1>7, <2>2, <2>3, SameSeq
  <2> QED
    BY <2>1, <2>4
<1>10. /\ Moved(B, C, t, w) /\ C.strip[w] = Append(s, t)
       /\ C.group[t] = None \/ (s # <<>> /\ C.group[t] = B.group[Last(s)])
  <2>1. i \in Nat /\ i > Len(Lifted(B, {t})[w])
    BY <1>4, <1>7, <1>9
  <2>2. WellFormed(B)
    BY <1>1, <1>2
  <2> QED
    BY <1>6, <1>7, <1>8, <1>9, <2>1, <2>2, MovedEnd
<1>11. /\ WellFormed(C) /\ C.pinned = B.pinned /\ C.title = B.title /\ \A x \in Tabs \ {t} : C.group[x] = B.group[x]
       /\ \A v \in Windows : ToSet(C.strip[v]) = IF v = w THEN ToSet(B.strip[v]) \cup {t} ELSE ToSet(B.strip[v]) \ {t}
  BY <1>10 DEF Moved
<1>12. Behind(B, C, t, w)
  BY <1>1, <1>2, <1>4, <1>5, <1>7, <1>10, <1>11 DEF Behind
<1>13. ASSUME NEW x, x # t
       PROVE  (x \in TT(C, o.title) <=> x \in TT(B, o.title)) /\ (x \in OpenTabs(C) <=> x \in OpenTabs(B))
  <2>1. Ready(C)
    BY <1>11, WellFormedIsReady
  <2>2. \A v \in Windows : x \in ToSet(C.strip[v]) <=> x \in ToSet(B.strip[v])
    BY <1>11, <1>13
  <2> QED
    BY <1>6, <1>11, <1>13, <2>1, <2>2, TTIs, OpenIs
<1>14. C.group[t] # o.g
  <2>1. SUFFICES ASSUME C.group[t] = o.g PROVE FALSE
    OBVIOUS
  <2>2. s # <<>> /\ B.group[Last(s)] = o.g
    BY <1>6, <1>10, <2>1
  <2>3. Last(s) \in ToSet(B.strip[w])
    BY <1>4, <1>7, <2>2, LastIs
  <2>4. B.group[Last(s)] = B.group[t] /\ o.from # w
    BY <1>3, <1>4, <1>6, <2>2 DEF MovingIn
  <2> QED
    BY <1>1, <1>2, <1>6, <1>7, <2>3, <2>4 DEF Ready
<1>15. PICK f : f = [part |-> p, moved |-> m]
  OBVIOUS
<1>16. Wrote(o, n, f) /\ DOMAIN f = {"part", "moved"} /\ f.part = p /\ f.moved = m
  BY <1>8, <1>15
<1>17. n.pc = "move in" /\ n.part = p /\ n.moved = m /\ n.g = o.g /\ n.from = o.from /\ n.keep = o.keep
  <2>1. n.pc = o.pc /\ n.part = f.part /\ n.moved = f.moved /\ n.g = o.g /\ n.from = o.from /\ n.keep = o.keep
    BY ONLY <1>16, WroteIs
  <2> QED
    BY <1>1, <1>2, <1>16, <2>1
<1>18. n.rest = o.rest
  BY <1>16, WroteMore
<1>19. Same(o, n)
  BY <1>16, SameIs
<1>20. MovingIn(n, C)
  <2>1. TT(C, o.title) \cup ToSet(m) = Wanted(o)
    <3>1. TT(B, o.title) \cup ToSet(o.moved) = Wanted(o)
      BY <1>3 DEF MovingIn
    <3> QED
      BY <1>5, <1>6, <1>13, <3>1
  <2>2. ToSet(m) \subseteq ToSet(C.strip[w]) \ C.pinned
    BY <1>3, <1>4, <1>5, <1>6, <1>7, <1>11 DEF MovingIn
  <2>3. ToSet(p) = {x \in OpenTabs(C) : C.group[x] = o.g}
    <3>1. ToSet(o.part) = {x \in OpenTabs(B) : B.group[x] = o.g}
      BY <1>3 DEF MovingIn
    <3>2. OpenTabs(B) \subseteq Tabs /\ OpenTabs(C) \subseteq Tabs
      BY <1>6, <1>11, WellFormedIsReady, BrowserIs
    <3>3. \A x : x # t => (x \in ToSet(p) <=> x \in OpenTabs(C) /\ C.group[x] = o.g)
      BY <1>5, <1>11, <1>13, <3>1, <3>2
    <3> QED
      BY <1>5, <1>14, <3>3
  <2>4. ToSet(p) \subseteq ToSet(C.strip[o.from])
    <3>1. o.from \in Windows /\ o.from # w /\ ToSet(o.part) \subseteq ToSet(B.strip[o.from])
      BY <1>1, <1>2, <1>3, <1>4 DEF MovingIn
    <3>2. ToSet(C.strip[o.from]) = ToSet(B.strip[o.from]) \ {t}
      BY <1>11, <3>1
    <3> QED
      BY <1>5, <3>1, <3>2
  <2>5. o.from # o.w /\ o.g \in Groups /\ C.title[o.g] = o.title
    BY <1>3, <1>11 DEF MovingIn
  <2> QED
    BY <1>4, <1>17, <1>19, <2>1, <2>2, <2>3, <2>4, <2>5 DEF MovingIn, Same
<1>21. Standing(n, C)
  <2>1. First(o) # <<>> => Foremost(C, Head(First(o)), o.title, w) /\ o.keep = Head(First(o))
    <3>1. ASSUME First(o) # <<>> PROVE Foremost(C, Head(First(o)), o.title, w)
      <4>1. Foremost(B, Head(First(o)), o.title, w)
        BY <1>3, <1>4, <3>1 DEF Standing
      <4> QED
        BY <1>7, <1>12, <1>13, <4>1, ForemostStill
    <3> QED
      BY <1>3, <3>1 DEF Standing
  <2>2. ASSUME NEW x \in TT(C, o.title)
        PROVE  x \in ToSet(C.strip[w]) \/ C.group[x] \in ToSet(o.rest) \/ C.group[x] = o.g
    <3>1. CASE x = t
      BY <1>7, <1>11, <3>1
    <3>2. CASE x # t
      <4>1. x \in TT(B, o.title) /\ x \in Tabs
        BY <1>6, <1>13, <2>2, <3>2, TTIs
      <4>2. x \in ToSet(B.strip[w]) \/ B.group[x] \in ToSet(o.rest) \/ B.group[x] = o.g
        BY <1>3, <1>4, <4>1 DEF Standing
      <4> QED
        BY <1>7, <1>11, <3>2, <4>1, <4>2
    <3> QED
      BY <3>1, <3>2
  <2> QED
    BY <1>3, <1>4, <1>17, <1>18, <1>19, <2>1, <2>2 DEF Standing, Same
<1> QED
  BY <1>1, <1>2, <1>3, <1>17, <1>19, <1>20, <1>21 DEF Same, GatherGoes, GatherKnown, GatherSteps, JoinSteps, JoinKnown, Late

LEMMA GatherGroups ==
    ASSUME BrowserSound, GroupTabs, GatherGoes(op, b)
    PROVE  GatherGoes(op', b')
<1>1. op.pc = "group"
  BY StepsAt
<1>2. PICK n, o, B : n = op' /\ o = op /\ B = b
  OBVIOUS
<1>3. /\ o.kind = "gather" /\ ~o.failed /\ o.title # "same" /\ WellFormed(o.was) /\ o.pc = "group" /\ Standing(o, B)
      /\ o.ids # <<>> /\ ToSet(o.ids) \subseteq ToSet(B.strip[o.w]) \ B.pinned /\ TT(B, o.title) \cup ToSet(o.ids) = Wanted(o)
  BY <1>1, <1>2 DEF GatherGoes, GatherKnown, JoinSteps
<1>4. b' = B /\ Joins(o, n, B) /\ n.w = o.w
  BY <1>2, <1>3, GroupTabsNow
<1>5. Wanted(n) = Wanted(o) /\ First(n) = First(o) /\ n.pc = "join" /\ n.rest = o.rest /\ n.keep = o.keep /\ n.title = o.title
      /\ n.ids = o.ids /\ n.kind = o.kind /\ n.was = o.was /\ n.failed = o.failed /\ JoinReady(n, B)
  BY <1>4 DEF Joins, Wanted, First
<1>6. Standing(n, B)
  BY <1>3, <1>4, <1>5 DEF Standing
<1> QED
  BY <1>2, <1>3, <1>4, <1>5, <1>6 DEF GatherGoes, GatherKnown, GatherSteps, JoinSteps, JoinKnown, Late

\* Tabs of the title joined the window's group of it, or a new one that has no tabs but them.
JoinedFor(o, B, C, g) ==
  /\ WellFormed(B) /\ o.w \in Windows /\ Once(o.ids) /\ g \in Groups /\ o.title \in Titles \ {"none"}
  /\ ToSet(o.ids) \subseteq ToSet(B.strip[o.w]) /\ C \in TabsGroup(B, o.ids, g, o.w) /\ Grouped(B, C, o.ids, g)
  /\ \/ Lives(B, g) /\ GroupWindow(B, g) = o.w /\ B.title[g] = o.title
     \/ B.title[g] = "none" /\ \A x \in OpenTabs(B) : B.group[x] # g

LEMMA JoinedTT ==
    ASSUME NEW o, NEW B, NEW C, NEW g, JoinedFor(o, B, C, g), NEW x, x \notin ToSet(o.ids)
    PROVE  (x \in TT(C, o.title) <=> x \in TT(B, o.title)) /\ (x \in Tabs => C.group[x] = B.group[x])
<1>1. PICK title, ids, w : title = o.title /\ ids = o.ids /\ w = o.w
  OBVIOUS
<1>2. /\ WellFormed(B) /\ Grouped(B, C, ids, g) /\ g \in Groups /\ title # "none"
      /\ (B.title[g] = title \/ (B.title[g] = "none" /\ \A y \in OpenTabs(B) : B.group[y] # g))
  BY <1>1 DEF JoinedFor
<1>3. /\ WellFormed(C) /\ C.title = [B.title EXCEPT ![g] = IF @ = "none" THEN "" ELSE @]
      /\ \A y \in Tabs : C.group[y] = IF y \in ToSet(ids) THEN g ELSE B.group[y]
      /\ \A v \in Windows : ToSet(C.strip[v]) = ToSet(B.strip[v])
  BY <1>2 DEF Grouped
<1>4. Ready(B) /\ Ready(C) /\ B.title \in [Groups -> Titles]
  BY <1>2, <1>3, WellFormedIsReady DEF WellFormed, Browsers
<1>5. x \in Tabs => C.group[x] = B.group[x]
  BY <1>1, <1>3
<1>6. \A k \in Groups : k # g => C.title[k] = B.title[k]
  BY <1>3, <1>4
<1>7. x \in TT(B, title) <=> /\ x \in Tabs /\ B.group[x] \in Groups /\ B.title[B.group[x]] = title
                             /\ \E v \in Windows : x \in ToSet(B.strip[v])
  BY <1>4, TTIs
<1>8. x \in TT(C, title) <=> /\ x \in Tabs /\ C.group[x] \in Groups /\ C.title[C.group[x]] = title
                             /\ \E v \in Windows : x \in ToSet(C.strip[v])
  BY <1>4, TTIs
<1>9. x \in OpenTabs(B) <=> \E v \in Windows : x \in ToSet(B.strip[v])
  BY OpenIs
<1>10. x \in TT(C, title) <=> x \in TT(B, title)
  <2>1. CASE x \in Tabs /\ x \in OpenTabs(B) /\ B.group[x] \in Groups
    <3>1. C.title[B.group[x]] = title <=> B.title[B.group[x]] = title
      <4>1. CASE B.group[x] # g
        BY <1>6, <2>1, <4>1
      <4>2. CASE B.group[x] = g
        <5>1. B.title[g] = title
          BY <1>2, <2>1, <4>2
        <5> QED
          BY <1>2, <1>3, <1>4, <4>2, <5>1
      <4> QED
        BY <4>1, <4>2
    <3> QED
      BY <1>3, <1>5, <1>7, <1>8, <2>1, <3>1
  <2>2. CASE ~(x \in Tabs /\ x \in OpenTabs(B) /\ B.group[x] \in Groups)
    BY <1>3, <1>5, <1>7, <1>8, <1>9, <2>2
  <2> QED
    BY <2>1, <2>2
<1> QED
  BY <1>1, <1>5, <1>10

LEMMA JoinedMembers ==
    ASSUME NEW o, NEW B, NEW C, NEW g, JoinedFor(o, B, C, g), NEW x \in OpenTabs(C), C.group[x] = g
    PROVE  x \in TT(B, o.title) \cup ToSet(o.ids) /\ x \in ToSet(C.strip[o.w])
<1>1. PICK ids, w : ids = o.ids /\ w = o.w
  OBVIOUS
<1>2. /\ WellFormed(B) /\ Grouped(B, C, ids, g) /\ g \in Groups /\ w \in Windows /\ ToSet(ids) \subseteq ToSet(B.strip[w])
      /\ (Lives(B, g) /\ GroupWindow(B, g) = w /\ B.title[g] = o.title) \/ \A y \in OpenTabs(B) : B.group[y] # g
  BY <1>1 DEF JoinedFor
<1>3. /\ Ready(B) /\ (\A y \in Tabs : C.group[y] = IF y \in ToSet(ids) THEN g ELSE B.group[y])
      /\ \A v \in Windows : ToSet(C.strip[v]) = ToSet(B.strip[v])
  BY <1>2, WellFormedIsReady DEF Grouped
<1>4. x \in OpenTabs(B) /\ x \in Tabs
  BY <1>3, OpenIs, BrowserIs
<1>5. CASE x \in ToSet(ids)
  BY <1>1, <1>2, <1>3, <1>5
<1>6. CASE x \notin ToSet(ids)
  <2>1. B.group[x] = g
    BY <1>3, <1>4, <1>6
  <2>2. Lives(B, g) /\ GroupWindow(B, g) = w /\ B.title[g] = o.title /\ g # None
    BY <1>2, <1>3, <1>4, <2>1, BrowserIs
  <2>3. x \in ToSet(B.strip[GroupWindow(B, g)])
    BY <1>3, <1>4, <2>1, <2>2, MembersAre
  <2> QED
    BY <1>1, <1>2, <1>3, <1>4, <2>1, <2>2, <2>3 DEF TT
<1> QED
  BY <1>5, <1>6

LEMMA JoinedForemost ==
    ASSUME NEW o, NEW B, NEW C, NEW g, JoinedFor(o, B, C, g), Foremost(B, g, o.title, o.w)
    PROVE  Foremost(C, g, o.title, o.w)
<1>1. PICK title, ids, w : title = o.title /\ ids = o.ids /\ w = o.w
  OBVIOUS
<1> HIDE DEF Before
<1>2. /\ WellFormed(B) /\ Grouped(B, C, ids, g) /\ g \in Groups /\ w \in Windows /\ ToSet(ids) \subseteq ToSet(B.strip[w])
      /\ ids \in Seq(Tabs) /\ IsInjective(ids) /\ C \in TabsGroup(B, ids, g, w) /\ title # "none"
  BY <1>1 DEF JoinedFor, Once
<1>3. /\ WellFormed(C) /\ C.title = [B.title EXCEPT ![g] = IF @ = "none" THEN "" ELSE @]
      /\ \A y \in Tabs : C.group[y] = IF y \in ToSet(ids) THEN g ELSE B.group[y]
      /\ \A v \in Windows : ToSet(C.strip[v]) = ToSet(B.strip[v])
  BY <1>2 DEF Grouped
<1>4. Ready(B) /\ Ready(C) /\ B.title \in [Groups -> Titles] /\ g # None
  BY <1>2, <1>3, WellFormedIsReady, BrowserIs, ZenonT(60) DEF WellFormed, Browsers
<1>5. PICK x : x \in ToSet(B.strip[w]) /\ B.group[x] = g
  BY <1>1 DEF Foremost
<1>6. Lives(B, g) /\ GroupWindow(B, g) = w
  BY <1>2, <1>4, <1>5, LivesHere
<1>7. B.title[g] = title /\ C.title[g] = title
  BY <1>1, <1>2, <1>3, <1>4 DEF Foremost
<1>8. x \in ToSet(C.strip[w]) /\ C.group[x] = g
  <2>1. x \in Tabs
    BY <1>2, <1>4, <1>5, BrowserIs, Numbered
  <2> QED
    BY <1>2, <1>3, <1>5, <2>1
<1>9. ASSUME NEW y \in TT(C, title), y \in ToSet(C.strip[w]), C.group[y] # g
      PROVE  Follows(C, g, w, y)
  <2>1. y \in Tabs
    BY <1>4, <1>9, TTIs
  <2>2. y \notin ToSet(ids) /\ B.group[y] # g /\ y \in ToSet(B.strip[w])
    BY <1>2, <1>3, <1>9, <2>1
  <2>3. y \in TT(B, title)
    BY <1>1, <1>9, <2>2, JoinedTT
  <2>4. \A z \in ToSet(B.strip[w]) : B.group[z] = g => Before(B.strip[w], z, y)
    BY <1>1, <2>2, <2>3 DEF Foremost, Follows
  <2>5. /\ WellFormed(B) /\ w \in Windows /\ ids \in Seq(Tabs) /\ IsInjective(ids) /\ g \in Groups
        /\ ToSet(ids) \subseteq ToSet(B.strip[w]) /\ Lives(B, g) /\ GroupWindow(B, g) = w /\ C \in TabsGroup(B, ids, g, w)
        /\ y \in ToSet(B.strip[w]) /\ y \notin ToSet(ids) /\ B.group[y] # g
        /\ \A z \in ToSet(B.strip[w]) : B.group[z] = g => Before(B.strip[w], z, y)
    BY <1>2, <1>6, <2>2, <2>4
  <2>6. \A z \in ToSet(C.strip[w]) : C.group[z] = g => Before(C.strip[w], z, y)
    BY ONLY <2>5, JoinPlaced
  <2> QED
    BY <1>9, <2>6 DEF Follows
<1> QED
  BY <1>1, <1>2, <1>7, <1>8, <1>9 DEF Foremost

LEMMA GatherJoins ==
    ASSUME BrowserSound, JoinGroup, GatherGoes(op, b), ~dragging
    PROVE  GatherGoes(op', b')
<1>1. op.pc = "join" /\ IsInjective(op.ids) /\ WellFormed(b) /\ Named(op)
  BY StepsAt, WorkingTold DEF Stage
<1>2. PICK n, o, B, C : n = op' /\ o = op /\ B = b /\ C = b'
  OBVIOUS
<1>3. /\ o.kind = "gather" /\ ~o.failed /\ o.title # "same" /\ WellFormed(o.was) /\ o.pc = "join" /\ Standing(o, B)
      /\ TT(B, o.title) \cup ToSet(o.ids) = Wanted(o) /\ JoinReady(o, B)
  BY <1>1, <1>2 DEF GatherGoes, GatherKnown, JoinSteps, JoinKnown
<1>4. JoinReady(op, b)
  BY <1>2, <1>3
<1>5. PICK g \in Groups : /\ C \in TabsGroup(B, o.ids, g, o.w) /\ Grouped(B, C, o.ids, g)
                          /\ Carried(o, n) /\ n.pc = "plan" /\ n.g = g /\ n.keep = o.keep /\ Together(n, C)
                          /\ (o.g # None => g = o.g /\ Lives(B, g) /\ GroupWindow(B, g) = o.w)
                          /\ (o.g = None => B.title[g] = "none" /\ ~Lives(B, g))
  BY <1>2, <1>4, JoinsNow
<1>6. PICK title, w, there : title = o.title /\ w = o.w /\ there = TitledIn(B, title, w)
  OBVIOUS
<1>7. WellFormed(B) /\ w \in Windows /\ Ready(B) /\ title \in Titles \ {"none"} /\ Once(o.ids) /\ g # None /\ None \notin Groups
  BY <1>1, <1>2, <1>6, WellFormedIsReady, BrowserIs DEF Named, Once
<1>8. /\ there \in Seq(Groups)
      /\ ToSet(there) = {k \in Groups : B.title[k] = title /\ \E x \in ToSet(B.strip[w]) : B.group[x] = k}
  BY <1>6, <1>7, TitledInIs
<1>9. o.g = IF there = <<>> THEN None ELSE Head(there)
  BY <1>3, <1>6 DEF JoinReady
<1>10. \/ Lives(B, g) /\ GroupWindow(B, g) = o.w /\ B.title[g] = title
       \/ B.title[g] = "none" /\ \A x \in OpenTabs(B) : B.group[x] # g
  <2>1. CASE there = <<>>
    <3>1. B.title[g] = "none" /\ ~Lives(B, g)
      BY <1>5, <1>9, <2>1
    <3>2. \A x \in OpenTabs(B) : B.group[x] # g
      BY <1>7, <3>1, MembersAre
    <3> QED
      BY <3>1, <3>2
  <2>2. CASE there # <<>>
    <3>1. Head(there) \in ToSet(there)
      BY <1>8, <2>2 DEF ToSet
    <3>2. o.g \in Groups /\ B.title[o.g] = title
      BY <1>8, <1>9, <2>2, <3>1
    <3> QED
      BY <1>5, <1>7, <3>2
  <2> QED
    BY <2>1, <2>2
<1>11. ToSet(o.ids) \subseteq ToSet(B.strip[o.w])
  BY <1>3 DEF JoinReady
<1>12. JoinedFor(o, B, C, g)
  BY <1>5, <1>6, <1>7, <1>10, <1>11 DEF JoinedFor
<1>13. Same(o, n) /\ n.rest = o.rest /\ n.ids = o.ids
  BY <1>5 DEF Carried, Same, First, Wanted
<1>14. WellFormed(C) /\ \A v \in Windows : ToSet(C.strip[v]) = ToSet(B.strip[v])
  BY <1>5 DEF Grouped
<1>15. ASSUME First(o) # <<>>
       PROVE  g = Head(First(o)) /\ Foremost(B, g, title, w)
  <2>1. PICK h : h = Head(First(o))
    OBVIOUS
  <2>2. Foremost(B, h, title, w)
    BY <1>3, <1>6, <1>15, <2>1 DEF Standing
  <2>3. h # None
    BY <1>7, <2>2 DEF Foremost
  <2>4. there # <<>> /\ Head(there) = h
    BY <1>6, <1>7, <2>2, <2>3, ForemostIsHead
  <2> QED
    BY <1>5, <1>9, <2>1, <2>2, <2>3, <2>4
<1>16. TT(C, title) \cup ToSet(o.ids) = Wanted(o)
  <2>1. \A x : x \notin ToSet(o.ids) => (x \in TT(C, title) <=> x \in TT(B, title))
    BY <1>6, <1>12, JoinedTT
  <2> QED
    BY <1>3, <1>6, <2>1
<1>17. Together2(n, C)
  <2>1. ItsFirst(n)
    BY <1>5, <1>13, <1>15 DEF ItsFirst, Same
  <2>2. \A x \in OpenTabs(C) : C.group[x] = g => x \in TT(B, o.title) \cup ToSet(o.ids) /\ x \in ToSet(C.strip[o.w])
    BY <1>12, JoinedMembers
  <2> QED
    BY <1>3, <1>5, <1>13, <2>1, <2>2 DEF Together2, Same
<1>18. Standing(n, C)
  <2>1. ASSUME First(o) # <<>> PROVE Foremost(C, Head(First(o)), title, w)
    <3>1. g = Head(First(o)) /\ Foremost(B, g, o.title, o.w)
      BY <1>6, <1>15, <2>1
    <3>2. Foremost(C, g, o.title, o.w)
      BY <1>12, <3>1, JoinedForemost
    <3> QED
      BY <1>6, <3>1, <3>2
  <2>2. ASSUME NEW x \in TT(C, title)
        PROVE  x \in ToSet(C.strip[w]) \/ C.group[x] \in ToSet(o.rest)
    <3>1. CASE x \in ToSet(o.ids)
      BY <1>6, <1>7, <1>11, <1>14, <3>1
    <3>2. CASE x \notin ToSet(o.ids)
      <4>1. x \in TT(B, title) /\ (x \in Tabs => C.group[x] = B.group[x])
        BY <1>6, <1>12, <2>2, <3>2, JoinedTT
      <4>2. x \in Tabs
        BY <1>7, <4>1, TTIs
      <4>3. x \in ToSet(B.strip[w]) \/ B.group[x] \in ToSet(o.rest)
        BY <1>3, <1>6, <4>1 DEF Standing
      <4> QED
        BY <1>7, <1>14, <4>1, <4>2, <4>3
    <3> QED
      BY <3>1, <3>2
  <2>3. o.rest \in Seq(Groups) /\ (First(o) # <<>> => o.keep = Head(First(o)))
    BY <1>3 DEF Standing
  <2> QED
    BY <1>5, <1>6, <1>13, <2>1, <2>2, <2>3 DEF Standing, Same
<1> QED
  BY <1>2, <1>3, <1>5, <1>6, <1>13, <1>16, <1>17, <1>18
     DEF Same, GatherGoes, GatherKnown, GatherSteps, JoinSteps, JoinKnown, Late

LEMMA GatherOrders ==
    ASSUME BrowserSound, PlanOrder \/ OrderTab \/ PutBack, GatherGoes(op, b), ~dragging
    PROVE  GatherGoes(op', b')
<1>1. op.pc \in {"plan", "order"} /\ (op.pc = "plan" => PlanOrder) /\ (op.pc = "order" => OrderTab \/ PutBack)
  BY StepsAt
<1>0. WellFormed(b)
  BY <1>1, WorkingTold
<1>2. PICK n, o, B, C : n = op' /\ o = op /\ B = b /\ C = b'
  OBVIOUS
<1>3. /\ o.kind = "gather" /\ ~o.failed /\ o.title # "same" /\ WellFormed(o.was) /\ o.pc \in {"plan", "order"} /\ Standing(o, B)
      /\ TT(B, o.title) \cup ToSet(o.ids) = Wanted(o) /\ Together(o, B) /\ Together2(o, B) /\ WellFormed(B)
      /\ (o.pc = "order" => Ordering(o, B))
  BY <1>0, <1>1, <1>2 DEF GatherGoes, GatherKnown, JoinSteps, JoinKnown, Late
<1>4. /\ Carried(o, n) /\ n.g = o.g /\ n.keep = o.keep /\ Together(n, C)
      /\ (n.pc = "order" /\ Ordering(n, C)) \/ (n.pc = "label" /\ Ordered(n, C))
      /\ C = B \/ (SameGroups(B, C) /\ C.title = B.title /\ \A y : Follows(B, o.g, o.w, y) => Follows(C, o.g, o.w, y))
  <2>1. CASE op.pc = "plan"
    BY <1>1, <1>2, <1>3, <2>1, PlansNow
  <2>2. CASE op.pc = "order" /\ OrderTab
    BY <1>2, <1>3, <2>2, OrdersNow
  <2>3. CASE op.pc = "order" /\ PutBack
    BY <1>2, <1>3, <2>3, PutsBackNow
  <2> QED
    BY <1>1, <2>1, <2>2, <2>3
<1>5. Same(o, n) /\ n.rest = o.rest /\ n.ids = o.ids
  BY <1>4 DEF Carried, Same, First, Wanted
<1>6. CASE C = B
  <2>1. Standing(n, C)
    BY <1>3, <1>4, <1>5, <1>6 DEF Standing, Same
  <2>2. Together2(n, C)
    BY <1>3, <1>4, <1>5, <1>6 DEF Together2, Same, ItsFirst
  <2> QED
    BY <1>2, <1>3, <1>4, <1>5, <1>6, <2>1, <2>2
       DEF Same, GatherGoes, GatherKnown, GatherSteps, JoinSteps, JoinKnown, Late
<1>7. CASE SameGroups(B, C) /\ C.title = B.title /\ \A y : Follows(B, o.g, o.w, y) => Follows(C, o.g, o.w, y)
  <2>0. PICK title, w : title = o.title /\ w = o.w
    OBVIOUS
  <2>1. TT(C, title) = TT(B, title)
    BY <1>3, <1>7, SameTT
  <2>2. /\ WellFormed(C) /\ (\A x \in Tabs : C.group[x] = B.group[x]) /\ w \in Windows
        /\ \A v \in Windows : ToSet(C.strip[v]) = ToSet(B.strip[v])
    BY <1>3, <1>7, <2>0 DEF SameGroups, Together
  <2>3. OpenTabs(C) = OpenTabs(B) /\ OpenTabs(B) \subseteq Tabs /\ Ready(B)
    <3>1. \A x : x \in OpenTabs(C) <=> x \in OpenTabs(B)
      BY <2>2, OpenIs
    <3>2. Ready(B) /\ OpenTabs(B) \subseteq Tabs
      BY <1>3, WellFormedIsReady, BrowserIs
    <3> QED
      BY <3>1, <3>2 DEF OpenTabs
  <2>4. ASSUME First(o) # <<>> PROVE Foremost(C, Head(First(o)), title, w)
    <3>1. PICK h : h = Head(First(o))
      OBVIOUS
    <3>2. Foremost(B, h, title, w) /\ o.g = h
      BY <1>3, <2>0, <2>4, <3>1 DEF Standing, Together2, ItsFirst
    <3>3. \A x \in ToSet(B.strip[w]) : x \in Tabs
      BY <2>2, <2>3, BrowserIs, Numbered
    <3>4. \E x \in ToSet(C.strip[w]) : C.group[x] = h
      BY <2>2, <3>2, <3>3 DEF Foremost
    <3>5. ASSUME NEW y \in TT(C, title), y \in ToSet(C.strip[w]), C.group[y] # h
          PROVE  Follows(C, h, w, y)
      <4>1. y \in TT(B, title) /\ y \in ToSet(B.strip[w]) /\ B.group[y] # h
        BY <2>1, <2>2, <3>3, <3>5
      <4>2. Follows(B, h, w, y)
        BY <3>2, <4>1 DEF Foremost
      <4> QED
        BY <1>7, <2>0, <3>2, <4>2
    <3>6. C.title[h] = title /\ h \in Groups
      BY <1>7, <3>2 DEF Foremost
    <3> QED
      BY <3>1, <3>4, <3>5, <3>6 DEF Foremost
  <2>5. Standing(n, C)
    <3>1. ASSUME NEW x \in TT(C, title)
          PROVE  x \in ToSet(C.strip[w]) \/ C.group[x] \in ToSet(o.rest)
      <4>1. x \in TT(B, title) /\ x \in Tabs
        BY <2>1, <2>3, <3>1, TTIs
      <4>2. x \in ToSet(B.strip[w]) \/ B.group[x] \in ToSet(o.rest)
        BY <1>3, <2>0, <4>1 DEF Standing
      <4> QED
        BY <2>2, <4>1, <4>2
    <3>2. o.rest \in Seq(Groups) /\ (First(o) # <<>> => o.keep = Head(First(o)))
      BY <1>3 DEF Standing
    <3> QED
      BY <1>4, <1>5, <2>0, <2>4, <3>1, <3>2 DEF Standing, Same
  <2>6. Together2(n, C)
    <3>1. ItsFirst(n)
      BY <1>3, <1>4, <1>5 DEF Together2, ItsFirst, Same
    <3>2. \A x \in OpenTabs(C) : C.group[x] = o.g => x \in Wanted(o) /\ x \in ToSet(C.strip[w])
      BY <1>3, <2>0, <2>2, <2>3 DEF Together2
    <3> QED
      BY <1>4, <1>5, <2>0, <3>1, <3>2 DEF Together2, Same
  <2> QED
    BY <1>2, <1>3, <1>4, <1>5, <2>0, <2>1, <2>5, <2>6
       DEF Same, GatherGoes, GatherKnown, GatherSteps, JoinSteps, JoinKnown, Late
<1> QED
  BY <1>4, <1>6, <1>7

\* A group that takes the title brings its tabs to those of the title.
Retitled(B, C, g, title) ==
  /\ WellFormed(B) /\ WellFormed(C) /\ C.strip = B.strip /\ C.group = B.group /\ g \in Groups
  /\ C.title = [B.title EXCEPT ![g] = title]

LEMMA RetitledTT ==
    ASSUME NEW B, NEW C, NEW g, NEW title, Retitled(B, C, g, title), NEW x
    PROVE  x \in TT(C, title) <=> (x \in TT(B, title) \/ (x \in OpenTabs(B) /\ B.group[x] = g))
<1>1. /\ WellFormed(B) /\ WellFormed(C) /\ C.strip = B.strip /\ C.group = B.group /\ g \in Groups
      /\ C.title = [B.title EXCEPT ![g] = title]
  BY DEF Retitled
<1>2. Ready(B) /\ Ready(C) /\ B.title \in [Groups -> Titles]
  BY <1>1, WellFormedIsReady DEF WellFormed, Browsers
<1>3. x \in TT(B, title) <=> /\ x \in Tabs /\ B.group[x] \in Groups /\ B.title[B.group[x]] = title
                             /\ \E v \in Windows : x \in ToSet(B.strip[v])
  BY <1>2, TTIs
<1>4. x \in TT(C, title) <=> /\ x \in Tabs /\ B.group[x] \in Groups /\ C.title[B.group[x]] = title
                             /\ \E v \in Windows : x \in ToSet(B.strip[v])
  BY <1>1, <1>2, TTIs
<1>5. x \in OpenTabs(B) <=> \E v \in Windows : x \in ToSet(B.strip[v])
  BY OpenIs
<1>6. x \in OpenTabs(B) => x \in Tabs
  BY <1>2, BrowserIs
<1>7. CASE B.group[x] = g
  BY <1>1, <1>2, <1>3, <1>4, <1>5, <1>6, <1>7
<1>8. CASE B.group[x] # g
  <2>1. B.group[x] \in Groups => C.title[B.group[x]] = B.title[B.group[x]]
    BY <1>1, <1>2, <1>8
  <2> QED
    BY <1>3, <1>4, <1>8, <2>1
<1> QED
  BY <1>7, <1>8

LEMMA GatherLabels ==
    ASSUME BrowserSound, UpdateGroup \/ CollapseSafely, GatherGoes(op, b), ~dragging
    PROVE  GatherGoes(op', b')
<1>1. op.pc \in {"label", "collapse"} /\ (op.pc = "label" => UpdateGroup) /\ (op.pc = "collapse" => CollapseSafely)
  BY StepsAt
<1>0. WellFormed(b)
  BY <1>1, WorkingTold
<1>2. PICK n, o, B, C, title, w : n = op' /\ o = op /\ B = b /\ C = b' /\ title = o.title /\ w = o.w
  OBVIOUS
<1>3. /\ o.kind = "gather" /\ ~o.failed /\ title # "same" /\ WellFormed(o.was) /\ o.pc \in {"label", "collapse"} /\ Standing(o, B)
      /\ TT(B, title) \cup ToSet(o.ids) = Wanted(o) /\ Together(o, B) /\ Together2(o, B) /\ WellFormed(B)
      /\ Ordered(o, B) /\ (o.pc = "collapse" => B.title[o.g] = title)
  BY <1>0, <1>1, <1>2 DEF GatherGoes, GatherKnown, JoinSteps, JoinKnown, Late
<1>4. PICK g : g = o.g
  OBVIOUS
<1>5. /\ g \in Groups /\ w \in Windows /\ \A t \in ToSet(o.ids) : t \in ToSet(B.strip[w]) /\ B.group[t] = g
  BY <1>2, <1>3, <1>4 DEF Together
<1>6. /\ Carried(o, n) /\ n.g = g /\ Together(n, C) /\ Ordered(n, C) /\ Retitled(B, C, g, title)
      /\ (n.pc = "gather next" /\ n.keep = g) \/ (n.pc = "collapse" /\ n.keep = o.keep)
  <2>1. CASE op.pc = "label"
    <3>1. /\ WellFormed(C) /\ C.strip = B.strip /\ C.group = B.group /\ C.title = [B.title EXCEPT ![o.g] = o.title]
          /\ Carried(o, n) /\ n.g = o.g /\ Together(n, C) /\ Ordered(n, C)
          /\ Finishes(o, n) \/ (n.pc = "collapse" /\ n.keep = o.keep)
      BY <1>1, <1>2, <1>3, <2>1, UpdatesNow
    <3>2. (n.pc = "gather next" /\ n.keep = g) \/ (n.pc = "collapse" /\ n.keep = o.keep)
      BY <1>3, <1>4, <3>1 DEF Finishes
    <3> QED
      BY <1>2, <1>3, <1>4, <1>5, <3>1, <3>2 DEF Retitled
  <2>2. CASE op.pc = "collapse"
    <3>1. /\ WellFormed(C) /\ C.strip = B.strip /\ C.group = B.group /\ C.title = B.title
          /\ Carried(o, n) /\ n.g = o.g /\ Together(n, C) /\ Ordered(n, C) /\ Finishes(o, n)
      BY <1>1, <1>2, <1>3, <2>2, CollapsesNow
    <3>2. n.pc = "gather next" /\ n.keep = g
      BY <1>3, <1>4, <3>1 DEF Finishes
    <3>3. B.title[g] = title /\ B.title \in [Groups -> Titles]
      BY <1>2, <1>3, <1>4, <2>2 DEF WellFormed, Browsers
    <3>4. C.title = [B.title EXCEPT ![g] = title]
      BY <1>5, <3>1, <3>3
    <3> QED
      BY <1>2, <1>3, <1>4, <1>5, <3>1, <3>2, <3>4 DEF Retitled
  <2> QED
    BY <1>1, <2>1, <2>2
<1>7. Same(o, n) /\ n.rest = o.rest /\ n.ids = o.ids
  BY <1>6 DEF Carried, Same, First, Wanted
<1>8. /\ C.strip = B.strip /\ C.group = B.group /\ C.title[g] = title /\ OpenTabs(C) = OpenTabs(B)
      /\ \A x : x \in TT(C, title) <=> (x \in TT(B, title) \/ (x \in OpenTabs(B) /\ B.group[x] = g))
  <2>1. C.strip = B.strip /\ C.group = B.group /\ C.title = [B.title EXCEPT ![g] = title] /\ B.title \in [Groups -> Titles]
    BY <1>3, <1>6 DEF Retitled, WellFormed, Browsers
  <2>2. C.title[g] = title
    BY <1>5, <2>1
  <2> QED
    <3>1. OpenTabs(C) = OpenTabs(B)
      BY <2>1 DEF OpenTabs
    <3>2. \A x : x \in TT(C, title) <=> (x \in TT(B, title) \/ (x \in OpenTabs(B) /\ B.group[x] = g))
      <4>1. Retitled(B, C, g, title)
        BY <1>6
      <4>2. ASSUME NEW x
            PROVE  x \in TT(C, title) <=> (x \in TT(B, title) \/ (x \in OpenTabs(B) /\ B.group[x] = g))
        BY ONLY <4>1, RetitledTT
      <4> QED
        BY <4>2
    <3> QED
      BY <2>1, <2>2, <3>1, <3>2
<1>9. \A x \in OpenTabs(B) : B.group[x] = g => x \in Wanted(o) /\ x \in ToSet(B.strip[w])
  BY <1>2, <1>3, <1>4 DEF Together2
<1>10. ToSet(o.ids) \subseteq TT(C, title)
  BY <1>5, <1>8, OpenIs
<1>11. TT(C, title) = Wanted(o)
  BY <1>3, <1>8, <1>9, <1>10
<1>12. First(o) # <<>> => g = Head(First(o))
  BY <1>3, <1>4 DEF Together2, ItsFirst
<1>13. Standing(n, C)
  <2>1. ASSUME First(o) # <<>> PROVE Foremost(C, Head(First(o)), title, w)
    <3>1. Foremost(B, g, title, w)
      BY <1>2, <1>3, <1>12, <2>1 DEF Standing
    <3>2. ASSUME NEW y \in TT(C, title), y \in ToSet(C.strip[w]), C.group[y] # g
          PROVE  Follows(C, g, w, y)
      <4>1. y \in TT(B, title) /\ y \in ToSet(B.strip[w]) /\ B.group[y] # g
        BY <1>8, <3>2
      <4>2. Follows(B, g, w, y)
        BY <3>1, <4>1 DEF Foremost
      <4> QED
        BY <1>8, <4>2 DEF Follows
    <3> QED
      BY <1>5, <1>8, <1>12, <2>1, <3>1, <3>2 DEF Foremost
  <2>2. ASSUME NEW x \in TT(C, title)
        PROVE  x \in ToSet(C.strip[w]) \/ C.group[x] \in ToSet(o.rest)
    <3>1. CASE x \in TT(B, title)
      BY <1>2, <1>3, <1>8, <3>1 DEF Standing
    <3>2. CASE x \in OpenTabs(B) /\ B.group[x] = g
      BY <1>8, <1>9, <3>2
    <3> QED
      BY <1>8, <2>2, <3>1, <3>2
  <2>3. o.rest \in Seq(Groups) /\ (First(o) # <<>> => n.keep = Head(First(o)))
    BY <1>3, <1>6, <1>12 DEF Standing
  <2> QED
    BY <1>2, <1>6, <1>7, <2>1, <2>2, <2>3 DEF Standing, Same
<1>14. Together2(n, C)
  <2>1. ItsFirst(n)
    BY <1>6, <1>7, <1>12 DEF ItsFirst, Same
  <2> QED
    BY <1>2, <1>6, <1>7, <1>8, <1>9, <2>1 DEF Together2, Same
<1>15. CASE n.pc = "gather next"
  BY <1>2, <1>3, <1>7, <1>11, <1>13, <1>15
     DEF Same, GatherGoes, GatherKnown, GatherSteps, JoinSteps, JoinKnown, Late
<1>16. CASE n.pc = "collapse"
  BY <1>2, <1>3, <1>6, <1>7, <1>8, <1>10, <1>11, <1>13, <1>14, <1>16
     DEF Same, GatherGoes, GatherKnown, GatherSteps, JoinSteps, JoinKnown, Late
<1> QED
  BY <1>6, <1>15, <1>16

\* The tabs of a group of the title went to the group kept.
Folded(B, C, g, k, title) ==
  /\ WellFormed(B) /\ WellFormed(C) /\ C.title = B.title /\ B.title[g] = title /\ B.title[k] = title /\ k \in Groups /\ g \in Groups
  /\ \A v \in Windows : ToSet(C.strip[v]) = ToSet(B.strip[v])
  /\ \A x \in OpenTabs(B) : C.group[x] = IF B.group[x] = g THEN k ELSE B.group[x]

LEMMA FoldedTT ==
    ASSUME NEW B, NEW C, NEW g, NEW k, NEW title, Folded(B, C, g, k, title), NEW x
    PROVE  x \in TT(C, title) <=> x \in TT(B, title)
<1>1. Ready(B) /\ Ready(C)
  BY WellFormedIsReady DEF Folded
<1>2. x \in TT(B, title) <=> /\ x \in Tabs /\ B.group[x] \in Groups /\ B.title[B.group[x]] = title
                             /\ \E v \in Windows : x \in ToSet(B.strip[v])
  BY <1>1, TTIs
<1>3. x \in TT(C, title) <=> /\ x \in Tabs /\ C.group[x] \in Groups /\ C.title[C.group[x]] = title
                             /\ \E v \in Windows : x \in ToSet(C.strip[v])
  BY <1>1, TTIs
<1>4. x \in OpenTabs(B) <=> \E v \in Windows : x \in ToSet(B.strip[v])
  BY OpenIs
<1> QED
  BY <1>2, <1>3, <1>4 DEF Folded

LEMMA GatherFolds ==
    ASSUME BrowserSound, Fold, GatherGoes(op, b), ~dragging
    PROVE  GatherGoes(op', b')
<1>1. op.pc = "fold" /\ WellFormed(b) /\ OpFields \subseteq DOMAIN op /\ op.w \in Windows /\ op.title \in Titles \ {"none"}
  BY StepsAt, WorkingTold DEF Named
<1>2. PICK n, o, B, C, title, w, k : n = op' /\ o = op /\ B = b /\ C = b' /\ title = o.title /\ w = o.w /\ k = o.keep
  OBVIOUS
<1>3. /\ o.kind = "gather" /\ ~o.failed /\ title # "same" /\ WellFormed(o.was) /\ o.pc = "fold" /\ WellFormed(B)
      /\ TT(B, title) = Wanted(o) /\ Folding(o, B) /\ w \in Windows /\ title # "none"
  BY <1>1, <1>2 DEF GatherGoes, GatherKnown, JoinSteps
<1>4. /\ o.todo \in Seq(Groups) /\ k \in Groups /\ B.title[k] = title /\ (First(o) # <<>> => k = Head(First(o)))
      /\ \A t \in TT(B, title) : t \in ToSet(B.strip[w]) /\ B.group[t] \in ToSet(o.todo) \cup {k}
  BY <1>2, <1>3 DEF Folding
<1>5. PICK y \in ToSet(B.strip[w]) : B.group[y] = k
  BY <1>2, <1>3 DEF Folding
<1>6. Ready(B) /\ None \notin Groups /\ k # None
  BY <1>3, <1>4, WellFormedIsReady, BrowserIs
<1>7. Lives(B, k) /\ GroupWindow(B, k) = w
  BY <1>3, <1>5, <1>6, LivesHere
<1>8. PICK f, e : f = [todo |-> Tail(o.todo)] /\ e = [pc |-> "done"]
  OBVIOUS
<1>9. DOMAIN f = {"todo"} /\ f.todo = Tail(o.todo)
  BY <1>8
<1>10. DOMAIN e = {"pc"} /\ e.pc = "done"
  BY <1>8
<1>11. CASE o.todo = <<>>
  <2>1. C = B /\ Move(e)
    BY <1>2, <1>8, <1>11 DEF Fold
  <2>2. Wrote(o, n, e)
    BY <1>1, <1>2, <2>1, MoveIs
  <2>3. n.pc = "done" /\ n.keep = o.keep
    BY ONLY <1>10, <2>2, WroteIs
  <2>4. Same(o, n)
    BY ONLY <1>10, <2>2, SameIs
  <2>5. y \in TT(B, title)
    <3>1. y \in Tabs
      BY <1>3, <1>5, <1>6, BrowserIs, Numbered
    <3>2. y \in Tabs /\ B.group[y] \in Groups /\ B.title[B.group[y]] = title /\ \E v \in Windows : y \in ToSet(B.strip[v])
      BY <1>3, <1>4, <1>5, <3>1
    <3> QED
      BY <1>6, <3>2, TTIs
  <2>6. ToSet(o.todo) = {}
    BY <1>11, NoneIn
  <2>7. Gathered(n, B)
    BY <1>2, <1>3, <1>4, <2>3, <2>4, <2>5, <2>6 DEF Gathered, Same
  <2> QED
    BY <1>2, <1>3, <2>1, <2>3, <2>4, <2>7 DEF Same, GatherGoes, GatherKnown, GatherSteps, JoinSteps, JoinKnown, Late
<1>12. CASE o.todo # <<>>
  <2>1. PICK g, r, ts, s : g = Head(o.todo) /\ r = Tail(o.todo) /\ s = B.strip[w] /\ ts = MembersOf(g, w)
    OBVIOUS
  <2>2. g \in Groups /\ r \in Seq(Groups) /\ ToSet(o.todo) = {g} \cup ToSet(r)
    <3>1. PICK q : q = o.todo
      OBVIOUS
    <3>2. q \in Seq(Groups) /\ q # <<>>
      BY <1>4, <1>12, <3>1
    <3>3. Head(q) \in Groups /\ Tail(q) \in Seq(Groups) /\ ToSet(q) = {Head(q)} \cup ToSet(Tail(q))
      BY ONLY <3>2, HeadTail
    <3> QED
      BY <2>1, <3>1, <3>3
  <2>3. ts \in Seq(Tabs) /\ IsInjective(ts) /\ ToSet(ts) = {x \in ToSet(s) : x \in Tabs /\ B.group[x] = g} /\ ToSet(s) \subseteq Tabs
    <3>1. s \in Seq(Tabs) /\ IsInjective(s) /\ ToSet(s) \subseteq Tabs
      BY <1>3, <1>6, <2>1, BrowserIs, Numbered
    <3>2. Once(Only(s, InGroup(B, g))) /\ ToSet(Only(s, InGroup(B, g))) = ToSet(s) \cap InGroup(B, g)
      BY <3>1, OnlyOnce
    <3>3. ts = Only(s, InGroup(B, g))
      BY <1>2, <2>1 DEF MembersOf
    <3> QED
      BY <3>1, <3>2, <3>3 DEF Once, InGroup
  <2>4. PICK there : there = (Lives(b, g) /\ GroupWindow(b, g) = op.w /\ b.title[g] = op.title)
    OBVIOUS
  <2>5. PICK Bs, ok : Bs = (IF there THEN TabsGroup(Opened(b, k, ts), ts, k, w) ELSE {b}) /\ ok = (there => StillIn(w, ts, k))
    OBVIOUS
  <2>6. Edit(ok, Bs, f, f)
    BY <1>2, <1>8, <1>12, <2>1, <2>4, <2>5 DEF Fold
  <2>7. ok
    <3>1. \A t \in ToSet(ts) : t \in ToSet(B.strip[w]) /\ t \notin B.pinned
      <4>1. g # None
        BY <1>6, <2>2
      <4> QED
        BY <1>6, <2>1, <2>3, <4>1 DEF Ready
    <3>2. StillIn(w, ts, k)
      BY <1>2, <1>7, <3>1 DEF StillIn, InPlace
    <3> QED
      BY <2>5, <3>2
  <2>8. C \in Bs /\ Wrote(o, n, f)
    <3>1. \/ ok /\ b' \in Bs /\ Wrote(op, op', f)
          \/ ~ok /\ b' = b /\ Wrote(op, op', f)
      BY <1>1, <2>6, EditNow
    <3> QED
      BY <1>2, <2>7, <3>1
  <2>9. Wrote(o, n, f)
    BY <2>8
  <2>10. n.pc = o.pc /\ n.keep = o.keep /\ n.todo = Tail(o.todo)
    BY ONLY <1>9, <2>9, WroteIs
  <2>11. Same(o, n)
    BY ONLY <1>9, <2>9, SameIs
  <2>12. ASSUME C.title = B.title, WellFormed(C), \E x \in ToSet(C.strip[w]) : C.group[x] = k, TT(C, title) = TT(B, title),
                \A t \in TT(C, title) : t \in ToSet(C.strip[w]) /\ C.group[t] \in ToSet(r) \cup {k}
         PROVE  GatherGoes(n, C)
    <3>1. Folding(n, C)
      BY <1>2, <1>4, <2>1, <2>2, <2>10, <2>11, <2>12 DEF Folding, Same
    <3> QED
      BY <1>2, <1>3, <2>10, <2>11, <2>12, <3>1 DEF Same, GatherGoes, GatherKnown, GatherSteps, JoinSteps, JoinKnown, Late
  <2>13. CASE ~there
    <3>1. C = B
      BY <1>2, <2>5, <2>8, <2>13
    <3>2. ASSUME NEW t \in TT(B, title)
          PROVE  B.group[t] \in ToSet(r) \cup {k}
      <4>1. B.group[t] # g
        <5>1. SUFFICES ASSUME B.group[t] = g PROVE FALSE
          OBVIOUS
        <5>2. t \in ToSet(B.strip[w]) /\ B.title[g] = title /\ g # None
          BY <1>4, <1>6, <2>2, <3>2, <5>1 DEF TT
        <5>3. Lives(B, g) /\ GroupWindow(B, g) = w
          BY <1>3, <5>1, <5>2, LivesHere
        <5> QED
          BY <1>2, <2>4, <2>13, <5>2, <5>3
      <4> QED
        BY <1>4, <2>2, <4>1
    <3> QED
      BY <1>2, <1>3, <1>4, <1>5, <2>12, <3>1, <3>2
  <2>14. CASE there
    <3>1. PICK A : A = Opened(B, k, ts)
      OBVIOUS
    <3>2. /\ WellFormed(A) /\ A.strip = B.strip /\ A.group = B.group /\ A.pinned = B.pinned
      BY <1>3, <3>1, OpenedIs
    <3>3. A.title = B.title
      BY <1>3, <3>1 DEF Opened, WellFormed, Browsers
    <3>4. Members(A, k) = Members(B, k)
      BY <3>2 DEF Members, InGroup
    <3>5. Lives(A, k) /\ GroupWindow(A, k) = w
      BY <1>7, <3>2, <3>4 DEF Lives, GroupWindow, Window
    <3>6. Grouped(A, C, ts, k)
      <4>1. C \in TabsGroup(A, ts, k, w)
        BY <1>2, <2>5, <2>8, <2>14, <3>1
      <4>2. ToSet(ts) \subseteq ToSet(A.strip[w])
        BY <2>1, <2>3, <3>2
      <4> QED
        BY <1>3, <1>4, <2>3, <3>2, <3>5, <4>1, <4>2, TabsGroupIs
    <3>7. /\ WellFormed(C) /\ C.title = [B.title EXCEPT ![k] = IF @ = "none" THEN "" ELSE @]
          /\ \A x \in Tabs : C.group[x] = IF x \in ToSet(ts) THEN k ELSE B.group[x]
          /\ \A v \in Windows : ToSet(C.strip[v]) = ToSet(B.strip[v])
      BY <3>2, <3>3, <3>6 DEF Grouped
    <3>8. C.title = B.title
      <4>1. B.title \in [Groups -> Titles]
        BY <1>3 DEF WellFormed, Browsers
      <4> QED
        BY <1>3, <1>4, <3>7, <4>1
    <3>9. B.title[g] = title /\ GroupWindow(B, g) = w /\ Lives(B, g) /\ g # None
      BY <1>2, <1>6, <2>2, <2>4, <2>14
    <3>10. ASSUME NEW x \in OpenTabs(B)
           PROVE  C.group[x] = IF B.group[x] = g THEN k ELSE B.group[x]
      <4>1. x \in Tabs
        BY <1>6, BrowserIs
      <4>2. B.group[x] = g => x \in ToSet(B.strip[w])
        BY <1>6, <3>9, MembersAre
      <4> QED
        BY <2>1, <2>3, <3>7, <4>1, <4>2
    <3>11. Folded(B, C, g, k, title)
      BY <1>3, <1>4, <2>2, <3>7, <3>8, <3>9, <3>10 DEF Folded
    <3>12. TT(C, title) = TT(B, title)
      <4>1. \A x : x \in TT(C, title) <=> x \in TT(B, title)
        BY <3>11, FoldedTT
      <4>2. \A T, S : (\A x : x \in T <=> x \in S) => T = S
        OBVIOUS
      <4> QED
        BY ONLY <4>1, <4>2
    <3>13. ASSUME NEW t \in TT(C, title)
           PROVE  t \in ToSet(C.strip[w]) /\ C.group[t] \in ToSet(r) \cup {k}
      <4>1. t \in ToSet(B.strip[w]) /\ B.group[t] \in {g} \cup ToSet(r) \cup {k} /\ t \in OpenTabs(B)
        BY <1>4, <2>2, <3>12, <3>13 DEF TT
      <4> QED
        BY <1>3, <3>7, <3>10, <4>1
    <3>14. \E x \in ToSet(C.strip[w]) : C.group[x] = k
      BY <1>3, <1>5, <2>1, <2>3, <3>7
    <3> QED
      BY <1>2, <2>12, <3>7, <3>8, <3>12, <3>13, <3>14
  <2> QED
    BY <2>13, <2>14
<1> QED
  BY <1>11, <1>12

\* The tabs of a title are those of its groups.
LEMMA MembersOfTitle ==
    ASSUME NEW B, WellFormed(B), NEW title
    PROVE  UNION {ToSet(Members(B, g)) : g \in Titled(B, title)} = TT(B, title)
<1>1. Ready(B)
  BY WellFormedIsReady
<1>2. \A g : ToSet(Members(B, g)) = {t \in OpenTabs(B) : B.group[t] = g}
  BY <1>1, MembersAre
<1>3. \A g : g \in Titled(B, title) <=> g \in Groups /\ \E t \in TT(B, title) : B.group[t] = g
  BY TitledIs
<1>4. ASSUME NEW g \in Titled(B, title), NEW t \in ToSet(Members(B, g))
      PROVE  t \in TT(B, title)
  <2>1. t \in OpenTabs(B) /\ B.group[t] = g
    BY <1>2, <1>4
  <2>2. g \in Groups /\ g # None /\ B.title[g] = title
    BY <1>4 DEF Titled, Lives
  <2> QED
    BY <2>1, <2>2 DEF TT
<1>5. ASSUME NEW t \in TT(B, title)
      PROVE  B.group[t] \in Titled(B, title) /\ t \in ToSet(Members(B, B.group[t]))
  <2>1. t \in OpenTabs(B) /\ B.group[t] \in Groups
    BY <1>1, <1>5, TTIs DEF TT
  <2> QED
    BY <1>2, <1>3, <1>5, <2>1
<1> QED
  BY <1>4, <1>5

LEMMA GatheredIs ==
    ASSUME BrowserSound, GatherGoes(op, b), op.pc = "done", ~op.failed
    PROVE  GatheredAsAsked
<1>1. PICK all, B, title, k, w : all = TT(op.was, op.title) /\ B = b /\ title = op.title /\ k = op.keep /\ w = op.w
  OBVIOUS
<1>2. WellFormed(op.was) /\ Gathered(op, B) /\ WellFormed(B)
  BY <1>1, WorkingTold DEF GatherGoes, GatherKnown
<1>3. UNION {ToSet(Members(op.was, g)) : g \in Titled(op.was, op.title)} = all
  BY <1>1, <1>2, MembersOfTitle
<1>4. CASE all = {}
  BY <1>3, <1>4 DEF GatheredAsAsked
<1>5. CASE all # {}
  <2>1. /\ TT(B, title) = all /\ k \in Groups /\ (First(op) # <<>> => k = Head(First(op)))
        /\ \A t \in TT(B, title) : t \in ToSet(B.strip[w]) /\ B.group[t] = k
    BY <1>1, <1>2, <1>5 DEF Gathered, Wanted
  <2>2. PICK x : x \in TT(B, title)
    BY <1>5, <2>1
  <2>3. Titled(B, title) = {k}
    BY <1>2, <2>1, <2>2, TitledIs
  <2>4. Ready(B) /\ w \in Windows /\ x \in Tabs /\ k # None /\ B.title[k] = title
    <3>1. Ready(B) /\ None \notin Groups
      BY <1>2, WellFormedIsReady, BrowserIs
    <3>2. x \in Tabs /\ B.title[k] = title
      BY <2>1, <2>2, <3>1, TTIs
    <3>3. w \in Windows
      BY <1>1, WorkingTold DEF Named
    <3> QED
      BY <2>1, <3>1, <3>2, <3>3
  <2>5. GroupWindow(B, k) = w
    BY <1>2, <2>1, <2>2, <2>4, LivesHere
  <2>6. ToSet(Members(B, k)) = all
    <3>1. ToSet(Members(B, k)) = {t \in OpenTabs(B) : B.group[t] = k}
      BY <2>4, MembersAre
    <3>2. \A t : t \in TT(B, title) <=> t \in OpenTabs(B) /\ B.group[t] = k
      BY <2>1, <2>4 DEF TT
    <3> QED
      BY <2>1, <3>1, <3>2
  <2>7. TitledIn(op.was, op.title, op.w) # <<>> => Titled(b, op.title) = {Head(TitledIn(op.was, op.title, op.w))}
    BY <1>1, <2>1, <2>3 DEF First
  <2>8. \E g \in Groups : Titled(b, op.title) = {g} /\ ToSet(Members(b, g)) = all /\ GroupWindow(b, g) = op.w
    BY <1>1, <2>1, <2>3, <2>5, <2>6
  <2> QED
    BY <1>3, <2>7, <2>8 DEF GatheredAsAsked
<1> QED
  BY <1>4, <1>5

(***************************************************************************)
(* Ungrouping.                                                             *)
(***************************************************************************)
UngroupGoes(o, B) ==
  /\ o.kind = "ungroup" /\ o.pc \in {"ungroup", "loosen", "done"} /\ (o.failed => o.pc = "done")
  /\ o.pc = "loosen" => ToSet(o.ids) \subseteq OpenTabs(B) /\ ToSet(o.ids) \subseteq Tabs
  /\ o.pc = "done" => o.failed \/ \A t \in ToSet(o.ids) : B.group[t] = None

LEMMA FailedMore ==
    ASSUME NEW n, Wrote(op, n, Failed), op.kind # "gather"
    PROVE  n.pc = "done" /\ n.failed /\ n.kind = op.kind
<1>1. PICK f : f = [pc |-> "done", failed |-> TRUE]
  OBVIOUS
<1>2. DOMAIN f = {"pc", "failed"} /\ f.pc = "done" /\ f.failed = TRUE /\ Wrote(op, n, f)
  BY <1>1 DEF Failed
<1>3. n.pc = "done" /\ n.kind = op.kind
  BY ONLY <1>2, WroteIs
<1>4. n.failed
  BY ONLY <1>2, WroteMore
<1> QED
  BY <1>3, <1>4

LEMMA Ungroups ==
    ASSUME BrowserSound, UngroupTabs, UngroupGoes(op, b)
    PROVE  UngroupGoes(op', b')
<1>1. op.pc = "ungroup" /\ b' = b /\ OpFields \subseteq DOMAIN op /\ WellFormed(b)
  BY StepsAt, WorkingTold DEF UngroupTabs
<1>2. op.kind = "ungroup" /\ ~op.failed
  BY <1>1 DEF UngroupGoes
<1>3. PICK ts : ts = IF op.g = None THEN op.ids ELSE Members(b, op.g)
  OBVIOUS
<1>4. PICK n, f : n = op' /\ f = [pc |-> "loosen", ids |-> ts]
  OBVIOUS
<1>5. DOMAIN f = {"pc", "ids"} /\ f.pc = "loosen" /\ f.ids = ts
  BY <1>4
<1>6. (ToSet(ts) \subseteq OpenTabs(b) /\ Wrote(op, n, f)) \/ Wrote(op, n, Failed)
  <2>1. (ToSet(ts) \subseteq OpenTabs(b) /\ Move(f)) \/ Move(Failed)
    BY <1>3, <1>4 DEF UngroupTabs
  <2> QED
    BY <1>1, <1>4, <2>1, MoveIs
<1>7. CASE Wrote(op, n, Failed)
  <2>1. n.pc = "done" /\ n.failed /\ n.kind = op.kind
    BY <1>2, <1>7, FailedMore
  <2> QED
    BY <1>2, <1>4, <2>1 DEF UngroupGoes
<1>8. CASE ToSet(ts) \subseteq OpenTabs(b) /\ Wrote(op, n, f)
  <2>1. Wrote(op, n, f)
    BY <1>8
  <2>2. n.pc = "loosen" /\ n.ids = ts /\ n.kind = op.kind
    BY ONLY <1>5, <2>1, WroteIs
  <2>3. n.failed = op.failed
    BY ONLY <1>5, <2>1, WroteMore
  <2>4. OpenTabs(b) \subseteq Tabs
    BY <1>1, WellFormedIsReady, BrowserIs
  <2> QED
    BY <1>1, <1>2, <1>4, <1>8, <2>2, <2>3, <2>4 DEF UngroupGoes
<1> QED
  BY <1>6, <1>7, <1>8

LEMMA Loosens ==
    ASSUME BrowserSound, Loosen, UngroupGoes(op, b), ~dragging
    PROVE  UngroupGoes(op', b')
<1>1. op.pc = "loosen" /\ OpFields \subseteq DOMAIN op /\ WellFormed(b)
  BY StepsAt, WorkingTold
<1>2. op.kind = "ungroup" /\ ~op.failed /\ ToSet(op.ids) \subseteq Tabs
  BY <1>1 DEF UngroupGoes
<1>3. PICK n, f, S : n = op' /\ f = [pc |-> "done"] /\ S = ToSet(op.ids)
  OBVIOUS
<1>4. DOMAIN f = {"pc"} /\ f.pc = "done"
  BY <1>3
<1>5. (b' \in TabsUngroup(b, S) /\ Wrote(op, n, f)) \/ Wrote(op, n, Failed)
  <2>1. Edit(S \subseteq OpenTabs(b), TabsUngroup(b, S), f, Failed)
    BY <1>3 DEF Loosen
  <2> QED
    BY <1>1, <1>3, <2>1, EditNow
<1>6. CASE Wrote(op, n, Failed)
  <2>1. n.pc = "done" /\ n.failed /\ n.kind = op.kind
    BY <1>2, <1>6, FailedMore
  <2> QED
    BY <1>2, <1>3, <2>1 DEF UngroupGoes
<1>7. CASE b' \in TabsUngroup(b, S) /\ Wrote(op, n, f)
  <2>1. Wrote(op, n, f)
    BY <1>7
  <2>2. n.pc = "done" /\ n.ids = op.ids /\ n.kind = op.kind
    BY ONLY <1>4, <2>1, WroteIs
  <2>3. \A x \in Tabs : b'.group[x] = IF x \in S THEN None ELSE b.group[x]
    BY <1>1, <1>7, TabsUngroupIs
  <2> QED
    BY <1>2, <1>3, <2>2, <2>3 DEF UngroupGoes
<1> QED
  BY <1>5, <1>6, <1>7

(***************************************************************************)
(* Any operation, from what it was asked to what it leaves.                *)
(***************************************************************************)
\* An operation of one step or two, of which nothing more is asked.
OtherSteps == {"label", "collapse", "move", "open", "close", "activate"}
OtherGoes(o) == o.kind \in {"label", "move", "open", "close", "activate"} /\ o.pc \in OtherSteps \cup {"done"}

LEMMA OtherWrote ==
    ASSUME NEW n, NEW f, Wrote(op, n, f), OtherGoes(op), f = Failed \/ f = Finished \/ f = Nothing \/ f = [pc |-> "collapse"] \/ f = [pc |-> "done"]
    PROVE  OtherGoes(n)
<1>1. op.kind # "gather"
  BY DEF OtherGoes
<1>2. /\ "kind" \notin DOMAIN f /\ ("pc" \in DOMAIN f => f.pc \in {"done", "collapse"})
  BY <1>1 DEF Failed, Finished, Nothing
<1>3. Wrote(op, n, f)
  OBVIOUS
<1>4. /\ n.pc = IF "pc" \in DOMAIN f THEN f.pc ELSE op.pc
      /\ n.kind = IF "kind" \in DOMAIN f THEN f.kind ELSE op.kind
  BY ONLY <1>3, WroteIs
<1> QED
  BY <1>2, <1>4 DEF OtherGoes, OtherSteps

LEMMA OtherMoves ==
    ASSUME NEW f, OpFields \subseteq DOMAIN op, Move(f), OtherGoes(op),
           f = Failed \/ f = [pc |-> "done"]
    PROVE  OtherGoes(op')
  BY MoveIs, OtherWrote

LEMMA OtherEdits ==
    ASSUME NEW ok, NEW Bs, NEW then, OpFields \subseteq DOMAIN op, Edit(ok, Bs, then, Failed), OtherGoes(op),
           then = Finished \/ then = [pc |-> "collapse"] \/ then = [pc |-> "done"]
    PROVE  OtherGoes(op')
<1>1. Wrote(op, op', Nothing) \/ Wrote(op, op', then) \/ Wrote(op, op', Failed)
  BY EditIs
<1> QED
  BY <1>1, OtherWrote

LEMMA OthersGo ==
    ASSUME BrowserSound, OtherGoes(op),
           UpdateGroup \/ CollapseSafely \/ MoveGroup \/ OpenTab \/ RemoveTab \/ ActivateTab
    PROVE  OtherGoes(op')
<1>1. OpFields \subseteq DOMAIN op
  BY StepsAt, WorkingTold
<1>2. CASE UpdateGroup
  <2>1. PICK ok, Bs, then : /\ Edit(ok, Bs, then, Failed)
                            /\ then = IF op.shut = "yes" THEN [pc |-> "collapse"] ELSE Finished
    BY <1>2 DEF UpdateGroup
  <2> QED
    BY <1>1, <2>1, OtherEdits
<1>3. CASE CollapseSafely
  <2>1. PICK ok, Bs : Edit(ok, Bs, Finished, Failed)
    BY <1>3 DEF CollapseSafely
  <2> QED
    BY <1>1, <2>1, OtherEdits
<1>4. CASE MoveGroup
  <2>1. PICK ok, Bs, then : Edit(ok, Bs, then, Failed) /\ then = [pc |-> "done"]
    BY <1>4 DEF MoveGroup
  <2> QED
    BY <1>1, <2>1, OtherEdits
<1>5. CASE OpenTab
  <2>1. PICK f : Move(f) /\ f = [pc |-> "done"]
    BY <1>5 DEF OpenTab
  <2> QED
    BY <1>1, <2>1, OtherMoves
<1>6. CASE RemoveTab
  <2>1. PICK f : Move(f) /\ (f = Failed \/ f = [pc |-> "done"])
    BY <1>6 DEF RemoveTab
  <2> QED
    BY <1>1, <2>1, OtherMoves
<1>7. CASE ActivateTab
  <2>1. PICK f : Move(f) /\ (f = Failed \/ f = [pc |-> "done"])
    BY <1>7 DEF ActivateTab
  <2> QED
    BY <1>1, <2>1, OtherMoves
<1> QED
  BY <1>2, <1>3, <1>4, <1>5, <1>6, <1>7

\* What is known of an operation nobody has interfered with.
Goes(o, B) ==
  o.pc = "idle" \/ GroupGoes(o, B) \/ GatherGoes(o, B) \/ SortGoes(o, B) \/ ShowGoes(o, B) \/ UngroupGoes(o, B) \/ OtherGoes(o)
OneStep ==
  \/ GroupTabs \/ JoinGroup \/ PlanOrder \/ OrderTab \/ PutBack \/ Rejoin \/ UpdateGroup \/ CollapseSafely
  \/ MoveGroup \/ UngroupTabs \/ Loosen
  \/ GatherGroup \/ NextGroup \/ MoveGroupTabsIn \/ JoinHost \/ FoldPlan \/ Fold
  \/ SortOneWindow \/ MoveUnitToEnd \/ LooseAgain \/ SortEnds
  \/ OpenOrFocus \/ CreateTab \/ RememberOpened \/ KeeperIsThere \/ CloseDuplicate \/ ForgetOpened \/ MoveKeeper
  \/ ActivateTab \/ OpenTab \/ RemoveTab

LEMMA Begins ==
    ASSUME BrowserSound, NEW r \in Requests, Begin(r)
    PROVE  Goes(op', b')
<1>1. PICK n, f : /\ n = op'
                  /\ f = [pc |-> r.kind, todo |-> <<>>, rest |-> <<>>, part |-> <<>>, moved |-> <<>>, keep |-> None, from |-> None,
                          tried |-> FALSE, failed |-> FALSE, was |-> b]
  OBVIOUS
<1>2. /\ DOMAIN f = {"pc", "todo", "rest", "part", "moved", "keep", "from", "tried", "failed", "was"}
      /\ f.pc = r.kind /\ f.failed = FALSE /\ f.was = b
  BY <1>1
<1>3. /\ r \in Asked /\ (r.kind \in {"group", "gather"} => r.title # "same")
  BY StripAssumption
<1>4. /\ DOMAIN r = {"kind", "ids", "title", "w", "g", "index", "page", "shut", "active", "findOnly"}
      /\ r.kind \in Operations /\ r.w \in Windows
  BY <1>3 DEF Asked
<1>5. /\ \A x \in DOMAIN f : n[x] = f[x]
      /\ \A x \in DOMAIN r \ DOMAIN f : n[x] = r[x]
  <2>1. n = Overlaid(r, f)
    BY <1>1 DEF Begin
  <2> QED
    BY ONLY <2>1 DEF Overlaid
<1>6. n.pc = r.kind /\ n.kind = r.kind /\ n.failed = FALSE /\ n.was = b /\ n.title = r.title /\ n.w = r.w
  BY <1>2, <1>4, <1>5
<1>7. PICK B : B = b
  OBVIOUS
<1>8. b' = B /\ n.was = B /\ WellFormed(B)
  BY <1>6, <1>7 DEF Begin, BrowserSound
<1>9. CASE r.kind = "group"
  BY <1>1, <1>3, <1>6, <1>8, <1>9 DEF Goes, GroupGoes, JoinSteps, JoinKnown, Late
<1>10. CASE r.kind = "gather"
  BY <1>1, <1>3, <1>6, <1>8, <1>10 DEF Goes, GatherGoes, GatherSteps, GatherKnown, JoinSteps, JoinKnown, Late
<1>11. CASE r.kind = "sort"
  BY <1>1, <1>4, <1>6, <1>8, <1>11 DEF Goes, SortGoes, SortStarted, SortKnown
<1>12. CASE r.kind = "show"
  BY <1>1, <1>6, <1>8, <1>12 DEF Goes, ShowGoes, ShowSteps, ShowKnown
<1>13. CASE r.kind = "ungroup"
  BY <1>1, <1>6, <1>13 DEF Goes, UngroupGoes
<1>14. CASE r.kind \in {"label", "move", "open", "close", "activate"}
  BY <1>1, <1>6, <1>14 DEF Goes, OtherGoes, OtherSteps
<1> QED
  BY <1>4, <1>9, <1>10, <1>11, <1>12, <1>13, <1>14 DEF Operations

LEMMA GroupOn ==
    ASSUME BrowserSound, OneStep, GroupGoes(op, b), ~dragging
    PROVE  Goes(op', b')
<1>1. op.pc \in JoinSteps \cup {"done"}
  BY DEF GroupGoes
<1>2. GroupTabs \/ JoinGroup \/ PlanOrder \/ OrderTab \/ PutBack \/ UpdateGroup \/ CollapseSafely
  BY <1>1, StepsAt DEF OneStep, JoinSteps
<1> QED
  BY <1>2, GroupStarts, GroupJoins, GroupPlans, GroupLabels DEF Goes

LEMMA GatherOn ==
    ASSUME BrowserSound, OneStep, GatherGoes(op, b), ~dragging
    PROVE  Goes(op', b')
<1>1. op.pc \in GatherSteps
  BY DEF GatherGoes
<1>2. \/ GroupTabs \/ JoinGroup \/ PlanOrder \/ OrderTab \/ PutBack \/ UpdateGroup \/ CollapseSafely
      \/ GatherGroup \/ NextGroup \/ MoveGroupTabsIn \/ JoinHost \/ FoldPlan \/ Fold
  BY <1>1, StepsAt DEF OneStep, GatherSteps, JoinSteps
<1>3. GatherGoes(op', b')
  BY <1>2, GatherGroups, GatherJoins, GatherOrders, GatherLabels, GatherStarts, GatherNexts, GatherMovesIn, GatherArrives,
     GatherPlansFold, GatherFolds
<1> QED
  BY <1>3 DEF Goes

LEMMA SortOn ==
    ASSUME BrowserSound, OneStep, SortGoes(op, b), ~dragging
    PROVE  Goes(op', b')
<1>1. op.pc \in {"sort", "sort next", "sort loose", "done"}
  BY DEF SortGoes
<1>2. SortOneWindow \/ MoveUnitToEnd \/ LooseAgain \/ SortEnds
  BY <1>1, StepsAt DEF OneStep
<1> QED
  BY <1>2, SortStarts, SortMoves, SortLoosens, SortEnded DEF Goes

LEMMA ShowOn ==
    ASSUME BrowserSound, OneStep, ShowGoes(op, b), ~dragging
    PROVE  Goes(op', b')
<1>1. op.pc \in ShowSteps
  BY DEF ShowGoes
<1>2. \/ OpenOrFocus \/ CreateTab \/ RememberOpened \/ KeeperIsThere \/ CloseDuplicate \/ ForgetOpened \/ MoveKeeper \/ ActivateTab
  BY <1>1, StepsAt DEF OneStep, ShowSteps
<1>3. ShowGoes(op', b')
  BY <1>2, ShowStarts, ShowChecks, ShowCreates, ShowRemembers, ShowCloses, ShowForgets, ShowMoves, ShowActivates
<1> QED
  BY <1>3 DEF Goes

LEMMA UngroupOn ==
    ASSUME BrowserSound, OneStep, UngroupGoes(op, b), ~dragging
    PROVE  Goes(op', b')
<1>1. op.pc \in {"ungroup", "loosen", "done"}
  BY DEF UngroupGoes
<1>2. UngroupTabs \/ Loosen
  BY <1>1, StepsAt DEF OneStep
<1> QED
  BY <1>2, Ungroups, Loosens DEF Goes

LEMMA OtherOn ==
    ASSUME BrowserSound, OneStep, OtherGoes(op)
    PROVE  Goes(op', b')
<1>1. op.pc \in OtherSteps \cup {"done"}
  BY DEF OtherGoes
<1>2. UpdateGroup \/ CollapseSafely \/ MoveGroup \/ OpenTab \/ RemoveTab \/ ActivateTab
  BY <1>1, StepsAt DEF OneStep, OtherSteps
<1> QED
  BY <1>2, OthersGo DEF Goes

LEMMA StepGoes ==
    ASSUME BrowserSound, OneStep, Goes(op, b), ~dragging
    PROVE  Goes(op', b')
<1>1. op.pc # "idle"
  BY StepsAt DEF OneStep
<1> QED
  BY <1>1, GroupOn, GatherOn, SortOn, ShowOn, UngroupOn, OtherOn DEF Goes

LEMMA DoneAsAsked ==
    ASSUME BrowserSound, Goes(op, b), op.pc = "done", ~op.failed
    PROVE  CASE op.kind = "group" -> GroupedAsAsked
             [] op.kind = "gather" -> GatheredAsAsked
             [] op.kind = "sort" -> SortedAsAsked
             [] op.kind = "show" -> ShownAsAsked
             [] op.kind = "ungroup" -> \A t \in ToSet(op.ids) : b.group[t] = None
             [] OTHER -> TRUE
<1>1. WellFormed(b)
  BY DEF BrowserSound
<1>2. CASE GroupGoes(op, b)
  <2>1. op.kind = "group" /\ GroupedSo(op, b)
    BY <1>2 DEF GroupGoes
  <2>2. GroupedAsAsked
    BY <2>1 DEF GroupedSo, Ordered, ItsFirst, First, GroupedAsAsked
  <2> QED
    BY <2>1, <2>2
<1>3. CASE GatherGoes(op, b)
  <2>1. op.kind = "gather" /\ GatheredAsAsked
    BY <1>3, GatheredIs DEF GatherGoes
  <2> QED
    BY <2>1
<1>4. CASE SortGoes(op, b)
  <2>1. op.kind = "sort" /\ SortStarted(op) /\ b.group = op.was.group /\ Sorting(op, b, {})
    BY <1>4 DEF SortGoes, SortKnown, SortStarted
  <2>2. SortedAsAsked
    BY <1>1, <2>1, SortedIs DEF SortedAsAsked
  <2> QED
    BY <2>1, <2>2
<1>5. CASE ShowGoes(op, b)
  <2>1. op.kind = "show" /\ ShownAsked(op, b)
    BY <1>5 DEF ShowGoes, ShowKnown
  <2>2. ShownAsAsked
    BY <2>1 DEF ShownAsked, ShownAsAsked, There, LastIn, IsLast
  <2> QED
    BY <2>1, <2>2
<1>6. CASE UngroupGoes(op, b)
  <2>1. op.kind = "ungroup" /\ \A t \in ToSet(op.ids) : b.group[t] = None
    BY <1>6 DEF UngroupGoes
  <2> QED
    BY <2>1
<1>7. CASE OtherGoes(op)
  <2>1. op.kind \in {"label", "move", "open", "close", "activate"}
    BY <1>7 DEF OtherGoes
  <2> QED
    BY <2>1
<1> QED
  BY <1>2, <1>3, <1>4, <1>5, <1>6, <1>7 DEF Goes

\* Until the person interferes nothing is being dragged, and the operation is where it should be.
Untouched == trouble \in Nat /\ (trouble = 0 => ~dragging /\ Goes(op, b))

LEMMA UntouchedInitially == StripInit => Untouched
  BY DEF StripInit, Untouched, Goes, Idle

LEMMA UntouchedStill ==
    ASSUME BrowserSound, Untouched, StripNext
    PROVE  Untouched'
<1>1. ASSUME NEW r \in Requests, Begin(r)
      PROVE  Untouched'
  <2>1. Goes(op', b') /\ trouble' = trouble /\ dragging' = dragging
    BY <1>1, Begins DEF Begin
  <2> QED
    BY <2>1 DEF Untouched
<1>2. CASE OneStep
  <2>1. trouble' = trouble /\ dragging' = dragging
    <3>1. Keep => trouble' = trouble /\ dragging' = dragging
      BY DEF Keep
    <3>2. OneStep => Keep
      BY DEF OneStep, GroupTabs, JoinGroup, PlanOrder, OrderTab, PutBack, Rejoin, UpdateGroup, CollapseSafely, MoveGroup,
             UngroupTabs, Loosen, GatherGroup, NextGroup, MoveGroupTabsIn, JoinHost, FoldPlan, Fold, SortOneWindow,
             MoveUnitToEnd, LooseAgain, SortEnds, OpenOrFocus, CreateTab, RememberOpened, KeeperIsThere, CloseDuplicate,
             ForgetOpened, MoveKeeper, ActivateTab, OpenTab, RemoveTab
    <3> QED
      BY <1>2, <3>1, <3>2
  <2>2. trouble = 0 => Goes(op', b')
    BY <1>2, StepGoes DEF Untouched
  <2> QED
    BY <2>1, <2>2 DEF Untouched
<1>3. CASE \/ PicksUp \/ Drags \/ \E t \in OpenTabs(b) : Pins(t) \/ Closes(t) \/ Selects(t) \/ TypesAddress(t)
  <2>1. trouble' = trouble + 1
    BY <1>3 DEF PicksUp, Drags, Pins, Closes, Selects, TypesAddress, Person
  <2> QED
    BY <2>1 DEF Untouched
<1>4. CASE Drops
  BY <1>4 DEF Drops, Untouched
<1> QED
  BY <1>1, <1>2, <1>3, <1>4 DEF StripNext, OneStep

\* Nobody interfered: the tabs named end up in one group, in the order named, after the members it
\* had; a title gathered is one group in the named window, the window's own first if it had one,
\* with every tab of that title; a sorted window runs from old to new with its groups whole; the
\* page shown is at the right of its window, in the tab that had it; and what was ungrouped is in
\* no group.  For any strips, groups, titles and requests.  (tab-groups.js, tab-ages.js, ops.js)
THEOREM TheStripIsLeftAsAsked == StripSpec => []LeftAsAsked
<1>1. BrowserSound /\ Untouched /\ UNCHANGED stripVars => Untouched'
  BY DEF Untouched, stripVars
<1>2. BrowserSound /\ Untouched /\ [StripNext]_stripVars => Untouched'
  BY <1>1, UntouchedStill
<1>3. BrowserSound /\ Untouched => LeftAsAsked
  <2> SUFFICES ASSUME BrowserSound, Untouched, op.pc = "done", ~op.failed, trouble = 0
               PROVE  LeftAsAsked
    BY DEF LeftAsAsked
  <2>1. Goes(op, b)
    BY DEF Untouched
  <2> QED
    BY <2>1, DoneAsAsked DEF LeftAsAsked
<1> QED
  BY <1>2, <1>3, UntouchedInitially, TheStripStaysSound, PTL DEF StripSpec
=============================================================================
