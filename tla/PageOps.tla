------------------------------ MODULE PageOps ------------------------------
(***************************************************************************)
(* The page operations of the extension (lib/ops.js, snapshot.js) and the  *)
(* worker's tab events (sw.js), on one tab.  An operation runs in steps,   *)
(* one for each answer it waits for; several run at once, and the worker   *)
(* may die between any two steps.  calls is the line of debugger requests  *)
(* the browser serves in order, events what it tells the worker, in order. *)
(* The person at the browser navigates, closes the tab and dismisses the   *)
(* debug banner, but moves nothing between the check of a key and the      *)
(* key; one operation types at a time; a page moves focus when a key or a  *)
(* click reaches it, and leaves only at an Enter.  A page may come again   *)
(* at the address it has, by a reload or a load of that address: the       *)
(* browser then tells the worker of no address, which its onUpdated        *)
(* listener waits for.  Two documents of one site may have two addresses.  *)
(***************************************************************************)
EXTENDS Naturals, Sequences, FiniteSets

CONSTANTS
  Ops,          \* the operations that may run, each once
  Kinds,        \* what they may be
  MaxDocs,      \* documents the tab shows
  MaxKeys,      \* keys of one sequence
  MaxMishaps    \* navigations, closes, dismissals, renames, worker deaths, second boots

ASSUME BoundsAssumption == {MaxDocs, MaxKeys, MaxMishaps} \subseteq Nat
\* An operation is not one of the others who act on the tab.
ASSUME OpsAssumption == Ops \cap {"person", "worker", "sweep"} = {}

Sites == {"plain", "signin", "browser"}
\* What may have focus; from is the site of its frame, "named" the one a recorded yes names.
Fields == {[kind |-> "text", from |-> "plain"], [kind |-> "secret", from |-> "plain"],
           [kind |-> "secret", from |-> "named"], [kind |-> "opaque", from |-> "plain"]}

VARIABLES
  tab,         \* what the tab shows (doc; since: the first document of its address), where it is heading, what has focus
  attached,    \* the debugger is attached to it
  calls, events,
  signingIn,   \* worker memory: a sign-in page is loading or shown here
  listed,      \* session storage: the tab is believed to be attached
  snap,        \* session storage: the document the refs were minted in (0: none)
  job,          \* each operation
  sweep,       \* the cleanup a worker does as it starts
  torn,        \* a worker died, or swept, with an attachment nobody had written down, or the note was wiped out
  leaked,      \* a key landed where nobody agreed to it
  mishaps

pageVars == <<tab, attached, calls, events, signingIn, listed, snap, job, sweep, torn, leaked, mishaps>>
world == <<tab, events, mishaps>>
memo == <<signingIn, listed, snap, sweep>>
ghosts == <<torn, leaked>>

NotBegun == [pc |-> "idle", kind |-> "none", yes |-> FALSE, sent |-> 0, enter |-> FALSE,
         site |-> "none", doc |-> 0, raced |-> FALSE, inside |-> FALSE, again |-> FALSE]

PageInit ==
  /\ tab = [open |-> TRUE, doc |-> 1, since |-> 1, at |-> "plain", heading |-> "nowhere", shown |-> TRUE, by |-> "person",
            focus |-> [kind |-> "text", from |-> "plain"]]
  /\ attached = FALSE /\ calls = <<>> /\ events = <<>>
  /\ signingIn = FALSE /\ listed = FALSE /\ snap = [doc |-> 0, raced |-> FALSE]
  /\ job = [o \in Ops |-> NotBegun]
  /\ sweep = "due" /\ torn = FALSE /\ leaked = FALSE /\ mishaps = 0

Mishap == mishaps < MaxMishaps /\ mishaps' = mishaps + 1

Step(o, after) == job' = [job EXCEPT ![o] = after]
IsAt(o, pc) == job[o].pc = pc
Done == [NotBegun EXCEPT !.pc = "done"]
Go(o, pc) == Step(o, IF pc = "done" THEN Done ELSE [job[o] EXCEPT !.pc = pc])
Running(o) == job[o].pc \notin {"idle", "done"}
Holds(o) == Running(o) /\ (job[o].inside \/ job[o].pc = "attached")
Call(o, do) == calls' = Append(calls, [do |-> do, by |-> o])

InLine(o) == \E i \in 1..Len(calls) : calls[i] = [do |-> "command", by |-> o]

\* What its worker's death leaves of an operation: a command in line is still carried out.
Abandoned(o) == IF InLine(o) THEN [job[o] EXCEPT !.pc = "done"] ELSE Done

\* Between the check of a key and the key: nobody else moves the tab there.
BeforeItsKey(o) == job[o].kind = "keys" /\ job[o].pc \in {"ask", "asked", "attaching", "attached", "held"}
Undisturbed == ~ \E o \in Ops : BeforeItsKey(o) \/ InLine(o)

(***************************************************************************)
(* Mutants: what a plausible mistake would make of an operator.            *)
(***************************************************************************)
SettleAtOnce(o) ==
  /\ IsAt(o, "guard") /\ job[o].enter
  /\ Step(o, [job[o] EXCEPT !.enter = FALSE])
  /\ UNCHANGED <<attached, calls, memo, ghosts, world>>

KeepSnapshot == UNCHANGED snap

NoFinally(o) == "done"

(***************************************************************************)
(* The guard on secret fields.                                             *)
(***************************************************************************)
IsSecretField(f) == f.kind \in {"secret", "opaque"}

SecretFieldVerdict(f, yes) == ~IsSecretField(f) \/ (f.kind = "secret" /\ yes /\ f.from = "named")

\* What the next key lands in, if the rest of the sequence may land there.
GuardSecretField(o, f) ==
  /\ SecretFieldVerdict(f, job[o].yes)
  /\ job[o].site \in {"none", f.from}

SiteAfter(o, f) == IF f.kind = "secret" THEN f.from ELSE job[o].site

(***************************************************************************)
(* What the injected functions do to the page, as far as its focus goes.   *)
(***************************************************************************)
PageFieldKind == tab.focus
PageFocusSelect(f) == tab' = [tab EXCEPT !.focus = f]
PageClick(f) == tab' = [tab EXCEPT !.focus = f]
PageFill(f) == tab' = [tab EXCEPT !.focus = f]

\* A ref resolves while the tab has a snapshot; a selector needs none.
ResolveRef == snap.doc # 0

(***************************************************************************)
(* Operations.                                                             *)
(***************************************************************************)
Starts(o, k, yes) ==
  /\ IsAt(o, "idle") /\ sweep = "done" /\ tab.open /\ tab.at # "browser" /\ (yes => k \in {"keys", "fill"})
  /\ k = "keys" => ~ \E p \in Ops : job[p].kind = "keys" /\ Running(p)
  /\ Step(o, [job[o] EXCEPT !.pc = "ready", !.kind = k, !.yes = yes])
  /\ UNCHANGED <<attached, calls, memo, ghosts, world>>

\* readPage, format "snapshot": the page is read, then the refs are written down.
LooksAt(o) ==
  /\ IsAt(o, "ready") /\ job[o].kind = "snapshot" /\ tab.open
  /\ Step(o, [job[o] EXCEPT !.pc = "write", !.doc = tab.doc])
  /\ UNCHANGED <<attached, calls, memo, ghosts, world>>

BuildSnapshot(o) ==
  /\ IsAt(o, "write")
  /\ snap' = [doc |-> job[o].doc, raced |-> job[o].raced]
  /\ Go(o, "done")
  /\ UNCHANGED <<attached, calls, signingIn, listed, sweep, ghosts, world>>

Heads(site, shown, by) ==
  /\ tab' = [tab EXCEPT !.heading = site, !.shown = shown, !.by = by]
  /\ events' = IF site = "signin" THEN Append(events, [what |-> "request", at |-> site]) ELSE events

ClearSnapshot == snap' = [doc |-> 0, raced |-> FALSE]

\* Also openOrFocus's reload. The wait for the page to load, which follows, only reads.
Navigate(o, site) ==
  /\ IsAt(o, "ready") /\ job[o].kind = "navigate" /\ tab.open /\ site # "browser" /\ Undisturbed
  /\ Heads(site, TRUE, "person")
  /\ Go(o, "clear")
  /\ UNCHANGED <<attached, calls, memo, ghosts, mishaps>>

CloseTab(o) ==
  /\ IsAt(o, "ready") /\ job[o].kind = "close" /\ tab.open /\ Undisturbed
  /\ tab' = [tab EXCEPT !.open = FALSE, !.heading = "nowhere"]
  /\ events' = Append(events, [what |-> "removed", at |-> tab.at])
  /\ attached' = FALSE
  /\ Go(o, "clear")
  /\ UNCHANGED <<calls, memo, ghosts, mishaps>>

Cleared(o) ==
  /\ IsAt(o, "clear") /\ ClearSnapshot /\ Go(o, "done")
  /\ UNCHANGED <<attached, calls, signingIn, listed, sweep, ghosts, world>>

\* An untrusted click names a ref of the snapshot, or is refused.
Click(o, f) ==
  /\ IsAt(o, "ready") /\ job[o].kind = "click" /\ tab.open /\ Undisturbed
  /\ IF ResolveRef THEN PageClick(f) ELSE UNCHANGED tab
  /\ Go(o, "done")
  /\ UNCHANGED <<attached, calls, memo, ghosts, events, mishaps>>

\* fill, mode "set": the named field is judged, focused and set, or refused.
Fill(o, f) ==
  /\ IsAt(o, "ready") /\ job[o].kind = "fill" /\ tab.open /\ Undisturbed
  /\ IF ResolveRef /\ GuardSecretField(o, f)
     THEN /\ PageFill(f)
          /\ leaked' = (leaked \/ ~SecretFieldVerdict(f, job[o].yes))
     ELSE UNCHANGED <<tab, leaked>>
  /\ Go(o, "done")
  /\ UNCHANGED <<attached, calls, memo, torn, events, mishaps>>

\* Trusted keys: the element is focused, if it can be, and then the focus is judged.
FocusSelect(o, f) ==
  /\ IsAt(o, "ready") /\ job[o].kind = "keys" /\ tab.open /\ Undisturbed
  /\ PageFocusSelect(f)
  /\ Go(o, "guard")
  /\ UNCHANGED <<attached, calls, memo, ghosts, events, mishaps>>

Finally(o) == IF job[o].inside THEN "finally" ELSE "done"

\* The caller's time runs out at any moment; the operation goes on without a
\* caller, but a sequence of keys stops at it, a margin early.
TimeIsUp(o) ==
  /\ IsAt(o, "guard") /\ Go(o, Finally(o))
  /\ UNCHANGED <<attached, calls, memo, ghosts, world>>

\* After an Enter the tab has to stop loading; a page still loading ends the sequence.
SettleAfterEnter(o) ==
  /\ IsAt(o, "guard") /\ job[o].enter
  /\ IF tab.heading = "nowhere" THEN Step(o, [job[o] EXCEPT !.enter = FALSE]) ELSE Go(o, Finally(o))
  /\ UNCHANGED <<attached, calls, memo, ghosts, world>>

GuardFocus(o) ==
  /\ IsAt(o, "guard") /\ ~job[o].enter
  /\ IF tab.open /\ GuardSecretField(o, PageFieldKind)
     THEN Step(o, [job[o] EXCEPT !.pc = IF job[o].inside THEN "held" ELSE "ask", !.site = SiteAfter(o, PageFieldKind)])
     ELSE Go(o, Finally(o))
  /\ UNCHANGED <<attached, calls, memo, ghosts, world>>

(***************************************************************************)
(* The debugger.                                                           *)
(***************************************************************************)
\* A full page, or a tab that is not shown, is captured through the debugger.
Screenshot(o) ==
  /\ IsAt(o, "ready") /\ job[o].kind = "debug"
  /\ Go(o, "ask")
  /\ UNCHANGED <<attached, calls, memo, ghosts, world>>

\* The page evaluates it, or its policy refuses and the debugger does.
EvalJs(o) ==
  /\ IsAt(o, "ready") /\ job[o].kind = "debug" /\ tab.open
  /\ \E pc \in {"done", "ask"} : Go(o, pc)
  /\ UNCHANGED <<attached, calls, memo, ghosts, world>>

\* assertNotSignIn asks for the tab's addresses, then looks at what the worker has seen leave.
AsksTab(o) ==
  /\ IsAt(o, "ask")
  /\ Go(o, IF tab.open /\ (tab.at = "signin" \/ (tab.heading = "signin" /\ tab.shown)) THEN Finally(o) ELSE "asked")
  /\ UNCHANGED <<attached, calls, memo, ghosts, world>>

AttachDebugger(o) ==
  /\ IsAt(o, "asked")
  /\ IF signingIn THEN Go(o, Finally(o)) /\ UNCHANGED calls
                  ELSE Go(o, "attaching") /\ Call(o, "attach")
  /\ UNCHANGED <<attached, memo, ghosts, world>>

NoteAttached(o) ==
  /\ IsAt(o, "attached") /\ listed' = TRUE
  /\ IF job[o].again THEN Go(o, "cdp") /\ Call(o, "command")
                    ELSE Step(o, [job[o] EXCEPT !.pc = "held", !.inside = TRUE]) /\ UNCHANGED calls
  /\ UNCHANGED <<attached, signingIn, snap, sweep, ghosts, world>>

SendCommand(o) ==
  /\ IsAt(o, "held") /\ Call(o, "command") /\ Step(o, [job[o] EXCEPT !.pc = "cdp", !.again = FALSE])
  /\ UNCHANGED <<attached, memo, ghosts, world>>

DetachDebugger(o) ==
  /\ IsAt(o, "finally") /\ Call(o, "detach") /\ Go(o, "detaching")
  /\ UNCHANGED <<attached, memo, ghosts, world>>

\* The browser serves the head of the line; who asked goes on if it is still there.
Served == calls # <<>> /\ calls' = Tail(calls)
Asker == Head(calls).by
Waits(pc) == Asker \in Ops /\ job[Asker].pc = pc

ServeAttach ==
  /\ Served /\ Head(calls).do = "attach"
  /\ attached' = tab.open
  /\ IF Waits("attaching") THEN Go(Asker, IF tab.open THEN "attached" ELSE Finally(Asker)) ELSE UNCHANGED job
  /\ torn' = (torn \/ ~Waits("attaching"))
  /\ UNCHANGED <<memo, leaked, world>>

ServeDetach ==
  /\ Served /\ Head(calls).do = "detach"
  /\ attached' = FALSE
  /\ listed' = (listed /\ Asker = "sweep")
  /\ IF Waits("detaching") THEN Go(Asker, "done") ELSE UNCHANGED job
  /\ sweep' = IF Asker = "sweep" /\ sweep = "detaching" THEN "clearing" ELSE sweep
  /\ UNCHANGED <<signingIn, snap, ghosts, world>>

\* A command finds the tab detached: the operation attaches again, once.
CommandFails ==
  /\ Served /\ Head(calls).do = "command" /\ ~attached
  /\ IF ~Waits("cdp") THEN UNCHANGED <<job, listed>>
     ELSE /\ listed' = FALSE
          /\ IF job[Asker].again THEN Go(Asker, "finally") ELSE Step(Asker, [job[Asker] EXCEPT !.pc = "ask", !.again = TRUE])
  /\ UNCHANGED <<attached, signingIn, snap, sweep, ghosts, world>>

CommandRuns ==
  /\ Served /\ Head(calls).do = "command" /\ attached /\ (Asker \in Ops => job[Asker].kind = "debug")
  /\ IF Waits("cdp") THEN Go(Asker, "finally") ELSE UNCHANGED job
  /\ UNCHANGED <<attached, memo, ghosts, world>>

\* A key lands in what has focus; the page answers by moving it, and an Enter may leave.
Agreed(o, f) == SecretFieldVerdict(f, job[o].yes) /\ job[o].site \in {"none", f.from}

KeyLands(enter, f, site) ==
  /\ Served /\ Head(calls).do = "command" /\ attached /\ job[Asker].kind = "keys"
  /\ leaked' = (leaked \/ ~Agreed(Asker, tab.focus))
  /\ IF enter /\ site # "nowhere" THEN Heads(site, site # "signin", Asker)
     ELSE tab' = [tab EXCEPT !.focus = f] /\ UNCHANGED events
  /\ IF ~Waits("cdp") THEN UNCHANGED job
     ELSE Step(Asker, [job[Asker] EXCEPT !.pc = IF job[Asker].sent + 1 < MaxKeys THEN "guard" ELSE "finally",
                                         !.sent = @ + 1, !.enter = enter])
  /\ UNCHANGED <<attached, memo, torn, mishaps>>

(***************************************************************************)
(* The browser and its events.                                             *)
(***************************************************************************)
PersonNavigates(site, shown) ==
  /\ Mishap /\ tab.open /\ tab.heading = "nowhere" /\ Undisturbed
  /\ shown \/ site = "signin"
  /\ Heads(site, shown, "person")
  /\ UNCHANGED <<attached, calls, memo, job, ghosts>>

\* The page it was heading for arrives, at the address it has or at another; one an Enter of
\* this sequence sent for, at any time. The browser names the address if it is another.
Lands(f, same) ==
  /\ tab.open /\ tab.heading # "nowhere" /\ tab.doc < MaxDocs /\ (Undisturbed \/ (tab.by \in Ops /\ Running(tab.by)))
  /\ same => tab.heading = tab.at
  /\ tab' = [tab EXCEPT !.doc = @ + 1, !.since = IF same THEN @ ELSE tab.doc + 1, !.at = tab.heading, !.heading = "nowhere",
                        !.shown = TRUE, !.by = "person", !.focus = f]
  /\ events' = IF same THEN events ELSE Append(events, [what |-> "landed", at |-> tab.heading])
  /\ UNCHANGED <<attached, calls, memo, job, ghosts, mishaps>>

\* The page gives itself another address without loading one.
PageRenames ==
  /\ Mishap /\ tab.open
  /\ tab' = [tab EXCEPT !.since = tab.doc]
  /\ events' = Append(events, [what |-> "landed", at |-> tab.at])
  /\ UNCHANGED <<attached, calls, memo, job, ghosts>>

PersonCloses ==
  /\ Mishap /\ tab.open /\ Undisturbed
  /\ tab' = [tab EXCEPT !.open = FALSE, !.heading = "nowhere"]
  /\ events' = Append(events, [what |-> "removed", at |-> tab.at])
  /\ attached' = FALSE
  /\ UNCHANGED <<calls, memo, job, ghosts>>

BannerDismissed ==
  /\ Mishap /\ attached /\ attached' = FALSE
  /\ events' = Append(events, [what |-> "detached", at |-> tab.at])
  /\ UNCHANGED <<tab, calls, memo, job, ghosts>>

\* Let go of the tab whatever the list says: a worker that died may not have written it.
DetachForSignIn ==
  /\ signingIn' = TRUE
  /\ Call("worker", "detach")

Take == events # <<>> /\ events' = Tail(events)
Notice == Head(events)
Raced == job' = [o \in Ops |-> IF job[o].pc = "write" THEN [job[o] EXCEPT !.raced = TRUE] ELSE job[o]]

OnBeforeRequest ==
  /\ Take /\ Notice.what = "request" /\ DetachForSignIn
  /\ UNCHANGED <<tab, attached, listed, snap, job, sweep, ghosts, mishaps>>

\* Only an update that names an address is listened to: the others are not in events.
OnUpdated ==
  /\ Take /\ Notice.what = "landed" /\ ClearSnapshot /\ Raced
  /\ IF Notice.at = "signin" THEN DetachForSignIn ELSE signingIn' = FALSE /\ UNCHANGED calls
  /\ UNCHANGED <<tab, attached, listed, sweep, ghosts, mishaps>>

OnRemoved ==
  /\ Take /\ Notice.what = "removed" /\ ClearSnapshot /\ Raced
  /\ signingIn' = FALSE
  /\ UNCHANGED <<tab, attached, calls, listed, sweep, ghosts, mishaps>>

NoteDebuggerDetached ==
  /\ Take /\ Notice.what = "detached" /\ listed' = FALSE
  /\ torn' = (torn \/ (attached /\ ~ \E o \in Ops : Holds(o)))
  /\ UNCHANGED <<tab, attached, calls, signingIn, snap, job, sweep, leaked, mishaps>>

(***************************************************************************)
(* The worker dies, and starts: what an earlier one left attached is let   *)
(* go of.  A second boot sweeps again while operations run.                *)
(***************************************************************************)
WorkerDies ==
  /\ Mishap
  /\ signingIn' = FALSE /\ sweep' = "due"
  /\ job' = [o \in Ops |-> IF Running(o) THEN Abandoned(o) ELSE job[o]]
  /\ torn' = (torn \/ (attached /\ ~listed))
  /\ UNCHANGED <<tab, events, attached, calls, listed, snap, leaked>>

BootsAgain ==
  /\ Mishap /\ sweep = "done" /\ sweep' = "due"
  /\ UNCHANGED <<tab, events, attached, calls, signingIn, listed, snap, job, ghosts>>

SweepDebuggees ==
  /\ sweep = "due"
  /\ IF listed THEN Call("sweep", "detach") /\ sweep' = "detaching" ELSE sweep' = "clearing" /\ UNCHANGED calls
  /\ UNCHANGED <<attached, signingIn, listed, snap, job, ghosts, world>>

SweepEnds ==
  /\ sweep = "clearing" /\ sweep' = "done" /\ listed' = FALSE
  /\ UNCHANGED <<attached, calls, signingIn, snap, job, ghosts, world>>

PageNext ==
  \/ \E o \in Ops :
       \/ \E k \in Kinds, yes \in BOOLEAN : Starts(o, k, yes)
       \/ LooksAt(o) \/ BuildSnapshot(o) \/ CloseTab(o) \/ Cleared(o)
       \/ \E s \in Sites : Navigate(o, s)
       \/ \E f \in Fields : Click(o, f) \/ Fill(o, f) \/ FocusSelect(o, f)
       \/ TimeIsUp(o) \/ SettleAfterEnter(o) \/ GuardFocus(o)
       \/ Screenshot(o) \/ EvalJs(o) \/ AsksTab(o) \/ AttachDebugger(o) \/ NoteAttached(o) \/ SendCommand(o) \/ DetachDebugger(o)
  \/ ServeAttach \/ ServeDetach \/ CommandFails \/ CommandRuns
  \/ \E enter \in BOOLEAN, f \in Fields, s \in Sites \cup {"nowhere"} : KeyLands(enter, f, s)
  \/ \E s \in Sites, shown \in BOOLEAN : PersonNavigates(s, shown)
  \/ \E f \in Fields, same \in BOOLEAN : Lands(f, same)
  \/ PageRenames \/ PersonCloses \/ BannerDismissed
  \/ OnBeforeRequest \/ OnUpdated \/ OnRemoved \/ NoteDebuggerDetached
  \/ WorkerDies \/ BootsAgain \/ SweepDebuggees \/ SweepEnds

PageSpec == PageInit /\ [][PageNext]_pageVars

(***************************************************************************)
(* Properties.                                                             *)
(***************************************************************************)
\* No trusted key lands in a password or one-time-code field without a recorded
\* yes for the site that holds the field, nor, once one was typed, anywhere off
\* that site: fill and pressKeys judge the focus again after every key, and
\* after an Enter wait for the page that is coming (guardFocus, settleAfterEnter).
NoSecretWithoutAYes == ~leaked

\* A sign-in page the worker has heard about is not shown with the debugger
\* attached, however an operation's attach, a redirect or a worker's death fell
\* between (detachForSignIn, assertNotSignIn).
SignInIsLetGo ==
  tab.open /\ tab.at = "signin" /\ events = <<>> /\ calls = <<>> => ~attached

\* Refs do not outlive the address they were minted at: once the tab has gone to another one, or
\* has been closed, they are cleared or the worker is about to hear of it, but for a snapshot that
\* was written down on the far side of that navigation (buildSnapshot, onUpdated, onRemoved).
RefsDieWithTheirAddress ==
  snap.doc # 0 /\ (~tab.open \/ snap.doc < tab.since)
    => snap.raced \/ \E i \in 1..Len(events) : events[i].what \in {"landed", "removed"}

\* A tab that navigated shows an entirely different document, and its refs can never resolve
\* again (sw.js:120, :127; shape.mjs:696: void after the page navigates). The code does not keep
\* it: a document that came at the same address is named by no update (onUpdated).
RefsDieWithTheirDocument ==
  snap.doc # 0 /\ (~tab.open \/ snap.doc # tab.doc)
    => snap.raced \/ \E i \in 1..Len(events) : events[i].what \in {"landed", "removed"}

\* An attachment is held by an operation, about to be let go of, or written down
\* for the next worker to let go of, unless a worker died or swept between the
\* attach and its note, or word of an earlier detach wiped the note out
\* (withDebugger, sweepDebuggees).
DebuggerLetGo ==
  attached =>
    \/ torn \/ \E o \in Ops : Holds(o)
    \/ \E i \in 1..Len(calls) : calls[i].do = "detach"
    \/ sweep = "due" /\ listed

\* The debugger ends with the operation that attached it, and at a sign-in page
\* before that.
DebuggerEnds == SignInIsLetGo /\ DebuggerLetGo
=============================================================================
