------------------------------ MODULE Commands ------------------------------
(***************************************************************************)
(* Two commands that close tabs in a browser somebody is using:            *)
(* read-page opens a background tab, reads it and closes it                *)
(* (scripts/read-page.mjs); close-duplicates closes the copies of a page   *)
(* after a fresh listing for each (scripts/close-duplicates.mjs).  A       *)
(* request is carried out by the browser after other things have happened, *)
(* and its answer may be lost.                                             *)
(*                                                                         *)
(* What a page says, how long each wait is and what is printed are left    *)
(* out.  One profile; a restart of the browser is not modelled.            *)
(***************************************************************************)
EXTENDS Naturals, Sequences, FiniteSets, SequencesExt

CONSTANTS
  Tabs,          \* tab ids
  Urls, ReadUrl,    \* addresses, and the one read-page is asked for
  MaxActs,       \* things the person does
  MaxDrops       \* reconnections of the bridge, and lost answers

ASSUME CommandsAssumption == ReadUrl \in Urls /\ Tabs \subseteq Nat \ {0} /\ {MaxActs, MaxDrops} \subseteq Nat

VARIABLES
  tabs,      \* each tab: unborn, open or closed, its address, shown, kept (pinned or playing)
  gen,       \* the generation the bridge mints handles for
  reader,    \* read-page
  closer,    \* close-duplicates
  quiet,     \* nobody but close-duplicates touched a tab since its last listing
  opened,    \* the tab read-page opened (0: none)
  acts, drops

commandsVars == <<tabs, gen, reader, closer, quiet, opened, acts, drops>>

Handle(t) == [gen |-> gen, tab |-> t]
NoHandle == [gen |-> 0, tab |-> 0]
Open == {t \in Tabs : tabs[t].is = "open"}
Listing == [t \in Open |-> [handle |-> Handle(t), url |-> tabs[t].url, shown |-> tabs[t].shown, kept |-> tabs[t].kept]]

CommandsInit ==
  /\ \E urls \in [Tabs -> Urls], there \in SUBSET Tabs, kept \in SUBSET Tabs, shown \in Tabs :
       /\ shown \in there /\ kept \subseteq there
       /\ tabs = [t \in Tabs |-> [is |-> IF t \in there THEN "open" ELSE "unborn", url |-> urls[t],
                                  shown |-> t = shown, kept |-> t \in kept]]
       /\ \A t \in Tabs \ there : urls[t] = ReadUrl
  /\ gen = 1
  /\ reader = [pc |-> "start", handle |-> NoHandle, left |-> FALSE]
  /\ closer = [pc |-> "start", plan |-> <<>>, handle |-> NoHandle, closed |-> {}]
  /\ quiet = FALSE /\ opened = 0 /\ acts = 0 /\ drops = 0

(* A tab goes; if it was the one shown, the browser shows another.         *)
Removes(t) ==
  LET gone == [tabs EXCEPT ![t].is = "closed", ![t].shown = FALSE] IN
  IF tabs[t].shown /\ Open # {t}
  THEN \E o \in Open \ {t} : tabs' = [gone EXCEPT ![o].shown = TRUE]
  ELSE tabs' = gone

Drop == drops < MaxDrops /\ drops' = drops + 1

-----------------------------------------------------------------------------
(* read-page                                                               *)

ReaderOnly == UNCHANGED <<tabs, gen, closer, quiet, opened, acts>>
To(pc) == reader' = [reader EXCEPT !.pc = pc]
Ends(left) == reader' = [reader EXCEPT !.pc = "done", !.left = left]

(* The request is refused before it is sent on: no tab was made.           *)
OpenRefused == reader.pc = "start" /\ Ends(FALSE) /\ ReaderOnly /\ UNCHANGED drops

(* Any other failure may come after the tab was opened.                    *)
OpenFails == reader.pc \in {"start", "opened"} /\ Drop /\ Ends(TRUE) /\ ReaderOnly

TabOpens ==
  /\ reader.pc = "start"
  /\ \E t \in Tabs :
       /\ tabs[t].is = "unborn"
       /\ tabs' = [tabs EXCEPT ![t] = [is |-> "open", url |-> ReadUrl, shown |-> FALSE, kept |-> FALSE]]
       /\ opened' = t
       /\ reader' = [reader EXCEPT !.pc = "opened", !.handle = Handle(t)]
  /\ quiet' = FALSE
  /\ UNCHANGED <<gen, closer, acts, drops>>

OpenAnswered == reader.pc = "opened" /\ To("waiting") /\ ReaderOnly /\ UNCHANGED drops

(* waitForLoad: the handle is listed, or its tab is under a newer handle,  *)
(* or it is gone.                                                          *)
Listed == reader.handle \in {Listing[t].handle : t \in DOMAIN Listing}

(* Mutant: a handle that is not listed is a closed tab.                    *)
GoneIsClosed == FALSE

Reminted == ~Listed /\ reader.handle.tab \in DOMAIN Listing

WaitForLoad ==
  /\ reader.pc = "waiting"
  /\ IF Listed THEN To("reading") ELSE Ends(Reminted)
  /\ ReaderOnly /\ UNCHANGED drops

(* A page is read, and scrolled, many times; an error or the end of it     *)
(* leads to the close, and so does an error while it was waited for.       *)
Reads == reader.pc \in {"waiting", "reading"} /\ To("closing") /\ ReaderOnly /\ UNCHANGED drops

(* The close is carried out if the handle is still of this generation and  *)
(* the tab is there; the answer may be lost on the way back.               *)
CloseOwnTab ==
  /\ reader.pc = "closing"
  /\ IF reader.handle.gen = gen /\ reader.handle.tab \in Open
     THEN /\ Removes(reader.handle.tab)
          /\ \/ Ends(FALSE) /\ UNCHANGED drops
             \/ Ends(TRUE) /\ Drop
          /\ quiet' = FALSE
     ELSE Ends(TRUE) /\ UNCHANGED <<tabs, quiet, drops>>
  /\ UNCHANGED <<gen, closer, opened, acts>>

-----------------------------------------------------------------------------
(* close-duplicates                                                        *)

CloserOnly == UNCHANGED <<tabs, gen, reader, opened, acts>>

(* The copy to keep: shown, then kept, then the one shown last; which was  *)
(* shown last is any of the others.                                        *)
Rank(row) == IF row.shown THEN 2 ELSE IF row.kept THEN 1 ELSE 0
MustStay(row) == row.shown \/ row.kept
Copies(list, url) == {t \in DOMAIN list : list[t].url = url}
Keepers(list, url) ==
  LET copies == Copies(list, url) IN {t \in copies : \A o \in copies : Rank(list[o]) <= Rank(list[t])}

Entry(list, t, keep) == [close |-> list[t].handle, keep |-> list[keep].handle, url |-> list[t].url]

PlanFor(list, keeper) ==
  {Entry(list, t, keeper[list[t].url]) :
     t \in {x \in DOMAIN list : x # keeper[list[x].url] /\ ~MustStay(list[x])}}

PlanDuplicates ==
  /\ closer.pc = "start"
  /\ \E keeper \in [{tabs[t].url : t \in Open} -> Tabs] :
       /\ \A url \in DOMAIN keeper : keeper[url] \in Keepers(Listing, url)
       /\ \E plan \in SetToSeqs(PlanFor(Listing, keeper)) : closer' = [closer EXCEPT !.pc = "check", !.plan = plan]
  /\ CloserOnly /\ UNCHANGED <<quiet, drops>>

RowOf(list, handle) == {t \in DOMAIN list : list[t].handle = handle}

(* Mutant: the copy that is kept is not looked for again.                  *)
CheckCloseOnly(entry, list, closed) ==
  \E t \in RowOf(list, entry.close) : list[t].url = entry.url /\ ~MustStay(list[t])

CheckClose(entry, list, closed) ==
  /\ entry.keep # entry.close /\ entry.keep \notin closed
  /\ \E t \in RowOf(list, entry.close) : list[t].url = entry.url /\ ~MustStay(list[t])
  /\ \E k \in RowOf(list, entry.keep) : list[k].url = entry.url

(* A fresh listing before each close; without one, nothing is closed.      *)
FreshListing ==
  /\ closer.pc = "check" /\ closer.plan # <<>>
  /\ LET entry == Head(closer.plan) IN
     \/ /\ quiet' = TRUE
        /\ closer' = IF CheckClose(entry, Listing, closer.closed)
                     THEN [closer EXCEPT !.pc = "closing", !.handle = entry.close, !.plan = Tail(@)]
                     ELSE [closer EXCEPT !.plan = Tail(@)]
        /\ UNCHANGED drops
     \/ Drop /\ closer' = [closer EXCEPT !.plan = <<>>] /\ UNCHANGED quiet
  /\ CloserOnly

CloseCopy ==
  /\ closer.pc = "closing"
  /\ LET t == closer.handle.tab
         there == closer.handle.gen = gen /\ t \in Open
     IN  /\ IF there THEN Removes(t) ELSE UNCHANGED tabs
         /\ \/ /\ closer' = [closer EXCEPT !.pc = "check", !.closed = IF there THEN @ \cup {closer.handle} ELSE @]
               /\ UNCHANGED drops
            \/ Drop /\ closer' = [closer EXCEPT !.pc = "check"]
  /\ UNCHANGED <<gen, reader, quiet, opened, acts>>

-----------------------------------------------------------------------------
(* The person and the bridge.                                              *)

Acts == acts < MaxActs /\ acts' = acts + 1 /\ quiet' = FALSE
World == UNCHANGED <<gen, reader, closer, opened, drops>>

PersonCloses ==
  /\ Acts /\ \E t \in Open : Removes(t)
  /\ World

Navigates ==
  /\ Acts /\ \E t \in Open, url \in Urls : tabs[t].url # url /\ tabs' = [tabs EXCEPT ![t].url = url]
  /\ World

Shows ==
  /\ Acts /\ \E t \in Open : ~tabs[t].shown /\ tabs' = [x \in Tabs |-> [tabs[x] EXCEPT !.shown = x = t]]
  /\ World

PinsOrPlays ==
  /\ Acts /\ \E t \in Open : tabs' = [tabs EXCEPT ![t].kept = ~@]
  /\ World

Reconnects ==
  /\ Drop /\ gen' = gen + 1
  /\ UNCHANGED <<tabs, reader, closer, quiet, opened, acts>>

CommandsNext ==
  \/ OpenRefused \/ OpenFails \/ TabOpens \/ OpenAnswered \/ WaitForLoad \/ Reads \/ CloseOwnTab
  \/ PlanDuplicates \/ FreshListing \/ CloseCopy
  \/ PersonCloses \/ Navigates \/ Shows \/ PinsOrPlays \/ Reconnects

CommandsSpec == CommandsInit /\ [][CommandsNext]_commandsVars

-----------------------------------------------------------------------------
(* When read-page ends, the tab it opened is closed, or its report says a  *)
(* tab may be left (maybeLeftOpen).                                        *)
TabsAccountedFor == reader.pc = "done" /\ opened \in Open => reader.left

(* Unless somebody touched a tab since its fresh listing, close-duplicates *)
(* takes no tab that is shown, pinned or playing, and never the last copy  *)
(* of a page (checkClose).                                                 *)
CarefulClose(t) ==
  /\ ~MustStay(tabs[t])
  /\ \E k \in Tabs : tabs'[k].is = "open" /\ tabs'[k].url = tabs[t].url

CarefulCloses ==
  [][closer.pc = "closing" /\ closer'.pc = "check" /\ quiet =>
       \A t \in Open : tabs'[t].is = "open" \/ CarefulClose(t)]_commandsVars
=============================================================================
