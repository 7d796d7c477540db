---------------------------- MODULE MCExtension ----------------------------
(***************************************************************************)
(* Three parts of the extension that share nothing: a behaviour is of one   *)
(* of them, the tab strip (a few layouts of four tabs, and the requests    *)
(* that make sense on them), the ledger of ages, the operations on a page. *)
(***************************************************************************)
EXTENDS Strip, TabAges, PageOps

VARIABLE machine

MCTabs == 1..5
MCGroups == 1..4
Report == [path |-> "report", part |-> ""]
Part == [path |-> "report", part |-> "2"]
Other == [path |-> "other", part |-> ""]
MCPages == {Report, Other}

Some == <<Report, Other, Part, Report>>

Layout(one, two, groups, pinned, shows, shut) ==
  [strip |-> <<one, two>>, group |-> groups, pinned |-> pinned, shows |-> shows, shut |-> shut,
   title |-> <<"x", "x", "none", "none">>,
   page |-> [t \in MCTabs |-> IF t \in DOMAIN Some THEN Some[t] ELSE [path |-> "unborn", part |-> ""]]]

MCLayouts ==
  {Layout(<<3, 1, 2>>, <<4>>, <<1, 0, 1, 2, 0>>, {}, <<3, 4>>, {}),
   Layout(<<2, 4, 3, 1>>, <<>>, <<2, 1, 2, 1, 0>>, {}, <<3, 0>>, {1}),
   Layout(<<4>>, <<3, 1, 2>>, <<0, 1, 2, 0, 0>>, {4}, <<4, 1>>, {}),
   Layout(<<4, 3, 2>>, <<1>>, <<2, 0, 1, 1, 0>>, {}, <<4, 1>>, {})}

Ask(kind, fields) ==
  fields @@ [kind |-> kind, ids |-> <<>>, title |-> "same", w |-> 1, g |-> 0, index |-> 9, page |-> Report,
             shut |-> "as is", active |-> FALSE, findOnly |-> FALSE]

MCRequests ==
  {Ask("group", [ids |-> ids, title |-> title, shut |-> shut]) :
     ids \in {<<1>>, <<2, 1>>, <<1, 3>>, <<2, 3>>, <<4, 2>>}, title \in {"x", "y"}, shut \in {"yes", "as is"}}
  \cup {Ask("label", [g |-> g, title |-> "y", shut |-> s]) : g \in {1}, s \in {"yes", "no"}}
  \cup {Ask("move", [g |-> 1, index |-> i]) : i \in {0, 9}}
  \cup {Ask("ungroup", [ids |-> <<1, 3>>]), Ask("ungroup", [g |-> 1])}
  \cup {Ask("gather", [title |-> "x", w |-> w]) : w \in Windows}
  \cup {Ask("sort", [w |-> w]) : w \in Windows}
  \cup {Ask("show", [w |-> w, active |-> a, findOnly |-> f]) : w \in Windows, a \in BOOLEAN, f \in BOOLEAN}
  \cup {Ask("show", [page |-> [path |-> "new", part |-> ""], findOnly |-> f]) : f \in BOOLEAN}
  \cup {Ask("open", [page |-> Other]), Ask("close", [ids |-> <<2>>]), Ask("activate", [ids |-> <<1>>, active |-> TRUE])}

(* Addresses and operations are the same interchangeable values here, and  *)
(* meet nowhere.                                                           *)
Alike == Permutations(Addresses \cup Ops)

(* What a behaviour changes, without what no step and no property reads    *)
(* again: where focus was once no key is coming, how a page was left that  *)
(* has arrived or is gone, an ended sequence's answers, closed tabs.       *)
KeysComing(o) ==
  job[o].kind = "keys" /\ (InLine(o) \/ job[o].pc \notin {"ready", "finally", "detaching", "done"})

TabSeen ==
  IF ~tab.open THEN "closed"
  ELSE LET way == IF tab.heading = "nowhere" THEN tab.heading ELSE <<tab.heading, tab.shown, tab.by>>
           focus == IF \E o \in Ops : KeysComing(o) THEN tab.focus ELSE "unread"
       IN <<tab.doc, tab.since, tab.at, way, focus>>

JobSeen(o) ==
  IF job[o].pc \in {"finally", "detaching"} THEN <<job[o].pc, job[o].kind, job[o].inside>> ELSE job[o]

PageSeen ==
  <<TabSeen, [o \in Ops |-> JobSeen(o)], attached, calls, events, signingIn, listed, snap, sweep, ghosts, mishaps>>

TabsSeen ==
  LET coming == UNION {ToSet(back[i].tabs) : i \in DOMAIN back}
  IN <<Cardinality(DOMAIN info), [t \in Open \cup coming |-> info[t]]>>

AgesSeen == <<strip, windows, TabsSeen, ledger, keyed, memory, back, bounds, agesGhosts>>

Moving ==
  CASE machine = "strip" -> <<machine, stripVars>>
    [] machine = "ages" -> <<machine, AgesSeen>>
    [] machine = "page" -> <<machine, PageSeen>>

(* The parts that rest start in one of their initial states.               *)
AtRest(m) ==
  /\ m # "strip" => b.pinned # {} /\ ours = {}

MCInit ==
  /\ machine \in {"strip", "ages", "page"}
  /\ StripInit /\ AgesInit /\ PageInit
  /\ AtRest(machine)

MCNext ==
  /\ UNCHANGED machine
  /\ \/ machine = "strip" /\ StripNext /\ UNCHANGED <<agesVars, pageVars>>
     \/ machine = "ages" /\ AgesNext /\ UNCHANGED <<stripVars, pageVars>>
     \/ machine = "page" /\ PageNext /\ UNCHANGED <<stripVars, agesVars>>

MCSpec == MCInit /\ [][MCNext]_<<machine, stripVars, agesVars, pageVars>>
=============================================================================
