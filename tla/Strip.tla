------------------------------- MODULE Strip -------------------------------
(***************************************************************************)
(* The operations of the extension that rearrange a person's tab strip     *)
(* (lib/tab-groups.js, tab-ages.js, ops.js, the plans of protocol.js), one *)
(* at a time, against a person who drags, pins, closes and selects tabs.   *)
(* An operation runs in steps, one for each edit; what an edit re-reads    *)
(* just before it writes is one step with it, the gap no API closes.  The  *)
(* browser's own calls are functions of the strip; where a browser may do  *)
(* either of two things they give a set.  A group lives while it has tabs. *)
(* Split views, whose two tabs the sort moves as one unit, are left out:   *)
(* nothing else reads them.                                                *)
(***************************************************************************)
EXTENDS Naturals, Sequences, FiniteSets, FiniteSetsExt, SequencesExt

CONSTANTS
  Tabs,         \* tab ids, oldest first: an age is an id
  Groups,       \* group ids
  Titles,       \* what a group is called; "none": there is no group of that id yet
  Pages,
  Layouts,      \* what the browser may look like at first
  Requests,     \* what may be asked for
  MaxTrouble    \* what the person does meanwhile

Windows == {1, 2}

VARIABLES
  b,          \* the browser: strips, groups, pins, what each window shows
  ours,       \* storage.session: the tabs openOrFocus opened
  dragging,   \* a tab is being dragged: edits are refused
  op,         \* the operation
  trouble

stripVars == <<b, ours, dragging, op, trouble>>

None == 0

\* The elements of s that are in S, in their order: a recursive function, which a proof can expand.
Only(s, S) ==
  LET f[i \in 0..Len(s)] == IF i = 0 THEN <<>> ELSE IF s[i] \in S THEN Append(f[i - 1], s[i]) ELSE f[i - 1]
  IN f[Len(s)]
Without(s, S) == Only(s, ToSet(s) \ S)
Spliced(s, i, q) == SubSeq(s, 1, i) \o q \o SubSeq(s, i + 1, Len(s))
Find(s, x) == SelectInSeq(s, LAMBDA y : y = x)

OpenTabs(B) == UNION {ToSet(B.strip[w]) : w \in Windows}
Window(B, t) == CHOOSE w \in Windows : t \in ToSet(B.strip[w])
InGroup(B, g) == {t \in Tabs : B.group[t] = g}
Members(B, g) == Only(B.strip[1], InGroup(B, g)) \o Only(B.strip[2], InGroup(B, g))
GroupWindow(B, g) == Window(B, Head(Members(B, g)))
Lives(B, g) == g # None /\ Members(B, g) # <<>>
Titled(B, title) == {g \in Groups : Lives(B, g) /\ B.title[g] = title}
(***************************************************************************)
(* What a strip can be: a tab stands in one place, a group stands together *)
(* in one window; a tab that is not open has no group and shows nowhere.   *)
(***************************************************************************)
Addressed == [path : STRING, part : STRING]
Browsers == [strip : [Windows -> Seq(Tabs)], group : [Tabs -> Groups \cup {None}], pinned : SUBSET Tabs,
             shows : [Windows -> Tabs \cup {None}], shut : SUBSET Groups, title : [Groups -> Titles],
             page : [Tabs -> Addressed]]

StandsTogether(B, s) ==
  \A i, j, k \in DOMAIN s :
    i < j /\ j < k /\ B.group[s[i]] = B.group[s[k]] => B.group[s[i]] \in {None, B.group[s[j]]}

WellFormed(B) ==
  /\ B \in Browsers /\ B.pinned \subseteq OpenTabs(B)
  /\ \A w \in Windows : IsInjective(B.strip[w]) /\ StandsTogether(B, B.strip[w])
  /\ ToSet(B.strip[1]) \cap ToSet(B.strip[2]) = {}
  /\ \A t \in Tabs : B.group[t] # None => t \in OpenTabs(B) \ B.pinned /\ B.title[B.group[t]] # "none"
  /\ \A t \in ToSet(B.strip[1]), x \in ToSet(B.strip[2]) : B.group[t] # None => B.group[t] # B.group[x]
  /\ \A w \in Windows : IF B.strip[w] = <<>> THEN B.shows[w] = None ELSE B.shows[w] \in ToSet(B.strip[w])

Operations == {"group", "label", "move", "ungroup", "gather", "sort", "show", "open", "close", "activate"}

Asked == [kind : Operations, ids : Seq(Tabs), title : Titles \ {"none"}, w : Windows, g : Groups \cup {None}, index : Nat,
          page : Addressed, shut : STRING, active : BOOLEAN, findOnly : BOOLEAN]

ASSUME StripAssumption ==
  /\ IsFiniteSet(Tabs) /\ Tabs \cup Groups \subseteq Nat \ {None} /\ MaxTrouble \in Nat /\ "" \in Titles
  /\ \A B \in Layouts : WellFormed(B)
  /\ Pages \subseteq Addressed /\ Requests \subseteq Asked
  /\ \A r \in Requests : /\ IsInjective(r.ids) /\ (r.kind = "activate" => r.active)
                         /\ (r.kind \in {"group", "gather"} => r.title # "same")

(***************************************************************************)
(* The browser's calls.                                                    *)
(***************************************************************************)
\* The strip cut into what moves as one: a group, or a tab by itself.
UnitAt(B, s, i) ==
  LET g == B.group[s[i]]
  IN IF g = None THEN <<s[i]>>
     ELSE IF \E j \in 1..(i-1) : B.group[s[j]] = g THEN <<>> ELSE Only(s, InGroup(B, g))
Units(B, s) == Without([i \in 1..Len(s) |-> UnitAt(B, s, i)], {<<>>})

\* A window's groups of a title, left to right.
TitledIn(B, title, w) ==
  LET units == Units(B, B.strip[w])
      gs == [i \in 1..Len(units) |-> B.group[Head(units[i])]]
  IN Only(gs, {g \in Groups : B.title[g] = title})

\* Groups stand together; a window that shows a tab that left shows another, and opens its group.
Settled(B) ==
  LET strip == [w \in Windows |-> FlattenSeq(Units(B, B.strip[w]))]
      choices(w) == IF strip[w] = <<>> THEN {None}
                    ELSE IF B.shows[w] \in ToSet(strip[w]) THEN {B.shows[w]} ELSE ToSet(strip[w])
      opened(s) == {B.group[s[w]] : w \in {v \in Windows : s[v] # None /\ s[v] # B.shows[v]}}
  IN {[B EXCEPT !.strip = strip, !.shows = <<s[1], s[2]>>, !.shut = @ \ opened(s)] : s \in choices(1) \X choices(2)}

Lifted(B, ts) == [w \in Windows |-> Without(B.strip[w], ts)]

\* chrome.tabs.move: between two tabs of a group it joins it, at the end of the strip it may.
\* A tab on show opens the group it lands in.
TabsMove(B, t, w, i) ==
  LET lifted == Lifted(B, {t})
      at == IF i > Len(lifted[w]) THEN Len(lifted[w]) ELSE i - 1
      gs(k) == IF k \in 1..Len(lifted[w]) THEN B.group[lifted[w][k]] ELSE None
      stays == {g \in {gs(at), gs(at + 1)} \ {None} : g = B.group[t]}
      joins == IF t \in B.pinned THEN {None}
               ELSE IF gs(at) = gs(at + 1) THEN {gs(at)}
               ELSE IF stays # {} THEN stays
               ELSE IF at = Len(lifted[w]) THEN {None, gs(at)} ELSE {None}
      put(g) == [B EXCEPT !.strip = [lifted EXCEPT ![w] = Spliced(@, at, <<t>>)], !.group[t] = g,
                          !.shut = IF B.shows[w] = t THEN @ \ {g} ELSE @]
  IN UNION {Settled(put(g)) : g \in joins}

\* chrome.tabs.group: the tabs go to the group's end, wherever it is, and lose their pins;
\* a new group forms in window w where its first tab is.
TabsGroup(B, ts, g, w) ==
  LET joins == Without(ts, InGroup(B, g))
      first == IF Lives(B, g) THEN joins ELSE Tail(ts)
      win == IF Lives(B, g) THEN GroupWindow(B, g) ELSE w
      lifted == Lifted(B, ToSet(first))
      after == IF Lives(B, g) THEN Find(lifted[win], Last(Members(B, g))) ELSE Find(lifted[win], Head(ts))
  IN Settled([B EXCEPT !.strip = [lifted EXCEPT ![win] = Spliced(@, after, first)],
                       !.group = [t \in Tabs |-> IF t \in ToSet(ts) THEN g ELSE @[t]],
                       !.title[g] = IF @ = "none" THEN "" ELSE @,
                       !.pinned = @ \ ToSet(ts)])

TabsUngroup(B, ts) == Settled([B EXCEPT !.group = [t \in Tabs |-> IF t \in ts THEN None ELSE @[t]]])

\* chrome.tabGroups.move: to before tab number i of the rest, or to the end; never to another window here.
GroupsMove(B, g, i) ==
  LET w == GroupWindow(B, g)
      rest == Without(B.strip[w], ToSet(Members(B, g)))
      at == Max({Cardinality(B.pinned \cap ToSet(rest)), IF i > Len(rest) THEN Len(rest) ELSE i})
  IN Settled([B EXCEPT !.strip[w] = Spliced(rest, at, Members(B, g))])

TabsRemove(B, t) == Settled([B EXCEPT !.strip = Lifted(B, {t}), !.group[t] = None, !.pinned = @ \ {t}])

TabsCreate(B, t, w, page, active) ==
  {[C EXCEPT !.shows[w] = IF active THEN t ELSE @] :
     C \in Settled([B EXCEPT !.strip[w] = Append(@, t), !.page[t] = page])}

Fresh(B) == CHOOSE g \in Groups : B.title[g] = "none"

(***************************************************************************)
(* Two bounds: a browser never runs out of ids for groups and tabs.        *)
(***************************************************************************)
GroupsLeft == \E g \in Groups : b.title[g] = "none"
Unborn == {t \in Tabs : t \notin OpenTabs(b) /\ b.page[t].path = "unborn"}
TabsLeft == Unborn # {}

(***************************************************************************)
(* The plans.                                                              *)
(***************************************************************************)
\* What comes after the longest leading run already in place.
RestInPlace(order, current) ==
  LET n == Max({k \in 0..Len(order) : SubSeq(order, 1, k) = SubSeq(current, 1, k)})
  IN SubSeq(order, n + 1, Len(order))

PlanNamedFirst(current, wanted) ==
  LET named == Only(wanted, ToSet(current))
  IN RestInPlace(named \o Without(current, ToSet(named)), current)

\* The members nobody named, then the named ones in the order named.
PlanGroupOrder(current, wanted) ==
  LET named == Only(wanted, ToSet(current))
  IN RestInPlace(Without(current, ToSet(named)) \o named, current)

Age(unit) == Min(ToSet(unit))

OldestFirst(us) ==
  CHOOSE s \in [1..Cardinality(us) -> us] : \A i, j \in 1..Cardinality(us) : i < j => Age(s[i]) < Age(s[j])

PlanWindowSort(B, w) ==
  LET current == Units(B, Without(B.strip[w], B.pinned))
  IN RestInPlace(OldestFirst(ToSet(current)), current)

\* Which matching tab survives: in the window used last, then a shown one, then the lowest id.
PickKeeper(B, matches, w) ==
  LET here == {t \in matches : Window(B, t) = w}
      pool == IF here # {} THEN here ELSE matches
      active == {t \in pool : B.shows[Window(B, t)] = t}
  IN Min(IF active # {} THEN active ELSE pool)

PlanOpenOrFocus(B, page, w, opened) ==
  LET matches == {t \in OpenTabs(B) : B.page[t].path = page.path}
      exact == {t \in matches : B.page[t] = page}
      keeper == PickKeeper(B, IF exact # {} THEN exact ELSE matches, w)
  IN IF matches = {} THEN [keeper |-> None, close |-> {}]
     ELSE [keeper |-> keeper, close |-> (matches \cap opened) \ {keeper}]

(***************************************************************************)
(* An operation's steps.                                                   *)
(***************************************************************************)
Idle == [pc |-> "idle", kind |-> "none"]

StripInit ==
  /\ b \in Layouts
  /\ ours \in SUBSET {t \in OpenTabs(b) : b.page[t].path = "report"}
  /\ dragging = FALSE /\ op = Idle /\ trouble = 0

At(pc) == op.pc = pc
Overlaid(o, f) == [x \in DOMAIN o \cup DOMAIN f |-> IF x \in DOMAIN f THEN f[x] ELSE o[x]]
Move(fields) == op' = Overlaid(op, fields)
Failed == IF op.kind = "gather" THEN [pc |-> "gather next"] ELSE [pc |-> "done", failed |-> TRUE]
Finished == IF op.kind = "gather" THEN [pc |-> "gather next", keep |-> op.g] ELSE [pc |-> "done"]
Keep == UNCHANGED <<dragging, trouble>>

\* Tab-strip edits wait once for a drag to end; what they check is checked again.
Edit(ok, Bs, then, instead) ==
  IF ok /\ dragging /\ ~op.tried THEN Move([tried |-> TRUE]) /\ UNCHANGED b
  ELSE IF ok /\ ~dragging THEN \E B \in Bs : b' = B /\ Move(Overlaid(then, [tried |-> FALSE]))
  ELSE Move(Overlaid(instead, [tried |-> FALSE])) /\ UNCHANGED b

Begin(r) ==
  /\ At("idle")
  /\ op' = Overlaid(r, [pc |-> r.kind, todo |-> <<>>, rest |-> <<>>, part |-> <<>>, moved |-> <<>>, keep |-> None, from |-> None,
                        tried |-> FALSE, failed |-> FALSE, was |-> b])
  /\ UNCHANGED <<b, ours, dragging, trouble>>

InPlace(w, ts, g) ==
  /\ g # None => Lives(b, g) /\ GroupWindow(b, g) = w
  /\ \A t \in ToSet(ts) : t \in ToSet(b.strip[w]) /\ t \notin b.pinned

CheckedOnce(w, ts, g) == op.tried \/ InPlace(w, ts, g)

\* Still in their window, unpinned, and the group with them.
StillIn(w, ts, g) == InPlace(w, ts, g)

Group == IF op.g = None THEN Fresh(b) ELSE op.g

GroupTabs ==
  /\ At("group")
  /\ LET ws == {Window(b, t) : t \in ToSet(op.ids) \cap OpenTabs(b)}
     IN IF ToSet(op.ids) \subseteq OpenTabs(b) /\ Cardinality(ws) = 1 /\ ToSet(op.ids) \cap b.pinned = {}
        THEN LET w == CHOOSE v \in ws : TRUE
                 named == TitledIn(b, op.title, w)
             IN Move([pc |-> "join", w |-> w, g |-> IF named = <<>> THEN None ELSE Head(named)])
        ELSE Move(Failed)
  /\ UNCHANGED <<b, ours>> /\ Keep

JoinGroup ==
  /\ At("join") /\ (op.g = None => GroupsLeft)
  /\ Edit(StillIn(op.w, op.ids, op.g), TabsGroup(b, op.ids, Group, op.w), [pc |-> "plan", g |-> Group], Failed)
  /\ UNCHANGED ours /\ Keep

MembersOf(g, w) == Only(b.strip[w], InGroup(b, g))

PlanOrder ==
  /\ At("plan")
  /\ Move([pc |-> "order", todo |-> PlanGroupOrder(MembersOf(op.g, op.w), op.ids)])
  /\ UNCHANGED <<b, ours>> /\ Keep

\* To the group's last place, in its own window; a tab that left is left alone.
OrderTab ==
  /\ At("order") /\ op.todo # <<>>
  /\ LET t == Head(op.todo)
         span == MembersOf(op.g, op.w)
     IN Edit(TRUE, IF t \in ToSet(span) THEN TabsMove(b, t, op.w, Find(b.strip[op.w], Last(span))) ELSE {b},
             [todo |-> Tail(op.todo)], Failed)
  /\ UNCHANGED ours /\ Keep

\* A tab that slipped out of the group is put back once, from its own window.
PutBack ==
  /\ At("order") /\ op.todo = <<>>
  /\ LET slipped == Only(op.ids, (ToSet(b.strip[op.w]) \ b.pinned) \ InGroup(b, op.g))
     IN Move([pc |-> IF slipped = <<>> THEN "label" ELSE "rejoin", todo |-> slipped])
  /\ UNCHANGED <<b, ours>> /\ Keep

Rejoin ==
  /\ At("rejoin")
  /\ Edit(StillIn(op.w, op.todo, op.g), TabsGroup(b, op.todo, op.g, op.w), [pc |-> "label"], Failed)
  /\ UNCHANGED ours /\ Keep

UpdateGroup ==
  /\ At("label")
  /\ Edit(Lives(b, op.g),
          {[b EXCEPT !.title[op.g] = IF op.title = "same" THEN @ ELSE op.title,
                     !.shut = IF op.shut = "no" THEN @ \ {op.g} ELSE @]},
          IF op.shut = "yes" THEN [pc |-> "collapse"] ELSE Finished, Failed)
  /\ UNCHANGED ours /\ Keep

HoldsActive(B, g) == \E w \in Windows : B.shows[w] # None /\ B.group[B.shows[w]] = g

MayCollapse(g) == ~HoldsActive(b, g)

CollapseSafely ==
  /\ At("collapse")
  /\ Edit(Lives(b, op.g), {IF MayCollapse(op.g) THEN [b EXCEPT !.shut = @ \cup {op.g}] ELSE b}, Finished, Failed)
  /\ UNCHANGED ours /\ Keep

MoveGroup ==
  /\ At("move")
  /\ Edit(Lives(b, op.g), GroupsMove(b, op.g, op.index), [pc |-> "done"], Failed)
  /\ UNCHANGED ours /\ Keep

UngroupTabs ==
  /\ At("ungroup")
  /\ LET ts == IF op.g = None THEN op.ids ELSE Members(b, op.g)
     IN Move(IF ts # <<>> /\ ToSet(ts) \subseteq OpenTabs(b) THEN [pc |-> "loosen", ids |-> ts] ELSE Failed)
  /\ UNCHANGED <<b, ours>> /\ Keep

Loosen ==
  /\ At("loosen")
  /\ Edit(ToSet(op.ids) \subseteq OpenTabs(b), TabsUngroup(b, ToSet(op.ids)), [pc |-> "done"], Failed)
  /\ UNCHANGED ours /\ Keep

(***************************************************************************)
(* Gathering the groups of a title into one window.                        *)
(***************************************************************************)
CheckHostWindow(w) == b.strip[w] # <<>>

GatherGroup ==
  /\ At("gather")
  /\ LET here == TitledIn(b, op.title, op.w)
     IN IF ~CheckHostWindow(op.w) THEN Move([pc |-> "done", failed |-> TRUE])
        ELSE Move([pc |-> "gather next", keep |-> IF here = <<>> THEN None ELSE Head(here),
                   rest |-> SetToSeq(Titled(b, op.title) \ ToSet(here))])
  /\ UNCHANGED <<b, ours>> /\ Keep

\* The groups of the list that are still outside, with that title.
NextGroup ==
  /\ At("gather next") /\ op.rest # <<>>
  /\ LET g == Head(op.rest)
     IN IF g \in Titled(b, op.title) /\ GroupWindow(b, g) # op.w
        THEN Move([pc |-> "move in", rest |-> Tail(op.rest), g |-> g, from |-> GroupWindow(b, g),
                   part |-> Members(b, g), moved |-> <<>>])
        ELSE Move([rest |-> Tail(op.rest)])
  /\ UNCHANGED <<b, ours>> /\ Keep

\* One tab at a time, each re-read; a refusal stops this group where it is.
MoveGroupTabsIn ==
  /\ At("move in") /\ op.part # <<>>
  /\ LET t == Head(op.part)
         stays == t \notin ToSet(b.strip[op.from]) \/ b.group[t] # op.g \/ t \in b.pinned
     IN Edit(TRUE, IF stays THEN {b} ELSE TabsMove(b, t, op.w, Len(b.strip[op.w]) + 1),
             [part |-> Tail(op.part), moved |-> IF stays THEN op.moved ELSE Append(op.moved, t)],
             [part |-> <<>>])
  /\ UNCHANGED ours /\ Keep

\* What arrived goes into the host's group of that title (GroupTabs).
JoinHost ==
  /\ At("move in") /\ op.part = <<>>
  /\ LET here == Only(op.moved, ToSet(b.strip[op.w]) \ b.pinned)
     IN Move(IF here = <<>> THEN [pc |-> "gather next"] ELSE [pc |-> "group", ids |-> here])
  /\ UNCHANGED <<b, ours>> /\ Keep

FoldKeep(here) == IF op.keep \in ToSet(here) THEN op.keep ELSE Head(here)

FoldPlan ==
  /\ At("gather next") /\ op.rest = <<>>
  /\ LET here == TitledIn(b, op.title, op.w)
     IN IF here = <<>> THEN Move([pc |-> "done"])
        ELSE Move([pc |-> "fold", keep |-> FoldKeep(here), todo |-> Without(here, {FoldKeep(here)})])
  /\ UNCHANGED <<b, ours>> /\ Keep

Opened(B, g, ts) == IF \E t \in ToSet(ts) : t \in ToSet([w \in 1..2 |-> B.shows[w]]) THEN [B EXCEPT !.shut = @ \ {g}] ELSE B

\* The host's other groups of the title fold into the one kept, which opens for a tab on show.
Fold ==
  /\ At("fold")
  /\ IF op.todo = <<>> THEN Move([pc |-> "done"]) /\ UNCHANGED b
     ELSE LET g == Head(op.todo)
              there == Lives(b, g) /\ GroupWindow(b, g) = op.w /\ b.title[g] = op.title
              ts == MembersOf(g, op.w)
          IN Edit(there => StillIn(op.w, ts, op.keep),
                  IF there THEN TabsGroup(Opened(b, op.keep, ts), ts, op.keep, op.w) ELSE {b},
                  [todo |-> Tail(op.todo)], [todo |-> Tail(op.todo)])
  /\ UNCHANGED ours /\ Keep

(***************************************************************************)
(* Sorting one window by age.                                              *)
(***************************************************************************)
SortOneWindow ==
  /\ At("sort")
  /\ LET plan == PlanWindowSort(b, op.w)
     IN Move([pc |-> "sort next", todo |-> [i \in 1..Len(plan) |-> [ts |-> plan[i], g |-> b.group[Head(plan[i])]]]])
  /\ UNCHANGED <<b, ours>> /\ Keep

\* A unit that cannot move is left; the rest still sorts.
MoveUnitToEnd ==
  /\ At("sort next") /\ op.todo # <<>>
  /\ LET u == Head(op.todo)
         t == Head(u.ts)
         can == ~dragging /\ IF u.g = None THEN t \in OpenTabs(b) ELSE Lives(b, u.g)
     IN IF can
        THEN /\ b' \in IF u.g = None THEN TabsMove(b, t, op.w, Cardinality(Tabs) + 1)
                       ELSE GroupsMove(b, u.g, Cardinality(Tabs) + 1)
             /\ Move(IF u.g = None THEN [pc |-> "sort loose"] ELSE [todo |-> Tail(op.todo)])
        ELSE UNCHANGED b /\ Move([todo |-> Tail(op.todo)])
  /\ UNCHANGED ours /\ Keep

\* A loose tab at the end of a strip that ends in a group may have joined it.
LooseAgain ==
  /\ At("sort loose")
  /\ LET t == Head(Head(op.todo).ts)
     IN b' \in IF t \in OpenTabs(b) /\ b.group[t] # None /\ ~dragging THEN TabsUngroup(b, {t}) ELSE {b}
  /\ Move([pc |-> "sort next", todo |-> Tail(op.todo)])
  /\ UNCHANGED ours /\ Keep

SortEnds ==
  /\ At("sort next") /\ op.todo = <<>> /\ Move([pc |-> "done"])
  /\ UNCHANGED <<b, ours>> /\ Keep

(***************************************************************************)
(* One page, one tab.                                                      *)
(***************************************************************************)
ReadOpenedLedger == ours \cap OpenTabs(b)

\* A local file that is not a page is only found: nothing opens, reloads or closes.
OpenOrFocus ==
  /\ At("show")
  /\ LET plan == PlanOpenOrFocus(b, op.page, op.w, IF op.findOnly THEN {} ELSE ReadOpenedLedger)
     IN Move(IF plan.keeper # None THEN [pc |-> "check", keep |-> plan.keeper, todo |-> SetToSeq(plan.close)]
             ELSE IF op.findOnly THEN Failed ELSE [pc |-> "create"])
  /\ ours' = ReadOpenedLedger
  /\ UNCHANGED b /\ Keep

CreateTab ==
  /\ At("create") /\ TabsLeft
  /\ LET t == Min(Unborn)
     IN b' \in TabsCreate(b, t, op.w, op.page, op.active) /\ Move([pc |-> "remember", keep |-> t])
  /\ UNCHANGED ours /\ Keep

RememberOpened ==
  /\ At("remember") /\ ours' = ours \cup {op.keep} /\ Move([pc |-> "done"])
  /\ UNCHANGED b /\ Keep

KeeperIsThere ==
  /\ At("check")
  /\ Move(IF op.keep \in OpenTabs(b) THEN [pc |-> "close dups"] ELSE Failed)
  /\ UNCHANGED <<b, ours>> /\ Keep

\* Read again just before it goes: somebody may have typed an address into it.
StillShows(t) == t \in OpenTabs(b) /\ b.page[t].path = op.page.path

CloseDuplicate ==
  /\ At("close dups") /\ op.todo # <<>>
  /\ LET t == Head(op.todo)
     IN IF StillShows(t)
        THEN b' \in TabsRemove(b, t) /\ Move([todo |-> Tail(op.todo), moved |-> Append(op.moved, t)])
        ELSE UNCHANGED b /\ Move([todo |-> Tail(op.todo)])
  /\ UNCHANGED ours /\ Keep

ForgetOpened ==
  /\ At("close dups") /\ op.todo = <<>>
  /\ ours' = ours \ ToSet(op.moved) /\ Move([pc |-> "to the end"])
  /\ UNCHANGED b /\ Keep

MoveKeeper ==
  /\ At("to the end")
  /\ LET t == op.keep IN
     IF t \notin OpenTabs(b) \/ (dragging /\ t \notin b.pinned) THEN Move(Failed) /\ UNCHANGED b
     ELSE /\ b' \in IF t \in b.pinned THEN {b} ELSE TabsMove(b, t, Window(b, t), Cardinality(Tabs) + 1)
          /\ Move([pc |-> IF op.active THEN "activate" ELSE "done", ids |-> <<t>>])
  /\ UNCHANGED ours /\ Keep

ActivateTab ==
  /\ At("activate")
  /\ LET t == Head(op.ids) IN
     IF t \in OpenTabs(b)
     THEN b' = [b EXCEPT !.shows[Window(b, t)] = t, !.shut = @ \ {b.group[t]}] /\ Move([pc |-> "done"])
     ELSE UNCHANGED b /\ Move(Failed)
  /\ UNCHANGED ours /\ Keep

OpenTab ==
  /\ At("open") /\ TabsLeft
  /\ b' \in TabsCreate(b, Min(Unborn), op.w, op.page, op.active) /\ Move([pc |-> "done"])
  /\ UNCHANGED ours /\ Keep

RemoveTab ==
  /\ At("close")
  /\ LET t == Head(op.ids) IN
     IF t \in OpenTabs(b) THEN b' \in TabsRemove(b, t) /\ Move([pc |-> "done"])
     ELSE UNCHANGED b /\ Move(Failed)
  /\ UNCHANGED ours /\ Keep

(***************************************************************************)
(* The person at the browser.                                              *)
(***************************************************************************)
Person == trouble < MaxTrouble /\ trouble' = trouble + 1 /\ UNCHANGED <<op, ours>>

PicksUp == Person /\ ~dragging /\ dragging' = TRUE /\ UNCHANGED b

\* The drag ends where it began, or the tab lands somewhere else.
Drops ==
  /\ dragging /\ dragging' = FALSE
  /\ \/ UNCHANGED b
     \/ \E t \in OpenTabs(b) \ b.pinned, w \in Windows, i \in {1, Cardinality(Tabs) + 1} :
          i > Cardinality(b.pinned \cap ToSet(b.strip[w])) /\ b' \in TabsMove(b, t, w, i)
  /\ UNCHANGED <<op, ours, trouble>>

Drags ==
  /\ Person
  /\ \E t \in OpenTabs(b) \ b.pinned, w \in Windows, i \in {1, Cardinality(Tabs) + 1} :
       i > Cardinality(b.pinned \cap ToSet(b.strip[w])) /\ b' \in TabsMove(b, t, w, i)
  /\ UNCHANGED dragging

Pins(t) ==
  LET w == Window(b, t) IN
  /\ Person /\ t \notin b.pinned
  /\ b' \in Settled([b EXCEPT !.strip[w] = Spliced(Without(@, {t}), Cardinality(b.pinned \cap ToSet(@)), <<t>>),
                             !.group[t] = None, !.pinned = @ \cup {t}])
  /\ UNCHANGED dragging

Closes(t) == Person /\ b' \in TabsRemove(b, t) /\ UNCHANGED dragging

Selects(t) ==
  /\ Person
  /\ b' = [b EXCEPT !.shows[Window(b, t)] = t, !.shut = @ \ {b.group[t]}]
  /\ UNCHANGED dragging

TypesAddress(t) ==
  /\ Person /\ \E p \in Pages : b.page[t] # p /\ b' = [b EXCEPT !.page[t] = p]
  /\ UNCHANGED dragging

Working == op.pc \notin {"idle", "done"}

StripNext ==
  \/ \E r \in Requests : Begin(r)
  \/ GroupTabs \/ JoinGroup \/ PlanOrder \/ OrderTab \/ PutBack \/ Rejoin \/ UpdateGroup \/ CollapseSafely
  \/ MoveGroup \/ UngroupTabs \/ Loosen
  \/ GatherGroup \/ NextGroup \/ MoveGroupTabsIn \/ JoinHost \/ FoldPlan \/ Fold
  \/ SortOneWindow \/ MoveUnitToEnd \/ LooseAgain \/ SortEnds
  \/ OpenOrFocus \/ CreateTab \/ RememberOpened \/ KeeperIsThere \/ CloseDuplicate \/ ForgetOpened \/ MoveKeeper
  \/ ActivateTab \/ OpenTab \/ RemoveTab
  \/ Working /\ (PicksUp \/ Drags \/ \E t \in OpenTabs(b) : Pins(t) \/ Closes(t) \/ Selects(t) \/ TypesAddress(t))
  \/ Drops

StripSpec == StripInit /\ [][StripNext]_stripVars

(***************************************************************************)
(* Properties.                                                             *)
(***************************************************************************)
MayClose(t) ==
  \/ op.kind = "close" /\ t = Head(op.ids)
  \/ op.kind = "show" /\ t \in ours /\ b.page[t].path = op.page.path

TabsKept == \A t \in OpenTabs(b) : t \in OpenTabs(b)' \/ MayClose(t)

Gathers(t) == op.kind = "gather" /\ b.group[t] = op.g /\ Window(b, t)' = op.w

\* The tab the sort is about to move left its window since it was listed there.
SortsBack(t) ==
  At("sort next") /\ op.todo # <<>> /\ Head(op.todo).g = None /\ t = Head(Head(op.todo).ts) /\ Window(b, t)' = op.w

WindowsKept ==
  \A t \in OpenTabs(b) \cap OpenTabs(b)' : Window(b, t)' = Window(b, t) \/ Gathers(t) \/ SortsBack(t)

ShowsKept ==
  \A w \in Windows :
    \/ b.shows'[w] = b.shows[w] \/ op.active
    \/ b.shows[w] \notin ToSet(b.strip'[w])

\* Only a join may put a tab on show into a shut group: groupTabs leaves that to the browser.
NothingHidden ==
  op.pc \notin {"join", "rejoin"} =>
    \A w \in Windows : b.shows'[w] # None /\ b.group'[b.shows'[w]] \in b.shut' => b.group[b.shows[w]] \in b.shut

\* Whatever the person does meanwhile, a step of an operation closes no tab but the one it was told
\* to or one openOrFocus opened that still shows the page; takes no tab to another window, but a
\* gather a tab of the group it moves, into the window it named, and a sort the loose tab whose turn
\* it is, back into the window it had listed it in; unpins nothing; and neither changes nor hides
\* what a window shows, unless that tab left or the caller asked for it.  (tab-groups.js,
\* tab-ages.js moveUnitToEnd, ops.js openOrFocus)
TheStripIsThePersons ==
  [][(Working /\ op' # op) => /\ TabsKept /\ WindowsKept /\ b.pinned \cap OpenTabs(b)' \subseteq b.pinned'
                              /\ ShowsKept /\ NothingHidden]_stripVars

\* No tab changes window but by a gather (README.md:433). The code does not keep it: a sort moves a
\* tab by its window, and takes back one that a person dragged away meanwhile (moveUnitToEnd).
OnlyAGatherChangesWindows ==
  [][(Working /\ op' # op) =>
       \A t \in OpenTabs(b) \cap OpenTabs(b)' : Window(b, t)' = Window(b, t) \/ Gathers(t)]_stripVars

IsLast(t) == Last(b.strip[Window(b, t)]) = t

GroupedAsAsked ==
  LET ms == Members(b, op.g)
  IN /\ b.title[op.g] = op.title
     /\ op.ids = SubSeq(ms, Len(ms) - Len(op.ids) + 1, Len(ms))
     /\ TitledIn(op.was, op.title, op.w) # <<>> => op.g = Head(TitledIn(op.was, op.title, op.w))

GatheredAsAsked ==
  LET all == UNION {ToSet(Members(op.was, g)) : g \in Titled(op.was, op.title)}
      here == TitledIn(op.was, op.title, op.w)
  IN all # {} => /\ \E g \in Groups : Titled(b, op.title) = {g} /\ ToSet(Members(b, g)) = all /\ GroupWindow(b, g) = op.w
                 /\ here # <<>> => Titled(b, op.title) = {Head(here)}

SortedAsAsked ==
  LET units == Units(b, Without(b.strip[op.w], b.pinned))
  IN /\ \A i, j \in 1..Len(units) : i < j => Age(units[i]) < Age(units[j])
     /\ ToSet(units) = ToSet(Units(op.was, Without(op.was.strip[op.w], op.was.pinned)))

ShownAsAsked ==
  LET there == {t \in OpenTabs(op.was) : op.was.page[t].path = op.page.path}
  IN /\ b.page[op.keep].path = op.page.path /\ (IsLast(op.keep) \/ op.keep \in b.pinned)
     /\ there # {} => op.keep \in there /\ OpenTabs(b) \subseteq OpenTabs(op.was)
     /\ op.findOnly => OpenTabs(b) = OpenTabs(op.was)

\* Nobody interfered: the tabs named end up in one group, in the order named, after the members it
\* had; a title gathered is one group in the named window, the window's own if it had one, with
\* every tab of that title; a sorted window runs from old to new with its groups whole; and the
\* page shown is at the right of its window, in the tab that had it.
LeftAsAsked ==
  (op.pc = "done" /\ ~op.failed /\ trouble = 0) =>
    CASE op.kind = "group" -> GroupedAsAsked
      [] op.kind = "gather" -> GatheredAsAsked
      [] op.kind = "sort" -> SortedAsAsked
      [] op.kind = "show" -> ShownAsAsked
      [] op.kind = "ungroup" -> \A t \in ToSet(op.ids) : b.group[t] = None
      [] OTHER -> TRUE
=============================================================================
