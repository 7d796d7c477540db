------------------------------ MODULE TabAges ------------------------------
(***************************************************************************)
(* The open-time ledger of the extension (lib/tab-ages.js): who writes it, *)
(* in which order, and how it is carried onto the tabs a browser brings    *)
(* back under new ids.  Time is counted in minutes and stands still while  *)
(* an update is queued.  A quit browser starts again with every window it  *)
(* had, one after another; nothing else happens to them meanwhile.         *)
(***************************************************************************)
EXTENDS Naturals, Sequences, FiniteSets, FiniteSetsExt, SequencesExt

CONSTANTS
  Addresses,    \* what the ledger keeps of an address
  MaxTabs,      \* tab ids handed out
  MaxTime,      \* minutes
  MaxStarts,    \* starts of the browser after the first, and reloads of the extension
  MaxChanges,   \* new tabs, moves, closes, navigations, worker deaths
  MaxQueued,    \* updates queued when the person does something
  SoftCap       \* LEDGER_SOFT_CAP

ASSUME AgesAssumption == {MaxTabs, MaxTime, MaxStarts, MaxChanges, MaxQueued, SoftCap} \subseteq Nat /\ MaxTabs > 0

Slots == {1, 2}

VARIABLES
  strip,      \* the tabs of each window
  windows,    \* the window ids of this browser session
  info,       \* every tab ever: its address, when it was opened and last shown; the id it came back from
  ledger,     \* storage.local: at (opened), w, i (where it was), u (its address)
  keyed,      \* storage.session: the ledger was re-keyed in this browser session
  chain,      \* updates waiting for their turn
  writing,    \* the update that has read and not written
  refresh,    \* the position timer is set
  due,        \* the worker has started and not asked for the re-key yet
  back,       \* the windows a started browser has not brought back yet
  now, starts, changes,
  saved,      \* where the tabs were when the browser quit, if the ledger said so, until the re-key
  heard,      \* every address with the times a tab that showed it could be taken to be from
  owed        \* the tabs whose age the last re-key could not have missed

agesVars == <<strip, windows, info, ledger, keyed, chain, writing, refresh, due, back, now, starts, changes,
              saved, heard, owed>>
memory == <<chain, writing, refresh, due>>
worker == <<writing, refresh, due>>
bounds == <<now, starts, changes>>
agesGhosts == <<saved, heard, owed>>

NoWrite == [on |-> FALSE]
Open == UNION {ToSet(strip[s]) : s \in Slots}
SlotOf(t) == CHOOSE s \in Slots : t \in ToSet(strip[s])
IndexOf(t) == SelectInSeq(strip[SlotOf(t)], LAMBDA x : x = t)
Position(t) == [w |-> windows[SlotOf(t)], i |-> IndexOf(t), u |-> info[t].u]
Joined(f, g) == [x \in DOMAIN f \cup DOMAIN g |-> IF x \in DOMAIN f THEN f[x] ELSE g[x]]
Entry(pos, at) == [w |-> pos.w, i |-> pos.i, u |-> pos.u, at |-> at]

AgesInit ==
  /\ \E a \in Addresses :
       /\ strip = [s \in Slots |-> IF s = 1 THEN <<1>> ELSE <<>>]
       /\ info = [t \in {1} |-> [u |-> a, birth |-> 0, seen |-> 0, was |-> 0]]
       /\ ledger = [t \in {1} |-> [w |-> 1, i |-> 1, u |-> a, at |-> 0]]
       /\ heard = {<<a, 0>>}
  /\ windows = [s \in Slots |-> s]
  /\ keyed = FALSE
  /\ chain = <<>> /\ writing = NoWrite /\ refresh = FALSE /\ due = TRUE
  /\ back = <<>> /\ now = 0 /\ starts = 0 /\ changes = 0
  /\ saved = <<>> /\ owed = {}

(***************************************************************************)
(* The ledger's operators.                                                 *)
(***************************************************************************)
Stamp(e) == [t \in {e.tab} |-> Entry(e.pos, now)]

\* A tab last shown well before its created event came back: it is not stamped.
RecordOpened(l, e) ==
  IF e.tab \in DOMAIN l \/ now > e.seen THEN l ELSE Joined(l, Stamp(e))

ForgetTab(l, e) == IF e.closing THEN l ELSE [t \in DOMAIN l \ {e.tab} |-> l[t]]

RefreshPositions(l) == [t \in DOMAIN l |-> IF t \in Open THEN Entry(Position(t), l[t].at) ELSE l[t]]
PruneClosed(l) == [t \in DOMAIN l \cap Open |-> l[t]]

\* Old windows with new ones, best pair first, each window once.
Pairings(l, olds, news) ==
  LET at(w) == {o \in olds : l[o].w = w}
      in(w) == {t \in news : Position(t).w = w}
      exact(p) == Cardinality({o \in at(p[1]) : \E t \in in(p[2]) : Position(t).i = l[o].i /\ info[t].u = l[o].u})
      common(p) == Cardinality({o \in at(p[1]) : \E t \in in(p[2]) : info[t].u = l[o].u})
      score(p) == exact(p) * (MaxTabs + 1) + common(p)
      pairs == {p \in {l[o].w : o \in olds} \X {Position(t).w : t \in news} : common(p) > 0}
      clash(p, q) == p # q /\ (p[1] = q[1] \/ p[2] = q[2])
  IN {m \in SUBSET pairs :
        /\ \A p, q \in m : ~clash(p, q)
        /\ \A q \in pairs \ m : \E p \in m : clash(p, q) /\ score(p) >= score(q)}

\* The entry a tab carries on: at its own index with its own address, ...
MatchExact(l, t, olds) == Min({o \in olds : l[o].i = Position(t).i /\ l[o].u = info[t].u} \cup {MaxTabs + 1})

\* ... or the one of its address, where the window has one of each.
MatchUnique(l, t, olds, taken, rest) ==
  LET same == {o \in olds \ taken : l[o].u = info[t].u}
  IN IF Cardinality(same) = 1 /\ {x \in rest : info[x].u = info[t].u} = {t} THEN Min(same) ELSE MaxTabs + 1

CarryPair(l, olds, news) ==
  LET exact == [t \in news |-> MatchExact(l, t, olds)]
      taken == {exact[t] : t \in news}
      rest == {t \in news : exact[t] > MaxTabs}
      from == [t \in news |-> IF t \in rest THEN MatchUnique(l, t, olds, taken, rest) ELSE exact[t]]
  IN {<<t, from[t]>> : t \in {x \in news : from[x] <= MaxTabs}}

RekeyLedger(l) ==
  LET same == {t \in DOMAIN l \cap Open : l[t].u = info[t].u}
      olds == DOMAIN l \ same
      news == Open \ same
      kept(m) == {<<t, t>> : t \in same} \cup
                 UNION {CarryPair(l, {o \in olds : l[o].w = p[1]}, {t \in news : Position(t).w = p[2]}) : p \in m}
      next(k) == [t \in {c[1] : c \in k} |-> Entry(Position(t), l[(CHOOSE c \in k : c[1] = t)[2]].at)]
  IN {next(kept(m)) : m \in Pairings(l, olds, news)}

ApplyUpdate(l, e) ==
  CASE e.do = "created" -> RecordOpened(l, e)
    [] e.do = "removed" -> ForgetTab(l, e)
    [] e.do = "refresh" -> LET next == RefreshPositions(l)
                           IN IF Cardinality(DOMAIN next) > SoftCap THEN PruneClosed(next) ELSE next
    [] e.do = "start" -> l

(***************************************************************************)
(* withLedger: one update at a time, the first of a session re-keys.       *)
(***************************************************************************)
Rekeys == IF keyed THEN {ledger} ELSE RekeyLedger(ledger)

UpdatedThenRekeyed(e) == IF keyed THEN {ApplyUpdate(ledger, e)} ELSE RekeyLedger(ApplyUpdate(ledger, e))

\* What an update makes of the ledger.
Updated(e) == {ApplyUpdate(l, e) : l \in Rekeys}

Unshared(t) == \A x \in Open : info[x].u = info[t].u => x = t

\* The tabs that are back are the tabs that were there, each where it was.
Tidy ==
  /\ back = <<>> /\ {info[t].was : t \in Open} = DOMAIN saved
  /\ \A t \in Open : saved[info[t].was] = [s |-> SlotOf(t), i |-> IndexOf(t), u |-> info[t].u]

WithLedger ==
  /\ chain # <<>> /\ ~writing.on
  /\ \E l \in Updated(Head(chain)) :
       writing' = [on |-> TRUE, to |-> l, rekey |-> ~keyed,
                   owes |-> IF keyed THEN owed ELSE IF Tidy THEN {t \in Open : Unshared(t)} ELSE {}]
  /\ keyed' = TRUE
  /\ chain' = Tail(chain)
  /\ saved' = IF keyed THEN saved ELSE <<>>
  /\ UNCHANGED <<strip, windows, info, ledger, refresh, due, back, bounds, heard, owed>>

WriteLedger ==
  /\ writing.on
  /\ ledger' = writing.to /\ writing' = NoWrite
  /\ owed' = IF writing.rekey THEN writing.owes ELSE owed
  /\ UNCHANGED <<strip, windows, info, keyed, chain, refresh, due, back, bounds, saved, heard>>

MemoryLost == chain' = <<>> /\ writing' = NoWrite /\ refresh' = FALSE /\ due' = TRUE

(***************************************************************************)
(* The browser and the person at it.                                       *)
(***************************************************************************)
Quiet == back = <<>> /\ Len(chain) < MaxQueued
Change == Quiet /\ changes < MaxChanges /\ changes' = changes + 1

Queue(es) == chain' = chain \o es
Created(t, pos) == [do |-> "created", tab |-> t, pos |-> pos, seen |-> info'[t].seen]
Removed(t, closing) == [do |-> "removed", tab |-> t, closing |-> closing]

OnTabCreated(s, a) ==
  LET t == Cardinality(DOMAIN info) + 1 IN
  /\ Change /\ t <= MaxTabs
  /\ strip' = [strip EXCEPT ![s] = Append(@, t)]
  /\ info' = Joined(info, [x \in {t} |-> [u |-> a, birth |-> now, seen |-> now, was |-> 0]])
  /\ heard' = heard \cup {<<a, now>>}
  /\ Queue(<<Created(t, [w |-> windows[s], i |-> Len(strip[s]) + 1, u |-> a])>>)
  /\ UNCHANGED <<windows, ledger, keyed, worker, back, now, starts, saved, owed>>

StripWithout(t) == [strip EXCEPT ![SlotOf(t)] = RemoveAt(@, IndexOf(t))]

OnTabRemoved(t) ==
  /\ Change
  /\ strip' = StripWithout(t)
  /\ Queue(<<Removed(t, FALSE)>>)
  /\ UNCHANGED <<windows, info, ledger, keyed, worker, back, now, starts, agesGhosts>>

WindowCloses(s) ==
  /\ Change /\ strip[s] # <<>>
  /\ strip' = [strip EXCEPT ![s] = <<>>]
  /\ Queue([i \in 1..Len(strip[s]) |-> Removed(strip[s][i], TRUE)])
  /\ UNCHANGED <<windows, info, ledger, keyed, worker, back, now, starts, agesGhosts>>

SchedulePositionRefresh == refresh' = TRUE

TabMoves(t, s) ==
  /\ Change
  /\ strip' = [StripWithout(t) EXCEPT ![s] = Append(@, t)]
  /\ SchedulePositionRefresh
  /\ UNCHANGED <<windows, info, ledger, keyed, chain, writing, due, back, now, starts, agesGhosts>>

TabNavigates(t, a) ==
  /\ Change /\ a # info[t].u
  /\ info' = [info EXCEPT ![t].u = a, ![t].seen = now]
  /\ heard' = heard \cup {<<a, h[2]>> : h \in {x \in heard : x[1] = info[t].u}}
  /\ SchedulePositionRefresh
  /\ UNCHANGED <<strip, windows, ledger, keyed, chain, writing, due, back, now, starts, saved, owed>>

EnsureAgesSession ==
  /\ due /\ due' = FALSE
  /\ Queue(<<[do |-> "start"]>>)
  /\ UNCHANGED <<strip, windows, info, ledger, keyed, writing, refresh, back, bounds, agesGhosts>>

RefreshTimer ==
  /\ refresh /\ refresh' = FALSE
  /\ Queue(<<[do |-> "refresh"]>>)
  /\ UNCHANGED <<strip, windows, info, ledger, keyed, writing, due, back, bounds, agesGhosts>>

TimePasses ==
  /\ now < MaxTime /\ chain = <<>> /\ ~writing.on /\ now' = now + 1
  /\ UNCHANGED <<strip, windows, info, ledger, keyed, memory, back, starts, changes, agesGhosts>>

WriterDies ==
  /\ changes < MaxChanges /\ changes' = changes + 1 /\ MemoryLost
  /\ UNCHANGED <<strip, windows, info, ledger, keyed, back, now, starts, agesGhosts>>

ExtensionReloads ==
  /\ back = <<>> /\ starts < MaxStarts /\ starts' = starts + 1
  /\ keyed' = FALSE /\ MemoryLost
  /\ UNCHANGED <<strip, windows, info, ledger, back, now, changes, agesGhosts>>

Kept == {s \in Slots : strip[s] # <<>>}

\* Quitting closes every window; the worker may hear of it before it goes.
BrowserQuits ==
  /\ back = <<>> /\ starts < MaxStarts /\ Open # {} /\ starts' = starts + 1
  /\ strip' = [s \in Slots |-> <<>>]
  /\ back' = [i \in 1..Cardinality(Kept) |-> [slot |-> SetToSeq(Kept)[i], tabs |-> strip[SetToSeq(Kept)[i]]]]
  /\ \E n \in 0..Len(chain) :
       LET closings == [i \in 1..Cardinality(Open) |-> Removed(SetToSeq(Open)[i], TRUE)]
       IN chain' = SubSeq(chain, 1, n) \o IF n = Len(chain) THEN closings ELSE <<>>
  /\ windows' = [s \in Slots |-> 0]
  /\ saved' = IF /\ keyed /\ chain = <<>> /\ ~writing.on /\ (refresh => Cardinality(DOMAIN ledger) <= SoftCap)
                 /\ DOMAIN ledger = Open /\ \A t \in Open : ledger[t] = Entry(Position(t), info[t].birth)
              THEN [t \in Open |-> [s |-> SlotOf(t), i |-> IndexOf(t), u |-> info[t].u]] ELSE <<>>
  /\ UNCHANGED <<info, ledger, keyed, worker, now, changes, heard, owed>>

\* Window ids are only ever compared, so which of the new ones a window gets is all the same.
BrowserStarts ==
  /\ back # <<>> /\ windows[1] = 0
  /\ windows' = [s \in Slots |-> 2 * starts + s]
  /\ keyed' = FALSE /\ MemoryLost
  /\ UNCHANGED <<strip, info, ledger, back, bounds, agesGhosts>>

WindowComesBack ==
  /\ back # <<>> /\ windows[1] # 0
  /\ \E k \in 1..Len(back) :
       LET b == back[k]
           id(i) == Cardinality(DOMAIN info) + i
           ids == [i \in 1..Len(b.tabs) |-> id(i)]
       IN /\ id(Len(b.tabs)) <= MaxTabs
          /\ strip' = [strip EXCEPT ![b.slot] = ids]
          /\ info' = Joined(info, [t \in ToSet(ids) |->
                                        LET old == b.tabs[t - Cardinality(DOMAIN info)]
                                        IN [info[old] EXCEPT !.was = old]])
          /\ heard' = heard \cup {<<info[t].u, now>> : t \in {x \in ToSet(b.tabs) : info[x].seen = now}}
          /\ Queue([i \in 1..Len(ids) |-> Created(ids[i], [w |-> windows[b.slot], i |-> i, u |-> info'[ids[i]].u])])
          /\ back' = RemoveAt(back, k)
  /\ UNCHANGED <<windows, ledger, keyed, worker, bounds, saved, owed>>

AgesNext ==
  \/ WithLedger \/ WriteLedger \/ EnsureAgesSession \/ RefreshTimer \/ TimePasses \/ WriterDies
  \/ ExtensionReloads \/ BrowserQuits \/ BrowserStarts \/ WindowComesBack
  \/ \E s \in Slots : WindowCloses(s) \/ \E a \in Addresses : OnTabCreated(s, a)
  \/ \E t \in Open : OnTabRemoved(t) \/ (\E s \in Slots : TabMoves(t, s)) \/ \E a \in Addresses : TabNavigates(t, a)

AgesSpec == AgesInit /\ [][AgesNext]_agesVars

(***************************************************************************)
(* Properties.                                                             *)
(***************************************************************************)
\* The age the sort reads came to the tab by its address: it is when a tab was opened there - or was on screen a
\* moment ago and came back there, which may be taken for new - or went on from there with a tab that navigated.
NoAgeIsInvented == \A t \in DOMAIN ledger \cap Open : <<info[t].u, ledger[t].at>> \in heard

\* A browser that quit with an up-to-date ledger, not about to be pruned, and has brought its windows back when the
\* re-key looks loses the age of no tab that shares its address with no other.
NoAgeIsLost == \A t \in owed \cap Open : t \in DOMAIN ledger /\ ledger[t].at = info[t].birth

AgesAreTrue == NoAgeIsInvented /\ NoAgeIsLost
=============================================================================
