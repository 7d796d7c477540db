------------------------------ MODULE KeepAlive ------------------------------
(***************************************************************************)
(* The token relay between two handovers: which relays the broker reads    *)
(* from the operator's settings and tells a profile about                  *)
(* (bridged/token-relay.mjs), how the worker comes to watch them, and the  *)
(* one tab it keeps alive (extension/lib/token-relay.js).                  *)
(*                                                                         *)
(* The profile runs one keep-alive, the first relay it is told of.  Time   *)
(* is counted in checks.  Pages are the kinds the code tells apart: the    *)
(* chosen address, the page of the app it redirects to, another page of    *)
(* the app, and a page outside.  Nobody unpins the tab.                    *)
(***************************************************************************)
EXTENDS Naturals, Sequences

CONSTANTS
  Settings,      \* what token-relay.json may hold: sequences of entries
  Lines,         \* what the profile's line may be: its label, and whether claimed
  Ids,           \* tabs, numbered
  Life,          \* how long a token lives
  Renew,         \* the margin the relay asks for
  ReloadGap, OpenGap,
  Budgets        \* how many hours pass, tokens are handed over, moves the
                 \* person and the app make with the tab, answers the broker
                 \* sends after the first, and ends of worker or browser

(* Zero stands for no tab at all.                                          *)
ASSUME KeepAliveAssumption ==
  /\ 0 \notin Ids
  /\ {Life, Renew, ReloadGap, OpenGap} \subseteq Nat
  /\ Budgets \subseteq [hours : Nat, tokens : Nat, moves : Nat, answers : Nat, deaths : Nat]

VARIABLES
  hour,
  settings, line,
  answers,      \* the broker's answers on the port, and how far each is
  specs,        \* storage.local: the relays last told
  news,         \* changes of it the worker has not heard of
  boot,         \* the worker's own reading of it: pc and what it found
  watching,     \* what the worker watches
  applied,      \* appliedByBroker
  bag,          \* storage.local: the relay's state
  own,          \* storage.session: the keep-alive tab (0: none)
  pages,        \* the tabs it opened, and what they show
  check,        \* the keep-alive check
  handover,     \* a token's handover: reading the bag, about to write it
  noted,        \* the open tabs it opened, and noted down, in this session of the browser
  budget        \* what may still happen

keepVars == <<hour, settings, line, answers, specs, news, boot, watching, applied, bag, own, pages, check, handover, noted, budget>>
told == <<settings, line, answers, specs, news, boot, watching, applied>>
keeping == <<bag, own, check>>

Spends(what) == budget[what] > 0 /\ budget' = [budget EXCEPT ![what] = @ - 1]

-----------------------------------------------------------------------------
(* The operator's settings.  An entry that fails a check is dropped whole, *)
(* and so is the second use of a name.                                     *)

CheckRelay(entry) == entry.sound
LoadTokenRelays(list) ==
  LET checked == {j \in DOMAIN list : CheckRelay(list[j])}
  IN  {list[i] : i \in {j \in checked : ~ \E k \in checked : k < j /\ list[k].name = list[j].name}}

RelaySpecsFor(list, l) ==
  IF ~l.claimed THEN {} ELSE {r.name : r \in {e \in LoadTokenRelays(list) : e.profile = l.label}}

-----------------------------------------------------------------------------
(* The broker's answers.  Recording one takes several storage calls; a     *)
(* refusal for panic takes fewer, and clears the list.                     *)

AckOf(list, l) == [relays |-> RelaySpecsFor(list, l), calls |-> 3, panic |-> FALSE]
PanicRefusal == [relays |-> {}, calls |-> 1, panic |-> TRUE]

BrokerAnswers ==
  /\ Spends("answers")
  /\ \/ /\ line' \in Lines /\ settings' \in Settings
        /\ answers' = Append(answers, AckOf(settings', line'))
     \/ answers' = Append(answers, PanicRefusal) /\ UNCHANGED <<line, settings>>
  /\ UNCHANGED <<hour, specs, news, boot, watching, applied, keeping, pages, handover, noted>>

(* Storage carries its calls out in order: of two answers of a kind, the   *)
(* first stays ahead.                                                      *)
Records(n) ==
  /\ \A m \in 1..(n - 1) : answers[m].panic = answers[n].panic => answers[m].calls < answers[n].calls
  /\ IF answers[n].calls > 0
     THEN answers' = [answers EXCEPT ![n].calls = @ - 1] /\ UNCHANGED <<specs, news>>
     ELSE /\ answers' = SubSeq(answers, 1, n - 1) \o SubSeq(answers, n + 1, Len(answers))
          /\ specs' = answers[n].relays
          /\ news' = IF specs' = specs THEN news ELSE Append(news, specs')
  /\ UNCHANGED <<hour, settings, line, boot, watching, applied, keeping, pages, handover, noted, budget>>

(* apply: exactly the relays given.  The worker's own start gives way to   *)
(* the broker's answer.                                                    *)

(* Mutant: the worker's start has the last word.                           *)
ApplyAlways(next, initial) == watching' = next /\ applied' = (applied \/ ~initial)

Apply(next, initial) ==
  IF initial /\ applied THEN UNCHANGED <<watching, applied>>
  ELSE watching' = next /\ applied' = (applied \/ ~initial)

StorageChanged ==
  /\ news # <<>>
  /\ news' = Tail(news) /\ Apply(Head(news), FALSE)
  /\ UNCHANGED <<hour, settings, line, answers, specs, boot, keeping, pages, handover, noted, budget>>

BootReads ==
  /\ boot.pc = "start"
  /\ boot' = [pc |-> "read", found |-> specs]
  /\ UNCHANGED <<hour, settings, line, answers, specs, news, watching, applied, keeping, pages, handover, noted, budget>>

BootApplies ==
  /\ boot.pc = "read"
  /\ boot' = [pc |-> "done", found |-> {}] /\ Apply(boot.found, TRUE)
  /\ UNCHANGED <<hour, settings, line, answers, specs, news, keeping, pages, handover, noted, budget>>

-----------------------------------------------------------------------------
(* The token handed over meanwhile: patchState reads the whole record and  *)
(* writes it back, behind an await, as the check does.                     *)

Never == 0
Within(t, mark, gap) == mark # Never /\ t - mark < gap

Resting == [pc |-> "idle"]

Relays ==
  /\ handover.pc = "idle" /\ watching # {} /\ Spends("tokens")
  /\ handover' = [pc |-> "patching", bag |-> bag]
  /\ UNCHANGED <<hour, told, keeping, pages, noted>>

Relayed ==
  /\ handover.pc = "patching"
  /\ handover' = Resting
  /\ bag' \in {handover.bag, [handover.bag EXCEPT !.exp = hour + Life]}
  /\ UNCHANGED <<hour, told, own, check, pages, noted, budget>>

-----------------------------------------------------------------------------
(* One check: pc, its moment, the record it read, the tab it is about, and *)
(* what it believes of that tab.                                           *)

NoCheck == [pc |-> "idle"]
NoTab == [at |-> "none", active |-> FALSE]
OnApp(at) == at \in {"chosen", "landing", "inbox"}
Live == {i \in Ids : pages[i] # NoTab}

(* Never earlier than halfway through the token's own life.                *)
Margin == IF 2 * Renew > Life THEN Life \div 2 ELSE Renew
StillFresh(held, t) == held.exp # Never /\ held.exp > t + Margin

Begins ==
  /\ check.pc = "idle" /\ watching # {}
  /\ check' = [pc |-> IF StillFresh(bag, hour) THEN "landing" ELSE IF Within(hour, bag.reloadAt, ReloadGap) THEN "idle" ELSE "tab",
               t |-> hour, held |-> bag, id |-> 0, tab |-> NoTab]
  /\ UNCHANGED <<hour, told, bag, own, pages, handover, noted, budget>>

(* noteLanding: the first landing, or the chosen address itself.           *)
WorthNoting(held, tab) ==
  /\ OnApp(tab.at) /\ tab.at # held.tabUrl
  /\ held.tabUrl # "none" => tab.at = "chosen"

NotesLanding ==
  /\ check.pc = "landing"
  /\ check' = IF own \in Live /\ WorthNoting(check.held, pages[own])
              THEN [check EXCEPT !.pc = "patch", !.tab = pages[own], !.id = own] ELSE NoCheck
  /\ UNCHANGED <<hour, told, bag, own, pages, handover, noted, budget>>

(* What is done with the tab found, by what it showed then.                *)
Decision(held, tab) ==
  IF ~OnApp(tab.at) \/ tab.active THEN "idle"
  ELSE IF tab.at \in {"chosen", held.tabUrl} THEN "reload" ELSE "return"

(* Mutant: a tab that left the app is as good as closed.                   *)
OwnTabOnApp == IF own \in Live /\ OnApp(pages[own].at) THEN own ELSE 0

(* ownTab: the one noted in this session, or a pinned one showing the      *)
(* chosen address, or where it first landed.                               *)
OwnTab == IF own \in Live THEN own ELSE 0
ByAddress(held) ==
  LET chosen == {i \in Live : pages[i].at = "chosen"}
      landed == {i \in Live : held.tabUrl # "none" /\ pages[i].at = held.tabUrl}
  IN  IF chosen # {} THEN chosen ELSE landed

FindsTab ==
  /\ check.pc = "tab" /\ OwnTab # 0
  /\ check' = [check EXCEPT !.pc = Decision(check.held, pages[own]), !.id = own, !.tab = pages[own]]
  /\ UNCHANGED <<hour, told, bag, own, pages, handover, noted, budget>>

LooksByAddress ==
  /\ check.pc = "tab" /\ OwnTab = 0
  /\ \/ /\ ByAddress(check.held) = {}
        /\ own' = 0
        /\ check' = [check EXCEPT !.pc = IF Within(check.t, check.held.openedAt, OpenGap) THEN "idle" ELSE "open"]
     \/ \E i \in ByAddress(check.held) :
          own' = i /\ check' = [check EXCEPT !.pc = Decision(check.held, pages[i]), !.id = i, !.tab = pages[i]]
  /\ UNCHANGED <<hour, told, bag, pages, handover, noted, budget>>

(* The browser carries the call out when it arrives; a closed tab fails    *)
(* it, and the check with it.  The app may redirect the chosen address.    *)
Acts ==
  /\ check.pc \in {"reload", "return"}
  /\ IF check.id \in Live
     THEN /\ check' = [check EXCEPT !.pc = "patch", !.tab = NoTab]
          /\ pages' = IF check.pc = "return" THEN [pages EXCEPT ![check.id].at = "chosen"] ELSE pages
     ELSE check' = NoCheck /\ UNCHANGED pages
  /\ UNCHANGED <<hour, told, bag, own, handover, noted, budget>>

(* With no window open it waits.                                           *)
Opens ==
  /\ check.pc = "open"
  /\ \/ check' = NoCheck /\ UNCHANGED pages
     \/ \E i \in Ids \ Live :
          /\ pages' = [pages EXCEPT ![i] = [at |-> "chosen", active |-> FALSE]]
          /\ check' = [check EXCEPT !.pc = "note", !.id = i]
  /\ UNCHANGED <<hour, told, bag, own, handover, noted, budget>>

Notes ==
  /\ check.pc = "note"
  /\ own' = check.id /\ noted' = noted \cup ({check.id} \cap Live)
  /\ check' = [check EXCEPT !.pc = "opened"]
  /\ UNCHANGED <<hour, told, bag, pages, handover, budget>>

(* patchState, for what each path has to say.                              *)
ReadsRecord ==
  /\ check.pc \in {"opened", "patch"}
  /\ check' = [check EXCEPT !.pc = IF check.pc = "opened" THEN "openedWrite" ELSE "patchWrite", !.held = bag]
  /\ UNCHANGED <<hour, told, bag, own, pages, handover, noted, budget>>

WritesRecord ==
  /\ \/ /\ check.pc = "openedWrite"
        /\ bag' = [check.held EXCEPT !.openedAt = check.t, !.tabUrl = "none"]
        /\ check' = [check EXCEPT !.pc = "patch"]
     \/ /\ check.pc = "patchWrite" /\ check' = NoCheck
        /\ bag' = IF check.tab = NoTab THEN [check.held EXCEPT !.reloadAt = check.t]
                   ELSE [check.held EXCEPT !.tabUrl = check.tab.at]
  /\ UNCHANGED <<hour, told, own, pages, handover, noted, budget>>

-----------------------------------------------------------------------------
(* The person, the app, time, and the ends of the worker and of the        *)
(* browser.  A browser that restarts has its pinned tabs again, and no     *)
(* session storage; its tabs' new numbers mean nothing to anyone.          *)

PageMoves ==
  /\ Spends("moves")
  /\ \E i \in Live :
       \E at \in {"landing", "inbox", "outside", "none"}, active \in BOOLEAN :
         /\ at = "none" => ~active
         /\ pages[i].at # at
         /\ pages' = [pages EXCEPT ![i] = [at |-> at, active |-> active]]
         /\ noted' = IF at = "none" THEN noted \ {i} ELSE noted
  /\ UNCHANGED <<hour, told, keeping, handover>>

HourPasses ==
  /\ Spends("hours") /\ hour' = hour + 1
  /\ UNCHANGED <<told, keeping, pages, handover, noted>>

Ended ==
  /\ Spends("deaths")
  /\ answers' = <<>> /\ news' = <<>>
  /\ boot' = [pc |-> "start", found |-> {}]
  /\ watching' = {} /\ applied' = FALSE
  /\ check' = NoCheck /\ handover' = Resting
  /\ UNCHANGED <<hour, settings, line, specs, bag>>

WorkerEnds == Ended /\ UNCHANGED <<own, noted, pages>>
BrowserRestarts == Ended /\ own' = 0 /\ noted' = {} /\ pages' = [i \in Ids |-> [pages[i] EXCEPT !.active = FALSE]]

KeepInit ==
  /\ hour = 1
  /\ settings \in Settings /\ line \in Lines
  /\ answers = <<AckOf(settings, line)>>
  /\ specs = {} /\ news = <<>>
  /\ boot = [pc |-> "start", found |-> {}]
  /\ watching = {} /\ applied = FALSE
  /\ bag = [exp |-> Never, openedAt |-> Never, reloadAt |-> Never, tabUrl |-> "none"]
  /\ own = 0 /\ pages = [i \in Ids |-> NoTab]
  /\ check = NoCheck /\ handover = Resting
  /\ noted = {}
  /\ budget \in Budgets

KeepNext ==
  \/ BrokerAnswers \/ (\E n \in DOMAIN answers : Records(n)) \/ StorageChanged \/ BootReads \/ BootApplies
  \/ Relays \/ Relayed
  \/ Begins \/ NotesLanding \/ FindsTab \/ LooksByAddress \/ Acts \/ Opens \/ Notes \/ ReadsRecord \/ WritesRecord
  \/ PageMoves \/ HourPasses \/ WorkerEnds \/ BrowserRestarts

KeepSpec == KeepInit /\ [][KeepNext]_keepVars

-----------------------------------------------------------------------------
(* The watching follows the list last written down, whichever of the       *)
(* worker's start, the broker's answers and their events came first        *)
(* (token-relay.js, apply; sw.js, boot).                                   *)
WatchesWhatIsStored == boot.pc = "done" /\ news = <<>> => watching = specs

(* While a tab it opened in this session is there, wherever it was taken,  *)
(* no second one opens (token-relay.js, ownTab and keepAlive).             *)
OneTabASession == [][Live' \subseteq Live \/ noted = {}]_keepVars
=============================================================================
