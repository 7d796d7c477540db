------------------------------- MODULE Reload -------------------------------
(***************************************************************************)
(* The self-reload of one profile's extension after an upgrade: the        *)
(* broker's gate (bridged/index.mjs allowReload, protocol.mjs              *)
(* reloadRefusal), the extension's delayed reload (lib/ops.js) and the     *)
(* command that waits for the profile to come back                         *)
(* (scripts/reload-extension.mjs).                                         *)
(*                                                                         *)
(* A worker that dies takes its timer with it; a connection that ends      *)
(* takes the messages on it, and the broker may learn of it late.          *)
(***************************************************************************)
EXTENDS Naturals

CONSTANTS
  MaxVersion,    \* releases
  MaxAsks,       \* requests to reload
  MaxMishaps     \* deaths of the worker, lost connections, restarts of the browser

ASSUME ReloadAssumption == {MaxVersion, MaxAsks, MaxMishaps} \subseteq Nat /\ MaxVersion > 0

VARIABLES
  installed,   \* the version in the install folder
  running,     \* the version the profile runs
  timers,      \* whether a reload is about to happen in the worker
  wired,       \* whether the worker's connection stands
  route,       \* what the broker thinks: there or not, and the version it registered (0: none)
  flag,        \* pendingReloads
  coming,      \* reload requests on the connection, the command's own among them
  command,     \* reload-extension: pc, the version it read, what it reported
  was,         \* the versions the profile has run since the command asked
  asks, mishaps

reloadVars == <<installed, running, timers, wired, route, flag, coming, command, was, asks, mishaps>>
extension == <<running, timers, wired>>

NoRoute == [on |-> FALSE, ver |-> 0]

ReloadInit ==
  /\ installed \in 1..MaxVersion /\ running \in 1..installed
  /\ timers = FALSE /\ wired = TRUE
  /\ route \in {[on |-> TRUE, ver |-> v] : v \in {0, running}}
  /\ flag = FALSE /\ coming = {}
  /\ command = [pc |-> "start", want |-> 0, says |-> "nothing"]
  /\ was = {} /\ asks = 0 /\ mishaps = 0

Mishap == mishaps < MaxMishaps /\ mishaps' = mishaps + 1

-----------------------------------------------------------------------------
(* The broker                                                              *)

(* Mutant: any profile that says its version may be reloaded.              *)
KnownVersion == route.ver # 0

(* The folder's version is known, the profile's is, and they differ.       *)
Behind == route.ver # 0 /\ route.ver # installed

Allows == route.on /\ Behind /\ ~flag

(* An allowed request raises the flag and goes to whatever connection the  *)
(* route has.                                                              *)
PassesOn(who) ==
  /\ flag' = TRUE
  /\ coming' = IF wired THEN coming \cup {who} ELSE coming

AllowReload ==
  /\ asks < MaxAsks /\ asks' = asks + 1
  /\ Allows /\ PassesOn("another")
  /\ UNCHANGED <<installed, extension, route, command, was, mishaps>>

FlagExpires ==
  /\ flag /\ flag' = FALSE
  /\ UNCHANGED <<installed, extension, route, coming, command, was, asks, mishaps>>

(* A profile that registers, and one that is evicted, is not waiting for a *)
(* reload any more; a socket that closes by itself leaves the flag.        *)
ComesBack ==
  /\ ~wired
  /\ wired' = TRUE
  /\ \E known \in BOOLEAN : route' = [on |-> TRUE, ver |-> IF known THEN running ELSE 0]
  /\ flag' = FALSE /\ coming' = {}
  /\ UNCHANGED <<installed, running, timers, command, was, asks, mishaps>>

Evicted ==
  /\ Mishap /\ route.on
  /\ route' = NoRoute /\ wired' = FALSE /\ coming' = {} /\ flag' = FALSE
  /\ UNCHANGED <<installed, running, timers, command, was, asks>>

SocketClosed ==
  /\ route.on /\ ~wired
  /\ route' = NoRoute
  /\ UNCHANGED <<installed, extension, flag, coming, command, was, asks, mishaps>>

-----------------------------------------------------------------------------
(* The extension                                                           *)

(* reloadExtension answers first and reloads a moment later.               *)
Reloading(who) ==
  /\ wired /\ who \in coming
  /\ coming' = coming \ {who}
  /\ timers' = TRUE
  /\ command' = IF who = "command" /\ command.pc = "asked" THEN [command EXCEPT !.pc = "waiting"] ELSE command
  /\ UNCHANGED <<installed, running, wired, route, flag, was, asks, mishaps>>

(* A new worker runs what the folder holds.                                *)
LoadsTheFolder ==
  /\ running' = installed /\ timers' = FALSE
  /\ wired' = FALSE /\ coming' = {}
  /\ was' = was \cup {installed}

Fires ==
  /\ timers /\ LoadsTheFolder
  /\ UNCHANGED <<installed, route, flag, command, asks, mishaps>>

BrowserRestarts ==
  /\ Mishap /\ LoadsTheFolder
  /\ UNCHANGED <<installed, route, flag, command, asks>>

WorkerRestarts ==
  /\ Mishap
  /\ timers' = FALSE /\ wired' = FALSE /\ coming' = {}
  /\ UNCHANGED <<installed, running, route, flag, command, was, asks>>

WireDrops ==
  /\ Mishap /\ wired
  /\ wired' = FALSE /\ coming' = {}
  /\ UNCHANGED <<installed, running, timers, route, flag, command, was, asks>>

Upgrade ==
  /\ installed < MaxVersion
  /\ installed' = installed + 1
  /\ UNCHANGED <<extension, route, flag, coming, command, was, asks, mishaps>>

-----------------------------------------------------------------------------
(* The command.  It reads the folder once, picks a profile that is there,  *)
(* says its version and is behind, and asks the broker, which looks again. *)

Only == UNCHANGED <<installed, extension, route, was, asks, mishaps>>
Says(word) == command' = [command EXCEPT !.pc = "done", !.says = word]

ReadsFolder ==
  /\ command.pc = "start"
  /\ command' = [command EXCEPT !.pc = "chosen", !.want = installed]
  /\ was' = {running}
  /\ UNCHANGED <<installed, extension, route, flag, coming, asks, mishaps>>

Skips ==
  /\ command.pc = "chosen"
  /\ ~route.on \/ route.ver \in {0, command.want}
  /\ Says("skipped") /\ Only /\ UNCHANGED <<flag, coming>>

ReloadOne ==
  /\ command.pc = "chosen" /\ route.on /\ route.ver \notin {0, command.want}
  /\ IF Allows THEN PassesOn("command") /\ command' = [command EXCEPT !.pc = "asked"]
     ELSE Says("refused") /\ UNCHANGED <<flag, coming>>
  /\ Only

(* The answer is lost, or does not come in time.                           *)
NoAnswer == command.pc = "asked" /\ Says("refused") /\ Only /\ UNCHANGED <<flag, coming>>

(* The board shows the profile connected and running the wanted version.   *)
Back == route.on /\ route.ver = command.want
Verified == command.pc = "waiting" /\ Back /\ Says("reloaded") /\ Only /\ UNCHANGED <<flag, coming>>
TimesUp == command.pc = "waiting" /\ Says("not back") /\ Only /\ UNCHANGED <<flag, coming>>

ReloadNext ==
  \/ AllowReload \/ FlagExpires \/ ComesBack \/ Evicted \/ SocketClosed
  \/ \E who \in {"command", "another"} : Reloading(who)
  \/ Fires \/ BrowserRestarts \/ WorkerRestarts \/ WireDrops \/ Upgrade
  \/ ReadsFolder \/ Skips \/ ReloadOne \/ NoAnswer \/ Verified \/ TimesUp

ReloadSpec == ReloadInit /\ [][ReloadNext]_reloadVars

-----------------------------------------------------------------------------
(* A reload costs every session its handles, so the bridge never reloads   *)
(* an extension that already runs the installed version, however many ask, *)
(* late messages and forgotten flags there are (allowReload); and the      *)
(* command says a profile was reloaded only if it came back on the version *)
(* it asked for (reloadOne).                                               *)
NeverForNothing == timers /\ LoadsTheFolder /\ mishaps' = mishaps => running < installed
SaidTruly == command'.says = "reloaded" /\ command.says = "nothing" => command.want \in was

ReloadsAreNeeded == [][NeverForNothing /\ SaidTruly]_reloadVars
=============================================================================
