------------------------------ MODULE MCGates ------------------------------
(***************************************************************************)
(* Four small systems that share nothing; a behaviour is of one of them:   *)
(* the gates (uploads, or the other requests), the token relay, the two    *)
(* commands that close tabs, and the self-reload.                          *)
(***************************************************************************)
EXTENDS Gates, TokenRelay, Commands, Reload, TLC

VARIABLE machine

Ask(role, op, fields) ==
  fields @@ [role |-> role, op |-> op, to |-> "ok", tab |-> "none", tabs |-> "none", url |-> "none", ages |-> "none",
             word |-> "none", paths |-> <<>>, on |-> TRUE]
None == [on |-> TRUE]
Upload(paths) == Ask("mcp", "uploadFile", [tab |-> "mine", paths |-> paths])

MCUploads ==
  {Upload(p) : p \in {<<>>, <<"a">>, <<"a", "long">>, <<"a", "long", "a">>}}
  \cup {Ask("mcp", "arm", None), Ask("mcp", "panic", None)}

MCControl ==
  {Ask("mcp", "fill", [word |-> "good"]), Ask("mcp", "panic", None), Ask("host", "resume", None),
   Ask("mcp", "arm", None), Ask("mcp", "evalJs", None), Ask("host", "relayToken", None)}

MCRequests ==
  {Ask("mcp", "fill", [word |-> "none", tab |-> t]) : t \in {"mine", "foreign"}}
  \cup {Ask("mcp", "closeTab", [tabs |-> t]) : t \in {"foreign", "no list"}}
  \cup {Ask("mcp", "sortWindow", [ages |-> a]) : a \in {"mine", "foreign", "no map"}}
  \cup {Ask("mcp", "navigate", [url |-> u]) : u \in {"restricted", "local page", "huge"}}
  \cup {Ask("mcp", "openOrFocus", [url |-> "local page"]), Ask("mcp", "uploadFile", None)}
  \cup {Ask("mcp", "listTabs", [to |-> t]) : t \in {"nobody", "two", "unknown"}}
  \cup {Ask(r, op, None) : r \in {"mcp", "host"}, op \in {"panic", "resume", "relayToken", "arm", "status"}}
  \cup {Ask("host", op, None) : op \in {"disarm", "claimProfile", "setLabel", "readPage"}}
  \cup {Ask("mcp", "mistyped", None), Ask("host", "panic", [on |-> FALSE])}

MCAsks == MCUploads \cup MCControl \cup MCRequests

(* A behaviour of requests is a few of the ones that change something, or  *)
(* one of these and any other.                                             *)
Fits ==
  /\ machine = "uploads" => claimed /\ \A n \in DOMAIN calls : calls[n].q \in MCUploads
  /\ machine = "requests" =>
       /\ \/ \A n \in DOMAIN calls : calls[n].q \in MCControl
          \/ Len(calls) <= 2 /\ \A n \in DOMAIN calls : calls[n].q \in (IF n = 1 THEN MCControl ELSE MCRequests)
       /\ trouble <= 1 /\ \A n \in Names : disk.at[n] = "f"

StartOfGates == GatesInit /\ \A n \in Names : disk.at[n] = "f"

(* The machines that rest start in one of their initial states.            *)
AtRest(m) ==
  /\ m \notin {"uploads", "requests"} => ~claimed
  /\ m # "relay" => file = NoToken
  /\ m # "commands" => \A t \in Tabs : tabs[t] = [is |-> "open", url |-> ReadUrl, shown |-> t = 1, kept |-> FALSE]
  /\ m # "reload" => installed = 1 /\ route.ver = 0

MCInit ==
  /\ machine \in {"uploads", "requests", "relay", "commands", "reload"}
  /\ StartOfGates /\ RelayInit /\ CommandsInit /\ ReloadInit
  /\ AtRest(machine) /\ Fits

MCNext ==
  /\ UNCHANGED machine
  /\ \/ machine \in {"uploads", "requests"} /\ GatesNext /\ Fits' /\ UNCHANGED <<relayVars, commandsVars, reloadVars>>
     \/ machine = "relay" /\ RelayNext /\ UNCHANGED <<gatesVars, commandsVars, reloadVars>>
     \/ machine = "commands" /\ CommandsNext /\ UNCHANGED <<gatesVars, relayVars, reloadVars>>
     \/ machine = "reload" /\ ReloadNext /\ UNCHANGED <<gatesVars, relayVars, commandsVars>>

MCSpec == MCInit /\ [][MCNext]_<<machine, gatesVars, relayVars, commandsVars, reloadVars>>
Alike == Permutations(Requests)
=============================================================================
