------------------------------ MODULE MCProfile ------------------------------
(***************************************************************************)
(* What a person sees and says of one profile: who is behind its line, the *)
(* pages that show it, and the relay told to it.  The three share nothing  *)
(* here; a behaviour is of one of them.                                    *)
(***************************************************************************)
EXTENDS Identity, KeepAlive, BoardPage

CONSTANT Machines    \* the parts a run looks at

VARIABLE machine

\* Two addresses of one account and one of another; somebody else in the other directory and elsewhere.
MCOwner == ("a1" :> "a") @@ ("a2" :> "a") @@ ("b1" :> "b")
MCOther == ("other" :> [gaia |-> "b", email |-> "b1", name |-> "n2"])
MCElse == ("own" :> [gaia |-> "b", email |-> "b1", name |-> "n2"])

\* The host under a launcher under a shell under the browser; and a table that goes round.
Process(parent, words, absolute) == [parent |-> parent, words |-> words, absolute |-> absolute]
Shim(words, absolute) ==
  <<Process(2, <<"node">>, FALSE), Process(3, <<"sh">>, FALSE), Process(0, words, absolute)>>
Loop == <<Process(2, <<"node">>, FALSE), Process(1, <<"sh">>, FALSE)>>
MCTables ==
  {NoTable, Loop, Shim(<<"google", "chrome">>, TRUE), Shim(<<"google", "chrome">>, FALSE), Shim(<<"brave">>, FALSE)}

Relay(called, profile, sound) == [name |-> called, profile |-> profile, sound |-> sound]
MCSettings ==
  {<<>>, <<Relay("r", "me", TRUE)>>, <<Relay("r", "me", FALSE), Relay("r", "me", TRUE)>>,
   <<Relay("r", "you", TRUE), Relay("r", "me", TRUE)>>}
MCLines == {[label |-> "me", claimed |-> c] : c \in BOOLEAN}

\* Either the broker says something new, or time passes and things happen to the tab.
MCBudgets ==
  {[hours |-> 0, tokens |-> 0, moves |-> 0, answers |-> 2, deaths |-> 1],
   [hours |-> 2, tokens |-> 1, moves |-> 2, answers |-> 0, deaths |-> 1]}

(* What a behaviour changes.                                               *)
Moving ==
  CASE machine = "identity" -> <<machine, identityVars>>
    [] machine = "keep" -> <<machine, keepVars>>
    [] machine = "board" -> <<machine, boardVars>>

(* The parts that rest start in one of their initial states.               *)
AtRest(m) ==
  /\ m # "identity" => browser = [vendor |-> "brave", rows |-> "names", astray |-> FALSE] /\ live = None /\ ~record.claimed /\ name = "n1"
  /\ m # "keep" => settings = <<>> /\ line.claimed /\ budget.hours = 0
  /\ m # "board" => surface = "board" /\ visible /\ up /\ truth.claimed

MCInit ==
  /\ machine \in Machines
  /\ IdentityInit /\ KeepInit /\ BoardInit
  /\ AtRest(machine)

MCNext ==
  /\ UNCHANGED machine
  /\ \/ machine = "identity" /\ IdentityNext /\ UNCHANGED <<keepVars, boardVars>>
     \/ machine = "keep" /\ KeepNext /\ UNCHANGED <<identityVars, boardVars>>
     \/ machine = "board" /\ BoardNext /\ UNCHANGED <<identityVars, keepVars>>

MCSpec == MCInit /\ [][MCNext]_<<machine, identityVars, keepVars, boardVars>>
=============================================================================
