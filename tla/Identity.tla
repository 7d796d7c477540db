------------------------------ MODULE Identity ------------------------------
(***************************************************************************)
(* Who is behind one line: the join of an extension with a profile         *)
(* directory (bridged/profiles.mjs), the registration and the heartbeat    *)
(* that re-check it and the claim made by hand (bridged/index.mjs).        *)
(*                                                                         *)
(* One extension, living in the directory Own of one browser.  The browser *)
(* writes what it knows of its profiles late, in part, or not at all; the  *)
(* broker reads that file, a table of processes and what the extension     *)
(* says.  A display name may be an address, as operators name them.        *)
(***************************************************************************)
EXTENDS Integers, Sequences, FiniteSets

CONSTANTS
  Owner,        \* addresses, each with the account it belongs to
  Own, Dirs,    \* the extension's directory, and all the directories of the browser
  Names,        \* display names a profile may have
  OtherRow,     \* what the file says of the other directories
  Elsewhere,    \* what another browser's file, or another user data directory's, says
  Tables,       \* process tables: [pid -> parent, argv0's words, whether an absolute path follows]; or NoTable
  MaxMoves      \* changes to who is signed in and to the profile's name, renames of the line

None == "none"
Unknown == "unknown"
NoTable == <<>>
Addresses == DOMAIN Owner
ASSUME IdentityAssumption ==
  /\ Own \in Dirs \ DOMAIN OtherRow /\ IsFiniteSet(Dirs) /\ MaxMoves \in Nat
  /\ None \notin Addresses /\ \A a \in Addresses : Owner[a] # None

VARIABLES
  browser,    \* its vendor; whether its rows carry account ids, addresses, or neither; whether it
              \* runs from a user data directory of its own, or passes for Chrome
  live,       \* the address signed in, or None
  name,       \* the profile's display name
  file,       \* the rows of Local State; none when it is a stub, torn or unreadable
  record,     \* what state.json keeps of the extension
  route,      \* the line while it is connected, or NoLine
  steady,     \* nobody but the person there at the claim has been there since
  claimant,   \* the account id the file showed when the claim was made
  looked,     \* the broker has compared since the file last changed
  moves

identityVars == <<browser, live, name, file, record, route, steady, claimant, looked, moves>>
world == <<browser, live, name, file>>
ghosts == <<steady, claimant, looked>>
NoLine == [on |-> FALSE]

-----------------------------------------------------------------------------
(* Which browser: from the processes above the host                        *)

BrowserNames ==
  LET called == [chrome |-> {<<"google", "chrome">>, <<"chrome.exe">>, <<"chromium">>},
                 brave |-> {<<"brave", "browser">>, <<"brave">>}, edge |-> {<<"msedge">>}]
  IN  [n \in UNION {called[v] : v \in DOMAIN called} |-> CHOOSE v \in DOMAIN called : n \in called[v]]

MaxAncestry == 6

(* The name ends where a token begins with a slash, among the first eight; *)
(* without one it is the first word.                                       *)
NameRead(p) == IF p.absolute /\ Len(p.words) < 8 THEN p.words ELSE <<Head(p.words)>>
VendorOf(p) == IF NameRead(p) \in DOMAIN BrowserNames THEN BrowserNames[NameRead(p)] ELSE None

(* The host is process 1; the first ancestor that is a browser decides,    *)
(* unless the chain ends, or comes back to itself, before one.             *)
Probe(table) ==
  LET Up[l \in 0..MaxAncestry] ==
        IF l = 0 THEN 1 ELSE IF Up[l - 1] \in DOMAIN table THEN table[Up[l - 1]].parent ELSE 0
      Hits == {l \in 0..MaxAncestry - 1 :
                 \A k \in 0..l : Up[k] \in DOMAIN table /\ (k < l => VendorOf(table[Up[k]]) = None)}
      Found == {l \in Hits : VendorOf(table[Up[l]]) # None}
  IN IF Found = {} THEN None ELSE VendorOf(table[Up[CHOOSE l \in Found : TRUE]])

-----------------------------------------------------------------------------
(* What the evidence says                                                  *)

Row(a, n) ==
  CASE browser.rows = "ids" /\ a # None -> [gaia |-> Owner[a], email |-> a, name |-> n]
    [] browser.rows = "addresses" /\ a # None -> [gaia |-> None, email |-> a, name |-> n]
    [] OTHER -> [gaia |-> None, email |-> None, name |-> n]

(* The rows the broker reads.  Only the process table tells it of a user   *)
(* data directory that is not the vendor's own.                            *)
CandidatesFor(vendor, seen) ==
  IF vendor = browser.vendor /\ (seen \/ ~browser.astray) THEN file ELSE Elsewhere

Fingerprint(row, reported) ==
  IF row.gaia # None THEN <<"gaia", row.gaia>>
  ELSE IF row.email # None THEN <<"email", row.email>>
  ELSE IF reported # None THEN <<"email", reported>> ELSE <<"name", row.name>>

NoPrint == <<None, None>>
SameKind(p, q) == p[1] = q[1]

(* Mutant: only the addresses are compared.                               *)
DriftByAddress(print, row, reported) ==
  IF reported # None /\ row.email # None /\ reported # row.email THEN "changed" ELSE "same"

(* The account id outranks everything; then the two addresses; then the    *)
(* claim-time print, when both sides are of one kind.                      *)
Drift(print, row, reported) ==
  LET now == Fingerprint(row, reported)
      both == reported # None /\ row.email # None
  IN IF print[1] = "gaia" /\ row.gaia # None
     THEN IF print[2] = row.gaia THEN "same" ELSE "changed"
     ELSE IF both /\ reported # row.email THEN "changed"
     ELSE IF ~SameKind(print, now) THEN IF both THEN "same" ELSE "unread"
     ELSE IF print = now THEN "same" ELSE "changed"

(* An address matches a row, or a display name that is that address.       *)
MatchByEmail(rows, email) ==
  LET hits == {d \in DOMAIN rows : email # None /\ email \in {rows[d].email, rows[d].name}}
  IN IF Cardinality(hits) = 1 THEN CHOOSE d \in hits : TRUE ELSE None

Contradicted(print, now) == print # NoPrint /\ SameKind(print, now) /\ print # now

-----------------------------------------------------------------------------
(* A registration                                                          *)

Vendor(seen, hint) ==
  CASE seen # None -> seen
    [] seen = None /\ hint # None -> hint
    [] OTHER -> IF record.claimed THEN record.vendor ELSE Unknown

Unclaimed(print) == [claimed |-> FALSE, dir |-> None, print |-> print, drift |-> FALSE, sure |-> TRUE]
Claimed(dir, print, sure) == [claimed |-> TRUE, dir |-> dir, print |-> print, drift |-> FALSE, sure |-> sure]

(* A print that outlived its claim speaks against an address match.        *)
Inferred(rows, print, email) ==
  LET dir == MatchByEmail(rows, email)
  IN IF dir = None THEN Unclaimed(print)
     ELSE LET now == Fingerprint(rows[dir], None)
          IN IF Contradicted(print, now) THEN Unclaimed(print) ELSE Claimed(dir, now, TRUE)

(* An empty list is a file that could not be read; a list without the      *)
(* directory is a profile that went away.  A claim without a print takes   *)
(* what it finds.                                                          *)
Kept(row, email) ==
  LET verdict == Drift(record.print, row, email)
  IN IF verdict = "changed"
     THEN [Unclaimed(NoPrint) EXCEPT !.drift = TRUE]
     ELSE Claimed(record.dir, IF record.print = NoPrint THEN Fingerprint(row, email) ELSE record.print, verdict = "same")

(* Mutant: an empty list is a list without the directory.                  *)
ResolveEmptyAsGone(vendor, seen, email) ==
  LET rows == CandidatesFor(vendor, seen)
  IN IF vendor = Unknown THEN Unclaimed(record.print)
     ELSE IF record.claimed /\ record.vendor = vendor /\ record.dir \in DOMAIN rows THEN Kept(rows[record.dir], email)
          ELSE Inferred(rows, record.print, email)

ResolveIdentity(vendor, seen, email) ==
  LET rows == CandidatesFor(vendor, seen)
  IN IF vendor = Unknown THEN Unclaimed(record.print)
     ELSE IF record.claimed /\ record.vendor = vendor
          THEN IF DOMAIN rows = {} THEN Claimed(record.dir, record.print, FALSE)
               ELSE IF record.dir \in DOMAIN rows THEN Kept(rows[record.dir], email)
               ELSE Inferred(rows, NoPrint, email)
          ELSE Inferred(rows, record.print, email)

-----------------------------------------------------------------------------
(* The line and its name                                                   *)

UnclaimedName == <<"unclaimed", None>>
NoName == <<"none", None>>

(* A claimed line is named after its address, else its display name.       *)
NamedAfter(row) == <<"as", IF row.email # None THEN row.email ELSE row.name>>
DefaultLabelFor(claimed, rows, dir) ==
  IF claimed /\ dir \in DOMAIN rows THEN NamedAfter(rows[dir]) ELSE UnclaimedName

(* Mutant: only the registration that finds the drift says so.             *)
ChangedOnce(who) == who.drift

(* A drop stays on the line until somebody is recognized there again.      *)
Changed(who) == who.drift \/ (record.changed /\ ~who.claimed)

(* A given name goes with the person; a claim honored unread keeps the     *)
(* name it had.                                                            *)
LabelFor(who, rows) ==
  CASE Changed(who) -> UnclaimedName
    [] ~Changed(who) /\ record.custom -> record.label
    [] OTHER -> IF ~who.sure /\ record.label # NoName THEN record.label
                ELSE DefaultLabelFor(who.claimed, rows, who.dir)

(* For the properties: the person the broker reads of in a directory is    *)
(* the one there now.                                                      *)
Settled(rows, dir) ==
  dir = Own /\ rows = file /\ Own \in DOMAIN file /\ file[Own] \in {Row(live, name), Row(None, name)}
IdIn(rows, dir) == IF dir \in DOMAIN rows THEN rows[dir].gaia ELSE None

Registered(seen, hint, email) ==
  LET vendor == Vendor(seen, hint)
      rows == CandidatesFor(vendor, seen # None)
      who == ResolveIdentity(vendor, seen # None, email)
      changed == Changed(who)
      label == LabelFor(who, rows)
      custom == ~changed /\ record.custom
      anew == ~record.claimed \/ record.dir # who.dir \/ record.vendor # vendor
  IN /\ record' = [claimed |-> who.claimed, vendor |-> vendor, dir |-> who.dir, changed |-> changed,
                   print |-> IF changed THEN NoPrint ELSE who.print, custom |-> custom, label |-> label]
     /\ route' = [on |-> TRUE, claimed |-> who.claimed, vendor |-> vendor, seen |-> seen # None, dir |-> who.dir,
                  reported |-> email, changed |-> changed, label |-> label, checked |-> FALSE]
     /\ steady' = (who.claimed /\ IF anew THEN Settled(rows, who.dir) ELSE steady)
     /\ claimant' = IF ~who.claimed THEN None
                    ELSE IF anew \/ record.print = NoPrint THEN IdIn(rows, who.dir) ELSE claimant
     /\ looked' = TRUE

Probes == {Probe(table) : table \in Tables}

(* The process table may not be read in time, the extension may not know   *)
(* its vendor, or be wrong of it, and may not see who is signed in.        *)
Register ==
  \E seen \in Probes, email \in {None, live},
     hint \in {None, browser.vendor} \cup (IF browser.astray THEN {"chrome"} ELSE {}) :
    /\ seen \in {None, browser.vendor}
    /\ Registered(seen, hint, email)
    /\ UNCHANGED <<world, moves>>

Disconnect ==
  /\ route.on /\ route' = NoLine
  /\ UNCHANGED <<world, record, ghosts, moves>>

(* Everything a dropped claim takes along.                                 *)
Dropped ==
  /\ record' = [record EXCEPT !.claimed = FALSE, !.dir = None, !.print = NoPrint, !.changed = TRUE,
                              !.label = UnclaimedName, !.custom = FALSE]
  /\ route' = [route EXCEPT !.claimed = FALSE, !.dir = None, !.changed = TRUE, !.label = UnclaimedName, !.checked = TRUE]
  /\ steady' = FALSE /\ claimant' = None

Rows == CandidatesFor(route.vendor, route.seen)

(* A row that is not there is not compared.                                *)
RouteDrift ==
  IF route.dir \in DOMAIN Rows THEN Drift(record.print, Rows[route.dir], route.reported) ELSE "unread"

(* Once a minute, on the heartbeat.                                        *)
RecheckIdentity ==
  /\ route.on /\ route.claimed /\ ~route.checked
  /\ looked' = TRUE
  /\ IF RouteDrift = "changed" THEN Dropped
     ELSE route' = [route EXCEPT !.checked = TRUE] /\ UNCHANGED <<record, steady, claimant>>
  /\ UNCHANGED <<world, moves>>

MinutePasses ==
  /\ route.on /\ route.claimed /\ route.checked
  /\ route' = [route EXCEPT !.checked = FALSE]
  /\ UNCHANGED <<world, record, ghosts, moves>>

(* By hand: the print is of the row alone, and the address the extension   *)
(* reported at its registration is forgotten.                              *)
ApplyClaim(dir) == [print |-> Fingerprint(Rows[dir], None), reported |-> None]

ClaimProfile ==
  /\ route.on /\ route.vendor # Unknown
  /\ \E dir \in DOMAIN Rows :
    /\ LET patch == ApplyClaim(dir)
           label == IF record.custom THEN route.label ELSE DefaultLabelFor(TRUE, Rows, dir)
       IN /\ record' = [record EXCEPT !.claimed = TRUE, !.vendor = route.vendor, !.dir = dir, !.changed = FALSE,
                                      !.print = patch.print, !.label = label]
          /\ route' = [route EXCEPT !.claimed = TRUE, !.dir = dir, !.changed = FALSE, !.reported = patch.reported,
                                    !.label = label, !.checked = TRUE]
    /\ steady' = Settled(Rows, dir) /\ claimant' = IdIn(Rows, dir)
    /\ UNCHANGED <<world, looked, moves>>

Rename ==
  /\ moves < MaxMoves /\ moves' = moves + 1
  /\ route.on
  /\ route' = [route EXCEPT !.label = <<"given", None>>]
  /\ record' = [record EXCEPT !.label = <<"given", None>>, !.custom = TRUE]
  /\ UNCHANGED <<world, ghosts>>

-----------------------------------------------------------------------------
(* The browser                                                             *)

Moves == moves < MaxMoves /\ moves' = moves + 1

(* Another account, or another address of the same one: only an account id *)
(* tells the two apart.                                                    *)
SignsIn ==
  /\ Moves
  /\ \E a \in Addresses \cup {None} :
       /\ a # live /\ live' = a
       /\ steady' = (steady /\ a # None /\ live # None /\ Owner[a] = Owner[live] /\ record.print[1] = "gaia")
  /\ UNCHANGED <<browser, name, file, record, route, claimant, looked>>

RenamesProfile ==
  /\ Moves
  /\ \E n \in Names : n # name /\ name' = n
  /\ steady' = (steady /\ record.print[1] \in {"gaia", "email"})
  /\ UNCHANGED <<browser, live, file, record, route, claimant, looked>>

WithOwn(row) == [d \in DOMAIN OtherRow \cup {Own} |-> IF d = Own THEN row ELSE OtherRow[d]]

(* The file is a stub, or holds the profile with or without its account,   *)
(* or lists only other profiles.                                           *)
Flush ==
  /\ file' \in {<<>>, OtherRow} \cup {WithOwn(r) : r \in {Row(live, name), Row(None, name)}}
  /\ file' # file
  /\ steady' = (steady /\ file' # OtherRow)
  /\ looked' = FALSE
  /\ UNCHANGED <<browser, live, name, record, route, claimant, moves>>

NewRecord ==
  [claimed |-> FALSE, vendor |-> None, dir |-> None, print |-> NoPrint, changed |-> FALSE, custom |-> FALSE, label |-> NoName]

(* A new installation, or a claim made before prints were kept.            *)
IdentityInit ==
  /\ browser \in [vendor : {"chrome"}, rows : {"ids", "addresses"}, astray : BOOLEAN]
                \cup [vendor : {"brave"}, rows : {"names"}, astray : BOOLEAN]
  /\ live \in {None} \cup Addresses /\ name \in Names
  /\ file = WithOwn(Row(live, name))
  /\ record \in {NewRecord, [NewRecord EXCEPT !.claimed = TRUE, !.vendor = browser.vendor, !.dir = Own,
                                              !.label = DefaultLabelFor(TRUE, file, Own)]}
  /\ route = NoLine
  /\ steady = record.claimed /\ claimant = None /\ looked = FALSE /\ moves = 0

IdentityNext ==
  \/ Register \/ Disconnect \/ RecheckIdentity \/ MinutePasses \/ ClaimProfile \/ Rename
  \/ SignsIn \/ RenamesProfile \/ Flush

IdentitySpec == IdentityInit /\ [][IdentityNext]_identityVars

-----------------------------------------------------------------------------
(* Properties                                                              *)

(* A claim is permanent while the same person is there: no registration    *)
(* and no heartbeat drops it over a file that is late, torn or a stub, a   *)
(* process table that was not read, a renamed account or a cached address  *)
(* from before the claim.  A browser with a user data directory of its own *)
(* is only recognised while its process is seen.                           *)
ClaimsAreKept == [][record.claimed /\ ~record'.claimed => ~steady \/ browser.astray]_identityVars

(* Another account in the claimed directory loses the line: once the       *)
(* broker has looked at a file that names the account, the line is claimed *)
(* only for the account the file named when the claim was made; a browser  *)
(* with a user data directory of its own may be read from another's file.  *)
SwitchIsCaught ==
  ~browser.astray /\ route.on /\ looked /\ route.claimed /\ route.dir = Own /\ Own \in DOMAIN file /\ claimant # None =>
    file[Own].gaia \in {None, claimant}

(* A drop stays on the board, across reconnections and restarts, until the *)
(* line is claimed again.                                                  *)
Line == IF route.on THEN route ELSE record
DropIsRemembered == [][Line.changed /\ ~Line'.changed => Line'.claimed]_identityVars
=============================================================================
