----------------------------- MODULE ProfileProofs -----------------------------
(***************************************************************************)
(* Proofs of what the three parts of MCProfile promise, each of its own    *)
(* specification and for every value of its constants: who is behind a     *)
(* line (Identity), the relay told to a profile and its one tab            *)
(* (KeepAlive), and the pages that show it (BoardPage).                    *)
(***************************************************************************)
EXTENDS Identity, KeepAlive, BoardPage, FiniteSetTheorems, SequenceTheorems, TLAPS

(***************************************************************************)
(* Who is behind the line.                                                 *)
(***************************************************************************)

People == Addresses \cup {None}
RecordFields == {"claimed", "vendor", "dir", "print", "changed", "custom", "label"}
RouteFields == {"on", "claimed", "vendor", "seen", "dir", "reported", "changed", "label", "checked"}

IdentityTypes ==
  /\ browser.vendor \in {"chrome", "brave"} /\ browser.rows \in {"ids", "addresses", "names"}
  /\ live \in People /\ name \in Names
  /\ DOMAIN record = RecordFields
  /\ route.on => DOMAIN route = RouteFields
  /\ Own \in DOMAIN file => \E a \in People, n \in Names : file[Own] = Row(a, n)

(* What the board shows of a connected line is what the store keeps of it. *)
SameLine ==
  route.on =>
    /\ route.claimed <=> record.claimed
    /\ route.changed <=> record.changed
    /\ route.dir = record.dir
    /\ route.claimed => route.vendor = record.vendor

(* A browser with the vendor's own user data directory is never taken for  *)
(* another.                                                                *)
OneVendor ==
  ~browser.astray =>
    /\ record.claimed => record.vendor = browser.vendor
    /\ route.on => route.vendor \in {browser.vendor, Unknown}
    /\ route.on /\ route.claimed => route.vendor = browser.vendor

(* The account a claim was made for is the one its print names.            *)
PrintNames == claimant # None => record.claimed /\ record.print = <<"gaia", claimant>>

LEMMA NoneIsNoPerson == None = "none" /\ Unknown = "unknown" /\ NoPrint = <<"none", "none">>
BY DEF None, Unknown, NoPrint

LEMMA RowSays ==
  ASSUME browser.rows \in {"ids", "addresses", "names"}, NEW a \in People, NEW n
  PROVE  /\ Row(a, n).name = n
         /\ Row(a, n).gaia = IF browser.rows = "ids" /\ a # None THEN Owner[a] ELSE None
         /\ Row(a, n).email = IF browser.rows \in {"ids", "addresses"} /\ a # None THEN a ELSE None
<1>1. CASE browser.rows = "ids" /\ a # None
  <2>1. Row(a, n) = [gaia |-> Owner[a], email |-> a, name |-> n]
    BY <1>1 DEF Row
  <2> QED
    BY <1>1, <2>1
<1>2. CASE browser.rows = "addresses" /\ a # None
  <2>1. Row(a, n) = [gaia |-> None, email |-> a, name |-> n]
    BY <1>2 DEF Row
  <2> QED
    BY <1>2, <2>1
<1>3. CASE a = None \/ browser.rows = "names"
  <2>1. Row(a, n) = [gaia |-> None, email |-> None, name |-> n]
    BY <1>3 DEF Row
  <2> QED
    BY <1>3, <2>1
<1> QED
  BY <1>1, <1>2, <1>3

LEMMA OwnersAreNamed == \A a \in Addresses : a # None /\ Owner[a] # None
BY IdentityAssumption

(* What a registration finds, field by field: a claim that stays keeps its *)
(* directory, and its print if it had one; a new one takes its print from  *)
(* the row it was made for.                                                *)
Stays(who, rows, email) ==
  /\ who.dir = record.dir
  /\ \/ DOMAIN rows = {} /\ who.print = record.print
     \/ /\ record.dir \in DOMAIN rows /\ Drift(record.print, rows[record.dir], email) # "changed"
        /\ who.print = IF record.print = NoPrint THEN Fingerprint(rows[record.dir], email) ELSE record.print
IsNew(who, rows) == who.dir \in DOMAIN rows /\ who.print = Fingerprint(rows[who.dir], None)

Identified(who, vendor, rows, email) ==
  who.claimed =>
    /\ ~who.drift /\ vendor # Unknown
    /\ IF record.claimed /\ record.vendor = vendor /\ (DOMAIN rows = {} \/ record.dir \in DOMAIN rows)
       THEN Stays(who, rows, email) ELSE IsNew(who, rows)

(* A claim on a list that still has its directory is lost to drift alone.  *)
HoldsOn(who, vendor, rows, email) ==
  /\ vendor # Unknown /\ record.claimed /\ record.vendor = vendor
  /\ \/ DOMAIN rows = {}
     \/ record.dir \in DOMAIN rows /\ Drift(record.print, rows[record.dir], email) # "changed"
  => who.claimed

LEMMA MatchIsARow ==
  ASSUME NEW rows, NEW email, MatchByEmail(rows, email) # None
  PROVE  MatchByEmail(rows, email) \in DOMAIN rows
<1> DEFINE hits == {d \in DOMAIN rows : email # None /\ email \in {rows[d].email, rows[d].name}}
<1>1. Cardinality(hits) = 1 /\ MatchByEmail(rows, email) = CHOOSE d \in hits : TRUE
  BY DEF MatchByEmail
<1>2. hits # {}
  BY <1>1, FS_EmptySet
<1>3. (CHOOSE d \in hits : TRUE) \in hits
  BY <1>2
<1> QED
  BY <1>1, <1>3

LEMMA InferredIs ==
  ASSUME NEW rows, NEW print, NEW email
  PROVE  LET who == Inferred(rows, print, email)
         IN  who.claimed => ~who.drift /\ IsNew(who, rows)
<1> DEFINE dir == MatchByEmail(rows, email)
           now == Fingerprint(rows[dir], None)
           who == Inferred(rows, print, email)
<1>1. who = IF dir = None THEN Unclaimed(print)
            ELSE IF Contradicted(print, now) THEN Unclaimed(print) ELSE Claimed(dir, now, TRUE)
  BY DEF Inferred
<1>2. dir # None => dir \in DOMAIN rows
  BY MatchIsARow
<1> HIDE DEF dir, who
<1>3. CASE who = Unclaimed(print)
  <2>1. who.claimed = FALSE
    BY <1>3 DEF Unclaimed
  <2> QED
    BY <2>1 DEF who
<1>4. CASE dir # None /\ who = Claimed(dir, now, TRUE)
  <2>1. ~who.drift /\ who.dir = dir /\ who.print = now
    BY <1>4 DEF Claimed
  <2> QED
    BY <1>2, <1>4, <2>1 DEF IsNew, who
<1> QED
  BY <1>1, <1>3, <1>4

LEMMA ResolvedIs ==
  ASSUME NEW vendor, NEW seen, NEW email
  PROVE  LET who == ResolveIdentity(vendor, seen, email)
             rows == CandidatesFor(vendor, seen)
         IN  Identified(who, vendor, rows, email) /\ HoldsOn(who, vendor, rows, email)
<1> DEFINE rows == CandidatesFor(vendor, seen)
           who == ResolveIdentity(vendor, seen, email)
<1>1. who = IF vendor = Unknown THEN Unclaimed(record.print)
            ELSE IF record.claimed /\ record.vendor = vendor
                 THEN IF DOMAIN rows = {} THEN Claimed(record.dir, record.print, FALSE)
                      ELSE IF record.dir \in DOMAIN rows THEN Kept(rows[record.dir], email)
                      ELSE Inferred(rows, NoPrint, email)
                 ELSE Inferred(rows, record.print, email)
  BY DEF ResolveIdentity
<1> HIDE DEF rows, who
<1>2. CASE vendor = Unknown
  <2>1. who = Unclaimed(record.print)
    BY <1>1, <1>2
  <2>2. who.claimed = FALSE
    BY <2>1 DEF Unclaimed
  <2> QED
    BY <1>2, <2>2 DEF Identified, HoldsOn, rows, who
<1>3. CASE vendor # Unknown /\ record.claimed /\ record.vendor = vendor /\ DOMAIN rows = {}
  <2>1. who = Claimed(record.dir, record.print, FALSE)
    BY <1>1, <1>3
  <2>2. who.claimed /\ who.dir = record.dir /\ ~who.drift /\ who.print = record.print
    BY <2>1 DEF Claimed
  <2> QED
    BY <1>3, <2>2 DEF Identified, HoldsOn, Stays, rows, who
<1>4. CASE vendor # Unknown /\ record.claimed /\ record.vendor = vendor /\ DOMAIN rows # {} /\ record.dir \in DOMAIN rows
  <2> DEFINE verdict == Drift(record.print, rows[record.dir], email)
             print == IF record.print = NoPrint THEN Fingerprint(rows[record.dir], email) ELSE record.print
  <2>1. who = IF verdict = "changed" THEN [Unclaimed(NoPrint) EXCEPT !.drift = TRUE]
              ELSE Claimed(record.dir, print, verdict = "same")
    BY <1>1, <1>4 DEF Kept
  <2>2. CASE verdict = "changed"
    <3>1. who.claimed = FALSE
      BY <2>1, <2>2 DEF Unclaimed
    <3> QED
      BY <1>4, <2>2, <3>1 DEF Identified, HoldsOn, rows, who
  <2>3. CASE verdict # "changed"
    <3>1. who = Claimed(record.dir, print, verdict = "same")
      BY <2>1, <2>3
    <3>2. who.claimed /\ who.dir = record.dir /\ ~who.drift /\ who.print = print
      BY <3>1 DEF Claimed
    <3> QED
      BY <1>4, <2>3, <3>2 DEF Identified, HoldsOn, Stays, rows, who
  <2> QED
    BY <2>2, <2>3
<1>5. CASE vendor # Unknown /\ ~(record.claimed /\ record.vendor = vendor /\ (DOMAIN rows = {} \/ record.dir \in DOMAIN rows))
  <2>1. PICK p \in {NoPrint, record.print} : who = Inferred(rows, p, email)
    BY <1>1, <1>5
  <2>2. who.claimed => ~who.drift /\ IsNew(who, rows)
    BY <2>1, InferredIs
  <2> QED
    BY <1>5, <2>2 DEF Identified, HoldsOn, rows, who
<1> QED
  BY <1>2, <1>3, <1>4, <1>5

(* The print stands for the person there now, and for whatever the file    *)
(* may say of them: with an account id, of any address of that account;    *)
(* else of the one address; else of the one display name.                  *)
StandsFor(print) ==
  \/ /\ browser.rows = "ids" /\ live # None /\ print = <<"gaia", Owner[live]>>
     /\ Own \in DOMAIN file =>
          \E a \in People, n \in Names : file[Own] = Row(a, n) /\ (a # None => Owner[a] = Owner[live])
  \/ /\ live # None /\ print = <<"email", live>>
     /\ Own \in DOMAIN file => \E n \in Names : file[Own] \in {Row(live, n), Row(None, n)}
  \/ /\ print \in {NoPrint, <<"name", name>>}
     /\ Own \in DOMAIN file => file[Own] \in {Row(live, name), Row(None, name)}

SamePerson ==
  /\ record.dir = Own /\ (DOMAIN file = {} \/ Own \in DOMAIN file)
  /\ StandsFor(record.print)
  /\ route.on /\ record.print[1] # "gaia" => route.reported \in {None, live}

(* While nobody else has been there the claim stands, and stands for the   *)
(* person there.                                                           *)
Steadiness == steady => record.claimed /\ (~browser.astray => SamePerson)

IdentityInv == IdentityTypes /\ SameLine /\ OneVendor /\ PrintNames /\ SwitchIsCaught /\ Steadiness

LEMMA PrintsStand ==
  ASSUME IdentityTypes, Own \in DOMAIN file, file[Own] \in {Row(live, name), Row(None, name)},
         NEW reported \in {None, live}
  PROVE  StandsFor(Fingerprint(file[Own], reported))
<1> DEFINE row == file[Own]
           print == Fingerprint(row, reported)
<1>1. browser.rows \in {"ids", "addresses", "names"} /\ live \in People /\ None \in People /\ name \in Names
  BY DEF IdentityTypes, People
<1>2. PICK a \in {live, None} : row = Row(a, name)
  OBVIOUS
<1>3. /\ row.name = name
      /\ row.gaia = IF browser.rows = "ids" /\ a # None THEN Owner[a] ELSE None
      /\ row.email = IF browser.rows \in {"ids", "addresses"} /\ a # None THEN a ELSE None
  BY <1>1, <1>2, RowSays
<1>4. print = IF row.gaia # None THEN <<"gaia", row.gaia>>
              ELSE IF row.email # None THEN <<"email", row.email>>
              ELSE IF reported # None THEN <<"email", reported>> ELSE <<"name", row.name>>
  BY DEF Fingerprint
<1> HIDE DEF row, print
<1>5. row \in {Row(live, name), Row(None, name)} /\ row = file[Own]
  BY DEF row
<1>6. CASE row.gaia # None
  <2>1. browser.rows = "ids" /\ a = live /\ live # None /\ print = <<"gaia", Owner[live]>>
    BY <1>3, <1>4, <1>6
  <2>2. StandsFor(print)
    BY <1>1, <1>2, <1>5, <2>1 DEF StandsFor
  <2> QED
    BY <2>2 DEF print, row
<1>7. CASE row.gaia = None /\ (row.email # None \/ reported # None)
  <2>1. live # None /\ print = <<"email", live>>
    BY <1>3, <1>4, <1>7
  <2>2. StandsFor(print)
    BY <1>1, <1>5, <2>1 DEF StandsFor
  <2> QED
    BY <2>2 DEF print, row
<1>8. CASE row.gaia = None /\ row.email = None /\ reported = None
  <2>1. print = <<"name", name>>
    BY <1>3, <1>4, <1>8
  <2>2. StandsFor(print)
    BY <1>5, <2>1 DEF StandsFor
  <2> QED
    BY <2>2 DEF print, row
<1> QED
  BY <1>6, <1>7, <1>8

(* The broker finds no drift in a line whose print stands.                 *)
LEMMA NoDriftFound ==
  ASSUME IdentityTypes, NEW print, StandsFor(print), Own \in DOMAIN file,
         NEW reported, print[1] # "gaia" => reported \in {None, live}
  PROVE  Drift(print, file[Own], reported) # "changed"
<1> DEFINE row == file[Own]
           now == Fingerprint(row, reported)
           both == reported # None /\ row.email # None
<1>1. browser.rows \in {"ids", "addresses", "names"} /\ live \in People /\ None \in People /\ name \in Names
  BY DEF IdentityTypes, People
<1>2. Drift(print, row, reported) =
        IF print[1] = "gaia" /\ row.gaia # None
        THEN IF print[2] = row.gaia THEN "same" ELSE "changed"
        ELSE IF both /\ reported # row.email THEN "changed"
        ELSE IF print[1] # now[1] THEN IF both THEN "same" ELSE "unread"
        ELSE IF print = now THEN "same" ELSE "changed"
  BY DEF Drift, SameKind
<1>3. now = IF row.gaia # None THEN <<"gaia", row.gaia>>
            ELSE IF row.email # None THEN <<"email", row.email>>
            ELSE IF reported # None THEN <<"email", reported>> ELSE <<"name", row.name>>
  BY DEF Fingerprint
<1> HIDE DEF now
<1>4. CASE browser.rows = "ids" /\ live # None /\ print = <<"gaia", Owner[live]>>
           /\ \E a \in People, n \in Names : row = Row(a, n) /\ (a # None => Owner[a] = Owner[live])
  <2>1. PICK a \in People, n \in Names : row = Row(a, n) /\ (a # None => Owner[a] = Owner[live])
    BY <1>4
  <2>2. /\ row.gaia = IF a # None THEN Owner[a] ELSE None
        /\ row.email = IF a # None THEN a ELSE None
    BY <1>1, <1>4, <2>1, RowSays
  <2>3. CASE a # None
    <3>1. row.gaia = Owner[live] /\ row.gaia # None
      BY <1>1, <2>1, <2>2, <2>3, OwnersAreNamed DEF People
    <3> QED
      BY <1>2, <1>4, <3>1
  <2>4. CASE a = None
    <3>1. row.gaia = None /\ row.email = None
      BY <2>2, <2>4
    <3>2. now[1] # "gaia"
      BY <1>3, <3>1
    <3> QED
      BY <1>2, <1>4, <3>1, <3>2
  <2> QED
    BY <2>3, <2>4
<1>5. CASE live # None /\ print = <<"email", live>> /\ \E n \in Names : row \in {Row(live, n), Row(None, n)}
  <2>1. PICK a \in {live, None}, n \in Names : row = Row(a, n)
    BY <1>5
  <2>2. row.email \in {None, live}
    BY <1>1, <2>1, RowSays
  <2>3. reported \in {None, live}
    BY <1>5
  <2>4. now[1] = "email" => now = <<"email", live>>
    BY <1>3, <2>2, <2>3
  <2> QED
    BY <1>2, <1>5, <2>2, <2>3, <2>4
<1>6. CASE print \in {NoPrint, <<"name", name>>} /\ row \in {Row(live, name), Row(None, name)}
  <2>1. PICK a \in {live, None} : row = Row(a, name)
    BY <1>6
  <2>2. row.email \in {None, live} /\ row.name = name
    BY <1>1, <2>1, RowSays
  <2>3. reported \in {None, live} /\ print[1] \in {"none", "name"}
    BY <1>6, NoneIsNoPerson
  <2>4. now[1] # "none" /\ (now[1] = "name" => now = <<"name", name>>)
    BY <1>3, <2>2
  <2>5. print[1] = now[1] => print = now
    BY <1>6, <2>3, <2>4, NoneIsNoPerson
  <2> QED
    BY <1>2, <2>2, <2>3, <2>5
<1> QED
  BY <1>4, <1>5, <1>6 DEF StandsFor

(* The vendor a registration settles on.                                   *)
LEMMA VendorIs ==
  ASSUME IdentityTypes, OneVendor, ~browser.astray,
         NEW seen \in {None, browser.vendor}, NEW hint \in {None, browser.vendor}
  PROVE  /\ Vendor(seen, hint) \in {browser.vendor, Unknown}
         /\ record.claimed => Vendor(seen, hint) = browser.vendor
         /\ browser.vendor \notin {None, Unknown}
<1>1. browser.vendor \notin {None, Unknown}
  BY NoneIsNoPerson DEF IdentityTypes
<1>2. CASE seen # None
  BY <1>1, <1>2 DEF Vendor
<1>3. CASE seen = None /\ hint # None
  BY <1>1, <1>3 DEF Vendor
<1>4. CASE seen = None /\ hint = None
  <2>1. Vendor(seen, hint) = IF record.claimed THEN record.vendor ELSE Unknown
    BY <1>4 DEF Vendor
  <2> QED
    BY <1>1, <2>1 DEF OneVendor
<1> QED
  BY <1>2, <1>3, <1>4

LEMMA OwnFile ==
  ASSUME ~browser.astray, NEW seen
  PROVE  CandidatesFor(browser.vendor, seen) = file
BY DEF CandidatesFor

(* What a registration does, once it knows who it is.                      *)
Registers(who, vendor, rows, email) ==
  LET changed == Changed(who)
      anew == ~record.claimed \/ record.dir # who.dir \/ record.vendor # vendor
  IN /\ DOMAIN record' = RecordFields /\ DOMAIN route' = RouteFields
     /\ record'.claimed <=> who.claimed
     /\ record'.vendor = vendor /\ record'.dir = who.dir /\ (record'.changed <=> changed)
     /\ record'.print = IF changed THEN NoPrint ELSE who.print
     /\ route'.on /\ (route'.claimed <=> who.claimed) /\ route'.vendor = vendor /\ route'.dir = who.dir
     /\ route'.reported = email /\ (route'.changed <=> changed)
     /\ steady' => who.claimed /\ IF anew THEN Settled(rows, who.dir) ELSE steady
     /\ claimant' = IF ~who.claimed THEN None
                    ELSE IF anew \/ record.print = NoPrint THEN IdIn(rows, who.dir) ELSE claimant
     /\ looked' = TRUE

LEMMA RegistersIs ==
  ASSUME NEW seen, NEW hint, NEW email, Registered(seen, hint, email)
  PROVE  LET vendor == Vendor(seen, hint)
         IN  Registers(ResolveIdentity(vendor, seen # None, email), vendor, CandidatesFor(vendor, seen # None), email)
<1> DEFINE vendor == Vendor(seen, hint)
           rows == CandidatesFor(vendor, seen # None)
           who == ResolveIdentity(vendor, seen # None, email)
           changed == Changed(who)
           label == LabelFor(who, rows)
           custom == ~changed /\ record.custom
           anew == ~record.claimed \/ record.dir # who.dir \/ record.vendor # vendor
<1>1. /\ record' = [claimed |-> who.claimed, vendor |-> vendor, dir |-> who.dir, changed |-> changed,
                   print |-> IF changed THEN NoPrint ELSE who.print, custom |-> custom, label |-> label]
      /\ route' = [on |-> TRUE, claimed |-> who.claimed, vendor |-> vendor, seen |-> seen # None, dir |-> who.dir,
                  reported |-> email, changed |-> changed, label |-> label, checked |-> FALSE]
      /\ steady' = (who.claimed /\ IF anew THEN Settled(rows, who.dir) ELSE steady)
      /\ claimant' = IF ~who.claimed THEN None
                     ELSE IF anew \/ record.print = NoPrint THEN IdIn(rows, who.dir) ELSE claimant
      /\ looked' = TRUE
  BY DEF Registered
<1> HIDE DEF vendor, rows, who, changed, label, custom
<1>2. /\ DOMAIN record' = RecordFields /\ DOMAIN route' = RouteFields
      /\ record'.claimed = who.claimed
      /\ record'.vendor = vendor /\ record'.dir = who.dir /\ record'.changed = changed
      /\ record'.print = IF changed THEN NoPrint ELSE who.print
      /\ route'.on = TRUE /\ route'.claimed = who.claimed /\ route'.vendor = vendor /\ route'.dir = who.dir
      /\ route'.reported = email /\ route'.changed = changed
  BY <1>1 DEF RecordFields, RouteFields
<1> QED
  BY <1>1, <1>2 DEF Registers, changed, who, rows, vendor

LEMMA ChangedIs ==
  ASSUME NEW who, who.claimed => ~who.drift
  PROVE  who.claimed => ~Changed(who)
BY DEF Changed

(* The facts of one registration.                                          *)
Registration(who, vendor, rows, email) ==
  /\ email \in {None, live}
  /\ Identified(who, vendor, rows, email) /\ HoldsOn(who, vendor, rows, email)
  /\ Registers(who, vendor, rows, email)
  /\ ~browser.astray =>
       /\ vendor \in {browser.vendor, Unknown} /\ (record.claimed => vendor = browser.vendor)
       /\ browser.vendor # Unknown
       /\ vendor = browser.vendor => rows = file

LEMMA RegistrationIs ==
  ASSUME IdentityTypes, OneVendor, Register
  PROVE  /\ \E who, vendor, rows, email : Registration(who, vendor, rows, email)
         /\ UNCHANGED world
<1>1. PICK seen \in Probes, email \in {None, live},
           hint \in {None, browser.vendor} \cup (IF browser.astray THEN {"chrome"} ELSE {}) :
        seen \in {None, browser.vendor} /\ Registered(seen, hint, email)
  BY DEF Register
<1> DEFINE vendor == Vendor(seen, hint)
           rows == CandidatesFor(vendor, seen # None)
           who == ResolveIdentity(vendor, seen # None, email)
<1>2. Identified(who, vendor, rows, email) /\ HoldsOn(who, vendor, rows, email)
  BY ResolvedIs
<1>3. Registers(who, vendor, rows, email)
  BY <1>1, RegistersIs
<1>4. ASSUME ~browser.astray
      PROVE  /\ vendor \in {browser.vendor, Unknown} /\ (record.claimed => vendor = browser.vendor)
             /\ browser.vendor # Unknown
             /\ vendor = browser.vendor => rows = file
  <2>1. hint \in {None, browser.vendor}
    BY <1>4
  <2>2. /\ vendor \in {browser.vendor, Unknown} /\ (record.claimed => vendor = browser.vendor)
        /\ browser.vendor # Unknown
    BY <1>1, <1>4, <2>1, VendorIs
  <2> QED
    BY <1>4, <2>2, OwnFile
<1> HIDE DEF vendor, rows, who
<1>5. Registration(who, vendor, rows, email)
  BY <1>1, <1>2, <1>3, <1>4 DEF Registration
<1> QED
  BY <1>5 DEF Register

LEMMA RegisterKeeps ==
  ASSUME IdentityInv, Register
  PROVE  IdentityInv' /\ (steady /\ ~browser.astray => record'.claimed)
<1>1. IdentityTypes /\ SameLine /\ OneVendor /\ PrintNames /\ SwitchIsCaught /\ Steadiness
  BY DEF IdentityInv
<1>2. PICK who, vendor, rows, email : Registration(who, vendor, rows, email)
  BY <1>1, RegistrationIs
<1>3. UNCHANGED <<browser, live, name, file>>
  BY <1>1, RegistrationIs DEF world
<1>4. /\ email \in {None, live}
      /\ Identified(who, vendor, rows, email) /\ HoldsOn(who, vendor, rows, email)
      /\ ~browser.astray =>
           /\ vendor \in {browser.vendor, Unknown} /\ (record.claimed => vendor = browser.vendor)
           /\ browser.vendor # Unknown
           /\ vendor = browser.vendor => rows = file
  BY <1>2 DEF Registration
<1> DEFINE changed == Changed(who)
           anew == ~record.claimed \/ record.dir # who.dir \/ record.vendor # vendor
<1>5. /\ DOMAIN record' = RecordFields /\ DOMAIN route' = RouteFields
      /\ record'.claimed <=> who.claimed
      /\ record'.vendor = vendor /\ record'.dir = who.dir /\ (record'.changed <=> changed)
      /\ record'.print = IF changed THEN NoPrint ELSE who.print
      /\ route'.on /\ (route'.claimed <=> who.claimed) /\ route'.vendor = vendor /\ route'.dir = who.dir
      /\ route'.reported = email /\ (route'.changed <=> changed)
      /\ steady' => who.claimed /\ IF anew THEN Settled(rows, who.dir) ELSE steady
      /\ claimant' = IF ~who.claimed THEN None
                     ELSE IF anew \/ record.print = NoPrint THEN IdIn(rows, who.dir) ELSE claimant
  BY <1>2 DEF Registration, Registers
<1>6. who.claimed => ~changed /\ vendor # Unknown
  BY <1>4, ChangedIs DEF Identified
<1> HIDE DEF changed
<1>7. IdentityTypes' /\ SameLine'
  BY <1>1, <1>3, <1>5 DEF IdentityTypes, SameLine, Row
<1>8. OneVendor'
  BY <1>3, <1>4, <1>5, <1>6 DEF OneVendor
<1>9. CASE ~who.claimed
  <2>1. claimant' = None /\ ~record'.claimed /\ ~route'.claimed /\ ~steady'
    BY <1>5, <1>9
  <2>2. ~(steady /\ ~browser.astray)
    <3>1. SUFFICES ASSUME steady, ~browser.astray PROVE FALSE
      OBVIOUS
    <3>2. record.claimed /\ record.vendor = browser.vendor /\ vendor = browser.vendor /\ rows = file /\ SamePerson
      BY <1>1, <1>4, <3>1 DEF Steadiness, OneVendor
    <3>3. Own \in DOMAIN file => Drift(record.print, file[Own], email) # "changed"
      BY <1>1, <1>4, <3>2, NoDriftFound DEF SamePerson
    <3> QED
      BY <1>4, <1>9, <3>1, <3>2, <3>3 DEF HoldsOn, SamePerson
  <2> QED
    BY <1>7, <1>8, <2>1, <2>2 DEF IdentityInv, PrintNames, SwitchIsCaught, Steadiness
<1>10. CASE who.claimed /\ record.claimed /\ record.vendor = vendor /\ (DOMAIN rows = {} \/ record.dir \in DOMAIN rows)
  <2>1. Stays(who, rows, email) /\ ~anew
    BY <1>4, <1>10 DEF Identified, Stays
  <2>2. record'.print = who.print /\ record'.claimed /\ route'.claimed /\ record'.dir = record.dir
    BY <1>5, <1>6, <1>10, <2>1 DEF Stays
  <2>3. claimant' = IF record.print = NoPrint THEN IdIn(rows, record.dir) ELSE claimant
    BY <1>5, <1>10, <2>1 DEF Stays
  <2>4. CASE DOMAIN rows = {}
    <3>1. record'.print = record.print
      BY <2>1, <2>2, <2>4 DEF Stays
    <3>2. claimant' \in {None, claimant}
      BY <2>3, <2>4 DEF IdIn
    <3>3. PrintNames'
      BY <1>1, <2>2, <3>1, <3>2 DEF PrintNames
    <3>4. SwitchIsCaught'
      <4>1. ~browser.astray => DOMAIN file = {}
        BY <1>4, <1>10, <2>4
      <4> QED
        BY <1>3, <4>1 DEF SwitchIsCaught
    <3>5. ASSUME steady' PROVE record'.claimed /\ (~browser'.astray => SamePerson')
      <4>1. steady
        BY <1>5, <2>1, <3>5
      <4>2. ASSUME ~browser.astray PROVE SamePerson'
        BY <1>1, <1>3, <1>4, <1>5, <2>2, <3>1, <4>1, <4>2 DEF Steadiness, SamePerson, StandsFor, Row
      <4> QED
        BY <1>3, <2>2, <4>2
    <3> QED
      BY <1>7, <1>8, <2>2, <3>3, <3>4, <3>5 DEF IdentityInv, Steadiness
  <2>5. CASE DOMAIN rows # {}
    <3> DEFINE row == rows[record.dir]
    <3>1. /\ record.dir \in DOMAIN rows /\ Drift(record.print, row, email) # "changed"
          /\ record'.print = IF record.print = NoPrint THEN Fingerprint(row, email) ELSE record.print
      BY <2>1, <2>2, <2>5 DEF Stays
    <3>2. claimant' = IF record.print = NoPrint THEN row.gaia ELSE claimant
      BY <2>3, <3>1 DEF IdIn
    <3> HIDE DEF row
    <3>3. PrintNames'
      BY <1>1, <2>2, <3>1, <3>2 DEF PrintNames, Fingerprint
    <3>4. claimant' # None => row.gaia \in {None, claimant'}
      <4>1. CASE record.print = NoPrint
        BY <3>2, <4>1
      <4>2. CASE record.print # NoPrint /\ claimant # None
        <5>1. record.print = <<"gaia", claimant>>
          BY <1>1, <4>2 DEF PrintNames
        <5>2. row.gaia # None => row.gaia = claimant
          BY <3>1, <5>1 DEF Drift
        <5> QED
          BY <3>2, <4>2, <5>2
      <4> QED
        BY <3>2, <4>1, <4>2
    <3>5. SwitchIsCaught'
      BY <1>3, <1>4, <1>5, <1>10, <2>2, <3>4 DEF SwitchIsCaught, row
    <3>6. ASSUME steady' PROVE record'.claimed /\ (~browser'.astray => SamePerson')
      <4>1. steady
        BY <1>5, <2>1, <3>6
      <4>2. ASSUME ~browser.astray PROVE SamePerson'
        <5>1. SamePerson /\ rows = file /\ record.dir = Own /\ row = file[Own] /\ Own \in DOMAIN file
          BY <1>1, <1>4, <1>10, <3>1, <4>1, <4>2 DEF Steadiness, SamePerson, row
        <5>2. StandsFor(record'.print)
          <6>1. CASE record.print = NoPrint
            <7>1. file[Own] \in {Row(live, name), Row(None, name)}
              BY <5>1, <6>1, NoneIsNoPerson DEF SamePerson, StandsFor
            <7> QED
              BY <1>1, <1>4, <3>1, <5>1, <6>1, <7>1, PrintsStand
          <6>2. CASE record.print # NoPrint
            BY <3>1, <5>1, <6>2 DEF SamePerson
          <6> QED
            BY <6>1, <6>2
        <5>3. StandsFor(record.print)'
          BY <1>3, <5>2 DEF StandsFor, Row
        <5> QED
          BY <1>3, <1>4, <1>5, <2>2, <5>1, <5>3 DEF SamePerson
      <4> QED
        BY <1>3, <2>2, <4>2
    <3> QED
      BY <1>7, <1>8, <2>2, <3>3, <3>5, <3>6 DEF IdentityInv, Steadiness
  <2> QED
    BY <2>4, <2>5
<1>11. CASE who.claimed /\ ~(record.claimed /\ record.vendor = vendor /\ (DOMAIN rows = {} \/ record.dir \in DOMAIN rows))
  <2>1. IsNew(who, rows)
    BY <1>4, <1>11 DEF Identified
  <2>2. anew
    BY <1>11, <2>1 DEF IsNew
  <2>3. record'.print = who.print /\ record'.claimed /\ route'.claimed /\ record'.dir = who.dir
    BY <1>5, <1>6, <1>11
  <2>4. claimant' = rows[who.dir].gaia
    BY <1>5, <1>11, <2>1, <2>2 DEF IsNew, IdIn
  <2>5. PrintNames'
    BY <2>1, <2>3, <2>4 DEF PrintNames, IsNew, Fingerprint
  <2>6. SwitchIsCaught'
    BY <1>3, <1>4, <1>5, <1>6, <1>11, <2>4 DEF SwitchIsCaught
  <2>7. ASSUME steady' PROVE record'.claimed /\ (~browser'.astray => SamePerson')
    <3>1. Settled(rows, who.dir)
      BY <1>5, <2>2, <2>7
    <3>2. who.dir = Own /\ rows = file /\ Own \in DOMAIN file /\ file[Own] \in {Row(live, name), Row(None, name)}
      BY <3>1 DEF Settled
    <3>3. StandsFor(record'.print)
      BY <1>1, <2>1, <2>3, <3>2, PrintsStand DEF IsNew
    <3>4. StandsFor(record.print)'
      BY <1>3, <3>3 DEF StandsFor, Row
    <3> QED
      BY <1>3, <1>4, <1>5, <2>3, <3>2, <3>4 DEF SamePerson
  <2> QED
    BY <1>7, <1>8, <2>3, <2>5, <2>6, <2>7 DEF IdentityInv, Steadiness
<1> QED
  BY <1>9, <1>10, <1>11

LEMMA IdentityInitially == IdentityInit => IdentityInv
<1> SUFFICES ASSUME IdentityInit PROVE IdentityInv
  OBVIOUS
<1>1. /\ browser.vendor \in {"chrome", "brave"} /\ browser.rows \in {"ids", "addresses", "names"}
      /\ live \in People /\ name \in Names
      /\ file = WithOwn(Row(live, name)) /\ ~route.on /\ claimant = None /\ (steady <=> record.claimed)
  BY DEF IdentityInit, People, NoLine
<1>2. Own \in DOMAIN file /\ file[Own] = Row(live, name)
  BY <1>1 DEF WithOwn
<1>3. /\ DOMAIN record = RecordFields /\ record.print = NoPrint
      /\ record.claimed => record.dir = Own /\ record.vendor = browser.vendor
  <2>1. /\ DOMAIN NewRecord = RecordFields /\ NewRecord.print = NoPrint /\ NewRecord.claimed = FALSE
    BY DEF NewRecord, RecordFields
  <2>2. CASE record = NewRecord
    BY <2>1, <2>2
  <2>3. CASE record # NewRecord
    <3> DEFINE l == DefaultLabelFor(TRUE, file, Own)
    <3>1. record = [NewRecord EXCEPT !.claimed = TRUE, !.vendor = browser.vendor, !.dir = Own, !.label = l]
      BY <2>3 DEF IdentityInit
    <3> HIDE DEF l
    <3> QED
      BY <2>1, <3>1 DEF RecordFields
  <2> QED
    BY <2>2, <2>3
<1>5. StandsFor(record.print)
  BY <1>2, <1>3 DEF StandsFor
<1> QED
  BY <1>1, <1>2, <1>3, <1>5 DEF IdentityInv, IdentityTypes, SameLine, OneVendor, PrintNames, SwitchIsCaught,
                                 Steadiness, SamePerson

LEMMA SamePersonStill ==
  ASSUME SamePerson, UNCHANGED <<browser, live, name, file>>,
         record'.print = record.print, record'.dir = record.dir,
         route'.on => route.on /\ route'.reported = route.reported
  PROVE  SamePerson'
<1>1. StandsFor(record.print)'
  BY DEF SamePerson, StandsFor, Row
<1> QED
  BY <1>1 DEF SamePerson

LEMMA DisconnectKeeps ==
  ASSUME IdentityInv, Disconnect
  PROVE  IdentityInv'
<1>1. ~route'.on /\ UNCHANGED <<browser, live, name, file, record, steady, claimant>>
  BY DEF Disconnect, NoLine, world, ghosts
<1>2. Steadiness'
  BY <1>1, SamePersonStill DEF IdentityInv, Steadiness
<1> QED
  BY <1>1, <1>2 DEF IdentityInv, IdentityTypes, SameLine, OneVendor, PrintNames, SwitchIsCaught, Row

LEMMA DroppedKeeps ==
  ASSUME IdentityInv, route.on, Dropped, UNCHANGED world
  PROVE  IdentityInv' /\ ~steady'
<1>1. DOMAIN record = RecordFields /\ DOMAIN route = RouteFields
  BY DEF IdentityInv, IdentityTypes
<1>2. /\ DOMAIN record' = RecordFields /\ record'.claimed = FALSE /\ record'.dir = None /\ record'.changed = TRUE
      /\ record'.vendor = record.vendor
  BY <1>1 DEF Dropped, RecordFields
<1>3. /\ DOMAIN route' = RouteFields /\ route'.claimed = FALSE /\ route'.dir = None /\ route'.changed = TRUE
      /\ route'.vendor = route.vendor
  BY <1>1 DEF Dropped, RouteFields
<1> QED
  BY <1>2, <1>3 DEF Dropped, world, IdentityInv, IdentityTypes, SameLine, OneVendor, PrintNames, SwitchIsCaught,
                    Steadiness, Row

(* Nobody is dropped whose print stands.                                   *)
LEMMA SteadyIsNotDropped ==
  ASSUME IdentityInv, route.on, route.claimed, steady, ~browser.astray
  PROVE  RouteDrift # "changed"
<1>1. /\ IdentityTypes /\ SamePerson /\ route.dir = Own /\ route.vendor = browser.vendor
  BY DEF IdentityInv, Steadiness, SamePerson, SameLine, OneVendor
<1>2. Rows = file
  BY <1>1, OwnFile DEF Rows
<1>3. CASE Own \in DOMAIN file
  <2>1. Drift(record.print, file[Own], route.reported) # "changed"
    BY <1>1, <1>3, NoDriftFound DEF SamePerson
  <2> QED
    BY <1>1, <1>2, <1>3, <2>1 DEF RouteDrift
<1>4. CASE Own \notin DOMAIN file
  BY <1>1, <1>2, <1>4 DEF RouteDrift
<1> QED
  BY <1>3, <1>4

LEMMA RecheckKeeps ==
  ASSUME IdentityInv, RecheckIdentity
  PROVE  IdentityInv' /\ (steady /\ ~browser.astray => (record'.claimed <=> record.claimed))
<1>1. route.on /\ route.claimed /\ UNCHANGED world
  BY DEF RecheckIdentity
<1>2. CASE RouteDrift = "changed"
  <2>1. Dropped
    BY <1>2 DEF RecheckIdentity
  <2> QED
    BY <1>1, <1>2, <2>1, DroppedKeeps, SteadyIsNotDropped
<1>3. CASE RouteDrift # "changed"
  <2>1. route' = [route EXCEPT !.checked = TRUE] /\ UNCHANGED <<browser, live, name, file, record, steady, claimant>>
    BY <1>3 DEF RecheckIdentity, world
  <2>2. /\ DOMAIN route' = DOMAIN route /\ route'.on = route.on /\ route'.claimed = route.claimed
        /\ route'.changed = route.changed /\ route'.dir = route.dir /\ route'.vendor = route.vendor
        /\ route'.reported = route.reported
    BY <1>1, <2>1 DEF IdentityInv, IdentityTypes, RouteFields
  <2>3. SwitchIsCaught'
    <3>1. SUFFICES ASSUME ~browser.astray, route.dir = Own, Own \in DOMAIN file, claimant # None
                   PROVE  file[Own].gaia \in {None, claimant}
      BY <2>1, <2>2 DEF SwitchIsCaught
    <3>2. Rows = file
      BY <1>1, <3>1, OwnFile DEF Rows, IdentityInv, OneVendor
    <3>3. Drift(record.print, file[Own], route.reported) # "changed"
      BY <1>3, <3>1, <3>2 DEF RouteDrift
    <3>4. record.print = <<"gaia", claimant>>
      BY <3>1 DEF IdentityInv, PrintNames
    <3> QED
      BY <3>3, <3>4 DEF Drift
  <2>4. IdentityTypes' /\ SameLine' /\ OneVendor' /\ PrintNames'
    BY <2>1, <2>2 DEF IdentityInv, IdentityTypes, SameLine, OneVendor, PrintNames, Row
  <2>5. Steadiness'
    BY <2>1, <2>2, SamePersonStill DEF IdentityInv, Steadiness
  <2> QED
    BY <2>1, <2>3, <2>4, <2>5 DEF IdentityInv
<1> QED
  BY <1>2, <1>3

LEMMA MinuteKeeps ==
  ASSUME IdentityInv, MinutePasses
  PROVE  IdentityInv'
<1>1. route.on /\ route' = [route EXCEPT !.checked = FALSE]
      /\ UNCHANGED <<browser, live, name, file, record, steady, claimant, looked>>
  BY DEF MinutePasses, world, ghosts
<1>2. /\ DOMAIN route' = DOMAIN route /\ route'.on = route.on /\ route'.claimed = route.claimed
      /\ route'.changed = route.changed /\ route'.dir = route.dir /\ route'.vendor = route.vendor
      /\ route'.reported = route.reported
  BY <1>1 DEF IdentityInv, IdentityTypes, RouteFields
<1>3. IdentityTypes' /\ SameLine' /\ OneVendor' /\ PrintNames' /\ SwitchIsCaught'
  BY <1>1, <1>2 DEF IdentityInv, IdentityTypes, SameLine, OneVendor, PrintNames, SwitchIsCaught, Row
<1>4. Steadiness'
  BY <1>1, <1>2, SamePersonStill DEF IdentityInv, Steadiness
<1> QED
  BY <1>3, <1>4 DEF IdentityInv

LEMMA ClaimKeeps ==
  ASSUME IdentityInv, ClaimProfile
  PROVE  IdentityInv' /\ record'.claimed
<1>1. route.on /\ route.vendor # Unknown /\ UNCHANGED <<browser, live, name, file>>
      /\ DOMAIN record = RecordFields /\ DOMAIN route = RouteFields
  BY DEF ClaimProfile, world, IdentityInv, IdentityTypes
<1>2. PICK dir \in DOMAIN Rows :
        /\ LET patch == ApplyClaim(dir)
               label == IF record.custom THEN route.label ELSE DefaultLabelFor(TRUE, Rows, dir)
           IN /\ record' = [record EXCEPT !.claimed = TRUE, !.vendor = route.vendor, !.dir = dir, !.changed = FALSE,
                                          !.print = patch.print, !.label = label]
              /\ route' = [route EXCEPT !.claimed = TRUE, !.dir = dir, !.changed = FALSE, !.reported = patch.reported,
                                        !.label = label, !.checked = TRUE]
        /\ steady' = Settled(Rows, dir) /\ claimant' = IdIn(Rows, dir)
  BY DEF ClaimProfile
<1>3. ApplyClaim(dir).print = Fingerprint(Rows[dir], None) /\ ApplyClaim(dir).reported = None
  BY DEF ApplyClaim
<1>4. /\ DOMAIN record' = RecordFields /\ record'.claimed = TRUE /\ record'.vendor = route.vendor /\ record'.dir = dir
      /\ record'.changed = FALSE /\ record'.print = Fingerprint(Rows[dir], None)
  BY <1>1, <1>2, <1>3 DEF RecordFields
<1>5. /\ DOMAIN route' = RouteFields /\ route'.on = route.on /\ route'.claimed = TRUE /\ route'.dir = dir
      /\ route'.changed = FALSE /\ route'.reported = None /\ route'.vendor = route.vendor
  BY <1>1, <1>2, <1>3 DEF RouteFields
<1>6. ~browser.astray => route.vendor = browser.vendor /\ Rows = file
  BY <1>1, OwnFile DEF IdentityInv, OneVendor, Rows
<1>7. claimant' = Rows[dir].gaia
  BY <1>2 DEF IdIn
<1>8. IdentityTypes' /\ SameLine' /\ OneVendor'
  BY <1>1, <1>4, <1>5, <1>6 DEF IdentityInv, IdentityTypes, SameLine, OneVendor, Row
<1>9. PrintNames' /\ SwitchIsCaught'
  BY <1>1, <1>4, <1>5, <1>6, <1>7 DEF PrintNames, SwitchIsCaught, Fingerprint
<1>10. ASSUME steady', ~browser.astray PROVE SamePerson'
  <2>1. dir = Own /\ Rows = file /\ Own \in DOMAIN file /\ file[Own] \in {Row(live, name), Row(None, name)}
    BY <1>2, <1>6, <1>10 DEF Settled
  <2>2. StandsFor(record'.print)
    BY <1>4, <2>1, PrintsStand DEF IdentityInv
  <2>3. StandsFor(record.print)'
    BY <1>1, <2>2 DEF StandsFor, Row
  <2> QED
    BY <1>1, <1>4, <1>5, <2>1, <2>3 DEF SamePerson
<1> QED
  BY <1>1, <1>4, <1>8, <1>9, <1>10 DEF IdentityInv, Steadiness

LEMMA RenameKeeps ==
  ASSUME IdentityInv, Rename
  PROVE  IdentityInv' /\ (record'.claimed <=> record.claimed)
<1>1. /\ route.on /\ route' = [route EXCEPT !.label = <<"given", None>>]
      /\ record' = [record EXCEPT !.label = <<"given", None>>, !.custom = TRUE]
      /\ UNCHANGED <<browser, live, name, file, steady, claimant, looked>>
      /\ DOMAIN record = RecordFields /\ DOMAIN route = RouteFields
  BY DEF Rename, world, ghosts, IdentityInv, IdentityTypes
<1>2. /\ DOMAIN route' = DOMAIN route /\ route'.on = route.on /\ route'.claimed = route.claimed
      /\ route'.changed = route.changed /\ route'.dir = route.dir /\ route'.vendor = route.vendor
      /\ route'.reported = route.reported
  BY <1>1 DEF RouteFields
<1>3. /\ DOMAIN record' = DOMAIN record /\ record'.claimed = record.claimed /\ record'.changed = record.changed
      /\ record'.dir = record.dir /\ record'.vendor = record.vendor /\ record'.print = record.print
  BY <1>1 DEF RecordFields
<1>4. IdentityTypes' /\ SameLine' /\ OneVendor' /\ PrintNames' /\ SwitchIsCaught'
  BY <1>1, <1>2, <1>3 DEF IdentityInv, IdentityTypes, SameLine, OneVendor, PrintNames, SwitchIsCaught, Row
<1>5. Steadiness'
  BY <1>1, <1>2, <1>3, SamePersonStill DEF IdentityInv, Steadiness
<1> QED
  BY <1>3, <1>4, <1>5 DEF IdentityInv

(* Signing in elsewhere stays the same person only for an account id that  *)
(* both addresses are of.                                                  *)
LEMMA SignsInKeeps ==
  ASSUME IdentityInv, SignsIn
  PROVE  IdentityInv'
<1>1. PICK a \in People :
        /\ a # live /\ live' = a
        /\ steady' = (steady /\ a # None /\ live # None /\ Owner[a] = Owner[live] /\ record.print[1] = "gaia")
  BY DEF SignsIn, People
<1>2. UNCHANGED <<browser, name, file, record, route, claimant, looked>>
  BY DEF SignsIn
<1>3. IdentityTypes' /\ SameLine' /\ OneVendor' /\ PrintNames' /\ SwitchIsCaught'
  BY <1>1, <1>2 DEF IdentityInv, IdentityTypes, SameLine, OneVendor, PrintNames, SwitchIsCaught, Row
<1>4. ASSUME steady', ~browser.astray PROVE SamePerson'
  <2>1. SamePerson /\ a # None /\ Owner[a] = Owner[live] /\ record.print[1] = "gaia"
    BY <1>1, <1>4 DEF IdentityInv, Steadiness
  <2>2. /\ browser.rows = "ids" /\ record.print = <<"gaia", Owner[live]>>
        /\ Own \in DOMAIN file =>
             \E p \in People, n \in Names : file[Own] = Row(p, n) /\ (p # None => Owner[p] = Owner[live])
    BY <2>1, NoneIsNoPerson DEF SamePerson, StandsFor
  <2>3. StandsFor(record.print)'
    BY <1>1, <1>2, <2>1, <2>2 DEF StandsFor, Row
  <2> QED
    BY <1>2, <2>1, <2>3 DEF SamePerson
<1> QED
  BY <1>1, <1>2, <1>3, <1>4 DEF IdentityInv, Steadiness

LEMMA RenamesProfileKeeps ==
  ASSUME IdentityInv, RenamesProfile
  PROVE  IdentityInv'
<1>1. /\ name' \in Names /\ steady' = (steady /\ record.print[1] \in {"gaia", "email"})
      /\ UNCHANGED <<browser, live, file, record, route, claimant, looked>>
  BY DEF RenamesProfile
<1>2. IdentityTypes' /\ SameLine' /\ OneVendor' /\ PrintNames' /\ SwitchIsCaught'
  BY <1>1 DEF IdentityInv, IdentityTypes, SameLine, OneVendor, PrintNames, SwitchIsCaught, Row
<1>3. ASSUME steady', ~browser.astray PROVE SamePerson'
  <2>1. SamePerson /\ record.print[1] \in {"gaia", "email"}
    BY <1>1, <1>3 DEF IdentityInv, Steadiness
  <2>2. record.print \notin {NoPrint, <<"name", name>>}
    BY <2>1, NoneIsNoPerson
  <2>3. StandsFor(record.print)'
    BY <1>1, <2>1, <2>2 DEF SamePerson, StandsFor, Row
  <2> QED
    BY <1>1, <2>1, <2>3 DEF SamePerson
<1> QED
  BY <1>1, <1>2, <1>3 DEF IdentityInv, Steadiness

LEMMA FlushKeeps ==
  ASSUME IdentityInv, Flush
  PROVE  IdentityInv'
<1>1. /\ file' \in {<<>>, OtherRow} \cup {WithOwn(r) : r \in {Row(live, name), Row(None, name)}}
      /\ steady' = (steady /\ file' # OtherRow) /\ looked' = FALSE
      /\ UNCHANGED <<browser, live, name, record, route, claimant>>
  BY DEF Flush
<1>2. Own \notin DOMAIN OtherRow
  BY IdentityAssumption
<1>3. \/ DOMAIN file' = {} \/ file' = OtherRow
      \/ Own \in DOMAIN file' /\ file'[Own] \in {Row(live, name), Row(None, name)}
  <2>1. ASSUME NEW r PROVE Own \in DOMAIN WithOwn(r) /\ WithOwn(r)[Own] = r
    BY DEF WithOwn
  <2> QED
    BY <1>1, <2>1
<1>4. Own \in DOMAIN file' => file'[Own] \in {Row(live, name), Row(None, name)}
  BY <1>2, <1>3
<1>5. IdentityTypes' /\ SameLine' /\ OneVendor' /\ PrintNames' /\ SwitchIsCaught'
  <2>1. live \in People /\ None \in People /\ name \in Names
    BY DEF IdentityInv, IdentityTypes, People
  <2> QED
    BY <1>1, <1>4, <2>1 DEF IdentityInv, IdentityTypes, SameLine, OneVendor, PrintNames, SwitchIsCaught, Row
<1>6. ASSUME steady', ~browser.astray PROVE SamePerson'
  <2>1. SamePerson /\ file' # OtherRow /\ live \in People /\ None \in People /\ name \in Names
    BY <1>1, <1>6 DEF IdentityInv, Steadiness, IdentityTypes, People
  <2>2. DOMAIN file' = {} \/ Own \in DOMAIN file'
    BY <1>3, <2>1
  <2>3. StandsFor(record.print)'
    BY <1>1, <1>4, <2>1 DEF SamePerson, StandsFor, Row
  <2> QED
    BY <1>1, <2>1, <2>2, <2>3 DEF SamePerson
<1> QED
  BY <1>1, <1>5, <1>6 DEF IdentityInv, Steadiness

LEMMA IdentityStep ==
  ASSUME IdentityInv, [IdentityNext]_identityVars
  PROVE  IdentityInv'
<1>1. CASE UNCHANGED identityVars
  <2>1. Steadiness'
    BY <1>1, SamePersonStill DEF identityVars, IdentityInv, Steadiness
  <2> QED
    BY <1>1, <2>1 DEF identityVars, IdentityInv, IdentityTypes, SameLine, OneVendor, PrintNames, SwitchIsCaught, Row
<1> QED
  BY <1>1, RegisterKeeps, DisconnectKeeps, RecheckKeeps, MinuteKeeps, ClaimKeeps, RenameKeeps, SignsInKeeps,
     RenamesProfileKeeps, FlushKeeps DEF IdentityNext

LEMMA ClaimsStep ==
  ASSUME IdentityInv, [IdentityNext]_identityVars, record.claimed, ~record'.claimed
  PROVE  ~steady \/ browser.astray
<1>1. CASE UNCHANGED record
  BY <1>1
<1>2. CASE Register
  BY <1>2, RegisterKeeps
<1>3. CASE RecheckIdentity
  BY <1>3, RecheckKeeps
<1>4. CASE ClaimProfile \/ Rename
  BY <1>4, ClaimKeeps, RenameKeeps
<1>5. CASE Disconnect \/ MinutePasses \/ SignsIn \/ RenamesProfile \/ Flush
  BY <1>1, <1>5 DEF Disconnect, MinutePasses, SignsIn, RenamesProfile, Flush
<1> QED
  BY <1>1, <1>2, <1>3, <1>4, <1>5 DEF IdentityNext, identityVars

LEMMA DropStep ==
  ASSUME IdentityInv, [IdentityNext]_identityVars, Line.changed, ~Line'.changed
  PROVE  Line'.claimed
<1>1. record.changed /\ IdentityTypes /\ OneVendor
  BY DEF Line, IdentityInv, SameLine
<1>2. CASE Register
  <2>1. PICK who, vendor, rows, email : Registration(who, vendor, rows, email)
    BY <1>1, <1>2, RegistrationIs
  <2>2. route'.on /\ (route'.claimed <=> who.claimed) /\ (route'.changed <=> Changed(who))
    BY <2>1 DEF Registration, Registers
  <2> QED
    BY <1>1, <2>2 DEF Line, Changed
<1>3. CASE ClaimProfile
  <2>1. IdentityInv' /\ record'.claimed
    BY <1>3, ClaimKeeps
  <2> QED
    BY <2>1 DEF IdentityInv, SameLine, Line
<1>4. ASSUME record'.changed, IdentityInv' PROVE FALSE
  BY <1>4 DEF IdentityInv, SameLine, Line
<1>5. CASE RecheckIdentity
  <2>1. record'.changed
    BY <1>1, <1>5 DEF RecheckIdentity, Dropped, IdentityTypes, RecordFields
  <2> QED
    BY <1>4, <1>5, <2>1, RecheckKeeps
<1>6. CASE Rename
  <2>1. record'.changed
    BY <1>1, <1>6 DEF Rename, IdentityTypes, RecordFields
  <2> QED
    BY <1>4, <1>6, <2>1, RenameKeeps
<1>7. CASE Disconnect \/ MinutePasses \/ SignsIn \/ RenamesProfile \/ Flush \/ UNCHANGED identityVars
  <2>1. UNCHANGED record
    BY <1>7 DEF Disconnect, MinutePasses, SignsIn, RenamesProfile, Flush, identityVars
  <2> QED
    BY <1>1, <1>4, <2>1, IdentityStep
<1> QED
  BY <1>2, <1>3, <1>5, <1>6, <1>7 DEF IdentityNext

(* Another account in the claimed directory loses the line: the broker has *)
(* looked at no file that names one and left the claim standing            *)
(* (index.mjs, recheckIdentity; profiles.mjs, identityDrift).              *)
THEOREM AnotherAccountLosesTheLine == IdentitySpec => []SwitchIsCaught
<1>1. IdentityInv => SwitchIsCaught
  BY DEF IdentityInv
<1> QED
  BY <1>1, IdentityInitially, IdentityStep, PTL DEF IdentitySpec

(* A claim is permanent while the same person is there: no file that is    *)
(* late, torn or a stub, no process table unread, no renamed account and   *)
(* no cached address takes it from them (profiles.mjs, resolveIdentity).   *)
THEOREM TheirClaimIsKept == IdentitySpec => ClaimsAreKept
<1>1. IdentityInv /\ [IdentityNext]_identityVars
        => IdentityInv' /\ (record.claimed /\ ~record'.claimed => ~steady \/ browser.astray)
  BY IdentityStep, ClaimsStep
<1> QED
  BY <1>1, IdentityInitially, PTL DEF IdentitySpec, ClaimsAreKept

(* A drop stays on the board until the line is claimed again, over every   *)
(* reconnection (index.mjs, handleRegister).                               *)
THEOREM TheDropStays == IdentitySpec => DropIsRemembered
<1>1. IdentityInv /\ [IdentityNext]_identityVars
        => IdentityInv' /\ (Line.changed /\ ~Line'.changed => Line'.claimed)
  BY IdentityStep, DropStep
<1> QED
  BY <1>1, IdentityInitially, PTL DEF IdentitySpec, DropIsRemembered

-----------------------------------------------------------------------------
(***************************************************************************)
(* The relays watched.                                                     *)
(***************************************************************************)

Lists == {RelaySpecsFor(list, l) : list \in Settings, l \in Lines} \cup {{}}
Answers == [relays : Lists, calls : Nat, panic : BOOLEAN]

ToldOK ==
  /\ settings \in Settings /\ line \in Lines
  /\ answers \in Seq(Answers)
  /\ specs \in Lists /\ news \in Seq(Lists)
  /\ boot \in [pc : {"start", "read", "done"}, found : SUBSET UNION Lists]

(* The last change the worker has not heard of is what is stored.  With    *)
(* none left, what the broker's answers made it watch is what is stored,   *)
(* and so is what its start read, if nothing was applied since.            *)
ToldInv ==
  /\ ToldOK
  /\ news # <<>> => news[Len(news)] = specs
  /\ news = <<>> /\ applied => watching = specs
  /\ news = <<>> /\ ~applied /\ boot.pc = "read" => boot.found = specs
  /\ news = <<>> /\ ~applied /\ boot.pc = "done" => watching = specs

LEMMA LastAppended ==
  ASSUME NEW S, NEW s \in Seq(S), NEW e \in S
  PROVE  Append(s, e) \in Seq(S) /\ Append(s, e) # <<>> /\ Append(s, e)[Len(Append(s, e))] = e
OBVIOUS

LEMMA FirstTaken ==
  ASSUME NEW S, NEW s \in Seq(S), s # <<>>
  PROVE  /\ Head(s) = s[1] /\ Tail(s) \in Seq(S)
         /\ Len(s) = 1 => Tail(s) = <<>>
         /\ Len(s) # 1 => Tail(s) # <<>> /\ Tail(s)[Len(Tail(s))] = s[Len(s)]
<1>1. Tail(s) \in Seq(S) /\ Len(Tail(s)) = Len(s) - 1
      /\ \A i \in 1..Len(Tail(s)) : Tail(s)[i] = s[i + 1]
  BY HeadTailProperties
<1>2. Head(s) = s[1]
  OBVIOUS
<1>3. Len(s) \in Nat /\ Len(s) # 0
  BY EmptySeq
<1>4. ASSUME Len(s) = 1 PROVE Tail(s) = <<>>
  <2> DEFINE t == Tail(s)
  <2>1. t \in Seq(S) /\ Len(t) = 0
    BY <1>1, <1>4
  <2> HIDE DEF t
  <2>2. t = <<>>
    BY <2>1, EmptySeq
  <2> QED
    BY <2>2 DEF t
<1>5. ASSUME Len(s) # 1
      PROVE  Tail(s) # <<>> /\ Tail(s)[Len(Tail(s))] = s[Len(s)]
  <2> DEFINE t == Tail(s)
  <2>1. /\ t \in Seq(S) /\ Len(t) = Len(s) - 1
        /\ \A i \in 1..Len(t) : t[i] = s[i + 1]
    BY <1>1
  <2> HIDE DEF t
  <2>2. Len(t) \in 1..Len(t) /\ Len(t) + 1 = Len(s)
    BY <2>1, <1>3, <1>5
  <2>3. t # <<>> /\ t[Len(t)] = s[Len(s)]
    BY <2>1, <2>2, EmptySeq
  <2> QED
    BY <2>3 DEF t
<1> QED
  BY <1>1, <1>2, <1>4, <1>5

LEMMA AckTypes ==
  ASSUME NEW list \in Settings, NEW l \in Lines
  PROVE  AckOf(list, l) \in Answers /\ PanicRefusal \in Answers
BY DEF AckOf, PanicRefusal, Answers, Lists

LEMMA ToldInitially == KeepInit => ToldInv
<1> SUFFICES ASSUME KeepInit PROVE ToldInv
  OBVIOUS
<1>1. answers \in Seq(Answers)
  BY AckTypes DEF KeepInit
<1> QED
  BY <1>1 DEF KeepInit, ToldInv, ToldOK, Lists

LEMMA BrokerAnswersTold ==
  ASSUME ToldInv, BrokerAnswers
  PROVE  ToldInv'
<1>1. settings' \in Settings /\ line' \in Lines
  BY DEF BrokerAnswers, ToldInv, ToldOK
<1>2. answers' \in Seq(Answers)
  <2>1. answers \in Seq(Answers)
    BY DEF ToldInv, ToldOK
  <2>2. \E a \in Answers : answers' = Append(answers, a)
    BY <1>1, AckTypes DEF BrokerAnswers
  <2> QED
    BY <2>1, <2>2
<1> QED
  BY <1>1, <1>2 DEF BrokerAnswers, ToldInv, ToldOK

LEMMA RecordsTold ==
  ASSUME ToldInv, NEW n \in DOMAIN answers, Records(n)
  PROVE  ToldInv'
<1>1. answers \in Seq(Answers) /\ n \in 1..Len(answers) /\ answers[n] \in Answers
  BY DEF ToldInv, ToldOK
<1>2. CASE answers[n].calls > 0
  <2>1. [answers[n] EXCEPT !.calls = @ - 1] \in Answers
    BY <1>1, <1>2 DEF Answers
  <2>2. answers' = [answers EXCEPT ![n] = [answers[n] EXCEPT !.calls = @ - 1]]
    BY <1>1, <1>2 DEF Records
  <2>3. answers' \in Seq(Answers)
    BY <1>1, <2>1, <2>2
  <2> QED
    BY <1>2, <2>3 DEF Records, ToldInv, ToldOK
<1>3. CASE ~(answers[n].calls > 0)
  <2>1. /\ answers' = SubSeq(answers, 1, n - 1) \o SubSeq(answers, n + 1, Len(answers))
        /\ specs' = answers[n].relays
        /\ news' = IF specs' = specs THEN news ELSE Append(news, specs')
        /\ UNCHANGED <<settings, line, boot, watching, applied>>
    BY <1>3 DEF Records
  <2>2. answers' \in Seq(Answers)
    <3>1. SubSeq(answers, 1, n - 1) \in Seq(Answers) /\ SubSeq(answers, n + 1, Len(answers)) \in Seq(Answers)
      BY <1>1
    <3> QED
      BY <2>1, <3>1
  <2>3. specs' \in Lists /\ news \in Seq(Lists)
    BY <1>1, <2>1 DEF Answers, ToldInv, ToldOK
  <2>4. CASE specs' = specs
    BY <2>1, <2>2, <2>4 DEF ToldInv, ToldOK
  <2>5. CASE specs' # specs
    <3>1. news' = Append(news, specs')
      BY <2>1, <2>5
    <3>2. LET s == Append(news, specs') IN s \in Seq(Lists) /\ s # <<>> /\ s[Len(s)] = specs'
      BY <2>3, LastAppended
    <3> QED
      BY <2>1, <2>2, <2>3, <3>1, <3>2 DEF ToldInv, ToldOK
  <2> QED
    BY <2>4, <2>5
<1> QED
  BY <1>2, <1>3

LEMMA StorageChangedTold ==
  ASSUME ToldInv, StorageChanged
  PROVE  ToldInv'
<1>1. news \in Seq(Lists) /\ news # <<>> /\ news' = Tail(news) /\ news[Len(news)] = specs
  BY DEF StorageChanged, ToldInv, ToldOK
<1>2. /\ watching' = news[1] /\ applied' = TRUE
      /\ UNCHANGED <<settings, line, answers, specs, boot>>
  BY <1>1, FirstTaken DEF StorageChanged, Apply
<1>3. news' \in Seq(Lists)
  BY <1>1, FirstTaken
<1>4. CASE Len(news) = 1
  BY <1>1, <1>2, <1>3, <1>4, FirstTaken DEF ToldInv, ToldOK
<1>5. CASE Len(news) # 1
  <2>1. news' # <<>> /\ news'[Len(news')] = specs
    BY <1>1, <1>5, FirstTaken
  <2> QED
    BY <1>2, <1>3, <2>1 DEF ToldInv, ToldOK
<1> QED
  BY <1>4, <1>5

LEMMA BootTold ==
  ASSUME ToldInv, BootReads \/ BootApplies
  PROVE  ToldInv'
<1>1. specs \subseteq UNION Lists
  BY DEF ToldInv, ToldOK
<1>2. CASE BootReads
  BY <1>1, <1>2 DEF BootReads, ToldInv, ToldOK
<1>3. CASE BootApplies
  BY <1>3 DEF BootApplies, Apply, ToldInv, ToldOK
<1> QED
  BY <1>2, <1>3

LEMMA EndedTold ==
  ASSUME ToldInv, Ended
  PROVE  ToldInv'
BY DEF Ended, ToldInv, ToldOK

LEMMA ToldUnchanged ==
  ASSUME ToldInv, UNCHANGED told
  PROVE  ToldInv'
BY DEF ToldInv, ToldOK, told

LEMMA ToldStep ==
  ASSUME ToldInv, [KeepNext]_keepVars
  PROVE  ToldInv'
<1>1. CASE UNCHANGED keepVars
  BY <1>1, ToldUnchanged DEF keepVars, told
<1>2. ASSUME NEW n \in DOMAIN answers, Records(n)
      PROVE  ToldInv'
  BY <1>2, RecordsTold
<1>3. CASE WorkerEnds \/ BrowserRestarts
  BY <1>3, EndedTold DEF WorkerEnds, BrowserRestarts
<1>4. CASE \/ Relays \/ Relayed
           \/ Begins \/ NotesLanding \/ FindsTab \/ LooksByAddress \/ Acts \/ Opens \/ Notes \/ ReadsRecord \/ WritesRecord
           \/ PageMoves \/ HourPasses
  <2>1. UNCHANGED told
    BY <1>4 DEF Relays, Relayed, Begins, NotesLanding, FindsTab, LooksByAddress, Acts, Opens, Notes,
                ReadsRecord, WritesRecord, PageMoves, HourPasses
  <2> QED
    BY <2>1, ToldUnchanged
<1> QED
  BY <1>1, <1>2, <1>3, <1>4, BrokerAnswersTold, StorageChangedTold, BootTold DEF KeepNext

(* Whichever of the worker's start, the broker's answers and their events  *)
(* came first, once the start is over and no event is outstanding the      *)
(* worker watches the list last written down (token-relay.js, apply;       *)
(* sw.js, boot).                                                           *)
THEOREM TheWatchFollowsTheStore == KeepSpec => []WatchesWhatIsStored
<1>1. ToldInv => WatchesWhatIsStored
  BY DEF ToldInv, ToldOK, WatchesWhatIsStored
<1> QED
  BY <1>1, ToldInitially, ToldStep, PTL DEF KeepSpec

-----------------------------------------------------------------------------
(***************************************************************************)
(* The keep-alive tab.                                                     *)
(***************************************************************************)

CheckOK == check # NoCheck => DOMAIN check = {"pc", "t", "held", "id", "tab"}
Page == [at : {"none", "chosen", "landing", "inbox", "outside"}, active : BOOLEAN]
PagesOK == pages \in [Ids -> Page]

(* Of the tabs it opened in this session the worker holds one at most, and *)
(* that one it knows; and no check is about to open another while it       *)
(* stands.                                                                 *)
TabInv ==
  /\ CheckOK /\ PagesOK
  /\ noted \subseteq {own} \cap Live
  /\ check.pc \in {"open", "note"} => noted = {}

LEMMA PageTypes ==
  /\ NoTab \in Page
  /\ \A at \in {"none", "chosen", "landing", "inbox", "outside"}, active \in BOOLEAN :
       [at |-> at, active |-> active] \in Page
  /\ \A q \in Page, at \in {"chosen", "landing", "inbox", "outside"} : [q EXCEPT !.at = at] \in Page \ {NoTab}
  /\ \A q \in Page : [q EXCEPT !.active = FALSE] \in Page
<1>1. NoTab \in Page
  BY DEF NoTab, Page
<1>2. ASSUME NEW at \in {"none", "chosen", "landing", "inbox", "outside"}, NEW active \in BOOLEAN
      PROVE  [at |-> at, active |-> active] \in Page
  BY DEF Page
<1>3. ASSUME NEW q \in Page, NEW at \in {"chosen", "landing", "inbox", "outside"}
      PROVE  [q EXCEPT !.at = at] \in Page \ {NoTab}
  <2>1. [q EXCEPT !.at = at].at = at /\ NoTab.at = "none"
    BY DEF Page, NoTab
  <2>2. [q EXCEPT !.at = at] \in Page
    BY DEF Page
  <2> QED
    BY <2>1, <2>2
<1>4. ASSUME NEW q \in Page PROVE [q EXCEPT !.active = FALSE] \in Page
  BY DEF Page
<1> QED
  BY <1>1, <1>2, <1>3, <1>4

LEMMA TabInitially == KeepInit => TabInv
<1> SUFFICES ASSUME KeepInit PROVE TabInv
  OBVIOUS
<1>1. PagesOK
  BY PageTypes DEF KeepInit, PagesOK
<1> QED
  BY <1>1 DEF KeepInit, TabInv, CheckOK, NoCheck

(* A check that goes on without opening a tab leaves the invariant alone.  *)
LEMMA CheckGoesOn ==
  ASSUME TabInv, CheckOK', check'.pc \notin {"open", "note"},
         UNCHANGED <<own, pages, noted>>
  PROVE  TabInv'
BY DEF TabInv, PagesOK, Live

LEMMA DecisionIsNotToOpen ==
  ASSUME NEW held, NEW tab
  PROVE  Decision(held, tab) \in {"idle", "reload", "return"}
BY DEF Decision

LEMMA IdleCheck == NoCheck.pc = "idle"
BY DEF NoCheck

LEMMA BeginsTab ==
  ASSUME TabInv, Begins
  PROVE  TabInv'
<1>1. CheckOK' /\ check'.pc \notin {"open", "note"}
  BY DEF Begins, CheckOK
<1> QED
  BY <1>1, CheckGoesOn DEF Begins

LEMMA LandingTab ==
  ASSUME TabInv, NotesLanding
  PROVE  TabInv'
<1>1. CheckOK' /\ check'.pc \notin {"open", "note"}
  BY IdleCheck DEF NotesLanding, TabInv, CheckOK, NoCheck
<1> QED
  BY <1>1, CheckGoesOn DEF NotesLanding

LEMMA FindsTabTab ==
  ASSUME TabInv, FindsTab
  PROVE  TabInv'
<1>1. CheckOK' /\ check'.pc \notin {"open", "note"}
  <2> DEFINE d == Decision(check.held, pages[own])
  <2>1. d \in {"idle", "reload", "return"}
    BY DecisionIsNotToOpen
  <2>2. check' = [check EXCEPT !.pc = d, !.id = own, !.tab = pages[own]] /\ check.pc = "tab"
    BY DEF FindsTab
  <2> HIDE DEF d
  <2> QED
    BY <2>1, <2>2, IdleCheck DEF TabInv, CheckOK
<1> QED
  BY <1>1, CheckGoesOn DEF FindsTab

(* The one place a check decides to open a tab: nothing noted is there.    *)
LEMMA LooksTab ==
  ASSUME TabInv, LooksByAddress
  PROVE  TabInv'
<1>1. noted = {}
  <2>1. own \notin Live
    BY KeepAliveAssumption DEF LooksByAddress, OwnTab, Live
  <2> QED
    BY <2>1 DEF TabInv
<1>2. CheckOK'
  BY IdleCheck DEF LooksByAddress, TabInv, CheckOK
<1> QED
  BY <1>1, <1>2 DEF LooksByAddress, TabInv, PagesOK, Live

LEMMA ActsTab ==
  ASSUME TabInv, Acts
  PROVE  TabInv'
<1>1. check.pc \in {"reload", "return"} /\ check # NoCheck /\ UNCHANGED <<own, noted>>
  BY IdleCheck DEF Acts
<1>2. CASE check.id \in Live
  <2>1. /\ check' = [check EXCEPT !.pc = "patch", !.tab = NoTab]
        /\ pages' = IF check.pc = "return" THEN [pages EXCEPT ![check.id].at = "chosen"] ELSE pages
    BY <1>2 DEF Acts
  <2>2. CheckOK' /\ check'.pc = "patch"
    BY <1>1, <2>1 DEF TabInv, CheckOK
  <2>3. CASE check.pc = "return"
    <3> DEFINE q == [pages[check.id] EXCEPT !.at = "chosen"]
    <3>1. pages \in [Ids -> Page] /\ check.id \in Ids /\ q \in Page \ {NoTab}
      BY <1>2, PageTypes DEF TabInv, PagesOK, Live
    <3>2. pages' = [pages EXCEPT ![check.id] = q]
      BY <2>1, <2>3
    <3> HIDE DEF q
    <3>3. PagesOK' /\ Live \subseteq Live'
      BY <3>1, <3>2 DEF PagesOK, Live, NoTab
    <3> QED
      BY <1>1, <2>2, <3>3 DEF TabInv
  <2>4. CASE check.pc # "return"
    BY <1>1, <2>1, <2>2, <2>4 DEF TabInv, PagesOK, Live
  <2> QED
    BY <2>3, <2>4
<1>3. CASE check.id \notin Live
  <2>1. check' = NoCheck /\ UNCHANGED pages
    BY <1>3 DEF Acts
  <2> QED
    BY <1>1, <2>1, IdleCheck, CheckGoesOn DEF CheckOK
<1> QED
  BY <1>2, <1>3

LEMMA OpensTab ==
  ASSUME TabInv, Opens
  PROVE  TabInv'
<1>1. check.pc = "open" /\ check # NoCheck /\ noted = {} /\ UNCHANGED <<own, noted>>
  BY IdleCheck DEF Opens, TabInv
<1>2. CheckOK'
  BY <1>1 DEF Opens, TabInv, CheckOK
<1>3. PagesOK'
  BY <1>1, PageTypes DEF Opens, TabInv, PagesOK
<1> QED
  BY <1>1, <1>2, <1>3 DEF TabInv

LEMMA NotesTab ==
  ASSUME TabInv, Notes
  PROVE  TabInv'
<1>1. /\ check.pc = "note" /\ check # NoCheck /\ noted = {}
      /\ own' = check.id /\ noted' = noted \cup ({check.id} \cap Live) /\ UNCHANGED pages
      /\ check' = [check EXCEPT !.pc = "opened"]
  BY IdleCheck DEF Notes, TabInv
<1>2. CheckOK' /\ check'.pc = "opened"
  BY <1>1 DEF TabInv, CheckOK
<1> QED
  BY <1>1, <1>2 DEF TabInv, PagesOK, Live

LEMMA RecordTab ==
  ASSUME TabInv, ReadsRecord \/ WritesRecord
  PROVE  TabInv'
<1>1. CASE ReadsRecord
  <2>1. CheckOK' /\ check'.pc \notin {"open", "note"}
    BY <1>1, IdleCheck DEF ReadsRecord, TabInv, CheckOK
  <2> QED
    BY <1>1, <2>1, CheckGoesOn DEF ReadsRecord
<1>2. CASE WritesRecord
  <2>1. CheckOK' /\ check'.pc \notin {"open", "note"}
    BY <1>2, IdleCheck DEF WritesRecord, TabInv, CheckOK
  <2> QED
    BY <1>2, <2>1, CheckGoesOn DEF WritesRecord
<1> QED
  BY <1>1, <1>2

LEMMA PageMovesTab ==
  ASSUME TabInv, PageMoves
  PROVE  TabInv'
<1>1. PICK i \in Live :
        \E at \in {"landing", "inbox", "outside", "none"}, active \in BOOLEAN :
         /\ at = "none" => ~active
         /\ pages[i].at # at
         /\ pages' = [pages EXCEPT ![i] = [at |-> at, active |-> active]]
         /\ noted' = IF at = "none" THEN noted \ {i} ELSE noted
  BY DEF PageMoves
<1>2. PICK at \in {"landing", "inbox", "outside", "none"}, active \in BOOLEAN :
         /\ pages' = [pages EXCEPT ![i] = [at |-> at, active |-> active]]
         /\ noted' = IF at = "none" THEN noted \ {i} ELSE noted
  BY <1>1
<1>3. PagesOK'
  BY <1>2, PageTypes DEF TabInv, PagesOK
<1>4. Live \ {i} \subseteq Live' /\ (at # "none" => i \in Live')
  BY <1>2 DEF TabInv, PagesOK, Live, NoTab
<1>5. noted' \subseteq noted /\ noted' \subseteq Live'
  BY <1>2, <1>4 DEF TabInv
<1> QED
  BY <1>3, <1>5 DEF PageMoves, keeping, TabInv, CheckOK

LEMMA EndsTab ==
  ASSUME TabInv, WorkerEnds \/ BrowserRestarts
  PROVE  TabInv'
<1>1. check' = NoCheck
  BY DEF WorkerEnds, BrowserRestarts, Ended
<1>2. CASE WorkerEnds
  BY <1>1, <1>2, IdleCheck, CheckGoesOn DEF WorkerEnds, CheckOK
<1>3. CASE BrowserRestarts
  BY <1>1, <1>3, IdleCheck, PageTypes DEF BrowserRestarts, TabInv, CheckOK, PagesOK
<1> QED
  BY <1>2, <1>3

LEMMA TabUnchanged ==
  ASSUME TabInv, UNCHANGED <<own, check, pages, noted>>
  PROVE  TabInv'
BY DEF TabInv, CheckOK, PagesOK, Live

LEMMA TabStep ==
  ASSUME TabInv, [KeepNext]_keepVars
  PROVE  TabInv'
<1>1. CASE UNCHANGED keepVars
  BY <1>1, TabUnchanged DEF keepVars
<1>2. ASSUME NEW n \in DOMAIN answers, Records(n)
      PROVE  TabInv'
  BY <1>2, TabUnchanged DEF Records, keeping
<1>3. CASE BrokerAnswers \/ StorageChanged \/ BootReads \/ BootApplies \/ Relays \/ Relayed \/ HourPasses
  BY <1>3, TabUnchanged DEF BrokerAnswers, StorageChanged, BootReads, BootApplies, Relays, Relayed, HourPasses, keeping
<1> QED
  BY <1>1, <1>2, <1>3, BeginsTab, LandingTab, FindsTabTab, LooksTab, ActsTab, OpensTab, NotesTab, RecordTab,
     PageMovesTab, EndsTab DEF KeepNext

(* What a step adds to the tabs, by the one action that opens one.         *)
LEMMA OnlyOpensAdds ==
  ASSUME TabInv, [KeepNext]_keepVars
  PROVE  Live' \subseteq Live \/ noted = {}
<1>1. CASE UNCHANGED pages
  BY <1>1 DEF Live
<1>2. CASE Opens
  BY <1>2 DEF Opens, TabInv
<1>3. CASE Acts
  BY <1>3 DEF Acts, TabInv, PagesOK, Live
<1>4. CASE PageMoves
  BY <1>4 DEF PageMoves, TabInv, PagesOK, Live
<1>5. CASE BrowserRestarts
  <2>1. [NoTab EXCEPT !.active = FALSE] = NoTab
    <3> DEFINE q == [NoTab EXCEPT !.active = FALSE]
    <3>1. q.at = NoTab.at
      BY DEF NoTab
    <3>2. q.active = NoTab.active
      BY DEF NoTab
    <3>3. q \in Page /\ NoTab \in Page
      BY PageTypes
    <3> HIDE DEF q
    <3>5. q = NoTab
      BY <3>1, <3>2, <3>3 DEF Page
    <3> QED
      BY <3>5 DEF q
  <2>2. ASSUME NEW i \in Ids, pages[i] = NoTab PROVE pages'[i] = NoTab
    BY <1>5, <2>1, <2>2 DEF BrowserRestarts
  <2> QED
    BY <2>2 DEF Live
<1>6. CASE WorkerEnds
  BY <1>6 DEF WorkerEnds, Live
<1>7. ASSUME NEW n \in DOMAIN answers, Records(n)
      PROVE  UNCHANGED pages
  BY <1>7 DEF Records
<1>8. CASE BrokerAnswers \/ StorageChanged \/ BootReads \/ BootApplies \/ Relays \/ Relayed \/ HourPasses
  BY <1>1, <1>8 DEF BrokerAnswers, StorageChanged, BootReads, BootApplies, Relays, Relayed, HourPasses
<1>9. CASE Begins \/ NotesLanding \/ FindsTab \/ LooksByAddress \/ Notes \/ ReadsRecord \/ WritesRecord
  BY <1>1, <1>9 DEF Begins, NotesLanding, FindsTab, LooksByAddress, Notes, ReadsRecord, WritesRecord
<1> QED
  BY <1>1, <1>2, <1>3, <1>4, <1>5, <1>6, <1>7, <1>8, <1>9 DEF KeepNext, keepVars

(* While a tab it opened in this session is there, wherever it was taken   *)
(* and whichever end of the worker came between, no second one opens       *)
(* (token-relay.js, ownTab and keepAlive).                                 *)
THEOREM ASecondTabNeverOpens == KeepSpec => OneTabASession
<1>1. KeepInit => TabInv
  BY TabInitially
<1>2. TabInv /\ [KeepNext]_keepVars => TabInv' /\ (Live' \subseteq Live \/ noted = {})
  BY TabStep, OnlyOpensAdds
<1> QED
  BY <1>1, <1>2, PTL DEF KeepSpec, OneTabASession

-----------------------------------------------------------------------------
(***************************************************************************)
(* The pages.                                                              *)
(***************************************************************************)

LEMMA OneOutOfASequence ==
  ASSUME NEW S, NEW s \in Seq(S), NEW i \in DOMAIN s
  PROVE  /\ RemoveAt(s, i) \in Seq(S) /\ Len(RemoveAt(s, i)) = Len(s) - 1
         /\ \A j \in 1..Len(s) - 1 : RemoveAt(s, i)[j] = IF j < i THEN s[j] ELSE s[j + 1]
<1> DEFINE a == SubSeq(s, 1, i - 1)
           b == SubSeq(s, i + 1, Len(s))
<1>1. i \in 1..Len(s) /\ Len(s) \in Nat
  OBVIOUS
<1>2. a \in Seq(S) /\ Len(a) = i - 1 /\ \A j \in 1..i - 1 : a[j] = s[j]
  BY <1>1
<1>3. b \in Seq(S) /\ Len(b) = Len(s) - i /\ \A j \in 1..Len(s) - i : b[j] = s[i + j]
  BY <1>1
<1>4. RemoveAt(s, i) = a \o b
  BY DEF RemoveAt
<1> HIDE DEF a, b
<1>5. a \o b \in Seq(S) /\ Len(a \o b) = Len(s) - 1
  BY <1>1, <1>2, <1>3
<1>6. ASSUME NEW j \in 1..Len(s) - 1
      PROVE  (a \o b)[j] = IF j < i THEN s[j] ELSE s[j + 1]
  <2>1. CASE j < i
    BY <1>1, <1>2, <1>3, <2>1
  <2>2. CASE ~(j < i)
    <3>1. (a \o b)[j] = b[j - (i - 1)] /\ j - (i - 1) \in 1..Len(s) - i
      <4>1. j \in 1..Len(a) + Len(b) /\ ~(j <= Len(a)) /\ j - (i - 1) \in 1..Len(s) - i
        BY <1>1, <1>2, <1>3, <2>2
      <4>2. \A k \in 1..Len(a) + Len(b) : (a \o b)[k] = IF k <= Len(a) THEN a[k] ELSE b[k - Len(a)]
        BY <1>2, <1>3, ConcatProperties
      <4> QED
        BY <1>2, <4>1, <4>2
    <3>2. b[j - (i - 1)] = s[i + (j - (i - 1))] /\ i + (j - (i - 1)) = j + 1
      BY <1>1, <1>3, <3>1
    <3> QED
      BY <2>2, <3>1, <3>2
  <2> QED
    BY <2>1, <2>2
<1> QED
  BY <1>4, <1>5, <1>6

(* What the proofs need to know of the page and of a poll's answers: the   *)
(* fields are there, and a board's answer is one of four kinds.            *)
PageFields == {"booted", "board", "self", "error", "since", "reclaiming", "editing", "busy", "holding"}
IsASequence(s) == s \in Seq({s[i] : i \in DOMAIN s})
PollOK(p) ==
  /\ DOMAIN p = {"immediate", "board", "self"}
  /\ p.board = Unanswered \/ p.board.is \in {"board", "refused", "outage"}
PagesTypes ==
  /\ DOMAIN page = PageFields
  /\ IsASequence(polls) /\ \A i \in DOMAIN polls : PollOK(polls[i])

LEMMA SequenceIs ==
  ASSUME NEW S, NEW s \in Seq(S)
  PROVE  IsASequence(s)
<1>1. s \in [1..Len(s) -> S] /\ Len(s) \in Nat /\ DOMAIN s = 1..Len(s)
  OBVIOUS
<1>2. s \in [1..Len(s) -> {s[i] : i \in DOMAIN s}]
  BY <1>1
<1> DEFINE T == {s[i] : i \in DOMAIN s}
<1> HIDE DEF T
<1>3. s \in Seq(T)
  BY <1>1, <1>2, SeqDef DEF T
<1> QED
  BY <1>3 DEF IsASequence, T

(* A page's next poll is coming: its timer runs, or a poll that will start *)
(* it again is under way.                                                  *)
Coming == timer \/ \E i \in DOMAIN polls : ~polls[i].immediate

LEMMA AskingAgain ==
  ASSUME PagesTypes, NEW im \in BOOLEAN, Refresh(im)
  PROVE  /\ IsASequence(polls') /\ \A i \in DOMAIN polls' : PollOK(polls'[i])
         /\ (\E i \in DOMAIN polls : ~polls[i].immediate) => \E i \in DOMAIN polls' : ~polls'[i].immediate
         /\ ~im => \E i \in DOMAIN polls' : ~polls'[i].immediate
<1> DEFINE S == {polls[i] : i \in DOMAIN polls}
           T == S \cup {Asked(im)}
<1>1. polls \in Seq(T)
  BY DEF PagesTypes, IsASequence
<1>2. polls' = Append(polls, Asked(im)) /\ Asked(im) \in T
  BY DEF Refresh
<1>3. PollOK(Asked(im)) /\ Asked(im).immediate = im
  BY DEF PollOK, Asked
<1> HIDE DEF S, T
<1>4. /\ polls' \in Seq(T) /\ DOMAIN polls = 1..Len(polls) /\ DOMAIN polls' = 1..Len(polls) + 1 /\ Len(polls) \in Nat
      /\ \A i \in 1..Len(polls) : polls'[i] = polls[i]
      /\ polls'[Len(polls) + 1] = Asked(im)
  BY <1>1, <1>2
<1>5. IsASequence(polls')
  BY <1>4, SequenceIs
<1>6. ASSUME NEW i \in DOMAIN polls' PROVE PollOK(polls'[i])
  BY <1>3, <1>4 DEF PagesTypes
<1> QED
  BY <1>3, <1>4, <1>5, <1>6

LEMMA AnswersComing ==
  ASSUME PagesTypes, NEW i \in DOMAIN polls, AnswersBoard(i) \/ AnswersSelf(i)
  PROVE  /\ IsASequence(polls') /\ \A j \in DOMAIN polls' : PollOK(polls'[j])
         /\ DOMAIN polls' = DOMAIN polls /\ \A j \in DOMAIN polls : polls'[j].immediate = polls[j].immediate
<1> DEFINE S == {polls[j] : j \in DOMAIN polls}
<1>1. polls \in Seq(S) /\ PollOK(polls[i])
  BY DEF PagesTypes, IsASequence
<1>2. \E p : /\ polls' = [polls EXCEPT ![i] = p] /\ PollOK(p) /\ p.immediate = polls[i].immediate
  <2>1. CASE AnswersBoard(i)
    <3>1. PICK a : /\ polls' = [polls EXCEPT ![i].board = a] /\ a.is \in {"board", "refused", "outage"}
      <4>1. /\ Answer("board", {truth}).is = "board" /\ Answer("refused", Nothing).is = "refused"
            /\ Answer("outage", Nothing).is = "outage"
        BY DEF Answer
      <4>2. PICK a \in (IF up THEN {Answer("board", {truth}), Answer("refused", Nothing)} ELSE {Answer("outage", Nothing)}) :
              polls' = [polls EXCEPT ![i].board = a]
        BY <2>1 DEF AnswersBoard
      <4>3. a.is \in {"board", "refused", "outage"}
        BY <4>1
      <4> QED
        BY <4>2, <4>3
    <3>2. LET p == [polls[i] EXCEPT !.board = a] IN PollOK(p) /\ p.immediate = polls[i].immediate
      BY <1>1, <3>1 DEF PollOK
    <3> QED
      BY <3>1, <3>2
  <2>2. CASE AnswersSelf(i)
    <3>1. PICK a : polls' = [polls EXCEPT ![i].self = a]
      BY <2>2 DEF AnswersSelf
    <3>2. LET p == [polls[i] EXCEPT !.self = a] IN PollOK(p) /\ p.immediate = polls[i].immediate
      BY <1>1, <3>1 DEF PollOK
    <3> QED
      BY <3>1, <3>2
  <2> QED
    BY <2>1, <2>2
<1>3. PICK p : /\ polls' = [polls EXCEPT ![i] = p] /\ PollOK(p) /\ p.immediate = polls[i].immediate
  BY <1>2
<1> DEFINE T == S \cup {p}
<1>4. polls \in Seq(T) /\ p \in T
  BY <1>1
<1> HIDE DEF S, T
<1>5. polls' \in Seq(T)
  BY <1>3, <1>4
<1>6. IsASequence(polls')
  BY <1>5, SequenceIs
<1> QED
  BY <1>3, <1>4, <1>6 DEF PagesTypes

LEMMA SettlesComing ==
  ASSUME PagesTypes, NEW i \in DOMAIN polls, Settles(i)
  PROVE  /\ IsASequence(polls') /\ \A j \in DOMAIN polls' : PollOK(polls'[j])
         /\ visible /\ Coming => Coming'
<1> DEFINE S == {polls[j] : j \in DOMAIN polls}
<1>1. polls \in Seq(S)
  BY DEF PagesTypes, IsASequence
<1> HIDE DEF S
<1>2. polls' = RemoveAt(polls, i)
  BY DEF Settles
<1>3. /\ polls' \in Seq(S) /\ Len(polls') = Len(polls) - 1 /\ DOMAIN polls' = 1..Len(polls) - 1
      /\ \A j \in 1..Len(polls) - 1 : polls'[j] = IF j < i THEN polls[j] ELSE polls[j + 1]
      /\ Len(polls) \in Nat /\ DOMAIN polls = 1..Len(polls)
  BY <1>1, <1>2, OneOutOfASequence
<1>4. IsASequence(polls')
  BY <1>3, SequenceIs
<1>5. ASSUME NEW j \in DOMAIN polls' PROVE PollOK(polls'[j])
  <2>1. polls'[j] \in {polls[j], polls[j + 1]} /\ j \in DOMAIN polls /\ j + 1 \in DOMAIN polls
    BY <1>3
  <2> QED
    BY <2>1 DEF PagesTypes
<1>6. ASSUME visible, Coming PROVE Coming'
  <2>1. timer' = IF polls[i].immediate THEN timer ELSE visible
    BY DEF Settles, ScheduleNextPoll
  <2>2. CASE ~polls[i].immediate \/ timer
    BY <1>6, <2>1, <2>2 DEF Coming
  <2>3. CASE polls[i].immediate /\ ~timer
    <3>1. PICK k \in DOMAIN polls : ~polls[k].immediate
      BY <1>6, <2>3 DEF Coming
    <3>2. k # i
      BY <2>3, <3>1
    <3>3. \E j \in DOMAIN polls' : polls'[j] = polls[k]
      <4>1. CASE k < i
        <5>1. k \in DOMAIN polls' /\ polls'[k] = polls[k]
          BY <1>3, <4>1
        <5> QED
          BY <5>1
      <4>2. CASE k > i
        <5>1. k - 1 \in DOMAIN polls' /\ polls'[k - 1] = polls[(k - 1) + 1] /\ (k - 1) + 1 = k
          BY <1>3, <4>2
        <5> QED
          BY <5>1
      <4> QED
        BY <1>3, <3>2, <4>1, <4>2
    <3> QED
      BY <3>1, <3>3 DEF Coming
  <2> QED
    BY <2>2, <2>3
<1> QED
  BY <1>4, <1>5, <1>6

(* A page's failures are counted from a moment no earlier than its last    *)
(* board.                                                                  *)
SinceOK == page.since = Nothing \/ \E x \in Nat : page.since = {x} /\ lastGood <= x /\ x <= time
ClockOK == time \in Nat /\ lastGood \in Nat /\ lastGood <= time
Earned == page.error => time - lastGood >= Grace

PagesInv == PagesTypes /\ PollingGoesOn /\ ClockOK /\ SinceOK /\ Earned

LEMMA GraceIsANumber == Grace \in Nat
BY BoardAssumption

LEMMA PagesInitially == BoardInit => PagesInv
<1> SUFFICES ASSUME BoardInit PROVE PagesInv
  OBVIOUS
<1>1. DOMAIN page = PageFields /\ page.booted = "no" /\ page.since = Nothing /\ page.error = FALSE
  BY DEF BoardInit, PageFields
<1>2. polls = <<>> /\ IsASequence(polls)
  BY SequenceIs, EmptySeq DEF BoardInit
<1>3. PagesTypes
  BY <1>1, <1>2 DEF PagesTypes
<1> QED
  BY <1>1, <1>3 DEF BoardInit, PagesInv, PollingGoesOn, ClockOK, SinceOK, Earned

SamePage == DOMAIN page' = PageFields /\ page'.error = page.error /\ page'.since = page.since

(* A step that leaves the polling alone, or polls once more at once.       *)
LEMMA QuietStep ==
  ASSUME PagesInv, SamePage, page'.booted = page.booted,
         UNCHANGED <<visible, time, timer, ticking, lastGood>>,
         UNCHANGED polls \/ Refresh(TRUE)
  PROVE  PagesInv'
<1>1. PagesTypes /\ PollingGoesOn
  BY DEF PagesInv
<1>2. PagesTypes' /\ (Coming => Coming')
  <2>1. CASE UNCHANGED polls
    BY <1>1, <2>1 DEF PagesTypes, SamePage, Coming, IsASequence, PollOK
  <2>2. CASE Refresh(TRUE)
    BY <1>1, <2>2, AskingAgain DEF PagesTypes, SamePage, Coming
  <2> QED
    BY <2>1, <2>2
<1>3. PollingGoesOn'
  BY <1>1, <1>2 DEF PollingGoesOn, Coming
<1> QED
  BY <1>2, <1>3 DEF PagesInv, ClockOK, SinceOK, Earned, SamePage

LEMMA BootsKeeps ==
  ASSUME PagesInv, Boots
  PROVE  PagesInv'
<1>1. /\ PagesTypes /\ page.booted = "no"
      /\ UNCHANGED <<visible, time, timer, lastGood>>
  BY DEF PagesInv, Boots, notes
<1>2. SamePage
  BY <1>1 DEF Boots, SamePage, PagesTypes, PageFields
<1>3. PagesTypes' /\ PollingGoesOn'
  <2>1. CASE page'.booted = "fatal" /\ UNCHANGED polls
    BY <1>1, <1>2, <2>1 DEF PagesTypes, SamePage, PollingGoesOn, IsASequence, PollOK
  <2>2. CASE ticking' = visible /\ Refresh(FALSE)
    BY <1>1, <1>2, <2>2, AskingAgain DEF PagesTypes, SamePage, PollingGoesOn
  <2> QED
    BY <1>1, <2>1, <2>2 DEF Boots, PagesTypes, PageFields
<1> QED
  BY <1>1, <1>2, <1>3 DEF PagesInv, ClockOK, SinceOK, Earned, SamePage

LEMMA AnswersKeep ==
  ASSUME PagesInv, NEW i \in DOMAIN polls, AnswersBoard(i) \/ AnswersSelf(i)
  PROVE  PagesInv'
<1>1. PagesTypes /\ UNCHANGED <<visible, time, page, timer, ticking, lastGood>>
  BY DEF PagesInv, AnswersBoard, AnswersSelf, pace, notes
<1>2. /\ IsASequence(polls') /\ \A j \in DOMAIN polls' : PollOK(polls'[j])
      /\ DOMAIN polls' = DOMAIN polls /\ \A j \in DOMAIN polls : polls'[j].immediate = polls[j].immediate
  BY <1>1, AnswersComing
<1>3. PagesTypes' /\ PollingGoesOn'
  BY <1>1, <1>2 DEF PagesInv, PagesTypes, PollingGoesOn
<1> QED
  BY <1>1, <1>3 DEF PagesInv, ClockOK, SinceOK, Earned

LEMMA PollDueKeeps ==
  ASSUME PagesInv, PollDue
  PROVE  PagesInv'
<1>1. PagesTypes /\ Refresh(FALSE) /\ UNCHANGED <<visible, time, page, ticking, lastGood>>
  BY DEF PagesInv, PollDue, notes
<1>2. PagesTypes' /\ PollingGoesOn'
  BY <1>1, AskingAgain DEF PagesInv, PagesTypes, PollingGoesOn
<1> QED
  BY <1>1, <1>2 DEF PagesInv, ClockOK, SinceOK, Earned

LEMMA ShowsKeeps ==
  ASSUME PagesInv, Shows
  PROVE  PagesInv'
<1>1. PagesTypes /\ UNCHANGED <<time, page, timer, lastGood>>
  BY DEF PagesInv, Shows, notes
<1>2. PagesTypes' /\ PollingGoesOn'
  <2>1. CASE page.booted = "yes"
    <3>1. ticking' = TRUE /\ Refresh(FALSE)
      BY <2>1 DEF Shows
    <3> QED
      BY <1>1, <3>1, AskingAgain DEF PagesTypes, PollingGoesOn
  <2>2. CASE page.booted # "yes"
    BY <1>1, <2>2 DEF Shows, PagesTypes, PollingGoesOn, IsASequence, PollOK
  <2> QED
    BY <2>1, <2>2
<1> QED
  BY <1>1, <1>2 DEF PagesInv, ClockOK, SinceOK, Earned

LEMMA HidesKeeps ==
  ASSUME PagesInv, Hides
  PROVE  PagesInv'
<1>1. PagesTypes /\ visible' = FALSE /\ UNCHANGED <<time, page, polls, lastGood>>
  BY DEF PagesInv, Hides, notes
<1>2. PagesTypes' /\ PollingGoesOn'
  BY <1>1 DEF PagesTypes, PollingGoesOn, IsASequence, PollOK
<1> QED
  BY <1>1, <1>2 DEF PagesInv, ClockOK, SinceOK, Earned

LEMMA ClockKeeps ==
  ASSUME PagesInv, ClockTicks
  PROVE  PagesInv'
<1>1. PagesTypes /\ time' = time + 1 /\ UNCHANGED <<visible, page, polls, timer, ticking, lastGood>>
  BY DEF PagesInv, ClockTicks, pace, notes
<1>2. PagesTypes' /\ PollingGoesOn'
  BY <1>1 DEF PagesInv, PagesTypes, PollingGoesOn, IsASequence, PollOK
<1>3. ClockOK' /\ SinceOK' /\ Earned'
  BY <1>1, GraceIsANumber DEF PagesInv, ClockOK, SinceOK, Earned
<1> QED
  BY <1>2, <1>3 DEF PagesInv

(* What an answer makes of the page.                                       *)
LEMMA Noting ==
  ASSUME PagesInv, NEW mine, NEW answer, answer.is \in {"board", "refused", "outage"}
  PROVE  LET q == NotesBoard(NotesSelf(page, mine), answer)
         IN  /\ DOMAIN q = PageFields /\ q.booted = page.booted
             /\ answer.is = "board" => ~q.error /\ q.since = Nothing
             /\ answer.is = "refused" => (q.error => page.error) /\ q.since = page.since
             /\ answer.is = "outage" =>
                  \E x \in Nat : /\ q.since = {x} /\ lastGood <= x /\ x <= time
                                 /\ q.error => page.error \/ time - x >= Grace
<1> DEFINE p == NotesSelf(page, mine)
<1>1. DOMAIN p = PageFields /\ p.booted = page.booted /\ p.error = page.error /\ p.since = page.since
  BY DEF NotesSelf, PagesInv, PagesTypes, PageFields
<1> HIDE DEF p
<1>2. CASE answer.is = "board"
  <2>1. NotesBoard(p, answer) = Arrives(p, answer.of)
    BY <1>2 DEF NotesBoard
  <2>2. /\ DOMAIN Arrives(p, answer.of) = PageFields /\ Arrives(p, answer.of).booted = p.booted
        /\ Arrives(p, answer.of).error = FALSE /\ Arrives(p, answer.of).since = Nothing
    BY <1>1 DEF Arrives, PageFields
  <2> QED
    BY <1>1, <1>2, <2>1, <2>2 DEF p
<1>3. CASE answer.is = "refused"
  <2>1. NotesBoard(p, answer) = p
    BY <1>3 DEF NotesBoard
  <2> QED
    BY <1>1, <1>3, <2>1 DEF p
<1>4. CASE answer.is = "outage"
  <2> DEFINE x == IF p.since = Nothing THEN time ELSE The(p.since)
  <2>1. NotesBoard(p, answer) = Fails(p)
    BY <1>4 DEF NotesBoard
  <2>2. x \in Nat /\ lastGood <= x /\ x <= time
    <3>1. CASE p.since = Nothing
      BY <3>1 DEF PagesInv, ClockOK
    <3>2. CASE p.since # Nothing
      <4>1. PICK y \in Nat : page.since = {y} /\ lastGood <= y /\ y <= time
        BY <1>1, <3>2 DEF PagesInv, SinceOK
      <4>2. x = y
        BY <1>1, <3>2, <4>1 DEF The
      <4> QED
        BY <4>1, <4>2
    <3> QED
      BY <3>1, <3>2
  <2>3. Fails(p) = IF OutageState(x) = "down" THEN [p EXCEPT !.since = {x}, !.error = TRUE, !.board = Nothing]
                   ELSE [p EXCEPT !.since = {x}]
    BY DEF Fails
  <2> HIDE DEF x
  <2>4. CASE time - x >= Grace
    <3>1. Fails(p) = [p EXCEPT !.since = {x}, !.error = TRUE, !.board = Nothing]
      BY <2>3, <2>4 DEF OutageState
    <3>2. DOMAIN Fails(p) = PageFields /\ Fails(p).booted = p.booted /\ Fails(p).since = {x} /\ Fails(p).error = TRUE
      BY <1>1, <3>1 DEF PageFields
    <3> QED
      BY <1>1, <1>4, <2>1, <2>2, <2>4, <3>2 DEF p
  <2>5. CASE ~(time - x >= Grace)
    <3>1. Fails(p) = [p EXCEPT !.since = {x}]
      BY <2>3, <2>5 DEF OutageState
    <3>2. DOMAIN Fails(p) = PageFields /\ Fails(p).booted = p.booted /\ Fails(p).since = {x} /\ Fails(p).error = p.error
      BY <1>1, <3>1 DEF PageFields
    <3> QED
      BY <1>1, <1>4, <2>1, <2>2, <3>2 DEF p
  <2> QED
    BY <2>4, <2>5
<1> QED
  BY <1>2, <1>3, <1>4

LEMMA SettlesKeeps ==
  ASSUME PagesInv, NEW i \in DOMAIN polls, Settles(i)
  PROVE  PagesInv'
<1> DEFINE answer == polls[i].board
<1>1. PagesTypes /\ PollingGoesOn /\ ClockOK /\ SinceOK /\ Earned
  BY DEF PagesInv
<1>2. answer.is \in {"board", "refused", "outage"}
  BY <1>1 DEF PagesTypes, PollOK, Settles
<1>3. /\ page' = NotesBoard(NotesSelf(page, polls[i].self), answer)
      /\ lastGood' = IF answer.is = "board" THEN time ELSE lastGood
      /\ UNCHANGED <<visible, time, ticking>>
  BY DEF Settles
<1> HIDE DEF answer
<1>4. /\ DOMAIN page' = PageFields /\ page'.booted = page.booted
      /\ answer.is = "board" => ~page'.error /\ page'.since = Nothing
      /\ answer.is = "refused" => (page'.error => page.error) /\ page'.since = page.since
      /\ answer.is = "outage" =>
           \E x \in Nat : /\ page'.since = {x} /\ lastGood <= x /\ x <= time
                          /\ page'.error => page.error \/ time - x >= Grace
  <2> DEFINE q == NotesBoard(NotesSelf(page, polls[i].self), answer)
  <2>1. /\ DOMAIN q = PageFields /\ q.booted = page.booted
        /\ answer.is = "board" => ~q.error /\ q.since = Nothing
        /\ answer.is = "refused" => (q.error => page.error) /\ q.since = page.since
        /\ answer.is = "outage" =>
             \E x \in Nat : /\ q.since = {x} /\ lastGood <= x /\ x <= time
                            /\ q.error => page.error \/ time - x >= Grace
    BY <1>2, Noting
  <2>2. page' = q
    BY <1>3
  <2> HIDE DEF q
  <2> QED
    BY <2>1, <2>2
<1>5. PagesTypes' /\ (visible /\ Coming => Coming')
  BY <1>1, <1>4, SettlesComing DEF PagesTypes
<1>6. PollingGoesOn'
  BY <1>1, <1>3, <1>4, <1>5 DEF PollingGoesOn, Coming
<1>7. ClockOK' /\ SinceOK' /\ Earned'
  <2>1. CASE answer.is = "board"
    BY <1>1, <1>3, <1>4, <2>1, GraceIsANumber DEF ClockOK, SinceOK, Earned
  <2>2. CASE answer.is = "refused"
    BY <1>1, <1>3, <1>4, <2>2 DEF ClockOK, SinceOK, Earned
  <2>3. CASE answer.is = "outage"
    <3>1. lastGood' = lastGood /\ time' = time
      BY <1>3, <2>3
    <3>2. PICK x \in Nat : /\ page'.since = {x} /\ lastGood <= x /\ x <= time
                           /\ page'.error => page.error \/ time - x >= Grace
      BY <1>4, <2>3
    <3>3. Earned'
      <4>1. CASE page'.error => page.error
        BY <1>1, <3>1, <4>1 DEF Earned
      <4>2. CASE time - x >= Grace
        BY <1>1, <3>1, <3>2, <4>2, GraceIsANumber DEF Earned, ClockOK
      <4> QED
        BY <3>2, <4>1, <4>2
    <3> QED
      BY <1>1, <3>1, <3>2, <3>3 DEF ClockOK, SinceOK
  <2> QED
    BY <1>2, <2>1, <2>2, <2>3
<1> QED
  BY <1>5, <1>6, <1>7 DEF PagesInv

(* The person's clicks and what comes of them: the fields that matter here *)
(* are not touched, and a success polls at once.                           *)
LEMMA PersonKeeps ==
  ASSUME PagesInv,
         \/ PicksProfile \/ Reclaims \/ StartsRename \/ FinishesRename \/ ArmsOrDisarms
         \/ HoldBegins \/ HoldEnds \/ ClearsPanic
  PROVE  PagesInv'
<1>1. DOMAIN page = PageFields
  BY DEF PagesInv, PagesTypes
<1>2. UNCHANGED <<visible, time, timer, ticking, lastGood, polls>>
  BY DEF PicksProfile, Reclaims, StartsRename, FinishesRename, ArmsOrDisarms, HoldBegins, HoldEnds, ClearsPanic, pace, notes
<1>3. \/ UNCHANGED page
      \/ \E f \in {"busy", "reclaiming", "editing", "holding"}, v \in BOOLEAN : page' = [page EXCEPT ![f] = v]
  BY DEF PicksProfile, Reclaims, StartsRename, FinishesRename, ArmsOrDisarms, HoldBegins, HoldEnds, ClearsPanic
<1>4. SamePage /\ page'.booted = page.booted
  BY <1>1, <1>3 DEF SamePage, PageFields
<1> QED
  BY <1>2, <1>4, QuietStep

LEMMA AskedKeeps ==
  ASSUME PagesInv, BrokerAsked \/ AsksInOutage
  PROVE  PagesInv'
<1>1. DOMAIN page = PageFields
  BY DEF PagesInv, PagesTypes
<1>2. UNCHANGED <<visible, time, timer, ticking, lastGood>>
  BY DEF BrokerAsked, AsksInOutage, pace
<1>3. Follows(TRUE) \/ Follows(FALSE)
  BY DEF BrokerAsked, AsksInOutage
<1>4. ASSUME NEW said \in BOOLEAN, Follows(said)
      PROVE  /\ UNCHANGED polls \/ Refresh(TRUE)
             /\ SamePage /\ page'.booted = page.booted
  BY <1>1, <1>4 DEF Follows, SamePage, PageFields
<1> QED
  BY <1>2, <1>3, <1>4, QuietStep

LEMMA OutsideKeeps ==
  ASSUME PagesInv, LinkDrops \/ LinkReturns \/ HappensElsewhere \/ UNCHANGED boardVars
  PROVE  PagesInv'
<1>1. DOMAIN page = PageFields
  BY DEF PagesInv, PagesTypes
<1>2. UNCHANGED <<visible, time, page, timer, ticking, lastGood, polls>>
  BY DEF LinkDrops, LinkReturns, HappensElsewhere, boardVars, pace, notes
<1> QED
  BY <1>1, <1>2, QuietStep DEF SamePage

LEMMA PagesStep ==
  ASSUME PagesInv, [BoardNext]_boardVars
  PROVE  PagesInv'
<1>1. ASSUME NEW i \in DOMAIN polls, AnswersBoard(i) \/ AnswersSelf(i) \/ Settles(i)
      PROVE  PagesInv'
  BY <1>1, AnswersKeep, SettlesKeeps
<1> QED
  BY <1>1, BootsKeeps, PollDueKeeps, ShowsKeeps, HidesKeeps, ClockKeeps, PersonKeeps, AskedKeeps, OutsideKeeps
     DEF BoardNext

(* A visible page always has its next poll coming, however its polls       *)
(* failed, overlapped or were hidden away from, and its clock runs         *)
(* (options.js, refresh, scheduleNextPoll and bindVisibility).             *)
THEOREM ThePageGoesOnPolling == BoardSpec => []PollingGoesOn
<1>1. PagesInv => PollingGoesOn
  BY DEF PagesInv
<1> QED
  BY <1>1, PagesInitially, PagesStep, PTL DEF BoardSpec

(* The outage panel is up only when no board has arrived for the grace,    *)
(* and that whichever of the polls under way is answered first             *)
(* (options.js, refresh; lib/outage.js).                                   *)
THEOREM TheOutageIsEarned == BoardSpec => []OutageIsEarned
<1>1. PagesInv => OutageIsEarned
  BY DEF PagesInv, Earned, OutageIsEarned, Status
<1> QED
  BY <1>1, PagesInitially, PagesStep, PTL DEF BoardSpec
=============================================================================
