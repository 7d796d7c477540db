----------------------------- MODULE RouteTable -----------------------------
(***************************************************************************)
(* The broker's route table (bridged/routes.mjs), the durable store of     *)
(* profile records behind it (ProfileStore, bridged/profiles.mjs), and the *)
(* handlers of bridged/index.mjs that change either: REGISTER, claim,      *)
(* rename, the dropped claim, the closed connection, and a broker restart. *)
(*                                                                         *)
(* Every handler here runs to completion on the broker's single thread, so *)
(* one action is one handler: the generation bump, the attach, the         *)
(* re-resolution of EVERY label in the table, the callbacks of the routes  *)
(* that moved, and the saves.  The one handler with an await, REGISTER, is *)
(* modelled from the point where its awaits are over (Register and         *)
(* RegisterAbandoned).                                                     *)
(*                                                                         *)
(* A label is the sequence of its hyphen-separated parts: appending "-x"   *)
(* is appending <<x>>, and two labels are the same string exactly when     *)
(* they are the same sequence.                                             *)
(***************************************************************************)
EXTENDS Naturals, Sequences, FiniteSets

CONSTANTS
    Installs,       \* installIds: one per extension instance
    Rows,           \* rows of a browser's Local State: a directory and who it names
    Parts,          \* the parts labels are made of
    Dir,            \* Dir[r]: slugify(profileDir) of row r
    Derived,        \* Derived[r]: the label deriveLabel gives a claimed row r
    InstallHash,    \* shortHash(installId)
    KeyHash,        \* shortHash(unclaimedKey(installId))
    Unclaimed,      \* <vendor>-unclaimed-<hex>, the label of an unclaimed route
    Custom,         \* the names an operator may type
    MaxGen,         \* bound: MaxGen[i] is the last generation i reaches
    Followed,       \* the installs a tab handle of which is followed
    SavesFail,      \* TRUE: a write of state.json may fail (or the broker die before it)
    NoRow, NoRoute, NoHandle

NoLabel == << >>
Label   == Seq(Parts)

ASSUME RouteTableAssumption ==
    /\ NoRow \notin Rows
    /\ Dir \in [Rows -> Parts]
    /\ Derived \in [Rows -> Label]
    /\ InstallHash \in [Installs -> Parts]
    /\ KeyHash \in [Installs -> Parts]
    /\ Unclaimed \in [Installs -> Label]
    /\ Custom \subseteq Label
    /\ \A r \in Rows : Derived[r] # NoLabel
    /\ \A i \in Installs : Unclaimed[i] # NoLabel
    /\ NoLabel \notin Custom
    /\ MaxGen \in [Installs -> Nat]
    /\ Followed \subseteq Installs
    /\ SavesFail \in BOOLEAN

RowOrNone == Rows \cup {NoRow}

(* A live route: who it is joined to, the name it wants, the name it       *)
(* answers to, and the generation baked into its tab handles.  A route is  *)
(* claimed exactly when it is joined to a row.                             *)
Route == [row: RowOrNone, desired: Label, label: Label, custom: BOOLEAN, gen: Nat]

(* A profile record of the store; an install never seen has label NoLabel. *)
Entry == [row: RowOrNone, desired: Label, label: Label, custom: BOOLEAN,
          changed: BOOLEAN, gen: Nat]

Blank == [row |-> NoRow, desired |-> NoLabel, label |-> NoLabel,
          custom |-> FALSE, changed |-> FALSE, gen |-> 0]

(* One tab handle an agent holds: the label and generation written in it,  *)
(* whose it is, and (history) whether the session it was minted in is      *)
(* still the one the owner is in, under the name it had.                   *)
Handle == [owner: Installs, label: Label, gen: Nat, current: BOOLEAN]

ASSUME NoneAssumption == NoRoute \notin Route /\ NoHandle \notin Handle

VARIABLES
    routes,     \* #byInstall: installId -> route
    store,      \* ProfileStore #data: installId -> record, in memory
    disk,       \* state.json: the last store that a save wrote
    handle,     \* a tab handle some agent still holds
    chosen      \* history: the name the operator last gave an install

vars == <<routes, store, disk, handle, chosen>>

TypeOK ==
    /\ routes \in [Installs -> Route \cup {NoRoute}]
    /\ store \in [Installs -> Entry]
    /\ disk \in [Installs -> Entry]
    /\ handle \in Handle \cup {NoHandle}
    /\ chosen \in [Installs -> Label]

(***************************************************************************)
(* The table as a value.  A broker b is [routes, store]: what one handler  *)
(* reads and rewrites.                                                     *)
(***************************************************************************)
Live(rt) == {i \in Installs : rt[i] # NoRoute}

(* The routes that want the same bare name as i. *)
Group(rt, i) == {j \in Live(rt) : rt[j].desired = rt[i].desired}

Suffixed(rt, i) ==
    Append(rt[i].desired, IF rt[i].row = NoRow THEN KeyHash[i] ELSE Dir[rt[i].row])

(* Mutant: a name the operator chose is kept bare in a collision.          *)
CustomKeepsBareName(rt, i) ==
    IF Group(rt, i) = {i} \/ rt[i].custom THEN rt[i].desired ELSE Suffixed(rt, i)

Proposal(rt, i) ==
    IF Group(rt, i) = {i} THEN rt[i].desired
    ELSE IF \E j \in Group(rt, i) \ {i} : Suffixed(rt, j) = Suffixed(rt, i)
         THEN Append(rt[i].desired, InstallHash[i])
         ELSE Suffixed(rt, i)

(* Mutant: a proposal made twice is everybody's name.                      *)
NoSafetyNet(rt, i) == Proposal(rt, i)

(* The final safety net: a proposal made twice gets the install's hash. *)
Resolved(rt, i) ==
    IF \E j \in Live(rt) \ {i} : Proposal(rt, j) = Proposal(rt, i)
    THEN Append(Proposal(rt, i), InstallHash[i])
    ELSE Proposal(rt, i)

(* Mutants: a move that keeps the generation; one that saves no name.      *)
MoveKeepsGeneration(entry, desired, label) ==
    [entry EXCEPT !.label = label, !.desired = desired]

MoveSavesNoName(entry, desired, label) == [entry EXCEPT !.gen = @ + 1]

(* onLabelChanged: the record of a route that moved to another label.      *)
OnLabelChanged(entry, desired, label) ==
    [entry EXCEPT !.gen = @ + 1, !.label = label, !.desired = desired]

(* #resolveTable: every route gets its label, and a route that had another *)
(* one before has moved.                                                   *)
ResolveTable(b) ==
    LET live   == Live(b.routes)
        before == [i \in live |-> b.routes[i].label]
        after  == [i \in live |-> Resolved(b.routes, i)]
        moved  == {i \in live : before[i] \notin {NoLabel, after[i]}}
        record == [i \in Installs |->
                     IF i \in moved
                     THEN OnLabelChanged(b.store[i], b.routes[i].desired, after[i])
                     ELSE b.store[i]]
        route(i) == [b.routes[i] EXCEPT
                        !.label = after[i],
                        !.gen = IF i \in moved THEN record[i].gen ELSE @]
    IN  IF after = before THEN b
        ELSE [routes |-> [i \in Installs |-> IF i \in live THEN route(i) ELSE NoRoute],
              store  |-> record]

(* ProfileStore.nextGeneration, for an install with no route (yet).        *)
NextGeneration(b, i) == [b EXCEPT !.store[i].gen = @ + 1]

(* route.generation = store.nextGeneration(route.installId)                *)
BumpRoute(b, i) ==
    [b EXCEPT !.store[i].gen = @ + 1, !.routes[i].gen = b.store[i].gen + 1]

Attach(b, i, row, desired, custom) ==
    ResolveTable([b EXCEPT !.routes[i] =
        [row |-> row, desired |-> desired, label |-> NoLabel,
         custom |-> custom, gen |-> b.store[i].gen]])

Detach(b, i) == ResolveTable([b EXCEPT !.routes[i] = NoRoute])

SetDesiredLabel(b, i, desired, custom) ==
    ResolveTable([b EXCEPT !.routes[i].desired = desired, !.routes[i].custom = custom])

(* store.remember of the route's name, and of its name and its claim.      *)
RememberName(b, i) ==
    [b EXCEPT !.store[i] = [@ EXCEPT !.desired = b.routes[i].desired,
                                     !.label = b.routes[i].label,
                                     !.custom = b.routes[i].custom]]

Remember(b, i, changed) ==
    LET named == RememberName(b, i)
    IN  [named EXCEPT !.store[i].row = b.routes[i].row, !.store[i].changed = changed]

DefaultLabelFor(i, row) == IF row = NoRow THEN Unclaimed[i] ELSE Derived[row]

(* Mutant: the operator's name outlives the claim.                         *)
DropKeepsCustomName(b, i) ==
    LET unjoined == BumpRoute([b EXCEPT !.routes[i].row = NoRow], i)
    IN  IF b.routes[i].custom THEN Remember(unjoined, i, TRUE)
        ELSE Remember(SetDesiredLabel(unjoined, i, Unclaimed[i], FALSE), i, TRUE)

(* Every consequence a dropped claim has in the table and in the store.    *)
DropClaim(b, i) ==
    LET unjoined == [b EXCEPT !.routes[i].row = NoRow]
        renamed  == SetDesiredLabel(BumpRoute(unjoined, i), i, Unclaimed[i], FALSE)
    IN  Remember(renamed, i, TRUE)

ForgetClaim(e) == [e EXCEPT !.row = NoRow]

(***************************************************************************)
(* What resolveIdentity can say of a registering install, given its saved  *)
(* record: the row it joined (or none), whether a claim was honored        *)
(* without being checked, whether drift dropped it, and whether the claim  *)
(* was forgotten in the store on the way (drift, or a directory that is    *)
(* gone).  An honored row keeps the claim's directory; any row may be      *)
(* joined by an exact address match.                                       *)
(***************************************************************************)
Verdict == [row: RowOrNone, unverified: BOOLEAN, drift: BOOLEAN, forgets: BOOLEAN]

Verdicts(e) ==
    {v \in Verdict :
        /\ v.forgets => e.row # NoRow
        /\ v.drift => v.forgets /\ v.row = NoRow
        /\ v.unverified => /\ ~v.forgets
                           /\ e.row # NoRow /\ v.row # NoRow
                           /\ Dir[v.row] = Dir[e.row]}

(* The record as resolveIdentity leaves it. *)
AfterVerdict(e, v) ==
    IF ~v.forgets THEN e
    ELSE [ForgetClaim(e) EXCEPT !.changed = @ \/ v.drift]

IdentityChanged(e, v) == v.drift \/ (e.changed /\ v.row = NoRow)

LabelIsCustom(e, v) == e.custom /\ ~IdentityChanged(e, v)

RegisterLabel(i, e, v) ==
    IF LabelIsCustom(e, v) THEN e.label
    ELSE IF v.unverified /\ e.desired # NoLabel THEN e.desired
    ELSE DefaultLabelFor(i, v.row)

(***************************************************************************)
(* setLabel's refusals: another live route holds or wants the name, or a   *)
(* profile that is known but not connected does.                           *)
(***************************************************************************)
LabelHeld(i, label) ==
    \/ \E j \in Live(routes) \ {i} : label \in {routes[j].label, routes[j].desired}
    \/ \E j \in Installs \ (Live(routes) \cup {i}) :
          label \in {store[j].label, store[j].desired}

-----------------------------------------------------------------------------
(* What state.json may hold if saves fail, or the broker dies between two: *)
(* every remember is a save of its own, one route's after the other's and  *)
(* its generation before its name, so a record is as one of the stores has *)
(* it, and so is its generation.                                           *)
Torn(stores) ==
    {[i \in Installs |-> [of[i][1][i] EXCEPT !.gen = of[i][2][i].gen]] :
        of \in [Installs -> stores \X stores]}

(* The broker becomes b.  saves are the stores the handler wrote before    *)
(* its last save.                                                          *)
Become(b, saves) ==
    /\ routes' = b.routes
    /\ store' = b.store
    /\ disk' \in IF SavesFail THEN Torn({disk, b.store} \cup saves) ELSE {b.store}
    /\ \A i \in Installs : b.store[i].gen <= MaxGen[i]

(* The sessions that ended between routes and b: those in ended, and that  *)
(* of every route the table moved to another name.                         *)
Renamed(b) == {i \in Live(routes) \cap Live(b.routes) :
                  b.routes[i].label # routes[i].label}

EndSessions(ended, b) ==
    handle' = IF handle # NoHandle /\ handle.owner \in ended \cup Renamed(b)
              THEN [handle EXCEPT !.current = FALSE]
              ELSE handle

(* handleRegister, from the end of its awaits, for a connection that is    *)
(* still open outside panic.  A live route of i is replaced.               *)
Register(i, v) ==
    LET entry    == AfterVerdict(store[i], v)
        resolved == [routes |-> routes, store |-> [store EXCEPT ![i] = entry]]
        bumped   == NextGeneration(resolved, i)
        attached == Attach(bumped, i, v.row, RegisterLabel(i, entry, v),
                           LabelIsCustom(entry, v))
        changed  == IdentityChanged(entry, v)
        settled  == IF changed THEN DropClaim(attached, i) ELSE attached
        b        == Remember(settled, i, changed)
    IN  /\ Become(b, {resolved.store, bumped.store, attached.store, settled.store})
        /\ EndSessions({i}, b)
        /\ chosen' = [chosen EXCEPT ![i] = IF b.store[i].custom THEN @ ELSE NoLabel]

(* handleRegister whose connection closed, or which panic held, during its *)
(* awaits: resolveIdentity has already forgotten the claim it would drop.  *)
RegisterAbandoned(i, v) ==
    LET b == [routes |-> routes, store |-> [store EXCEPT ![i] = AfterVerdict(@, v)]]
    IN  /\ v.forgets
        /\ Become(b, {})
        /\ UNCHANGED <<handle, chosen>>

(* releaseConnection, an eviction by the heartbeat, or panic: the route    *)
(* goes, and a name its going leaves free goes back to whoever wants it.   *)
Disconnect(i) ==
    LET b == Detach([routes |-> routes, store |-> store], i)
    IN  /\ i \in Live(routes)
        /\ Become(b, {})
        /\ EndSessions({}, b)
        /\ UNCHANGED chosen

(* claimProfile: the operator says which row this route is. *)
ClaimProfile(i, row) ==
    LET joined  == [routes |-> [routes EXCEPT ![i].row = row], store |-> store]
        bumped  == BumpRoute(joined, i)
        renamed == IF routes[i].custom THEN bumped
                   ELSE SetDesiredLabel(bumped, i, Derived[row], FALSE)
        b       == Remember(renamed, i, FALSE)
    IN  /\ i \in Live(routes)
        /\ Become(b, {bumped.store, renamed.store})
        /\ EndSessions({i}, b)
        /\ UNCHANGED chosen

(* setLabel: the operator renames this route. *)
SetLabel(i, label) ==
    LET bumped  == BumpRoute([routes |-> routes, store |-> store], i)
        renamed == SetDesiredLabel(bumped, i, label, TRUE)
        b       == RememberName(renamed, i)
    IN  /\ i \in Live(routes)
        /\ ~LabelHeld(i, label)
        /\ Become(b, {bumped.store, renamed.store})
        /\ EndSessions({i}, b)
        /\ chosen' = [chosen EXCEPT ![i] = label]

(* recheckIdentity found, on a heartbeat, that the person changed. *)
Drift(i) ==
    LET unjoined == [routes |-> [routes EXCEPT ![i].row = NoRow], store |-> store]
        bumped   == BumpRoute(unjoined, i)
        renamed  == SetDesiredLabel(bumped, i, Unclaimed[i], FALSE)
        b        == DropClaim([routes |-> routes, store |-> store], i)
    IN  /\ i \in Live(routes)
        /\ routes[i].row # NoRow
        /\ Become(b, {bumped.store, renamed.store})
        /\ EndSessions({i}, b)
        /\ chosen' = [chosen EXCEPT ![i] = NoLabel]

(* An agent is given a handle of a tab of i, and keeps it.  One handle is  *)
(* followed, whichever it is.                                              *)
Mint(i) ==
    /\ i \in Live(routes) \cap Followed
    /\ handle = NoHandle
    /\ handle' = [owner |-> i, label |-> routes[i].label, gen |-> routes[i].gen,
                  current |-> TRUE]
    /\ UNCHANGED <<routes, store, disk, chosen>>

(* The broker process ends, in whatever way, and a new one loads the file. *)
BrokerRestart ==
    /\ routes' = [i \in Installs |-> NoRoute]
    /\ store' = disk
    /\ handle' = IF handle = NoHandle THEN NoHandle ELSE [handle EXCEPT !.current = FALSE]
    /\ UNCHANGED <<disk, chosen>>

Init ==
    /\ routes = [i \in Installs |-> NoRoute]
    /\ store = [i \in Installs |-> Blank]
    /\ disk = store
    /\ handle = NoHandle
    /\ chosen = [i \in Installs |-> NoLabel]

Next ==
    \/ \E i \in Installs :
          \/ \E v \in Verdicts(store[i]) : Register(i, v) \/ RegisterAbandoned(i, v)
          \/ \E row \in Rows : ClaimProfile(i, row)
          \/ \E label \in Custom : SetLabel(i, label)
          \/ Disconnect(i)
          \/ Drift(i)
          \/ Mint(i)
    \/ BrokerRestart

Spec == Init /\ [][Next]_vars

-----------------------------------------------------------------------------
(* validateHandle: the handle names this route and this generation of it.  *)
Validates(h, i) ==
    /\ h # NoHandle
    /\ i \in Live(routes)
    /\ h.label = routes[i].label
    /\ h.gen = routes[i].gen

(* resolveAddress of a label: the route that answers to it, if any.        *)
Answers(i, label) == i \in Live(routes) /\ routes[i].label = label

(* No two live routes answer to one name ("Uniqueness is the one property  *)
(* that cannot bend", routes.mjs).                                         *)
LabelsUnique ==
    \A i, j \in Live(routes) : routes[i].label = routes[j].label => i = j

(* When routes want one name, none of them answers to it: an address that  *)
(* names it lands on none of the profiles it could mean ("instead of       *)
(* landing on one of them", routes.mjs).                                   *)
NoneHoldsTheNameTheyContest ==
    \A i \in Live(routes) :
        Group(routes, i) # {i} => routes[i].label # routes[i].desired

(* A name is an address: at most one profile answers to it, and none of    *)
(* those that want it if there are several (#applyLabels).                 *)
NamesAreUnambiguous == LabelsUnique /\ NoneHoldsTheNameTheyContest

(* A name that two routes want is nobody's ("the bare name resolves to     *)
(* NOTHING", routes.mjs).  The code does not keep this: README, section 9. *)
NobodyHoldsAContestedName ==
    \A i \in Live(routes) :
        Group(routes, i) # {i} => ~\E j \in Installs : Answers(j, routes[i].desired)

(* A handle is accepted by its own profile exactly while the session it    *)
(* was minted in lasts under the name it had: not after a reconnect, a     *)
(* claim, a rename, a move by somebody else's collision, a dropped claim,  *)
(* or a broker restart, and not refused before.                            *)
HandleLivesAsLongAsItsSession ==
    handle # NoHandle =>
        (handle.owner \in Live(routes) => (Validates(handle, handle.owner) <=> handle.current))

(* The store holds what is on the board: a restart, an absent line and     *)
(* setLabel's refusal of an absent name read what the live route had.      *)
StoreAgreesWithRoutes ==
    \A i \in Live(routes) :
        /\ store[i].label = routes[i].label
        /\ store[i].desired = routes[i].desired
        /\ store[i].custom = routes[i].custom
        /\ store[i].gen = routes[i].gen

(* While the install the operator named is connected and still has that    *)
(* name, nobody else answers to it ("a custom label always wins",          *)
(* DESIGN.md).  The code does not keep this: README, section 9.            *)
ChosenNameNeverReachesAnother ==
    \A i \in Live(routes), j \in Installs :
        (i # j /\ chosen[i] # NoLabel) => ~Answers(j, chosen[i])

(* "a handle from one profile can never be silently used against another"  *)
(* (protocol.mjs).  The code does not keep this: README, section 9.        *)
HandleNeverCrossesProfiles ==
    \A i \in Installs : Validates(handle, i) => handle.owner = i

(* A rename that is accepted is carried out as typed: the refusals leave   *)
(* no name through that the table would then suffix ("Refuse rather than   *)
(* silently appending a suffix", index.mjs).  The code does not keep this: *)
(* README, section 9.                                                      *)
RenameTakesTheTypedName ==
    [][\A i \in Installs :
          chosen'[i] # chosen[i] /\ chosen'[i] # NoLabel
              => routes'[i].label = chosen'[i]]_vars

(* Route i loses its claim because the person changed.                     *)
ClaimDropped(i) ==
    /\ routes'[i] # NoRoute
    /\ routes[i].row # NoRow /\ routes'[i].row = NoRow /\ store'[i].changed

NameReachesNobody(label) == \A j \in Live(routes)' : routes'[j].label # label

(* When a route loses its claim because the person changed, the name it    *)
(* answered to reaches nobody: not it, and not a route that moves into the *)
(* name it left ("its old name no longer addresses anything",              *)
(* profiles.mjs).  The code does not keep this: README, section 9.         *)
DroppedNameReachesNobody ==
    [][\A i \in Live(routes) :
          ClaimDropped(i) => NameReachesNobody(routes[i].label)]_vars

(* Every label is the one #resolveTable would give now.  A claim of a      *)
(* route with a custom name changes what it is suffixed with, and resolves *)
(* nothing: the board is then not settled until something else does.       *)
BoardIsSettled == \A j \in Live(routes) : routes[j].label = Resolved(routes, j)

(* On a settled board the name of a dropped claim does reach nobody, with  *)
(* all the moves the drop sets off.                                        *)
SettledNameReachesNobody ==
    [][\A i \in Live(routes) :
          BoardIsSettled /\ ClaimDropped(i) => NameReachesNobody(routes[i].label)]_vars
=============================================================================
