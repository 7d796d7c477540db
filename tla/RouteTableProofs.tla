-------------------------- MODULE RouteTableProofs --------------------------
(***************************************************************************)
(* What RouteTable guarantees for every number of installs, rows and       *)
(* names.  Table is the set of the values the handlers compute with; each  *)
(* operator on it preserves it, so each handler does.                      *)
(***************************************************************************)
EXTENDS RouteTable, SequenceTheorems, TLAPS

Table == [routes : [Installs -> Route \cup {NoRoute}], store : [Installs -> Entry]]

LEMMA ResolvedType ==
    ASSUME NEW rt \in [Installs -> Route \cup {NoRoute}], NEW i \in Live(rt)
    PROVE  Resolved(rt, i) \in Label
<1>1. i \in Installs /\ rt[i] \in Route
  BY DEF Live
<1>2. rt[i].desired \in Seq(Parts) /\ rt[i].row \in RowOrNone
  BY <1>1 DEF Route, Label
<1>3. ASSUME NEW s \in Seq(Parts), NEW x \in Parts
      PROVE  Append(s, x) \in Seq(Parts)
  BY AppendProperties
<1>4. Suffixed(rt, i) \in Seq(Parts)
  BY <1>1, <1>2, <1>3, RouteTableAssumption DEF Suffixed, RowOrNone
<1>5. Proposal(rt, i) \in Seq(Parts)
  BY <1>1, <1>2, <1>3, <1>4, RouteTableAssumption DEF Proposal
<1> QED
  BY <1>1, <1>3, <1>5, RouteTableAssumption DEF Resolved, Label

LEMMA ResolveTableType ==
    ASSUME NEW b \in Table
    PROVE  ResolveTable(b) \in Table
<1> DEFINE live   == Live(b.routes)
           before == [i \in live |-> b.routes[i].label]
           after  == [i \in live |-> Resolved(b.routes, i)]
           moved  == {i \in live : before[i] \notin {NoLabel, after[i]}}
           record == [i \in Installs |->
                        IF i \in moved
                        THEN OnLabelChanged(b.store[i], b.routes[i].desired, after[i])
                        ELSE b.store[i]]
           route(i) == [b.routes[i] EXCEPT
                           !.label = after[i],
                           !.gen = IF i \in moved THEN record[i].gen ELSE @]
<1>1. ASSUME NEW i \in live
      PROVE  i \in Installs /\ b.routes[i] \in Route /\ after[i] \in Label
  BY ResolvedType DEF Table, Live
<1>2. ASSUME NEW i \in Installs
      PROVE  record[i] \in Entry
  <2>1. b.store[i] \in Entry /\ b.store[i].gen + 1 \in Nat
    BY DEF Table, Entry
  <2>2. CASE i \in moved
    <3>1. /\ b.routes[i].desired \in Label
          /\ after[i] \in Label
      BY <1>1, <2>2 DEF Route
    <3> HIDE DEF after, moved
    <3>2. record[i] = OnLabelChanged(b.store[i], b.routes[i].desired, after[i])
      BY <2>2
    <3> QED
      BY <2>1, <3>1, <3>2 DEF Entry, OnLabelChanged
  <2>3. CASE i \notin moved
    BY <2>1, <2>3
  <2> QED
    BY <2>2, <2>3
<1>3. record \in [Installs -> Entry]
  BY <1>2
<1>4. ASSUME NEW i \in live
      PROVE  route(i) \in Route
  <2>1. record[i].gen \in Nat
    BY <1>1, <1>2 DEF Entry
  <2> QED
    BY <1>1, <2>1 DEF Route
<1>5. [i \in Installs |-> IF i \in live THEN route(i) ELSE NoRoute]
        \in [Installs -> Route \cup {NoRoute}]
  BY <1>4
<1> HIDE DEF live, before, after, moved, record, route
<1> QED
  BY <1>3, <1>5 DEF ResolveTable, Table, live, before, after, moved, record, route

(* What #resolveTable does, route by route: it renames, and a route it     *)
(* moves off a name it had gets a new generation, saved with the name.     *)
Unmoved(b, i) == b.routes[i].label \in {NoLabel, Resolved(b.routes, i)}

LEMMA ResolveTableEffect ==
    ASSUME NEW b \in Table
    PROVE  LET t == ResolveTable(b) IN
           /\ t \in Table
           /\ Live(t.routes) = Live(b.routes)
           /\ \A i \in Live(b.routes) :
                /\ t.routes[i].row = b.routes[i].row
                /\ t.routes[i].desired = b.routes[i].desired
                /\ t.routes[i].custom = b.routes[i].custom
                /\ t.routes[i].label = Resolved(b.routes, i)
                /\ Unmoved(b, i) => /\ t.store[i] = b.store[i]
                                    /\ t.routes[i].gen = b.routes[i].gen
                /\ ~Unmoved(b, i) =>
                     /\ t.store[i] = OnLabelChanged(b.store[i], b.routes[i].desired,
                                                    Resolved(b.routes, i))
                     /\ t.routes[i].gen = b.store[i].gen + 1
           /\ \A i \in Installs \ Live(b.routes) : t.store[i] = b.store[i]
<1> DEFINE t      == ResolveTable(b)
           live   == Live(b.routes)
           before == [i \in live |-> b.routes[i].label]
           after  == [i \in live |-> Resolved(b.routes, i)]
           moved  == {i \in live : before[i] \notin {NoLabel, after[i]}}
           record == [i \in Installs |->
                        IF i \in moved
                        THEN OnLabelChanged(b.store[i], b.routes[i].desired, after[i])
                        ELSE b.store[i]]
           route(i) == [b.routes[i] EXCEPT
                           !.label = after[i],
                           !.gen = IF i \in moved THEN record[i].gen ELSE @]
<1>1. t \in Table
  BY ResolveTableType
<1>2. ASSUME NEW i \in live
      PROVE  /\ i \in Installs /\ b.routes[i] \in Route /\ b.store[i] \in Entry
             /\ before[i] = b.routes[i].label /\ after[i] = Resolved(b.routes, i)
             /\ i \in moved <=> ~Unmoved(b, i)
  BY DEF Live, Table, Unmoved
<1>3. CASE after = before
  <2>1. t = b
    BY <1>3 DEF ResolveTable
  <2>2. \A i \in live : Unmoved(b, i) /\ b.routes[i].label = Resolved(b.routes, i)
    BY <1>2, <1>3 DEF Unmoved
  <2> QED
    BY <1>1, <2>1, <2>2
<1>4. CASE after # before
  <2>1. /\ t.routes = [i \in Installs |-> IF i \in live THEN route(i) ELSE NoRoute]
        /\ t.store = record
    BY <1>4 DEF ResolveTable
  <2>2. ASSUME NEW i \in live
        PROVE  /\ t.routes[i] = route(i)
               /\ route(i) \in Route /\ route(i) # NoRoute
    <3>1. t.routes[i] = route(i)
      BY <1>2, <2>1
    <3>2. t.routes[i] \in Route \cup {NoRoute}
      BY <1>1, <1>2 DEF Table
    <3>3. route(i).label \in Label /\ route(i).gen \in Nat
      <4>1. after[i] \in Label
        BY <1>2, ResolvedType DEF Table
      <4>2. record[i].gen \in Nat
        BY <1>1, <1>2, <2>1 DEF Table, Entry
      <4> QED
        BY <1>2, <4>1, <4>2 DEF Route
    <3>4. route(i) \in Route
      BY <1>2, <3>3 DEF Route
    <3> QED
      BY <3>1, <3>4, NoneAssumption
  <2>3. Live(t.routes) = live
    BY <2>1, <2>2 DEF Live
  <2>4. ASSUME NEW i \in live
        PROVE  /\ t.routes[i].row = b.routes[i].row
               /\ t.routes[i].desired = b.routes[i].desired
               /\ t.routes[i].custom = b.routes[i].custom
               /\ t.routes[i].label = after[i]
               /\ t.routes[i].gen = IF i \in moved THEN record[i].gen ELSE b.routes[i].gen
    <3>1. t.routes[i] = route(i) /\ b.routes[i] \in Route
      BY <1>2, <2>2
    <3> HIDE DEF live, before, after, moved, record
    <3> QED
      BY <3>1 DEF Route
  <2>5. ASSUME NEW i \in live, i \notin moved
        PROVE  t.store[i] = b.store[i] /\ t.routes[i].gen = b.routes[i].gen
    <3>1. record[i] = b.store[i]
      BY <1>2, <2>5
    <3> HIDE DEF live, before, after, moved, record, route
    <3> QED
      BY <2>1, <2>4, <2>5, <3>1
  <2>6. ASSUME NEW i \in live, i \in moved
        PROVE  /\ t.store[i] = OnLabelChanged(b.store[i], b.routes[i].desired, after[i])
               /\ t.routes[i].gen = b.store[i].gen + 1
    <3>1. record[i] = OnLabelChanged(b.store[i], b.routes[i].desired, after[i])
      BY <1>2, <2>6
    <3>2. t.store[i] = record[i]
      BY <2>1
    <3>3. t.routes[i].gen = record[i].gen
      BY <2>4, <2>6
    <3> HIDE DEF live, before, after, moved, record, route
    <3>4. b.store[i] \in Entry
      BY <1>2
    <3>5. OnLabelChanged(b.store[i], b.routes[i].desired, after[i]).gen = b.store[i].gen + 1
      BY <3>4 DEF OnLabelChanged, Entry
    <3> QED
      BY <3>1, <3>2, <3>3, <3>5
  <2>7. \A i \in Installs \ live : t.store[i] = b.store[i]
    BY <2>1
  <2> HIDE DEF live, before, after, moved, record, route
  <2> QED
    BY <1>1, <1>2, <2>3, <2>4, <2>5, <2>6, <2>7 DEF live
<1> QED
  BY <1>3, <1>4

LEMMA BumpType ==
    ASSUME NEW b \in Table, NEW i \in Installs
    PROVE  /\ NextGeneration(b, i) \in Table
           /\ i \in Live(b.routes) => BumpRoute(b, i) \in Table
<1>1. b.store[i] \in Entry /\ b.store[i].gen + 1 \in Nat
  BY DEF Table, Entry
<1>2. NextGeneration(b, i) \in Table
  BY <1>1 DEF NextGeneration, Table, Entry
<1>3. ASSUME i \in Live(b.routes)
      PROVE  BumpRoute(b, i) \in Table
  <2>1. b.routes[i] \in Route
    BY <1>3 DEF Live, Table
  <2>2. [b.routes[i] EXCEPT !.gen = b.store[i].gen + 1] \in Route
    BY <1>1, <2>1 DEF Route
  <2>3. [b.store[i] EXCEPT !.gen = @ + 1] \in Entry
    BY <1>1 DEF Entry
  <2> QED
    BY <2>2, <2>3 DEF BumpRoute, Table
<1> QED
  BY <1>2, <1>3

LEMMA BumpEffect ==
    ASSUME NEW b \in Table, NEW i \in Live(b.routes)
    PROVE  LET t == BumpRoute(b, i) IN
           /\ t \in Table
           /\ Live(t.routes) = Live(b.routes)
           /\ \A j \in Live(b.routes) :
                /\ t.routes[j].row = b.routes[j].row
                /\ t.routes[j].desired = b.routes[j].desired
                /\ t.routes[j].custom = b.routes[j].custom
                /\ t.routes[j].label = b.routes[j].label
           /\ t.store[i] = [b.store[i] EXCEPT !.gen = @ + 1]
           /\ t.routes[i].gen = b.store[i].gen + 1
           /\ \A j \in Installs \ {i} : t.store[j] = b.store[j] /\ t.routes[j] = b.routes[j]
<1> DEFINE t == BumpRoute(b, i)
<1>1. /\ i \in Installs /\ b.routes[i] \in Route
      /\ b.routes \in [Installs -> Route \cup {NoRoute}] /\ b.store \in [Installs -> Entry]
  BY DEF Live, Table
<1>2. t \in Table
  BY <1>1, BumpType
<1>3. /\ t.routes = [b.routes EXCEPT ![i].gen = b.store[i].gen + 1]
      /\ t.store = [b.store EXCEPT ![i].gen = @ + 1]
  BY DEF BumpRoute, Table
<1>4. t.routes[i] = [b.routes[i] EXCEPT !.gen = b.store[i].gen + 1]
  BY <1>1, <1>3
<1>5. t.routes[i] \in Route
  BY <1>1, <1>4 DEF Route, Table, Entry
<1>6. Live(t.routes) = Live(b.routes)
  BY <1>1, <1>3, <1>5, NoneAssumption DEF Live
<1> QED
  BY <1>1, <1>2, <1>3, <1>4, <1>6 DEF Route

LEMMA AttachLive ==
    ASSUME NEW b \in Table, NEW i \in Installs, NEW row \in RowOrNone,
           NEW desired \in Label, NEW custom \in BOOLEAN
    PROVE  Live(Attach(b, i, row, desired, custom).routes) = Live(b.routes) \cup {i}
<1> DEFINE new == [row |-> row, desired |-> desired, label |-> NoLabel,
                   custom |-> custom, gen |-> b.store[i].gen]
           bare == [b EXCEPT !.routes[i] = new]
<1>1. NoLabel \in Label
  BY EmptySeq DEF NoLabel, Label
<1>2. new \in Route /\ new # NoRoute
  BY <1>1, NoneAssumption DEF Route, Table, Entry
<1>3. bare \in Table
  BY <1>2 DEF Table
<1>4. Live(bare.routes) = Live(b.routes) \cup {i}
  BY <1>2 DEF Live, Table
<1> HIDE DEF bare
<1>5. Live(ResolveTable(bare).routes) = Live(bare.routes)
  BY <1>3, ResolveTableEffect
<1> QED
  BY <1>4, <1>5 DEF Attach, bare

LEMMA AttachType ==
    ASSUME NEW b \in Table, NEW i \in Installs, NEW row \in RowOrNone,
           NEW desired \in Label, NEW custom \in BOOLEAN
    PROVE  Attach(b, i, row, desired, custom) \in Table
<1> DEFINE new == [row |-> row, desired |-> desired, label |-> NoLabel,
                   custom |-> custom, gen |-> b.store[i].gen]
<1>1. NoLabel \in Label
  BY EmptySeq DEF NoLabel, Label
<1>2. new \in Route
  BY <1>1 DEF Route, Table, Entry
<1>3. [b EXCEPT !.routes[i] = new] \in Table
  BY <1>2 DEF Table
<1> QED
  BY <1>3, ResolveTableType DEF Attach

LEMMA DetachType ==
    ASSUME NEW b \in Table, NEW i \in Installs
    PROVE  Detach(b, i) \in Table
<1>1. [b EXCEPT !.routes[i] = NoRoute] \in Table
  BY DEF Table
<1> QED
  BY <1>1, ResolveTableType DEF Detach

LEMMA SetDesiredLabelType ==
    ASSUME NEW b \in Table, NEW i \in Live(b.routes),
           NEW desired \in Label, NEW custom \in BOOLEAN
    PROVE  SetDesiredLabel(b, i, desired, custom) \in Table
<1> DEFINE named == [b EXCEPT !.routes[i].desired = desired, !.routes[i].custom = custom]
<1>1. i \in Installs /\ b.routes[i] \in Route
  BY DEF Live, Table
<1>2. [[b.routes[i] EXCEPT !.desired = desired] EXCEPT !.custom = custom] \in Route
  BY <1>1 DEF Route
<1>3. named \in Table
  BY <1>1, <1>2 DEF Table
<1> QED
  BY <1>3, ResolveTableType DEF SetDesiredLabel

LEMMA RememberType ==
    ASSUME NEW b \in Table, NEW i \in Live(b.routes), NEW changed \in BOOLEAN
    PROVE  /\ RememberName(b, i) \in Table
           /\ Remember(b, i, changed) \in Table
<1>1. i \in Installs /\ b.routes[i] \in Route /\ b.store[i] \in Entry
  BY DEF Live, Table
<1> DEFINE named == [b.store[i] EXCEPT !.desired = b.routes[i].desired,
                                       !.label = b.routes[i].label,
                                       !.custom = b.routes[i].custom]
<1>2. named \in Entry
  BY <1>1 DEF Route, Entry
<1>3. RememberName(b, i) \in Table
  BY <1>1, <1>2 DEF RememberName, Table
<1>4. [[named EXCEPT !.row = b.routes[i].row] EXCEPT !.changed = changed] \in Entry
  BY <1>1, <1>2 DEF Route, Entry
<1>5. Remember(b, i, changed) \in Table
  BY <1>1, <1>4 DEF RememberName, Remember, Table
<1> QED
  BY <1>3, <1>5

LEMMA SetDesiredLabelLive ==
    ASSUME NEW b \in Table, NEW i \in Live(b.routes),
           NEW desired \in Label, NEW custom \in BOOLEAN
    PROVE  Live(SetDesiredLabel(b, i, desired, custom).routes) = Live(b.routes)
<1> DEFINE named == [b EXCEPT !.routes[i].desired = desired, !.routes[i].custom = custom]
<1>1. i \in Installs /\ b.routes[i] \in Route
  BY DEF Live, Table
<1>2. [[b.routes[i] EXCEPT !.desired = desired] EXCEPT !.custom = custom] \in Route
  BY <1>1 DEF Route
<1>3. named \in Table
  BY <1>1, <1>2 DEF Table
<1>4. Live(named.routes) = Live(b.routes)
  BY <1>1, <1>2, NoneAssumption DEF Live, Table
<1> QED
  BY <1>3, <1>4, ResolveTableEffect DEF SetDesiredLabel

LEMMA DropClaimType ==
    ASSUME NEW b \in Table, NEW i \in Live(b.routes)
    PROVE  DropClaim(b, i) \in Table
<1> DEFINE unjoined == [b EXCEPT !.routes[i].row = NoRow]
           bumped   == BumpRoute(unjoined, i)
           renamed  == SetDesiredLabel(bumped, i, Unclaimed[i], FALSE)
<1>1. i \in Installs /\ b.routes[i] \in Route
  BY DEF Live, Table
<1>2. [b.routes[i] EXCEPT !.row = NoRow] \in Route
  BY <1>1 DEF Route, RowOrNone
<1>3. unjoined \in Table /\ i \in Live(unjoined.routes)
  BY <1>1, <1>2, NoneAssumption DEF Table, Live
<1> HIDE DEF unjoined
<1>4. bumped = BumpRoute(unjoined, i)
  OBVIOUS
<1> HIDE DEF bumped
<1>5. bumped \in Table /\ i \in Live(bumped.routes)
  BY <1>3, <1>4, BumpEffect
<1>6. Unclaimed[i] \in Label
  BY <1>1, RouteTableAssumption
<1>7. renamed \in Table /\ i \in Live(renamed.routes)
  BY <1>5, <1>6, SetDesiredLabelType, SetDesiredLabelLive
<1> HIDE DEF renamed
<1>8. Remember(renamed, i, TRUE) \in Table
  BY <1>7, RememberType
<1> QED
  BY <1>8 DEF DropClaim, renamed, bumped, unjoined

LEMMA DropClaimLive ==
    ASSUME NEW b \in Table, NEW i \in Live(b.routes)
    PROVE  Live(DropClaim(b, i).routes) = Live(b.routes)
<1> DEFINE unjoined == [b EXCEPT !.routes[i].row = NoRow]
           bumped   == BumpRoute(unjoined, i)
           renamed  == SetDesiredLabel(bumped, i, Unclaimed[i], FALSE)
<1>1. i \in Installs /\ b.routes[i] \in Route
  BY DEF Live, Table
<1>2. [b.routes[i] EXCEPT !.row = NoRow] \in Route
  BY <1>1 DEF Route, RowOrNone
<1>3. unjoined \in Table /\ Live(unjoined.routes) = Live(b.routes)
  BY <1>1, <1>2, NoneAssumption DEF Table, Live
<1> HIDE DEF unjoined
<1>4. bumped \in Table /\ Live(bumped.routes) = Live(b.routes)
  BY <1>3, BumpEffect
<1>5. Unclaimed[i] \in Label
  BY <1>1, RouteTableAssumption
<1> HIDE DEF bumped
<1>6. Live(renamed.routes) = Live(b.routes)
  BY <1>4, <1>5, SetDesiredLabelLive
<1> HIDE DEF renamed
<1>7. Live(Remember(renamed, i, TRUE).routes) = Live(renamed.routes)
  BY DEF Remember, RememberName
<1> QED
  BY <1>6, <1>7 DEF DropClaim, renamed, bumped, unjoined

-----------------------------------------------------------------------------
(* The verdict, the label and the flag a REGISTER takes from it.           *)
LEMMA VerdictType ==
    ASSUME NEW e \in Entry, NEW v \in Verdicts(e), NEW i \in Installs
    PROVE  /\ AfterVerdict(e, v) \in Entry
           /\ IdentityChanged(AfterVerdict(e, v), v) \in BOOLEAN
           /\ LabelIsCustom(AfterVerdict(e, v), v) \in BOOLEAN
           /\ v.row \in RowOrNone
           /\ RegisterLabel(i, AfterVerdict(e, v), v) \in Label
<1>1. v \in Verdict
  BY DEF Verdicts
<1>2. AfterVerdict(e, v) \in Entry
  BY <1>1 DEF AfterVerdict, ForgetClaim, Entry, Verdict, RowOrNone
<1>3. ASSUME NEW f \in Entry
      PROVE  /\ IdentityChanged(f, v) \in BOOLEAN
             /\ LabelIsCustom(f, v) \in BOOLEAN
             /\ RegisterLabel(i, f, v) \in Label
  <2>1. v.row \in RowOrNone /\ v.drift \in BOOLEAN
    BY <1>1 DEF Verdict
  <2>2. DefaultLabelFor(i, v.row) \in Label
    BY <2>1, RouteTableAssumption DEF DefaultLabelFor, RowOrNone
  <2> QED
    BY <2>1, <2>2 DEF IdentityChanged, LabelIsCustom, RegisterLabel, Entry
<1> QED
  BY <1>1, <1>2, <1>3 DEF Verdict

LEMMA TornEffect ==
    ASSUME NEW stores \in SUBSET [Installs -> Entry], NEW d \in Torn(stores)
    PROVE  /\ d \in [Installs -> Entry]
           /\ \A i \in Installs : \E st \in stores :
                 d[i].label = st[i].label /\ d[i].desired = st[i].desired /\ d[i].custom = st[i].custom
<1>1. PICK of \in [Installs -> stores \X stores] :
        d = [i \in Installs |-> [of[i][1][i] EXCEPT !.gen = of[i][2][i].gen]]
  BY DEF Torn
<1>2. ASSUME NEW e \in Entry, NEW x \in Nat
      PROVE  LET f == [e EXCEPT !.gen = x]
             IN  f \in Entry /\ f.label = e.label /\ f.desired = e.desired /\ f.custom = e.custom
  BY DEF Entry
<1>3. \A i \in Installs : /\ of[i][1] \in stores /\ of[i][1][i] \in Entry
                          /\ of[i][2][i] \in Entry /\ of[i][2][i].gen \in Nat
  <2>1. \A i \in Installs : of[i][1] \in stores /\ of[i][2] \in stores
    OBVIOUS
  <2> QED
    BY <2>1 DEF Entry
<1>4. \A i \in Installs : d[i] = [of[i][1][i] EXCEPT !.gen = of[i][2][i].gen]
  BY <1>1
<1>5. \A i \in Installs : /\ d[i] \in Entry /\ d[i].label = of[i][1][i].label
                          /\ d[i].desired = of[i][1][i].desired /\ d[i].custom = of[i][1][i].custom
  <2> SUFFICES ASSUME NEW i \in Installs
               PROVE  /\ d[i] \in Entry /\ d[i].label = of[i][1][i].label
                      /\ d[i].desired = of[i][1][i].desired /\ d[i].custom = of[i][1][i].custom
    OBVIOUS
  <2> DEFINE e == of[i][1][i]
             x == of[i][2][i].gen
  <2>1. e \in Entry /\ x \in Nat /\ d[i] = [e EXCEPT !.gen = x]
    BY <1>3, <1>4
  <2> HIDE DEF e, x
  <2>2. d[i] \in Entry /\ d[i].label = e.label /\ d[i].desired = e.desired /\ d[i].custom = e.custom
    BY <1>2, <2>1
  <2> QED
    BY <2>2 DEF e
<1>6. d \in [Installs -> Entry]
  <2>1. d = [i \in Installs |-> d[i]]
    BY <1>1
  <2> QED
    BY <1>5, <2>1
<1> QED
  BY <1>3, <1>5, <1>6

LEMMA BecomeType ==
    ASSUME NEW b \in Table, NEW saves \in SUBSET [Installs -> Entry],
           TypeOK, Become(b, saves)
    PROVE  /\ routes' \in [Installs -> Route \cup {NoRoute}]
           /\ store' \in [Installs -> Entry]
           /\ disk' \in [Installs -> Entry]
<1>1. {disk, b.store} \cup saves \in SUBSET [Installs -> Entry]
  BY DEF TypeOK, Table
<1>2. disk' \in Torn({disk, b.store} \cup saves) \/ disk' = b.store
  BY DEF Become
<1>3. disk' \in [Installs -> Entry]
  BY <1>1, <1>2, TornEffect
<1> QED
  BY <1>3 DEF Become, Table

LEMMA EndSessionsType ==
    ASSUME TypeOK, NEW ended, NEW b, EndSessions(ended, b)
    PROVE  handle' \in Handle \cup {NoHandle}
BY DEF TypeOK, EndSessions, Handle

-----------------------------------------------------------------------------
(* Each handler turns a table into a table.                                *)
Now == [routes |-> routes, store |-> store]

LEMMA NowType ==
    ASSUME TypeOK
    PROVE  Now \in Table
BY DEF Now, TypeOK, Table

LEMMA RegisterType ==
    ASSUME TypeOK, NEW i \in Installs, NEW v \in Verdicts(store[i]), Register(i, v)
    PROVE  TypeOK'
<1> DEFINE entry    == AfterVerdict(store[i], v)
           resolved == [routes |-> routes, store |-> [store EXCEPT ![i] = entry]]
           bumped   == NextGeneration(resolved, i)
           label    == RegisterLabel(i, entry, v)
           custom   == LabelIsCustom(entry, v)
           attached == Attach(bumped, i, v.row, label, custom)
           changed  == IdentityChanged(entry, v)
           settled  == IF changed THEN DropClaim(attached, i) ELSE attached
           b        == Remember(settled, i, changed)
<1>1. store[i] \in Entry
  BY DEF TypeOK
<1>2. /\ entry \in Entry /\ changed \in BOOLEAN /\ custom \in BOOLEAN
      /\ v.row \in RowOrNone /\ label \in Label
  BY <1>1, VerdictType
<1>3. resolved \in Table
  BY <1>2 DEF TypeOK, Table
<1>4. Become(b, {resolved.store, bumped.store, attached.store, settled.store})
  BY DEF Register
<1>5. EndSessions({i}, b) /\ chosen' = [chosen EXCEPT ![i] = IF b.store[i].custom THEN @ ELSE NoLabel]
  BY DEF Register
<1> HIDE DEF entry, resolved, label, custom, changed
<1>6. bumped \in Table
  BY <1>3, BumpType
<1> HIDE DEF bumped
<1>7. attached \in Table /\ i \in Live(attached.routes)
  <2>1. attached \in Table
    BY <1>2, <1>6, AttachType
  <2>2. ASSUME NEW row \in RowOrNone, NEW desired \in Label, NEW c \in BOOLEAN
        PROVE  i \in Live(Attach(bumped, i, row, desired, c).routes)
    BY <1>6, AttachLive
  <2> QED
    BY <1>2, <2>1, <2>2
<1> HIDE DEF attached
<1>8. settled \in Table /\ i \in Live(settled.routes)
  BY <1>7, DropClaimType, DropClaimLive
<1> HIDE DEF settled
<1>9. b \in Table
  BY <1>2, <1>8, RememberType
<1> HIDE DEF b
<1>10. {resolved.store, bumped.store, attached.store, settled.store} \in SUBSET [Installs -> Entry]
  BY <1>3, <1>6, <1>7, <1>8 DEF Table
<1>11. /\ routes' \in [Installs -> Route \cup {NoRoute}]
       /\ store' \in [Installs -> Entry]
       /\ disk' \in [Installs -> Entry]
  BY <1>4, <1>9, <1>10, BecomeType
<1>12. handle' \in Handle \cup {NoHandle}
  BY <1>5, EndSessionsType
<1>13. chosen' \in [Installs -> Label]
  BY <1>5, EmptySeq DEF TypeOK, NoLabel, Label
<1> QED
  BY <1>11, <1>12, <1>13 DEF TypeOK

LEMMA RegisterAbandonedType ==
    ASSUME TypeOK, NEW i \in Installs, NEW v \in Verdicts(store[i]), RegisterAbandoned(i, v)
    PROVE  TypeOK'
<1> DEFINE b == [routes |-> routes, store |-> [store EXCEPT ![i] = AfterVerdict(@, v)]]
<1>1. AfterVerdict(store[i], v) \in Entry
  BY VerdictType DEF TypeOK
<1>2. b \in Table
  BY <1>1 DEF TypeOK, Table
<1>3. Become(b, {}) /\ UNCHANGED <<handle, chosen>>
  BY DEF RegisterAbandoned
<1> HIDE DEF b
<1> QED
  BY <1>2, <1>3, BecomeType DEF TypeOK

LEMMA DisconnectType ==
    ASSUME TypeOK, NEW i \in Installs, Disconnect(i)
    PROVE  TypeOK'
<1> DEFINE b == Detach(Now, i)
<1>1. Become(b, {}) /\ EndSessions({}, b) /\ UNCHANGED chosen
  BY DEF Disconnect, Now
<1>2. b \in Table
  BY NowType, DetachType
<1> HIDE DEF b
<1> QED
  BY <1>1, <1>2, BecomeType, EndSessionsType DEF TypeOK

LEMMA ClaimProfileType ==
    ASSUME TypeOK, NEW i \in Installs, NEW row \in Rows, ClaimProfile(i, row)
    PROVE  TypeOK'
<1> DEFINE joined  == [routes |-> [routes EXCEPT ![i].row = row], store |-> store]
           bumped  == BumpRoute(joined, i)
           renamed == IF routes[i].custom THEN bumped
                      ELSE SetDesiredLabel(bumped, i, Derived[row], FALSE)
           b       == Remember(renamed, i, FALSE)
<1>1. /\ i \in Live(routes)
      /\ Become(b, {bumped.store, renamed.store}) /\ EndSessions({i}, b) /\ UNCHANGED chosen
  BY DEF ClaimProfile
<1>2. routes[i] \in Route
  BY <1>1 DEF TypeOK, Live
<1>3. [routes[i] EXCEPT !.row = row] \in Route
  BY <1>2 DEF Route, RowOrNone
<1>4. joined \in Table /\ i \in Live(joined.routes)
  BY <1>3, NoneAssumption DEF TypeOK, Table, Live
<1> HIDE DEF joined
<1>5. bumped \in Table /\ i \in Live(bumped.routes)
  BY <1>4, BumpEffect
<1> HIDE DEF bumped
<1>6. Derived[row] \in Label
  BY RouteTableAssumption
<1>7. renamed \in Table /\ i \in Live(renamed.routes)
  BY <1>5, <1>6, SetDesiredLabelType, SetDesiredLabelLive
<1> HIDE DEF renamed
<1>8. b \in Table
  BY <1>7, RememberType
<1> HIDE DEF b
<1>9. {bumped.store, renamed.store} \in SUBSET [Installs -> Entry]
  BY <1>5, <1>7 DEF Table
<1> QED
  BY <1>1, <1>8, <1>9, BecomeType, EndSessionsType DEF TypeOK

LEMMA SetLabelType ==
    ASSUME TypeOK, NEW i \in Installs, NEW label \in Custom, SetLabel(i, label)
    PROVE  TypeOK'
<1> DEFINE bumped  == BumpRoute(Now, i)
           renamed == SetDesiredLabel(bumped, i, label, TRUE)
           b       == RememberName(renamed, i)
<1>1. /\ i \in Live(routes)
      /\ Become(b, {bumped.store, renamed.store}) /\ EndSessions({i}, b)
      /\ chosen' = [chosen EXCEPT ![i] = label]
  BY DEF SetLabel, Now
<1>2. Now \in Table /\ i \in Live(Now.routes)
  BY <1>1, NowType DEF Now
<1>3. bumped \in Table /\ i \in Live(bumped.routes)
  BY <1>2, BumpEffect
<1> HIDE DEF bumped
<1>4. label \in Label
  BY RouteTableAssumption
<1>5. renamed \in Table /\ i \in Live(renamed.routes)
  BY <1>3, <1>4, SetDesiredLabelType, SetDesiredLabelLive
<1> HIDE DEF renamed
<1>6. b \in Table
  BY <1>5, RememberType
<1> HIDE DEF b
<1>7. {bumped.store, renamed.store} \in SUBSET [Installs -> Entry]
  BY <1>3, <1>5 DEF Table
<1> QED
  BY <1>1, <1>4, <1>6, <1>7, BecomeType, EndSessionsType DEF TypeOK

LEMMA DriftType ==
    ASSUME TypeOK, NEW i \in Installs, Drift(i)
    PROVE  TypeOK'
<1> DEFINE unjoined == [routes |-> [routes EXCEPT ![i].row = NoRow], store |-> store]
           bumped   == BumpRoute(unjoined, i)
           renamed  == SetDesiredLabel(bumped, i, Unclaimed[i], FALSE)
           b        == DropClaim(Now, i)
<1>1. /\ i \in Live(routes)
      /\ Become(b, {bumped.store, renamed.store}) /\ EndSessions({i}, b)
      /\ chosen' = [chosen EXCEPT ![i] = NoLabel]
  BY DEF Drift, Now
<1>2. Now \in Table /\ i \in Live(Now.routes)
  BY <1>1, NowType DEF Now
<1>3. routes[i] \in Route
  BY <1>1 DEF TypeOK, Live
<1>4. [routes[i] EXCEPT !.row = NoRow] \in Route
  BY <1>3 DEF Route, RowOrNone
<1>5. unjoined \in Table /\ i \in Live(unjoined.routes)
  BY <1>4, NoneAssumption DEF TypeOK, Table, Live
<1> HIDE DEF unjoined
<1>6. bumped \in Table /\ i \in Live(bumped.routes)
  BY <1>5, BumpEffect
<1> HIDE DEF bumped
<1>a. renamed \in Table
  BY <1>6, SetDesiredLabelType, RouteTableAssumption
<1> HIDE DEF renamed
<1>7. b \in Table
  BY <1>2, DropClaimType
<1> HIDE DEF b
<1>8. {bumped.store, renamed.store} \in SUBSET [Installs -> Entry]
  BY <1>6, <1>a DEF Table
<1>9. chosen' \in [Installs -> Label]
  BY <1>1, EmptySeq DEF TypeOK, NoLabel, Label
<1> QED
  BY <1>1, <1>7, <1>8, <1>9, BecomeType, EndSessionsType DEF TypeOK

LEMMA TypeStep == TypeOK /\ [Next]_vars => TypeOK'
<1> SUFFICES ASSUME TypeOK, [Next]_vars
             PROVE  TypeOK'
  OBVIOUS
<1>1. ASSUME NEW i \in Installs, NEW v \in Verdicts(store[i]),
             Register(i, v) \/ RegisterAbandoned(i, v)
      PROVE  TypeOK'
  BY <1>1, RegisterType, RegisterAbandonedType
<1>2. ASSUME NEW i \in Installs, NEW row \in Rows, ClaimProfile(i, row)
      PROVE  TypeOK'
  BY <1>2, ClaimProfileType
<1>3. ASSUME NEW i \in Installs, NEW label \in Custom, SetLabel(i, label)
      PROVE  TypeOK'
  BY <1>3, SetLabelType
<1>4. ASSUME NEW i \in Installs, Disconnect(i) \/ Drift(i)
      PROVE  TypeOK'
  BY <1>4, DisconnectType, DriftType
<1>5. ASSUME NEW i \in Installs, Mint(i)
      PROVE  TypeOK'
  <2>1. routes[i] \in Route
    BY <1>5 DEF Mint, Live, TypeOK
  <2> QED
    BY <1>5, <2>1 DEF Mint, TypeOK, Handle, Route
<1>6. CASE BrokerRestart
  BY <1>6 DEF BrokerRestart, TypeOK, Handle
<1>7. CASE UNCHANGED vars
  BY <1>7 DEF vars, TypeOK
<1> QED
  BY <1>1, <1>2, <1>3, <1>4, <1>5, <1>6, <1>7 DEF Next

LEMMA TypeInit == Init => TypeOK
<1>1. Blank \in Entry
  BY EmptySeq DEF Blank, Entry, RowOrNone, Label, NoLabel
<1>2. NoLabel \in Label
  BY EmptySeq DEF NoLabel, Label
<1> QED
  BY <1>1, <1>2 DEF Init, TypeOK

(* Every variable keeps its type: the broker's table, its store and its    *)
(* file hold records of the shape the code writes, whatever the handlers'  *)
(* order.                                                                  *)
THEOREM TypeCorrect == Spec => []TypeOK
BY TypeInit, TypeStep, PTL DEF Spec
-----------------------------------------------------------------------------
(* The store and the board.                                                *)

AgreesAt(b, i) ==
    /\ b.store[i].label = b.routes[i].label
    /\ b.store[i].desired = b.routes[i].desired
    /\ b.store[i].custom = b.routes[i].custom
    /\ b.store[i].gen = b.routes[i].gen

NamedAt(b, i) == b.routes[i].label # NoLabel /\ b.routes[i].desired # NoLabel

(* A name the operator chose is a name.                                    *)
Named(st) == \A i \in Installs : st[i].custom => st[i].label # NoLabel

(* What a save may leave in the file.                                      *)
Durable(st) == st \in [Installs -> Entry] /\ Named(st)

(* A table whose store is up to date, but for the name of i, which its     *)
(* handler is about to remember.                                           *)
OthersSound(b, i) ==
    /\ b \in Table /\ Named(b.store)
    /\ \A j \in Live(b.routes) \ {i} : AgreesAt(b, j) /\ NamedAt(b, j)

SoundBut(b, i) ==
    /\ OthersSound(b, i)
    /\ i \in Live(b.routes) => b.routes[i].desired # NoLabel /\ b.routes[i].gen = b.store[i].gen

Sound(b) ==
    /\ b \in Table /\ Named(b.store)
    /\ \A j \in Live(b.routes) : AgreesAt(b, j) /\ NamedAt(b, j)

(* What a handler of i does to the others: a route that moved to another   *)
(* name has another generation, one that did not has the one it had.       *)
Follows(b, c, i) ==
    \A j \in Installs \ {i} :
        /\ j \in Live(b.routes) <=> j \in Live(c.routes)
        /\ b.store[j].gen <= c.store[j].gen
        /\ j \in Live(b.routes) =>
             /\ c.routes[j].label = b.routes[j].label => c.routes[j].gen = b.routes[j].gen
             /\ c.routes[j].label # b.routes[j].label => b.routes[j].gen < c.routes[j].gen

Still(b, c, i) ==
    \A j \in Installs \ {i} :
        /\ j \in Live(b.routes) <=> j \in Live(c.routes)
        /\ c.store[j].gen = b.store[j].gen
        /\ j \in Live(b.routes) =>
             c.routes[j].label = b.routes[j].label /\ c.routes[j].gen = b.routes[j].gen

LEMMA StillFollows ==
    ASSUME NEW b \in Table, NEW c \in Table, NEW d \in Table, NEW i \in Installs
    PROVE  /\ Still(b, c, i) => Follows(b, c, i)
           /\ Still(b, c, i) /\ Still(c, d, i) => Still(b, d, i)
           /\ Still(b, c, i) /\ Follows(c, d, i) => Follows(b, d, i)
           /\ Follows(b, c, i) /\ Still(c, d, i) => Follows(b, d, i)
<1>1. \A j \in Installs : b.store[j].gen \in Nat /\ c.store[j].gen \in Nat
  BY DEF Table, Entry
<1> QED
  BY <1>1 DEF Still, Follows

LEMMA SoundIsSoundBut ==
    ASSUME NEW b, NEW i \in Installs, Sound(b)
    PROVE  SoundBut(b, i)
BY DEF Sound, SoundBut, OthersSound, AgreesAt, NamedAt

LEMMA SoundWithout ==
    ASSUME NEW b, NEW i \in Installs, SoundBut(b, i), i \notin Live(b.routes)
    PROVE  Sound(b)
BY DEF Sound, SoundBut, OthersSound

(* The labels depend on who is there, and on which name and row each has.  *)
LEMMA ResolvedSame ==
    ASSUME NEW r \in [Installs -> Route \cup {NoRoute}], NEW s \in [Installs -> Route \cup {NoRoute}],
           Live(s) = Live(r),
           \A k \in Live(r) : s[k].desired = r[k].desired /\ s[k].row = r[k].row,
           NEW j \in Live(r)
    PROVE  Resolved(s, j) = Resolved(r, j)
<1>1. \A k \in Live(r) : Group(s, k) = Group(r, k)
  BY DEF Group
<1>2. \A k \in Live(r) : Suffixed(s, k) = Suffixed(r, k)
  BY DEF Suffixed
<1>3. \A k \in Live(r) : Group(r, k) \subseteq Live(r)
  BY DEF Group
<1>4. \A k \in Live(r) : Proposal(s, k) = Proposal(r, k)
  <2> SUFFICES ASSUME NEW k \in Live(r) PROVE Proposal(s, k) = Proposal(r, k)
    OBVIOUS
  <2>1. \A l \in Group(r, k) : Suffixed(s, l) = Suffixed(r, l)
    BY <1>2, <1>3
  <2>2. (\E l \in Group(s, k) \ {k} : Suffixed(s, l) = Suffixed(s, k))
          <=> (\E l \in Group(r, k) \ {k} : Suffixed(r, l) = Suffixed(r, k))
    BY <1>1, <1>2, <2>1
  <2> QED
    BY <1>1, <1>2, <2>2 DEF Proposal
<1>5. (\E l \in Live(s) \ {j} : Proposal(s, l) = Proposal(s, j))
        <=> (\E l \in Live(r) \ {j} : Proposal(r, l) = Proposal(r, j))
  BY <1>4
<1> QED
  BY <1>4, <1>5 DEF Resolved

LEMMA ResolvedNamed ==
    ASSUME NEW rt \in [Installs -> Route \cup {NoRoute}], NEW i \in Live(rt), rt[i].desired # NoLabel
    PROVE  Resolved(rt, i) # NoLabel
<1>1. i \in Installs /\ rt[i] \in Route
  BY DEF Live
<1>2. rt[i].desired \in Seq(Parts) /\ rt[i].row \in RowOrNone
  BY <1>1 DEF Route, Label
<1>3. ASSUME NEW s \in Seq(Parts), NEW x \in Parts
      PROVE  Append(s, x) \in Seq(Parts) /\ Append(s, x) # NoLabel
  BY AppendProperties, EmptySeq DEF NoLabel
<1>4. Suffixed(rt, i) \in Seq(Parts) /\ Suffixed(rt, i) # NoLabel
  BY <1>1, <1>2, <1>3, RouteTableAssumption DEF Suffixed, RowOrNone
<1>5. Proposal(rt, i) \in Seq(Parts) /\ Proposal(rt, i) # NoLabel
  BY <1>1, <1>2, <1>3, <1>4, RouteTableAssumption DEF Proposal
<1> QED
  BY <1>1, <1>3, <1>5, RouteTableAssumption DEF Resolved

(* #resolveTable keeps the store up to date with every route it moves.     *)
LEMMA ResolveTableSound ==
    ASSUME NEW b, NEW i \in Installs, SoundBut(b, i)
    PROVE  LET t == ResolveTable(b) IN
           /\ SoundBut(t, i) /\ Follows(b, t, i)
           /\ b.store[i].gen <= t.store[i].gen
           /\ i \in Live(t.routes) => NamedAt(t, i)
<1> DEFINE t == ResolveTable(b)
<1>1. b \in Table /\ t \in Table /\ Live(t.routes) = Live(b.routes) /\ Live(b.routes) \subseteq Installs
  BY ResolveTableEffect DEF SoundBut, OthersSound, Live
<1>2. \A j \in Live(b.routes) :
        /\ t.routes[j].desired = b.routes[j].desired /\ t.routes[j].custom = b.routes[j].custom
        /\ t.routes[j].label = Resolved(b.routes, j) /\ Resolved(b.routes, j) # NoLabel
        /\ Unmoved(b, j) => t.store[j] = b.store[j] /\ t.routes[j].gen = b.routes[j].gen
        /\ ~Unmoved(b, j) =>
             /\ t.store[j].label = t.routes[j].label /\ t.store[j].desired = b.routes[j].desired
             /\ t.store[j].custom = b.store[j].custom /\ t.store[j].gen = b.store[j].gen + 1
             /\ t.routes[j].gen = b.store[j].gen + 1
  <2> SUFFICES ASSUME NEW j \in Live(b.routes)
               PROVE  /\ t.routes[j].desired = b.routes[j].desired /\ t.routes[j].custom = b.routes[j].custom
                      /\ t.routes[j].label = Resolved(b.routes, j) /\ Resolved(b.routes, j) # NoLabel
                      /\ Unmoved(b, j) => t.store[j] = b.store[j] /\ t.routes[j].gen = b.routes[j].gen
                      /\ ~Unmoved(b, j) =>
                           /\ t.store[j].label = t.routes[j].label /\ t.store[j].desired = b.routes[j].desired
                           /\ t.store[j].custom = b.store[j].custom /\ t.store[j].gen = b.store[j].gen + 1
                           /\ t.routes[j].gen = b.store[j].gen + 1
    OBVIOUS
  <2>1. /\ t.routes[j].desired = b.routes[j].desired /\ t.routes[j].custom = b.routes[j].custom
        /\ t.routes[j].label = Resolved(b.routes, j)
        /\ Unmoved(b, j) => t.store[j] = b.store[j] /\ t.routes[j].gen = b.routes[j].gen
        /\ ~Unmoved(b, j) =>
             /\ t.store[j] = OnLabelChanged(b.store[j], b.routes[j].desired, Resolved(b.routes, j))
             /\ t.routes[j].gen = b.store[j].gen + 1
    BY <1>1, ResolveTableEffect
  <2>2. Resolved(b.routes, j) # NoLabel
    <3>1. b.routes[j].desired # NoLabel
      BY DEF SoundBut, OthersSound, NamedAt
    <3> QED
      BY <1>1, <3>1, ResolvedNamed DEF Table
  <2>3. \A e \in Entry : \A d, l :
          /\ OnLabelChanged(e, d, l).label = l /\ OnLabelChanged(e, d, l).desired = d
          /\ OnLabelChanged(e, d, l).custom = e.custom /\ OnLabelChanged(e, d, l).gen = e.gen + 1
    BY DEF OnLabelChanged, Entry
  <2>4. b.store[j] \in Entry
    BY <1>1 DEF Table
  <2> QED
    BY <2>1, <2>2, <2>3, <2>4
<1>3. \A j \in Installs \ Live(b.routes) : t.store[j] = b.store[j]
  BY <1>1, ResolveTableEffect
<1>4. \A j \in Installs : b.store[j].gen \in Nat
  BY <1>1 DEF Table, Entry
<1> HIDE DEF t
<1>5. Named(t.store)
  <2> SUFFICES ASSUME NEW j \in Installs, t.store[j].custom PROVE t.store[j].label # NoLabel
    BY DEF Named
  <2>1. CASE j \in Live(b.routes) /\ ~Unmoved(b, j)
    BY <1>2, <2>1
  <2>2. CASE ~(j \in Live(b.routes) /\ ~Unmoved(b, j))
    <3>1. t.store[j] = b.store[j]
      BY <1>2, <1>3, <2>2
    <3> QED
      BY <3>1 DEF SoundBut, OthersSound, Named
  <2> QED
    BY <2>1, <2>2
<1>6. ASSUME NEW j \in Live(b.routes), j # i PROVE AgreesAt(t, j) /\ NamedAt(t, j)
  <2>1. AgreesAt(b, j) /\ NamedAt(b, j)
    BY <1>6 DEF SoundBut, OthersSound
  <2>2. CASE Unmoved(b, j)
    <3>1. b.routes[j].label = Resolved(b.routes, j)
      BY <2>1, <2>2 DEF Unmoved, NamedAt
    <3> QED
      BY <1>2, <2>1, <2>2, <3>1 DEF AgreesAt, NamedAt
  <2>3. CASE ~Unmoved(b, j)
    BY <1>2, <2>1, <2>3 DEF AgreesAt, NamedAt
  <2> QED
    BY <2>2, <2>3
<1>7. i \in Live(b.routes) => NamedAt(t, i) /\ t.routes[i].gen = t.store[i].gen
  <2> SUFFICES ASSUME i \in Live(b.routes) PROVE NamedAt(t, i) /\ t.routes[i].gen = t.store[i].gen
    OBVIOUS
  <2>1. b.routes[i].desired # NoLabel /\ b.routes[i].gen = b.store[i].gen
    BY DEF SoundBut, OthersSound
  <2> QED
    BY <1>2, <2>1 DEF NamedAt
<1>8. SoundBut(t, i)
  BY <1>1, <1>5, <1>6, <1>7 DEF SoundBut, OthersSound, NamedAt
<1>9. b.store[i].gen <= t.store[i].gen
  BY <1>2, <1>3, <1>4
<1>10. Follows(b, t, i)
  <2> SUFFICES ASSUME NEW j \in Installs \ {i}
               PROVE  /\ b.store[j].gen <= t.store[j].gen
                      /\ j \in Live(b.routes) =>
                           /\ t.routes[j].label = b.routes[j].label => t.routes[j].gen = b.routes[j].gen
                           /\ t.routes[j].label # b.routes[j].label => b.routes[j].gen < t.routes[j].gen
    BY <1>1 DEF Follows
  <2>1. CASE j \notin Live(b.routes)
    BY <1>3, <1>4, <2>1
  <2>2. CASE j \in Live(b.routes)
    <3>1. AgreesAt(b, j) /\ NamedAt(b, j)
      BY <2>2 DEF SoundBut, OthersSound
    <3>2. CASE Unmoved(b, j)
      BY <1>2, <1>4, <2>2, <3>1, <3>2 DEF Unmoved, NamedAt
    <3>3. CASE ~Unmoved(b, j)
      BY <1>2, <1>4, <2>2, <3>1, <3>3 DEF Unmoved, AgreesAt
    <3> QED
      BY <3>2, <3>3
  <2> QED
    BY <2>1, <2>2
<1> QED
  BY <1>1, <1>7, <1>8, <1>9, <1>10 DEF t
(* A table every label of which is what #resolveTable says is left alone   *)
(* by it, but for i.                                                       *)
Settled(b) == \A j \in Live(b.routes) : b.routes[j].label = Resolved(b.routes, j)

LEMMA ResolveTableSettles ==
    ASSUME NEW b \in Table
    PROVE  Settled(ResolveTable(b))
<1> DEFINE t == ResolveTable(b)
<1>1. t \in Table /\ Live(t.routes) = Live(b.routes)
  BY ResolveTableEffect
<1>2. \A j \in Live(b.routes) : /\ t.routes[j].desired = b.routes[j].desired /\ t.routes[j].row = b.routes[j].row
                                /\ t.routes[j].label = Resolved(b.routes, j)
  BY ResolveTableEffect
<1> HIDE DEF t
<1>3. \A j \in Live(b.routes) : Resolved(t.routes, j) = Resolved(b.routes, j)
  BY <1>1, <1>2, ResolvedSame DEF Table
<1> QED
  BY <1>1, <1>2, <1>3 DEF Settled, t

LEMMA ResolveTableAgain ==
    ASSUME NEW b \in Table, NEW i \in Installs,
           \A j \in Live(b.routes) \ {i} : b.routes[j].label = Resolved(b.routes, j)
    PROVE  Still(b, ResolveTable(b), i)
<1> DEFINE t == ResolveTable(b)
<1>1. t \in Table /\ Live(t.routes) = Live(b.routes)
  BY ResolveTableEffect
<1>2. \A j \in Live(b.routes) \ {i} :
        t.routes[j].label = b.routes[j].label /\ t.store[j] = b.store[j] /\ t.routes[j].gen = b.routes[j].gen
  BY ResolveTableEffect DEF Unmoved
<1>3. \A j \in Installs \ Live(b.routes) : t.store[j] = b.store[j]
  BY ResolveTableEffect
<1> QED
  BY <1>1, <1>2, <1>3 DEF Still

(* A route is written, with the generation of its record.                  *)
Put(b, i, r) == [b EXCEPT !.routes[i] = r]

LEMMA PutSound ==
    ASSUME NEW b, NEW i \in Installs, OthersSound(b, i), NEW r \in Route, r.desired # NoLabel, r.gen = b.store[i].gen
    PROVE  LET c == Put(b, i, r) IN
           /\ SoundBut(c, i) /\ Still(b, c, i) /\ i \in Live(c.routes) /\ c.routes[i] = r /\ c.store = b.store
           /\ i \in Live(b.routes) => Live(c.routes) = Live(b.routes)
           /\ \A j \in Installs \ {i} : c.routes[j] = b.routes[j]
<1> DEFINE c == Put(b, i, r)
<1>1. b \in Table /\ r # NoRoute
  BY NoneAssumption DEF SoundBut, OthersSound
<1>2. c \in Table /\ c.store = b.store /\ c.routes = [b.routes EXCEPT ![i] = r]
  BY <1>1 DEF Put, Table
<1> HIDE DEF c
<1>3. c.routes[i] = r /\ \A j \in Installs \ {i} : c.routes[j] = b.routes[j]
  BY <1>1, <1>2 DEF Table
<1>4. Live(c.routes) = Live(b.routes) \cup {i}
  BY <1>1, <1>3 DEF Live
<1>a. i \in Live(b.routes) => Live(c.routes) = Live(b.routes)
  BY <1>4
<1>5. Still(b, c, i)
  BY <1>2, <1>3, <1>4 DEF Still
<1>6. SoundBut(c, i)
  BY <1>2, <1>3, <1>4 DEF SoundBut, OthersSound, AgreesAt, NamedAt, Live
<1> QED
  BY <1>2, <1>3, <1>4, <1>5, <1>6, <1>a DEF c

LEMMA BumpSound ==
    ASSUME NEW b, NEW i \in Installs, SoundBut(b, i), i \in Live(b.routes)
    PROVE  LET t == BumpRoute(b, i) IN
           /\ SoundBut(t, i) /\ Still(b, t, i) /\ Live(t.routes) = Live(b.routes)
           /\ t.store[i].gen = b.store[i].gen + 1
           /\ t.routes[i].desired = b.routes[i].desired /\ t.routes[i].row = b.routes[i].row
           /\ t.routes[i].label = b.routes[i].label /\ t.routes[i].custom = b.routes[i].custom
           /\ \A j \in Installs \ {i} : t.routes[j] = b.routes[j]
<1> DEFINE t == BumpRoute(b, i)
<1>1. b \in Table /\ b.store[i] \in Entry /\ Named(b.store)
  BY DEF SoundBut, OthersSound, Table
<1>2. /\ t \in Table /\ Live(t.routes) = Live(b.routes)
      /\ t.routes[i].desired = b.routes[i].desired /\ t.routes[i].row = b.routes[i].row
      /\ t.routes[i].label = b.routes[i].label /\ t.routes[i].custom = b.routes[i].custom
      /\ t.store[i] = [b.store[i] EXCEPT !.gen = @ + 1]
      /\ t.routes[i].gen = b.store[i].gen + 1
      /\ \A j \in Installs \ {i} : t.store[j] = b.store[j] /\ t.routes[j] = b.routes[j]
  BY <1>1, BumpEffect
<1> HIDE DEF t
<1>3. t.store[i].gen = b.store[i].gen + 1 /\ t.store[i].custom = b.store[i].custom /\ t.store[i].label = b.store[i].label
  BY <1>1, <1>2 DEF Entry
<1>4. Named(t.store)
  <2> SUFFICES ASSUME NEW j \in Installs, t.store[j].custom PROVE t.store[j].label # NoLabel
    BY DEF Named
  <2>1. t.store[j].custom = b.store[j].custom /\ t.store[j].label = b.store[j].label
    BY <1>2, <1>3
  <2> QED
    BY <1>1, <2>1 DEF Named
<1>5. SoundBut(t, i)
  BY <1>2, <1>3, <1>4 DEF SoundBut, OthersSound, AgreesAt, NamedAt, Live
<1>6. Still(b, t, i)
  BY <1>2 DEF Still
<1> QED
  BY <1>2, <1>3, <1>5, <1>6 DEF t

LEMMA RememberSound ==
    ASSUME NEW b, NEW i \in Installs, SoundBut(b, i), i \in Live(b.routes), NamedAt(b, i), NEW changed \in BOOLEAN
    PROVE  /\ Sound(RememberName(b, i)) /\ Sound(Remember(b, i, changed))
           /\ Still(b, RememberName(b, i), i) /\ Still(b, Remember(b, i, changed), i)
           /\ RememberName(b, i).store[i].gen = b.store[i].gen /\ Remember(b, i, changed).store[i].gen = b.store[i].gen
           /\ RememberName(b, i).routes = b.routes /\ Remember(b, i, changed).routes = b.routes
<1> DEFINE n == RememberName(b, i)
           m == Remember(b, i, changed)
           e == [b.store[i] EXCEPT !.desired = b.routes[i].desired, !.label = b.routes[i].label,
                                   !.custom = b.routes[i].custom]
<1>1. b \in Table /\ b.store[i] \in Entry /\ Named(b.store) /\ b.routes[i].gen = b.store[i].gen
  BY DEF SoundBut, OthersSound, Table
<1>2. n \in Table /\ m \in Table
  BY <1>1, RememberType
<1>3. /\ e.desired = b.routes[i].desired /\ e.label = b.routes[i].label /\ e.custom = b.routes[i].custom
      /\ e.gen = b.store[i].gen
  BY <1>1 DEF Entry
<1>4. n.routes = b.routes /\ n.store[i] = e /\ \A j \in Installs \ {i} : n.store[j] = b.store[j]
  BY <1>1 DEF RememberName, Table
<1>5. /\ m.routes = b.routes /\ \A j \in Installs \ {i} : m.store[j] = b.store[j]
      /\ m.store[i] = [[e EXCEPT !.row = b.routes[i].row] EXCEPT !.changed = changed]
  BY <1>1, <1>2, <1>4 DEF Remember, Table
<1>6. e \in Entry
  BY <1>2, <1>4 DEF Table
<1>7. /\ m.store[i].desired = e.desired /\ m.store[i].label = e.label /\ m.store[i].custom = e.custom
      /\ m.store[i].gen = e.gen
  BY <1>5, <1>6 DEF Entry
<1> HIDE DEF n, m, e
<1>8. Named(n.store) /\ Named(m.store)
  <2>1. n.store[i].label # NoLabel /\ m.store[i].label # NoLabel
    BY <1>3, <1>4, <1>7 DEF NamedAt
  <2> QED
    BY <1>1, <1>4, <1>5, <2>1 DEF Named
<1>9. AgreesAt(n, i) /\ AgreesAt(m, i) /\ NamedAt(n, i) /\ NamedAt(m, i)
  BY <1>1, <1>3, <1>4, <1>5, <1>7 DEF AgreesAt, NamedAt
<1>10. \A j \in Live(b.routes) \ {i} : AgreesAt(n, j) /\ AgreesAt(m, j) /\ NamedAt(n, j) /\ NamedAt(m, j)
  BY <1>4, <1>5 DEF SoundBut, OthersSound, AgreesAt, NamedAt, Live
<1>11. Sound(n) /\ Sound(m)
  BY <1>2, <1>4, <1>5, <1>8, <1>9, <1>10 DEF Sound
<1>12. Still(b, n, i) /\ Still(b, m, i)
  BY <1>4, <1>5 DEF Still
<1> QED
  BY <1>3, <1>4, <1>5, <1>7, <1>11, <1>12 DEF n, m

LEMMA SetDesiredLabelSound ==
    ASSUME NEW b, NEW i \in Installs, SoundBut(b, i), i \in Live(b.routes),
           NEW desired \in Label, desired # NoLabel, NEW custom \in BOOLEAN
    PROVE  LET t == SetDesiredLabel(b, i, desired, custom) IN
           /\ SoundBut(t, i) /\ Follows(b, t, i) /\ NamedAt(t, i)
           /\ Live(t.routes) = Live(b.routes)
           /\ b.store[i].gen <= t.store[i].gen
           /\ Settled(t)
           /\ (\A j \in Live(b.routes) \ {i} :
                 b.routes[j].label = Resolved([b.routes EXCEPT ![i].desired = desired, ![i].custom = custom], j))
                => Still(b, t, i)
<1> DEFINE r == [b.routes[i] EXCEPT !.desired = desired, !.custom = custom]
           n == Put(b, i, r)
           t == ResolveTable(n)
<1>1. b \in Table /\ b.routes[i] \in Route /\ b.routes[i].gen = b.store[i].gen
  BY DEF SoundBut, OthersSound, Table, Live
<1>2. r \in Route /\ r.desired = desired /\ r.gen = b.store[i].gen
  BY <1>1 DEF Route
<1>3. n = [b EXCEPT !.routes[i].desired = desired, !.routes[i].custom = custom]
  BY <1>1 DEF Put, Table
<1>4. n.routes = [b.routes EXCEPT ![i].desired = desired, ![i].custom = custom]
  BY <1>1 DEF Put, Table
<1>5. t = SetDesiredLabel(b, i, desired, custom)
  BY <1>3 DEF SetDesiredLabel
<1> HIDE DEF r
<1>6. /\ SoundBut(n, i) /\ Still(b, n, i) /\ Live(n.routes) = Live(b.routes) /\ n.store = b.store
      /\ \A j \in Installs \ {i} : n.routes[j] = b.routes[j]
  <2>1. /\ r \in Route /\ r.desired # NoLabel /\ r.gen = b.store[i].gen
    BY <1>2
  <2> QED
    BY <2>1, PutSound DEF SoundBut
<1>7. n \in Table
  BY <1>6 DEF SoundBut, OthersSound
<1> HIDE DEF n
<1>8. /\ SoundBut(t, i) /\ Follows(n, t, i) /\ n.store[i].gen <= t.store[i].gen /\ Live(t.routes) = Live(n.routes)
      /\ NamedAt(t, i)
  <2>1. SoundBut(t, i) /\ Follows(n, t, i) /\ n.store[i].gen <= t.store[i].gen /\ Live(t.routes) = Live(n.routes)
    BY <1>6, <1>7, ResolveTableSound, ResolveTableEffect
  <2> QED
    BY <1>6, <2>1, ResolveTableSound
<1>9. Settled(t)
  BY <1>7, ResolveTableSettles
<1>10. (\A j \in Live(n.routes) \ {i} : n.routes[j].label = Resolved(n.routes, j)) => Still(n, t, i)
  BY <1>7, ResolveTableAgain
<1>11. t \in Table
  BY <1>8 DEF SoundBut, OthersSound
<1>12. \A j \in Live(b.routes) \ {i} : n.routes[j] = b.routes[j]
  BY <1>6 DEF Live
<1> HIDE DEF t
<1>13. Follows(b, t, i) /\ (Still(n, t, i) => Still(b, t, i))
  BY <1>1, <1>6, <1>7, <1>8, <1>11, StillFollows
<1> QED
  BY <1>4, <1>5, <1>6, <1>8, <1>9, <1>10, <1>12, <1>13
LEMMA DropClaimSound ==
    ASSUME NEW b, NEW i \in Installs, SoundBut(b, i), i \in Live(b.routes)
    PROVE  LET c     == DropClaim(b, i)
               first == BumpRoute([b EXCEPT !.routes[i].row = NoRow], i)
           IN
           /\ Sound(c) /\ Follows(b, c, i) /\ Live(c.routes) = Live(b.routes)
           /\ b.store[i].gen < c.store[i].gen
           /\ Durable(first.store) /\ Durable(SetDesiredLabel(first, i, Unclaimed[i], FALSE).store)
           /\ Settled(b) /\ b.routes[i].row = NoRow /\ b.routes[i].desired = Unclaimed[i] => Still(b, c, i)
<1> DEFINE r        == [b.routes[i] EXCEPT !.row = NoRow]
           unjoined == Put(b, i, r)
           bumped   == BumpRoute(unjoined, i)
           renamed  == SetDesiredLabel(bumped, i, Unclaimed[i], FALSE)
           c        == Remember(renamed, i, TRUE)
<1>1. b \in Table /\ b.routes[i] \in Route /\ b.routes[i].gen = b.store[i].gen /\ b.routes[i].desired # NoLabel
  BY DEF SoundBut, OthersSound, Table, Live
<1>2. /\ r \in Route /\ r.desired = b.routes[i].desired /\ r.gen = b.store[i].gen /\ r.row = NoRow
      /\ r.desired # NoLabel
  BY <1>1 DEF Route, RowOrNone
<1>3. unjoined = [b EXCEPT !.routes[i].row = NoRow]
  BY <1>1 DEF Put, Table
<1>4. c = DropClaim(b, i)
  BY <1>3 DEF DropClaim
<1> HIDE DEF r
<1>5. /\ SoundBut(unjoined, i) /\ Still(b, unjoined, i) /\ Live(unjoined.routes) = Live(b.routes)
      /\ unjoined.store = b.store /\ unjoined.routes[i] = r
      /\ \A j \in Installs \ {i} : unjoined.routes[j] = b.routes[j]
  BY <1>2, PutSound DEF SoundBut
<1> HIDE DEF unjoined
<1>6. /\ SoundBut(bumped, i) /\ Still(unjoined, bumped, i) /\ Live(bumped.routes) = Live(b.routes)
      /\ bumped.store[i].gen = b.store[i].gen + 1
      /\ bumped.routes[i].desired = r.desired /\ bumped.routes[i].row = NoRow
      /\ \A j \in Installs \ {i} : bumped.routes[j] = b.routes[j]
  BY <1>2, <1>5, BumpSound
<1> HIDE DEF bumped
<1>7. Unclaimed[i] \in Label /\ Unclaimed[i] # NoLabel
  BY RouteTableAssumption
<1>8. /\ SoundBut(renamed, i) /\ Follows(bumped, renamed, i) /\ NamedAt(renamed, i)
      /\ Live(renamed.routes) = Live(b.routes) /\ bumped.store[i].gen <= renamed.store[i].gen
      /\ (\A j \in Live(bumped.routes) \ {i} :
            bumped.routes[j].label
              = Resolved([bumped.routes EXCEPT ![i].desired = Unclaimed[i], ![i].custom = FALSE], j))
           => Still(bumped, renamed, i)
  <2>1. SoundBut(renamed, i) /\ Follows(bumped, renamed, i) /\ NamedAt(renamed, i)
    BY <1>6, <1>7, SetDesiredLabelSound
  <2>2. Live(renamed.routes) = Live(b.routes) /\ bumped.store[i].gen <= renamed.store[i].gen
    BY <1>6, <1>7, SetDesiredLabelSound
  <2>3. (\A j \in Live(bumped.routes) \ {i} :
            bumped.routes[j].label
              = Resolved([bumped.routes EXCEPT ![i].desired = Unclaimed[i], ![i].custom = FALSE], j))
           => Still(bumped, renamed, i)
    BY <1>6, <1>7, SetDesiredLabelSound
  <2> QED
    BY <2>1, <2>2, <2>3
<1> HIDE DEF renamed
<1>9. Sound(c) /\ Still(renamed, c, i) /\ c.store[i].gen = renamed.store[i].gen /\ c.routes = renamed.routes
  BY <1>8, RememberSound
<1> HIDE DEF c
<1>10. /\ unjoined \in Table /\ bumped \in Table /\ renamed \in Table /\ c \in Table
       /\ b.store[i].gen \in Nat /\ renamed.store[i].gen \in Nat
  BY <1>1, <1>5, <1>6, <1>8, <1>9 DEF SoundBut, OthersSound, Sound, Table, Entry
<1>11. Still(b, bumped, i)
  BY <1>1, <1>5, <1>6, <1>10, StillFollows
<1>12. Follows(b, c, i) /\ (Still(bumped, renamed, i) => Still(b, c, i))
  <2>1. Follows(b, renamed, i) /\ (Still(bumped, renamed, i) => Still(b, renamed, i))
    BY <1>1, <1>8, <1>10, <1>11, StillFollows
  <2> QED
    BY <1>1, <1>9, <1>10, <2>1, StillFollows
<1>13. ASSUME Settled(b), b.routes[i].row = NoRow, b.routes[i].desired = Unclaimed[i]
       PROVE  Still(b, c, i)
  <2> DEFINE s == [bumped.routes EXCEPT ![i].desired = Unclaimed[i], ![i].custom = FALSE]
  <2>1. bumped.routes \in [Installs -> Route \cup {NoRoute}] /\ bumped.routes[i] \in Route
    BY <1>6, <1>10 DEF Table, Live
  <2>2. s = [bumped.routes EXCEPT ![i] = [bumped.routes[i] EXCEPT !.desired = Unclaimed[i], !.custom = FALSE]]
    BY <2>1
  <2>3. LET q == [bumped.routes[i] EXCEPT !.desired = Unclaimed[i], !.custom = FALSE]
        IN  q \in Route /\ q.desired = Unclaimed[i] /\ q.row = NoRow
    BY <1>6, <1>7, <2>1 DEF Route
  <2>4. /\ s \in [Installs -> Route \cup {NoRoute}] /\ s[i] \in Route
        /\ s[i].desired = Unclaimed[i] /\ s[i].row = NoRow
        /\ \A j \in Installs \ {i} : s[j] = bumped.routes[j]
    BY <2>1, <2>2, <2>3
  <2> HIDE DEF s
  <2>5. Live(s) = Live(b.routes)
    BY <1>6, <2>4, NoneAssumption DEF Live
  <2>6. \A k \in Live(b.routes) : s[k].desired = b.routes[k].desired /\ s[k].row = b.routes[k].row
    BY <1>6, <1>13, <2>4 DEF Live
  <2>7. \A j \in Live(b.routes) : Resolved(s, j) = Resolved(b.routes, j)
    BY <1>1, <2>4, <2>5, <2>6, ResolvedSame DEF Table
  <2>8. \A j \in Live(bumped.routes) \ {i} : bumped.routes[j].label = Resolved(s, j)
    BY <1>6, <1>13, <2>7 DEF Settled, Live
  <2> QED
    BY <1>8, <1>12, <2>8 DEF s
<1> DEFINE first == BumpRoute([b EXCEPT !.routes[i].row = NoRow], i)
<1>14. Durable(first.store) /\ Durable(SetDesiredLabel(first, i, Unclaimed[i], FALSE).store)
  <2>1. Durable(bumped.store) /\ Durable(renamed.store)
    BY <1>6, <1>8 DEF SoundBut, OthersSound, Durable, Table
  <2>2. bumped = BumpRoute([b EXCEPT !.routes[i].row = NoRow], i)
    BY <1>3 DEF bumped
  <2> QED
    BY <2>1, <2>2 DEF renamed
<1>15. b.store[i].gen < c.store[i].gen
  BY <1>6, <1>8, <1>9, <1>10
<1> HIDE DEF first
<1>16. Sound(c) /\ Live(c.routes) = Live(b.routes)
  BY <1>8, <1>9
<1> QED
  BY <1>4, <1>12, <1>13, <1>14, <1>15, <1>16 DEF first
LEMMA AttachSound ==
    ASSUME NEW b, NEW i \in Installs, OthersSound(b, i), NEW row \in RowOrNone,
           NEW desired \in Label, desired # NoLabel, NEW custom \in BOOLEAN
    PROVE  LET c == Attach(b, i, row, desired, custom) IN
           /\ SoundBut(c, i) /\ Follows(b, c, i) /\ NamedAt(c, i) /\ Settled(c)
           /\ i \in Live(c.routes) /\ c.routes[i].row = row /\ c.routes[i].desired = desired
           /\ b.store[i].gen <= c.store[i].gen
<1> DEFINE r == [row |-> row, desired |-> desired, label |-> NoLabel, custom |-> custom, gen |-> b.store[i].gen]
           n == Put(b, i, r)
           c == ResolveTable(n)
<1>1. b \in Table /\ b.store[i] \in Entry
  BY DEF OthersSound, Table
<1>2. r \in Route /\ r.desired # NoLabel /\ r.gen = b.store[i].gen /\ r.row = row /\ r.desired = desired
  <2>1. NoLabel \in Label
    BY EmptySeq DEF NoLabel, Label
  <2> QED
    BY <1>1, <2>1 DEF Route, Entry
<1>3. c = Attach(b, i, row, desired, custom)
  BY DEF Attach, Put
<1> HIDE DEF r
<1>4. SoundBut(n, i) /\ Still(b, n, i) /\ i \in Live(n.routes) /\ n.routes[i] = r /\ n.store = b.store
  BY <1>2, PutSound
<1>5. n \in Table
  BY <1>4 DEF SoundBut, OthersSound
<1> HIDE DEF n
<1>6. /\ Live(c.routes) = Live(n.routes)
      /\ c.routes[i].row = n.routes[i].row /\ c.routes[i].desired = n.routes[i].desired
  BY <1>4, <1>5, ResolveTableEffect
<1>7. SoundBut(c, i) /\ Follows(n, c, i) /\ n.store[i].gen <= c.store[i].gen /\ NamedAt(c, i)
  BY <1>4, <1>6, ResolveTableSound
<1>8. Settled(c)
  BY <1>5, ResolveTableSettles
<1> HIDE DEF c
<1>9. Follows(b, c, i)
  BY <1>1, <1>4, <1>5, <1>7, StillFollows DEF SoundBut, OthersSound
<1> QED
  BY <1>2, <1>3, <1>4, <1>6, <1>7, <1>8, <1>9

-----------------------------------------------------------------------------
(* A handler of i leaves the table sound, whichever of its saves is the    *)
(* last that reached the file, and ends the session it is about: its       *)
(* record's generation grows, or its route is gone.                        *)
Handled(i, ended, b, saves) ==
    /\ Become(b, saves) /\ EndSessions(ended, b)
    /\ Sound(b) /\ Follows(Now, b, i)
    /\ \A st \in saves : Durable(st)
    /\ \/ ended = {i} /\ store[i].gen < b.store[i].gen
       \/ ended = {} /\ i \notin Live(b.routes) /\ store[i].gen <= b.store[i].gen

Handles(i) == \E ended \in {{}, {i}} : \E b, saves : Handled(i, ended, b, saves)

LEMMA VerdictKeeps ==
    ASSUME NEW e \in Entry, NEW v \in Verdicts(e)
    PROVE  LET f == AfterVerdict(e, v) IN
           /\ f \in Entry /\ f.desired = e.desired /\ f.label = e.label /\ f.custom = e.custom /\ f.gen = e.gen
           /\ IdentityChanged(f, v) => v.row = NoRow /\ ~LabelIsCustom(f, v) /\ ~v.unverified
           /\ \A i \in Installs : (e.custom => e.label # NoLabel) => RegisterLabel(i, f, v) # NoLabel
<1> DEFINE f == AfterVerdict(e, v)
<1>1. v \in Verdict /\ (v.drift => v.row = NoRow) /\ (v.unverified => v.row # NoRow /\ ~v.forgets) /\ (v.drift => v.forgets)
  BY DEF Verdicts
<1>2. f \in Entry /\ f.desired = e.desired /\ f.label = e.label /\ f.custom = e.custom /\ f.gen = e.gen
  BY <1>1 DEF AfterVerdict, ForgetClaim, Entry, Verdict, RowOrNone
<1> HIDE DEF f
<1>3. IdentityChanged(f, v) => v.row = NoRow /\ ~LabelIsCustom(f, v) /\ ~v.unverified
  BY <1>1 DEF IdentityChanged, LabelIsCustom
<1>4. ASSUME NEW i \in Installs, e.custom => e.label # NoLabel PROVE RegisterLabel(i, f, v) # NoLabel
  <2>1. DefaultLabelFor(i, v.row) # NoLabel
    BY <1>1, RouteTableAssumption DEF DefaultLabelFor, Verdict, RowOrNone
  <2> QED
    BY <1>2, <1>4, <2>1 DEF RegisterLabel, LabelIsCustom
<1> QED
  BY <1>2, <1>3, <1>4 DEF f

LEMMA NowSound ==
    ASSUME TypeOK, Sound(Now), NEW i \in Installs, NEW e \in Entry,
           e.desired = store[i].desired, e.label = store[i].label, e.custom = store[i].custom, e.gen = store[i].gen
    PROVE  LET r == [routes |-> routes, store |-> [store EXCEPT ![i] = e]] IN Sound(r) /\ Still(Now, r, i)
<1> DEFINE r == [routes |-> routes, store |-> [store EXCEPT ![i] = e]]
<1>1. r \in Table /\ r.routes = routes /\ Now.routes = routes /\ Now.store = store
  BY DEF TypeOK, Table, Now
<1>2. \A j \in Installs : /\ r.store[j].desired = store[j].desired /\ r.store[j].label = store[j].label
                          /\ r.store[j].custom = store[j].custom /\ r.store[j].gen = store[j].gen
  BY DEF TypeOK
<1> HIDE DEF r
<1>3. Named(r.store)
  BY <1>1, <1>2 DEF Sound, Named
<1>4. \A j \in Live(routes) : AgreesAt(r, j) /\ NamedAt(r, j)
  BY <1>1, <1>2 DEF Sound, AgreesAt, NamedAt, Live
<1> QED
  BY <1>1, <1>2, <1>3, <1>4 DEF Sound, Still, r

LEMMA RegisterHandled ==
    ASSUME TypeOK, Sound(Now), NEW i \in Installs, NEW v \in Verdicts(store[i]), Register(i, v)
    PROVE  Handles(i)
<1> DEFINE entry    == AfterVerdict(store[i], v)
           resolved == [routes |-> routes, store |-> [store EXCEPT ![i] = entry]]
           bumped   == NextGeneration(resolved, i)
           label    == RegisterLabel(i, entry, v)
           custom   == LabelIsCustom(entry, v)
           attached == Attach(bumped, i, v.row, label, custom)
           changed  == IdentityChanged(entry, v)
           settled  == IF changed THEN DropClaim(attached, i) ELSE attached
           b        == Remember(settled, i, changed)
           saves    == {resolved.store, bumped.store, attached.store, settled.store}
<1>1. store[i] \in Entry /\ (store[i].custom => store[i].label # NoLabel) /\ Now.routes = routes /\ Now.store = store
  BY DEF TypeOK, Sound, Named, Now
<1>2. /\ entry \in Entry /\ changed \in BOOLEAN /\ custom \in BOOLEAN /\ v.row \in RowOrNone /\ label \in Label
      /\ label # NoLabel /\ entry.desired = store[i].desired /\ entry.label = store[i].label
      /\ entry.custom = store[i].custom /\ entry.gen = store[i].gen
      /\ changed => v.row = NoRow /\ label = Unclaimed[i]
  <2>1. changed => label = Unclaimed[i]
    BY <1>1, VerdictKeeps DEF RegisterLabel, DefaultLabelFor
  <2>2. changed => v.row = NoRow
    BY <1>1, VerdictKeeps
  <2>3. label # NoLabel /\ entry.desired = store[i].desired /\ entry.label = store[i].label
        /\ entry.custom = store[i].custom /\ entry.gen = store[i].gen
    BY <1>1, VerdictKeeps
  <2> QED
    BY <1>1, <2>1, <2>2, <2>3, VerdictType
<1>3. Become(b, saves) /\ EndSessions({i}, b)
  BY DEF Register
<1> HIDE DEF entry, label, custom, changed
<1>4. Sound(resolved) /\ Still(Now, resolved, i) /\ resolved.store[i].gen = store[i].gen /\ resolved \in Table
  <2>1. Sound(resolved) /\ Still(Now, resolved, i)
    BY <1>2, NowSound
  <2>2. resolved.store[i] = entry
    BY DEF TypeOK
  <2> QED
    BY <1>2, <2>1, <2>2 DEF Sound
<1> HIDE DEF resolved
<1>5. /\ bumped \in Table /\ bumped.routes = resolved.routes
      /\ bumped.store[i] = [resolved.store[i] EXCEPT !.gen = @ + 1]
      /\ \A j \in Installs \ {i} : bumped.store[j] = resolved.store[j]
  BY <1>4, BumpType DEF NextGeneration, Table
<1>6. resolved.store[i] \in Entry
  BY <1>4 DEF Table
<1>7. /\ bumped.store[i].gen = store[i].gen + 1 /\ bumped.store[i].custom = resolved.store[i].custom
      /\ bumped.store[i].label = resolved.store[i].label
  BY <1>4, <1>5, <1>6 DEF Entry
<1> HIDE DEF bumped
<1>8. OthersSound(bumped, i) /\ Still(resolved, bumped, i)
  <2>1. Named(bumped.store)
    <3> SUFFICES ASSUME NEW j \in Installs, bumped.store[j].custom PROVE bumped.store[j].label # NoLabel
      BY DEF Named
    <3>1. bumped.store[j].custom = resolved.store[j].custom /\ bumped.store[j].label = resolved.store[j].label
      BY <1>5, <1>7
    <3> QED
      BY <1>4, <3>1 DEF Sound, Named
  <2>2. \A j \in Live(bumped.routes) \ {i} : AgreesAt(bumped, j) /\ NamedAt(bumped, j)
    BY <1>4, <1>5 DEF Sound, AgreesAt, NamedAt, Live
  <2> QED
    BY <1>5, <2>1, <2>2 DEF OthersSound, Still
<1>9. /\ SoundBut(attached, i) /\ Follows(bumped, attached, i) /\ NamedAt(attached, i) /\ Settled(attached)
      /\ i \in Live(attached.routes) /\ attached.routes[i].row = v.row /\ attached.routes[i].desired = label
      /\ bumped.store[i].gen <= attached.store[i].gen
  BY <1>2, <1>8, AttachSound
<1> HIDE DEF attached
<1>10. /\ SoundBut(settled, i) /\ Follows(bumped, settled, i) /\ NamedAt(settled, i) /\ i \in Live(settled.routes)
       /\ attached.store[i].gen <= settled.store[i].gen
  <2>1. CASE changed
    <3>1. settled = DropClaim(attached, i)
      BY <2>1
    <3>2. /\ Sound(settled) /\ Live(settled.routes) = Live(attached.routes) /\ attached.store[i].gen < settled.store[i].gen
          /\ Still(attached, settled, i)
      BY <1>2, <1>9, <2>1, <3>1, DropClaimSound
    <3> HIDE DEF settled
    <3>3. bumped \in Table /\ attached \in Table /\ settled \in Table
      BY <1>5, <1>9, <3>2 DEF SoundBut, OthersSound, Sound
    <3>4. Follows(bumped, settled, i)
      BY <1>9, <3>2, <3>3, StillFollows
    <3>5. SoundBut(settled, i) /\ NamedAt(settled, i) /\ i \in Live(settled.routes)
      BY <1>9, <3>2, SoundIsSoundBut DEF Sound
    <3> QED
      BY <3>2, <3>3, <3>4, <3>5 DEF Table, Entry
  <2>2. CASE ~changed
    <3>1. settled = attached
      BY <2>2
    <3>2. attached.store[i].gen \in Nat
      BY <1>9 DEF SoundBut, OthersSound, Table, Entry
    <3> QED
      BY <1>9, <3>1, <3>2
  <2> QED
    BY <1>2, <2>1, <2>2
<1> HIDE DEF settled
<1>11. Sound(b) /\ Still(settled, b, i) /\ b.store[i].gen = settled.store[i].gen
  BY <1>2, <1>10, RememberSound
<1>12. Follows(Now, b, i) /\ store[i].gen < b.store[i].gen
  <2>1. Now \in Table /\ bumped \in Table /\ attached \in Table /\ settled \in Table /\ b \in Table
    BY <1>5, <1>9, <1>10, <1>11 DEF SoundBut, OthersSound, Sound
  <2>2. Still(Now, bumped, i) /\ Follows(bumped, b, i)
    BY <1>4, <1>8, <1>10, <1>11, <2>1, StillFollows
  <2>3. store[i].gen \in Nat /\ bumped.store[i].gen \in Nat /\ attached.store[i].gen \in Nat /\ settled.store[i].gen \in Nat
    BY <1>1, <2>1 DEF Table, Entry
  <2> QED
    BY <1>7, <1>9, <1>10, <1>11, <2>1, <2>2, <2>3, StillFollows
<1>13. \A st \in saves : Durable(st)
  BY <1>4, <1>8, <1>9, <1>10 DEF Durable, Table, Sound, OthersSound, SoundBut
<1> HIDE DEF b, saves
<1>14. Handled(i, {i}, b, saves)
  BY <1>3, <1>11, <1>12, <1>13 DEF Handled
<1> QED
  BY <1>14 DEF Handles
LEMMA DisconnectHandled ==
    ASSUME TypeOK, Sound(Now), NEW i \in Installs, Disconnect(i)
    PROVE  Handles(i)
<1> DEFINE n == [Now EXCEPT !.routes[i] = NoRoute]
           b == ResolveTable(n)
<1>1. Become(b, {}) /\ EndSessions({}, b)
  BY DEF Disconnect, Detach, Now
<1>2. n.routes = [routes EXCEPT ![i] = NoRoute] /\ n.store = store /\ n \in Table /\ Now.routes = routes /\ Now.store = store
  BY DEF TypeOK, Now, Table
<1>3. n.routes[i] = NoRoute /\ \A j \in Installs \ {i} : n.routes[j] = routes[j]
  BY <1>2 DEF TypeOK
<1> HIDE DEF n
<1>4. OthersSound(n, i) /\ i \notin Live(n.routes) /\ Still(Now, n, i)
  BY <1>2, <1>3 DEF Sound, OthersSound, Still, AgreesAt, NamedAt, Live
<1>5. SoundBut(n, i)
  BY <1>4 DEF SoundBut
<1>6. SoundBut(b, i) /\ Follows(n, b, i) /\ n.store[i].gen <= b.store[i].gen
  BY <1>5, ResolveTableSound
<1>7. Live(b.routes) = Live(n.routes)
  BY <1>2, ResolveTableEffect
<1>8. Sound(b) /\ b \in Table /\ Now \in Table
  BY <1>4, <1>6, <1>7, SoundWithout, NowType DEF SoundBut, OthersSound
<1> HIDE DEF b
<1>9. Follows(Now, b, i)
  BY <1>2, <1>4, <1>6, <1>8, StillFollows
<1>10. Handled(i, {}, b, {})
  BY <1>1, <1>2, <1>4, <1>6, <1>7, <1>8, <1>9 DEF Handled
<1> QED
  BY <1>10 DEF Handles

LEMMA ClaimProfileHandled ==
    ASSUME TypeOK, Sound(Now), NEW i \in Installs, NEW row \in Rows, ClaimProfile(i, row)
    PROVE  Handles(i)
<1> DEFINE r       == [routes[i] EXCEPT !.row = row]
           joined  == Put(Now, i, r)
           bumped  == BumpRoute(joined, i)
           renamed == IF routes[i].custom THEN bumped
                      ELSE SetDesiredLabel(bumped, i, Derived[row], FALSE)
           b       == Remember(renamed, i, FALSE)
           saves   == {bumped.store, renamed.store}
<1>1. /\ i \in Live(routes) /\ routes[i] \in Route /\ Now.routes = routes /\ Now.store = store
      /\ AgreesAt(Now, i) /\ NamedAt(Now, i) /\ SoundBut(Now, i) /\ store[i].gen \in Nat
  BY SoundIsSoundBut DEF ClaimProfile, TypeOK, Live, Now, Sound, Entry
<1>2. joined = [routes |-> [routes EXCEPT ![i].row = row], store |-> store]
  BY DEF Put, Now
<1>3. Become(b, saves) /\ EndSessions({i}, b)
  BY <1>2 DEF ClaimProfile
<1>4. /\ r \in Route /\ r.desired = routes[i].desired /\ r.desired # NoLabel /\ r.gen = Now.store[i].gen
      /\ r.label = routes[i].label /\ r.label # NoLabel
  BY <1>1 DEF Route, RowOrNone, AgreesAt, NamedAt
<1> HIDE DEF r
<1>5. SoundBut(joined, i) /\ Still(Now, joined, i) /\ i \in Live(joined.routes) /\ joined.routes[i] = r /\ joined.store = store
  BY <1>1, <1>4, PutSound DEF SoundBut
<1> HIDE DEF joined
<1>6. /\ SoundBut(bumped, i) /\ Still(joined, bumped, i) /\ i \in Live(bumped.routes) /\ NamedAt(bumped, i)
      /\ bumped.store[i].gen = store[i].gen + 1
  <2>1. /\ SoundBut(bumped, i) /\ Still(joined, bumped, i) /\ Live(bumped.routes) = Live(joined.routes)
        /\ bumped.store[i].gen = joined.store[i].gen + 1
        /\ bumped.routes[i].label = joined.routes[i].label /\ bumped.routes[i].desired = joined.routes[i].desired
    BY <1>5, BumpSound
  <2> QED
    BY <1>4, <1>5, <2>1 DEF NamedAt
<1> HIDE DEF bumped
<1>7. /\ SoundBut(renamed, i) /\ Follows(bumped, renamed, i) /\ NamedAt(renamed, i) /\ i \in Live(renamed.routes)
      /\ bumped.store[i].gen <= renamed.store[i].gen
  <2>1. CASE routes[i].custom
    <3>1. Follows(bumped, bumped, i)
      BY <1>6 DEF Follows, SoundBut, OthersSound, Table, Entry
    <3> QED
      BY <1>1, <1>6, <2>1, <3>1
  <2>2. CASE ~routes[i].custom
    <3>1. Derived[row] \in Label /\ Derived[row] # NoLabel
      BY RouteTableAssumption
    <3>2. renamed = SetDesiredLabel(bumped, i, Derived[row], FALSE)
      BY <2>2
    <3>3. SoundBut(renamed, i) /\ Follows(bumped, renamed, i) /\ NamedAt(renamed, i)
      BY <1>6, <3>1, <3>2, SetDesiredLabelSound
    <3>4. Live(renamed.routes) = Live(bumped.routes) /\ bumped.store[i].gen <= renamed.store[i].gen
      BY <1>6, <3>1, <3>2, SetDesiredLabelSound
    <3> QED
      BY <1>6, <3>3, <3>4
  <2> QED
    BY <2>1, <2>2
<1> HIDE DEF renamed
<1>8. Sound(b) /\ Still(renamed, b, i) /\ b.store[i].gen = renamed.store[i].gen
  BY <1>7, RememberSound
<1>9. Now \in Table /\ joined \in Table /\ bumped \in Table /\ renamed \in Table /\ b \in Table
  BY <1>1, <1>5, <1>6, <1>7, <1>8 DEF SoundBut, OthersSound, Sound
<1>10. \A st \in saves : Durable(st)
  BY <1>6, <1>7 DEF Durable, Table, SoundBut, OthersSound
<1> HIDE DEF b, saves
<1>11. Follows(Now, b, i)
  <2>1. Still(Now, bumped, i) /\ Follows(bumped, b, i)
    BY <1>5, <1>6, <1>7, <1>8, <1>9, StillFollows
  <2> QED
    BY <1>9, <2>1, StillFollows
<1>12. store[i].gen < b.store[i].gen
  <2>1. renamed.store[i].gen \in Nat
    BY <1>9 DEF Table, Entry
  <2> QED
    BY <1>1, <1>6, <1>7, <1>8, <2>1
<1>13. Handled(i, {i}, b, saves)
  BY <1>3, <1>8, <1>10, <1>11, <1>12 DEF Handled
<1> QED
  BY <1>13 DEF Handles

LEMMA SetLabelHandled ==
    ASSUME TypeOK, Sound(Now), NEW i \in Installs, NEW label \in Custom, SetLabel(i, label)
    PROVE  Handles(i)
<1> DEFINE bumped  == BumpRoute(Now, i)
           renamed == SetDesiredLabel(bumped, i, label, TRUE)
           b       == RememberName(renamed, i)
           saves   == {bumped.store, renamed.store}
<1>1. /\ i \in Live(Now.routes) /\ Now.store = store /\ SoundBut(Now, i) /\ store[i].gen \in Nat
      /\ label \in Label /\ label # NoLabel
  BY SoundIsSoundBut, RouteTableAssumption DEF SetLabel, TypeOK, Now, Entry
<1>2. Become(b, saves) /\ EndSessions({i}, b)
  BY DEF SetLabel, Now
<1>3. /\ SoundBut(bumped, i) /\ Still(Now, bumped, i) /\ i \in Live(bumped.routes)
      /\ bumped.store[i].gen = store[i].gen + 1
  BY <1>1, BumpSound
<1> HIDE DEF bumped
<1>4. SoundBut(renamed, i) /\ Follows(bumped, renamed, i) /\ NamedAt(renamed, i)
  BY <1>1, <1>3, SetDesiredLabelSound
<1>5. Live(renamed.routes) = Live(bumped.routes) /\ bumped.store[i].gen <= renamed.store[i].gen
  BY <1>1, <1>3, SetDesiredLabelSound
<1> HIDE DEF renamed
<1>6. Sound(b) /\ Still(renamed, b, i) /\ b.store[i].gen = renamed.store[i].gen
  BY <1>3, <1>4, <1>5, RememberSound
<1>7. Now \in Table /\ bumped \in Table /\ renamed \in Table /\ b \in Table /\ renamed.store[i].gen \in Nat
  BY <1>1, <1>3, <1>4, <1>6 DEF SoundBut, OthersSound, Sound, Table, Entry
<1>8. \A st \in saves : Durable(st)
  BY <1>3, <1>4 DEF Durable, Table, SoundBut, OthersSound
<1> HIDE DEF b, saves
<1>9. Follows(Now, b, i)
  <2>1. Follows(bumped, b, i)
    BY <1>4, <1>6, <1>7, StillFollows
  <2> QED
    BY <1>3, <1>7, <2>1, StillFollows
<1>10. Handled(i, {i}, b, saves)
  BY <1>1, <1>2, <1>3, <1>5, <1>6, <1>7, <1>8, <1>9 DEF Handled
<1> QED
  BY <1>10 DEF Handles

LEMMA DriftHandled ==
    ASSUME TypeOK, Sound(Now), NEW i \in Installs, Drift(i)
    PROVE  Handles(i)
<1> DEFINE b     == DropClaim(Now, i)
           bumped == BumpRoute([Now EXCEPT !.routes[i].row = NoRow], i)
           saves == {bumped.store, SetDesiredLabel(bumped, i, Unclaimed[i], FALSE).store}
<1>1. i \in Live(Now.routes) /\ Now.store = store /\ SoundBut(Now, i)
  BY SoundIsSoundBut DEF Drift, Now
<1>2. [Now EXCEPT !.routes[i].row = NoRow] = [routes |-> [routes EXCEPT ![i].row = NoRow], store |-> store]
  BY DEF Now
<1>3. Become(b, saves) /\ EndSessions({i}, b)
  BY <1>2 DEF Drift, Now
<1>4. Sound(b) /\ Follows(Now, b, i) /\ store[i].gen < b.store[i].gen
  BY <1>1, DropClaimSound
<1>5. \A st \in saves : Durable(st)
  BY <1>1, DropClaimSound
<1> HIDE DEF b, saves
<1>6. Handled(i, {i}, b, saves)
  BY <1>3, <1>4, <1>5 DEF Handled
<1> QED
  BY <1>6 DEF Handles

-----------------------------------------------------------------------------
(* The invariants, and what a handler does to them.                        *)

TableInv == TypeOK /\ Sound(Now) /\ Named(disk)

(* The handle that is followed names a generation its owner has had: the   *)
(* one it is in, or an earlier one.                                        *)
HandleSound ==
    handle # NoHandle =>
        /\ handle.gen <= store[handle.owner].gen
        /\ handle.owner \in Live(routes) =>
             IF handle.current
             THEN handle.label = routes[handle.owner].label /\ handle.gen = routes[handle.owner].gen
             ELSE handle.gen < routes[handle.owner].gen

LEMMA TornNamed ==
    ASSUME NEW stores, \A st \in stores : Durable(st), NEW d \in Torn(stores)
    PROVE  Named(d)
<1>1. stores \in SUBSET [Installs -> Entry]
  BY DEF Durable
<1>2. ASSUME NEW i \in Installs, d[i].custom PROVE d[i].label # NoLabel
  <2>1. PICK st \in stores : d[i].label = st[i].label /\ d[i].custom = st[i].custom
    BY <1>1, TornEffect
  <2> QED
    BY <1>2, <2>1 DEF Durable, Named
<1> QED
  BY <1>2 DEF Named

LEMMA HandledTable ==
    ASSUME TableInv, NEW i \in Installs, Handles(i)
    PROVE  Sound(Now)' /\ Named(disk)' /\ (~SavesFail => disk' = store')
<1>1. PICK ended \in {{}, {i}} : \E b, saves : Handled(i, ended, b, saves)
  BY DEF Handles
<1>2. PICK b, saves : Handled(i, ended, b, saves)
  BY <1>1
<1>3. /\ routes' = b.routes /\ store' = b.store /\ Sound(b)
      /\ disk' \in IF SavesFail THEN Torn({disk, b.store} \cup saves) ELSE {b.store}
      /\ \A st \in {disk, b.store} \cup saves : Durable(st)
  BY <1>2 DEF Handled, Become, Sound, TableInv, TypeOK, Table, Durable
<1>4. Named(disk)' /\ (~SavesFail => disk' = store')
  <2>1. Named(disk')
    BY <1>3, TornNamed DEF Durable
  <2> QED
    BY <1>3, <2>1 DEF Named
<1>5. Sound(Now)'
  <2>1. Now' = b
    BY <1>3 DEF Now, Sound, Table
  <2> QED
    BY <1>3, <2>1
<1> QED
  BY <1>4, <1>5

LEMMA HandledHandle ==
    ASSUME TableInv, HandleSound, NEW i \in Installs, Handles(i)
    PROVE  HandleSound'
<1>1. PICK ended \in {{}, {i}} : \E b, saves : Handled(i, ended, b, saves)
  BY DEF Handles
<1>2. PICK b, saves : Handled(i, ended, b, saves)
  BY <1>1
<1>3. /\ routes' = b.routes /\ store' = b.store /\ Sound(b) /\ b \in Table /\ Follows(Now, b, i)
      /\ Now.routes = routes /\ Now.store = store
      /\ handle' = IF handle # NoHandle /\ handle.owner \in ended \cup Renamed(b)
                   THEN [handle EXCEPT !.current = FALSE] ELSE handle
  BY <1>2 DEF Handled, Become, EndSessions, Now, Sound
<1> SUFFICES ASSUME handle' # NoHandle
             PROVE  /\ handle'.gen <= store'[handle'.owner].gen
                    /\ handle'.owner \in Live(routes') =>
                         IF handle'.current
                         THEN handle'.label = routes'[handle'.owner].label /\ handle'.gen = routes'[handle'.owner].gen
                         ELSE handle'.gen < routes'[handle'.owner].gen
  BY DEF HandleSound
<1>4. handle \in Handle
  BY <1>3 DEF TableInv, TypeOK
<1>5. /\ handle'.owner = handle.owner /\ handle'.gen = handle.gen /\ handle'.label = handle.label
      /\ handle.owner \in Installs /\ handle.gen \in Nat
      /\ IF handle.owner \in ended \cup Renamed(b) THEN ~handle'.current ELSE handle'.current = handle.current
  BY <1>3, <1>4, NoneAssumption DEF Handle
<1>6. handle.gen <= store[handle.owner].gen
  BY <1>4, NoneAssumption DEF HandleSound
<1>7. \A j \in Installs : /\ store[j].gen \in Nat /\ b.store[j].gen \in Nat
                          /\ j \in Live(routes) => store[j].gen = routes[j].gen
                          /\ j \in Live(b.routes) => b.store[j].gen = b.routes[j].gen
  BY <1>3 DEF TableInv, TypeOK, Entry, Sound, AgreesAt, Table
<1>8. CASE handle.owner = i
  BY <1>2, <1>3, <1>5, <1>6, <1>7, <1>8 DEF Handled
<1>9. CASE handle.owner # i
  <2> DEFINE j == handle.owner
  <2>1. /\ j \in Live(routes) <=> j \in Live(b.routes)
        /\ store[j].gen <= b.store[j].gen
        /\ j \in Live(routes) =>
             /\ b.routes[j].label = routes[j].label => b.routes[j].gen = routes[j].gen
             /\ b.routes[j].label # routes[j].label => routes[j].gen < b.routes[j].gen
    BY <1>3, <1>5, <1>9 DEF Follows
  <2>2. j \notin ended
    BY <1>9
  <2>3. j \in Renamed(b) <=> j \in Live(routes) /\ j \in Live(b.routes) /\ b.routes[j].label # routes[j].label
    BY DEF Renamed
  <2>4. j \in Live(routes) => IF handle.current THEN handle.label = routes[j].label /\ handle.gen = routes[j].gen
                              ELSE handle.gen < routes[j].gen
    BY <1>4, NoneAssumption DEF HandleSound
  <2> HIDE DEF j
  <2> QED
    BY <1>3, <1>5, <1>6, <1>7, <2>1, <2>2, <2>3, <2>4 DEF j
<1> QED
  BY <1>8, <1>9
LEMMA AbandonedTable ==
    ASSUME TableInv, NEW i \in Installs, NEW v \in Verdicts(store[i]), RegisterAbandoned(i, v)
    PROVE  /\ Sound(Now)' /\ Named(disk)' /\ (~SavesFail => disk' = store')
           /\ HandleSound => HandleSound'
<1> DEFINE e == AfterVerdict(store[i], v)
           b == [routes |-> routes, store |-> [store EXCEPT ![i] = e]]
<1>1. store[i] \in Entry
  BY DEF TableInv, TypeOK
<1>2. /\ e \in Entry /\ e.desired = store[i].desired /\ e.label = store[i].label
      /\ e.custom = store[i].custom /\ e.gen = store[i].gen
  BY <1>1, VerdictKeeps
<1>3. /\ routes' = routes /\ store' = [store EXCEPT ![i] = e] /\ handle' = handle
      /\ disk' \in IF SavesFail THEN Torn({disk, store'}) ELSE {store'}
  <2>1. {disk, store'} \cup {} = {disk, store'}
    OBVIOUS
  <2> QED
    BY <2>1 DEF RegisterAbandoned, Become
<1> HIDE DEF e
<1>4. Sound(b)
  BY <1>2, NowSound DEF TableInv
<1>5. Now' = b
  BY <1>3 DEF Now
<1>6. b.store = store'
  BY <1>3
<1> HIDE DEF b
<1>7. Sound(Now)' /\ Durable(disk) /\ Durable(store')
  BY <1>4, <1>5, <1>6 DEF Sound, Table, Durable, TableInv, TypeOK
<1>8. Named(disk)' /\ (~SavesFail => disk' = store')
  <2>1. Named(disk')
    BY <1>3, <1>7, TornNamed DEF Durable
  <2> QED
    BY <1>3, <2>1 DEF Named
<1>9. \A j \in Installs : store'[j].gen = store[j].gen
  BY <1>2, <1>3 DEF TableInv, TypeOK
<1>10. HandleSound => HandleSound'
  BY <1>3, <1>9 DEF HandleSound, TableInv, TypeOK, Handle
<1> QED
  BY <1>7, <1>8, <1>10

LEMMA MintKeeps ==
    ASSUME TableInv, NEW i \in Installs, Mint(i)
    PROVE  /\ Sound(Now)' /\ Named(disk)' /\ (disk = store => disk' = store')
           /\ HandleSound'
<1>1. routes' = routes /\ store' = store /\ disk' = disk
  BY DEF Mint
<1>2. Now' = Now
  BY <1>1 DEF Now
<1>3. /\ i \in Live(routes) /\ routes[i].gen = store[i].gen /\ store[i].gen \in Nat
      /\ handle' = [owner |-> i, label |-> routes[i].label, gen |-> routes[i].gen, current |-> TRUE]
  BY DEF Mint, TableInv, Sound, AgreesAt, Now, TypeOK, Entry
<1>4. HandleSound'
  BY <1>1, <1>3 DEF HandleSound
<1> QED
  BY <1>1, <1>2, <1>4 DEF TableInv, Named

LEMMA RestartKeeps ==
    ASSUME TableInv, BrokerRestart
    PROVE  /\ Sound(Now)' /\ Named(disk)' /\ disk' = store'
           /\ HandleSound /\ disk = store => HandleSound'
<1>1. routes' = [i \in Installs |-> NoRoute] /\ store' = disk /\ disk' = disk
  BY DEF BrokerRestart
<1>2. Live(routes') = {}
  BY <1>1 DEF Live
<1>3. Now' = [routes |-> routes', store |-> store'] /\ Now' \in Table
  BY <1>1 DEF Now, Table, TableInv, TypeOK
<1>4. Sound(Now)'
  BY <1>1, <1>2, <1>3 DEF Sound, TableInv
<1>5. HandleSound /\ disk = store => HandleSound'
  BY <1>1, <1>2 DEF HandleSound, BrokerRestart, TableInv, TypeOK, Handle
<1> QED
  BY <1>1, <1>4, <1>5 DEF TableInv, Named

(* Every action of the broker is a handler of one install, an abandoned    *)
(* registration, a handle given out, or the restart.                       *)
LEMMA TableStep ==
    ASSUME TableInv, [Next]_vars
    PROVE  /\ TableInv'
           /\ ~SavesFail /\ disk = store => disk' = store'
           /\ ~SavesFail /\ disk = store /\ HandleSound => HandleSound'
<1>1. TypeOK'
  BY TypeStep DEF TableInv
<1> SUFFICES /\ Sound(Now)' /\ Named(disk)'
             /\ ~SavesFail /\ disk = store => disk' = store'
             /\ ~SavesFail /\ disk = store /\ HandleSound => HandleSound'
  BY <1>1 DEF TableInv
<1>2. ASSUME NEW i \in Installs, Handles(i)
      PROVE  /\ Sound(Now)' /\ Named(disk)' /\ (~SavesFail => disk' = store')
             /\ HandleSound => HandleSound'
  BY <1>2, HandledTable, HandledHandle
<1>3. ASSUME NEW i \in Installs, NEW v \in Verdicts(store[i]), Register(i, v)
      PROVE  Handles(i)
  BY <1>3, RegisterHandled DEF TableInv
<1>4. ASSUME NEW i \in Installs, NEW row \in Rows, ClaimProfile(i, row)
      PROVE  Handles(i)
  BY <1>4, ClaimProfileHandled DEF TableInv
<1>5. ASSUME NEW i \in Installs, NEW label \in Custom, SetLabel(i, label)
      PROVE  Handles(i)
  BY <1>5, SetLabelHandled DEF TableInv
<1>6. ASSUME NEW i \in Installs, Disconnect(i) \/ Drift(i)
      PROVE  Handles(i)
  BY <1>6, DisconnectHandled, DriftHandled DEF TableInv
<1>7. CASE UNCHANGED vars
  <2>1. routes' = routes /\ store' = store /\ disk' = disk /\ handle' = handle
    BY <1>7 DEF vars
  <2>2. Now' = Now
    BY <2>1 DEF Now
  <2> QED
    BY <2>1, <2>2 DEF TableInv, Named, HandleSound
<1>8. CASE BrokerRestart
  BY <1>8, RestartKeeps
<1>9. CASE \E i \in Installs : Handles(i)
  BY <1>2, <1>9
<1>10. ASSUME NEW i \in Installs, NEW v \in Verdicts(store[i]), RegisterAbandoned(i, v)
       PROVE  /\ Sound(Now)' /\ Named(disk)' /\ (~SavesFail => disk' = store')
              /\ HandleSound => HandleSound'
  BY <1>10, AbandonedTable
<1>11. ASSUME NEW i \in Installs, Mint(i)
       PROVE  /\ Sound(Now)' /\ Named(disk)' /\ (disk = store => disk' = store') /\ HandleSound'
  BY <1>11, MintKeeps
<1> QED
  BY <1>3, <1>4, <1>5, <1>6, <1>7, <1>8, <1>9, <1>10, <1>11 DEF Next

LEMMA TableInit == Init => TableInv /\ disk = store /\ HandleSound
<1> SUFFICES ASSUME Init PROVE TableInv /\ disk = store /\ HandleSound
  OBVIOUS
<1>1. TypeOK
  BY TypeInit
<1>2. Live(routes) = {} /\ Now \in Table /\ Now.routes = routes /\ Now.store = store
  BY <1>1 DEF Init, Live, Now, Table, TypeOK
<1>3. Named(store) /\ disk = store
  BY DEF Init, Named, Blank
<1>4. Sound(Now)
  BY <1>2, <1>3 DEF Sound
<1> QED
  BY <1>1, <1>3, <1>4 DEF TableInv, HandleSound, Init

(* Whatever the order of the handlers, and whichever save fails, what the  *)
(* store says of a live route is what the board says of it: after every    *)
(* handler, the record a restart, an absent line and setLabel's refusals   *)
(* read has the label, the wanted name and the generation that route had.  *)
THEOREM TheStoreAgrees == Spec => []StoreAgreesWithRoutes
<1>1. Spec => []TableInv
  <2>1. Init => TableInv
    BY TableInit
  <2>2. TableInv /\ [Next]_vars => TableInv'
    BY TableStep
  <2> QED
    BY <2>1, <2>2, PTL DEF Spec
<1>2. TableInv => StoreAgreesWithRoutes
  BY DEF TableInv, Sound, AgreesAt, Now, StoreAgreesWithRoutes
<1> QED
  BY <1>1, <1>2, PTL

HandleInv == TableInv /\ disk = store /\ HandleSound

LEMMA HandleAlways ==
    ASSUME ~SavesFail
    PROVE  Spec => []HandleInv
<1>1. Init => HandleInv
  BY TableInit DEF HandleInv
<1>2. HandleInv /\ [Next]_vars => HandleInv'
  BY TableStep DEF HandleInv
<1> QED
  BY <1>1, <1>2, PTL DEF Spec

(* While every save of state.json succeeds, a tab handle is accepted by    *)
(* its own profile exactly while the session it was minted in lasts under  *)
(* the name it had: a reconnect, a claim, a rename, a move by somebody     *)
(* else's collision, a dropped claim and a broker restart end it, and      *)
(* nothing else does.  (A failed save lets the generation go back over a   *)
(* restart, and the property is then false.)                               *)
THEOREM HandlesLive ==
    ASSUME ~SavesFail
    PROVE  Spec => []HandleLivesAsLongAsItsSession
<1>1. HandleInv => HandleLivesAsLongAsItsSession
  <2> SUFFICES ASSUME HandleInv, handle # NoHandle, handle.owner \in Live(routes)
               PROVE  Validates(handle, handle.owner) <=> handle.current
    BY DEF HandleLivesAsLongAsItsSession
  <2>1. handle.gen \in Nat /\ routes[handle.owner].gen \in Nat /\ handle.current \in BOOLEAN
    BY DEF HandleInv, TableInv, TypeOK, Handle, Live, Route
  <2> QED
    BY <2>1 DEF HandleInv, HandleSound, Validates
<1> QED
  BY <1>1, HandleAlways, PTL
-----------------------------------------------------------------------------
(* The names.  The final safety net of #applyLabels tells two routes apart *)
(* by the hash of their installIds, so labels are unique as long as no     *)
(* route wants a name that ends in the hash of another.                    *)

EndsIn(l, x) == l # NoLabel /\ l[Len(l)] = x

(* No install but i is marked by l. *)
Own(i, l) == \A j \in Installs \ {i} : ~EndsIn(l, InstallHash[j])

(* The hashes of two installs differ, and nothing the names are made of -  *)
(* a directory, a derived or a typed name - ends in the hash of an install *)
(* it is not of.                                                           *)
HashesMark ==
    /\ \A i, j \in Installs : InstallHash[i] = InstallHash[j] => i = j
    /\ \A r \in Rows, i \in Installs : Dir[r] # InstallHash[i]
    /\ \A i, j \in Installs : i # j => KeyHash[i] # InstallHash[j]
    /\ \A i \in Installs : Own(i, Unclaimed[i])
    /\ \A r \in Rows, i \in Installs : Own(i, Derived[r])
    /\ \A l \in Custom, i \in Installs : Own(i, l)

OwnStore(st) == \A i \in Installs : Own(i, st[i].label) /\ Own(i, st[i].desired)

OwnRoutes(rt) == \A i \in Live(rt) : Own(i, rt[i].label) /\ Own(i, rt[i].desired)

Ours(b) == b \in Table /\ OwnStore(b.store) /\ OwnRoutes(b.routes)

Distinct(rt) == \A i, j \in Live(rt) : rt[i].label = rt[j].label => i = j

LEMMA AppendEnds ==
    ASSUME NEW s \in Label, NEW x \in Parts
    PROVE  Append(s, x) \in Label /\ \A y : EndsIn(Append(s, x), y) <=> x = y
<1>1. Append(s, x) \in Seq(Parts) /\ Append(s, x) # << >> /\ Append(s, x)[Len(Append(s, x))] = x
  BY AppendProperties DEF Label
<1> QED
  BY <1>1 DEF EndsIn, NoLabel, Label

LEMMA NoLabelOwn == \A i \in Installs : Own(i, NoLabel)
BY DEF Own, EndsIn

(* What #applyLabels proposes and what it resolves carry no other mark,    *)
(* and no two routes get one label.                                        *)
LEMMA ResolvedOwn ==
    ASSUME HashesMark, NEW rt \in [Installs -> Route \cup {NoRoute}],
           \A k \in Live(rt) : Own(k, rt[k].desired)
    PROVE  /\ \A i \in Live(rt) : Own(i, Resolved(rt, i))
           /\ \A i, j \in Live(rt) : Resolved(rt, i) = Resolved(rt, j) => i = j
<1>1. \A i \in Live(rt) : i \in Installs /\ rt[i].desired \in Label /\ rt[i].row \in RowOrNone
  BY DEF Live, Route
<1>2. \A i \in Live(rt) : Suffixed(rt, i) \in Label /\ Own(i, Suffixed(rt, i))
  <2> SUFFICES ASSUME NEW i \in Live(rt) PROVE Suffixed(rt, i) \in Label /\ Own(i, Suffixed(rt, i))
    OBVIOUS
  <2>1. CASE rt[i].row = NoRow
    <3>1. Suffixed(rt, i) = Append(rt[i].desired, KeyHash[i]) /\ KeyHash[i] \in Parts
      BY <1>1, <2>1, RouteTableAssumption DEF Suffixed
    <3>2. \A j \in Installs \ {i} : KeyHash[i] # InstallHash[j]
      BY <1>1 DEF HashesMark
    <3> QED
      BY <1>1, <3>1, <3>2, AppendEnds DEF Own
  <2>2. CASE rt[i].row # NoRow
    <3>1. rt[i].row \in Rows
      BY <1>1, <2>2 DEF RowOrNone
    <3>2. Suffixed(rt, i) = Append(rt[i].desired, Dir[rt[i].row]) /\ Dir[rt[i].row] \in Parts
      BY <2>2, <3>1, RouteTableAssumption DEF Suffixed
    <3>3. \A j \in Installs : Dir[rt[i].row] # InstallHash[j]
      BY <3>1 DEF HashesMark
    <3> QED
      BY <1>1, <3>2, <3>3, AppendEnds DEF Own
  <2> QED
    BY <2>1, <2>2
<1>3. \A i \in Live(rt), s \in Label :
        /\ Append(s, InstallHash[i]) \in Label
        /\ Own(i, Append(s, InstallHash[i])) /\ EndsIn(Append(s, InstallHash[i]), InstallHash[i])
  <2> SUFFICES ASSUME NEW i \in Live(rt), NEW s \in Label
               PROVE  /\ Append(s, InstallHash[i]) \in Label
                      /\ Own(i, Append(s, InstallHash[i])) /\ EndsIn(Append(s, InstallHash[i]), InstallHash[i])
    OBVIOUS
  <2>1. InstallHash[i] \in Parts /\ \A j \in Installs \ {i} : InstallHash[i] # InstallHash[j]
    BY <1>1, RouteTableAssumption DEF HashesMark
  <2> QED
    BY <2>1, AppendEnds DEF Own
<1>4. \A i \in Live(rt) : Proposal(rt, i) \in Label /\ Own(i, Proposal(rt, i))
  BY <1>1, <1>2, <1>3 DEF Proposal
<1>5. \A i \in Live(rt) : Own(i, Resolved(rt, i))
  BY <1>3, <1>4 DEF Resolved
<1>6. ASSUME NEW i \in Live(rt), NEW j \in Live(rt), Resolved(rt, i) = Resolved(rt, j), i # j
      PROVE  FALSE
  <2> DEFINE twice(k) == \E l \in Live(rt) \ {k} : Proposal(rt, l) = Proposal(rt, k)
  <2>1. ~EndsIn(Resolved(rt, j), InstallHash[i]) /\ ~EndsIn(Resolved(rt, i), InstallHash[j])
    BY <1>1, <1>5, <1>6 DEF Own
  <2>2. \A k \in Live(rt) : twice(k) => EndsIn(Resolved(rt, k), InstallHash[k])
    BY <1>3, <1>4 DEF Resolved
  <2>3. ~twice(i) /\ ~twice(j)
    BY <1>6, <2>1, <2>2
  <2>4. Resolved(rt, i) = Proposal(rt, i) /\ Resolved(rt, j) = Proposal(rt, j)
    BY <2>3 DEF Resolved
  <2> QED
    BY <1>6, <2>3, <2>4
<1> QED
  BY <1>5, <1>6

LEMMA ResolveTableOwn ==
    ASSUME HashesMark, NEW b, Ours(b)
    PROVE  Ours(ResolveTable(b)) /\ Distinct(ResolveTable(b).routes)
<1> DEFINE t == ResolveTable(b)
<1>1. b \in Table /\ t \in Table /\ Live(t.routes) = Live(b.routes)
  BY ResolveTableEffect DEF Ours
<1>2. \A i \in Live(b.routes) :
        /\ t.routes[i].desired = b.routes[i].desired /\ t.routes[i].label = Resolved(b.routes, i)
        /\ Unmoved(b, i) => t.store[i] = b.store[i]
        /\ ~Unmoved(b, i) =>
             t.store[i] = OnLabelChanged(b.store[i], b.routes[i].desired, Resolved(b.routes, i))
  BY <1>1, ResolveTableEffect
<1>3. \A i \in Installs \ Live(b.routes) : t.store[i] = b.store[i]
  BY <1>1, ResolveTableEffect
<1> HIDE DEF t
<1>4. /\ \A i \in Live(b.routes) : Own(i, Resolved(b.routes, i))
      /\ \A i, j \in Live(b.routes) : Resolved(b.routes, i) = Resolved(b.routes, j) => i = j
  BY <1>1, ResolvedOwn DEF Ours, OwnRoutes, Table
<1>5. OwnRoutes(t.routes) /\ Distinct(t.routes)
  BY <1>1, <1>2, <1>4 DEF OwnRoutes, Ours, Distinct
<1>6. \A e \in Entry : \A d, l : OnLabelChanged(e, d, l).label = l /\ OnLabelChanged(e, d, l).desired = d
  BY DEF OnLabelChanged, Entry
<1>7. \A i \in Live(b.routes) : ~Unmoved(b, i) =>
        t.store[i].label = Resolved(b.routes, i) /\ t.store[i].desired = b.routes[i].desired
  BY <1>1, <1>2, <1>6 DEF Table, Live
<1>8. OwnStore(t.store)
  BY <1>2, <1>3, <1>4, <1>7 DEF OwnStore, OwnRoutes, Ours
<1> QED
  BY <1>1, <1>5, <1>8 DEF Ours, t

LEMMA PutOwn ==
    ASSUME NEW b, Ours(b), NEW i \in Installs, NEW r \in Route, Own(i, r.label), Own(i, r.desired)
    PROVE  Ours(Put(b, i, r)) /\ i \in Live(Put(b, i, r).routes) /\ Put(b, i, r).store = b.store
<1> DEFINE c == Put(b, i, r)
<1>1. b \in Table /\ r # NoRoute
  BY NoneAssumption DEF Ours
<1>2. c \in Table /\ c.store = b.store /\ c.routes = [b.routes EXCEPT ![i] = r]
  BY <1>1 DEF Put, Table
<1> HIDE DEF c
<1>3. c.routes[i] = r /\ \A j \in Installs \ {i} : c.routes[j] = b.routes[j]
  BY <1>1, <1>2 DEF Table
<1>4. OwnRoutes(c.routes)
  BY <1>3 DEF OwnRoutes, Ours, Live
<1> QED
  BY <1>1, <1>2, <1>3, <1>4 DEF Ours, Live, c

LEMMA BumpOwn ==
    ASSUME NEW b, Ours(b), NEW i \in Live(b.routes)
    PROVE  LET t == BumpRoute(b, i) IN
           /\ Ours(t) /\ i \in Live(t.routes) /\ (Distinct(b.routes) => Distinct(t.routes))
           /\ t.routes[i].custom = b.routes[i].custom
<1> DEFINE t == BumpRoute(b, i)
<1>1. b \in Table /\ i \in Installs /\ b.store[i] \in Entry
  BY DEF Ours, Live, Table
<1>2. /\ t \in Table /\ Live(t.routes) = Live(b.routes)
      /\ \A j \in Live(b.routes) : /\ t.routes[j].desired = b.routes[j].desired
                                   /\ t.routes[j].label = b.routes[j].label
                                   /\ t.routes[j].custom = b.routes[j].custom
      /\ t.store[i] = [b.store[i] EXCEPT !.gen = @ + 1]
      /\ \A j \in Installs \ {i} : t.store[j] = b.store[j]
  BY <1>1, BumpEffect
<1> HIDE DEF t
<1>3. t.store[i].label = b.store[i].label /\ t.store[i].desired = b.store[i].desired
  BY <1>1, <1>2 DEF Entry
<1>4. OwnStore(t.store)
  BY <1>2, <1>3 DEF OwnStore, Ours
<1> QED
  BY <1>2, <1>4 DEF Ours, OwnRoutes, Distinct, t

LEMMA RememberOwn ==
    ASSUME NEW b, Ours(b), NEW i \in Live(b.routes), NEW changed \in BOOLEAN
    PROVE  /\ Ours(RememberName(b, i)) /\ RememberName(b, i).routes = b.routes
           /\ Ours(Remember(b, i, changed)) /\ Remember(b, i, changed).routes = b.routes
<1> DEFINE n == RememberName(b, i)
           m == Remember(b, i, changed)
           e == [b.store[i] EXCEPT !.desired = b.routes[i].desired, !.label = b.routes[i].label,
                                   !.custom = b.routes[i].custom]
<1>1. b \in Table /\ i \in Installs /\ b.store[i] \in Entry
  BY DEF Ours, Live, Table
<1>2. n \in Table /\ m \in Table
  BY <1>1, RememberType
<1>3. e.desired = b.routes[i].desired /\ e.label = b.routes[i].label
  BY <1>1 DEF Entry
<1>4. n.routes = b.routes /\ n.store[i] = e /\ \A j \in Installs \ {i} : n.store[j] = b.store[j]
  BY <1>1 DEF RememberName, Table
<1>5. /\ m.routes = b.routes /\ \A j \in Installs \ {i} : m.store[j] = b.store[j]
      /\ m.store[i] = [[e EXCEPT !.row = b.routes[i].row] EXCEPT !.changed = changed]
  BY <1>1, <1>2, <1>4 DEF Remember, Table
<1>6. e \in Entry
  BY <1>1, <1>2, <1>4 DEF Table
<1>7. m.store[i].desired = e.desired /\ m.store[i].label = e.label
  BY <1>5, <1>6 DEF Entry
<1> HIDE DEF n, m, e
<1>8. OwnStore(n.store) /\ OwnStore(m.store)
  BY <1>3, <1>4, <1>5, <1>7 DEF OwnStore, OwnRoutes, Ours
<1> QED
  BY <1>2, <1>4, <1>5, <1>8 DEF Ours, n, m

LEMMA SetDesiredLabelOwn ==
    ASSUME HashesMark, NEW b, Ours(b), NEW i \in Live(b.routes),
           NEW desired \in Label, Own(i, desired), NEW custom \in BOOLEAN
    PROVE  LET t == SetDesiredLabel(b, i, desired, custom) IN
           Ours(t) /\ Distinct(t.routes) /\ i \in Live(t.routes)
<1> DEFINE r == [b.routes[i] EXCEPT !.desired = desired, !.custom = custom]
           n == Put(b, i, r)
           t == ResolveTable(n)
<1>1. b \in Table /\ i \in Installs /\ b.routes[i] \in Route /\ Own(i, b.routes[i].label)
  BY DEF Ours, OwnRoutes, Live, Table
<1>2. r \in Route /\ r.desired = desired /\ r.label = b.routes[i].label
  BY <1>1 DEF Route
<1>3. n = [b EXCEPT !.routes[i].desired = desired, !.routes[i].custom = custom]
  BY <1>1 DEF Put, Table
<1>4. t = SetDesiredLabel(b, i, desired, custom)
  BY <1>3 DEF SetDesiredLabel
<1> HIDE DEF r
<1>5. Ours(n) /\ i \in Live(n.routes)
  BY <1>1, <1>2, PutOwn
<1> HIDE DEF n
<1>6. Ours(t) /\ Distinct(t.routes) /\ Live(t.routes) = Live(n.routes)
  BY <1>5, ResolveTableOwn, ResolveTableEffect DEF Ours
<1> QED
  BY <1>4, <1>5, <1>6

LEMMA DropClaimOwn ==
    ASSUME HashesMark, NEW b, Ours(b), NEW i \in Live(b.routes)
    PROVE  LET c == DropClaim(b, i) IN
           /\ Ours(c) /\ Distinct(c.routes) /\ i \in Live(c.routes)
           /\ LET bumped == BumpRoute([b EXCEPT !.routes[i].row = NoRow], i)
              IN  Ours(bumped) /\ Ours(SetDesiredLabel(bumped, i, Unclaimed[i], FALSE))
<1> DEFINE r        == [b.routes[i] EXCEPT !.row = NoRow]
           unjoined == Put(b, i, r)
           bumped   == BumpRoute(unjoined, i)
           renamed  == SetDesiredLabel(bumped, i, Unclaimed[i], FALSE)
           c        == Remember(renamed, i, TRUE)
<1>1. /\ b \in Table /\ i \in Installs /\ b.routes[i] \in Route
      /\ Own(i, b.routes[i].label) /\ Own(i, b.routes[i].desired)
  BY DEF Ours, OwnRoutes, Live, Table
<1>2. r \in Route /\ r.desired = b.routes[i].desired /\ r.label = b.routes[i].label
  BY <1>1 DEF Route, RowOrNone
<1>3. unjoined = [b EXCEPT !.routes[i].row = NoRow]
  BY <1>1 DEF Put, Table
<1>4. c = DropClaim(b, i)
  BY <1>3 DEF DropClaim
<1> HIDE DEF r
<1>5. Ours(unjoined) /\ i \in Live(unjoined.routes)
  BY <1>1, <1>2, PutOwn
<1> HIDE DEF unjoined
<1>6. Ours(bumped) /\ i \in Live(bumped.routes)
  BY <1>5, BumpOwn
<1> HIDE DEF bumped
<1>7. Unclaimed[i] \in Label /\ Own(i, Unclaimed[i])
  BY <1>1, RouteTableAssumption DEF HashesMark
<1>8. Ours(renamed) /\ Distinct(renamed.routes) /\ i \in Live(renamed.routes)
  BY <1>6, <1>7, SetDesiredLabelOwn
<1> HIDE DEF renamed
<1>9. Ours(c) /\ c.routes = renamed.routes
  BY <1>8, RememberOwn
<1> HIDE DEF c
<1> QED
  BY <1>3, <1>4, <1>6, <1>8, <1>9 DEF bumped, renamed

LEMMA AttachOwn ==
    ASSUME HashesMark, NEW b, Ours(b), NEW i \in Installs, NEW row \in RowOrNone,
           NEW desired \in Label, Own(i, desired), NEW custom \in BOOLEAN
    PROVE  LET c == Attach(b, i, row, desired, custom) IN
           Ours(c) /\ Distinct(c.routes) /\ i \in Live(c.routes)
<1> DEFINE r == [row |-> row, desired |-> desired, label |-> NoLabel, custom |-> custom, gen |-> b.store[i].gen]
           n == Put(b, i, r)
<1>1. NoLabel \in Label
  BY EmptySeq DEF NoLabel, Label
<1>2. r \in Route /\ r.desired = desired /\ r.label = NoLabel
  BY <1>1 DEF Ours, Route, Table, Entry
<1>3. Attach(b, i, row, desired, custom) = ResolveTable(n)
  BY DEF Attach, Put
<1> HIDE DEF r
<1>4. Ours(n) /\ i \in Live(n.routes)
  BY <1>2, PutOwn, NoLabelOwn
<1> HIDE DEF n
<1>5. Ours(ResolveTable(n)) /\ Distinct(ResolveTable(n).routes) /\ Live(ResolveTable(n).routes) = Live(n.routes)
  BY <1>4, ResolveTableOwn, ResolveTableEffect DEF Ours
<1> QED
  BY <1>3, <1>4, <1>5

LEMMA DetachOwn ==
    ASSUME HashesMark, NEW b, Ours(b), NEW i \in Installs
    PROVE  Ours(Detach(b, i)) /\ Distinct(Detach(b, i).routes)
<1> DEFINE n == [b EXCEPT !.routes[i] = NoRoute]
<1>1. n \in Table /\ n.store = b.store /\ n.routes = [b.routes EXCEPT ![i] = NoRoute]
  BY DEF Ours, Table
<1> HIDE DEF n
<1>2. Ours(n)
  BY <1>1 DEF Ours, OwnRoutes, Live, Table
<1> QED
  BY <1>2, ResolveTableOwn DEF Detach, n
(* The file, the store and the table after a handler.                      *)
Kept(b, saves) ==
    /\ Ours(b) /\ Distinct(b.routes)
    /\ \A st \in saves : st \in [Installs -> Entry] /\ OwnStore(st)

NamesInv == TypeOK /\ Ours(Now) /\ OwnStore(disk) /\ Distinct(routes)

LEMMA KeptNames ==
    ASSUME NamesInv, NEW b, NEW saves, Become(b, saves), Kept(b, saves)
    PROVE  Ours(Now)' /\ OwnStore(disk)' /\ Distinct(routes)'
<1>1. /\ routes' = b.routes /\ store' = b.store /\ Ours(b) /\ OwnStore(b.store) /\ Distinct(b.routes)
      /\ disk' \in IF SavesFail THEN Torn({disk, b.store} \cup saves) ELSE {b.store}
      /\ \A st \in {disk, b.store} \cup saves : st \in [Installs -> Entry] /\ OwnStore(st)
  BY DEF Kept, Become, Ours, NamesInv, TypeOK, Table
<1>2. OwnStore(disk)' /\ Distinct(routes)'
  <2>1. ASSUME NEW i \in Installs PROVE Own(i, disk'[i].label) /\ Own(i, disk'[i].desired)
    <3>1. \E st \in {disk, b.store} \cup saves :
             disk'[i].label = st[i].label /\ disk'[i].desired = st[i].desired
      BY <1>1, TornEffect
    <3> QED
      BY <1>1, <3>1 DEF OwnStore
  <2> QED
    BY <1>1, <2>1 DEF OwnStore, Distinct, Live
<1>3. Now' = b
  BY <1>1 DEF Now, Ours, Table
<1> QED
  BY <1>1, <1>2, <1>3

LEMMA RegisterKeeps ==
    ASSUME HashesMark, NamesInv, NEW i \in Installs, NEW v \in Verdicts(store[i]),
           Register(i, v) \/ RegisterAbandoned(i, v)
    PROVE  Ours(Now)' /\ OwnStore(disk)' /\ Distinct(routes)'
<1> DEFINE entry    == AfterVerdict(store[i], v)
           resolved == [routes |-> routes, store |-> [store EXCEPT ![i] = entry]]
           bumped   == NextGeneration(resolved, i)
           label    == RegisterLabel(i, entry, v)
           custom   == LabelIsCustom(entry, v)
           attached == Attach(bumped, i, v.row, label, custom)
           changed  == IdentityChanged(entry, v)
           settled  == IF changed THEN DropClaim(attached, i) ELSE attached
           b        == Remember(settled, i, changed)
           saves    == {resolved.store, bumped.store, attached.store, settled.store}
<1>1. store[i] \in Entry /\ Own(i, store[i].label) /\ Own(i, store[i].desired)
  BY DEF NamesInv, TypeOK, Ours, OwnStore, Now
<1>2. /\ entry \in Entry /\ changed \in BOOLEAN /\ custom \in BOOLEAN /\ v.row \in RowOrNone /\ label \in Label
      /\ entry.desired = store[i].desired /\ entry.label = store[i].label /\ Own(i, label)
  <2>1. entry.desired = store[i].desired /\ entry.label = store[i].label
    BY <1>1, VerdictKeeps
  <2>2. Own(i, DefaultLabelFor(i, v.row))
    BY <1>1, VerdictType DEF HashesMark, DefaultLabelFor, RowOrNone
  <2>3. Own(i, label)
    BY <1>1, <2>1, <2>2 DEF RegisterLabel
  <2> QED
    BY <1>1, <2>1, <2>3, VerdictType
<1>3. /\ Register(i, v) => Become(b, saves)
      /\ RegisterAbandoned(i, v) => Become(resolved, {})
  BY DEF Register, RegisterAbandoned
<1> HIDE DEF entry, label, custom, changed
<1>4. Ours(resolved) /\ OwnStore(resolved.store) /\ resolved.routes = routes
  <2>1. resolved.store \in [Installs -> Entry] /\ resolved \in Table
    BY <1>2 DEF NamesInv, TypeOK, Table
  <2>2. OwnStore(resolved.store)
    BY <1>1, <1>2 DEF NamesInv, TypeOK, OwnStore, Ours, Now
  <2>3. OwnRoutes(resolved.routes)
    BY DEF NamesInv, Ours, Now
  <2> QED
    BY <2>1, <2>2, <2>3 DEF Ours
<1> HIDE DEF resolved
<1>5. Ours(bumped) /\ OwnStore(bumped.store)
  <2>1. /\ bumped \in Table /\ bumped.routes = resolved.routes
        /\ bumped.store[i] = [resolved.store[i] EXCEPT !.gen = @ + 1] /\ resolved.store[i] \in Entry
        /\ \A j \in Installs \ {i} : bumped.store[j] = resolved.store[j]
    BY <1>4, BumpType DEF NextGeneration, Table, Ours
  <2>2. bumped.store[i].label = resolved.store[i].label /\ bumped.store[i].desired = resolved.store[i].desired
    BY <2>1 DEF Entry
  <2>3. OwnStore(bumped.store)
    BY <1>4, <2>1, <2>2 DEF OwnStore
  <2> QED
    BY <1>4, <2>1, <2>3 DEF Ours
<1> HIDE DEF bumped
<1>6. Ours(attached) /\ Distinct(attached.routes) /\ i \in Live(attached.routes)
  BY <1>2, <1>5, AttachOwn
<1> HIDE DEF attached
<1>7. Ours(settled) /\ Distinct(settled.routes) /\ i \in Live(settled.routes)
  BY <1>6, DropClaimOwn
<1> HIDE DEF settled
<1>8. Ours(b) /\ Distinct(b.routes)
  BY <1>2, <1>7, RememberOwn
<1>9. Kept(b, saves) /\ Kept(resolved, {})
  BY <1>4, <1>5, <1>6, <1>7, <1>8 DEF Kept, Ours, NamesInv, Table
<1> HIDE DEF b, saves
<1>10. CASE Register(i, v)
  BY <1>3, <1>9, <1>10, KeptNames
<1>11. CASE RegisterAbandoned(i, v)
  BY <1>3, <1>9, <1>11, KeptNames
<1> QED
  BY <1>10, <1>11

LEMMA ClaimProfileKeeps ==
    ASSUME HashesMark, NamesInv, NEW i \in Installs, NEW row \in Rows, ClaimProfile(i, row)
    PROVE  Ours(Now)' /\ OwnStore(disk)' /\ Distinct(routes)'
<1> DEFINE r       == [routes[i] EXCEPT !.row = row]
           joined  == Put(Now, i, r)
           bumped  == BumpRoute(joined, i)
           renamed == IF routes[i].custom THEN bumped
                      ELSE SetDesiredLabel(bumped, i, Derived[row], FALSE)
           b       == Remember(renamed, i, FALSE)
           saves   == {bumped.store, renamed.store}
<1>1. /\ i \in Live(routes) /\ routes[i] \in Route /\ Now.routes = routes /\ Now.store = store /\ Ours(Now)
      /\ Own(i, routes[i].label) /\ Own(i, routes[i].desired)
  BY DEF ClaimProfile, NamesInv, TypeOK, Live, Now, Ours, OwnRoutes
<1>2. joined = [routes |-> [routes EXCEPT ![i].row = row], store |-> store]
  BY DEF Put, Now
<1>3. Become(b, saves)
  BY <1>2 DEF ClaimProfile
<1>4. r \in Route /\ r.desired = routes[i].desired /\ r.label = routes[i].label
  BY <1>1 DEF Route, RowOrNone
<1>5. joined.routes = [routes EXCEPT ![i] = r]
  BY DEF Put, Now
<1> HIDE DEF r
<1>6. Ours(joined) /\ i \in Live(joined.routes)
  BY <1>1, <1>4, PutOwn
<1>7. Distinct(joined.routes)
  <2>1. \A j \in Live(joined.routes) : j \in Live(routes) /\ joined.routes[j].label = routes[j].label
    BY <1>1, <1>4, <1>5 DEF Live, NamesInv, TypeOK
  <2> QED
    BY <2>1 DEF Distinct, NamesInv
<1> HIDE DEF joined
<1>8. Ours(bumped) /\ Distinct(bumped.routes) /\ i \in Live(bumped.routes)
  BY <1>6, <1>7, BumpOwn
<1> HIDE DEF bumped
<1>9. Derived[row] \in Label /\ Own(i, Derived[row])
  BY RouteTableAssumption DEF HashesMark
<1>10. Ours(renamed) /\ Distinct(renamed.routes) /\ i \in Live(renamed.routes)
  BY <1>8, <1>9, SetDesiredLabelOwn
<1> HIDE DEF renamed
<1>11. Ours(b) /\ Distinct(b.routes)
  BY <1>10, RememberOwn
<1>12. Kept(b, saves)
  BY <1>8, <1>10, <1>11 DEF Kept, Ours, Table
<1> HIDE DEF b, saves
<1> QED
  BY <1>3, <1>12, KeptNames

LEMMA SetLabelKeeps ==
    ASSUME HashesMark, NamesInv, NEW i \in Installs, NEW label \in Custom, SetLabel(i, label)
    PROVE  Ours(Now)' /\ OwnStore(disk)' /\ Distinct(routes)'
<1> DEFINE bumped  == BumpRoute(Now, i)
           renamed == SetDesiredLabel(bumped, i, label, TRUE)
           b       == RememberName(renamed, i)
           saves   == {bumped.store, renamed.store}
<1>1. i \in Live(Now.routes) /\ Ours(Now) /\ label \in Label /\ Own(i, label)
  BY RouteTableAssumption DEF SetLabel, NamesInv, Now, HashesMark
<1>2. Become(b, saves)
  BY DEF SetLabel, Now
<1>3. Ours(bumped) /\ i \in Live(bumped.routes)
  BY <1>1, BumpOwn
<1> HIDE DEF bumped
<1>4. Ours(renamed) /\ Distinct(renamed.routes) /\ i \in Live(renamed.routes)
  BY <1>1, <1>3, SetDesiredLabelOwn
<1> HIDE DEF renamed
<1>5. Ours(b) /\ Distinct(b.routes)
  BY <1>4, RememberOwn
<1>6. Kept(b, saves)
  BY <1>3, <1>4, <1>5 DEF Kept, Ours, Table
<1> HIDE DEF b, saves
<1> QED
  BY <1>2, <1>6, KeptNames

LEMMA LeavingKeeps ==
    ASSUME HashesMark, NamesInv, NEW i \in Installs, Disconnect(i) \/ Drift(i)
    PROVE  Ours(Now)' /\ OwnStore(disk)' /\ Distinct(routes)'
<1>1. Ours(Now) /\ Now.routes = routes
  BY DEF NamesInv, Now
<1>2. CASE Disconnect(i)
  <2> DEFINE b == Detach(Now, i)
  <2>1. Become(b, {})
    BY <1>2 DEF Disconnect, Now
  <2>2. Kept(b, {})
    BY <1>1, DetachOwn DEF Kept
  <2> HIDE DEF b
  <2> QED
    BY <2>1, <2>2, KeptNames
<1>3. CASE Drift(i)
  <2> DEFINE b     == DropClaim(Now, i)
             bumped == BumpRoute([Now EXCEPT !.routes[i].row = NoRow], i)
             saves == {bumped.store, SetDesiredLabel(bumped, i, Unclaimed[i], FALSE).store}
  <2>1. [Now EXCEPT !.routes[i].row = NoRow] = [routes |-> [routes EXCEPT ![i].row = NoRow], store |-> store]
    BY DEF Now
  <2>2. Become(b, saves) /\ i \in Live(Now.routes)
    BY <1>1, <1>3, <2>1 DEF Drift, Now
  <2>3. Ours(b) /\ Distinct(b.routes)
    BY <1>1, <2>2, DropClaimOwn
  <2>4. Ours(bumped) /\ Ours(SetDesiredLabel(bumped, i, Unclaimed[i], FALSE))
    BY <1>1, <2>2, DropClaimOwn
  <2> HIDE DEF b, bumped
  <2>5. Kept(b, saves)
    BY <2>3, <2>4 DEF Kept, Ours, Table
  <2> HIDE DEF saves
  <2> QED
    BY <2>2, <2>5, KeptNames
<1> QED
  BY <1>2, <1>3

LEMMA NamesAlways ==
    ASSUME HashesMark
    PROVE  Spec => []NamesInv
<1>1. Init => NamesInv
  <2> SUFFICES ASSUME Init PROVE NamesInv
    OBVIOUS
  <2>1. TypeOK /\ Live(routes) = {}
    BY TypeInit DEF Init, Live
  <2>2. OwnStore(store) /\ disk = store
    BY NoLabelOwn DEF Init, OwnStore, Blank
  <2>3. Now \in Table /\ Now.routes = routes /\ Now.store = store
    BY <2>1 DEF Now, Table, TypeOK
  <2> QED
    BY <2>1, <2>2, <2>3 DEF NamesInv, Ours, OwnRoutes, Distinct
<1>2. NamesInv /\ [Next]_vars => NamesInv'
  <2> SUFFICES ASSUME NamesInv, [Next]_vars PROVE Ours(Now)' /\ OwnStore(disk)' /\ Distinct(routes)'
    BY TypeStep DEF NamesInv
  <2>1. ASSUME NEW i \in Installs, NEW v \in Verdicts(store[i]), Register(i, v) \/ RegisterAbandoned(i, v)
        PROVE  Ours(Now)' /\ OwnStore(disk)' /\ Distinct(routes)'
    BY <2>1, RegisterKeeps
  <2>2. ASSUME NEW i \in Installs, NEW row \in Rows, ClaimProfile(i, row)
        PROVE  Ours(Now)' /\ OwnStore(disk)' /\ Distinct(routes)'
    BY <2>2, ClaimProfileKeeps
  <2>3. ASSUME NEW i \in Installs, NEW label \in Custom, SetLabel(i, label)
        PROVE  Ours(Now)' /\ OwnStore(disk)' /\ Distinct(routes)'
    BY <2>3, SetLabelKeeps
  <2>4. ASSUME NEW i \in Installs, Disconnect(i) \/ Drift(i)
        PROVE  Ours(Now)' /\ OwnStore(disk)' /\ Distinct(routes)'
    BY <2>4, LeavingKeeps
  <2>5. ASSUME routes' = routes, store' = store, disk' = disk
        PROVE  Ours(Now)' /\ OwnStore(disk)' /\ Distinct(routes)'
    <3>1. Now' = Now
      BY <2>5 DEF Now
    <3> QED
      BY <2>5, <3>1 DEF NamesInv, OwnStore, Distinct, Live
  <2>6. (UNCHANGED vars \/ \E i \in Installs : Mint(i)) => routes' = routes /\ store' = store /\ disk' = disk
    BY DEF vars, Mint
  <2>7. CASE BrokerRestart
    <3>1. routes' = [i \in Installs |-> NoRoute] /\ store' = disk /\ disk' = disk
      BY <2>7 DEF BrokerRestart
    <3>2. Live(routes') = {}
      BY <3>1 DEF Live
    <3>3. Now' \in Table /\ Now'.routes = routes' /\ Now'.store = store'
      BY <3>1 DEF Now, Table, NamesInv, TypeOK
    <3>4. Ours(Now)'
      BY <3>1, <3>2, <3>3 DEF Ours, OwnRoutes, NamesInv
    <3> QED
      BY <3>1, <3>2, <3>4 DEF NamesInv, OwnStore, Distinct, Live
  <2> QED
    BY <2>1, <2>2, <2>3, <2>4, <2>5, <2>6, <2>7 DEF Next
<1> QED
  BY <1>1, <1>2, PTL DEF Spec

(* "Uniqueness is the one property that cannot bend" (routes.mjs): in      *)
(* every order of registrations, claims, renames, dropped claims,          *)
(* departures and restarts, and whichever save fails, no two live routes   *)
(* answer to one name - as long as the hashes of two installs differ and   *)
(* nothing names are made of ends in the hash of another install.  A name  *)
(* the operator had suffixed and that a reconnect then takes as its bare   *)
(* name is covered: it carries at most its own mark.                       *)
THEOREM NamesAreUnique ==
    ASSUME HashesMark
    PROVE  Spec => []LabelsUnique
<1>1. NamesInv => LabelsUnique
  BY DEF NamesInv, Distinct, LabelsUnique
<1> QED
  BY <1>1, NamesAlways, PTL
-----------------------------------------------------------------------------
(* Contested names.  #applyLabels suffixes every route of a group of two   *)
(* or more, and a suffixed name is never the bare one.                     *)

Bare(rt) == \A i \in Live(rt) : Group(rt, i) # {i} => rt[i].label # rt[i].desired

LEMMA ResolvedLonger ==
    ASSUME NEW rt \in [Installs -> Route \cup {NoRoute}], NEW i \in Live(rt), Group(rt, i) # {i}
    PROVE  Resolved(rt, i) # rt[i].desired
<1>1. i \in Installs /\ rt[i].desired \in Seq(Parts) /\ rt[i].row \in RowOrNone
  BY DEF Live, Route, Label
<1>2. ASSUME NEW s \in Seq(Parts), NEW x \in Parts
      PROVE  Append(s, x) \in Seq(Parts) /\ Len(Append(s, x)) = Len(s) + 1 /\ Len(s) \in Nat
  BY AppendProperties, LenProperties
<1>3. InstallHash[i] \in Parts /\ KeyHash[i] \in Parts /\ (rt[i].row # NoRow => Dir[rt[i].row] \in Parts)
  BY <1>1, RouteTableAssumption DEF RowOrNone
<1>4. Suffixed(rt, i) \in Seq(Parts) /\ Len(Suffixed(rt, i)) = Len(rt[i].desired) + 1
  BY <1>1, <1>2, <1>3 DEF Suffixed
<1>5. Proposal(rt, i) \in Seq(Parts) /\ Len(Proposal(rt, i)) = Len(rt[i].desired) + 1
  BY <1>1, <1>2, <1>3, <1>4 DEF Proposal
<1>6. Len(rt[i].desired) \in Nat /\ Len(Proposal(rt, i)) \in Nat
  BY <1>1, <1>5, LenProperties
<1>7. Len(Resolved(rt, i)) # Len(rt[i].desired)
  BY <1>2, <1>3, <1>5, <1>6 DEF Resolved
<1> QED
  BY <1>7

LEMMA ResolveTableBare ==
    ASSUME NEW b \in Table
    PROVE  Bare(ResolveTable(b).routes)
<1> DEFINE t == ResolveTable(b)
<1>1. /\ Live(t.routes) = Live(b.routes)
      /\ \A i \in Live(b.routes) : /\ t.routes[i].desired = b.routes[i].desired
                                   /\ t.routes[i].label = Resolved(b.routes, i)
  BY ResolveTableEffect
<1> HIDE DEF t
<1>2. \A i \in Live(b.routes) : Group(t.routes, i) = Group(b.routes, i)
  BY <1>1 DEF Group
<1>3. \A i \in Live(b.routes) : Group(b.routes, i) # {i} => Resolved(b.routes, i) # b.routes[i].desired
  BY ResolvedLonger DEF Table
<1> QED
  BY <1>1, <1>2, <1>3 DEF Bare, t

(* Who wants what, and has what, is all that matters here.                 *)
LEMMA BareSame ==
    ASSUME NEW r, NEW s, Live(s) = Live(r), Bare(r),
           \A k \in Live(r) : s[k].desired = r[k].desired /\ s[k].label = r[k].label
    PROVE  Bare(s)
<1>1. \A k \in Live(r) : Group(s, k) = Group(r, k)
  BY DEF Group
<1> QED
  BY <1>1 DEF Bare

LEMMA AttachBare ==
    ASSUME NEW b \in Table, NEW i \in Installs, NEW row \in RowOrNone,
           NEW desired \in Label, NEW custom \in BOOLEAN
    PROVE  Bare(Attach(b, i, row, desired, custom).routes)
<1> DEFINE new == [row |-> row, desired |-> desired, label |-> NoLabel,
                   custom |-> custom, gen |-> b.store[i].gen]
<1>1. NoLabel \in Label
  BY EmptySeq DEF NoLabel, Label
<1>2. new \in Route
  BY <1>1 DEF Route, Table, Entry
<1>3. [b EXCEPT !.routes[i] = new] \in Table
  BY <1>2 DEF Table
<1> QED
  BY <1>3, ResolveTableBare DEF Attach

LEMMA SetDesiredLabelBare ==
    ASSUME NEW b \in Table, NEW i \in Live(b.routes),
           NEW desired \in Label, NEW custom \in BOOLEAN
    PROVE  Bare(SetDesiredLabel(b, i, desired, custom).routes)
<1> DEFINE named == [b EXCEPT !.routes[i].desired = desired, !.routes[i].custom = custom]
<1>1. i \in Installs /\ b.routes[i] \in Route
  BY DEF Live, Table
<1>2. [[b.routes[i] EXCEPT !.desired = desired] EXCEPT !.custom = custom] \in Route
  BY <1>1 DEF Route
<1>3. named \in Table
  BY <1>1, <1>2 DEF Table
<1> QED
  BY <1>3, ResolveTableBare DEF SetDesiredLabel

LEMMA DropClaimBare ==
    ASSUME NEW b \in Table, NEW i \in Live(b.routes)
    PROVE  Bare(DropClaim(b, i).routes)
<1> DEFINE unjoined == [b EXCEPT !.routes[i].row = NoRow]
           bumped   == BumpRoute(unjoined, i)
           renamed  == SetDesiredLabel(bumped, i, Unclaimed[i], FALSE)
<1>1. i \in Installs /\ b.routes[i] \in Route
  BY DEF Live, Table
<1>2. [b.routes[i] EXCEPT !.row = NoRow] \in Route
  BY <1>1 DEF Route, RowOrNone
<1>3. unjoined \in Table /\ i \in Live(unjoined.routes)
  BY <1>1, <1>2, NoneAssumption DEF Table, Live
<1> HIDE DEF unjoined
<1>4. bumped \in Table /\ i \in Live(bumped.routes)
  BY <1>3, BumpEffect
<1> HIDE DEF bumped
<1>5. Bare(renamed.routes)
  BY <1>1, <1>4, SetDesiredLabelBare, RouteTableAssumption
<1> HIDE DEF renamed
<1>6. Remember(renamed, i, TRUE).routes = renamed.routes
  BY DEF Remember, RememberName
<1> QED
  BY <1>5, <1>6 DEF DropClaim, renamed, bumped, unjoined

BareInv == TypeOK /\ Bare(routes)

LEMMA RegisterBare ==
    ASSUME TypeOK, NEW i \in Installs, NEW v \in Verdicts(store[i]), Register(i, v)
    PROVE  Bare(routes')
<1> DEFINE entry    == AfterVerdict(store[i], v)
           resolved == [routes |-> routes, store |-> [store EXCEPT ![i] = entry]]
           bumped   == NextGeneration(resolved, i)
           label    == RegisterLabel(i, entry, v)
           custom   == LabelIsCustom(entry, v)
           attached == Attach(bumped, i, v.row, label, custom)
           changed  == IdentityChanged(entry, v)
           settled  == IF changed THEN DropClaim(attached, i) ELSE attached
           b        == Remember(settled, i, changed)
<1>1. store[i] \in Entry
  BY DEF TypeOK
<1>2. entry \in Entry /\ custom \in BOOLEAN /\ v.row \in RowOrNone /\ label \in Label
  BY <1>1, VerdictType
<1>3. routes' = b.routes
  BY DEF Register, Become
<1> HIDE DEF entry, label, custom, changed
<1>4. resolved \in Table
  BY <1>2 DEF TypeOK, Table
<1> HIDE DEF resolved
<1>5. bumped \in Table
  BY <1>4, BumpType DEF NextGeneration
<1> HIDE DEF bumped
<1>6. attached \in Table /\ i \in Live(attached.routes) /\ Bare(attached.routes)
  <2>1. Live(attached.routes) = Live(bumped.routes) \cup {i}
    BY <1>2, <1>5, AttachLive
  <2> QED
    BY <1>2, <1>5, <2>1, AttachType, AttachBare
<1> HIDE DEF attached
<1>7. Bare(settled.routes)
  BY <1>6, DropClaimBare
<1> HIDE DEF settled
<1>8. b.routes = settled.routes
  BY DEF Remember, RememberName
<1> QED
  BY <1>3, <1>7, <1>8

LEMMA ClaimProfileBare ==
    ASSUME BareInv, NEW i \in Installs, NEW row \in Rows, ClaimProfile(i, row)
    PROVE  Bare(routes')
<1> DEFINE r       == [routes[i] EXCEPT !.row = row]
           joined  == [routes |-> [routes EXCEPT ![i].row = row], store |-> store]
           bumped  == BumpRoute(joined, i)
           renamed == IF routes[i].custom THEN bumped
                      ELSE SetDesiredLabel(bumped, i, Derived[row], FALSE)
<1>1. i \in Live(routes) /\ routes[i] \in Route /\ routes' = Remember(renamed, i, FALSE).routes
  BY DEF ClaimProfile, Become, BareInv, TypeOK, Live
<1>2. r \in Route /\ r.desired = routes[i].desired /\ r.label = routes[i].label
  BY <1>1 DEF Route, RowOrNone
<1>3. joined \in Table /\ joined.routes = [routes EXCEPT ![i] = r]
  BY <1>2 DEF BareInv, TypeOK, Table
<1> HIDE DEF r, joined
<1>4. /\ Live(joined.routes) = Live(routes)
      /\ \A k \in Live(routes) : /\ joined.routes[k].desired = routes[k].desired
                                 /\ joined.routes[k].label = routes[k].label
  BY <1>1, <1>2, <1>3, NoneAssumption DEF Live, BareInv, TypeOK
<1>5. /\ bumped \in Table /\ Live(bumped.routes) = Live(routes)
      /\ \A k \in Live(routes) : /\ bumped.routes[k].desired = routes[k].desired
                                 /\ bumped.routes[k].label = routes[k].label
  <2>1. i \in Live(joined.routes)
    BY <1>1, <1>4
  <2>2. bumped \in Table /\ Live(bumped.routes) = Live(joined.routes)
    BY <1>3, <2>1, BumpEffect
  <2>3. \A k \in Live(joined.routes) : /\ bumped.routes[k].desired = joined.routes[k].desired
                                       /\ bumped.routes[k].label = joined.routes[k].label
    BY <1>3, <2>1, BumpEffect
  <2> QED
    BY <1>4, <2>2, <2>3
<1> HIDE DEF bumped
<1>6. Bare(bumped.routes)
  BY <1>5, BareSame DEF BareInv
<1>7. Bare(renamed.routes)
  BY <1>1, <1>5, <1>6, SetDesiredLabelBare, RouteTableAssumption
<1> HIDE DEF renamed
<1>8. Remember(renamed, i, FALSE).routes = renamed.routes
  BY DEF Remember, RememberName
<1> QED
  BY <1>1, <1>7, <1>8

LEMMA SetLabelBare ==
    ASSUME TypeOK, NEW i \in Installs, NEW label \in Custom, SetLabel(i, label)
    PROVE  Bare(routes')
<1> DEFINE bumped  == BumpRoute(Now, i)
           renamed == SetDesiredLabel(bumped, i, label, TRUE)
<1>1. i \in Live(Now.routes) /\ Now \in Table /\ label \in Label /\ routes' = RememberName(renamed, i).routes
  BY NowType, RouteTableAssumption DEF SetLabel, Become, Now
<1>2. bumped \in Table /\ i \in Live(bumped.routes)
  BY <1>1, BumpEffect
<1> HIDE DEF bumped
<1>3. Bare(renamed.routes)
  BY <1>1, <1>2, SetDesiredLabelBare
<1> HIDE DEF renamed
<1>4. RememberName(renamed, i).routes = renamed.routes
  BY DEF RememberName
<1> QED
  BY <1>1, <1>3, <1>4

LEMMA LeavingBare ==
    ASSUME TypeOK, NEW i \in Installs, Disconnect(i) \/ Drift(i)
    PROVE  Bare(routes')
<1>1. CASE Disconnect(i)
  <2>1. Now \in Table /\ routes' = Detach(Now, i).routes
    BY <1>1, NowType DEF Disconnect, Become, Now
  <2>2. [Now EXCEPT !.routes[i] = NoRoute] \in Table
    BY <2>1 DEF Table
  <2> QED
    BY <2>1, <2>2, ResolveTableBare DEF Detach
<1>2. CASE Drift(i)
  <2>1. Now \in Table /\ i \in Live(Now.routes) /\ routes' = DropClaim(Now, i).routes
    BY <1>2, NowType DEF Drift, Become, Now
  <2> QED
    BY <2>1, DropClaimBare
<1> QED
  BY <1>1, <1>2

(* When two or more routes want one name, none of them answers to it:      *)
(* "the bare name resolves to NOTHING ... instead of landing on one of     *)
(* them" (routes.mjs).  It holds through a claim of a route with a custom  *)
(* name too, which suffixes nothing anew.                                  *)
THEOREM NoneHolds == Spec => []NoneHoldsTheNameTheyContest
<1>1. Init => BareInv
  <2>1. Init => Live(routes) = {}
    BY DEF Init, Live
  <2> QED
    BY <2>1, TypeInit DEF BareInv, Bare
<1>2. BareInv /\ [Next]_vars => BareInv'
  <2> SUFFICES ASSUME BareInv, [Next]_vars PROVE Bare(routes')
    BY TypeStep DEF BareInv, Bare, Live, Group
  <2>1. ASSUME NEW i \in Installs, NEW v \in Verdicts(store[i]), Register(i, v)
        PROVE  Bare(routes')
    BY <2>1, RegisterBare DEF BareInv
  <2>2. ASSUME NEW i \in Installs, NEW row \in Rows, ClaimProfile(i, row)
        PROVE  Bare(routes')
    BY <2>2, ClaimProfileBare
  <2>3. ASSUME NEW i \in Installs, NEW label \in Custom, SetLabel(i, label)
        PROVE  Bare(routes')
    BY <2>3, SetLabelBare DEF BareInv
  <2>4. ASSUME NEW i \in Installs, Disconnect(i) \/ Drift(i)
        PROVE  Bare(routes')
    BY <2>4, LeavingBare DEF BareInv
  <2>5. routes' = routes => Bare(routes')
    BY DEF BareInv
  <2>6. \/ UNCHANGED vars
        \/ \E i \in Installs : Mint(i) \/ \E v \in Verdicts(store[i]) : RegisterAbandoned(i, v)
        => routes' = routes
    BY DEF vars, Mint, RegisterAbandoned, Become
  <2>7. CASE BrokerRestart
    <3>1. Live(routes') = {}
      BY <2>7 DEF BrokerRestart, Live
    <3> QED
      BY <3>1 DEF Bare
  <2> QED
    BY <2>1, <2>2, <2>3, <2>4, <2>5, <2>6, <2>7 DEF Next
<1>3. BareInv => NoneHoldsTheNameTheyContest
  BY DEF BareInv, Bare, NoneHoldsTheNameTheyContest
<1> QED
  BY <1>1, <1>2, <1>3, PTL DEF Spec

(* A name is an address: whatever the order of the handlers, at most one   *)
(* profile answers to it, and of those that contest it none does.          *)
THEOREM Unambiguous ==
    ASSUME HashesMark
    PROVE  Spec => []NamesAreUnambiguous
BY NamesAreUnique, NoneHolds, PTL DEF NamesAreUnambiguous
-----------------------------------------------------------------------------
(* The name of a dropped claim.  A route that loses its claim wants its    *)
(* unclaimed name from then on, and leaves the one it had.  On a settled   *)
(* board nobody moves into that: whoever shared the wanted name was told   *)
(* apart from it, and no other route wants an unclaimed name that is not   *)
(* its own, nor does a claimed one or one with a custom name.              *)

(* What names are told apart by.                                           *)
Marks ==
    {Dir[r] : r \in Rows} \cup {KeyHash[i] : i \in Installs} \cup {InstallHash[i] : i \in Installs}

(* However it is suffixed, n never begins with u.                          *)
Clear(n, u) == \E k \in 1..Len(u) : IF k <= Len(n) THEN n[k] # u[k] ELSE u[k] \notin Marks

(* No unclaimed name is another's, nor what a derived or a typed name      *)
(* becomes when it is suffixed: "unclaimed" is no directory, and nobody    *)
(* types the unclaimed name of a line.                                     *)
UnclaimedStandOut ==
    \A i \in Installs :
        /\ \A j \in Installs \ {i} : Clear(Unclaimed[j], Unclaimed[i])
        /\ \A r \in Rows : Clear(Derived[r], Unclaimed[i])
        /\ \A l \in Custom : Clear(l, Unclaimed[i])

(* The name n of i is no other install's unclaimed name, nor i's own if i  *)
(* is claimed or named.                                                    *)
Free(i, n, taken) ==
    /\ \A j \in Installs \ {i} : Clear(n, Unclaimed[j])
    /\ taken => Clear(n, Unclaimed[i])

Taken(x) == x.row # NoRow \/ x.custom

FreeEntry(i, e) == \A n \in {e.label, e.desired} : n = NoLabel \/ Free(i, n, Taken(e))

(* The store never takes a line for claimed or named that is not.          *)
Modest(b, i) ==
    /\ b.store[i].row # NoRow => b.routes[i].row # NoRow
    /\ b.store[i].custom => b.routes[i].custom

FreeAt(b, i) ==
    /\ FreeEntry(i, b.store[i])
    /\ i \in Live(b.routes) =>
         /\ Free(i, b.routes[i].label, Taken(b.routes[i]))
         /\ Free(i, b.routes[i].desired, Taken(b.routes[i]))
         /\ Modest(b, i)

(* In the middle of a handler of i.                                        *)
FreeOthers(b, i) == b \in Table /\ \A k \in Installs \ {i} : FreeAt(b, k)

FreeBut(b, i) ==
    /\ FreeOthers(b, i)
    /\ i \in Live(b.routes) => Free(i, b.routes[i].desired, Taken(b.routes[i]))

AllFree(b) == b \in Table /\ \A k \in Installs : FreeAt(b, k)

LEMMA ClearAppend ==
    ASSUME NEW n \in Label, NEW u \in Label, Clear(n, u), NEW x \in Marks \cap Parts
    PROVE  Append(n, x) \in Label /\ Clear(Append(n, x), u)
<1>1. PICK k \in 1..Len(u) : IF k <= Len(n) THEN n[k] # u[k] ELSE u[k] \notin Marks
  BY DEF Clear
<1>2. n \in Seq(Parts) /\ u \in Seq(Parts) /\ Len(n) \in Nat /\ Len(u) \in Nat
  BY LenProperties DEF Label
<1>3. /\ Append(n, x) \in Seq(Parts) /\ Len(Append(n, x)) = Len(n) + 1
      /\ \A l \in 1..Len(n) : Append(n, x)[l] = n[l]
      /\ Append(n, x)[Len(n) + 1] = x
  BY <1>2, AppendProperties
<1>4. IF k <= Len(n) + 1 THEN Append(n, x)[k] # u[k] ELSE u[k] \notin Marks
  <2>1. CASE k <= Len(n)
    BY <1>1, <1>2, <1>3, <2>1
  <2>2. CASE k = Len(n) + 1
    BY <1>1, <1>2, <1>3, <2>2
  <2>3. CASE k > Len(n) + 1
    BY <1>1, <1>2, <2>3
  <2> QED
    BY <1>2, <2>1, <2>2, <2>3
<1> QED
  BY <1>2, <1>3, <1>4 DEF Clear, Label

LEMMA FreeAppend ==
    ASSUME NEW i \in Installs, NEW n \in Label, NEW taken \in BOOLEAN, Free(i, n, taken), NEW x \in Marks \cap Parts
    PROVE  Append(n, x) \in Label /\ Free(i, Append(n, x), taken)
<1>1. \A j \in Installs : Unclaimed[j] \in Label
  BY RouteTableAssumption
<1>2. Append(n, x) \in Label
  BY AppendProperties DEF Label
<1> QED
  BY <1>1, <1>2, ClearAppend DEF Free

LEMMA MarksAre ==
    ASSUME NEW rt \in [Installs -> Route \cup {NoRoute}], NEW i \in Live(rt)
    PROVE  /\ i \in Installs /\ rt[i] \in Route /\ rt[i].desired \in Label /\ Taken(rt[i]) \in BOOLEAN
           /\ InstallHash[i] \in Marks \cap Parts
           /\ \E x \in Marks \cap Parts : Suffixed(rt, i) = Append(rt[i].desired, x)
<1>1. i \in Installs /\ rt[i] \in Route
  BY DEF Live
<1>2. rt[i].desired \in Label /\ rt[i].row \in RowOrNone /\ Taken(rt[i]) \in BOOLEAN
  BY <1>1 DEF Route, Taken
<1>3. InstallHash[i] \in Marks \cap Parts /\ KeyHash[i] \in Marks \cap Parts
  BY <1>1, RouteTableAssumption DEF Marks
<1>4. rt[i].row # NoRow => Dir[rt[i].row] \in Marks \cap Parts
  BY <1>2, RouteTableAssumption DEF Marks, RowOrNone
<1> QED
  BY <1>1, <1>2, <1>3, <1>4 DEF Suffixed

(* A name keeps clear when #applyLabels suffixes it, and still begins with *)
(* the name that was wanted.                                               *)
LEMMA ResolvedFree ==
    ASSUME NEW rt \in [Installs -> Route \cup {NoRoute}], NEW i \in Live(rt), NEW taken \in BOOLEAN,
           Free(i, rt[i].desired, taken)
    PROVE  Free(i, Resolved(rt, i), taken)
<1>1. /\ i \in Installs /\ rt[i].desired \in Label /\ InstallHash[i] \in Marks \cap Parts
      /\ \E x \in Marks \cap Parts : Suffixed(rt, i) = Append(rt[i].desired, x)
  BY MarksAre
<1>2. Proposal(rt, i) \in Label /\ Free(i, Proposal(rt, i), taken)
  BY <1>1, FreeAppend DEF Proposal
<1> QED
  BY <1>1, <1>2, FreeAppend DEF Resolved

Begins(n, u) == Len(u) <= Len(n) /\ \A k \in 1..Len(u) : n[k] = u[k]

LEMMA BeginsAppend ==
    ASSUME NEW n \in Label, NEW u \in Label, Begins(n, u), NEW x \in Parts
    PROVE  Append(n, x) \in Label /\ Begins(Append(n, x), u)
<1>1. n \in Seq(Parts) /\ u \in Seq(Parts) /\ Len(n) \in Nat /\ Len(u) \in Nat
  BY LenProperties DEF Label
<1>2. /\ Append(n, x) \in Seq(Parts) /\ Len(Append(n, x)) = Len(n) + 1
      /\ \A l \in 1..Len(n) : Append(n, x)[l] = n[l]
  BY <1>1, AppendProperties
<1> QED
  BY <1>1, <1>2 DEF Begins, Label

LEMMA ResolvedBegins ==
    ASSUME NEW rt \in [Installs -> Route \cup {NoRoute}], NEW i \in Live(rt)
    PROVE  Begins(Resolved(rt, i), rt[i].desired)
<1>1. /\ rt[i].desired \in Label /\ InstallHash[i] \in Parts
      /\ \E x \in Parts : Suffixed(rt, i) = Append(rt[i].desired, x)
  BY MarksAre
<1>2. Begins(rt[i].desired, rt[i].desired)
  BY <1>1, LenProperties DEF Begins, Label
<1>3. Proposal(rt, i) \in Label /\ Begins(Proposal(rt, i), rt[i].desired)
  BY <1>1, <1>2, BeginsAppend DEF Proposal
<1> QED
  BY <1>1, <1>3, BeginsAppend DEF Resolved

LEMMA ClearIsNot ==
    ASSUME NEW n \in Label, NEW u \in Label, Clear(n, u)
    PROVE  ~Begins(n, u)
<1>1. Len(n) \in Nat /\ Len(u) \in Nat
  BY LenProperties DEF Label
<1> QED
  BY <1>1 DEF Clear, Begins

(* The wanted name comes first in what a route is called, and a suffix     *)
(* makes it longer.                                                        *)
LEMMA SuffixedLonger ==
    ASSUME NEW rt \in [Installs -> Route \cup {NoRoute}], NEW i \in Live(rt)
    PROVE  Suffixed(rt, i) \in Label /\ Suffixed(rt, i) # rt[i].desired
<1>1. /\ rt[i].desired \in Label
      /\ \E x \in Parts : Suffixed(rt, i) = Append(rt[i].desired, x)
  BY MarksAre
<1>2. PICK x \in Parts : Suffixed(rt, i) = Append(rt[i].desired, x)
  BY <1>1
<1>3. /\ Append(rt[i].desired, x) \in Seq(Parts)
      /\ Len(Append(rt[i].desired, x)) = Len(rt[i].desired) + 1 /\ Len(rt[i].desired) \in Nat
  BY <1>1, AppendProperties, LenProperties DEF Label
<1> QED
  BY <1>2, <1>3 DEF Label

(* A route whose name carries no hash is called what was proposed for it,  *)
(* and nothing else is proposed so.                                        *)
LEMMA Unhashed ==
    ASSUME NEW rt \in [Installs -> Route \cup {NoRoute}], NEW i \in Live(rt),
           ~EndsIn(Resolved(rt, i), InstallHash[i])
    PROVE  /\ Resolved(rt, i) = Proposal(rt, i)
           /\ \A j \in Live(rt) \ {i} : Proposal(rt, j) # Proposal(rt, i)
           /\ \/ Group(rt, i) = {i} /\ Proposal(rt, i) = rt[i].desired
              \/ /\ Group(rt, i) # {i} /\ Proposal(rt, i) = Suffixed(rt, i)
                 /\ \A j \in Group(rt, i) \ {i} : Suffixed(rt, j) # Suffixed(rt, i)
<1>1. InstallHash[i] \in Parts /\ rt[i].desired \in Label /\ Suffixed(rt, i) \in Label
  BY MarksAre, SuffixedLonger
<1>2. \A s \in Label : Append(s, InstallHash[i]) \in Label /\ EndsIn(Append(s, InstallHash[i]), InstallHash[i])
  BY <1>1, AppendEnds
<1>3. Proposal(rt, i) \in Label
  BY <1>1, <1>2 DEF Proposal
<1>4. Resolved(rt, i) = Proposal(rt, i) /\ \A j \in Live(rt) \ {i} : Proposal(rt, j) # Proposal(rt, i)
  BY <1>2, <1>3 DEF Resolved
<1>5. ~EndsIn(Proposal(rt, i), InstallHash[i])
  BY <1>4
<1>6. CASE Group(rt, i) = {i}
  BY <1>4, <1>6 DEF Proposal
<1>7. CASE Group(rt, i) # {i}
  <2>1. ~\E j \in Group(rt, i) \ {i} : Suffixed(rt, j) = Suffixed(rt, i)
    BY <1>1, <1>2, <1>5, <1>7 DEF Proposal
  <2>2. Proposal(rt, i) = Suffixed(rt, i)
    BY <1>7, <2>1 DEF Proposal
  <2> QED
    BY <1>4, <1>7, <2>1, <2>2
<1> QED
  BY <1>6, <1>7

(* The route i of a settled board r turns to its unclaimed name: on s      *)
(* nobody is called what it was.                                           *)
LEMMA LeftNameIsFree ==
    ASSUME HashesMark, NEW r \in [Installs -> Route \cup {NoRoute}], NEW s \in [Installs -> Route \cup {NoRoute}],
           NEW i \in Live(r), Live(s) = Live(r),
           \A k \in Live(r) \ {i} : s[k].desired = r[k].desired /\ s[k].row = r[k].row,
           s[i].desired = Unclaimed[i],
           \A k \in Live(r) : Own(k, r[k].desired) /\ Free(k, r[k].desired, Taken(r[k])),
           Taken(r[i]),
           NEW j \in Live(s)
    PROVE  Resolved(s, j) # Resolved(r, i)
<1>1. /\ i \in Installs /\ r[i].desired \in Label /\ Unclaimed[i] \in Label
      /\ \A k \in Live(r) : k \in Installs /\ r[k].desired \in Label /\ s[k].desired \in Label
  BY RouteTableAssumption, MarksAre DEF Live
<1>2. CASE j = i
  <2>1. Free(i, Resolved(r, i), TRUE)
    BY ResolvedFree, <1>1
  <2>2. Begins(Resolved(s, i), Unclaimed[i])
    BY <1>2, ResolvedBegins
  <2>3. Resolved(r, i) \in Label
    BY ResolvedType
  <2> QED
    BY <1>1, <1>2, <2>1, <2>2, <2>3, ClearIsNot DEF Free
<1>3. CASE j # i
  <2> SUFFICES ASSUME Resolved(s, j) = Resolved(r, i) PROVE FALSE
    OBVIOUS
  <2>1. \A k \in Live(s) : Own(k, s[k].desired)
    <3>1. Own(i, Unclaimed[i])
      BY <1>1 DEF HashesMark
    <3> QED
      BY <3>1
  <2>2. Own(i, Resolved(r, i)) /\ Own(j, Resolved(s, j))
    BY <2>1, ResolvedOwn
  <2>3. ~EndsIn(Resolved(r, i), InstallHash[i]) /\ ~EndsIn(Resolved(s, j), InstallHash[j])
    BY <1>1, <1>3, <2>2 DEF Own
  <2>4. /\ Resolved(r, i) = Proposal(r, i)
        /\ \A k \in Live(r) \ {i} : Proposal(r, k) # Proposal(r, i)
        /\ \/ Group(r, i) = {i} /\ Proposal(r, i) = r[i].desired
           \/ /\ Proposal(r, i) = Suffixed(r, i)
              /\ \A k \in Group(r, i) \ {i} : Suffixed(r, k) # Suffixed(r, i)
    BY <2>3, Unhashed
  <2>5. /\ Resolved(s, j) = Proposal(s, j)
        /\ Proposal(s, j) = s[j].desired \/ Proposal(s, j) = Suffixed(s, j)
    BY <2>3, Unhashed
  <2>6. \A k \in Live(r) \ {i} : Suffixed(s, k) = Suffixed(r, k)
    BY DEF Suffixed
  <2>7. j \in Live(r) \ {i} /\ s[j].desired = r[j].desired
    BY <1>3
  <2>8. CASE r[j].desired = r[i].desired
    <3>1. j \in Group(r, i)
      BY <2>7, <2>8 DEF Group
    <3>2. Proposal(r, i) = Suffixed(r, i) /\ Suffixed(r, j) # Suffixed(r, i)
      BY <1>3, <2>4, <3>1
    <3>3. Suffixed(r, i) # r[i].desired
      BY SuffixedLonger
    <3> QED
      BY <2>4, <2>5, <2>6, <2>7, <2>8, <3>2, <3>3
  <2>9. CASE r[j].desired # r[i].desired
    <3>1. r[j].desired # Unclaimed[i]
      <4>1. Clear(r[j].desired, Unclaimed[i])
        BY <1>1, <2>7 DEF Free
      <4>2. Begins(Unclaimed[i], Unclaimed[i])
        BY <1>1, LenProperties DEF Begins, Label
      <4> QED
        BY <1>1, <2>7, <4>1, <4>2, ClearIsNot
    <3>2. Group(s, j) = Group(r, j) /\ i \notin Group(r, j) /\ Group(r, j) \subseteq Live(r)
      <4>1. \A k \in Live(r) : s[k].desired = s[j].desired <=> r[k].desired = r[j].desired
        BY <2>7, <2>9, <3>1
      <4> QED
        BY <2>9, <4>1 DEF Group
    <3>3. Proposal(s, j) = Proposal(r, j)
      <4>1. \A k \in Group(r, j) : Suffixed(s, k) = Suffixed(r, k)
        BY <2>6, <3>2
      <4> QED
        BY <2>6, <2>7, <3>2, <4>1 DEF Proposal
    <3> QED
      BY <2>4, <2>5, <2>7, <3>3
  <2> QED
    BY <2>8, <2>9
<1> QED
  BY <1>2, <1>3
-----------------------------------------------------------------------------
(* What each function keeps of it.                                         *)

(* s has the routes in S as r has them: who they are, and the name each    *)
(* wants.                                                                  *)
Alike(r, s, S) == \A k \in S : s[k].row = r[k].row /\ s[k].desired = r[k].desired

(* i wants another name, and the table is resolved with that.              *)
Turns(r, t, i, desired) ==
    /\ Live(t.routes) = Live(r) /\ Settled(t) /\ Alike(r, t.routes, Live(r) \ {i})
    /\ t.routes[i].desired = desired /\ t.routes[i].row = r[i].row

LEMMA FreeWithout ==
    ASSUME NEW b, NEW i \in Installs, AllFree(b)
    PROVE  FreeBut(b, i)
BY DEF AllFree, FreeBut, FreeOthers, FreeAt

LEMMA ResolveTableFree ==
    ASSUME NEW b, NEW i \in Installs, FreeBut(b, i)
    PROVE  LET t == ResolveTable(b) IN
           /\ FreeBut(t, i) /\ Live(t.routes) = Live(b.routes)
           /\ i \in Live(t.routes) => Free(i, t.routes[i].label, Taken(t.routes[i]))
           /\ i \notin Live(t.routes) => t.store[i] = b.store[i]
<1> DEFINE t == ResolveTable(b)
<1>1. b \in Table /\ t \in Table /\ Live(t.routes) = Live(b.routes)
  BY ResolveTableEffect DEF FreeBut, FreeOthers
<1>2. \A k \in Live(b.routes) :
        /\ t.routes[k].row = b.routes[k].row /\ t.routes[k].custom = b.routes[k].custom
        /\ t.routes[k].desired = b.routes[k].desired /\ t.routes[k].label = Resolved(b.routes, k)
        /\ Unmoved(b, k) => t.store[k] = b.store[k]
        /\ ~Unmoved(b, k) =>
             t.store[k] = OnLabelChanged(b.store[k], b.routes[k].desired, Resolved(b.routes, k))
  BY <1>1, ResolveTableEffect
<1>3. \A k \in Installs \ Live(b.routes) : t.store[k] = b.store[k]
  BY <1>1, ResolveTableEffect
<1> HIDE DEF t
<1>4. \A k \in Live(b.routes) : Taken(t.routes[k]) = Taken(b.routes[k]) /\ Taken(b.routes[k]) \in BOOLEAN
  BY <1>1, <1>2 DEF Taken, Table, Live, Route
<1>5. \A k \in Live(b.routes) : Free(k, b.routes[k].desired, Taken(b.routes[k]))
  BY DEF FreeBut, FreeOthers, FreeAt, Live
<1>6. \A k \in Live(b.routes) : Free(k, Resolved(b.routes, k), Taken(b.routes[k]))
  BY <1>1, <1>4, <1>5, ResolvedFree DEF Table
<1>7. \A e \in Entry : \A d, l :
        /\ OnLabelChanged(e, d, l).label = l /\ OnLabelChanged(e, d, l).desired = d
        /\ OnLabelChanged(e, d, l).row = e.row /\ OnLabelChanged(e, d, l).custom = e.custom
  BY DEF OnLabelChanged, Entry
<1>8. ASSUME NEW k \in Installs \ {i} PROVE FreeAt(t, k)
  <2>1. CASE k \notin Live(b.routes)
    BY <1>1, <1>3, <2>1 DEF FreeBut, FreeOthers, FreeAt
  <2>2. CASE k \in Live(b.routes)
    <3>1. FreeEntry(k, b.store[k]) /\ Modest(b, k) /\ b.store[k] \in Entry
      BY <1>1, <2>2 DEF FreeBut, FreeOthers, FreeAt, Table
    <3>2. t.store[k].row = b.store[k].row /\ t.store[k].custom = b.store[k].custom
      BY <1>2, <1>7, <2>2, <3>1
    <3>3. Modest(t, k)
      BY <1>2, <2>2, <3>1, <3>2 DEF Modest
    <3>4. CASE Unmoved(b, k)
      BY <1>2, <1>4, <1>5, <1>6, <2>2, <3>1, <3>3, <3>4 DEF FreeAt
    <3>5. CASE ~Unmoved(b, k)
      <4>1. t.store[k].label = Resolved(b.routes, k) /\ t.store[k].desired = b.routes[k].desired
        BY <1>2, <1>7, <2>2, <3>1, <3>5
      <4>2. Taken(t.store[k]) => Taken(b.routes[k])
        BY <3>1, <3>2 DEF Taken, Modest
      <4>3. FreeEntry(k, t.store[k])
        BY <1>5, <1>6, <2>2, <4>1, <4>2 DEF FreeEntry, Free
      <4> QED
        BY <1>2, <1>4, <1>5, <1>6, <2>2, <3>3, <4>3 DEF FreeAt
    <3> QED
      BY <3>4, <3>5
  <2> QED
    BY <2>1, <2>2
<1> QED
  BY <1>1, <1>2, <1>3, <1>4, <1>5, <1>6, <1>8 DEF FreeBut, FreeOthers, t

LEMMA PutFree ==
    ASSUME NEW b, NEW i \in Installs, FreeOthers(b, i), NEW r \in Route
    PROVE  /\ FreeOthers(Put(b, i, r), i)
           /\ Free(i, r.desired, Taken(r)) => FreeBut(Put(b, i, r), i)
           /\ Live(Put(b, i, r).routes) = Live(b.routes) \cup {i}
           /\ Put(b, i, r).routes[i] = r /\ Put(b, i, r).store = b.store
           /\ \A k \in Installs \ {i} : Put(b, i, r).routes[k] = b.routes[k]
<1> DEFINE c == Put(b, i, r)
<1>1. b \in Table /\ r # NoRoute
  BY NoneAssumption DEF FreeBut, FreeOthers
<1>2. c \in Table /\ c.store = b.store /\ c.routes = [b.routes EXCEPT ![i] = r]
  BY <1>1 DEF Put, Table
<1> HIDE DEF c
<1>3. c.routes[i] = r /\ \A k \in Installs \ {i} : c.routes[k] = b.routes[k]
  BY <1>1, <1>2 DEF Table
<1>4. Live(c.routes) = Live(b.routes) \cup {i}
  BY <1>1, <1>3 DEF Live
<1>5. FreeOthers(c, i) /\ (Free(i, r.desired, Taken(r)) => FreeBut(c, i))
  BY <1>2, <1>3, <1>4 DEF FreeBut, FreeOthers, FreeAt, Modest
<1> QED
  BY <1>2, <1>3, <1>4, <1>5 DEF c

LEMMA BumpFree ==
    ASSUME NEW b, NEW i \in Live(b.routes), FreeOthers(b, i)
    PROVE  LET t == BumpRoute(b, i) IN
           /\ FreeOthers(t, i)
           /\ FreeBut(b, i) => FreeBut(t, i)
           /\ Live(t.routes) = Live(b.routes)
           /\ t.store[i] = [b.store[i] EXCEPT !.gen = @ + 1]
           /\ Alike(b.routes, t.routes, Live(b.routes))
           /\ t.routes[i].custom = b.routes[i].custom /\ t.routes[i].label = b.routes[i].label
<1> DEFINE t == BumpRoute(b, i)
<1>1. b \in Table /\ i \in Installs
  BY DEF FreeBut, FreeOthers, Live, Table
<1>2. /\ t \in Table /\ Live(t.routes) = Live(b.routes)
      /\ \A k \in Live(b.routes) :
           /\ t.routes[k].row = b.routes[k].row /\ t.routes[k].desired = b.routes[k].desired
           /\ t.routes[k].custom = b.routes[k].custom /\ t.routes[k].label = b.routes[k].label
      /\ t.store[i] = [b.store[i] EXCEPT !.gen = @ + 1]
      /\ \A k \in Installs \ {i} : t.store[k] = b.store[k] /\ t.routes[k] = b.routes[k]
  BY <1>1, BumpEffect
<1> HIDE DEF t
<1>3. FreeOthers(t, i) /\ (FreeBut(b, i) => FreeBut(t, i))
  BY <1>1, <1>2 DEF FreeBut, FreeOthers, FreeAt, Modest, Taken
<1> QED
  BY <1>2, <1>3 DEF t, Alike

LEMMA RememberFree ==
    ASSUME NEW b, NEW i \in Live(b.routes), FreeBut(b, i), NEW changed \in BOOLEAN,
           Free(i, b.routes[i].label, Taken(b.routes[i]))
    PROVE  /\ AllFree(Remember(b, i, changed)) /\ Remember(b, i, changed).routes = b.routes
           /\ Remember(b, i, changed).store[i].changed = changed
           /\ RememberName(b, i).routes = b.routes
           /\ (b.store[i].row # NoRow => b.routes[i].row # NoRow) => AllFree(RememberName(b, i))
<1> DEFINE n == RememberName(b, i)
           m == Remember(b, i, changed)
           e == [b.store[i] EXCEPT !.desired = b.routes[i].desired, !.label = b.routes[i].label,
                                   !.custom = b.routes[i].custom]
<1>1. b \in Table /\ i \in Installs /\ b.store[i] \in Entry
  BY DEF FreeBut, FreeOthers, Live, Table
<1>2. n \in Table /\ m \in Table
  BY <1>1, RememberType
<1>3. /\ e.desired = b.routes[i].desired /\ e.label = b.routes[i].label /\ e.custom = b.routes[i].custom
      /\ e.row = b.store[i].row
  BY <1>1 DEF Entry
<1>4. n.routes = b.routes /\ n.store[i] = e /\ \A k \in Installs \ {i} : n.store[k] = b.store[k]
  BY <1>1 DEF RememberName, Table
<1>5. /\ m.routes = b.routes /\ \A k \in Installs \ {i} : m.store[k] = b.store[k]
      /\ m.store[i] = [[e EXCEPT !.row = b.routes[i].row] EXCEPT !.changed = changed]
  BY <1>1, <1>2, <1>4 DEF Remember, Table
<1>6. e \in Entry
  BY <1>1, <1>2, <1>4 DEF Table
<1>7. /\ m.store[i].desired = e.desired /\ m.store[i].label = e.label /\ m.store[i].custom = e.custom
      /\ m.store[i].row = b.routes[i].row /\ m.store[i].changed = changed
  BY <1>5, <1>6 DEF Entry
<1> HIDE DEF n, m, e
<1>8. Free(i, b.routes[i].desired, Taken(b.routes[i]))
  BY DEF FreeBut, FreeOthers
<1>9. AllFree(m)
  <2>1. FreeAt(m, i)
    BY <1>3, <1>5, <1>7, <1>8 DEF FreeAt, FreeEntry, Modest, Taken
  <2>2. \A k \in Installs \ {i} : FreeAt(m, k)
    BY <1>5 DEF FreeBut, FreeOthers, FreeAt, Modest
  <2> QED
    BY <1>2, <2>1, <2>2 DEF AllFree
<1>10. ASSUME b.store[i].row # NoRow => b.routes[i].row # NoRow PROVE AllFree(n)
  <2>1. Taken(n.store[i]) => Taken(b.routes[i])
    BY <1>3, <1>4, <1>10 DEF Taken
  <2>2. FreeAt(n, i)
    BY <1>3, <1>4, <1>8, <1>10, <2>1 DEF FreeAt, FreeEntry, Modest, Free
  <2>3. \A k \in Installs \ {i} : FreeAt(n, k)
    BY <1>4 DEF FreeBut, FreeOthers, FreeAt, Modest
  <2> QED
    BY <1>2, <2>2, <2>3 DEF AllFree
<1> QED
  BY <1>4, <1>5, <1>7, <1>9, <1>10 DEF n, m

LEMMA SetDesiredLabelFree ==
    ASSUME NEW b, NEW i \in Live(b.routes), FreeOthers(b, i), NEW desired \in Label, NEW custom \in BOOLEAN,
           Free(i, desired, b.routes[i].row # NoRow \/ custom)
    PROVE  LET t == SetDesiredLabel(b, i, desired, custom) IN
           /\ FreeBut(t, i) /\ Turns(b.routes, t, i, desired)
           /\ Free(i, t.routes[i].label, Taken(t.routes[i])) /\ t.store[i].row = b.store[i].row
<1> DEFINE r == [b.routes[i] EXCEPT !.desired = desired, !.custom = custom]
           n == Put(b, i, r)
           t == ResolveTable(n)
<1>1. b \in Table /\ i \in Installs /\ b.routes[i] \in Route /\ b.store[i] \in Entry
  BY DEF FreeBut, FreeOthers, Live, Table
<1>2. r \in Route /\ r.desired = desired /\ r.custom = custom /\ r.row = b.routes[i].row
  BY <1>1 DEF Route
<1>3. n = [b EXCEPT !.routes[i].desired = desired, !.routes[i].custom = custom]
  BY <1>1 DEF Put, Table
<1>4. t = SetDesiredLabel(b, i, desired, custom)
  BY <1>3 DEF SetDesiredLabel
<1> HIDE DEF r
<1>5. Free(i, r.desired, Taken(r))
  BY <1>2 DEF Taken
<1>6. /\ FreeBut(n, i) /\ Live(n.routes) = Live(b.routes) /\ n.routes[i] = r /\ n.store = b.store
      /\ \A k \in Installs \ {i} : n.routes[k] = b.routes[k]
  <2>1. Live(b.routes) \cup {i} = Live(b.routes)
    OBVIOUS
  <2>2. FreeOthers(b, i) /\ r \in Route /\ Free(i, r.desired, Taken(r)) /\ i \in Installs
    BY <1>1, <1>2, <1>5
  <2>3. FreeBut(n, i) /\ Live(n.routes) = Live(b.routes) \cup {i}
    BY <2>2, PutFree
  <2>4. n.routes[i] = r /\ n.store = b.store
    BY <2>2, PutFree
  <2>5. \A k \in Installs \ {i} : n.routes[k] = b.routes[k]
    BY <2>2, PutFree
  <2> QED
    BY <2>1, <2>3, <2>4, <2>5
<1> HIDE DEF n
<1>7. n \in Table
  BY <1>6 DEF FreeBut, FreeOthers
<1>8. /\ FreeBut(t, i) /\ Live(t.routes) = Live(b.routes)
      /\ Free(i, t.routes[i].label, Taken(t.routes[i]))
  BY <1>1, <1>6, ResolveTableFree
<1>9. \A k \in Live(b.routes) : t.routes[k].desired = n.routes[k].desired /\ t.routes[k].row = n.routes[k].row
  BY <1>6, <1>7, ResolveTableEffect
<1>10. \A k \in Live(b.routes) \ {i} : k \in Installs \ {i}
  BY DEF Live
<1>11. Settled(t)
  BY <1>7, ResolveTableSettles
<1>12. t.store[i].row = n.store[i].row
  <2>1. \/ t.store[i] = n.store[i]
        \/ t.store[i] = OnLabelChanged(n.store[i], n.routes[i].desired, Resolved(n.routes, i))
    BY <1>6, <1>7, ResolveTableEffect
  <2>2. n.store[i] \in Entry
    BY <1>1, <1>6
  <2> QED
    BY <2>1, <2>2 DEF OnLabelChanged, Entry
<1> HIDE DEF t
<1> QED
  BY <1>2, <1>4, <1>6, <1>8, <1>9, <1>10, <1>11, <1>12 DEF Turns, Alike

(* The claim of i is dropped between r and c.                              *)
Dropped(r, c, i) ==
    /\ Live(c.routes) = Live(r) /\ Settled(c) /\ Alike(r, c.routes, Live(r) \ {i})
    /\ c.routes[i].desired = Unclaimed[i] /\ c.routes[i].row = NoRow

LEMMA DropClaimFree ==
    ASSUME UnclaimedStandOut, NEW b, NEW i \in Live(b.routes), FreeBut(b, i)
    PROVE  LET c == DropClaim(b, i) IN
           AllFree(c) /\ Dropped(b.routes, c, i)
<1> DEFINE r        == [b.routes[i] EXCEPT !.row = NoRow]
           unjoined == Put(b, i, r)
           bumped   == BumpRoute(unjoined, i)
           renamed  == SetDesiredLabel(bumped, i, Unclaimed[i], FALSE)
           c        == Remember(renamed, i, TRUE)
<1>1. b \in Table /\ i \in Installs /\ b.routes[i] \in Route
  BY DEF FreeBut, FreeOthers, Live, Table
<1>2. r \in Route /\ r.desired = b.routes[i].desired /\ r.custom = b.routes[i].custom /\ r.row = NoRow
  BY <1>1 DEF Route, RowOrNone
<1>3. unjoined = [b EXCEPT !.routes[i].row = NoRow]
  BY <1>1 DEF Put, Table
<1>4. c = DropClaim(b, i)
  BY <1>3 DEF DropClaim
<1> HIDE DEF r
<1>5. Free(i, r.desired, Taken(r))
  BY <1>2 DEF FreeBut, FreeOthers, Free, Taken
<1>6. FreeBut(unjoined, i) /\ Live(unjoined.routes) = Live(b.routes)
  <2>1. Live(b.routes) \cup {i} = Live(b.routes)
    OBVIOUS
  <2>2. FreeBut(unjoined, i) /\ Live(unjoined.routes) = Live(b.routes) \cup {i}
    BY <1>1, <1>2, <1>5, PutFree DEF FreeBut
  <2> QED
    BY <2>1, <2>2
<1>7. unjoined.routes[i] = r
  BY <1>1, <1>2, <1>5, PutFree DEF FreeBut
<1>8. \A k \in Installs \ {i} : unjoined.routes[k] = b.routes[k]
  BY <1>1, <1>2, <1>5, PutFree DEF FreeBut
<1> HIDE DEF unjoined
<1>9. FreeBut(bumped, i) /\ Live(bumped.routes) = Live(b.routes)
  BY <1>6, BumpFree DEF FreeBut
<1>10. Alike(unjoined.routes, bumped.routes, Live(b.routes))
  BY <1>6, BumpFree DEF FreeBut
<1> HIDE DEF bumped
<1>11. Unclaimed[i] \in Label /\ Free(i, Unclaimed[i], bumped.routes[i].row # NoRow \/ FALSE)
  <2>1. bumped.routes[i].row = NoRow
    BY <1>2, <1>7, <1>10 DEF Alike
  <2>2. Free(i, Unclaimed[i], FALSE)
    BY <1>1 DEF UnclaimedStandOut, Free
  <2> QED
    BY <1>1, <2>1, <2>2, RouteTableAssumption
<1>12. FreeBut(renamed, i) /\ Free(i, renamed.routes[i].label, Taken(renamed.routes[i]))
  BY <1>9, <1>11, SetDesiredLabelFree DEF FreeBut
<1>13. Turns(bumped.routes, renamed, i, Unclaimed[i])
  BY <1>9, <1>11, SetDesiredLabelFree DEF FreeBut
<1> HIDE DEF renamed
<1>14. i \in Live(renamed.routes)
  BY <1>9, <1>13 DEF Turns
<1>15. AllFree(c) /\ c.routes = renamed.routes
  BY <1>12, <1>14, RememberFree
<1> HIDE DEF c
<1>16. Dropped(b.routes, c, i)
  <2>1. \A k \in Live(b.routes) \ {i} : k \in Installs \ {i}
    BY DEF Live
  <2>2. Alike(b.routes, c.routes, Live(b.routes) \ {i})
    BY <1>8, <1>9, <1>10, <1>13, <1>15, <2>1 DEF Alike, Turns
  <2>3. c.routes[i].desired = Unclaimed[i] /\ c.routes[i].row = NoRow
    BY <1>2, <1>7, <1>10, <1>13, <1>15 DEF Alike, Turns
  <2> QED
    BY <1>9, <1>13, <1>15, <2>2, <2>3 DEF Dropped, Turns, Settled
<1> QED
  BY <1>4, <1>15, <1>16

Joins(r, s, i) == Live(s) = Live(r) \cup {i} /\ Alike(r, s, Live(r) \ {i})

LEMMA AttachFree ==
    ASSUME NEW b, NEW i \in Installs, FreeOthers(b, i), NEW row \in RowOrNone, NEW desired \in Label,
           NEW custom \in BOOLEAN, Free(i, desired, row # NoRow \/ custom)
    PROVE  LET c == Attach(b, i, row, desired, custom) IN
           /\ FreeBut(c, i) /\ Joins(b.routes, c.routes, i)
           /\ Free(i, c.routes[i].label, Taken(c.routes[i]))
<1> DEFINE r == [row |-> row, desired |-> desired, label |-> NoLabel, custom |-> custom, gen |-> b.store[i].gen]
           n == Put(b, i, r)
           c == ResolveTable(n)
<1>1. b \in Table /\ b.store[i] \in Entry
  BY DEF FreeBut, FreeOthers, Table
<1>2. r \in Route /\ Free(i, r.desired, Taken(r))
  <2>1. NoLabel \in Label
    BY EmptySeq DEF NoLabel, Label
  <2> QED
    BY <1>1, <2>1 DEF Route, Entry, Taken
<1>3. c = Attach(b, i, row, desired, custom)
  BY DEF Attach, Put
<1> HIDE DEF r
<1>4. FreeBut(n, i) /\ Live(n.routes) = Live(b.routes) \cup {i}
  BY <1>2, PutFree DEF FreeBut
<1>5. \A k \in Installs \ {i} : n.routes[k] = b.routes[k]
  BY <1>2, PutFree DEF FreeBut
<1> HIDE DEF n
<1>6. n \in Table /\ i \in Live(n.routes)
  BY <1>4 DEF FreeBut, FreeOthers
<1>7. /\ FreeBut(c, i) /\ Live(c.routes) = Live(n.routes)
      /\ Free(i, c.routes[i].label, Taken(c.routes[i]))
  BY <1>4, <1>6, ResolveTableFree
<1>8. \A k \in Live(n.routes) : c.routes[k].desired = n.routes[k].desired /\ c.routes[k].row = n.routes[k].row
  BY <1>6, ResolveTableEffect
<1>9. \A k \in Live(b.routes) \ {i} : k \in Installs \ {i}
  BY DEF Live
<1> HIDE DEF c
<1> QED
  BY <1>3, <1>4, <1>5, <1>7, <1>8, <1>9 DEF Alike, Joins

LEMMA DetachFree ==
    ASSUME NEW b, NEW i \in Installs, AllFree(b)
    PROVE  /\ AllFree(Detach(b, i)) /\ i \notin Live(Detach(b, i).routes)
           /\ Alike(b.routes, Detach(b, i).routes, Live(b.routes) \ {i})
<1> DEFINE n == [b EXCEPT !.routes[i] = NoRoute]
           t == ResolveTable(n)
<1>1. n \in Table /\ n.store = b.store /\ n.routes = [b.routes EXCEPT ![i] = NoRoute]
  BY DEF AllFree, Table
<1>2. t = Detach(b, i)
  BY DEF Detach
<1> HIDE DEF n
<1>3. i \notin Live(n.routes) /\ \A k \in Installs \ {i} : n.routes[k] = b.routes[k]
  BY <1>1 DEF AllFree, Live, Table
<1>4. \A k \in Installs \ {i} : k \in Live(n.routes) <=> k \in Live(b.routes)
  BY <1>3 DEF Live
<1>5. FreeBut(n, i)
  BY <1>1, <1>3, <1>4 DEF AllFree, FreeBut, FreeOthers, FreeAt, Modest
<1>6. FreeBut(t, i) /\ i \notin Live(t.routes) /\ t.store[i] = n.store[i]
  BY <1>3, <1>5, ResolveTableFree
<1>7. Alike(b.routes, t.routes, Live(b.routes) \ {i})
  <2>1. \A k \in Live(b.routes) \ {i} : k \in Live(n.routes) /\ n.routes[k] = b.routes[k]
    BY <1>3, <1>4 DEF Live
  <2>2. n \in Table
    BY <1>1
  <2> QED
    BY <2>1, <2>2, ResolveTableEffect DEF Alike
<1> HIDE DEF t
<1> QED
  BY <1>1, <1>2, <1>6, <1>7 DEF AllFree, FreeBut, FreeOthers, FreeAt
-----------------------------------------------------------------------------
(* What each action does to it.  A handler of i leaves every other route   *)
(* as it was but for its name, and a dropped claim is i's and DropClaim's. *)

Tends(b, i) ==
    /\ AllFree(b) /\ Alike(routes, b.routes, Live(routes) \ {i})
    /\ /\ i \in Live(routes) /\ routes[i].row # NoRow
       /\ i \in Live(b.routes) /\ b.routes[i].row = NoRow /\ b.store[i].changed
       => Dropped(routes, b, i)

Tended(i) == \E b : routes' = b.routes /\ store' = b.store /\ Tends(b, i)

LEMMA VerdictFree ==
    ASSUME UnclaimedStandOut, NEW i \in Installs, NEW e \in Entry, FreeEntry(i, e),
           e.custom => e.label # NoLabel, NEW v \in Verdicts(e)
    PROVE  LET f == AfterVerdict(e, v) IN
           /\ f.row # NoRow => e.row # NoRow
           /\ FreeEntry(i, f)
           /\ Free(i, RegisterLabel(i, f, v), v.row # NoRow \/ LabelIsCustom(f, v))
<1> DEFINE f == AfterVerdict(e, v)
           default == DefaultLabelFor(i, v.row)
<1>1. f \in Entry /\ f.desired = e.desired /\ f.label = e.label /\ f.custom = e.custom
  BY VerdictKeeps
<1>2. v \in Verdict /\ (v.unverified => e.row # NoRow /\ f = e)
  BY DEF Verdicts, AfterVerdict
<1>3. f.row # NoRow => e.row # NoRow
  BY DEF AfterVerdict, ForgetClaim, Entry
<1> HIDE DEF f
<1>4. FreeEntry(i, f)
  BY <1>1, <1>3 DEF FreeEntry, Taken, Free
<1>5. Free(i, default, v.row # NoRow)
  BY <1>2 DEF default, DefaultLabelFor, UnclaimedStandOut, Free, Verdict, RowOrNone
<1>6. LabelIsCustom(f, v) =>
        Free(i, RegisterLabel(i, f, v), v.row # NoRow \/ LabelIsCustom(f, v))
  <2> HAVE LabelIsCustom(f, v)
  <2>1. RegisterLabel(i, f, v) = f.label /\ f.label # NoLabel /\ Taken(f)
    BY <1>1 DEF RegisterLabel, LabelIsCustom, Taken
  <2>2. Free(i, f.label, TRUE)
    BY <1>4, <2>1 DEF FreeEntry, Free
  <2>3. Free(i, f.label, v.row # NoRow \/ LabelIsCustom(f, v))
    BY <2>2 DEF Free
  <2> QED
    BY <2>1, <2>3
<1>7. ~LabelIsCustom(f, v) /\ v.unverified /\ f.desired # NoLabel =>
        Free(i, RegisterLabel(i, f, v), v.row # NoRow \/ LabelIsCustom(f, v))
  <2> HAVE ~LabelIsCustom(f, v) /\ v.unverified /\ f.desired # NoLabel
  <2>1. Free(i, f.desired, TRUE)
    BY <1>2, <1>4 DEF FreeEntry, Taken
  <2>2. RegisterLabel(i, f, v) = f.desired
    BY DEF RegisterLabel
  <2>3. Free(i, f.desired, v.row # NoRow \/ LabelIsCustom(f, v))
    BY <2>1 DEF Free
  <2> QED
    BY <2>2, <2>3
<1>8. ~LabelIsCustom(f, v) /\ ~(v.unverified /\ f.desired # NoLabel) =>
        Free(i, RegisterLabel(i, f, v), v.row # NoRow \/ LabelIsCustom(f, v))
  <2> HAVE ~LabelIsCustom(f, v) /\ ~(v.unverified /\ f.desired # NoLabel)
  <2>1. RegisterLabel(i, f, v) = default
    BY DEF RegisterLabel
  <2>2. Free(i, default, v.row # NoRow \/ LabelIsCustom(f, v))
    BY <1>5 DEF Free
  <2> HIDE DEF default
  <2> QED
    BY <2>1, <2>2
<1> QED
  BY <1>3, <1>4, <1>6, <1>7, <1>8 DEF f

LEMMA RegisterFree ==
    ASSUME UnclaimedStandOut, TypeOK, Named(store), AllFree(Now),
           NEW i \in Installs, NEW v \in Verdicts(store[i]), Register(i, v)
    PROVE  Tended(i)
<1> DEFINE entry    == AfterVerdict(store[i], v)
           resolved == [routes |-> routes, store |-> [store EXCEPT ![i] = entry]]
           bumped   == NextGeneration(resolved, i)
           label    == RegisterLabel(i, entry, v)
           custom   == LabelIsCustom(entry, v)
           attached == Attach(bumped, i, v.row, label, custom)
           changed  == IdentityChanged(entry, v)
           settled  == IF changed THEN DropClaim(attached, i) ELSE attached
           b        == Remember(settled, i, changed)
<1>1. store[i] \in Entry /\ FreeEntry(i, store[i]) /\ (store[i].custom => store[i].label # NoLabel)
  BY DEF TypeOK, AllFree, FreeAt, Now, Named
<1>2. /\ entry \in Entry /\ changed \in BOOLEAN /\ custom \in BOOLEAN /\ v.row \in RowOrNone /\ label \in Label
  BY <1>1, VerdictType
<1>3. Free(i, label, v.row # NoRow \/ custom)
  BY <1>1, VerdictFree
<1>4. routes' = b.routes /\ store' = b.store
  BY DEF Register, Become
<1> HIDE DEF entry, label, custom, changed
<1>5. /\ bumped \in Table /\ bumped.routes = routes
      /\ \A k \in Installs \ {i} : bumped.store[k] = store[k]
  <2>1. resolved \in Table /\ resolved.routes = routes
    BY <1>2 DEF TypeOK, Table
  <2>2. \A k \in Installs \ {i} : resolved.store[k] = store[k]
    BY DEF TypeOK
  <2> HIDE DEF resolved
  <2>3. bumped \in Table /\ bumped.routes = resolved.routes
    BY <2>1, BumpType DEF NextGeneration, Table
  <2>4. \A k \in Installs \ {i} : bumped.store[k] = resolved.store[k]
    BY <2>1 DEF NextGeneration, Table
  <2> QED
    BY <2>1, <2>2, <2>3, <2>4
<1> HIDE DEF bumped
<1>6. FreeOthers(bumped, i)
  BY <1>5 DEF FreeOthers, AllFree, FreeAt, FreeEntry, Modest, Now
<1>7. FreeBut(attached, i) /\ Live(attached.routes) = Live(routes) \cup {i}
  <2>1. FreeBut(attached, i) /\ Joins(bumped.routes, attached.routes, i)
    BY <1>2, <1>3, <1>6, AttachFree
  <2> QED
    BY <1>5, <2>1 DEF Joins
<1>8. Free(i, attached.routes[i].label, Taken(attached.routes[i]))
  BY <1>2, <1>3, <1>5, <1>6, AttachFree
<1>9. Alike(routes, attached.routes, Live(routes) \ {i})
  <2>1. Joins(bumped.routes, attached.routes, i)
    BY <1>2, <1>3, <1>6, AttachFree
  <2> QED
    BY <1>5, <2>1 DEF Joins
<1> HIDE DEF attached
<1>10. i \in Live(attached.routes)
  BY <1>7
<1>11. CASE changed
  <2>1. settled = DropClaim(attached, i)
    BY <1>11
  <2>2. AllFree(settled) /\ Dropped(attached.routes, settled, i)
    BY <1>7, <1>10, <2>1, DropClaimFree
  <2> HIDE DEF settled
  <2>3. FreeBut(settled, i) /\ i \in Live(settled.routes)
    BY <1>10, <2>2, FreeWithout DEF Dropped
  <2>4. Free(i, settled.routes[i].label, Taken(settled.routes[i]))
    BY <2>2, <2>3 DEF AllFree, FreeAt
  <2>5. AllFree(b) /\ b.routes = settled.routes
    BY <1>2, <2>3, <2>4, RememberFree
  <2> HIDE DEF b
  <2>6. Alike(routes, b.routes, Live(routes) \ {i})
    BY <1>7, <1>9, <2>2, <2>5 DEF Dropped, Alike
  <2>7. i \in Live(routes) => Dropped(routes, b, i)
    <3>1. i \in Live(routes) => Live(attached.routes) = Live(routes)
      BY <1>7
    <3> QED
      BY <2>2, <2>5, <2>6, <3>1 DEF Dropped, Settled
  <2> QED
    BY <1>4, <2>5, <2>6, <2>7 DEF Tended, Tends
<1>12. CASE ~changed
  <2>1. settled = attached
    BY <1>12
  <2>2. AllFree(b) /\ b.routes = attached.routes
    BY <1>2, <1>7, <1>8, <1>10, <2>1, RememberFree
  <2>3. b.store[i].changed = FALSE
    BY <1>2, <1>7, <1>8, <1>10, <1>12, <2>1, RememberFree
  <2> HIDE DEF b
  <2> QED
    BY <1>4, <1>9, <2>2, <2>3 DEF Tended, Tends
<1> QED
  BY <1>2, <1>11, <1>12

LEMMA AbandonedFree ==
    ASSUME UnclaimedStandOut, TypeOK, Named(store), AllFree(Now),
           NEW i \in Installs, NEW v \in Verdicts(store[i]), RegisterAbandoned(i, v)
    PROVE  Tended(i)
<1> DEFINE entry == AfterVerdict(store[i], v)
           b     == [routes |-> routes, store |-> [store EXCEPT ![i] = entry]]
<1>1. store[i] \in Entry /\ FreeEntry(i, store[i]) /\ (store[i].custom => store[i].label # NoLabel)
  BY DEF TypeOK, AllFree, FreeAt, Now, Named
<1>2. /\ entry \in Entry /\ entry.custom = store[i].custom /\ FreeEntry(i, entry)
      /\ entry.row # NoRow => store[i].row # NoRow
  BY <1>1, VerdictKeeps, VerdictFree
<1>3. routes' = b.routes /\ store' = b.store
  BY DEF RegisterAbandoned, Become
<1> HIDE DEF entry
<1>4. b \in Table /\ b.routes = routes /\ b.store[i] = entry /\ \A k \in Installs \ {i} : b.store[k] = store[k]
  BY <1>2 DEF TypeOK, Table
<1> HIDE DEF b
<1>5. AllFree(b)
  BY <1>2, <1>4 DEF AllFree, FreeAt, Modest, Now
<1> QED
  BY <1>3, <1>4, <1>5 DEF Tended, Tends, Alike

LEMMA SetLabelFree ==
    ASSUME UnclaimedStandOut, TypeOK, AllFree(Now), NEW i \in Installs, NEW label \in Custom, SetLabel(i, label)
    PROVE  Tended(i)
<1> DEFINE bumped  == BumpRoute(Now, i)
           renamed == SetDesiredLabel(bumped, i, label, TRUE)
           b       == RememberName(renamed, i)
<1>1. i \in Live(Now.routes) /\ FreeBut(Now, i) /\ FreeOthers(Now, i) /\ Now.routes = routes /\ Now.store = store
  BY FreeWithout DEF SetLabel, Now, FreeBut
<1>2. label \in Label /\ Free(i, label, TRUE)
  BY RouteTableAssumption DEF UnclaimedStandOut, Free
<1>3. routes' = b.routes /\ store' = b.store
  BY DEF SetLabel, Become, Now
<1>4. FreeOthers(bumped, i) /\ Live(bumped.routes) = Live(routes)
  BY <1>1, BumpFree
<1>5. bumped.store[i] = [store[i] EXCEPT !.gen = @ + 1] /\ Alike(routes, bumped.routes, Live(routes))
  BY <1>1, BumpFree
<1> HIDE DEF bumped
<1>6. /\ FreeBut(renamed, i) /\ Free(i, renamed.routes[i].label, Taken(renamed.routes[i]))
      /\ renamed.store[i].row = bumped.store[i].row
  BY <1>1, <1>2, <1>4, SetDesiredLabelFree
<1>7. Turns(bumped.routes, renamed, i, label)
  BY <1>1, <1>2, <1>4, SetDesiredLabelFree
<1> HIDE DEF renamed
<1>8. i \in Live(renamed.routes) /\ renamed.routes[i].row = routes[i].row
  BY <1>1, <1>4, <1>5, <1>7 DEF Turns, Alike
<1>9. renamed.store[i].row # NoRow => renamed.routes[i].row # NoRow
  <2>1. bumped.store[i].row = store[i].row
    BY <1>5 DEF TypeOK, Entry
  <2>2. store[i].row # NoRow => routes[i].row # NoRow
    BY <1>1 DEF AllFree, FreeAt, Modest
  <2> QED
    BY <1>6, <1>8, <2>1, <2>2
<1>10. AllFree(b) /\ b.routes = renamed.routes
  BY <1>6, <1>8, <1>9, RememberFree
<1> HIDE DEF b
<1>11. Alike(routes, b.routes, Live(routes) \ {i})
  BY <1>4, <1>5, <1>7, <1>10 DEF Alike, Turns
<1> QED
  BY <1>3, <1>8, <1>10, <1>11 DEF Tended, Tends

LEMMA ClaimProfileFree ==
    ASSUME UnclaimedStandOut, TypeOK, AllFree(Now), NEW i \in Installs, NEW row \in Rows, ClaimProfile(i, row)
    PROVE  Tended(i)
<1> DEFINE r       == [routes[i] EXCEPT !.row = row]
           joined  == Put(Now, i, r)
           bumped  == BumpRoute(joined, i)
           renamed == IF routes[i].custom THEN bumped
                      ELSE SetDesiredLabel(bumped, i, Derived[row], FALSE)
           b       == Remember(renamed, i, FALSE)
<1>1. /\ i \in Live(routes) /\ routes[i] \in Route /\ Now.routes = routes /\ Now.store = store
      /\ FreeOthers(Now, i)
  BY FreeWithout DEF ClaimProfile, TypeOK, Live, Now, FreeBut
<1>2. joined = [routes |-> [routes EXCEPT ![i].row = row], store |-> store]
  BY DEF Put, Now
<1>3. routes' = b.routes /\ store' = b.store
  BY <1>2 DEF ClaimProfile, Become
<1>4. r \in Route /\ r.desired = routes[i].desired /\ r.label = routes[i].label /\ r.custom = routes[i].custom
  BY <1>1 DEF Route, RowOrNone
<1> HIDE DEF r
<1>5. /\ FreeOthers(joined, i) /\ joined.routes[i] = r
      /\ Free(i, r.desired, Taken(r)) => FreeBut(joined, i)
  BY <1>1, <1>4, PutFree
<1>6. \A k \in Live(routes) \ {i} : joined.routes[k] = routes[k]
  BY <1>1, <1>4, PutFree DEF Live
<1>7. Live(joined.routes) = Live(routes)
  <2>1. Live(Put(Now, i, r).routes) = Live(Now.routes) \cup {i}
    BY <1>1, <1>4, PutFree
  <2> QED
    BY <1>1, <2>1
<1> HIDE DEF joined
<1>8. /\ FreeOthers(bumped, i) /\ (FreeBut(joined, i) => FreeBut(bumped, i))
      /\ bumped.routes[i].custom = r.custom /\ bumped.routes[i].label = r.label
  BY <1>1, <1>5, <1>7, BumpFree
<1>9. Live(bumped.routes) = Live(routes) /\ Alike(joined.routes, bumped.routes, Live(routes))
  BY <1>1, <1>5, <1>7, BumpFree
<1> HIDE DEF bumped
<1>10. Alike(routes, bumped.routes, Live(routes) \ {i})
  BY <1>6, <1>9 DEF Alike
<1>11. /\ FreeBut(renamed, i) /\ Free(i, renamed.routes[i].label, Taken(renamed.routes[i]))
       /\ Live(renamed.routes) = Live(routes) /\ Alike(routes, renamed.routes, Live(routes) \ {i})
  <2>1. CASE routes[i].custom
    <3>1. Free(i, routes[i].desired, TRUE) /\ Free(i, routes[i].label, TRUE)
      BY <1>1, <2>1 DEF AllFree, FreeAt, Taken, Free
    <3>2. FreeBut(bumped, i)
      BY <1>4, <1>5, <1>8, <3>1 DEF Free
    <3>3. Free(i, bumped.routes[i].label, Taken(bumped.routes[i]))
      BY <1>4, <1>8, <3>1 DEF Free
    <3> QED
      BY <1>9, <1>10, <2>1, <3>2, <3>3
  <2>2. CASE ~routes[i].custom
    <3>1. Derived[row] \in Label /\ \A t : Free(i, Derived[row], t)
      BY RouteTableAssumption DEF UnclaimedStandOut, Free
    <3>2. /\ FreeBut(renamed, i) /\ Turns(bumped.routes, renamed, i, Derived[row])
          /\ Free(i, renamed.routes[i].label, Taken(renamed.routes[i]))
      BY <1>1, <1>8, <1>9, <2>2, <3>1, SetDesiredLabelFree
    <3> QED
      BY <1>9, <1>10, <3>2 DEF Turns, Alike
  <2> QED
    BY <2>1, <2>2
<1> HIDE DEF renamed
<1>12. AllFree(b) /\ b.routes = renamed.routes /\ b.store[i].changed = FALSE
  BY <1>1, <1>11, RememberFree
<1> HIDE DEF b
<1> QED
  BY <1>3, <1>11, <1>12 DEF Tended, Tends

LEMMA LeavingFree ==
    ASSUME UnclaimedStandOut, TypeOK, AllFree(Now), NEW i \in Installs, Disconnect(i) \/ Drift(i)
    PROVE  Tended(i)
<1>1. Now.routes = routes /\ FreeBut(Now, i)
  BY FreeWithout DEF Now
<1>2. CASE Disconnect(i)
  <2>1. routes' = Detach(Now, i).routes /\ store' = Detach(Now, i).store
    BY <1>2 DEF Disconnect, Become, Now
  <2>2. Tends(Detach(Now, i), i)
    BY <1>1, DetachFree DEF Tends
  <2> QED
    BY <2>1, <2>2 DEF Tended
<1>3. CASE Drift(i)
  <2>1. routes' = DropClaim(Now, i).routes /\ store' = DropClaim(Now, i).store /\ i \in Live(routes)
    BY <1>3 DEF Drift, Become, Now
  <2>2. AllFree(DropClaim(Now, i)) /\ Dropped(routes, DropClaim(Now, i), i)
    BY <1>1, <2>1, DropClaimFree
  <2>3. Tends(DropClaim(Now, i), i)
    BY <2>2 DEF Tends, Dropped
  <2> QED
    BY <2>1, <2>3 DEF Tended
<1> QED
  BY <1>2, <1>3

(* A claim that is dropped in a step is dropped as DropClaim does it.      *)
DropsAreWhole ==
    \A k \in Live(routes) : ClaimDropped(k) => \E b : routes' = b.routes /\ Dropped(routes, b, k)

LEMMA TendedDrops ==
    ASSUME NEW i \in Installs, Tended(i)
    PROVE  AllFree(Now)' /\ DropsAreWhole
<1>1. PICK b : routes' = b.routes /\ store' = b.store /\ Tends(b, i)
  BY DEF Tended
<1>2. Now' = b
  BY <1>1 DEF Now, Tends, AllFree, Table
<1>3. AllFree(Now)'
  BY <1>1, <1>2 DEF Tends
<1>4. ASSUME NEW k \in Live(routes), ClaimDropped(k) PROVE Dropped(routes, b, k)
  <2>1. k \in Live(b.routes)
    BY <1>1, <1>4 DEF ClaimDropped, Live
  <2>2. k = i
    BY <1>1, <1>4 DEF ClaimDropped, Tends, Alike
  <2> QED
    BY <1>1, <1>4, <2>1, <2>2 DEF ClaimDropped, Tends
<1> QED
  BY <1>1, <1>3, <1>4 DEF DropsAreWhole

FreeInv == HandleInv /\ AllFree(Now)

LEMMA FreeInit == Init => AllFree(Now)
<1> SUFFICES ASSUME Init PROVE AllFree(Now)
  OBVIOUS
<1>1. TypeOK /\ Live(routes) = {}
  BY TypeInit DEF Init, Live
<1>2. Now \in Table /\ Now.routes = routes /\ Now.store = [i \in Installs |-> Blank]
  BY <1>1 DEF Now, Table, TypeOK, Init
<1> QED
  BY <1>1, <1>2 DEF AllFree, FreeAt, FreeEntry, Blank

LEMMA FreeStep ==
    ASSUME UnclaimedStandOut, FreeInv, [Next]_vars
    PROVE  AllFree(Now)' /\ DropsAreWhole
<1>1. TypeOK /\ Named(store) /\ disk = store /\ AllFree(Now)
  BY DEF FreeInv, HandleInv, TableInv, Sound, Now
<1>2. ASSUME NEW i \in Installs, NEW v \in Verdicts(store[i]), Register(i, v) \/ RegisterAbandoned(i, v)
      PROVE  AllFree(Now)' /\ DropsAreWhole
  BY <1>1, <1>2, RegisterFree, AbandonedFree, TendedDrops
<1>3. ASSUME NEW i \in Installs, NEW row \in Rows, ClaimProfile(i, row)
      PROVE  AllFree(Now)' /\ DropsAreWhole
  BY <1>1, <1>3, ClaimProfileFree, TendedDrops
<1>4. ASSUME NEW i \in Installs, NEW label \in Custom, SetLabel(i, label)
      PROVE  AllFree(Now)' /\ DropsAreWhole
  BY <1>1, <1>4, SetLabelFree, TendedDrops
<1>5. ASSUME NEW i \in Installs, Disconnect(i) \/ Drift(i)
      PROVE  AllFree(Now)' /\ DropsAreWhole
  BY <1>1, <1>5, LeavingFree, TendedDrops
<1>6. ASSUME routes' = routes, store' = store
      PROVE  AllFree(Now)' /\ DropsAreWhole
  <2>1. Now' = Now
    BY <1>6 DEF Now
  <2> QED
    BY <1>1, <1>6, <2>1 DEF DropsAreWhole, ClaimDropped
<1>7. (UNCHANGED vars \/ \E i \in Installs : Mint(i)) => routes' = routes /\ store' = store
  BY DEF vars, Mint
<1>8. CASE BrokerRestart
  <2>1. routes' = [i \in Installs |-> NoRoute] /\ store' = store
    BY <1>1, <1>8 DEF BrokerRestart
  <2>2. Live(routes') = {}
    BY <2>1 DEF Live
  <2>3. Now' \in Table /\ Now'.routes = routes' /\ Now'.store = Now.store
    BY <1>1, <2>1 DEF Now, Table, TypeOK
  <2>4. AllFree(Now)'
    BY <1>1, <2>2, <2>3 DEF AllFree, FreeAt
  <2> QED
    BY <2>1, <2>4 DEF DropsAreWhole, ClaimDropped, Live
<1> QED
  BY <1>2, <1>3, <1>4, <1>5, <1>6, <1>7, <1>8 DEF Next

(* When a route loses its claim because the person changed, and the board  *)
(* was settled, the name it answered to reaches nobody ("its old name no   *)
(* longer addresses anything", profiles.mjs): not it, and not a route that *)
(* one of the drop's moves takes there.  Every save is to succeed (a crash *)
(* between two saves of one drop leaves a record that is claimed or named  *)
(* under its unclaimed name), and nobody to type an unclaimed name.        *)
THEOREM ADroppedNameIsFree ==
    ASSUME HashesMark, UnclaimedStandOut, ~SavesFail
    PROVE  Spec => SettledNameReachesNobody
<1>1. FreeInv /\ [Next]_vars => AllFree(Now)' /\ DropsAreWhole
  BY FreeStep
<1>2. Spec => []FreeInv
  <2>1. Init => AllFree(Now)
    BY FreeInit
  <2>2. HandleInv /\ AllFree(Now) /\ [Next]_vars => AllFree(Now)'
    BY <1>1 DEF FreeInv
  <2>3. HandleInv /\ AllFree(Now) => FreeInv
    BY DEF FreeInv
  <2> QED
    BY <2>1, <2>2, <2>3, HandleAlways, PTL DEF Spec
<1>3. ASSUME FreeInv, NamesInv, [Next]_vars, NEW i \in Live(routes), BoardIsSettled, ClaimDropped(i)
      PROVE  NameReachesNobody(routes[i].label)
  <2>1. PICK b : routes' = b.routes /\ Dropped(routes, b, i)
    BY <1>1, <1>3 DEF DropsAreWhole
  <2>2. /\ routes \in [Installs -> Route \cup {NoRoute}] /\ routes' \in [Installs -> Route \cup {NoRoute}]
        /\ Live(routes') = Live(routes)
    BY <1>3, <2>1, TypeStep DEF NamesInv, TypeOK, Dropped
  <2>3. /\ \A k \in Live(routes) \ {i} : routes'[k].desired = routes[k].desired /\ routes'[k].row = routes[k].row
        /\ routes'[i].desired = Unclaimed[i]
    BY <2>1 DEF Dropped, Alike
  <2>4. \A k \in Live(routes) : Own(k, routes[k].desired) /\ Free(k, routes[k].desired, Taken(routes[k]))
    BY <1>3 DEF NamesInv, Ours, OwnRoutes, FreeInv, AllFree, FreeAt, Now, Live
  <2>5. Taken(routes[i])
    BY <1>3 DEF ClaimDropped, Taken
  <2>6. \A j \in Live(routes') : Resolved(routes', j) # Resolved(routes, i)
    BY <2>2, <2>3, <2>4, <2>5, LeftNameIsFree
  <2>7. routes[i].label = Resolved(routes, i) /\ \A j \in Live(routes') : routes'[j].label = Resolved(routes', j)
    BY <1>3, <2>1 DEF BoardIsSettled, Dropped, Settled
  <2> QED
    BY <2>6, <2>7 DEF NameReachesNobody, Live
<1>4. FreeInv /\ NamesInv /\ [Next]_vars =>
        [\A i \in Live(routes) : BoardIsSettled /\ ClaimDropped(i) => NameReachesNobody(routes[i].label)]_vars
  BY <1>3
<1> QED
  BY <1>2, <1>4, NamesAlways, PTL DEF Spec, SettledNameReachesNobody
=============================================================================
