---------------------------- MODULE MCRouteTable ----------------------------
(* Small instances of RouteTable for TLC. *)
EXTENDS RouteTable, TLC

CONSTANTS iA, iB, iC, iD,                          \* installs
          work, default, profile1, chrome, unclaimed,   \* parts of labels
          ha, hb, hc, hd                       \* hashes of the installIds

MCParts == {work, default, profile1, chrome, unclaimed, ha, hb, hc, hd}

(* Two rows that derive the same name from one account signed into two     *)
(* directories.                                                            *)
MCRows == {"acme1", "acme2"}
MCDir == [r \in MCRows |-> IF r = "acme1" THEN default ELSE profile1]
MCDerived == [r \in MCRows |-> <<chrome, work>>]

MCHash == (iA :> ha) @@ (iB :> hb) @@ (iC :> hc) @@ (iD :> hd)
MCInstallHash == [i \in Installs |-> MCHash[i]]
MCUnclaimed == [i \in Installs |-> <<chrome, unclaimed, MCHash[i]>>]

(* The operator may type the derived name, its suffixed form, or another.  *)
MCCustom == {<<chrome, work>>, <<chrome, work, default>>}

(* A third row, of another account, whose derived name is the suffixed     *)
(* form of the first two's.                                                *)
MCRowsOfThree == MCRows \cup {"other"}
MCDirOfThree == [r \in MCRowsOfThree |-> IF r = "acme1" THEN default ELSE profile1]
MCDerivedOfThree ==
    [r \in MCRowsOfThree |-> IF r = "other" THEN <<chrome, work, default>> ELSE <<chrome, work>>]
MCCustomOne == {<<chrome, work>>}

(* Bounds on the generations, per install. *)
GensTwo     == (iA :> 5) @@ (iB :> 3)
GensThree   == (iA :> 3) @@ (iB :> 3) @@ (iC :> 2)
GensDropped == (iA :> 3) @@ (iB :> 6) @@ (iC :> 1)
GensFour    == (iA :> 1) @@ (iB :> 5) @@ (iC :> 3) @@ (iD :> 1)
=============================================================================
