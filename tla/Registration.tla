---------------------------- MODULE Registration ----------------------------
(***************************************************************************)
(* What a native port promises the extension that introduced itself on it: *)
(* the broker knows the profile only between the introduction and the word *)
(* that it is void, and it never forgets it in silence, unless a newer     *)
(* registration took the route (host/index.mjs, DESIGN.md).                *)
(***************************************************************************)

VARIABLES
    told,     \* what the extension heard of its REGISTER
    route,    \* a broker holds that REGISTER
    newer     \* a newer registration took its route

registration == <<told, route, newer>>

Init == told = "none" /\ route = FALSE /\ newer = FALSE

(* The extension introduces itself; a broker may hold it in the same step. *)
Introduce ==
    /\ told = "none" /\ told' = "asked"
    /\ route' \in BOOLEAN /\ UNCHANGED newer

(* Nobody else's introduction, and none that was already settled.          *)
Join ==
    /\ told = "asked" /\ ~route
    /\ route' = TRUE /\ UNCHANGED <<told, newer>>

Accept ==
    /\ told = "asked" /\ route
    /\ told' = "ok" /\ UNCHANGED <<route, newer>>

Refuse ==
    /\ told = "asked" /\ route
    /\ told' = "refused" /\ route' = FALSE /\ UNCHANGED newer

(* Whatever becomes of the broker, the extension hears it as it happens.   *)
Void ==
    /\ told' = "void" /\ route' = FALSE /\ UNCHANGED newer

Replace ==
    /\ route /\ newer' = TRUE /\ UNCHANGED <<told, route>>

Forget ==
    /\ newer /\ route /\ route' = FALSE /\ UNCHANGED <<told, newer>>

(* The port is closed and another one opened. *)
Reopen == told' = "none" /\ route' = FALSE /\ newer' = FALSE

Next ==
    \/ Introduce \/ Join \/ Accept \/ Refuse \/ Void \/ Replace \/ Forget \/ Reopen

Spec == Init /\ [][Next]_registration
=============================================================================
