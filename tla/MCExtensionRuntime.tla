-------------------------- MODULE MCExtensionRuntime --------------------------
(* Small instances of ExtensionRuntime; the id of one extension begins that   *)
(* of the other one.                                                          *)
EXTENDS ExtensionRuntime, TLC

CONSTANTS e1, e2, c1, c2, r1

MCIds == e1 :> << "a" >> @@ e2 :> << "a", "b" >>

\* A call and a request overlap reloads of two versions of one extension, and panics.
Reloads == [extensions |-> {e1}, calls |-> {c1, c2}, requests |-> {r1},
            files |-> {1, 2, Broken}, panics |-> TRUE]

\* A request while two extensions come and go.
Routing == [extensions |-> {e1, e2}, calls |-> {}, requests |-> {r1},
            files |-> {1}, panics |-> FALSE]

MCUses      == {Reloads, Routing}
RoutingOnly == {Routing}
=============================================================================
