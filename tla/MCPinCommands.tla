--------------------------- MODULE MCPinCommands ---------------------------
(* Small graphs for PinCommands.                                           *)
EXTENDS PinCommands, TLC

CONSTANTS n1, n2, n3

\* n1 links to n2
TwoNodes == {n1, n2}
TwoLinks == n1 :> {n2} @@ n2 :> {}

\* n1 and n2 share n3
ThreeNodes == {n1, n2, n3}
ThreeLinks == n1 :> {n3} @@ n2 :> {n3} @@ n3 :> {}
=============================================================================
