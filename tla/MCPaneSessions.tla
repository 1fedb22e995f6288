---------------------------- MODULE MCPaneSessions ----------------------------
(* Model checking of PaneSessions. *)
EXTENDS PaneSessions, TLC

CONSTANTS a1, a2, p1, p2

TwoPanes == {<<a1, p1>>, <<a2, p1>>}
ThreePanes == TwoPanes \cup {<<a1, p2>>}
OneTerminal == {<<a1, p1>>}
=============================================================================
