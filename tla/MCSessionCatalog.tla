---------------------------- MODULE MCSessionCatalog ----------------------------
(* Model checking of SessionCatalog. *)
EXTENDS SessionCatalog

CONSTANTS s1, s2, o1, k1
=============================================================================
