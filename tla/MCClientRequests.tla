--------------------------- MODULE MCClientRequests ---------------------------
(* Model checking of ClientRequests. *)
EXTENDS ClientRequests

CONSTANTS r1, r2, r3

MCPatience == [c \in Async |-> 1]
=============================================================================
