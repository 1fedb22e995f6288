------------------------------ MODULE MCSaveQueue ------------------------------
(* Model checking of SaveQueue. *)
EXTENDS SaveQueue
=============================================================================
