---------------------------- MODULE MCRemoteAccess ----------------------------
(* Model checking of RemoteAccess. *)
EXTENDS RemoteAccess, TLC

CONSTANTS a1, a2, n1, n2, n3

\* Apps and network connections are interchangeable.
MCSymmetry == Permutations(Admin) \cup Permutations(Net)
=============================================================================
