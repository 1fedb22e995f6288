---------------------------- MODULE MCScreenStream ----------------------------
(* Model checking of ScreenStream. *)
EXTENDS ScreenStreamRefinement, TLC

CONSTANTS c1, c2

\* The two attachments differ in how their apps size the grid, so they are not
\* interchangeable.
MCChannel == {c1, c2}
MCFollows == {c2}

\* Bounds of the run with two apps: no resize is refused, and c1 stays.
MCAccepted == \A c \in Channel : garbled[c] # "refused"
MCOneStays == view[c1] \notin {"closed", "gone"}
=============================================================================
