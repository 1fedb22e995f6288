---------------------------- MODULE MCAttachments ----------------------------
(* Model checking of Attachments. *)
EXTENDS Attachments

CONSTANTS c1, c2

\* One channel is resized, with two resizes under way; the other only comes
\* and goes.
MCResizes == [c \in Channel |-> IF c = c1 THEN 2 ELSE 0]
=============================================================================
