------------------------------ MODULE ScreenMirror ------------------------------
(***************************************************************************)
(* What the screen stream promises, without rows, frames or channels: a    *)
(* session publishes whole screens, and each viewer shows a subsequence of *)
(* them in order.  A screen still on its way may be overtaken by a newer   *)
(* one and then is never shown, but a viewer never shows a mixture of two  *)
(* screens and never goes back.                                            *)
(*                                                                         *)
(* A viewer that resizes its own grid shows a guess until the session      *)
(* redraws it; a guess is the value Unknown.                               *)
(***************************************************************************)
EXTENDS Sequences, Naturals

CONSTANTS Viewer, Screen, Unknown

VARIABLES
  published,  \* the session's latest screen
  following,  \* the viewers that receive what is published
  shown,      \* what each viewer shows
  ahead       \* what each viewer has yet to show, oldest first

mirrorVars == <<published, following, shown, ahead>>

Init ==
  /\ published \in Screen
  /\ following = {}
  /\ shown = [v \in Viewer |-> Unknown]
  /\ ahead = [v \in Viewer |-> <<>>]

\* What the viewer will show last if nothing more is published.
LastOf(v) == IF ahead[v] = <<>> THEN shown[v] ELSE ahead[v][Len(ahead[v])]

\* A published screen waits behind the others or overtakes the last of them.  A
\* partial update of a guess is still a guess.
Queued(v, s) ==
  LET q == ahead[v]
      arrivals == IF LastOf(v) = Unknown THEN {s, Unknown} ELSE {s}
  IN  {Append(q, x) : x \in arrivals}
        \cup (IF q = <<>> THEN {} ELSE {[q EXCEPT ![Len(q)] = x] : x \in arrivals})

\* The session publishes a screen, and viewers may join with it.
Publish(s, joining) ==
  /\ published' = s
  /\ following' = following \cup joining
  /\ \A v \in Viewer :
       \/ v \in following /\ ahead'[v] \in Queued(v, s)
       \/ v \in following /\ s = published /\ ahead'[v] = ahead[v]
       \/ v \in joining /\ ahead'[v] = <<s>>
       \/ v \notin following \cup joining /\ ahead'[v] = ahead[v]
  /\ ahead' \in [Viewer -> Seq(Screen \cup {Unknown})]
  /\ UNCHANGED shown

Show(v) ==
  /\ ahead[v] # <<>>
  /\ shown' = [shown EXCEPT ![v] = Head(ahead[v])]
  /\ ahead' = [ahead EXCEPT ![v] = Tail(@)]
  /\ UNCHANGED <<published, following>>

\* A viewer guesses a new size: what it shows is unknown up to its next redraw.
Guess(v) ==
  /\ shown' = [shown EXCEPT ![v] = Unknown]
  /\ \E n \in 0 .. Len(ahead[v]) :
       ahead' = [ahead EXCEPT ![v] = [i \in 1 .. Len(@) |-> IF i <= n THEN Unknown ELSE @[i]]]
  /\ UNCHANGED <<published, following>>

Leave(v) ==
  /\ v \in following
  /\ following' = following \ {v}
  /\ ahead' = [ahead EXCEPT ![v] = <<>>]
  /\ shown' = [shown EXCEPT ![v] = Unknown]
  /\ UNCHANGED published

Next ==
  \/ \E s \in Screen, joining \in SUBSET Viewer : Publish(s, joining)
  \/ \E v \in Viewer : Show(v) \/ Guess(v) \/ Leave(v)

Mirror == Init /\ [][Next]_mirrorVars
=============================================================================
