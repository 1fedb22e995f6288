------------------------ MODULE ScreenStreamRefinement ------------------------
(***************************************************************************)
(* The refinement mapping under which ScreenStream implements ScreenMirror:*)
(* an app shows its grid, and is to show the grid as it will be after each *)
(* message that is queued, on the wire or waiting in its outbox.           *)
(***************************************************************************)
EXTENDS ScreenStream

CONSTANT Unknown

Following == {c \in Channel : Listening(c)}

\* The app's grid after `held`, as one screen to show; nothing if `held` is empty.
Showing(held, g, redrawn) ==
  IF held = {} THEN <<>> ELSE <<IF redrawn THEN g.rows ELSE Unknown>>

Ahead(c) ==
  LET g1 == After(c, grid[c], Snapshots(c))
      g2 == After(c, g1, InFlight(c))
      g3 == After(c, g2, frames[c])
      known == garbled[c] = "no"
      known2 == known \/ \E f \in InFlight(c) : f.reset
      known3 == known2 \/ \E f \in frames[c] : f.reset
  IN  IF ~Listening(c) THEN <<>>
      ELSE Showing(Snapshots(c), g1, TRUE)
             \o Showing(InFlight(c), g2, known2)
             \o Showing(frames[c], g3, known3)

Shown(c) == IF view[c] # "open" \/ garbled[c] # "no" THEN Unknown ELSE grid[c].rows

AbstractMirror == INSTANCE ScreenMirror WITH
  Viewer <- Channel,
  Screen <- [Row -> Cell],
  published <- row_hashes,
  following <- Following,
  shown <- [c \in Channel |-> Shown(c)],
  ahead <- [c \in Channel |-> Ahead(c)]

\* Every app shows whole screens the session published, in their order.
ImplementsMirror == AbstractMirror!Mirror
=============================================================================
