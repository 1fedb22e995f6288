------------------------------ MODULE ScreenStream ------------------------------
(***************************************************************************)
(* How one session's screen reaches the apps that show it.                 *)
(*                                                                         *)
(* The session's owner thread (session/owner.rs) collects terminal output  *)
(* and broadcasts the rows that changed to every attachment.  Each         *)
(* connection's outbox (connection/outbox.rs) holds at most one waiting    *)
(* frame per channel, merges newer output into it (connection/merge.rs),   *)
(* and hands it to the writer thread only once the app has acknowledged    *)
(* the frame before.  The app (muxy-client) applies frames to its grid.    *)
(*                                                                         *)
(* A channel is one attachment of one connection; channel numbers are      *)
(* never reused, so each element of Channel lives at most once.            *)
(***************************************************************************)
EXTENDS Integers, Sequences

CONSTANTS
  Channel,     \* the attachments made during a run
  Follows,     \* those whose app resizes its grid to each frame (muxy-mobile)
  MaxRows,     \* the tallest screen
  Cell,        \* what a row can show
  Blank,       \* an empty row
  NoRow,       \* "this frame does not carry the row"
  Nobody,      \* no channel
  MaxChanges,  \* bound: writes, clears and resizes in a run
  MaxAsks      \* bound: resizes of one channel under way

ASSUME ConstantsAssumption ==
  /\ Follows \subseteq Channel
  /\ MaxRows \in Nat \ {0}
  /\ Blank \in Cell
  /\ NoRow \notin Cell
  /\ Nobody \notin Channel
  /\ MaxChanges \in Nat
  /\ MaxAsks \in Nat

Row  == 1 .. MaxRows
Size == 1 .. MaxRows

VARIABLES
  \* the owner thread
  screen,         \* the emulator's rows; rows below `size` are blank
  size,           \* the session's height
  dirty,          \* rows written since the last take_changed_rows
  redraw_all,     \* the next take returns every row
  row_hashes,     \* each row as the last take returned it
  aside,          \* cursor, modes, graphics, links or prompts differ from the last frame
  output_pending,
  resize_pending,
  attachments,    \* the channels the owner sends to
  seq,            \* each attachment's next sequence number
  \* its command queue, one channel at a time
  attaching,      \* channels whose Attach command is queued
  asks,           \* heights each channel asked for and the owner has not applied
  detaching,      \* channels whose Detach command is queued
  \* each connection's outbox
  control,        \* the Attached reply, if it is queued
  frames,         \* the waiting frame, if any
  credit,         \* "closed", "ready" to send a frame, or "used"
  sent,           \* the last frame's sequence number
  \* the connection
  wire,           \* messages on their way to the app, oldest first by seq
  acks,           \* acknowledgements on their way to the server
  \* the app
  view,           \* "none", "open", "closed" (detached) or "gone" (disconnected)
  grid,           \* what the app shows: rows, the rows that exist, and its own height
  garbled,        \* history: the app resized its own grid and no redraw came yet
  changes         \* how many of MaxChanges were used

ownerVars == <<screen, size, dirty, redraw_all, row_hashes, aside,
               output_pending, resize_pending, attachments, seq>>
queueVars == <<attaching, asks, detaching>>
outboxVars == <<control, frames, credit, sent>>
wireVars == <<wire, acks>>
appVars == <<view, grid, garbled>>
vars == <<ownerVars, queueVars, outboxVars, wireVars, appVars, changes>>

-----------------------------------------------------------------------------
(* Screens, frames and grids *)

BlankRows == [r \in Row |-> Blank]

\* What a terminal of height n can show.
Screens(n) == {s \in [Row -> Cell] : \A r \in Row : r > n => s[r] = Blank}

\* A snapshot is the message that opens a channel; it has sequence number 0.
Frame == [seq : Nat, reset : BOOLEAN, size : Size, rows : [Row -> Cell \cup {NoRow}]]

Carries(f, r) == f.rows[r] # NoRow

Grid == [rows : [Row -> Cell], has : SUBSET Row, size : 0 .. MaxRows]

\* RunGrid::resize: every row of the new height, blank.
BlankGrid(n) == [rows |-> BlankRows, has |-> {r \in Row : r <= n}, size |-> n]

\* RunGrid::replace_rows: rows the grid does not have are skipped.
ReplaceRows(g, f) ==
  [g EXCEPT !.rows = [r \in Row |-> IF r \in g.has /\ Carries(f, r) THEN f.rows[r] ELSE g.rows[r]]]

\* RunGrid::apply's reset: the grid's own height, or more if the frame has more rows.
ResetGrid(g, f) ==
  [rows |-> BlankRows,
   has  |-> {r \in Row : r <= g.size \/ \E q \in Row : q >= r /\ Carries(f, q)},
   size |-> g.size]

\* The app's whole handler of a frame.
Apply(c, g, f) ==
  LET fit == IF c \in Follows /\ g.size # f.size THEN BlankGrid(f.size) ELSE g
  IN  ReplaceRows(IF f.reset THEN ResetGrid(fit, f) ELSE fit, f)

Receive(c, g, f) ==
  IF f.seq = 0 THEN ReplaceRows(BlankGrid(f.size), f) ELSE Apply(c, g, f)

\* Mutant of Merge: the older frame's rows are lost.
MergeForgetsRows(older, newer) ==
  IF newer.reset THEN newer
  ELSE [older EXCEPT !.seq = newer.seq, !.size = newer.size, !.rows = newer.rows]

\* connection/merge.rs: the newer frame folded into the waiting one.
Merge(older, newer) ==
  IF newer.reset THEN newer
  ELSE [older EXCEPT !.seq = newer.seq, !.size = newer.size,
          !.rows = [r \in Row |-> IF Carries(newer, r) THEN newer.rows[r] ELSE older.rows[r]]]

-----------------------------------------------------------------------------
Init ==
  /\ size \in Size
  /\ screen = BlankRows /\ row_hashes = BlankRows
  /\ dirty = {} /\ redraw_all = TRUE /\ aside = FALSE
  /\ output_pending = FALSE /\ resize_pending = FALSE
  /\ attachments = {} /\ seq = [c \in Channel |-> 0]
  /\ attaching = {} /\ detaching = {} /\ asks = [c \in Channel |-> <<>>]
  /\ control = [c \in Channel |-> {}] /\ frames = [c \in Channel |-> {}]
  /\ credit = [c \in Channel |-> "closed"] /\ sent = [c \in Channel |-> 0]
  /\ wire = [c \in Channel |-> {}] /\ acks = [c \in Channel |-> {}]
  /\ view = [c \in Channel |-> "none"] /\ grid = [c \in Channel |-> BlankGrid(0)]
  /\ garbled = [c \in Channel |-> "no"]
  /\ changes = 0

Change ==
  /\ changes < MaxChanges
  /\ changes' = changes + 1

-----------------------------------------------------------------------------
(* The owner thread *)

\* Mutant of Feed: rows below the screen are written.
FeedAnywhere(r, v) ==
  /\ Change
  /\ screen' = [screen EXCEPT ![r] = v]
  /\ dirty' = dirty \cup {r}
  /\ output_pending' = TRUE
  /\ UNCHANGED <<size, redraw_all, row_hashes, aside, resize_pending, attachments, seq,
                 queueVars, outboxVars, wireVars, appVars>>

\* Terminal output writes a row, and may move the cursor or change a mode.
Feed(r, v) ==
  /\ Change
  /\ r <= size
  /\ screen' = [screen EXCEPT ![r] = v]
  /\ dirty' = dirty \cup {r}
  /\ \E moved \in BOOLEAN : aside' = (aside \/ moved)
  /\ output_pending' = TRUE
  /\ UNCHANGED <<size, redraw_all, row_hashes, resize_pending, attachments, seq,
                 queueVars, outboxVars, wireVars, appVars>>

\* The ClearScreen input on the primary screen.
ClearScreen ==
  /\ Change
  /\ screen' = BlankRows
  /\ redraw_all' = TRUE
  /\ resize_pending' = TRUE /\ output_pending' = TRUE
  /\ UNCHANGED <<size, dirty, row_hashes, aside, attachments, seq,
                 queueVars, outboxVars, wireVars, appVars>>

\* Terminal::take_changed_rows, returning the rows of screen `s` with height `n`.
ChangedRows(s, n, all) ==
  [r \in Row |-> IF r <= n /\ (all \/ (r \in dirty /\ row_hashes[r] # s[r])) THEN s[r] ELSE NoRow]

TakeRows(s, all) ==
  /\ row_hashes' = [r \in Row |-> IF all \/ r \in dirty THEN s[r] ELSE row_hashes[r]]
  /\ dirty' = {}
  /\ redraw_all' = FALSE
  /\ aside' = FALSE

\* Mutant of PushFrames: a waiting frame is replaced instead of merged.
PushFramesReplaced(f, resized) ==
  frames' = [c \in Channel |->
    IF c \in attachments /\ credit[c] # "closed" THEN {[f EXCEPT !.seq = seq[c]]} ELSE frames[c]]

\* The outbox accepts a frame for every channel it still has: a resize's own
\* reply replaces the waiting frame, any other frame merges into it.
PushFrames(f, resized) ==
  frames' = [c \in Channel |->
    IF c \in attachments /\ credit[c] # "closed"
    THEN LET mine == [f EXCEPT !.seq = seq[c]]
         IN  IF c = resized \/ frames[c] = {} THEN {mine}
             ELSE {Merge(older, mine) : older \in frames[c]}
    ELSE frames[c]]

\* broadcast_frame, for a screen `s` of height `n`; `reset` is the resize_pending
\* it reads and `all` the redraw_all.  A sink that refuses its frame is dropped.
\* `joining` are the attachments its caller adds.
Broadcast(s, n, reset, all, resized, joining) ==
  LET f == [seq |-> 0, reset |-> reset, size |-> n, rows |-> ChangedRows(s, n, all)]
      nothing == ~reset /\ ~aside /\ \A r \in Row : ~Carries(f, r)
      sends == IF nothing THEN {} ELSE attachments
  IN  /\ IF attachments = {}
         THEN redraw_all' = all /\ UNCHANGED <<dirty, row_hashes, aside>>
         ELSE TakeRows(s, all)
      /\ IF nothing THEN UNCHANGED frames ELSE PushFrames(f, resized)
      /\ seq' = [c \in Channel |-> IF c \in joining THEN 1
                                   ELSE IF c \in sends THEN seq[c] + 1 ELSE seq[c]]
      /\ attachments' = (attachments \ {c \in sends : credit[c] = "closed"}) \cup joining

\* A tick outside synchronized output, or once that has lasted SYNC_TIMEOUT.
Tick ==
  /\ output_pending \/ resize_pending
  /\ Broadcast(screen, size, resize_pending, redraw_all, Nobody, {})
  /\ output_pending' = FALSE /\ resize_pending' = FALSE
  /\ UNCHANGED <<screen, size, queueVars, control, credit, sent, wireVars, appVars, changes>>

Snapshot(s, n) ==
  [seq |-> 0, reset |-> TRUE, size |-> n,
   rows |-> [r \in Row |-> IF r <= n THEN s[r] ELSE NoRow]]

\* An attachment stays only if its connection accepts the snapshot.
Joining(c) == IF credit[c] = "closed" THEN {} ELSE {c}

OfferSnapshot(c, s, n) ==
  /\ c \in attaching
  /\ attaching' = attaching \ {c}
  /\ control' = [control EXCEPT ![c] = IF Joining(c) = {} THEN @ ELSE {Snapshot(s, n)}]
  /\ output_pending' = FALSE /\ resize_pending' = FALSE
  /\ UNCHANGED <<asks, detaching, credit, sent, wireVars, appVars, changes>>

\* The Attach command that finds no attachment: it sets the session's height to
\* the app's `n`, and the changed rows are discarded because nobody has the rest.
AttachFirst(c, n) ==
  /\ attachments = {}
  /\ size' = n
  /\ IF n = size THEN screen' = screen ELSE screen' \in Screens(n)
  /\ TakeRows(screen', redraw_all \/ n # size)
  /\ attachments' = Joining(c)
  /\ seq' = [d \in Channel |-> IF d \in Joining(c) THEN 1 ELSE seq[d]]
  /\ UNCHANGED frames
  /\ OfferSnapshot(c, screen', n)

\* The Attach command beside others, which first receive what is pending.
AttachAnother(c) ==
  /\ attachments # {}
  /\ Broadcast(screen, size, resize_pending, redraw_all, Nobody, Joining(c))
  /\ UNCHANGED <<screen, size>>
  /\ OfferSnapshot(c, screen, size)

\* The ResizeAttachment command: the terminal reflows and everyone is redrawn.
ResizeAttachment(c) ==
  /\ asks[c] # <<>>
  /\ asks' = [asks EXCEPT ![c] = Tail(@)]
  /\ size' = Head(asks[c])
  /\ screen' \in Screens(size')
  /\ Broadcast(screen', size', TRUE, TRUE, c, {})
  /\ output_pending' = FALSE /\ resize_pending' = FALSE
  /\ UNCHANGED <<attaching, detaching, control, credit, sent, wireVars, appVars, changes>>

\* The Detach command, queued behind the channel's other commands.
OwnerDetach(c) ==
  /\ c \in detaching /\ c \notin attaching /\ asks[c] = <<>>
  /\ detaching' = detaching \ {c}
  /\ attachments' = attachments \ {c}
  /\ UNCHANGED <<screen, size, dirty, redraw_all, row_hashes, aside, output_pending,
                 resize_pending, seq, attaching, asks, outboxVars, wireVars, appVars, changes>>

-----------------------------------------------------------------------------
(* The connection: requests, the outbox and the writer thread *)

\* Connection::attach queues the command and opens the channel, in one step.
Attach(c) ==
  /\ view[c] = "none" /\ credit[c] = "closed" /\ c \notin attaching
  /\ attaching' = attaching \cup {c}
  /\ credit' = [credit EXCEPT ![c] = "ready"]
  /\ UNCHANGED <<ownerVars, asks, detaching, control, frames, sent, wireVars, appVars, changes>>

\* Inner::retire and Inner::close: the channel's output is dropped at once, the
\* owner hears of it through its queue.
CloseChannel(c) ==
  /\ credit[c] # "closed"
  /\ credit' = [credit EXCEPT ![c] = "closed"]
  /\ frames' = [frames EXCEPT ![c] = {}]
  /\ sent' = [sent EXCEPT ![c] = 0]
  /\ detaching' = detaching \cup {c}

\* The app's Detach request reaches the server, after its resizes.
Detach(c) ==
  /\ view[c] = "closed"
  /\ CloseChannel(c)
  /\ UNCHANGED <<ownerVars, attaching, asks, control, wireVars, appVars, changes>>

\* The connection is lost: what is under way in either direction is lost with it,
\* and so are the resizes the server had not read.
Disconnect(c) ==
  /\ CloseChannel(c)
  /\ view' = [view EXCEPT ![c] = "gone"]
  /\ \E read \in 0 .. Len(asks[c]) : asks' = [asks EXCEPT ![c] = SubSeq(@, 1, read)]
  /\ control' = [control EXCEPT ![c] = {}]
  /\ wire' = [wire EXCEPT ![c] = {}]
  /\ acks' = [acks EXCEPT ![c] = {}]
  /\ UNCHANGED <<ownerVars, attaching, grid, garbled, changes>>

\* Outbox::next_control.
WriteControl(c) ==
  /\ control[c] # {}
  /\ control' = [control EXCEPT ![c] = {}]
  /\ wire' = [wire EXCEPT ![c] = @ \cup control[c]]
  /\ UNCHANGED <<ownerVars, queueVars, frames, credit, sent, acks, appVars, changes>>

\* Mutants of WriteFrame: it does not wait for credit, or for control messages.
WriteFrameUncredited(c) ==
  /\ control[c] = {}
  /\ credit[c] # "closed"
  /\ \E f \in frames[c] :
       /\ wire' = [wire EXCEPT ![c] = @ \cup {f}]
       /\ sent' = [sent EXCEPT ![c] = f.seq]
  /\ frames' = [frames EXCEPT ![c] = {}]
  /\ credit' = [credit EXCEPT ![c] = "used"]
  /\ UNCHANGED <<ownerVars, queueVars, control, acks, appVars, changes>>

WriteFrameFirst(c) ==
  /\ credit[c] = "ready"
  /\ \E f \in frames[c] :
       /\ wire' = [wire EXCEPT ![c] = @ \cup {f}]
       /\ sent' = [sent EXCEPT ![c] = f.seq]
  /\ frames' = [frames EXCEPT ![c] = {}]
  /\ credit' = [credit EXCEPT ![c] = "used"]
  /\ UNCHANGED <<ownerVars, queueVars, control, acks, appVars, changes>>

\* Outbox::next_channel, which runs only when no control message waits.
WriteFrame(c) ==
  /\ control[c] = {}
  /\ credit[c] = "ready"
  /\ \E f \in frames[c] :
       /\ wire' = [wire EXCEPT ![c] = @ \cup {f}]
       /\ sent' = [sent EXCEPT ![c] = f.seq]
  /\ frames' = [frames EXCEPT ![c] = {}]
  /\ credit' = [credit EXCEPT ![c] = "used"]
  /\ UNCHANGED <<ownerVars, queueVars, control, acks, appVars, changes>>

\* Mutant of Ack: it expects the number of the next frame.
AckOfNext(c, n) ==
  /\ n \in acks[c]
  /\ acks' = [acks EXCEPT ![c] = @ \ {n}]
  /\ credit' = [credit EXCEPT ![c] = IF @ # "closed" /\ sent[c] + 1 = n THEN "ready" ELSE @]
  /\ UNCHANGED <<ownerVars, queueVars, control, frames, sent, wire, appVars, changes>>

\* Outbox::ack: an acknowledgement of any other frame, or of a channel that is
\* gone, changes nothing.
Ack(c, n) ==
  /\ n \in acks[c]
  /\ acks' = [acks EXCEPT ![c] = @ \ {n}]
  /\ credit' = [credit EXCEPT ![c] = IF @ # "closed" /\ sent[c] = n THEN "ready" ELSE @]
  /\ UNCHANGED <<ownerVars, queueVars, control, frames, sent, wire, appVars, changes>>

-----------------------------------------------------------------------------
(* The app *)

\* Messages arrive in the order they were written.
Oldest(c, f) == f \in wire[c] /\ \A g \in wire[c] : f.seq <= g.seq

Attached(c) ==
  /\ \E f \in wire[c] :
       /\ Oldest(c, f) /\ f.seq = 0
       /\ grid' = [grid EXCEPT ![c] = Receive(c, @, f)]
       /\ wire' = [wire EXCEPT ![c] = @ \ {f}]
  /\ view' = [view EXCEPT ![c] = "open"]
  /\ UNCHANGED <<ownerVars, queueVars, outboxVars, acks, garbled, changes>>

\* A frame of an open view is applied and acknowledged; of a closed one only
\* acknowledged; of a channel the app does not know it is dropped.
ReceiveFrame(c) ==
  /\ \E f \in wire[c] :
       /\ Oldest(c, f) /\ f.seq # 0
       /\ wire' = [wire EXCEPT ![c] = @ \ {f}]
       /\ acks' = [acks EXCEPT ![c] = IF view[c] = "none" THEN @ ELSE @ \cup {f.seq}]
       /\ IF view[c] = "open"
          THEN /\ grid' = [grid EXCEPT ![c] = Receive(c, @, f)]
               /\ garbled' = [garbled EXCEPT ![c] = IF f.reset THEN "no" ELSE @]
          ELSE UNCHANGED <<grid, garbled>>
  /\ UNCHANGED <<ownerVars, queueVars, outboxVars, view, changes>>

\* The app fits its grid to a new height and asks the session to follow.
Resize(c, n) ==
  /\ Change
  /\ view[c] = "open"
  /\ Len(asks[c]) < MaxAsks
  /\ grid' = [grid EXCEPT ![c] = BlankGrid(n)]
  /\ asks' = [asks EXCEPT ![c] = Append(@, n)]
  /\ garbled' = [garbled EXCEPT ![c] = "asked"]
  /\ UNCHANGED <<ownerVars, attaching, detaching, outboxVars, wireVars, view>>

\* The same when the server refuses the request because its queue is full.
RefusedResize(c, n) ==
  /\ Change
  /\ view[c] = "open"
  /\ grid' = [grid EXCEPT ![c] = BlankGrid(n)]
  /\ garbled' = [garbled EXCEPT ![c] = "refused"]
  /\ UNCHANGED <<ownerVars, queueVars, outboxVars, wireVars, view>>

\* The app drops its view first and then sends Detach.
CloseView(c) ==
  /\ view[c] = "open"
  /\ view' = [view EXCEPT ![c] = "closed"]
  /\ UNCHANGED <<ownerVars, queueVars, outboxVars, wireVars, grid, garbled, changes>>

-----------------------------------------------------------------------------
Owner ==
  \/ \E r \in Row, v \in Cell : Feed(r, v)
  \/ ClearScreen
  \/ Tick
  \/ \E c \in Channel, n \in Size : AttachFirst(c, n)
  \/ \E c \in Channel : AttachAnother(c) \/ ResizeAttachment(c) \/ OwnerDetach(c)

Server ==
  \E c \in Channel :
    \/ Attach(c) \/ Detach(c) \/ Disconnect(c) \/ WriteControl(c) \/ WriteFrame(c)
    \/ \E n \in acks[c] : Ack(c, n)

App ==
  \E c \in Channel :
    \/ Attached(c) \/ ReceiveFrame(c) \/ CloseView(c)
    \/ \E n \in Size : Resize(c, n) \/ RefusedResize(c, n)

Next == Owner \/ Server \/ App

Spec == Init /\ [][Next]_vars

\* The owner always takes its next command and its next tick, the writer thread
\* is woken for every message it may send, and apps read and acknowledge what
\* arrives.  Nothing makes a program write, or an app attach, resize or leave.
Fairness ==
  /\ WF_vars(Tick)
  /\ \A c \in Channel :
       /\ WF_vars(\E n \in Size : AttachFirst(c, n))
       /\ WF_vars(AttachAnother(c)) /\ WF_vars(ResizeAttachment(c)) /\ WF_vars(OwnerDetach(c))
       /\ WF_vars(Detach(c))
       /\ WF_vars(WriteControl(c)) /\ WF_vars(WriteFrame(c))
       /\ WF_vars(\E n \in acks[c] : Ack(c, n))
       /\ WF_vars(Attached(c)) /\ WF_vars(ReceiveFrame(c))

FairSpec == Spec /\ Fairness

-----------------------------------------------------------------------------
(* Properties *)

\* Type invariant.
TypeOK ==
  /\ size \in Size /\ screen \in Screens(size)
  /\ row_hashes \in [Row -> Cell] /\ dirty \subseteq Row
  /\ redraw_all \in BOOLEAN /\ aside \in BOOLEAN
  /\ output_pending \in BOOLEAN /\ resize_pending \in BOOLEAN
  /\ attachments \subseteq Channel /\ seq \in [Channel -> Nat]
  /\ attaching \subseteq Channel /\ detaching \subseteq Channel
  /\ asks \in [Channel -> Seq(Size)]
  /\ control \in [Channel -> SUBSET Frame] /\ frames \in [Channel -> SUBSET Frame]
  /\ credit \in [Channel -> {"closed", "ready", "used"}] /\ sent \in [Channel -> Nat]
  /\ wire \in [Channel -> SUBSET Frame] /\ acks \in [Channel -> SUBSET Nat]
  /\ view \in [Channel -> {"none", "open", "closed", "gone"}]
  /\ grid \in [Channel -> Grid]
  /\ garbled \in [Channel -> {"no", "asked", "refused"}]
  /\ changes \in 0 .. MaxChanges

Open(c) == credit[c] # "closed"

\* The snapshot on its way to the app, and the frames on the wire.
Snapshots(c) == control[c] \cup {f \in wire[c] : f.seq = 0}
InFlight(c)  == {f \in wire[c] : f.seq # 0}

\* "Each attached session has at most one frame in flight to each app"
\* (docs/tech/protocol.md), and a channel that may not send is waiting for a
\* frame or an acknowledgement that really is under way: credit is never spent
\* twice and never lost.
FlowControl ==
  \A c \in Channel : Open(c) =>
    \/ credit[c] = "ready" /\ InFlight(c) = {} /\ acks[c] = {}
    \/ credit[c] = "used" /\ acks[c] = {sent[c]} /\ InFlight(c) = {}
    \/ credit[c] = "used" /\ acks[c] = {} /\ \E f \in InFlight(c) : InFlight(c) = {f} /\ f.seq = sent[c]

\* No frame reaches an app before the Attached reply that makes it know the
\* channel: it would be dropped without an acknowledgement and the channel
\* would never send again.
AttachedFirst ==
  \A c \in Channel : InFlight(c) # {} /\ view[c] = "none" => \E f \in wire[c] : f.seq = 0

\* What an app shows once it has received `held`, at most one message.
After(c, g, held) == IF held = {} THEN g ELSE Receive(c, g, CHOOSE f \in held : TRUE)

\* What an app will show once it has received everything under way and waiting.
Upcoming(c) == After(c, After(c, After(c, grid[c], Snapshots(c)), InFlight(c)), frames[c])

Listening(c) == Open(c) /\ c \in attachments /\ view[c] \in {"none", "open"}

\* The app's grid is its own guess at a new size until a redraw replaces it.
Redrawn(c) ==
  \/ garbled[c] = "no"
  \/ \E f \in InFlight(c) \cup frames[c] : f.reset

\* However frames were merged, replaced and delayed, an app that receives all
\* that is under way shows every row as the owner last took it, in a grid with
\* room for all of them; except between a redraw request and its frame.
RowsArrive ==
  \A c \in Channel : Listening(c) /\ Redrawn(c) /\ ~redraw_all =>
    /\ Upcoming(c).rows = row_hashes
    /\ \A r \in Row : r <= size => r \in Upcoming(c).has

\* An app that resized its own grid is redrawn: a full frame is under way, or the
\* owner still has its request.
RedrawComes ==
  \A c \in Channel : Listening(c) /\ garbled[c] = "asked" /\ ~Redrawn(c) => asks[c] # <<>>

NothingMissing == RowsArrive /\ RedrawComes

Settled(c) == view[c] = "open" /\ Open(c) /\ garbled[c] # "refused"

\* Once the program is quiet and nobody resizes, every app that stays attached
\* ends up showing the session's screen, and keeps showing it.
Converges == <>[](\A c \in Channel : Settled(c) => grid[c].rows = screen)
=============================================================================
