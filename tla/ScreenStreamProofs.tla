-------------------------- MODULE ScreenStreamProofs --------------------------
(***************************************************************************)
(* Proofs about ScreenStream, for every number of channels, rows, cell     *)
(* values and changes: flow control, the opening order, that no row is     *)
(* missing, and that the stream implements ScreenMirror.                   *)
(***************************************************************************)
EXTENDS ScreenStreamRefinement, TLAPS

(* The life of a channel across the connection, the owner's queue and the wire. *)

\* A channel that was never opened has nothing anywhere.
Unopened(c) == view[c] = "none" /\ ~Open(c)

Fresh ==
  \A c \in Channel : Unopened(c) =>
    /\ control[c] = {} /\ wire[c] = {} /\ acks[c] = {}
    /\ c \notin attaching /\ c \notin detaching /\ c \notin attachments

\* The Attach command of a channel comes before all its output.
Queued ==
  \A c \in attaching :
    /\ c \notin attachments /\ view[c] \in {"none", "gone"}
    /\ control[c] = {} /\ wire[c] = {} /\ frames[c] = {}

\* An open channel is in the owner's list or about to be, and is not leaving.
Served ==
  \A c \in Channel : Open(c) => c \notin detaching /\ (c \in attaching \/ c \in attachments)

\* A reply queued or written is a snapshot; a frame waiting is not, and only an
\* open channel has one.
Lanes ==
  \A c \in Channel :
    /\ \A f \in control[c] : f.seq = 0
    /\ \A f \in frames[c] : f.seq # 0
    /\ frames[c] # {} => Open(c)
    /\ c \in attachments => seq[c] # 0

\* The app of an open channel knows it, or its snapshot is on its way, once.
Announced ==
  \A c \in Channel :
    /\ Open(c) /\ c \in attachments /\ view[c] = "none" => Snapshots(c) # {}
    /\ view[c] # "none" => Snapshots(c) = {}
    /\ control[c] # {} => wire[c] = {}
    /\ \A f, g \in Snapshots(c) : f = g
    /\ view[c] = "gone" => ~Open(c) /\ wire[c] = {} /\ acks[c] = {}

Life == Fresh /\ Queued /\ Served /\ Lanes /\ Announced

FlowInv == TypeOK /\ Life /\ FlowControl /\ AttachedFirst
-----------------------------------------------------------------------------
(* Types *)

LEMMA MergeType ==
  ASSUME NEW older \in Frame, NEW newer \in Frame
  PROVE  Merge(older, newer) \in Frame
BY ConstantsAssumption DEF Merge, Frame, Carries, Size, Row

LEMMA BlankGridType ==
  ASSUME NEW n \in 0 .. MaxRows
  PROVE  BlankGrid(n) \in Grid
BY ConstantsAssumption DEF BlankGrid, BlankRows, Grid, Row

LEMMA ReceiveType ==
  ASSUME NEW c, NEW g \in Grid, NEW f \in Frame
  PROVE  Receive(c, g, f) \in Grid
<1>1. f.size \in 0 .. MaxRows /\ f.reset \in BOOLEAN
  BY ConstantsAssumption DEF Frame, Size
<1>2. BlankGrid(f.size) \in Grid
  BY <1>1, BlankGridType
<1>3. ASSUME NEW h \in Grid PROVE ReplaceRows(h, f) \in Grid
  BY ConstantsAssumption DEF ReplaceRows, Carries, Grid, Frame
<1>4. ASSUME NEW h \in Grid PROVE ResetGrid(h, f) \in Grid
  BY ConstantsAssumption DEF ResetGrid, BlankRows, Grid, Row
<1>5. Apply(c, g, f) \in Grid
  BY <1>2, <1>3, <1>4 DEF Apply
<1>6. QED
  BY <1>2, <1>3, <1>5 DEF Receive

\* A broadcast gives each accepted channel at most a frame of the right type.
LEMMA PushType ==
  ASSUME TypeOK, NEW f \in Frame, NEW resized, PushFrames(f, resized)
  PROVE  frames' \in [Channel -> SUBSET Frame]
<1> SUFFICES ASSUME NEW c \in Channel, c \in attachments, credit[c] # "closed"
             PROVE  LET mine == [f EXCEPT !.seq = seq[c]]
                    IN  (IF c = resized \/ frames[c] = {} THEN {mine}
                         ELSE {Merge(older, mine) : older \in frames[c]}) \subseteq Frame
  BY DEF PushFrames, TypeOK
<1> DEFINE mine == [f EXCEPT !.seq = seq[c]]
<1>1. mine \in Frame
  BY DEF TypeOK, Frame
<1>2. \A older \in frames[c] : Merge(older, mine) \in Frame
  BY <1>1, MergeType DEF TypeOK
<1>3. QED
  BY <1>1, <1>2

LEMMA TypeInit == Init => TypeOK
<1> SUFFICES ASSUME Init PROVE TypeOK
  OBVIOUS
<1>1. BlankRows \in Screens(size) /\ BlankRows \in [Row -> Cell]
  BY ConstantsAssumption DEF BlankRows, Screens
<1>2. BlankGrid(0) \in Grid
  BY ConstantsAssumption, BlankGridType
<1>3. size \in Size /\ screen \in Screens(size) /\ row_hashes \in [Row -> Cell]
  BY <1>1 DEF Init
<1>4. asks \in [Channel -> Seq(Size)]
  BY DEF Init
<1>5. grid \in [Channel -> Grid]
  BY <1>2 DEF Init
<1>6. changes \in 0 .. MaxChanges
  BY ConstantsAssumption DEF Init
<1>7. QED
  BY <1>3, <1>4, <1>5, <1>6 DEF Init, TypeOK

LEMMA ScreenType ==
  ASSUME NEW n \in Size, NEW s \in Screens(n)
  PROVE  /\ s \in [Row -> Cell]
         /\ \A all, r \in Row : ChangedRows(s, n, all)[r] \in Cell \cup {NoRow}
         /\ Snapshot(s, n) \in Frame
BY ConstantsAssumption DEF Screens, ChangedRows, Snapshot, Frame, Row, Size

LEMMA BroadcastType ==
  ASSUME TypeOK, NEW n \in Size, NEW s \in Screens(n), NEW reset \in BOOLEAN, NEW all \in BOOLEAN,
         NEW resized, NEW joining \in SUBSET Channel,
         Broadcast(s, n, reset, all, resized, joining)
  PROVE  /\ row_hashes' \in [Row -> Cell] /\ dirty' \subseteq Row
         /\ redraw_all' \in BOOLEAN /\ aside' \in BOOLEAN
         /\ attachments' \subseteq Channel /\ seq' \in [Channel -> Nat]
         /\ frames' \in [Channel -> SUBSET Frame]
<1> DEFINE f == [seq |-> 0, reset |-> reset, size |-> n, rows |-> ChangedRows(s, n, all)]
<1>1. f \in Frame
  BY ConstantsAssumption DEF Frame, Screens, ChangedRows, Row, Size
<1>2. frames' \in [Channel -> SUBSET Frame]
  <2>1. frames' = frames \/ PushFrames(f, resized)
    BY DEF Broadcast
  <2>2. QED
    BY <1>1, <2>1, PushType DEF TypeOK
<1>3. row_hashes' \in [Row -> Cell] /\ dirty' \subseteq Row
  <2>1. s \in [Row -> Cell]
    BY DEF Screens
  <2>2. QED
    BY <2>1 DEF Broadcast, TakeRows, TypeOK
<1>4. redraw_all' \in BOOLEAN /\ aside' \in BOOLEAN
  BY DEF Broadcast, TakeRows, TypeOK
<1>5. attachments' \subseteq Channel
  BY DEF Broadcast, TypeOK
<1>6. seq' \in [Channel -> Nat]
  BY DEF Broadcast, TypeOK
<1>7. QED
  BY <1>2, <1>3, <1>4, <1>5, <1>6

LEMMA TypeNext == TypeOK /\ [Next]_vars => TypeOK'
<1> SUFFICES ASSUME TypeOK, [Next]_vars PROVE TypeOK'
  OBVIOUS
<1> USE ConstantsAssumption
<1>1. ASSUME NEW r \in Row, NEW v \in Cell, Feed(r, v) PROVE TypeOK'
  <2>1. screen' \in Screens(size')
    BY <1>1 DEF Feed, TypeOK, Screens, Row, Size
  <2>2. changes' \in 0 .. MaxChanges
    BY <1>1 DEF Feed, Change, TypeOK
  <2>3. QED
    BY <1>1, <2>1, <2>2 DEF Feed, TypeOK, queueVars, outboxVars, wireVars, appVars
<1>2. CASE ClearScreen
  <2>1. screen' \in Screens(size')
    BY <1>2 DEF ClearScreen, BlankRows, TypeOK, Screens
  <2>2. changes' \in 0 .. MaxChanges
    BY <1>2 DEF ClearScreen, Change, TypeOK
  <2>3. QED
    BY <1>2, <2>1, <2>2 DEF ClearScreen, TypeOK, queueVars, outboxVars, wireVars, appVars
<1>3. CASE Tick
  <2>1. Broadcast(screen, size, resize_pending, redraw_all, Nobody, {})
    BY <1>3 DEF Tick
  <2>2. size \in Size /\ screen \in Screens(size) /\ resize_pending \in BOOLEAN
        /\ redraw_all \in BOOLEAN
    BY DEF TypeOK
  <2>3. row_hashes' \in [Row -> Cell] /\ dirty' \subseteq Row /\ redraw_all' \in BOOLEAN
        /\ aside' \in BOOLEAN /\ attachments' \subseteq Channel /\ seq' \in [Channel -> Nat]
        /\ frames' \in [Channel -> SUBSET Frame]
    BY <2>1, <2>2, BroadcastType
  <2>4. QED
    BY <1>3, <2>3 DEF Tick, TypeOK, queueVars, wireVars, appVars
<1>4. ASSUME NEW c \in Channel, NEW n \in Size, AttachFirst(c, n) PROVE TypeOK'
  <2>1. size' \in Size /\ screen' \in Screens(size')
    BY <1>4 DEF AttachFirst, TypeOK
  <2>2. Snapshot(screen', size') \in Frame
    BY <2>1, ScreenType
  <2>3. control' \in [Channel -> SUBSET Frame]
    BY <1>4, <2>2 DEF AttachFirst, OfferSnapshot, TypeOK
  <2>4. row_hashes' \in [Row -> Cell] /\ dirty' \subseteq Row /\ redraw_all' \in BOOLEAN
        /\ aside' \in BOOLEAN
    BY <1>4, <2>1 DEF AttachFirst, TakeRows, TypeOK, Screens
  <2>5. attachments' \subseteq Channel /\ seq' \in [Channel -> Nat] /\ attaching' \subseteq Channel
    BY <1>4 DEF AttachFirst, OfferSnapshot, Joining, TypeOK
  <2>6. QED
    BY <1>4, <2>1, <2>3, <2>4, <2>5 DEF AttachFirst, OfferSnapshot, TypeOK, wireVars, appVars
<1>5. ASSUME NEW c \in Channel, AttachAnother(c) PROVE TypeOK'
  <2>1. Broadcast(screen, size, resize_pending, redraw_all, Nobody, Joining(c))
    BY <1>5 DEF AttachAnother
  <2>2. size \in Size /\ screen \in Screens(size) /\ resize_pending \in BOOLEAN
        /\ redraw_all \in BOOLEAN /\ Joining(c) \in SUBSET Channel
    BY DEF TypeOK, Joining
  <2>3. Snapshot(screen, size) \in Frame
    BY <2>2, ScreenType
  <2>4. control' \in [Channel -> SUBSET Frame] /\ attaching' \subseteq Channel
    BY <1>5, <2>3 DEF AttachAnother, OfferSnapshot, TypeOK
  <2>5. row_hashes' \in [Row -> Cell] /\ dirty' \subseteq Row /\ redraw_all' \in BOOLEAN
        /\ aside' \in BOOLEAN /\ attachments' \subseteq Channel /\ seq' \in [Channel -> Nat]
        /\ frames' \in [Channel -> SUBSET Frame]
    BY <2>1, <2>2, BroadcastType
  <2>6. QED
    BY <1>5, <2>4, <2>5
    DEF AttachAnother, OfferSnapshot, TypeOK, wireVars, appVars
<1>6. ASSUME NEW c \in Channel, ResizeAttachment(c) PROVE TypeOK'
  <2>1. asks[c] \in Seq(Size) /\ asks[c] # <<>>
    BY <1>6 DEF ResizeAttachment, TypeOK
  <2>2. Head(asks[c]) \in Size /\ Tail(asks[c]) \in Seq(Size)
    BY <2>1
  <2>3. size' \in Size /\ screen' \in Screens(size') /\ asks' \in [Channel -> Seq(Size)]
    BY <1>6, <2>2 DEF ResizeAttachment, TypeOK
  <2>4. Broadcast(screen', size', TRUE, TRUE, c, {})
    BY <1>6 DEF ResizeAttachment
  <2>5. row_hashes' \in [Row -> Cell] /\ dirty' \subseteq Row /\ redraw_all' \in BOOLEAN
        /\ aside' \in BOOLEAN /\ attachments' \subseteq Channel /\ seq' \in [Channel -> Nat]
        /\ frames' \in [Channel -> SUBSET Frame]
    <3>1. PICK n \in Size : n = size'
      BY <2>3
    <3>2. PICK s \in Screens(n) : s = screen'
      BY <2>3, <3>1
    <3>3. Broadcast(s, n, TRUE, TRUE, c, {})
      BY <2>4, <3>1, <3>2
    <3>4. TRUE \in BOOLEAN /\ {} \in SUBSET Channel
      OBVIOUS
    <3>5. QED
      BY <3>3, <3>4, BroadcastType, ZenonT(30)
  <2>6. QED
    BY <1>6, <2>3, <2>5 DEF ResizeAttachment, TypeOK, wireVars, appVars
<1>7. ASSUME NEW c \in Channel, OwnerDetach(c) PROVE TypeOK'
  BY <1>7 DEF OwnerDetach, TypeOK, outboxVars, wireVars, appVars
<1>8. ASSUME NEW c \in Channel, Attach(c) PROVE TypeOK'
  BY <1>8 DEF Attach, TypeOK, ownerVars, wireVars, appVars
<1>9. ASSUME NEW c \in Channel, Detach(c) PROVE TypeOK'
  BY <1>9 DEF Detach, CloseChannel, TypeOK, ownerVars, wireVars, appVars
<1>10. ASSUME NEW c \in Channel, Disconnect(c) PROVE TypeOK'
  <2>1. \A read \in 0 .. Len(asks[c]) : SubSeq(asks[c], 1, read) \in Seq(Size)
    <3> TAKE read \in 0 .. Len(asks[c])
    <3>1. asks[c] \in Seq(Size)
      BY DEF TypeOK
    <3>2. \A i \in 1 .. read : asks[c][i] \in Size
      BY <3>1
    <3>3. QED
      BY <3>1, <3>2
  <2>2. asks' \in [Channel -> Seq(Size)]
    BY <1>10, <2>1 DEF Disconnect, TypeOK
  <2>3. QED
    BY <1>10, <2>2 DEF Disconnect, CloseChannel, TypeOK, ownerVars
<1>11. ASSUME NEW c \in Channel, WriteControl(c) PROVE TypeOK'
  BY <1>11 DEF WriteControl, TypeOK, ownerVars, queueVars, appVars
<1>12. ASSUME NEW c \in Channel, WriteFrame(c) PROVE TypeOK'
  <2>1. \A f \in frames[c] : f \in Frame /\ f.seq \in Nat
    BY DEF TypeOK, Frame
  <2>2. PICK f \in frames[c] : /\ wire' = [wire EXCEPT ![c] = @ \cup {f}]
                              /\ sent' = [sent EXCEPT ![c] = f.seq]
    BY <1>12 DEF WriteFrame
  <2>3. wire' \in [Channel -> SUBSET Frame] /\ sent' \in [Channel -> Nat]
    BY <2>1, <2>2 DEF TypeOK
  <2>4. frames' \in [Channel -> SUBSET Frame] /\ credit' \in [Channel -> {"closed", "ready", "used"}]
    BY <1>12 DEF WriteFrame, TypeOK
  <2>5. QED
    BY <1>12, <2>3, <2>4 DEF WriteFrame, TypeOK, ownerVars, queueVars, appVars
<1>13. ASSUME NEW c \in Channel, NEW n \in acks[c], Ack(c, n) PROVE TypeOK'
  BY <1>13 DEF Ack, TypeOK, ownerVars, queueVars, appVars
<1>14. ASSUME NEW c \in Channel, Attached(c) PROVE TypeOK'
  <2>1. \A f \in wire[c] : Receive(c, grid[c], f) \in Grid
    BY ReceiveType DEF TypeOK
  <2>2. PICK f \in wire[c] : /\ grid' = [grid EXCEPT ![c] = Receive(c, @, f)]
                            /\ wire' = [wire EXCEPT ![c] = @ \ {f}]
    BY <1>14 DEF Attached
  <2>3. grid' \in [Channel -> Grid] /\ wire' \in [Channel -> SUBSET Frame]
    BY <2>1, <2>2 DEF TypeOK
  <2>4. view' \in [Channel -> {"none", "open", "closed", "gone"}]
    BY <1>14 DEF Attached, TypeOK
  <2>5. QED
    BY <1>14, <2>3, <2>4 DEF Attached, TypeOK, ownerVars, queueVars, outboxVars
<1>15. ASSUME NEW c \in Channel, ReceiveFrame(c) PROVE TypeOK'
  <2>1. \A f \in wire[c] : Receive(c, grid[c], f) \in Grid /\ f.seq \in Nat
    BY ReceiveType DEF TypeOK, Frame
  <2>2. PICK f \in wire[c] :
          /\ wire' = [wire EXCEPT ![c] = @ \ {f}]
          /\ acks' = [acks EXCEPT ![c] = IF view[c] = "none" THEN @ ELSE @ \cup {f.seq}]
          /\ \/ /\ grid' = [grid EXCEPT ![c] = Receive(c, @, f)]
                /\ garbled' = [garbled EXCEPT ![c] = IF f.reset THEN "no" ELSE @]
             \/ UNCHANGED <<grid, garbled>>
    BY <1>15 DEF ReceiveFrame
  <2>3. wire' \in [Channel -> SUBSET Frame] /\ acks' \in [Channel -> SUBSET Nat]
    BY <2>1, <2>2 DEF TypeOK
  <2>4. grid' \in [Channel -> Grid]
        /\ garbled' \in [Channel -> {"no", "asked", "refused"}]
    <3>1. CASE UNCHANGED <<grid, garbled>>
      BY <3>1 DEF TypeOK
    <3>2. CASE /\ grid' = [grid EXCEPT ![c] = Receive(c, @, f)]
               /\ garbled' = [garbled EXCEPT ![c] = IF f.reset THEN "no" ELSE @]
      <4>1. grid' \in [Channel -> Grid]
        BY <2>1, <3>2 DEF TypeOK
      <4>3. garbled' \in [Channel -> {"no", "asked", "refused"}]
        BY <3>2 DEF TypeOK
      <4>4. QED
        BY <4>1, <4>3
    <3>3. QED
      BY <2>2, <3>1, <3>2
  <2>5. QED
    BY <1>15, <2>3, <2>4 DEF ReceiveFrame, TypeOK, ownerVars, queueVars, outboxVars
<1>16. ASSUME NEW c \in Channel, CloseView(c) PROVE TypeOK'
  BY <1>16 DEF CloseView, TypeOK, ownerVars, queueVars, outboxVars, wireVars
<1>17. ASSUME NEW c \in Channel, NEW n \in Size, Resize(c, n) PROVE TypeOK'
  <2>1. BlankGrid(n) \in Grid
    BY BlankGridType DEF Size
  <2>2. changes' \in 0 .. MaxChanges
    BY <1>17 DEF Resize, Change, TypeOK
  <2>3. asks' \in [Channel -> Seq(Size)]
    BY <1>17 DEF Resize, TypeOK
  <2>4. QED
    BY <1>17, <2>1, <2>2, <2>3 DEF Resize, TypeOK, ownerVars, outboxVars, wireVars
<1>18. ASSUME NEW c \in Channel, NEW n \in Size, RefusedResize(c, n) PROVE TypeOK'
  <2>1. BlankGrid(n) \in Grid
    BY BlankGridType DEF Size
  <2>2. changes' \in 0 .. MaxChanges
    BY <1>18 DEF RefusedResize, Change, TypeOK
  <2>3. QED
    BY <1>18, <2>1, <2>2 DEF RefusedResize, TypeOK, ownerVars, queueVars, outboxVars, wireVars
<1>19. CASE UNCHANGED vars
  BY <1>19 DEF vars, TypeOK, ownerVars, queueVars, outboxVars, wireVars, appVars
<1>20. QED
  BY <1>1, <1>2, <1>3, <1>4, <1>5, <1>6, <1>7, <1>8, <1>9, <1>10, <1>11, <1>12, <1>13, <1>14,
     <1>15, <1>16, <1>17, <1>18, <1>19 DEF Next, Owner, Server, App

\* Every variable keeps its type.
THEOREM TypeCorrect == Spec => []TypeOK
BY TypeInit, TypeNext, PTL DEF Spec

-----------------------------------------------------------------------------
(* Flow control *)

\* What a step of the owner may do to a channel: take its Attach command, list
\* it and queue its snapshot, or leave a frame for it, and nothing else.
Taken(c) == c \in attaching /\ c \notin attaching' /\ Open(c)

OwnerStep ==
  /\ UNCHANGED <<credit, sent, wire, acks, view>>
  /\ attaching' \subseteq attaching /\ detaching' \subseteq detaching
  /\ \A c \in Channel :
       /\ \/ control'[c] = control[c] /\ ~Taken(c)
          \/ Taken(c) /\ c \in attachments' /\ \E f : f.seq = 0 /\ control'[c] = {f}
       /\ c \in attachments' => seq'[c] # 0 /\ (c \in attachments \/ Taken(c))
       /\ Open(c) /\ c \in attachments => c \in attachments'
       /\ \/ frames'[c] = frames[c]
          \/ c \in attachments /\ Open(c) /\ \A f \in frames'[c] : f.seq # 0

LEMMA OwnerKeepsFlow ==
  ASSUME FlowInv, OwnerStep
  PROVE  Life' /\ FlowControl' /\ AttachedFirst'
<1> USE DEF FlowInv, Life, OwnerStep, Open
<1>1. Fresh'
  BY DEF Fresh, Unopened, Taken
<1>2. Queued'
  <2>1. attaching \subseteq Channel
    BY DEF TypeOK
  <2>2. QED
    BY <2>1 DEF Queued, Taken
<1>3. Served'
  BY DEF Served, Taken
<1>4. Lanes'
  BY DEF Lanes
<1>5. Announced'
  BY DEF Announced, Snapshots, Queued, Taken
<1>6. FlowControl'
  BY DEF FlowControl, InFlight
<1>7. AttachedFirst'
  BY DEF AttachedFirst, InFlight
<1>8. QED
  BY <1>1, <1>2, <1>3, <1>4, <1>5, <1>6, <1>7

LEMMA BroadcastFlow ==
  ASSUME FlowInv, NEW n, NEW s, NEW reset, NEW all, NEW resized, NEW joining,
         Broadcast(s, n, reset, all, resized, joining), NEW c \in Channel
  PROVE  /\ c \in attachments' => seq'[c] # 0 /\ (c \in attachments \/ c \in joining)
         /\ c \in joining => c \in attachments'
         /\ Open(c) /\ c \in attachments => c \in attachments'
         /\ \/ frames'[c] = frames[c]
            \/ c \in attachments /\ Open(c) /\ \A f \in frames'[c] : f.seq # 0
<1>1. c \in attachments => seq[c] # 0
  BY DEF FlowInv, Life, Lanes
<1>2. seq[c] \in Nat
  BY DEF FlowInv, TypeOK
<1>3. c \in attachments' => seq'[c] # 0 /\ (c \in attachments \/ c \in joining)
  BY <1>1, <1>2 DEF Broadcast
<1>4. /\ c \in joining => c \in attachments'
      /\ Open(c) /\ c \in attachments => c \in attachments'
  BY DEF Broadcast, Open
<1>5. \/ frames'[c] = frames[c]
      \/ c \in attachments /\ Open(c) /\ \A f \in frames'[c] : f.seq # 0
  <2> DEFINE g == [seq |-> 0, reset |-> reset, size |-> n, rows |-> ChangedRows(s, n, all)]
             mine == [g EXCEPT !.seq = seq[c]]
  <2>1. frames' = frames \/ PushFrames(g, resized)
    BY DEF Broadcast
  <2>2. CASE PushFrames(g, resized) /\ c \in attachments /\ credit[c] # "closed"
    <3>1. frames'[c] = IF c = resized \/ frames[c] = {} THEN {mine}
                       ELSE {Merge(older, mine) : older \in frames[c]}
      BY <2>2 DEF PushFrames
    <3>2. mine.seq = seq[c]
      OBVIOUS
    <3>3. \A older \in frames[c] : Merge(older, mine).seq = seq[c]
      <4> TAKE older \in frames[c]
      <4>1. older \in Frame
        BY DEF FlowInv, TypeOK
      <4>2. QED
        BY <3>2, <4>1 DEF Merge, Frame
    <3>4. QED
      BY <1>1, <2>2, <3>1, <3>2, <3>3 DEF Open
  <2>3. CASE PushFrames(g, resized) /\ ~(c \in attachments /\ credit[c] # "closed")
    BY <2>3 DEF PushFrames
  <2>4. QED
    BY <2>1, <2>2, <2>3
<1>6. QED
  BY <1>3, <1>4, <1>5


LEMMA FlowInit == Init => FlowInv
<1> SUFFICES ASSUME Init PROVE FlowInv
  OBVIOUS
<1>1. TypeOK
  BY TypeInit
<1>2. QED
  BY <1>1 DEF Init, FlowInv, Life, Fresh, Unopened, Queued, Served, Lanes, Announced, FlowControl,
            AttachedFirst, Open, Snapshots, InFlight

\* Every step of the owner is an OwnerStep.
LEMMA OwnerSteps ==
  ASSUME FlowInv, Owner
  PROVE  OwnerStep
<1> USE DEF FlowInv, Life
<1>1. ASSUME NEW r \in Row, NEW v \in Cell, Feed(r, v) PROVE OwnerStep
  BY <1>1 DEF Feed, OwnerStep, Lanes, Taken, queueVars, outboxVars, wireVars, appVars
<1>2. CASE ClearScreen
  BY <1>2 DEF ClearScreen, OwnerStep, Lanes, Taken, queueVars, outboxVars, wireVars, appVars
<1>3. CASE Tick
  <2>1. Broadcast(screen, size, resize_pending, redraw_all, Nobody, {})
    BY <1>3 DEF Tick
  <2>2. QED
    BY <1>3, <2>1, BroadcastFlow DEF Tick, OwnerStep, Taken, queueVars, wireVars, appVars
<1>4. ASSUME NEW c \in Channel, NEW n \in Size, AttachFirst(c, n) PROVE OwnerStep
  <2>1. Snapshot(screen', n).seq = 0
    BY DEF Snapshot
  <2>2. Taken(c) <=> Joining(c) # {}
    BY <1>4 DEF AttachFirst, OfferSnapshot, Taken, Joining, Open
  <2>3. \A d \in Channel : d # c => ~Taken(d)
    BY <1>4 DEF AttachFirst, OfferSnapshot, Taken
  <2>4. \A d \in Channel : \/ control'[d] = control[d] /\ ~Taken(d)
                           \/ Taken(d) /\ d \in attachments' /\ \E f : f.seq = 0 /\ control'[d] = {f}
    BY <1>4, <2>1, <2>2, <2>3 DEF AttachFirst, OfferSnapshot, TypeOK, Joining
  <2>5. \A d \in Channel : /\ d \in attachments' => seq'[d] # 0 /\ Taken(d)
                           /\ d \notin attachments
    BY <1>4, <2>2 DEF AttachFirst, Joining
  <2>6. QED
    BY <1>4, <2>4, <2>5 DEF AttachFirst, OfferSnapshot, OwnerStep, wireVars, appVars
<1>5. ASSUME NEW c \in Channel, AttachAnother(c) PROVE OwnerStep
  <2>1. Broadcast(screen, size, resize_pending, redraw_all, Nobody, Joining(c))
    BY <1>5 DEF AttachAnother
  <2>2. Snapshot(screen, size).seq = 0
    BY DEF Snapshot
  <2>3. Taken(c) <=> Joining(c) # {}
    BY <1>5 DEF AttachAnother, OfferSnapshot, Taken, Joining, Open
  <2>4. \A d \in Channel : d \in Joining(c) <=> Taken(d)
    BY <1>5, <2>3 DEF AttachAnother, OfferSnapshot, Taken, Joining
  <2>5. \A d \in Channel : \/ control'[d] = control[d] /\ ~Taken(d)
                           \/ Taken(d) /\ \E f : f.seq = 0 /\ control'[d] = {f}
    BY <1>5, <2>2, <2>3, <2>4 DEF AttachAnother, OfferSnapshot, TypeOK, Joining
  <2>6. QED
    BY <1>5, <2>1, <2>4, <2>5, BroadcastFlow
    DEF AttachAnother, OfferSnapshot, OwnerStep, wireVars, appVars
<1>6. ASSUME NEW c \in Channel, ResizeAttachment(c) PROVE OwnerStep
  <2>1. Broadcast(screen', size', TRUE, TRUE, c, {})
    BY <1>6 DEF ResizeAttachment
  <2>2. \A d \in Channel :
          /\ d \in attachments' => seq'[d] # 0 /\ d \in attachments
          /\ Open(d) /\ d \in attachments => d \in attachments'
          /\ \/ frames'[d] = frames[d]
             \/ d \in attachments /\ Open(d) /\ \A f \in frames'[d] : f.seq # 0
    <3> TAKE d \in Channel
    <3>1. PICK n, s, yes : Broadcast(s, n, yes, yes, c, {})
      BY <2>1, ZenonT(30)
    <3>2. FlowInv
      OBVIOUS
    <3>3. /\ d \in attachments' => seq'[d] # 0 /\ (d \in attachments \/ d \in {})
          /\ Open(d) /\ d \in attachments => d \in attachments'
          /\ \/ frames'[d] = frames[d]
             \/ d \in attachments /\ Open(d) /\ \A f \in frames'[d] : f.seq # 0
      BY <3>1, <3>2, BroadcastFlow
    <3>4. QED
      BY <3>3
  <2>3. QED
    BY <1>6, <2>2 DEF ResizeAttachment, OwnerStep, Taken, wireVars, appVars
<1>7. ASSUME NEW c \in Channel, OwnerDetach(c) PROVE OwnerStep
  BY <1>7 DEF OwnerDetach, OwnerStep, Served, Lanes, Taken, outboxVars, wireVars, appVars
<1>8. QED
  BY <1>1, <1>2, <1>3, <1>4, <1>5, <1>6, <1>7 DEF Owner


LEMMA ServerKeepsFlow ==
  ASSUME FlowInv, TypeOK', Server
  PROVE  Life' /\ FlowControl' /\ AttachedFirst'
<1>1. ASSUME NEW c \in Channel, Attach(c) PROVE Life' /\ FlowControl' /\ AttachedFirst'
  <2>1. /\ Unopened(c) /\ frames[c] = {}
        /\ control[c] = {} /\ wire[c] = {} /\ acks[c] = {}
        /\ c \notin attaching /\ c \notin detaching /\ c \notin attachments
    BY <1>1 DEF Attach, FlowInv, Life, Fresh, Unopened, Lanes, Open
  <2>2. /\ attaching' = attaching \cup {c} /\ credit' = [credit EXCEPT ![c] = "ready"]
        /\ UNCHANGED <<attachments, seq, detaching, control, frames, sent, wire, acks, view>>
    BY <1>1 DEF Attach, ownerVars, wireVars, appVars
  <2>3. credit'[c] = "ready" /\ \A d \in Channel : d # c => credit'[d] = credit[d]
    BY <2>2 DEF FlowInv, TypeOK
  <2> USE <2>1, <2>2, <2>3 DEF FlowInv, Life, Open, Unopened
  <2>4. Fresh' /\ Queued' /\ Served'
    BY DEF Fresh, Queued, Served
  <2>5. Lanes'
    BY DEF Lanes
  <2>6. Announced'
    BY DEF Announced, Snapshots
  <2>7. FlowControl' /\ AttachedFirst'
    BY DEF FlowControl, AttachedFirst, InFlight
  <2>8. QED
    BY <2>4, <2>5, <2>6, <2>7
<1>2. ASSUME NEW c \in Channel, Detach(c) PROVE Life' /\ FlowControl' /\ AttachedFirst'
  <2>1. /\ view[c] = "closed" /\ credit[c] # "closed"
        /\ credit' = [credit EXCEPT ![c] = "closed"] /\ frames' = [frames EXCEPT ![c] = {}]
        /\ sent' = [sent EXCEPT ![c] = 0] /\ detaching' = detaching \cup {c}
        /\ UNCHANGED <<attachments, seq, attaching, control, wire, acks, view>>
    BY <1>2 DEF Detach, CloseChannel, ownerVars, wireVars, appVars
  <2>2. /\ credit'[c] = "closed" /\ frames'[c] = {}
        /\ \A d \in Channel : d # c => /\ credit'[d] = credit[d] /\ frames'[d] = frames[d]
                                       /\ sent'[d] = sent[d]
    BY <2>1 DEF FlowInv, TypeOK
  <2> USE <2>1, <2>2 DEF FlowInv, Life, Open, Unopened
  <2>3. Fresh' /\ Queued' /\ Served'
    BY DEF Fresh, Queued, Served
  <2>4. Lanes'
    BY DEF Lanes
  <2>5. Announced'
    BY DEF Announced, Snapshots
  <2>6. FlowControl' /\ AttachedFirst'
    BY DEF FlowControl, AttachedFirst, InFlight
  <2>7. QED
    BY <2>3, <2>4, <2>5, <2>6
<1>3. ASSUME NEW c \in Channel, Disconnect(c) PROVE Life' /\ FlowControl' /\ AttachedFirst'
  <2>1. /\ credit' = [credit EXCEPT ![c] = "closed"] /\ frames' = [frames EXCEPT ![c] = {}]
        /\ sent' = [sent EXCEPT ![c] = 0] /\ detaching' = detaching \cup {c}
        /\ view' = [view EXCEPT ![c] = "gone"] /\ control' = [control EXCEPT ![c] = {}]
        /\ wire' = [wire EXCEPT ![c] = {}] /\ acks' = [acks EXCEPT ![c] = {}]
        /\ UNCHANGED <<attachments, seq, attaching>>
    BY <1>3 DEF Disconnect, CloseChannel, ownerVars
  <2>2. /\ credit'[c] = "closed" /\ frames'[c] = {} /\ view'[c] = "gone" /\ control'[c] = {}
        /\ wire'[c] = {} /\ acks'[c] = {}
        /\ \A d \in Channel : d # c =>
             /\ credit'[d] = credit[d] /\ frames'[d] = frames[d] /\ sent'[d] = sent[d]
             /\ view'[d] = view[d] /\ control'[d] = control[d] /\ wire'[d] = wire[d]
             /\ acks'[d] = acks[d]
    BY <2>1 DEF FlowInv, TypeOK
  <2>3. attaching \subseteq Channel
    BY DEF FlowInv, TypeOK
  <2> USE <2>1, <2>2, <2>3 DEF FlowInv, Life, Open, Unopened
  <2>4. Fresh' /\ Queued' /\ Served'
    BY DEF Fresh, Queued, Served
  <2>5. Lanes'
    BY DEF Lanes
  <2>6. Announced'
    BY DEF Announced, Snapshots
  <2>7. FlowControl' /\ AttachedFirst'
    BY DEF FlowControl, AttachedFirst, InFlight
  <2>8. QED
    BY <2>4, <2>5, <2>6, <2>7
<1>4. ASSUME NEW c \in Channel, WriteControl(c) PROVE Life' /\ FlowControl' /\ AttachedFirst'
  <2>1. /\ control[c] # {} /\ control' = [control EXCEPT ![c] = {}]
        /\ wire' = [wire EXCEPT ![c] = @ \cup control[c]]
        /\ UNCHANGED <<attachments, seq, attaching, detaching, frames, credit, sent, acks, view>>
    BY <1>4 DEF WriteControl, ownerVars, queueVars, appVars
  <2>2. /\ control'[c] = {} /\ wire'[c] = control[c] /\ wire[c] = {}
        /\ \A d \in Channel : d # c => control'[d] = control[d] /\ wire'[d] = wire[d]
    <3>1. wire[c] = {}
      BY <2>1 DEF FlowInv, Life, Announced
    <3>2. wire'[c] = wire[c] \cup control[c] /\ control'[c] = {}
      BY <2>1 DEF FlowInv, TypeOK
    <3>3. \A d \in Channel : d # c => control'[d] = control[d] /\ wire'[d] = wire[d]
      BY <2>1 DEF FlowInv, TypeOK
    <3>4. QED
      BY <3>1, <3>2, <3>3
  <2>3. c \notin attaching /\ attaching \subseteq Channel
    BY <2>1 DEF FlowInv, TypeOK, Life, Queued
  <2>4. \A f \in control[c] : f.seq = 0
    BY DEF FlowInv, Life, Lanes
  <2> USE <2>1, <2>2, <2>3, <2>4 DEF FlowInv, Life, Open, Unopened
  <2>5. Fresh' /\ Queued' /\ Served'
    BY DEF Fresh, Queued, Served
  <2>6. Lanes'
    BY DEF Lanes
  <2>7. Announced'
    BY DEF Announced, Snapshots
  <2>8. \A d \in Channel : InFlight(d)' = InFlight(d)
    BY DEF InFlight
  <2>9. FlowControl'
    BY <2>8 DEF FlowControl
  <2>10. AttachedFirst'
    BY <2>8 DEF AttachedFirst
  <2>11. QED
    BY <2>5, <2>6, <2>7, <2>9, <2>10
<1>5. ASSUME NEW c \in Channel, WriteFrame(c) PROVE Life' /\ FlowControl' /\ AttachedFirst'
  <2>1. PICK f \in frames[c] : /\ wire' = [wire EXCEPT ![c] = @ \cup {f}]
                              /\ sent' = [sent EXCEPT ![c] = f.seq]
    BY <1>5 DEF WriteFrame
  <2>2. /\ control[c] = {} /\ credit[c] = "ready" /\ frames' = [frames EXCEPT ![c] = {}]
        /\ credit' = [credit EXCEPT ![c] = "used"]
        /\ UNCHANGED <<attachments, seq, attaching, detaching, control, acks, view>>
    BY <1>5 DEF WriteFrame, ownerVars, queueVars, appVars
  <2>3. /\ wire'[c] = wire[c] \cup {f} /\ sent'[c] = f.seq /\ frames'[c] = {}
        /\ credit'[c] = "used"
        /\ \A d \in Channel : d # c => /\ wire'[d] = wire[d] /\ sent'[d] = sent[d]
                                       /\ frames'[d] = frames[d] /\ credit'[d] = credit[d]
    BY <2>1, <2>2 DEF FlowInv, TypeOK
  <2>4. f.seq # 0 /\ c \notin attaching /\ attaching \subseteq Channel
    BY DEF FlowInv, TypeOK, Life, Lanes, Queued
  <2>5. InFlight(c) = {} /\ acks[c] = {}
    BY <2>2 DEF FlowInv, FlowControl, Open
  <2>6. c \in attachments
    BY <2>2, <2>4 DEF FlowInv, Life, Served, Open
  <2> USE <2>2, <2>3, <2>4 DEF FlowInv, Life, Open, Unopened
  <2>7. Fresh' /\ Queued' /\ Served'
    BY DEF Fresh, Queued, Served
  <2>8. Lanes'
    BY DEF Lanes
  <2>9. \A d \in Channel : Snapshots(d)' = Snapshots(d)
    BY DEF Snapshots
  <2>10. Announced'
    BY <2>9 DEF Announced
  <2>11. InFlight(c)' = {f} /\ \A d \in Channel : d # c => InFlight(d)' = InFlight(d)
    BY <2>5 DEF InFlight
  <2>12. FlowControl'
    BY <2>5, <2>11 DEF FlowControl
  <2>13. view[c] = "none" => \E g \in wire[c] : g.seq = 0
    BY <2>6 DEF Announced, Snapshots
  <2>14. AttachedFirst'
    BY <2>11, <2>13 DEF AttachedFirst
  <2>15. QED
    BY <2>7, <2>8, <2>10, <2>12, <2>14
<1>6. ASSUME NEW c \in Channel, NEW n \in acks[c], Ack(c, n)
      PROVE  Life' /\ FlowControl' /\ AttachedFirst'
  <2>1. /\ acks' = [acks EXCEPT ![c] = @ \ {n}]
        /\ credit' = [credit EXCEPT ![c] = IF @ # "closed" /\ sent[c] = n THEN "ready" ELSE @]
        /\ UNCHANGED <<attachments, seq, attaching, detaching, control, frames, sent, wire, view>>
    BY <1>6 DEF Ack, ownerVars, queueVars, appVars
  <2>2. /\ acks'[c] = acks[c] \ {n}
        /\ credit'[c] = IF credit[c] # "closed" /\ sent[c] = n THEN "ready" ELSE credit[c]
        /\ \A d \in Channel : d # c => acks'[d] = acks[d] /\ credit'[d] = credit[d]
    BY <2>1 DEF FlowInv, TypeOK
  <2>3. Open(c) => sent[c] = n /\ acks[c] = {n} /\ InFlight(c) = {}
    BY DEF FlowInv, FlowControl
  <2> USE <2>1, <2>2, <2>3 DEF FlowInv, Life, Open, Unopened
  <2>4. Fresh' /\ Queued' /\ Served'
    BY DEF Fresh, Queued, Served
  <2>5. Lanes'
    BY DEF Lanes
  <2>6. Announced'
    BY DEF Announced, Snapshots
  <2>7. FlowControl' /\ AttachedFirst'
    BY DEF FlowControl, AttachedFirst, InFlight
  <2>8. QED
    BY <2>4, <2>5, <2>6, <2>7
<1>7. QED
  BY <1>1, <1>2, <1>3, <1>4, <1>5, <1>6 DEF Server


LEMMA AppKeepsFlow ==
  ASSUME FlowInv, App
  PROVE  Life' /\ FlowControl' /\ AttachedFirst'
<1>1. ASSUME NEW c \in Channel, Attached(c) PROVE Life' /\ FlowControl' /\ AttachedFirst'
  <2>1. PICK f \in wire[c] : f.seq = 0 /\ wire' = [wire EXCEPT ![c] = @ \ {f}]
    BY <1>1 DEF Attached
  <2>2. /\ view' = [view EXCEPT ![c] = "open"]
        /\ UNCHANGED <<attachments, seq, attaching, detaching, control, frames, credit, sent, acks>>
    BY <1>1 DEF Attached, ownerVars, queueVars, outboxVars
  <2>3. /\ wire'[c] = wire[c] \ {f} /\ view'[c] = "open"
        /\ \A d \in Channel : d # c => wire'[d] = wire[d] /\ view'[d] = view[d]
    BY <2>1, <2>2 DEF FlowInv, TypeOK
  <2>4. view[c] = "none" /\ control[c] = {} /\ \A g \in wire[c] : g.seq = 0 => g = f
    BY <2>1 DEF FlowInv, Life, Announced, Snapshots
  <2>5. c \notin attaching /\ attaching \subseteq Channel
    BY DEF FlowInv, TypeOK, Life, Queued
  <2> USE <2>1, <2>2, <2>3, <2>4, <2>5 DEF FlowInv, Life, Open, Unopened
  <2>6. Fresh' /\ Queued' /\ Served'
    BY DEF Fresh, Queued, Served
  <2>7. Lanes'
    BY DEF Lanes
  <2>8. Announced'
    BY DEF Announced, Snapshots
  <2>9. \A d \in Channel : InFlight(d)' = InFlight(d)
    BY DEF InFlight
  <2>10. FlowControl'
    BY <2>9 DEF FlowControl
  <2>11. AttachedFirst'
    BY <2>9 DEF AttachedFirst
  <2>12. QED
    BY <2>6, <2>7, <2>8, <2>10, <2>11
<1>2. ASSUME NEW c \in Channel, ReceiveFrame(c) PROVE Life' /\ FlowControl' /\ AttachedFirst'
  <2>1. PICK f \in wire[c] :
          /\ Oldest(c, f) /\ f.seq # 0
          /\ wire' = [wire EXCEPT ![c] = @ \ {f}]
          /\ acks' = [acks EXCEPT ![c] = IF view[c] = "none" THEN @ ELSE @ \cup {f.seq}]
    BY <1>2 DEF ReceiveFrame
  <2>2. UNCHANGED <<attachments, seq, attaching, detaching, control, frames, credit, sent, view>>
    BY <1>2 DEF ReceiveFrame, ownerVars, queueVars, outboxVars
  <2>3. \A g \in wire[c] : g.seq # 0
    <3> SUFFICES ASSUME NEW g \in wire[c], g.seq = 0 PROVE FALSE
      OBVIOUS
    <3>1. f \in Frame
      BY DEF FlowInv, TypeOK
    <3>2. f.seq \in Nat /\ f.seq <= 0
      BY <2>1, <3>1 DEF Oldest, Frame
    <3>3. QED
      BY <2>1, <3>2
  <2>4. view[c] # "none" /\ f \in InFlight(c)
    BY <2>1, <2>3 DEF FlowInv, AttachedFirst, InFlight
  <2>5. /\ wire'[c] = wire[c] \ {f} /\ acks'[c] = acks[c] \cup {f.seq}
        /\ \A d \in Channel : d # c => wire'[d] = wire[d] /\ acks'[d] = acks[d]
    BY <2>1, <2>4 DEF FlowInv, TypeOK
  <2>6. c \notin attaching /\ attaching \subseteq Channel
    BY DEF FlowInv, TypeOK, Life, Queued
  <2>7. view[c] # "gone"
    BY DEF FlowInv, Life, Announced
  <2>8. Open(c) => acks[c] = {} /\ InFlight(c) = {f} /\ f.seq = sent[c] /\ credit[c] = "used"
    BY <2>4 DEF FlowInv, FlowControl
  <2> USE <2>2, <2>4, <2>5, <2>6, <2>7 DEF FlowInv, Life, Open, Unopened
  <2>9. Fresh' /\ Queued' /\ Served'
    BY DEF Fresh, Queued, Served
  <2>10. Lanes'
    BY DEF Lanes
  <2>11. Announced'
    BY <2>1 DEF Announced, Snapshots
  <2>12. /\ Open(c) => InFlight(c)' = {}
         /\ \A d \in Channel : d # c => InFlight(d)' = InFlight(d)
    BY <2>8 DEF InFlight
  <2>13. FlowControl'
    BY <2>8, <2>12 DEF FlowControl
  <2>14. AttachedFirst'
    BY <2>12 DEF AttachedFirst
  <2>15. QED
    BY <2>9, <2>10, <2>11, <2>13, <2>14
<1>3. ASSUME NEW c \in Channel, CloseView(c) PROVE Life' /\ FlowControl' /\ AttachedFirst'
  <2>1. /\ view[c] = "open" /\ view' = [view EXCEPT ![c] = "closed"]
        /\ UNCHANGED <<attachments, seq, attaching, detaching, control, frames, credit, sent, wire,
                       acks>>
    BY <1>3 DEF CloseView, ownerVars, queueVars, outboxVars, wireVars
  <2>2. view'[c] = "closed" /\ \A d \in Channel : d # c => view'[d] = view[d]
    BY <2>1 DEF FlowInv, TypeOK
  <2>3. c \notin attaching /\ attaching \subseteq Channel
    BY <2>1 DEF FlowInv, TypeOK, Life, Queued
  <2> USE <2>1, <2>2, <2>3 DEF FlowInv, Life, Open, Unopened
  <2>4. Fresh' /\ Queued' /\ Served'
    BY DEF Fresh, Queued, Served
  <2>5. Lanes'
    BY DEF Lanes
  <2>6. Announced'
    BY DEF Announced, Snapshots
  <2>7. FlowControl' /\ AttachedFirst'
    BY DEF FlowControl, AttachedFirst, InFlight
  <2>8. QED
    BY <2>4, <2>5, <2>6, <2>7
<1>4. ASSUME NEW c \in Channel, NEW n \in Size, Resize(c, n) \/ RefusedResize(c, n)
      PROVE  Life' /\ FlowControl' /\ AttachedFirst'
  <2>1. UNCHANGED <<attachments, seq, attaching, detaching, control, frames, credit, sent, wire, acks,
                    view>>
    BY <1>4 DEF Resize, RefusedResize, ownerVars, queueVars, outboxVars, wireVars
  <2>2. QED
    BY <2>1 DEF FlowInv, Life, Fresh, Queued, Served, Lanes, Announced, FlowControl, AttachedFirst,
                InFlight, Snapshots, Open, Unopened
<1>5. QED
  BY <1>1, <1>2, <1>3, <1>4 DEF App

LEMMA FlowNext == FlowInv /\ [Next]_vars => FlowInv'
<1> SUFFICES ASSUME FlowInv, [Next]_vars PROVE FlowInv'
  OBVIOUS
<1>1. TypeOK'
  BY TypeNext DEF FlowInv
<1>2. CASE Owner
  BY <1>1, <1>2, OwnerSteps, OwnerKeepsFlow DEF FlowInv
<1>3. CASE Server
  BY <1>1, <1>3, ServerKeepsFlow DEF FlowInv
<1>4. CASE App
  BY <1>1, <1>4, AppKeepsFlow DEF FlowInv
<1>5. CASE UNCHANGED vars
  BY <1>1, <1>5 DEF vars, ownerVars, queueVars, outboxVars, wireVars, appVars, FlowInv, Life, Fresh,
                    Queued, Served, Lanes, Announced, FlowControl, AttachedFirst, InFlight,
                    Snapshots, Open, Unopened
<1>6. QED
  BY <1>2, <1>3, <1>4, <1>5 DEF Next

\* "Each attached session has at most one frame in flight to each app"
\* (docs/tech/protocol.md), and a channel's credit to send is neither spent twice
\* nor lost: Outbox::next_channel spends it, Outbox::ack returns it.
THEOREM FlowControlHolds == Spec => []FlowControl
<1>1. FlowInv => FlowControl
  BY DEF FlowInv
<1>2. QED
  BY FlowInit, FlowNext, <1>1, PTL DEF Spec

\* No frame overtakes the Attached reply of its channel.
THEOREM AttachedFirstHolds == Spec => []AttachedFirst
<1>1. FlowInv => AttachedFirst
  BY DEF FlowInv
<1>2. QED
  BY FlowInit, FlowNext, <1>1, PTL DEF Spec

-----------------------------------------------------------------------------
(* What an app will show.  Frames are taken when the owner knows which rows changed  *)
(* since the last take, wait, merge, and are applied later; so the invariant says    *)
(* what every sequence of messages under way does to a grid.                         *)

\* What the owner knows of its rows: what no take is due for is as it was last taken, rows
\* below the screen are blank, and a redraw is due exactly when a reset is.
Rows ==
  /\ \A r \in Row : r \notin dirty /\ ~redraw_all => row_hashes[r] = screen[r]
  /\ \A r \in Row : r > size /\ ~redraw_all => row_hashes[r] = Blank
  /\ resize_pending => redraw_all
  /\ attachments # {} /\ redraw_all => resize_pending

\* A waiting frame is alone, and as tall as the screen.
Waiting ==
  \A c \in Channel :
    /\ \A f, g \in frames[c] : f = g
    /\ \A f \in frames[c] : f.size = size

\* A grid that is as the owner believes it to be.
Right(c, g) ==
  /\ g.rows = row_hashes
  /\ \A r \in Row : r <= size => r \in g.has
  /\ c \in Follows => g.size = size

Live(c) == Open(c) /\ c \in attachments

\* Messages bring a grid that is no guess to the owner's rows, and those from a redraw on
\* bring any grid there.
Course ==
  \A c \in Channel : Live(c) =>
    /\ Listening(c) /\ garbled[c] = "no" => Right(c, Upcoming(c))
    /\ (\E f \in InFlight(c) : f.reset)
         => \A g \in Grid : Right(c, After(c, After(c, g, InFlight(c)), frames[c]))
    /\ (\E f \in frames[c] : f.reset) => \A g \in Grid : Right(c, After(c, g, frames[c]))

\* Only an app that knows the channel guesses.
Guesses == \A c \in Channel : view[c] = "none" => garbled[c] = "no"

StreamInv == FlowInv /\ Rows /\ Waiting /\ Course /\ Guesses /\ RedrawComes

-----------------------------------------------------------------------------
(* What messages do to a grid *)

LEMMA AfterOne ==
  ASSUME NEW c, NEW g, NEW held
  PROVE  (held = {} => After(c, g, held) = g) /\ \A f : held = {f} => After(c, g, held) = Receive(c, g, f)
BY DEF After

LEMMA AfterType ==
  ASSUME NEW c, NEW g \in Grid, NEW held \in SUBSET Frame
  PROVE  After(c, g, held) \in Grid
<1>1. held # {} => (CHOOSE f \in held : TRUE) \in Frame
  OBVIOUS
<1>2. QED
  BY <1>1, ReceiveType DEF After

\* A message with every row of a screen.
Whole(f, s, n) ==
  /\ f \in Frame /\ f.reset = TRUE /\ f.size = n
  /\ \A r \in Row : f.rows[r] = IF r <= n THEN s[r] ELSE NoRow

\* A redraw, or a snapshot, makes any grid the screen.
LEMMA WholeScreen ==
  ASSUME NEW c, NEW g \in Grid, NEW n \in Size, NEW s \in Screens(n), NEW f, Whole(f, s, n)
  PROVE  /\ Receive(c, g, f).rows = s
         /\ \A r \in Row : r <= n => r \in Receive(c, g, f).has
         /\ c \in Follows => Receive(c, g, f).size = n
<1>1. /\ f \in Frame /\ f.reset = TRUE /\ f.size = n /\ s \in [Row -> Cell]
      /\ \A r \in Row : f.rows[r] = IF r <= n THEN s[r] ELSE NoRow
      /\ \A r \in Row : r > n => s[r] = Blank
      /\ \A r \in Row : Carries(f, r) <=> r <= n
  BY ConstantsAssumption DEF Whole, Carries, Screens, Row, Size
<1>2. ASSUME NEW h, h.rows = BlankRows, \A r \in Row : r <= n => r \in h.has,
             h = [rows |-> h.rows, has |-> h.has, size |-> h.size], h.has \subseteq Row
      PROVE  /\ ReplaceRows(h, f).rows = s
             /\ \A r \in Row : r <= n => r \in ReplaceRows(h, f).has
             /\ ReplaceRows(h, f).size = h.size
  <2>1. ReplaceRows(h, f).rows = [r \in Row |-> IF r \in h.has /\ Carries(f, r) THEN f.rows[r] ELSE h.rows[r]]
    BY <1>2 DEF ReplaceRows
  <2>2. \A r \in Row : ReplaceRows(h, f).rows[r] = s[r]
    BY <1>1, <1>2, <2>1 DEF BlankRows, Row, Size
  <2>3. ReplaceRows(h, f).rows = s
    BY <1>1, <2>1, <2>2
  <2>4. ReplaceRows(h, f).has = h.has /\ ReplaceRows(h, f).size = h.size
    BY <1>2 DEF ReplaceRows
  <2>5. QED
    BY <1>2, <2>3, <2>4
<1>3. CASE f.seq = 0
  <2>1. PICK h : h = BlankGrid(n)
    OBVIOUS
  <2>2. /\ h.rows = BlankRows /\ h.size = n /\ h.has \subseteq Row
        /\ \A r \in Row : r <= n => r \in h.has
        /\ h = [rows |-> h.rows, has |-> h.has, size |-> h.size]
    BY <2>1 DEF BlankGrid
  <2>3. Receive(c, g, f) = ReplaceRows(h, f)
    BY <1>1, <1>3, <2>1 DEF Receive
  <2>4. QED
    BY <1>2, <2>2, <2>3
<1>4. CASE f.seq # 0
  <2>1. PICK fit : fit = IF c \in Follows /\ g.size # f.size THEN BlankGrid(f.size) ELSE g
    OBVIOUS
  <2>2. c \in Follows => fit.size = n
    BY <1>1, <2>1 DEF BlankGrid
  <2>3. PICK h : h = ResetGrid(fit, f)
    OBVIOUS
  <2>4. /\ h.rows = BlankRows /\ h.size = fit.size /\ h.has \subseteq Row
        /\ \A r \in Row : Carries(f, r) => r \in h.has
        /\ h = [rows |-> h.rows, has |-> h.has, size |-> h.size]
    <3>1. h = [rows |-> BlankRows,
               has |-> {r \in Row : r <= fit.size \/ \E q \in Row : q >= r /\ Carries(f, q)},
               size |-> fit.size]
      BY <2>3 DEF ResetGrid
    <3>2. \A r \in Row : r >= r
      BY DEF Row
    <3>3. QED
      BY <3>1, <3>2
  <2>5. Receive(c, g, f) = ReplaceRows(h, f)
    BY <1>1, <1>4, <2>1, <2>3 DEF Receive, Apply
  <2>6. QED
    BY <1>1, <1>2, <2>2, <2>4, <2>5
<1>5. QED
  BY <1>3, <1>4

\* The rows as the next partial take returns them.
Next_hashes == [r \in Row |-> IF r \in dirty THEN screen[r] ELSE row_hashes[r]]

Partial(f) ==
  /\ f \in Frame /\ f.seq # 0 /\ f.reset = FALSE /\ f.size = size
  /\ f.rows = ChangedRows(screen, size, FALSE)

LEMMA PartialRows ==
  ASSUME TypeOK, Rows, ~redraw_all, NEW f, Partial(f), NEW r \in Row
  PROVE  /\ Carries(f, r) => r <= size /\ f.rows[r] = Next_hashes[r]
         /\ ~Carries(f, r) => row_hashes[r] = Next_hashes[r]
<1>1. /\ f.rows[r] = IF r <= size /\ r \in dirty /\ row_hashes[r] # screen[r] THEN screen[r] ELSE NoRow
      /\ screen[r] # NoRow /\ (r > size => screen[r] = Blank /\ row_hashes[r] = Blank)
      /\ Next_hashes[r] = IF r \in dirty THEN screen[r] ELSE row_hashes[r]
      /\ r <= size \/ r > size
  BY ConstantsAssumption DEF Partial, ChangedRows, Next_hashes, TypeOK, Screens, Rows, Row, Size
<1>2. QED
  BY <1>1 DEF Carries

\* A partial frame brings a right grid up to date.
LEMMA PartialApplied ==
  ASSUME TypeOK, Rows, ~redraw_all, NEW c, NEW g \in Grid, Right(c, g), NEW f, Partial(f)
  PROVE  /\ Receive(c, g, f).rows = Next_hashes
         /\ Receive(c, g, f).has = g.has /\ Receive(c, g, f).size = g.size
<1>1. Receive(c, g, f) = ReplaceRows(g, f)
  BY DEF Partial, Right, Receive, Apply
<1>2. /\ ReplaceRows(g, f).rows
           = [r \in Row |-> IF r \in g.has /\ Carries(f, r) THEN f.rows[r] ELSE g.rows[r]]
      /\ ReplaceRows(g, f).has = g.has /\ ReplaceRows(g, f).size = g.size
  BY DEF ReplaceRows, Grid
<1>3. g.rows = row_hashes /\ \A r \in Row : r <= size => r \in g.has
  BY DEF Right
<1>4. \A r \in Row : ReplaceRows(g, f).rows[r] = Next_hashes[r]
  BY <1>2, <1>3, PartialRows
<1>5. ReplaceRows(g, f).rows = Next_hashes
  BY <1>2, <1>4 DEF Next_hashes
<1>6. QED
  BY <1>1, <1>2, <1>5

\* So does the frame that was waiting with the partial one merged into it.
LEMMA MergedApplied ==
  ASSUME TypeOK, Rows, ~redraw_all, NEW c, NEW g \in Grid, NEW older \in Frame,
         older.seq # 0, older.size = size, Right(c, Receive(c, g, older)), NEW f, Partial(f)
  PROVE  /\ Receive(c, g, Merge(older, f)).rows = Next_hashes
         /\ \A r \in Row : r <= size => r \in Receive(c, g, Merge(older, f)).has
         /\ c \in Follows => Receive(c, g, Merge(older, f)).size = size
<1>1. PICK m : m = Merge(older, f)
  OBVIOUS
<1>2. /\ m \in Frame /\ m.seq # 0 /\ m.size = size /\ m.reset = older.reset
      /\ \A r \in Row : m.rows[r] = IF Carries(f, r) THEN f.rows[r] ELSE older.rows[r]
  BY <1>1, MergeType DEF Merge, Partial, Frame
<1>3. \A r \in Row : Carries(m, r) <=> Carries(f, r) \/ Carries(older, r)
  BY <1>2 DEF Carries
<1>4. PICK fit : fit = IF c \in Follows /\ g.size # size THEN BlankGrid(size) ELSE g
  OBVIOUS
<1>5. fit \in Grid
  BY <1>4, BlankGridType, ConstantsAssumption DEF TypeOK, Size
<1>6. PICK old : old = IF older.reset THEN ResetGrid(fit, older) ELSE fit
  OBVIOUS
<1>7. PICK new : new = IF older.reset THEN ResetGrid(fit, m) ELSE fit
  OBVIOUS
<1>8. Receive(c, g, older) = ReplaceRows(old, older) /\ Receive(c, g, m) = ReplaceRows(new, m)
  BY <1>2, <1>4, <1>6, <1>7 DEF Receive, Apply
<1>9. /\ old.rows = new.rows /\ old.size = new.size /\ old.has \subseteq new.has /\ new.has \subseteq Row
      /\ old.rows \in [Row -> Cell]
      /\ \A r \in Row : older.reset /\ Carries(older, r) => r \in old.has
      /\ ~older.reset => old.has = new.has
      /\ old = [rows |-> old.rows, has |-> old.has, size |-> old.size]
      /\ new = [rows |-> new.rows, has |-> new.has, size |-> new.size]
  <2>1. CASE older.reset
    <3>1. /\ old = [rows |-> BlankRows, size |-> fit.size,
                    has |-> {r \in Row : r <= fit.size \/ \E q \in Row : q >= r /\ Carries(older, q)}]
          /\ new = [rows |-> BlankRows, size |-> fit.size,
                    has |-> {r \in Row : r <= fit.size \/ \E q \in Row : q >= r /\ Carries(m, q)}]
      BY <1>6, <1>7, <2>1 DEF ResetGrid
    <3>2. BlankRows \in [Row -> Cell] /\ \A r \in Row : r >= r
      BY ConstantsAssumption DEF BlankRows, Row
    <3>3. QED
      BY <1>3, <2>1, <3>1, <3>2
  <2>2. CASE ~older.reset
    BY <1>5, <1>6, <1>7, <2>2 DEF Grid
  <2>3. QED
    BY <2>1, <2>2
<1>10. /\ ReplaceRows(old, older).rows
            = [r \in Row |-> IF r \in old.has /\ Carries(older, r) THEN older.rows[r] ELSE old.rows[r]]
       /\ ReplaceRows(old, older).has = old.has /\ ReplaceRows(old, older).size = old.size
  BY <1>9 DEF ReplaceRows
<1>11. /\ ReplaceRows(new, m).rows
            = [r \in Row |-> IF r \in new.has /\ Carries(m, r) THEN m.rows[r] ELSE new.rows[r]]
       /\ ReplaceRows(new, m).has = new.has /\ ReplaceRows(new, m).size = new.size
  BY <1>9 DEF ReplaceRows
<1>12. /\ ReplaceRows(old, older).rows = row_hashes
       /\ \A r \in Row : r <= size => r \in old.has
       /\ c \in Follows => old.size = size
  BY <1>8, <1>10 DEF Right
<1>13. \A r \in Row : ReplaceRows(new, m).rows[r] = Next_hashes[r]
  <2> SUFFICES ASSUME NEW r \in Row PROVE ReplaceRows(new, m).rows[r] = Next_hashes[r]
    OBVIOUS
  <2>1. CASE Carries(f, r)
    <3>1. r \in new.has /\ f.rows[r] = Next_hashes[r]
      BY <1>9, <1>12, <2>1, PartialRows
    <3>2. QED
      BY <1>2, <1>3, <1>11, <2>1, <3>1
  <2>2. CASE ~Carries(f, r)
    <3>1. row_hashes[r] = Next_hashes[r] /\ m.rows[r] = older.rows[r] /\ (Carries(m, r) <=> Carries(older, r))
      BY <1>2, <1>3, <2>2, PartialRows
    <3>2. Carries(older, r) => (r \in old.has <=> r \in new.has)
      BY <1>9
    <3>3. ReplaceRows(new, m).rows[r] = ReplaceRows(old, older).rows[r]
      BY <1>9, <1>10, <1>11, <3>1, <3>2
    <3>4. QED
      BY <1>12, <3>1, <3>3
  <2>3. QED
    BY <2>1, <2>2
<1>14. ReplaceRows(new, m).rows = Next_hashes
  BY <1>11, <1>13 DEF Next_hashes
<1>15. QED
  BY <1>1, <1>8, <1>9, <1>11, <1>12, <1>14

-----------------------------------------------------------------------------
(* What a broadcast leaves *)

\* What a take returns is the screen: the rows it skips are as they were last taken.
LEMMA TakenScreen ==
  ASSUME TypeOK, Rows, NEW s \in [Row -> Cell], NEW all \in BOOLEAN, redraw_all => all,
         ~all => s = screen, TakeRows(s, all)
  PROVE  row_hashes' = s /\ dirty' = {} /\ redraw_all' = FALSE
<1>1. row_hashes' = [r \in Row |-> IF all \/ r \in dirty THEN s[r] ELSE row_hashes[r]]
  BY DEF TakeRows
<1>2. \A r \in Row : ~(all \/ r \in dirty) => row_hashes[r] = s[r]
  BY DEF Rows
<1>3. \A r \in Row : row_hashes'[r] = s[r]
  BY <1>1, <1>2
<1>4. row_hashes' = s
  BY <1>1, <1>3
<1>5. QED
  BY <1>4 DEF TakeRows

LEMMA NextHashes ==
  ASSUME TypeOK, Rows, ~redraw_all
  PROVE  Next_hashes = screen
<1>1. screen \in [Row -> Cell]
  BY DEF TypeOK, Screens
<1>2. \A r \in Row : Next_hashes[r] = screen[r]
  BY DEF Rows, Next_hashes
<1>3. QED
  BY <1>1, <1>2 DEF Next_hashes

\* A channel's own copy of a broadcast frame.
LEMMA OwnCopy ==
  ASSUME NEW f \in Frame, NEW k \in Nat
  PROVE  /\ [f EXCEPT !.seq = k] \in Frame /\ [f EXCEPT !.seq = k].seq = k
         /\ [f EXCEPT !.seq = k].reset = f.reset /\ [f EXCEPT !.seq = k].size = f.size
         /\ [f EXCEPT !.seq = k].rows = f.rows
BY DEF Frame

\* The frame of a broadcast, and what becomes of the one that waits.
Leaves(f, c, n, s, reset, all, resized) ==
  /\ f.seq # 0 /\ f.reset = reset /\ f.size = n /\ f.rows = ChangedRows(s, n, all)
  /\ \/ frames'[c] = frames[c] /\ ~reset /\ \A r \in Row : ~Carries(f, r)
     \/ frames'[c] = {f} /\ (c = resized \/ frames[c] = {})
     \/ frames'[c] = {Merge(older, f) : older \in frames[c]} /\ frames[c] # {}

LEMMA Left ==
  ASSUME TypeOK, Lanes, NEW n \in Size, NEW s \in Screens(n), NEW reset \in BOOLEAN, NEW all \in BOOLEAN,
         NEW resized, NEW joining, Broadcast(s, n, reset, all, resized, joining),
         NEW c \in Channel, Live(c)
  PROVE  \E f \in Frame : Leaves(f, c, n, s, reset, all, resized)
<1>1. PICK g : g = [seq |-> 0, reset |-> reset, size |-> n, rows |-> ChangedRows(s, n, all)]
  OBVIOUS
<1>2. g \in Frame
  BY <1>1, ConstantsAssumption DEF Frame, Screens, ChangedRows, Row, Size
<1>3. PICK f : f = [g EXCEPT !.seq = seq[c]]
  OBVIOUS
<1>4. seq[c] \in Nat /\ seq[c] # 0
  BY DEF TypeOK, Lanes, Live
<1>5. f \in Frame /\ f.seq # 0 /\ f.reset = reset /\ f.size = n /\ f.rows = ChangedRows(s, n, all)
  <2>1. g.reset = reset /\ g.size = n /\ g.rows = ChangedRows(s, n, all)
    BY <1>1
  <2>2. QED
    BY <1>2, <1>3, <1>4, <2>1, OwnCopy
<1>6. \A r \in Row : Carries(f, r) <=> Carries(g, r)
  BY <1>1, <1>5 DEF Carries
<1>7. \/ frames' = frames /\ ~reset /\ \A r \in Row : ~Carries(g, r)
      \/ PushFrames(g, resized)
  BY <1>1 DEF Broadcast
<1>8. PushFrames(g, resized) =>
        frames'[c] = IF c = resized \/ frames[c] = {} THEN {f} ELSE {Merge(older, f) : older \in frames[c]}
  BY <1>3 DEF PushFrames, Live, Open
<1>9. QED
  BY <1>5, <1>6, <1>7, <1>8 DEF Leaves

\* A redraw leaves every live channel one frame with the whole screen.
LEMMA Redraws ==
  ASSUME TypeOK, Lanes, NEW n \in Size, NEW s \in Screens(n), NEW resized, NEW joining,
         Broadcast(s, n, TRUE, TRUE, resized, joining), NEW c \in Channel, Live(c)
  PROVE  \E f : Whole(f, s, n) /\ f.seq # 0 /\ frames'[c] = {f}
<1>1. PICK f \in Frame : Leaves(f, c, n, s, TRUE, TRUE, resized)
  <2>1. TRUE \in BOOLEAN
    OBVIOUS
  <2>2. QED
    BY <2>1, Left, ZenonT(30)
<1>2. \A older : Merge(older, f) = f
  BY <1>1 DEF Merge, Leaves
<1>3. frames'[c] = {f}
  BY <1>1, <1>2 DEF Leaves
<1>4. Whole(f, s, n)
  BY <1>1 DEF Whole, ChangedRows, Leaves
<1>5. QED
  BY <1>1, <1>3, <1>4 DEF Leaves

\* Any other broadcast leaves it a partial frame, alone or merged, or nothing new.
LEMMA Updates ==
  ASSUME TypeOK, Rows, Lanes, ~redraw_all, NEW resized, resized \notin Channel, NEW joining,
         Broadcast(screen, size, FALSE, FALSE, resized, joining), NEW c \in Channel, Live(c)
  PROVE  \/ frames'[c] = frames[c] /\ row_hashes = Next_hashes
         \/ \E f : Partial(f) /\ frames[c] = {} /\ frames'[c] = {f}
         \/ \E f : Partial(f) /\ frames[c] # {} /\ frames'[c] = {Merge(older, f) : older \in frames[c]}
<1>1. size \in Size /\ screen \in Screens(size)
  BY DEF TypeOK
<1>2. PICK f \in Frame : Leaves(f, c, size, screen, FALSE, FALSE, resized)
  <2>1. FALSE \in BOOLEAN
    OBVIOUS
  <2>2. QED
    BY <1>1, <2>1, Left, ZenonT(30)
<1>3. Partial(f)
  BY <1>2 DEF Partial, Leaves
<1>4. ASSUME \A r \in Row : ~Carries(f, r) PROVE row_hashes = Next_hashes
  <2>1. \A r \in Row : row_hashes[r] = Next_hashes[r]
    BY <1>3, <1>4, PartialRows
  <2>2. QED
    BY <2>1 DEF TypeOK, Next_hashes
<1>5. QED
  BY <1>2, <1>3, <1>4 DEF Leaves

\* Either way an app that would have been right is right again, and redraws stay redraws.
Renewed(c) ==
  /\ \A g \in Grid : Right(c, After(c, g, frames[c])) => Right(c, After(c, g, frames[c]))'
  /\ (\E f \in frames[c] : f.reset) => \E f \in frames'[c] : f.reset
  /\ (\E f \in frames'[c] : f.reset) =>
       \/ \E f \in frames[c] : f.reset
       \/ \A g \in Grid : Right(c, After(c, g, frames[c]))'

LEMMA RedrawRenews ==
  ASSUME TypeOK, Lanes, NEW n \in Size, NEW s \in Screens(n), NEW resized, NEW joining,
         Broadcast(s, n, TRUE, TRUE, resized, joining), size' = n, row_hashes' = s,
         NEW c \in Channel, Live(c)
  PROVE  Renewed(c) /\ \E f \in frames'[c] : f.reset
<1>1. PICK f : Whole(f, s, n) /\ f.seq # 0 /\ frames'[c] = {f}
  BY Redraws
<1>2. \A g \in Grid : Right(c, After(c, g, frames[c]))'
  <2> TAKE g \in Grid
  <2>1. After(c, g, frames'[c]) = Receive(c, g, f)
    BY <1>1, AfterOne
  <2>2. /\ Receive(c, g, f).rows = s
        /\ \A r \in Row : r <= n => r \in Receive(c, g, f).has
        /\ c \in Follows => Receive(c, g, f).size = n
    BY <1>1, WholeScreen
  <2>3. QED
    BY <2>1, <2>2 DEF Right
<1>3. f.reset
  BY <1>1 DEF Whole
<1>4. QED
  BY <1>1, <1>2, <1>3 DEF Renewed

LEMMA UpdateRenews ==
  ASSUME TypeOK, Rows, Lanes, Waiting, ~redraw_all, NEW resized, resized \notin Channel, NEW joining,
         Broadcast(screen, size, FALSE, FALSE, resized, joining), size' = size, row_hashes' = screen,
         ~redraw_all', NEW c \in Channel, Live(c)
  PROVE  Renewed(c)
<1>1. Next_hashes = screen
  BY NextHashes
<1>2. CASE frames'[c] = frames[c] /\ row_hashes = Next_hashes
  BY <1>1, <1>2 DEF Renewed, Right
<1>3. ASSUME NEW f, Partial(f), frames[c] = {}, frames'[c] = {f} PROVE Renewed(c)
  <2>1. f.reset = FALSE
    BY <1>3 DEF Partial
  <2>2. ASSUME NEW g \in Grid, Right(c, After(c, g, frames[c])) PROVE Right(c, After(c, g, frames[c]))'
    <3>1. Right(c, g) /\ After(c, g, frames'[c]) = Receive(c, g, f)
      BY <1>3, <2>2, AfterOne
    <3>2. /\ Receive(c, g, f).rows = screen
          /\ Receive(c, g, f).has = g.has /\ Receive(c, g, f).size = g.size
      BY <1>1, <1>3, <3>1, PartialApplied
    <3>3. QED
      BY <3>1, <3>2 DEF Right
  <2>3. QED
    BY <1>3, <2>1, <2>2 DEF Renewed
<1>4. ASSUME NEW f, Partial(f), frames[c] # {}, frames'[c] = {Merge(older, f) : older \in frames[c]}
      PROVE  Renewed(c)
  <2>1. PICK older \in Frame : frames[c] = {older} /\ older.seq # 0 /\ older.size = size
    <3>1. PICK older \in frames[c] : TRUE
      BY <1>4
    <3>2. older \in Frame /\ older.seq # 0 /\ older.size = size
      BY <3>1 DEF Waiting, Lanes, TypeOK
    <3>3. frames[c] = {older}
      BY <3>1 DEF Waiting
    <3>4. QED
      BY <3>2, <3>3
  <2>2. frames'[c] = {Merge(older, f)} /\ Merge(older, f).reset = older.reset
    <3>1. frames'[c] = {Merge(older, f)}
      BY <1>4, <2>1, Zenon
    <3>2. Merge(older, f).reset = older.reset
      BY <1>4, <2>1 DEF Merge, Partial, Frame
    <3>3. QED
      BY <3>1, <3>2
  <2>3. ASSUME NEW g \in Grid, Right(c, After(c, g, frames[c])) PROVE Right(c, After(c, g, frames[c]))'
    <3>1. Right(c, Receive(c, g, older)) /\ After(c, g, frames'[c]) = Receive(c, g, Merge(older, f))
      <4>1. After(c, g, frames[c]) = Receive(c, g, older)
        BY <2>1, AfterOne
      <4>2. After(c, g, frames'[c]) = Receive(c, g, Merge(older, f))
        BY <2>2, AfterOne
      <4>3. QED
        BY <2>3, <4>1, <4>2
    <3>2. /\ Receive(c, g, Merge(older, f)).rows = screen
          /\ \A r \in Row : r <= size => r \in Receive(c, g, Merge(older, f)).has
          /\ c \in Follows => Receive(c, g, Merge(older, f)).size = size
      BY <1>1, <1>4, <2>1, <3>1, MergedApplied
    <3>3. QED
      BY <3>1, <3>2 DEF Right
  <2>4. QED
    BY <2>1, <2>2, <2>3 DEF Renewed
<1>5. QED
  BY <1>2, <1>3, <1>4, Updates

-----------------------------------------------------------------------------
(* Every step keeps the course of every channel *)

CourseOf(c) ==
  /\ Listening(c) /\ garbled[c] = "no" => Right(c, Upcoming(c))
  /\ (\E f \in InFlight(c) : f.reset)
       => \A g \in Grid : Right(c, After(c, After(c, g, InFlight(c)), frames[c]))
  /\ (\E f \in frames[c] : f.reset) => \A g \in Grid : Right(c, After(c, g, frames[c]))

\* What the app shows once it has its snapshot is a grid, and so on.
LEMMA HeldTypes ==
  ASSUME TypeOK, NEW c \in Channel
  PROVE  /\ After(c, grid[c], Snapshots(c)) \in Grid
         /\ \A g \in Grid : After(c, g, InFlight(c)) \in Grid
<1>1. grid[c] \in Grid /\ Snapshots(c) \in SUBSET Frame /\ InFlight(c) \in SUBSET Frame
  BY DEF TypeOK, Snapshots, InFlight
<1>2. QED
  BY <1>1, AfterType

\* The owner's steps, and all others that leave a channel's messages where they are.
LEMMA CourseKept ==
  ASSUME TypeOK, NEW c \in Channel, CourseOf(c), Renewed(c), UNCHANGED InFlight(c),
         Listening(c)' /\ garbled'[c] = "no" =>
           /\ Listening(c) /\ garbled[c] = "no"
           /\ After(c, grid[c], Snapshots(c))' = After(c, grid[c], Snapshots(c))
  PROVE  CourseOf(c)'
<1>1. PICK flying : flying = InFlight(c)
  OBVIOUS
<1>2. flying = InFlight(c)'
  BY <1>1
<1>3. PICK shown : shown = After(c, grid[c], Snapshots(c))
  OBVIOUS
<1>4. shown \in Grid /\ \A g \in Grid : After(c, g, flying) \in Grid
  BY <1>1, <1>3, HeldTypes
<1>5. Upcoming(c) = After(c, After(c, shown, flying), frames[c])
  BY <1>1, <1>3 DEF Upcoming
<1>6. ASSUME Listening(c)', garbled'[c] = "no" PROVE Right(c, Upcoming(c))'
  <2>1. Listening(c) /\ garbled[c] = "no" /\ shown = After(c, grid[c], Snapshots(c))'
    BY <1>3, <1>6
  <2>2. Right(c, After(c, After(c, shown, flying), frames[c]))
    BY <1>5, <2>1 DEF CourseOf
  <2>3. Upcoming(c)' = After(c, After(c, shown, flying), frames[c])'
    BY <1>2, <2>1 DEF Upcoming
  <2>4. PICK g \in Grid : g = After(c, shown, flying)
    BY <1>4
  <2>5. Right(c, After(c, g, frames[c]))'
    BY <2>2, <2>4 DEF Renewed
  <2>6. QED
    BY <2>3, <2>4, <2>5
<1>7. ASSUME \E f \in InFlight(c)' : f.reset, NEW h \in Grid
      PROVE  Right(c, After(c, After(c, h, InFlight(c)), frames[c]))'
  <2>1. Right(c, After(c, After(c, h, flying), frames[c]))
    BY <1>1, <1>2, <1>7 DEF CourseOf
  <2>2. PICK g \in Grid : g = After(c, h, flying)
    BY <1>4
  <2>3. Right(c, After(c, g, frames[c]))'
    BY <2>1, <2>2 DEF Renewed
  <2>4. QED
    BY <1>2, <2>2, <2>3
<1>8. ASSUME \E f \in frames'[c] : f.reset PROVE \A g \in Grid : Right(c, After(c, g, frames[c]))'
  BY <1>8 DEF CourseOf, Renewed
<1>9. QED
  BY <1>6, <1>7, <1>8 DEF CourseOf

\* The same for the other duty: a redraw under way, or a request the owner still has.
Duty(c) == Listening(c) /\ garbled[c] = "asked" /\ ~Redrawn(c) => asks[c] # <<>>

LEMMA DutyKept ==
  ASSUME NEW c \in Channel, Duty(c), Renewed(c), UNCHANGED <<InFlight(c), asks[c]>>,
         Listening(c)' /\ garbled'[c] = "asked" => Listening(c) /\ garbled[c] = "asked"
  PROVE  Duty(c)'
<1>1. ASSUME Redrawn(c), garbled[c] = "asked" PROVE Redrawn(c)'
  <2>1. \E f \in InFlight(c) \cup frames[c] : f.reset
    BY <1>1 DEF Redrawn
  <2>2. \E f \in InFlight(c)' \cup frames'[c] : f.reset
    BY <2>1 DEF Renewed
  <2>3. QED
    BY <2>2 DEF Redrawn
<1>2. QED
  BY <1>1 DEF Duty

\* A step that leaves the waiting frame and the rows taken alone renews the channel.
LEMMA RenewedBySame ==
  ASSUME NEW c \in Channel, frames'[c] = frames[c], UNCHANGED <<size, row_hashes>>,
         redraw_all => redraw_all'
  PROVE  Renewed(c)
BY DEF Renewed, Right

\* A new channel has its snapshot and nothing else under way.
LEMMA Joined ==
  ASSUME FlowInv, FlowInv', Guesses, NEW c \in attaching, c \in attachments', c \notin attachments,
         NEW n \in Size, NEW s \in Screens(n), size' = n, row_hashes' = s, control'[c] = {Snapshot(s, n)},
         frames'[c] = frames[c], UNCHANGED <<wire, grid, garbled, view>>
  PROVE  CourseOf(c)' /\ Duty(c)'
<1>1. c \in Channel /\ control[c] = {} /\ frames[c] = {} /\ wire[c] = {} /\ view[c] \in {"none", "gone"}
  BY DEF FlowInv, TypeOK, Life, Queued
<1>2. PICK f : f = Snapshot(s, n)
  OBVIOUS
<1>3. f \in Frame /\ f.seq = 0
  BY <1>2, ScreenType DEF Snapshot
<1>4. Whole(f, s, n)
  BY <1>2, <1>3 DEF Whole, Snapshot
<1>5. InFlight(c)' = {} /\ frames'[c] = {} /\ Snapshots(c)' = {f}
  BY <1>1, <1>2 DEF InFlight, Snapshots
<1>6. grid'[c] = grid[c] /\ grid[c] \in Grid
  BY <1>1 DEF FlowInv, TypeOK
<1>7. Upcoming(c)' = Receive(c, grid[c], f)
  <2>1. After(c, grid[c], Snapshots(c))' = Receive(c, grid[c], f)
    BY <1>5, <1>6 DEF After
  <2>2. QED
    BY <1>5, <2>1 DEF Upcoming, After
<1>8. Right(c, Upcoming(c))'
  <2>1. /\ Receive(c, grid[c], f).rows = s
        /\ \A r \in Row : r <= n => r \in Receive(c, grid[c], f).has
        /\ c \in Follows => Receive(c, grid[c], f).size = n
    <3>1. PICK g \in Grid : g = grid[c]
      BY <1>6
    <3>2. /\ Receive(c, g, f).rows = s
          /\ \A r \in Row : r <= n => r \in Receive(c, g, f).has
          /\ c \in Follows => Receive(c, g, f).size = n
      BY <1>4, WholeScreen
    <3>3. QED
      BY <3>1, <3>2
  <2>2. QED
    BY <1>7, <2>1 DEF Right
<1>9. Listening(c)' => garbled'[c] = "no"
  BY <1>1 DEF Listening, Guesses
<1>10. QED
  BY <1>5, <1>8, <1>9 DEF CourseOf, Duty

\* The two parts of the invariant that speak of channels, one channel at a time.
LEMMA PerChannel ==
  /\ Course <=> \A c \in Channel : Live(c) => CourseOf(c)
  /\ RedrawComes <=> \A c \in Channel : Duty(c)
  /\ \A c \in Channel : ~Live(c) => Duty(c)
BY DEF Course, CourseOf, RedrawComes, Duty, Listening, Live

\* What the steps of the server and of the apps leave of the owner's knowledge.
LEMMA OwnerIdle ==
  ASSUME Rows, UNCHANGED ownerVars
  PROVE  Rows' /\ \A c \in Channel : frames'[c] = frames[c] => Renewed(c)
<1>1. UNCHANGED <<size, row_hashes, redraw_all, screen, dirty, resize_pending, attachments>>
  BY DEF ownerVars
<1>2. QED
  BY <1>1, RenewedBySame DEF Rows

\* A waiting frame belongs to a live channel.
LEMMA WaitsForLive ==
  ASSUME FlowInv, NEW c \in Channel, frames[c] # {}
  PROVE  Live(c)
BY DEF FlowInv, Life, Lanes, Served, Queued, Live

LEMMA ServerKeepsCourse ==
  ASSUME StreamInv, FlowInv', Server
  PROVE  Rows' /\ Waiting' /\ Guesses' /\ \A c \in Channel : Live(c)' => CourseOf(c)' /\ Duty(c)'
<1> USE DEF StreamInv
<1>1. TypeOK /\ \A c \in Channel : Duty(c) /\ (Live(c) => CourseOf(c))
  BY PerChannel DEF FlowInv
<1>2. ASSUME NEW c \in Channel, Attach(c) \/ Detach(c) \/ Disconnect(c)
      PROVE  Rows' /\ Waiting' /\ Guesses' /\ \A d \in Channel : Live(d)' => CourseOf(d)' /\ Duty(d)'
  <2>1. /\ UNCHANGED <<ownerVars, grid, garbled>>
        /\ frames'[c] = frames[c] \/ frames'[c] = {}
        /\ ~Live(c)'
        /\ \A d \in Channel : d # c =>
             /\ credit'[d] = credit[d] /\ view'[d] = view[d] /\ control'[d] = control[d] /\ wire'[d] = wire[d]
             /\ frames'[d] = frames[d] /\ asks'[d] = asks[d]
        /\ view'[c] = view[c] \/ view'[c] = "gone"
    <3>1. CASE Attach(c)
      <4>1. c \notin attachments
        BY <3>1 DEF Attach, FlowInv, Life, Fresh, Unopened, Open
      <4>2. QED
        BY <1>1, <3>1, <4>1 DEF Attach, ownerVars, wireVars, appVars, TypeOK, Live
    <3>2. CASE Detach(c)
      BY <1>1, <3>2 DEF Detach, CloseChannel, ownerVars, wireVars, appVars, TypeOK, Live, Open
    <3>3. CASE Disconnect(c)
      BY <1>1, <3>3 DEF Disconnect, CloseChannel, ownerVars, TypeOK, Live, Open
    <3>4. QED
      BY <1>2, <3>1, <3>2, <3>3
  <2>2. Rows' /\ \A d \in Channel : frames'[d] = frames[d] => Renewed(d)
    BY <2>1, OwnerIdle
  <2>3. Waiting' /\ Guesses'
    BY <2>1 DEF Waiting, Guesses, ownerVars
  <2>4. ASSUME NEW d \in Channel, Live(d)' PROVE CourseOf(d)' /\ Duty(d)'
    <3>1. d # c
      BY <2>1, <2>4
    <3>2. /\ frames'[d] = frames[d] /\ asks'[d] = asks[d] /\ UNCHANGED <<InFlight(d), Snapshots(d)>>
          /\ Live(d) /\ (Listening(d)' <=> Listening(d))
          /\ grid'[d] = grid[d] /\ garbled'[d] = garbled[d]
      BY <2>1, <2>4, <3>1 DEF InFlight, Snapshots, Live, Listening, Open, ownerVars
    <3>3. After(d, grid[d], Snapshots(d))' = After(d, grid[d], Snapshots(d))
      BY <3>2
    <3>4. QED
      BY <1>1, <2>2, <3>2, <3>3, CourseKept, DutyKept
  <2>5. QED
    BY <2>2, <2>3, <2>4
<1>3. ASSUME NEW c \in Channel, WriteControl(c) \/ \E n \in acks[c] : Ack(c, n)
      PROVE  Rows' /\ Waiting' /\ Guesses' /\ \A d \in Channel : Live(d)' => CourseOf(d)' /\ Duty(d)'
  <2>1. /\ UNCHANGED <<ownerVars, grid, garbled, view, frames, asks>>
        /\ \A d \in Channel :
             /\ Open(d)' => Open(d)
             /\ UNCHANGED <<InFlight(d), Snapshots(d)>>
    <3>1. CASE WriteControl(c)
      <4>1. \A f \in control[c] : f.seq = 0
        BY DEF FlowInv, Life, Lanes
      <4>2. /\ control'[c] = {} /\ wire'[c] = wire[c] \cup control[c]
            /\ \A d \in Channel : d # c => control'[d] = control[d] /\ wire'[d] = wire[d]
        BY <1>1, <3>1 DEF WriteControl, TypeOK
      <4>3. InFlight(c)' = InFlight(c) /\ Snapshots(c)' = Snapshots(c)
        BY <4>1, <4>2 DEF InFlight, Snapshots
      <4>4. \A d \in Channel : d # c => InFlight(d)' = InFlight(d) /\ Snapshots(d)' = Snapshots(d)
        BY <4>2 DEF InFlight, Snapshots
      <4>5. QED
        BY <3>1, <4>3, <4>4 DEF WriteControl, ownerVars, queueVars, appVars, Open
    <3>2. ASSUME NEW n \in acks[c], Ack(c, n)
          PROVE  /\ UNCHANGED <<ownerVars, grid, garbled, view, frames, asks>>
                 /\ \A d \in Channel :
                      /\ Open(d)' => Open(d)
                      /\ UNCHANGED <<InFlight(d), Snapshots(d)>>
      BY <1>1, <3>2 DEF Ack, ownerVars, queueVars, appVars, Open, InFlight, Snapshots, TypeOK
    <3>3. QED
      BY <1>3, <3>1, <3>2
  <2>2. Rows' /\ \A d \in Channel : Renewed(d)
    BY <2>1, OwnerIdle
  <2>3. Waiting' /\ Guesses'
    BY <2>1 DEF Waiting, Guesses, ownerVars
  <2>4. ASSUME NEW d \in Channel, Live(d)' PROVE CourseOf(d)' /\ Duty(d)'
    <3>1. /\ UNCHANGED <<InFlight(d), Snapshots(d), asks[d]>>
          /\ Live(d) /\ (Listening(d)' => Listening(d))
          /\ grid'[d] = grid[d] /\ garbled'[d] = garbled[d]
      BY <2>1, <2>4 DEF Live, Listening, ownerVars
    <3>2. After(d, grid[d], Snapshots(d))' = After(d, grid[d], Snapshots(d))
      BY <3>1
    <3>3. QED
      BY <1>1, <2>2, <3>1, <3>2, CourseKept, DutyKept
  <2>5. QED
    BY <2>2, <2>3, <2>4
<1>4. ASSUME NEW c \in Channel, WriteFrame(c)
      PROVE  Rows' /\ Waiting' /\ Guesses' /\ \A d \in Channel : Live(d)' => CourseOf(d)' /\ Duty(d)'
  <2>1. PICK f \in frames[c] : /\ wire' = [wire EXCEPT ![c] = @ \cup {f}]
                              /\ sent' = [sent EXCEPT ![c] = f.seq]
    BY <1>4 DEF WriteFrame
  <2>2. /\ UNCHANGED <<ownerVars, grid, garbled, view, asks, control>>
        /\ credit[c] = "ready" /\ frames' = [frames EXCEPT ![c] = {}]
        /\ credit' = [credit EXCEPT ![c] = "used"]
    BY <1>4 DEF WriteFrame, ownerVars, queueVars, appVars
  <2>3. /\ wire'[c] = wire[c] \cup {f} /\ frames'[c] = {}
        /\ \A d \in Channel : d # c => wire'[d] = wire[d] /\ frames'[d] = frames[d]
        /\ \A d \in Channel : Open(d)' => Open(d)
    BY <1>1, <2>1, <2>2 DEF TypeOK, Open
  <2>4. f.seq # 0 /\ InFlight(c) = {} /\ frames[c] = {f}
    BY <2>2 DEF FlowInv, Life, Lanes, FlowControl, Open, Waiting
  <2>5. InFlight(c)' = {f} /\ Snapshots(c)' = Snapshots(c)
    BY <2>2, <2>3, <2>4 DEF InFlight, Snapshots
  <2>6. \A d \in Channel : d # c => InFlight(d)' = InFlight(d) /\ Snapshots(d)' = Snapshots(d)
    BY <2>2, <2>3 DEF InFlight, Snapshots
  <2>7. Rows' /\ \A d \in Channel : d # c => Renewed(d)
    BY <2>2, <2>3, OwnerIdle
  <2>8. Waiting' /\ Guesses'
    BY <2>2, <2>3 DEF Waiting, Guesses, ownerVars
  <2>9. ASSUME NEW d \in Channel, Live(d)', d # c PROVE CourseOf(d)' /\ Duty(d)'
    <3>1. /\ UNCHANGED <<InFlight(d), Snapshots(d), asks[d]>>
          /\ Live(d) /\ (Listening(d)' => Listening(d))
          /\ grid'[d] = grid[d] /\ garbled'[d] = garbled[d]
      BY <2>2, <2>3, <2>6, <2>9 DEF Live, Listening, ownerVars
    <3>2. After(d, grid[d], Snapshots(d))' = After(d, grid[d], Snapshots(d))
      BY <3>1
    <3>3. QED
      BY <1>1, <2>7, <2>9, <3>1, <3>2, CourseKept, DutyKept
  <2>10. ASSUME Live(c)' PROVE CourseOf(c)' /\ Duty(c)'
    <3>1. /\ Live(c) /\ (Listening(c)' => Listening(c)) /\ CourseOf(c) /\ Duty(c)
          /\ grid'[c] = grid[c] /\ garbled'[c] = garbled[c] /\ asks'[c] = asks[c]
          /\ UNCHANGED <<size, row_hashes, redraw_all>>
      BY <1>1, <2>2, <2>3, <2>10 DEF Live, Listening, ownerVars
    <3>2. \A g : Right(c, g)' <=> Right(c, g)
      BY <3>1 DEF Right
    <3>3. \A g : /\ After(c, After(c, g, InFlight(c)), frames[c]) = Receive(c, g, f)
                 /\ After(c, g, frames[c]) = Receive(c, g, f)
                 /\ After(c, After(c, g, InFlight(c)'), frames'[c]) = Receive(c, g, f)
      BY <2>3, <2>4, <2>5 DEF After
    <3>4. Upcoming(c)' = Upcoming(c)
      BY <2>5, <3>1, <3>3 DEF Upcoming
    <3>5. CourseOf(c)'
      BY <2>3, <2>4, <2>5, <3>1, <3>2, <3>3, <3>4 DEF CourseOf
    <3>6. Redrawn(c)' <=> Redrawn(c)
      BY <2>3, <2>4, <2>5, <3>1 DEF Redrawn
    <3>7. QED
      BY <3>1, <3>5, <3>6 DEF Duty
  <2>11. QED
    BY <2>7, <2>8, <2>9, <2>10
<1>5. QED
  BY <1>2, <1>3, <1>4 DEF Server

LEMMA AppKeepsCourse ==
  ASSUME StreamInv, FlowInv', App
  PROVE  Rows' /\ Waiting' /\ Guesses' /\ \A c \in Channel : Live(c)' => CourseOf(c)' /\ Duty(c)'
<1> USE DEF StreamInv
<1>1. TypeOK /\ \A c \in Channel : Duty(c) /\ (Live(c) => CourseOf(c))
  BY PerChannel DEF FlowInv
<1>2. UNCHANGED <<ownerVars, frames, credit, control>>
  BY DEF App, Attached, ReceiveFrame, CloseView, Resize, RefusedResize, outboxVars
<1>3. /\ Rows' /\ \A d \in Channel : Renewed(d)
      /\ Waiting' /\ (\A d \in Channel : Live(d)' <=> Live(d))
      /\ \A d \in Channel : \A g : Right(d, g)' <=> Right(d, g)
  BY <1>2, OwnerIdle DEF Waiting, Live, Open, ownerVars, Right
\* The channels a step of another's app leaves alone.
<1>4. ASSUME NEW d \in Channel, Live(d)', wire'[d] = wire[d], view'[d] = view[d], grid'[d] = grid[d],
             garbled'[d] = garbled[d], asks'[d] = asks[d]
      PROVE  CourseOf(d)' /\ Duty(d)'
  <2>1. UNCHANGED <<InFlight(d), Snapshots(d), asks[d]>> /\ Live(d) /\ (Listening(d)' => Listening(d))
    BY <1>2, <1>3, <1>4 DEF InFlight, Snapshots, Listening, Open, ownerVars
  <2>2. After(d, grid[d], Snapshots(d))' = After(d, grid[d], Snapshots(d))
    BY <1>4, <2>1
  <2>3. QED
    BY <1>1, <1>3, <1>4, <2>1, <2>2, CourseKept, DutyKept
<1>5. ASSUME NEW c \in Channel, Attached(c)
      PROVE  Guesses' /\ \A d \in Channel : Live(d)' => CourseOf(d)' /\ Duty(d)'
  <2>1. PICK f \in wire[c] : /\ f.seq = 0 /\ grid' = [grid EXCEPT ![c] = Receive(c, @, f)]
                            /\ wire' = [wire EXCEPT ![c] = @ \ {f}]
    BY <1>5 DEF Attached
  <2>2. view' = [view EXCEPT ![c] = "open"] /\ UNCHANGED <<garbled, asks>>
    BY <1>5 DEF Attached, queueVars
  <2>3. /\ wire'[c] = wire[c] \ {f} /\ view'[c] = "open" /\ grid'[c] = Receive(c, grid[c], f)
        /\ \A d \in Channel : d # c => wire'[d] = wire[d] /\ view'[d] = view[d] /\ grid'[d] = grid[d]
    BY <1>1, <2>1, <2>2 DEF TypeOK
  <2>4. f \in Snapshots(c)
    BY <2>1 DEF Snapshots
  <2>5. view[c] = "none" /\ Snapshots(c) = {f}
    BY <2>4 DEF FlowInv, Life, Announced
  <2>6. InFlight(c)' = InFlight(c)
    BY <2>1, <2>3 DEF InFlight
  <2>7. Snapshots(c)' = {}
    BY <1>2, <2>1, <2>3, <2>5 DEF Snapshots, FlowInv, Life, Announced
  <2>8. After(c, grid[c], Snapshots(c))' = After(c, grid[c], Snapshots(c))
    BY <2>3, <2>5, <2>7 DEF After
  <2>9. ASSUME Live(c)' PROVE CourseOf(c)' /\ Duty(c)'
    <3>1. Live(c) /\ (Listening(c)' => Listening(c)) /\ garbled'[c] = garbled[c] /\ asks'[c] = asks[c]
      BY <1>2, <1>3, <2>2, <2>5, <2>9 DEF Listening, Live, ownerVars
    <3>2. QED
      BY <1>1, <1>3, <2>6, <2>8, <3>1, CourseKept, DutyKept
  <2>10. Guesses'
    BY <2>2, <2>3 DEF Guesses
  <2>11. QED
    BY <1>4, <2>2, <2>3, <2>9, <2>10
<1>6. ASSUME NEW c \in Channel, ReceiveFrame(c)
      PROVE  Guesses' /\ \A d \in Channel : Live(d)' => CourseOf(d)' /\ Duty(d)'
  <2>1. PICK f \in wire[c] :
          /\ Oldest(c, f) /\ f.seq # 0
          /\ wire' = [wire EXCEPT ![c] = @ \ {f}]
          /\ IF view[c] = "open"
             THEN /\ grid' = [grid EXCEPT ![c] = Receive(c, @, f)]
                  /\ garbled' = [garbled EXCEPT ![c] = IF f.reset THEN "no" ELSE @]
             ELSE UNCHANGED <<grid, garbled>>
    BY <1>6 DEF ReceiveFrame
  <2>2. UNCHANGED <<view, asks>>
    BY <1>6 DEF ReceiveFrame, queueVars
  <2>3. \A g \in wire[c] : g.seq # 0
    <3> SUFFICES ASSUME NEW g \in wire[c], g.seq = 0 PROVE FALSE
      OBVIOUS
    <3>1. f \in Frame
      BY <1>1 DEF TypeOK
    <3>2. f.seq \in Nat /\ f.seq <= 0
      BY <2>1, <3>1 DEF Oldest, Frame
    <3>3. QED
      BY <2>1, <3>2
  <2>4. f \in InFlight(c) /\ view[c] # "none"
    BY <2>1, <2>3 DEF InFlight, FlowInv, AttachedFirst
  <2>5. Snapshots(c) = {} /\ Snapshots(c)' = {}
    BY <1>2, <2>1, <2>2, <2>4 DEF FlowInv, Life, Announced
  <2>6. /\ wire'[c] = wire[c] \ {f}
        /\ view[c] = "open" => /\ grid'[c] = Receive(c, grid[c], f)
                               /\ garbled'[c] = IF f.reset THEN "no" ELSE garbled[c]
        /\ \A d \in Channel : d # c => wire'[d] = wire[d] /\ grid'[d] = grid[d] /\ garbled'[d] = garbled[d]
    BY <1>1, <2>1 DEF TypeOK
  <2>7. ASSUME Live(c)' PROVE CourseOf(c)' /\ Duty(c)'
    <3>1. Live(c) /\ Open(c) /\ CourseOf(c) /\ Duty(c) /\ grid[c] \in Grid
      BY <1>1, <1>3, <2>7 DEF Live, TypeOK
    <3>2. InFlight(c) = {f}
      BY <2>4, <3>1 DEF FlowInv, FlowControl
    <3>3. InFlight(c)' = {}
      BY <2>6, <3>2 DEF InFlight
    <3>4. ASSUME Listening(c)' PROVE view[c] = "open" /\ Listening(c)
      BY <2>2, <2>4, <3>1, <3>4 DEF Listening, Live
    <3>5. frames'[c] = frames[c]
      BY <1>2
    <3>6. ASSUME Listening(c)', garbled'[c] = "no" PROVE Right(c, Upcoming(c))'
      <4>1. Upcoming(c)' = After(c, Receive(c, grid[c], f), frames[c])
        BY <2>5, <2>6, <3>3, <3>4, <3>5, <3>6 DEF Upcoming, After
      <4>2. After(c, grid[c], InFlight(c)) = Receive(c, grid[c], f)
        BY <3>2, AfterOne
      <4>3. CASE f.reset
        BY <1>3, <3>1, <3>2, <4>1, <4>2, <4>3 DEF CourseOf
      <4>4. CASE ~f.reset
        <5>1. Upcoming(c) = After(c, Receive(c, grid[c], f), frames[c])
          BY <2>5, <4>2 DEF Upcoming, After
        <5>2. garbled[c] = "no"
          BY <2>6, <3>4, <3>6, <4>4
        <5>3. QED
          BY <1>3, <3>1, <3>4, <3>6, <4>1, <5>1, <5>2 DEF CourseOf
      <4>5. QED
        BY <4>3, <4>4
    <3>7. CourseOf(c)'
      BY <1>3, <3>1, <3>3, <3>5, <3>6 DEF CourseOf
    <3>8. ASSUME Listening(c)', garbled'[c] = "asked", Redrawn(c) PROVE Redrawn(c)'
      <4>1. ~f.reset /\ garbled[c] = "asked"
        BY <2>6, <3>4, <3>8
      <4>2. \E g \in frames'[c] : g.reset
        BY <3>2, <3>5, <3>8, <4>1 DEF Redrawn
      <4>3. QED
        BY <4>2 DEF Redrawn
    <3>9. ASSUME Listening(c)', garbled'[c] = "asked" PROVE garbled[c] = "asked"
      BY <2>6, <3>4, <3>9
    <3>10. QED
      BY <2>2, <3>1, <3>4, <3>7, <3>8, <3>9 DEF Duty
  <2>8. Guesses'
    BY <2>2, <2>4, <2>6 DEF Guesses
  <2>9. QED
    BY <1>4, <2>2, <2>6, <2>7, <2>8
<1>7. ASSUME NEW c \in Channel,
             CloseView(c) \/ \E n \in Size : Resize(c, n) \/ RefusedResize(c, n)
      PROVE  Guesses' /\ \A d \in Channel : Live(d)' => CourseOf(d)' /\ Duty(d)'
  <2>1. /\ wire' = wire /\ view[c] = "open"
        /\ \A d \in Channel : d # c => /\ view'[d] = view[d] /\ grid'[d] = grid[d]
                                       /\ garbled'[d] = garbled[d] /\ asks'[d] = asks[d]
        /\ \/ view'[c] = "closed"
           \/ view'[c] = "open" /\ garbled'[c] = "asked" /\ asks'[c] # <<>>
           \/ view'[c] = "open" /\ garbled'[c] = "refused"
    <3>1. CASE CloseView(c)
      BY <1>1, <3>1 DEF CloseView, TypeOK, queueVars, wireVars
    <3>2. ASSUME NEW n \in Size, Resize(c, n)
          PROVE  /\ wire' = wire /\ view[c] = "open"
                 /\ \A d \in Channel : d # c => /\ view'[d] = view[d] /\ grid'[d] = grid[d]
                                                /\ garbled'[d] = garbled[d] /\ asks'[d] = asks[d]
                 /\ view'[c] = "open" /\ garbled'[c] = "asked" /\ asks'[c] # <<>>
      <4>1. asks[c] \in Seq(Size)
        BY <1>1 DEF TypeOK
      <4>2. Append(asks[c], n) # <<>>
        BY <4>1
      <4>3. asks'[c] = Append(asks[c], n)
        BY <1>1, <3>2 DEF Resize, TypeOK
      <4>4. QED
        BY <1>1, <3>2, <4>2, <4>3 DEF Resize, TypeOK, wireVars
    <3>3. ASSUME NEW n \in Size, RefusedResize(c, n)
          PROVE  /\ wire' = wire /\ view[c] = "open"
                 /\ \A d \in Channel : d # c => /\ view'[d] = view[d] /\ grid'[d] = grid[d]
                                                /\ garbled'[d] = garbled[d] /\ asks'[d] = asks[d]
                 /\ view'[c] = "open" /\ garbled'[c] = "refused"
      BY <1>1, <3>3 DEF RefusedResize, TypeOK, queueVars, wireVars
    <3>4. QED
      BY <1>7, <3>1, <3>2, <3>3
  <2>2. Guesses'
    BY <2>1 DEF Guesses
  <2>3. ASSUME Live(c)' PROVE CourseOf(c)' /\ Duty(c)'
    <3>1. /\ UNCHANGED InFlight(c) /\ CourseOf(c) /\ ~(Listening(c)' /\ garbled'[c] = "no")
      BY <1>1, <1>3, <2>1, <2>3 DEF InFlight, Listening
    <3>2. CourseOf(c)'
      BY <1>1, <1>3, <3>1, CourseKept
    <3>3. Duty(c)'
      BY <2>1 DEF Duty, Listening
    <3>4. QED
      BY <3>2, <3>3
  <2>4. QED
    BY <1>4, <2>1, <2>2, <2>3
<1>8. QED
  BY <1>3, <1>5, <1>6, <1>7 DEF App

\* The attached channels after a broadcast, whatever was due.
LEMMA BroadcastKeepsCourse ==
  ASSUME StreamInv, FlowInv', attachments # {},
         NEW resized, resized \notin Channel, NEW joining \in SUBSET Channel,
         Broadcast(screen, size, resize_pending, redraw_all, resized, joining),
         UNCHANGED <<screen, size, wire, grid, garbled, view, credit>>, ~resize_pending'
  PROVE  /\ Rows' /\ Waiting' /\ Guesses' /\ row_hashes' = screen
         /\ \A c \in Channel : Live(c) => Renewed(c)
<1> USE DEF StreamInv
<1>1. TypeOK /\ TypeOK' /\ Lanes
  BY DEF FlowInv, Life
<1>2. /\ size \in Size /\ screen \in Screens(size) /\ screen \in [Row -> Cell]
      /\ redraw_all \in BOOLEAN /\ resize_pending = redraw_all
  BY <1>1 DEF TypeOK, Rows, Screens
<1>3. TakeRows(screen, redraw_all)
  BY DEF Broadcast
<1>4. row_hashes' = screen /\ dirty' = {} /\ redraw_all' = FALSE
  <2>1. PICK s \in [Row -> Cell] : s = screen
    BY <1>2
  <2>2. PICK all \in BOOLEAN : all = redraw_all
    BY <1>2
  <2>3. row_hashes' = s /\ dirty' = {} /\ redraw_all' = FALSE
    BY <1>1, <1>3, <2>1, <2>2, TakenScreen
  <2>4. QED
    BY <2>1, <2>3
<1>5. Rows'
  BY <1>1, <1>2, <1>4 DEF Rows, Screens
<1>6. ASSUME NEW c \in Channel, Live(c)
      PROVE  /\ Renewed(c)
             /\ \A f, g \in frames'[c] : f = g
             /\ \A f \in frames'[c] : f.size = size
  <2>1. CASE redraw_all
    <3>1. PICK n \in Size : n = size
      BY <1>2
    <3>2. PICK s \in Screens(n) : s = screen
      BY <1>2, <3>1
    <3>3. Broadcast(s, n, TRUE, TRUE, resized, joining)
      BY <1>2, <2>1, <3>1, <3>2
    <3>4. Renewed(c)
      BY <1>1, <1>4, <1>6, <3>1, <3>2, <3>3, RedrawRenews
    <3>5. \E f : Whole(f, s, n) /\ f.seq # 0 /\ frames'[c] = {f}
      BY <1>1, <1>6, <3>3, Redraws
    <3>6. QED
      BY <3>1, <3>4, <3>5 DEF Whole
  <2>2. CASE ~redraw_all
    <3>1. Broadcast(screen, size, FALSE, FALSE, resized, joining)
      BY <1>2, <2>2
    <3>2. Renewed(c)
      BY <1>1, <1>4, <1>6, <2>2, <3>1, UpdateRenews
    <3>3. CASE frames'[c] = frames[c]
      BY <3>2, <3>3 DEF Waiting
    <3>4. ASSUME NEW f, Partial(f), frames'[c] = {f} PROVE \A g, h \in frames'[c] : g = h /\ g.size = size
      BY <3>4 DEF Partial
    <3>5. ASSUME NEW f, Partial(f), frames[c] # {}, frames'[c] = {Merge(older, f) : older \in frames[c]}
          PROVE  \A g, h \in frames'[c] : g = h /\ g.size = size
      <4>1. PICK older \in Frame : frames[c] = {older}
        <5>1. PICK older \in frames[c] : TRUE
          BY <3>5
        <5>2. older \in Frame
          BY <1>1, <5>1 DEF TypeOK
        <5>3. frames[c] = {older}
          BY <5>1 DEF Waiting
        <5>4. QED
          BY <5>2, <5>3
      <4>2. frames'[c] = {Merge(older, f)}
        BY <3>5, <4>1, Zenon
      <4>3. Merge(older, f).size = size
        BY <3>5, <4>1 DEF Merge, Partial, Frame
      <4>4. QED
        BY <4>2, <4>3
    <3>6. QED
      BY <1>1, <1>6, <2>2, <3>1, <3>2, <3>3, <3>4, <3>5, Updates
  <2>3. QED
    BY <2>1, <2>2
<1>7. ASSUME NEW c \in Channel, ~Live(c) PROVE frames'[c] = frames[c]
  BY <1>7 DEF Broadcast, PushFrames, Live, Open
<1>8. Waiting'
  BY <1>6, <1>7 DEF Waiting
<1>9. Guesses'
  BY DEF Guesses
<1>10. QED
  BY <1>4, <1>5, <1>6, <1>8, <1>9

LEMMA OwnerKeepsCourse ==
  ASSUME StreamInv, FlowInv', Owner
  PROVE  Rows' /\ Waiting' /\ Guesses' /\ \A c \in Channel : Live(c)' => CourseOf(c)' /\ Duty(c)'
<1> DEFINE Kept == Rows' /\ Waiting' /\ Guesses' /\ \A c \in Channel : Live(c)' => CourseOf(c)' /\ Duty(c)'
<1> USE DEF StreamInv
<1>1. /\ TypeOK /\ TypeOK' /\ Lanes /\ OwnerStep
      /\ \A c \in Channel : Duty(c) /\ (Live(c) => CourseOf(c))
  BY PerChannel, OwnerSteps DEF FlowInv, Life
<1>2. UNCHANGED <<grid, garbled, view, credit, wire>>
  BY <1>1 DEF Owner, Feed, ClearScreen, Tick, AttachFirst, AttachAnother, ResizeAttachment, OwnerDetach,
              OfferSnapshot, wireVars, appVars, outboxVars, OwnerStep
\* A channel the owner had already.
<1>3. ASSUME NEW c \in Channel, Live(c), Renewed(c), control'[c] = control[c], asks'[c] = asks[c]
      PROVE  CourseOf(c)' /\ Duty(c)'
  <2>1. /\ UNCHANGED <<InFlight(c), Snapshots(c), asks[c]>> /\ (Listening(c)' => Listening(c))
        /\ grid'[c] = grid[c] /\ garbled'[c] = garbled[c]
    BY <1>2, <1>3 DEF InFlight, Snapshots, Listening, Live, Open
  <2>2. After(c, grid[c], Snapshots(c))' = After(c, grid[c], Snapshots(c))
    BY <2>1
  <2>3. QED
    BY <1>1, <1>3, <2>1, <2>2, CourseKept, DutyKept
<1>4. ASSUME \/ \E r \in Row, v \in Cell : Feed(r, v)
             \/ ClearScreen
             \/ \E c \in Channel : OwnerDetach(c)
      PROVE  Kept
  <2>1. /\ UNCHANGED <<control, frames, asks, size, row_hashes>>
        /\ (redraw_all => redraw_all') /\ attachments' \subseteq attachments
    BY <1>4 DEF Feed, ClearScreen, OwnerDetach, queueVars, outboxVars
  <2>2. Rows'
    <3>1. ASSUME NEW r \in Row, NEW v \in Cell, Feed(r, v) PROVE Rows'
      BY <1>1, <3>1 DEF Feed, Rows, TypeOK, Screens
    <3>2. CASE ClearScreen
      BY <3>2 DEF ClearScreen, Rows
    <3>3. ASSUME NEW c \in Channel, OwnerDetach(c) PROVE Rows'
      BY <3>3 DEF OwnerDetach, Rows
    <3>4. QED
      BY <1>4, <3>1, <3>2, <3>3
  <2>3. Waiting' /\ Guesses'
    BY <1>2, <2>1 DEF Waiting, Guesses
  <2>4. ASSUME NEW c \in Channel, Live(c)' PROVE CourseOf(c)' /\ Duty(c)'
    <3>1. Live(c) /\ frames'[c] = frames[c] /\ control'[c] = control[c] /\ asks'[c] = asks[c]
      BY <1>2, <2>1, <2>4 DEF Live, Open
    <3>2. QED
      BY <1>3, <2>1, <3>1, RenewedBySame
  <2>5. QED
    BY <2>2, <2>3, <2>4
<1>5. CASE Tick
  <2>1. /\ Broadcast(screen, size, resize_pending, redraw_all, Nobody, {})
        /\ resize_pending' = FALSE /\ UNCHANGED <<screen, size, control, asks>>
    BY <1>5 DEF Tick, queueVars
  <2>2. CASE attachments = {}
    <3>1. attachments' = {} /\ UNCHANGED <<redraw_all, dirty, row_hashes>>
      BY <2>1, <2>2 DEF Broadcast
    <3>2. Rows'
      BY <2>1, <3>1 DEF Rows
    <3>3. \A c \in Channel : frames'[c] = frames[c]
      BY <2>1, <2>2 DEF Broadcast, PushFrames
    <3>4. QED
      BY <1>2, <2>1, <3>1, <3>2, <3>3 DEF Waiting, Guesses, Live
  <2>3. CASE attachments # {}
    <3>1. Nobody \notin Channel /\ {} \in SUBSET Channel
      BY ConstantsAssumption
    <3>2. Rows' /\ Waiting' /\ Guesses' /\ \A c \in Channel : Live(c) => Renewed(c)
      BY <1>2, <2>1, <2>3, <3>1, BroadcastKeepsCourse
    <3>3. \A c \in Channel : Live(c)' => Live(c)
      BY <1>2, <2>1 DEF Live, Open, Broadcast
    <3>4. QED
      BY <1>3, <2>1, <3>2, <3>3
  <2>4. QED
    BY <2>2, <2>3
<1>6. ASSUME NEW c \in Channel, NEW n \in Size, AttachFirst(c, n) PROVE Kept
  <2>1. /\ attachments = {} /\ size' = n /\ (n = size => screen' = screen)
        /\ TakeRows(screen', redraw_all \/ n # size) /\ attachments' = Joining(c)
        /\ UNCHANGED frames /\ resize_pending' = FALSE /\ c \in attaching
        /\ control' = [control EXCEPT ![c] = IF Joining(c) = {} THEN @ ELSE {Snapshot(screen', n)}]
    BY <1>6 DEF AttachFirst, OfferSnapshot
  <2>2. PICK s \in Screens(n) : s = screen'
    BY <1>1, <2>1 DEF TypeOK
  <2>3. PICK all \in BOOLEAN : all = (redraw_all \/ n # size)
    BY <1>1 DEF TypeOK
  <2>4. s \in [Row -> Cell]
    BY DEF Screens
  <2>5. row_hashes' = s /\ dirty' = {} /\ redraw_all' = FALSE
    <3>1. redraw_all => all
      BY <2>3
    <3>2. ~all => s = screen
      BY <2>1, <2>2, <2>3
    <3>3. TakeRows(s, all)
      BY <2>1, <2>2, <2>3
    <3>4. QED
      BY <1>1, <2>4, <3>1, <3>2, <3>3, TakenScreen
  <2>6. Rows'
    BY <1>1, <2>1, <2>2, <2>5 DEF Rows, Screens
  <2>7. \A d \in Channel : frames[d] = {}
    BY <2>1, WaitsForLive DEF Live
  <2>8. Waiting' /\ Guesses'
    BY <1>2, <2>1, <2>7 DEF Waiting, Guesses
  <2>9. ASSUME NEW d \in Channel, Live(d)' PROVE CourseOf(d)' /\ Duty(d)'
    <3>1. d = c /\ c \in attachments' /\ c \notin attachments /\ Joining(c) # {}
      BY <2>1, <2>9 DEF Live, Joining
    <3>2. control'[c] = {Snapshot(s, n)} /\ frames'[c] = frames[c]
      BY <1>1, <2>1, <2>2, <3>1 DEF TypeOK
    <3>3. QED
      BY <1>2, <2>1, <2>5, <3>1, <3>2, Joined
  <2>10. QED
    BY <2>6, <2>8, <2>9
<1>7. ASSUME NEW c \in Channel, AttachAnother(c) PROVE Kept
  <2>1. /\ Broadcast(screen, size, resize_pending, redraw_all, Nobody, Joining(c))
        /\ attachments # {} /\ resize_pending' = FALSE /\ c \in attaching /\ UNCHANGED <<screen, size, asks>>
        /\ control' = [control EXCEPT ![c] = IF Joining(c) = {} THEN @ ELSE {Snapshot(screen, size)}]
    BY <1>7 DEF AttachAnother, OfferSnapshot
  <2>2. Nobody \notin Channel /\ Joining(c) \in SUBSET Channel
    BY ConstantsAssumption DEF Joining
  <2>3. Rows' /\ Waiting' /\ Guesses' /\ row_hashes' = screen /\ \A d \in Channel : Live(d) => Renewed(d)
    BY <1>2, <2>1, <2>2, BroadcastKeepsCourse
  <2>4. c \notin attachments
    BY <2>1 DEF FlowInv, Life, Queued
  <2>5. ASSUME NEW d \in Channel, Live(d)', d # c PROVE CourseOf(d)' /\ Duty(d)'
    <3>1. Live(d) /\ control'[d] = control[d]
      BY <1>1, <1>2, <2>1, <2>5 DEF Live, Open, Broadcast, Joining, TypeOK
    <3>2. QED
      BY <1>3, <2>1, <2>3, <3>1
  <2>6. ASSUME Live(c)' PROVE CourseOf(c)' /\ Duty(c)'
    <3>1. c \in attachments' /\ Joining(c) # {}
      BY <2>1, <2>4, <2>6 DEF Live, Broadcast
    <3>2. control'[c] = {Snapshot(screen, size)} /\ frames'[c] = frames[c]
      <4>1. control'[c] = {Snapshot(screen, size)}
        BY <1>1, <2>1, <3>1 DEF TypeOK
      <4>2. frames'[c] = frames[c]
        BY <2>1, <2>4 DEF Broadcast, PushFrames
      <4>3. QED
        BY <4>1, <4>2
    <3>3. PICK n \in Size : n = size
      BY <1>1 DEF TypeOK
    <3>4. PICK s \in Screens(n) : s = screen
      BY <1>1, <3>3 DEF TypeOK
    <3>5. size' = n /\ row_hashes' = s /\ control'[c] = {Snapshot(s, n)}
      BY <2>1, <2>3, <3>2, <3>3, <3>4
    <3>6. QED
      BY <1>2, <2>1, <2>4, <3>1, <3>2, <3>5, Joined
  <2>7. QED
    BY <2>3, <2>5, <2>6
<1>8. ASSUME NEW c \in Channel, ResizeAttachment(c) PROVE Kept
  <2>1. /\ Broadcast(screen', size', TRUE, TRUE, c, {}) /\ resize_pending' = FALSE
        /\ UNCHANGED control /\ asks' = [asks EXCEPT ![c] = Tail(@)]
    BY <1>8 DEF ResizeAttachment
  <2>2. PICK n \in Size : n = size'
    BY <1>1 DEF TypeOK
  <2>3. PICK s \in Screens(n) : s = screen'
    BY <1>1, <2>2 DEF TypeOK
  <2>4. Broadcast(s, n, TRUE, TRUE, c, {}) /\ s \in [Row -> Cell]
    BY <2>1, <2>2, <2>3 DEF Screens
  <2>5. attachments' \subseteq attachments
    BY <2>1 DEF Broadcast
  <2>6. ASSUME NEW d \in Channel, ~Live(d) PROVE frames'[d] = {}
    <3>1. frames'[d] = frames[d]
      BY <2>1, <2>6 DEF Broadcast, PushFrames, Live, Open
    <3>2. QED
      BY <2>6, <3>1, WaitsForLive
  <2>7. CASE attachments = {}
    <3>1. redraw_all' = TRUE /\ attachments' = {}
      BY <2>1, <2>7 DEF Broadcast
    <3>2. QED
      BY <1>2, <2>1, <2>6, <2>7, <3>1 DEF Rows, Waiting, Guesses, Live
  <2>8. CASE attachments # {}
    <3>1. row_hashes' = s /\ dirty' = {} /\ redraw_all' = FALSE
      <4>1. PICK all \in BOOLEAN : all = TRUE
        OBVIOUS
      <4>2. TakeRows(s, all)
        BY <2>4, <2>8, <4>1 DEF Broadcast
      <4>3. QED
        BY <1>1, <2>4, <4>1, <4>2, TakenScreen
    <3>2. Rows'
      BY <1>1, <2>1, <2>2, <2>3, <3>1 DEF Rows, Screens
    <3>3. ASSUME NEW d \in Channel, Live(d)
          PROVE  /\ Renewed(d) /\ \E f \in frames'[d] : f.reset
                 /\ \A f, g \in frames'[d] : f = g /\ f.size = n
      <4>1. Renewed(d) /\ \E f \in frames'[d] : f.reset
        BY <1>1, <2>2, <2>4, <3>1, <3>3, RedrawRenews
      <4>2. \E f : Whole(f, s, n) /\ f.seq # 0 /\ frames'[d] = {f}
        BY <1>1, <2>4, <3>3, Redraws
      <4>3. QED
        BY <4>1, <4>2 DEF Whole
    <3>4. Waiting' /\ Guesses'
      BY <1>2, <2>2, <2>6, <3>3 DEF Waiting, Guesses
    <3>5. ASSUME NEW d \in Channel, Live(d)' PROVE CourseOf(d)' /\ Duty(d)'
      <4>1. Live(d)
        BY <1>2, <2>5, <3>5 DEF Live, Open
      <4>2. Duty(d)'
        BY <3>3, <4>1 DEF Duty, Redrawn
      <4>3. /\ UNCHANGED <<InFlight(d), Snapshots(d)>> /\ (Listening(d)' => Listening(d))
            /\ grid'[d] = grid[d] /\ garbled'[d] = garbled[d]
        BY <1>2, <2>1, <2>5 DEF InFlight, Snapshots, Listening, Open
      <4>4. After(d, grid[d], Snapshots(d))' = After(d, grid[d], Snapshots(d))
        BY <4>3
      <4>5. CourseOf(d)'
        BY <1>1, <3>3, <4>1, <4>3, <4>4, CourseKept
      <4>6. QED
        BY <4>2, <4>5
    <3>6. QED
      BY <3>2, <3>4, <3>5
  <2>9. QED
    BY <2>7, <2>8
<1>9. QED
  BY <1>4, <1>5, <1>6, <1>7, <1>8 DEF Owner

LEMMA StreamInit == Init => StreamInv
<1> SUFFICES ASSUME Init PROVE StreamInv
  OBVIOUS
<1>1. FlowInv
  BY FlowInit
<1>2. Rows /\ Waiting /\ Guesses
  BY DEF Init, Rows, Waiting, Guesses
<1>3. \A c \in Channel : ~Live(c)
  BY DEF Init, Live
<1>4. Course /\ RedrawComes
  BY <1>3, PerChannel
<1>5. QED
  BY <1>1, <1>2, <1>4 DEF StreamInv

LEMMA StreamNext == StreamInv /\ [Next]_vars => StreamInv'
<1> SUFFICES ASSUME StreamInv, [Next]_vars PROVE StreamInv'
  OBVIOUS
<1>1. FlowInv'
  BY FlowNext DEF StreamInv
<1>2. ASSUME Next PROVE Rows' /\ Waiting' /\ Guesses' /\ Course' /\ RedrawComes'
  <2>1. Rows' /\ Waiting' /\ Guesses' /\ \A c \in Channel : Live(c)' => CourseOf(c)' /\ Duty(c)'
    BY <1>1, <1>2, OwnerKeepsCourse, ServerKeepsCourse, AppKeepsCourse DEF Next
  <2>2. Course' /\ RedrawComes'
    BY <2>1 DEF Course, CourseOf, RedrawComes, Duty, Listening, Live
  <2>3. QED
    BY <2>1, <2>2
<1>3. ASSUME UNCHANGED vars PROVE Rows' /\ Waiting' /\ Guesses' /\ Course' /\ RedrawComes'
  <2>1. /\ UNCHANGED <<ownerVars, queueVars, frames, grid, garbled, view>>
        /\ \A c \in Channel : UNCHANGED <<InFlight(c), Snapshots(c), Open(c)>>
    BY <1>3 DEF vars, outboxVars, wireVars, appVars, InFlight, Snapshots, Open
  <2>2. Rows' /\ Waiting' /\ Guesses'
    BY <2>1 DEF StreamInv, ownerVars, Rows, Waiting, Guesses
  <2>3. \A c \in Channel : /\ Live(c)' <=> Live(c)
                           /\ Listening(c)' <=> Listening(c)
                           /\ Redrawn(c)' <=> Redrawn(c)
    BY <2>1 DEF ownerVars, Live, Listening, Redrawn
  <2>4. \A c \in Channel : \A g : Right(c, g)' <=> Right(c, g)
    BY <2>1 DEF ownerVars, Right
  <2>5. \A c \in Channel : Upcoming(c)' = Upcoming(c)
    BY <2>1 DEF Upcoming
  <2>6. Course'
    BY <2>1, <2>3, <2>4, <2>5 DEF StreamInv, Course
  <2>7. RedrawComes'
    BY <2>1, <2>3 DEF StreamInv, RedrawComes, queueVars
  <2>8. QED
    BY <2>2, <2>6, <2>7
<1>4. QED
  BY <1>1, <1>2, <1>3 DEF StreamInv

\* However frames are merged (connection/merge.rs), replaced and delayed, an app
\* that receives all that is under way shows every row as the owner last took it, in
\* a grid with room for all of them; and one that resized its own grid is redrawn.
THEOREM NothingIsMissing == Spec => []NothingMissing
<1>1. StreamInv => NothingMissing
  <2> SUFFICES ASSUME StreamInv PROVE NothingMissing
    OBVIOUS
  <2>1. TypeOK /\ Course /\ RedrawComes
    BY DEF StreamInv, FlowInv
  <2>2. ASSUME NEW c \in Channel, Listening(c), Redrawn(c) PROVE Right(c, Upcoming(c))
    <3>1. Live(c)
      BY <2>2 DEF Listening, Live
    <3>2. CASE garbled[c] = "no"
      BY <2>1, <2>2, <3>1, <3>2 DEF Course
    <3>3. PICK g \in Grid : g = After(c, grid[c], Snapshots(c))
      BY <2>1, HeldTypes
    <3>4. Upcoming(c) = After(c, After(c, g, InFlight(c)), frames[c])
      BY <3>3 DEF Upcoming
    <3>5. CASE \E f \in InFlight(c) : f.reset
      BY <2>1, <3>1, <3>4, <3>5 DEF Course
    <3>6. CASE \E f \in frames[c] : f.reset
      <4>1. PICK h \in Grid : h = After(c, g, InFlight(c))
        BY <2>1, HeldTypes
      <4>2. Right(c, After(c, h, frames[c]))
        BY <2>1, <3>1, <3>6 DEF Course
      <4>3. QED
        BY <3>4, <4>1, <4>2
    <3>7. QED
      BY <2>2, <3>2, <3>5, <3>6 DEF Redrawn
  <2>3. RowsArrive
    BY <2>2 DEF RowsArrive, Right
  <2>4. QED
    BY <2>1, <2>3 DEF NothingMissing
<1>2. QED
  BY StreamInit, StreamNext, <1>1, PTL DEF Spec

-----------------------------------------------------------------------------
(* The stream implements ScreenMirror. *)

\* An app with an open view has an open channel.
OpenViews == \A c \in Channel : view[c] = "open" => Open(c)

MirrorInv == StreamInv /\ OpenViews

LEMMA MirrorNext == MirrorInv /\ [Next]_vars => MirrorInv'
<1> SUFFICES ASSUME MirrorInv, [Next]_vars PROVE MirrorInv'
  OBVIOUS
<1>1. StreamInv' /\ StreamInv
  BY StreamNext DEF MirrorInv
<1>2. TypeOK /\ TypeOK'
  BY <1>1 DEF StreamInv, FlowInv
<1>3. ASSUME Owner PROVE OpenViews'
  BY <1>1, <1>3, OwnerSteps DEF MirrorInv, OpenViews, Open, OwnerStep, StreamInv
<1>4. ASSUME NEW c \in Channel, Attach(c) PROVE OpenViews'
  BY <1>2, <1>4 DEF Attach, appVars, MirrorInv, OpenViews, Open, TypeOK
<1>5. ASSUME NEW c \in Channel, Detach(c) PROVE OpenViews'
  BY <1>2, <1>5 DEF Detach, CloseChannel, appVars, MirrorInv, OpenViews, Open, TypeOK
<1>6. ASSUME NEW c \in Channel, Disconnect(c) PROVE OpenViews'
  BY <1>2, <1>6 DEF Disconnect, CloseChannel, MirrorInv, OpenViews, Open, TypeOK
<1>7. ASSUME NEW c \in Channel, WriteControl(c) \/ WriteFrame(c) \/ \E n \in acks[c] : Ack(c, n)
      PROVE  OpenViews'
  BY <1>2, <1>7 DEF WriteControl, WriteFrame, Ack, appVars, outboxVars, MirrorInv, OpenViews, Open, TypeOK
<1>8. ASSUME NEW c \in Channel, Attached(c) PROVE OpenViews'
  <2>1. view[c] = "none" /\ wire[c] # {}
    <3>1. PICK f \in wire[c] : f.seq = 0
      BY <1>8 DEF Attached
    <3>2. f \in Snapshots(c)
      BY <3>1 DEF Snapshots
    <3>3. QED
      BY <1>1, <3>2 DEF StreamInv, FlowInv, Life, Announced
  <2>2. Open(c)
    BY <1>1, <2>1 DEF StreamInv, FlowInv, Life, Fresh, Unopened
  <2>3. view' = [view EXCEPT ![c] = "open"] /\ credit' = credit
    BY <1>8 DEF Attached, outboxVars
  <2>4. QED
    BY <1>2, <2>2, <2>3 DEF MirrorInv, OpenViews, Open, TypeOK
<1>9. ASSUME NEW c \in Channel,
             ReceiveFrame(c) \/ CloseView(c) \/ \E n \in Size : Resize(c, n) \/ RefusedResize(c, n)
      PROVE  OpenViews'
  BY <1>2, <1>9
  DEF ReceiveFrame, CloseView, Resize, RefusedResize, outboxVars, MirrorInv, OpenViews, Open, TypeOK
<1>10. ASSUME UNCHANGED vars PROVE OpenViews'
  BY <1>10 DEF vars, appVars, outboxVars, MirrorInv, OpenViews, Open
<1>11. ASSUME Server PROVE OpenViews'
  BY <1>4, <1>5, <1>6, <1>7, <1>11 DEF Server
<1>12. ASSUME App PROVE OpenViews'
  BY <1>8, <1>9, <1>12 DEF App
<1>13. OpenViews'
  BY <1>3, <1>10, <1>11, <1>12 DEF Next
<1>14. QED
  BY <1>1, <1>13 DEF MirrorInv

\* What an app that listens will show at the end is what the owner took last, once a
\* redraw is under way or none is due.
LEMMA RightWhenRedrawn ==
  ASSUME StreamInv, NEW c \in Channel, Listening(c), Redrawn(c)
  PROVE  Right(c, Upcoming(c))
<1>1. TypeOK /\ Course /\ Live(c)
  BY DEF StreamInv, FlowInv, Listening, Live
<1>2. CASE garbled[c] = "no"
  BY <1>1, <1>2 DEF Course
<1>3. PICK g \in Grid : g = After(c, grid[c], Snapshots(c))
  BY <1>1, HeldTypes
<1>4. Upcoming(c) = After(c, After(c, g, InFlight(c)), frames[c])
  BY <1>3 DEF Upcoming
<1>5. CASE \E f \in InFlight(c) : f.reset
  BY <1>1, <1>4, <1>5 DEF Course
<1>6. CASE \E f \in frames[c] : f.reset
  <2>1. PICK h \in Grid : h = After(c, g, InFlight(c))
    BY <1>1, HeldTypes
  <2>2. Right(c, After(c, h, frames[c]))
    BY <1>1, <1>6 DEF Course
  <2>3. QED
    BY <1>4, <2>1, <2>2
<1>7. QED
  BY <1>2, <1>5, <1>6 DEF Redrawn

-----------------------------------------------------------------------------
(* The screens an app has yet to show *)

Sight == [Row -> Cell] \cup {Unknown}

Landed(c) == After(c, grid[c], Snapshots(c))
Nearing(c) == After(c, Landed(c), InFlight(c))
Cleared(c) == garbled[c] = "no" \/ \E f \in InFlight(c) : f.reset

First(c)  == Showing(Snapshots(c), Landed(c), TRUE)
Second(c) == Showing(InFlight(c), Nearing(c), Cleared(c))
Third(c)  == Showing(frames[c], Upcoming(c), Redrawn(c))

LEMMA AheadIs ==
  ASSUME NEW c \in Channel
  PROVE  Ahead(c) = IF Listening(c) THEN First(c) \o Second(c) \o Third(c) ELSE <<>>
<1>1. Redrawn(c) <=> Cleared(c) \/ \E f \in frames[c] : f.reset
  BY DEF Redrawn, Cleared
<1>2. Upcoming(c) = After(c, Nearing(c), frames[c])
  BY DEF Upcoming, Nearing, Landed
<1>3. CASE Redrawn(c)
  BY <1>1, <1>2, <1>3 DEF Ahead, First, Second, Third, Landed, Nearing, Cleared, Showing
<1>4. CASE ~Redrawn(c)
  BY <1>1, <1>2, <1>4 DEF Ahead, First, Second, Third, Landed, Nearing, Cleared, Showing
<1>5. QED
  BY <1>3, <1>4

LEMMA SightTypes ==
  ASSUME TypeOK, NEW c \in Channel
  PROVE  /\ First(c) \in Seq(Sight) /\ Second(c) \in Seq(Sight) /\ Third(c) \in Seq(Sight)
         /\ Ahead(c) \in Seq(Sight) /\ Shown(c) \in Sight
         /\ Landed(c) \in Grid /\ Nearing(c) \in Grid /\ Upcoming(c) \in Grid
<1>1. Landed(c) \in Grid /\ Nearing(c) \in Grid
  BY HeldTypes DEF Landed, Nearing
<1>2. Upcoming(c) \in Grid
  <2>1. Upcoming(c) = After(c, Nearing(c), frames[c])
    BY DEF Upcoming, Nearing, Landed
  <2>2. PICK g \in Grid : g = Nearing(c)
    BY <1>1
  <2>3. After(c, g, frames[c]) \in Grid
    <3>1. frames[c] \in SUBSET Frame
      BY DEF TypeOK
    <3>2. QED
      BY <3>1, AfterType
  <2>4. QED
    BY <2>1, <2>2, <2>3
<1>3. \A g \in Grid : g.rows \in Sight
  BY DEF Grid, Sight
<1>4. Unknown \in Sight
  BY DEF Sight
<1>5. First(c) \in Seq(Sight) /\ Second(c) \in Seq(Sight) /\ Third(c) \in Seq(Sight)
  BY <1>1, <1>2, <1>3, <1>4 DEF First, Second, Third, Showing
<1>6. Ahead(c) \in Seq(Sight)
  <2>1. First(c) \o Second(c) \in Seq(Sight)
    BY <1>5
  <2>2. (First(c) \o Second(c)) \o Third(c) \in Seq(Sight)
    BY <1>5, <2>1
  <2>3. <<>> \in Seq(Sight)
    OBVIOUS
  <2>4. QED
    BY <2>2, <2>3, AheadIs
<1>7. grid[c] \in Grid
  BY DEF TypeOK
<1>8. Shown(c) \in Sight
  BY <1>3, <1>4, <1>7 DEF Shown
<1>9. QED
  BY <1>1, <1>2, <1>5, <1>6, <1>8

\* Sequences that end with one more screen, and sequences that start with one.
Overtaken(q, x) == [q EXCEPT ![Len(q)] = x]

LEMMA LastSight ==
  ASSUME NEW S, NEW q \in Seq(S), NEW x \in S
  PROVE  /\ Append(q, x) = q \o <<x>> /\ q \o <<x>> # <<>> /\ q \o <<>> = q
         /\ (q \o <<x>>)[Len(q \o <<x>>)] = x
<1>1. Append(q, x) = q \o <<x>> /\ q \o <<x>> # <<>> /\ q \o <<>> = q
  OBVIOUS
<1>2. Len(q \o <<x>>) = Len(q) + 1 /\ (q \o <<x>>)[Len(q) + 1] = x
  OBVIOUS
<1>3. QED
  BY <1>1, <1>2

LEMMA OvertakenLast ==
  ASSUME NEW S, NEW q \in Seq(S), NEW x \in S, NEW y \in S, NEW p, p = q \o <<y>>
  PROVE  Overtaken(p, x) = q \o <<x>>
<1>1. PICK s \in Seq(S) : s = p
  <2>1. <<y>> \in Seq(S)
    OBVIOUS
  <2>2. q \o <<y>> \in Seq(S)
    BY <2>1
  <2>3. QED
    BY <2>2
<1>2. PICK r \in Seq(S) : r = q \o <<x>>
  <2>1. <<x>> \in Seq(S)
    OBVIOUS
  <2>2. q \o <<x>> \in Seq(S)
    BY <2>1
  <2>3. QED
    BY <2>2
<1>3. /\ Len(s) = Len(q) + 1 /\ Len(r) = Len(q) + 1 /\ Len(q) \in Nat
      /\ \A i \in 1 .. Len(q) : s[i] = q[i] /\ r[i] = q[i]
      /\ r[Len(q) + 1] = x
  BY <1>1, <1>2
<1>4. DOMAIN [s EXCEPT ![Len(s)] = x] = 1 .. Len(s) /\ DOMAIN r = 1 .. Len(s)
  BY <1>3
<1>5. \A i \in 1 .. Len(s) : [s EXCEPT ![Len(s)] = x][i] = r[i]
  BY <1>3
<1>6. [s EXCEPT ![Len(s)] = x] = [i \in 1 .. Len(s) |-> [s EXCEPT ![Len(s)] = x][i]]
  BY <1>4
<1>7. r = [i \in 1 .. Len(s) |-> r[i]]
  BY <1>4
<1>8. [s EXCEPT ![Len(s)] = x] = r
  BY <1>5, <1>6, <1>7
<1>9. QED
  BY <1>1, <1>2, <1>8 DEF Overtaken

LEMMA FirstSight ==
  ASSUME NEW S, NEW q \in Seq(S), NEW x \in S
  PROVE  /\ <<x>> \o q # <<>> /\ Head(<<x>> \o q) = x /\ Tail(<<x>> \o q) = q /\ <<>> \o q = q
<1>1. <<x>> \o q # <<>> /\ Head(<<x>> \o q) = x /\ <<>> \o q = q
  OBVIOUS
<1>2. Tail(<<x>> \o q) = q
  OBVIOUS
<1>3. QED
  BY <1>1, <1>2

\* These facts about every state, to be used of the state after a step.
Sighted ==
  \A c \in Channel :
    /\ Ahead(c) = IF Listening(c) THEN First(c) \o Second(c) \o Third(c) ELSE <<>>
    /\ TypeOK => Upcoming(c) \in Grid /\ Ahead(c) \in Seq(Sight)
    /\ StreamInv /\ Listening(c) /\ Redrawn(c) => Right(c, Upcoming(c))

LEMMA SightedNow == Sighted
BY AheadIs, SightTypes, RightWhenRedrawn DEF Sighted

LEMMA SightedNext == Sighted /\ Sighted'
BY SightedNow, PTL

-----------------------------------------------------------------------------
(* Steps of ScreenMirror *)

\* Nobody sees any difference.
LEMMA Unseen ==
  ASSUME row_hashes' = row_hashes,
         \A c \in Channel : /\ Listening(c)' <=> Listening(c)
                            /\ Shown(c)' = Shown(c) /\ Ahead(c)' = Ahead(c)
  PROVE  UNCHANGED AbstractMirror!mirrorVars
<1>1. Following' = Following
  BY DEF Following
<1>2. [c \in Channel |-> Shown(c)]' = [c \in Channel |-> Shown(c)]
  OBVIOUS
<1>3. [c \in Channel |-> Ahead(c)]' = [c \in Channel |-> Ahead(c)]
  OBVIOUS
<1>4. QED
  BY <1>1, <1>2, <1>3 DEF AbstractMirror!mirrorVars

\* An app whose messages stay where they are, or that listens no more and never did.
LEMMA SameSight ==
  ASSUME NEW c \in Channel, Listening(c)' <=> Listening(c), view'[c] = view[c], grid'[c] = grid[c],
         garbled'[c] = garbled[c], UNCHANGED <<InFlight(c), Snapshots(c), frames[c]>>
  PROVE  Shown(c)' = Shown(c) /\ Ahead(c)' = Ahead(c)
<1>1. Shown(c)' = Shown(c)
  BY DEF Shown
<1>2. /\ Landed(c)' = Landed(c) /\ Nearing(c)' = Nearing(c) /\ Upcoming(c)' = Upcoming(c)
      /\ Cleared(c)' <=> Cleared(c)
      /\ Redrawn(c)' <=> Redrawn(c)
  BY DEF Landed, Nearing, Upcoming, Cleared, Redrawn
<1>3. First(c)' = First(c) /\ Second(c)' = Second(c) /\ Third(c)' = Third(c)
  BY <1>2 DEF First, Second, Third, Showing
<1>4. Ahead(c) = IF Listening(c) THEN First(c) \o Second(c) \o Third(c) ELSE <<>>
  BY AheadIs
<1>5. Ahead(c)' = IF Listening(c)' THEN First(c)' \o Second(c)' \o Third(c)' ELSE <<>>
  BY SightedNext DEF Sighted
<1>6. QED
  BY <1>1, <1>3, <1>4, <1>5

LEMMA DeafSight ==
  ASSUME NEW c \in Channel, ~Listening(c)
  PROVE  Ahead(c) = <<>>
BY AheadIs

\* Before a redraw is under way, the last an app will show is unknown.
LEMMA LastUnknown ==
  ASSUME MirrorInv, NEW c \in Channel, Listening(c), ~Redrawn(c)
  PROVE  IF Ahead(c) = <<>> THEN Shown(c) = Unknown ELSE Ahead(c)[Len(Ahead(c))] = Unknown
<1>1. garbled[c] # "no" /\ \A f \in InFlight(c) \cup frames[c] : ~f.reset
  BY DEF Redrawn
<1>2. view[c] # "none"
  BY <1>1 DEF MirrorInv, StreamInv, Guesses
<1>3. Snapshots(c) = {}
  BY <1>2 DEF MirrorInv, StreamInv, FlowInv, Life, Announced
<1>4. ~Cleared(c)
  BY <1>1 DEF Cleared
<1>5. /\ First(c) = <<>>
      /\ Second(c) = IF InFlight(c) = {} THEN <<>> ELSE <<Unknown>>
      /\ Third(c) = IF frames[c] = {} THEN <<>> ELSE <<Unknown>>
  BY <1>3, <1>4 DEF First, Second, Third, Showing
<1>6. Shown(c) = Unknown
  BY <1>1 DEF Shown
<1>7. Ahead(c) = <<>> \o Second(c) \o Third(c)
  BY <1>5, AheadIs
<1>8. CASE frames[c] = {}
  <2>1. Ahead(c) = IF InFlight(c) = {} THEN <<>> ELSE <<Unknown>>
    BY <1>5, <1>7, <1>8
  <2>2. QED
    BY <1>6, <2>1
<1>9. CASE frames[c] # {}
  <2>1. PICK q \in Seq({Unknown}) : q = Second(c)
    <3>1. <<>> \in Seq({Unknown}) /\ <<Unknown>> \in Seq({Unknown})
      OBVIOUS
    <3>2. QED
      BY <1>5, <3>1
  <2>2. Ahead(c) = q \o <<Unknown>>
    <3>1. <<>> \o q = q
      OBVIOUS
    <3>2. QED
      BY <1>5, <1>7, <1>9, <2>1, <3>1
  <2>3. Ahead(c) # <<>> /\ Ahead(c)[Len(Ahead(c))] = Unknown
    <3>1. Unknown \in {Unknown}
      OBVIOUS
    <3>2. QED
      BY <2>2, <3>1, LastSight
  <2>4. QED
    BY <2>3
<1>10. QED
  BY <1>8, <1>9

\* A channel that has its frame waiting after a broadcast shows the rows taken, last.
LEMMA QueuedSight ==
  ASSUME MirrorInv, MirrorInv', NEW c \in Channel, Listening(c), Listening(c)', Renewed(c),
         frames'[c] # {}, view'[c] = view[c], grid'[c] = grid[c], garbled'[c] = garbled[c],
         UNCHANGED <<InFlight(c), Snapshots(c)>>
  PROVE  LET q == Ahead(c)
             last == IF q = <<>> THEN Shown(c) ELSE q[Len(q)]
             arrivals == IF last = Unknown THEN {row_hashes', Unknown} ELSE {row_hashes'}
         IN  Ahead(c)' \in {Append(q, x) : x \in arrivals}
                             \cup (IF q = <<>> THEN {} ELSE {[q EXCEPT ![Len(q)] = x] : x \in arrivals})
<1> DEFINE q == Ahead(c)
           last == IF q = <<>> THEN Shown(c) ELSE q[Len(q)]
           arrivals == IF last = Unknown THEN {row_hashes', Unknown} ELSE {row_hashes'}
<1>1. TypeOK /\ TypeOK'
  BY DEF MirrorInv, StreamInv, FlowInv
<1>2. PICK front \in Seq(Sight) : front = First(c) \o Second(c)
  <2>1. First(c) \o Second(c) \in Seq(Sight)
    BY <1>1, SightTypes
  <2>2. QED
    BY <2>1
<1>3. First(c)' \o Second(c)' = front
  <2>1. Landed(c)' = Landed(c) /\ Nearing(c)' = Nearing(c) /\ (Cleared(c)' <=> Cleared(c))
    BY DEF Landed, Nearing, Cleared
  <2>2. First(c)' = First(c) /\ Second(c)' = Second(c)
    BY <2>1 DEF First, Second, Showing
  <2>3. QED
    BY <1>2, <2>2
<1>4. PICK x \in Sight : x = IF Redrawn(c)' THEN Upcoming(c).rows' ELSE Unknown
  <2>1. Upcoming(c)' \in Grid
    BY <1>1, SightedNext DEF Sighted
  <2>2. QED
    BY <2>1 DEF Grid, Sight
<1>5. Ahead(c)' = front \o <<x>>
  <2>1. Third(c)' = <<x>>
    BY <1>4 DEF Third, Showing
  <2>2. Ahead(c)' = First(c)' \o Second(c)' \o Third(c)'
    BY SightedNext DEF Sighted
  <2>3. QED
    BY <1>3, <2>1, <2>2
<1>6. x \in arrivals
  <2>1. CASE Redrawn(c)'
    <3>1. Right(c, Upcoming(c))'
      BY <2>1, SightedNext DEF Sighted, MirrorInv
    <3>2. QED
      BY <1>4, <2>1, <3>1 DEF Right
  <2>2. CASE ~Redrawn(c)'
    <3>1. ~Redrawn(c)
      BY <2>2 DEF Redrawn, Renewed
    <3>2. last = Unknown
      BY <3>1, LastUnknown
    <3>3. QED
      BY <1>4, <2>2, <3>2
  <2>3. QED
    BY <2>1, <2>2
<1>7. CASE frames[c] = {}
  <2>1. q = front
    <3>1. q = front \o <<>>
      BY <1>2, <1>7, AheadIs DEF Third, Showing
    <3>2. QED
      BY <1>2, <3>1
  <2>2. Ahead(c)' = Append(q, x)
    BY <1>5, <2>1, LastSight
  <2>3. QED
    BY <1>6, <2>2
<1>8. CASE frames[c] # {}
  <2>1. PICK y \in Sight : Third(c) = <<y>>
    <3>1. Upcoming(c).rows \in Sight /\ Unknown \in Sight
      BY <1>1, SightTypes DEF Grid, Sight
    <3>2. QED
      BY <1>8, <3>1 DEF Third, Showing
  <2>2. q = front \o <<y>>
    BY <1>2, <2>1, AheadIs
  <2>3. q # <<>> /\ Ahead(c)' = [q EXCEPT ![Len(q)] = x]
    <3>3. front \o <<y>> # <<>>
      BY LastSight
    <3>1. Overtaken(front \o <<y>>, x) = front \o <<x>>
      BY OvertakenLast
    <3>2. QED
      BY <1>5, <2>2, <3>3, <3>1 DEF Overtaken
  <2>4. QED
    BY <1>6, <2>3
<1>9. QED
  BY <1>7, <1>8

\* A broadcast is a publication: the apps that listen have it waiting, those that join
\* have it as their snapshot.
LEMMA PublishStep ==
  ASSUME MirrorInv, MirrorInv', NEW joining \in SUBSET Channel,
         UNCHANGED <<grid, garbled, view>>, Following' = Following \cup joining,
         \A c \in Following :
           /\ UNCHANGED <<InFlight(c), Snapshots(c)>>
           /\ Renewed(c)
           /\ frames'[c] # {} \/ (frames'[c] = frames[c] /\ row_hashes' = row_hashes),
         \A c \in joining : InFlight(c)' = {} /\ frames'[c] = {} /\ Snapshots(c)' # {}
  PROVE  AbstractMirror!Next
<1>1. TypeOK /\ TypeOK' /\ Guesses' /\ Announced' /\ StreamInv' /\ Sighted'
  BY SightedNext DEF MirrorInv, StreamInv, FlowInv, Life
<1>2. PICK s \in [Row -> Cell] : s = row_hashes'
  BY <1>1 DEF TypeOK
<1>3. [c \in Channel |-> Shown(c)]' = [c \in Channel |-> Shown(c)]
  BY DEF Shown
<1>4. [c \in Channel |-> Ahead(c)]' \in [Channel -> Seq(Sight)]
  BY <1>1 DEF Sighted
<1>5. ASSUME NEW c \in Channel, Listening(c), frames'[c] # {}
      PROVE  [d \in Channel |-> Ahead(d)]'[c] \in AbstractMirror!Queued(c, s)
  <2>1. Listening(c)' /\ c \in Following
    BY <1>5 DEF Following
  <2>2. LET q == Ahead(c)
            last == IF q = <<>> THEN Shown(c) ELSE q[Len(q)]
            arrivals == IF last = Unknown THEN {row_hashes', Unknown} ELSE {row_hashes'}
        IN  Ahead(c)' \in {Append(q, x) : x \in arrivals}
                            \cup (IF q = <<>> THEN {} ELSE {[q EXCEPT ![Len(q)] = x] : x \in arrivals})
    BY <1>5, <2>1, QueuedSight
  <2>3. QED
    BY <1>2, <2>2 DEF AbstractMirror!Queued, AbstractMirror!LastOf
<1>6. ASSUME NEW c \in Channel, Listening(c), frames'[c] = {}
      PROVE  s = row_hashes /\ Ahead(c)' = Ahead(c)
  <2>1. Listening(c)' /\ c \in Following
    BY <1>6 DEF Following
  <2>2. UNCHANGED frames[c] /\ row_hashes' = row_hashes
    BY <1>6, <2>1
  <2>3. QED
    BY <1>2, <1>6, <2>1, <2>2, SameSight
<1>7. ASSUME NEW c \in joining PROVE Ahead(c)' = <<s>>
  <2>1. c \in Channel /\ Listening(c)'
    BY DEF Following
  <2>2. garbled'[c] = "no"
    BY <1>1, <2>1 DEF Guesses, Announced
  <2>3. Right(c, Upcoming(c))'
    BY <1>1, <2>1, <2>2 DEF Sighted, Redrawn
  <2>4. Upcoming(c)' = Landed(c)'
    BY DEF Upcoming, Landed, After
  <2>5. First(c)' = <<s>> /\ Second(c)' = <<>> /\ Third(c)' = <<>>
    BY <1>2, <2>3, <2>4 DEF First, Second, Third, Showing, Right
  <2>6. Ahead(c)' = First(c)' \o Second(c)' \o Third(c)'
    BY <1>1, <2>1 DEF Sighted
  <2>7. QED
    BY <2>5, <2>6
<1>8. ASSUME NEW c \in Channel, c \notin Following, c \notin joining PROVE Ahead(c)' = Ahead(c)
  <2>1. ~Listening(c) /\ ~Listening(c)'
    BY <1>8 DEF Following
  <2>2. Ahead(c) = <<>> /\ Ahead(c)' = <<>>
    BY <1>1, <2>1, DeafSight DEF Sighted
  <2>3. QED
    BY <2>2
<1>9. AbstractMirror!Publish(s, joining)
  <2>1. \A c \in Channel :
          LET ahead == [d \in Channel |-> Ahead(d)]
          IN  \/ c \in Following /\ ahead'[c] \in AbstractMirror!Queued(c, s)
              \/ c \in Following /\ s = row_hashes /\ ahead'[c] = ahead[c]
              \/ c \in joining /\ ahead'[c] = <<s>>
              \/ c \notin Following \cup joining /\ ahead'[c] = ahead[c]
    BY <1>5, <1>6, <1>7, <1>8 DEF Following
  <2>2. [c \in Channel |-> Ahead(c)]' \in [Channel -> Seq([Row -> Cell] \cup {Unknown})]
    BY <1>4 DEF Sight
  <2>3. QED
    BY <1>2, <1>3, <2>1, <2>2 DEF AbstractMirror!Publish
<1>10. QED
  BY <1>9 DEF AbstractMirror!Next

LEMMA BroadcastSends ==
  ASSUME StreamInv, attachments # {}, NEW resized, resized \notin Channel, NEW joining \in SUBSET Channel,
         Broadcast(screen, size, resize_pending, redraw_all, resized, joining), row_hashes' = screen,
         NEW c \in Channel, Live(c)
  PROVE  frames'[c] # {} \/ (frames'[c] = frames[c] /\ row_hashes' = row_hashes)
<1>1. TypeOK /\ Lanes /\ Rows
  BY DEF StreamInv, FlowInv, Life
<1>2. size \in Size /\ screen \in Screens(size) /\ redraw_all \in BOOLEAN /\ resize_pending = redraw_all
  BY <1>1 DEF TypeOK, Rows
<1>3. CASE redraw_all
  <2>1. PICK n \in Size : n = size
    BY <1>2
  <2>2. PICK s \in Screens(n) : s = screen
    BY <1>2, <2>1
  <2>3. Broadcast(s, n, TRUE, TRUE, resized, joining)
    BY <1>2, <1>3, <2>1, <2>2
  <2>4. \E f : Whole(f, s, n) /\ f.seq # 0 /\ frames'[c] = {f}
    BY <1>1, <2>3, Redraws
  <2>5. QED
    BY <2>4
<1>4. CASE ~redraw_all
  <2>1. Broadcast(screen, size, FALSE, FALSE, resized, joining)
    BY <1>2, <1>4
  <2>2. Next_hashes = screen
    BY <1>1, <1>4, NextHashes
  <2>3. ASSUME frames[c] # {}, NEW f, frames'[c] = {Merge(older, f) : older \in frames[c]}
        PROVE  frames'[c] # {}
    BY <2>3
  <2>4. \/ frames'[c] = frames[c] /\ row_hashes = Next_hashes
        \/ \E f : Partial(f) /\ frames[c] = {} /\ frames'[c] = {f}
        \/ \E f : Partial(f) /\ frames[c] # {} /\ frames'[c] = {Merge(older, f) : older \in frames[c]}
    BY <1>1, <1>4, <2>1, Updates
  <2>5. QED
    BY <2>2, <2>3, <2>4
<1>5. QED
  BY <1>3, <1>4

LEMMA OwnerMirrors ==
  ASSUME MirrorInv, MirrorInv', Owner
  PROVE  AbstractMirror!Next \/ UNCHANGED AbstractMirror!mirrorVars
<1>1. TypeOK /\ TypeOK' /\ Lanes /\ StreamInv /\ FlowInv /\ FlowInv' /\ Announced /\ OwnerStep /\ Sighted'
  BY OwnerSteps, SightedNext DEF MirrorInv, StreamInv, FlowInv, Life
<1>2. UNCHANGED <<grid, garbled, view, credit, wire>>
  BY <1>1 DEF Owner, Feed, ClearScreen, Tick, AttachFirst, AttachAnother, ResizeAttachment, OwnerDetach,
              OfferSnapshot, wireVars, appVars, outboxVars, OwnerStep
<1>3. \A c \in Channel : InFlight(c)' = InFlight(c)
  BY <1>2 DEF InFlight
\* Steps that take no rows.
<1>4. ASSUME row_hashes' = row_hashes,
             \A c \in Channel : /\ Listening(c)' <=> Listening(c)
                                /\ Listening(c) => frames'[c] = frames[c] /\ control'[c] = control[c]
      PROVE  UNCHANGED AbstractMirror!mirrorVars
  <2>1. ASSUME NEW c \in Channel PROVE Shown(c)' = Shown(c) /\ Ahead(c)' = Ahead(c)
    <3>1. CASE Listening(c)
      <4>1. Snapshots(c)' = Snapshots(c)
        BY <1>2, <1>4, <3>1 DEF Snapshots
      <4>2. QED
        BY <1>2, <1>3, <1>4, <3>1, <4>1, SameSight
    <3>2. CASE ~Listening(c)
      <4>1. Ahead(c) = <<>> /\ Ahead(c)' = <<>>
        BY <1>1, <1>4, <3>2, DeafSight DEF Sighted
      <4>2. QED
        BY <1>2, <4>1 DEF Shown
    <3>3. QED
      BY <3>1, <3>2
  <2>2. QED
    BY <1>4, <2>1, Unseen
<1>5. ASSUME \/ \E r \in Row, v \in Cell : Feed(r, v)
             \/ ClearScreen
             \/ \E c \in Channel : OwnerDetach(c)
      PROVE  UNCHANGED AbstractMirror!mirrorVars
  <2>1. UNCHANGED <<control, frames, row_hashes>>
    BY <1>5 DEF Feed, ClearScreen, OwnerDetach, outboxVars
  <2>2. \A c \in Channel : Listening(c)' <=> Listening(c)
    <3>1. CASE attachments' = attachments
      BY <1>2, <3>1 DEF Listening, Open
    <3>2. ASSUME NEW c \in Channel, OwnerDetach(c) PROVE \A d \in Channel : Listening(d)' <=> Listening(d)
      <4>1. ~Open(c) /\ attachments' = attachments \ {c}
        BY <1>1, <3>2 DEF OwnerDetach, FlowInv, Life, Served
      <4>2. QED
        BY <1>2, <4>1 DEF Listening, Open
    <3>3. QED
      BY <1>5, <3>1, <3>2 DEF Feed, ClearScreen
  <2>3. QED
    BY <1>4, <2>1, <2>2
<1>6. CASE Tick
  <2>1. /\ Broadcast(screen, size, resize_pending, redraw_all, Nobody, {})
        /\ resize_pending' = FALSE /\ UNCHANGED <<screen, size, control>>
    BY <1>6 DEF Tick
  <2>2. CASE attachments = {}
    <3>1. attachments' = {} /\ row_hashes' = row_hashes
      BY <2>1, <2>2 DEF Broadcast
    <3>2. \A c \in Channel : ~Listening(c) /\ ~Listening(c)'
      BY <2>2, <3>1 DEF Listening
    <3>3. QED
      BY <1>4, <3>1, <3>2
  <2>3. CASE attachments # {}
    <3>1. Nobody \notin Channel /\ {} \in SUBSET Channel
      BY ConstantsAssumption
    <3>2. row_hashes' = screen /\ \A c \in Channel : Live(c) => Renewed(c)
      BY <1>1, <1>2, <2>1, <2>3, <3>1, BroadcastKeepsCourse
    <3>3. \A c \in Channel :
            Live(c) => frames'[c] # {} \/ (frames'[c] = frames[c] /\ row_hashes' = row_hashes)
      BY <1>1, <2>1, <2>3, <3>1, <3>2, BroadcastSends
    <3>4. Following' = Following \cup {}
      BY <1>2, <2>1 DEF Following, Listening, Open, Broadcast
    <3>5. \A c \in Following : c \in Channel /\ Live(c)
      BY DEF Following, Listening, Live
    <3>6. \A c \in Following : UNCHANGED <<InFlight(c), Snapshots(c)>>
      BY <1>2, <1>3, <2>1, <3>5 DEF Snapshots
    <3>7. AbstractMirror!Next
      BY <1>2, <3>1, <3>2, <3>3, <3>4, <3>5, <3>6, PublishStep
    <3>8. QED
      BY <3>7
  <2>4. QED
    BY <2>2, <2>3
\* The app that joins.
<1>7. ASSUME NEW c \in Channel, c \in attaching, NEW n, NEW s,
             \/ attachments' = (attachments \ {d \in attachments : ~Open(d)}) \cup Joining(c)
             \/ attachments' = attachments \cup Joining(c),
             control' = [control EXCEPT ![c] = IF Joining(c) = {} THEN @ ELSE {Snapshot(s, n)}],
             frames'[c] = frames[c]
      PROVE  /\ Following' = Following \cup Joining(c) /\ Joining(c) \in SUBSET Channel /\ c \notin Following
             /\ \A d \in Following : UNCHANGED <<InFlight(d), Snapshots(d)>>
             /\ \A d \in Joining(c) : InFlight(d)' = {} /\ frames'[d] = {} /\ Snapshots(d)' # {}
  <2>1. /\ c \notin attachments /\ wire[c] = {} /\ frames[c] = {}
        /\ c \in Joining(c) => Open(c) /\ view[c] = "none"
    BY <1>1, <1>7 DEF FlowInv, Life, Queued, Announced, Joining, Open
  <2>2. Following' = Following \cup Joining(c)
    BY <1>2, <1>7, <2>1 DEF Following, Listening, Open, Joining
  <2>3. ASSUME NEW d \in Following PROVE UNCHANGED <<InFlight(d), Snapshots(d)>>
    <3>1. d \in Channel /\ d # c
      BY <2>1 DEF Following, Listening
    <3>2. control'[d] = control[d]
      BY <1>1, <1>7, <3>1 DEF TypeOK
    <3>3. QED
      BY <1>2, <1>3, <3>1, <3>2 DEF Snapshots
  <2>4. ASSUME NEW d \in Joining(c) PROVE InFlight(d)' = {} /\ frames'[d] = {} /\ Snapshots(d)' # {}
    <3>1. d = c /\ Joining(c) # {}
      BY DEF Joining
    <3>2. control'[c] = {Snapshot(s, n)}
      BY <1>1, <1>7, <3>1 DEF TypeOK
    <3>3. InFlight(c)' = {} /\ Snapshots(c)' # {}
      BY <1>2, <2>1, <3>2 DEF InFlight, Snapshots
    <3>4. QED
      BY <1>7, <2>1, <3>1, <3>3
  <2>5. c \notin Following /\ Joining(c) \in SUBSET Channel
    BY <2>1 DEF Following, Listening, Joining
  <2>6. QED
    BY <2>2, <2>3, <2>4, <2>5
<1>8. ASSUME NEW c \in Channel, NEW n \in Size, AttachFirst(c, n) PROVE AbstractMirror!Next
  <2>1. /\ attachments = {} /\ attachments' = Joining(c) /\ UNCHANGED frames /\ c \in attaching
        /\ control' = [control EXCEPT ![c] = IF Joining(c) = {} THEN @ ELSE {Snapshot(screen', n)}]
    BY <1>8 DEF AttachFirst, OfferSnapshot
  <2>2. PICK s : s = screen'
    OBVIOUS
  <2>3. Following = {}
    BY <2>1 DEF Following, Listening
  <2>4. control' = [control EXCEPT ![c] = IF Joining(c) = {} THEN @ ELSE {Snapshot(s, n)}]
    BY <2>1, <2>2
  <2>5. /\ Following' = Following \cup Joining(c) /\ Joining(c) \in SUBSET Channel
        /\ \A d \in Joining(c) : InFlight(d)' = {} /\ frames'[d] = {} /\ Snapshots(d)' # {}
    BY <1>7, <2>1, <2>4
  <2>6. QED
    BY <1>2, <2>3, <2>5, PublishStep
<1>9. ASSUME NEW c \in Channel, AttachAnother(c) PROVE AbstractMirror!Next
  <2>1. /\ Broadcast(screen, size, resize_pending, redraw_all, Nobody, Joining(c))
        /\ attachments # {} /\ resize_pending' = FALSE /\ c \in attaching /\ UNCHANGED <<screen, size>>
        /\ control' = [control EXCEPT ![c] = IF Joining(c) = {} THEN @ ELSE {Snapshot(screen, size)}]
    BY <1>9 DEF AttachAnother, OfferSnapshot
  <2>2. Nobody \notin Channel /\ Joining(c) \in SUBSET Channel
    BY ConstantsAssumption DEF Joining
  <2>3. row_hashes' = screen /\ \A d \in Channel : Live(d) => Renewed(d)
    BY <1>1, <1>2, <2>1, <2>2, BroadcastKeepsCourse
  <2>4. \A d \in Channel : Live(d) => frames'[d] # {} \/ (frames'[d] = frames[d] /\ row_hashes' = row_hashes)
    BY <1>1, <2>1, <2>2, <2>3, BroadcastSends
  <2>5. c \notin attachments
    BY <1>1, <2>1 DEF FlowInv, Life, Queued
  <2>6. frames'[c] = frames[c]
    BY <2>1, <2>5 DEF Broadcast, PushFrames
  <2>7. \/ attachments' = (attachments \ {d \in attachments : ~Open(d)}) \cup Joining(c)
        \/ attachments' = attachments \cup Joining(c)
    BY <2>1 DEF Broadcast, Open
  <2>8. PICK n : n = size
    OBVIOUS
  <2>9. PICK s : s = screen
    OBVIOUS
  <2>10. control' = [control EXCEPT ![c] = IF Joining(c) = {} THEN @ ELSE {Snapshot(s, n)}]
    BY <2>1, <2>8, <2>9
  <2>11. /\ Following' = Following \cup Joining(c)
         /\ \A d \in Following : UNCHANGED <<InFlight(d), Snapshots(d)>>
         /\ \A d \in Joining(c) : InFlight(d)' = {} /\ frames'[d] = {} /\ Snapshots(d)' # {}
    BY <1>7, <2>1, <2>6, <2>7, <2>10
  <2>12. \A d \in Following : d \in Channel /\ Live(d)
    BY DEF Following, Listening, Live
  <2>13. QED
    BY <1>2, <2>2, <2>3, <2>4, <2>11, <2>12, PublishStep
<1>10. ASSUME NEW c \in Channel, ResizeAttachment(c)
       PROVE  AbstractMirror!Next \/ UNCHANGED AbstractMirror!mirrorVars
  <2>1. Broadcast(screen', size', TRUE, TRUE, c, {}) /\ UNCHANGED control
    BY <1>10 DEF ResizeAttachment
  <2>2. CASE attachments = {}
    <3>1. attachments' = {} /\ row_hashes' = row_hashes
      BY <2>1, <2>2 DEF Broadcast
    <3>2. \A d \in Channel : ~Listening(d) /\ ~Listening(d)'
      BY <2>2, <3>1 DEF Listening
    <3>3. QED
      BY <1>4, <3>1, <3>2
  <2>3. CASE attachments # {}
    <3>1. PICK n \in Size : n = size'
      BY <1>1 DEF TypeOK
    <3>2. PICK s \in Screens(n) : s = screen'
      BY <1>1, <3>1 DEF TypeOK
    <3>3. Broadcast(s, n, TRUE, TRUE, c, {}) /\ s \in [Row -> Cell]
      BY <2>1, <3>1, <3>2 DEF Screens
    <3>4. row_hashes' = s
      <4>1. row_hashes' = [r \in Row |-> IF TRUE \/ r \in dirty THEN s[r] ELSE row_hashes[r]]
        BY <2>3, <3>3 DEF Broadcast, TakeRows
      <4>2. QED
        BY <3>3, <4>1
    <3>5. \A d \in Channel : Live(d) => Renewed(d) /\ frames'[d] # {}
      <4>1. ASSUME NEW d \in Channel, Live(d) PROVE Renewed(d) /\ \E f \in frames'[d] : f.reset
        BY <1>1, <3>1, <3>3, <3>4, <4>1, RedrawRenews
      <4>2. QED
        BY <4>1
    <3>6. Following' = Following \cup {}
      BY <1>2, <2>1 DEF Following, Listening, Open, Broadcast
    <3>7. \A d \in Following : d \in Channel /\ Live(d)
      BY DEF Following, Listening, Live
    <3>8. \A d \in Following : UNCHANGED <<InFlight(d), Snapshots(d)>>
      BY <1>2, <1>3, <2>1, <3>7 DEF Snapshots
    <3>9. AbstractMirror!Next
      <4>1. {} \in SUBSET Channel
        OBVIOUS
      <4>2. QED
        BY <1>2, <3>5, <3>6, <3>7, <3>8, <4>1, PublishStep
    <3>10. QED
      BY <3>9
  <2>4. QED
    BY <2>2, <2>3
<1>11. QED
  BY <1>5, <1>6, <1>8, <1>9, <1>10 DEF Owner

\* One app moves; the others keep what they have.
OthersKeep(c) ==
  \A d \in Channel : d # c =>
    (Listening(d)' <=> Listening(d)) /\ Shown(d)' = Shown(d) /\ Ahead(d)' = Ahead(d)

LEMMA ViewerStep ==
  ASSUME MirrorInv, NEW c \in Channel, row_hashes' = row_hashes, OthersKeep(c)
  PROVE  /\ Following' \ {c} = Following \ {c}
         /\ [d \in Channel |-> Shown(d)]' = [[d \in Channel |-> Shown(d)] EXCEPT ![c] = Shown(c)']
         /\ [d \in Channel |-> Ahead(d)]' = [[d \in Channel |-> Ahead(d)] EXCEPT ![c] = Ahead(c)']
BY DEF OthersKeep, Following

LEMMA LeaveStep ==
  ASSUME MirrorInv, NEW c \in Channel, row_hashes' = row_hashes, OthersKeep(c),
         Listening(c), ~Listening(c)', Shown(c)' = Unknown, Ahead(c)' = <<>>
  PROVE  AbstractMirror!Next
<1>1. Following' = Following \ {c} /\ c \in Following
  BY DEF OthersKeep, Following
<1>2. AbstractMirror!Leave(c)
  BY <1>1, ViewerStep DEF AbstractMirror!Leave
<1>3. QED
  BY <1>2 DEF AbstractMirror!Next

LEMMA ShowStep ==
  ASSUME MirrorInv, NEW c \in Channel, row_hashes' = row_hashes, OthersKeep(c),
         Listening(c), Listening(c)', Ahead(c) # <<>>, Shown(c)' = Head(Ahead(c)), Ahead(c)' = Tail(Ahead(c))
  PROVE  AbstractMirror!Next
<1>1. Following' = Following
  BY DEF OthersKeep, Following
<1>2. [d \in Channel |-> Ahead(d)][c] = Ahead(c)
  OBVIOUS
<1>3. AbstractMirror!Show(c)
  BY <1>1, <1>2, ViewerStep DEF AbstractMirror!Show
<1>4. QED
  BY <1>3 DEF AbstractMirror!Next

LEMMA GuessStep ==
  ASSUME MirrorInv, NEW c \in Channel, row_hashes' = row_hashes, OthersKeep(c),
         Listening(c), Listening(c)', Shown(c)' = Unknown, NEW n \in 0 .. Len(Ahead(c)),
         Ahead(c)' = [i \in 1 .. Len(Ahead(c)) |-> IF i <= n THEN Unknown ELSE Ahead(c)[i]]
  PROVE  AbstractMirror!Next
<1>1. Following' = Following
  BY DEF OthersKeep, Following
<1>2. [d \in Channel |-> Ahead(d)][c] = Ahead(c)
  OBVIOUS
<1>3. /\ [d \in Channel |-> Shown(d)]' = [[d \in Channel |-> Shown(d)] EXCEPT ![c] = Unknown]
      /\ [d \in Channel |-> Ahead(d)]' = [[d \in Channel |-> Ahead(d)] EXCEPT ![c] = Ahead(c)']
  BY ViewerStep
<1>4. PICK old : old = [d \in Channel |-> Ahead(d)]
  OBVIOUS
<1>5. PICK q : q = Ahead(c)
  OBVIOUS
<1>6. old[c] = q /\ Ahead(c)' = [i \in 1 .. Len(old[c]) |-> IF i <= n THEN Unknown ELSE old[c][i]]
  BY <1>2, <1>4, <1>5
<1>7. [d \in Channel |-> Ahead(d)]' =
        [old EXCEPT ![c] = [i \in 1 .. Len(old[c]) |-> IF i <= n THEN Unknown ELSE old[c][i]]]
  BY <1>3, <1>4, <1>6
<1>8. n \in 0 .. Len(old[c])
  BY <1>5, <1>6
<1>9. AbstractMirror!Guess(c)
  BY <1>1, <1>3, <1>4, <1>7, <1>8 DEF AbstractMirror!Guess
<1>10. QED
  BY <1>9 DEF AbstractMirror!Next

LEMMA ServerMirrors ==
  ASSUME MirrorInv, MirrorInv', Server
  PROVE  AbstractMirror!Next \/ UNCHANGED AbstractMirror!mirrorVars
<1>1. TypeOK /\ TypeOK' /\ FlowInv /\ Fresh /\ Queued /\ Served /\ Lanes /\ Announced /\ Waiting /\ Sighted'
  BY SightedNext DEF MirrorInv, StreamInv, FlowInv, Life
<1>2. UNCHANGED <<row_hashes, grid, garbled>>
  BY DEF Server, Attach, Detach, Disconnect, WriteControl, WriteFrame, Ack, ownerVars, appVars
\* An app that hears nothing before the step or after it.
<1>3. ASSUME NEW c \in Channel, ~Listening(c), ~Listening(c)' PROVE Ahead(c)' = Ahead(c)
  <2>1. Ahead(c) = <<>> /\ Ahead(c)' = <<>>
    BY <1>1, <1>3, DeafSight DEF Sighted
  <2>2. QED
    BY <2>1
<1>4. ASSUME NEW c \in Channel, Attach(c) \/ Detach(c) \/ (Disconnect(c) /\ ~Listening(c))
      PROVE  UNCHANGED AbstractMirror!mirrorVars
  <2>1. /\ ~Listening(c) /\ ~Listening(c)' /\ Shown(c)' = Shown(c)
        /\ \A d \in Channel : d # c =>
             /\ credit'[d] = credit[d] /\ view'[d] = view[d] /\ control'[d] = control[d] /\ wire'[d] = wire[d]
             /\ frames'[d] = frames[d]
        /\ attachments' = attachments
    <3>1. CASE Attach(c)
      <4>1. c \notin attachments
        BY <1>1, <3>1 DEF Attach, Fresh, Unopened, Open
      <4>2. QED
        BY <1>1, <1>2, <3>1, <4>1 DEF Attach, ownerVars, wireVars, appVars, TypeOK, Listening, Shown
    <3>2. CASE Detach(c)
      BY <1>1, <1>2, <3>2
      DEF Detach, CloseChannel, ownerVars, wireVars, appVars, TypeOK, Listening, Open, Shown
    <3>3. CASE Disconnect(c) /\ ~Listening(c)
      <4>1. view[c] # "open"
        BY <1>1, <3>3 DEF Disconnect, CloseChannel, Listening, Open, Served, Queued
      <4>2. QED
        BY <1>1, <1>2, <3>3, <4>1 DEF Disconnect, CloseChannel, ownerVars, TypeOK, Listening, Open, Shown
    <3>4. QED
      BY <1>4, <3>1, <3>2, <3>3
  <2>2. ASSUME NEW d \in Channel, d # c
        PROVE  (Listening(d)' <=> Listening(d)) /\ Shown(d)' = Shown(d) /\ Ahead(d)' = Ahead(d)
    <3>1. /\ Listening(d)' <=> Listening(d)
          /\ UNCHANGED <<InFlight(d), Snapshots(d), frames[d]>>
          /\ view'[d] = view[d] /\ grid'[d] = grid[d] /\ garbled'[d] = garbled[d]
      BY <1>2, <2>1, <2>2 DEF Listening, Open, InFlight, Snapshots
    <3>2. QED
      BY <3>1, SameSight
  <2>3. Ahead(c)' = Ahead(c)
    BY <1>3, <2>1
  <2>4. QED
    BY <1>2, <2>1, <2>2, <2>3, Unseen
<1>5. ASSUME NEW c \in Channel, Disconnect(c), Listening(c) PROVE AbstractMirror!Next
  <2>1. /\ credit'[c] = "closed" /\ view'[c] = "gone" /\ attachments' = attachments
        /\ \A d \in Channel : d # c =>
             /\ credit'[d] = credit[d] /\ view'[d] = view[d] /\ control'[d] = control[d] /\ wire'[d] = wire[d]
             /\ frames'[d] = frames[d]
    BY <1>1, <1>5 DEF Disconnect, CloseChannel, ownerVars, TypeOK
  <2>2. ~Listening(c)' /\ Shown(c)' = Unknown
    BY <2>1 DEF Listening, Open, Shown
  <2>3. Ahead(c)' = <<>>
    BY <1>1, <2>2 DEF Sighted
  <2>4. ASSUME NEW d \in Channel, d # c
        PROVE  (Listening(d)' <=> Listening(d)) /\ Shown(d)' = Shown(d) /\ Ahead(d)' = Ahead(d)
    <3>1. /\ Listening(d)' <=> Listening(d)
          /\ UNCHANGED <<InFlight(d), Snapshots(d), frames[d]>>
          /\ view'[d] = view[d] /\ grid'[d] = grid[d] /\ garbled'[d] = garbled[d]
      BY <1>2, <2>1, <2>4 DEF Listening, Open, InFlight, Snapshots
    <3>2. QED
      BY <3>1, SameSight
  <2>5. QED
    BY <1>2, <1>5, <2>2, <2>3, <2>4, LeaveStep DEF OthersKeep
<1>6. ASSUME NEW c \in Channel, WriteControl(c) \/ \E n \in acks[c] : Ack(c, n)
      PROVE  UNCHANGED AbstractMirror!mirrorVars
  <2>1. ASSUME NEW d \in Channel
        PROVE  /\ Open(d)' <=> Open(d)
               /\ UNCHANGED <<InFlight(d), Snapshots(d), frames[d]>>
               /\ view' = view /\ attachments' = attachments
    <3>1. CASE WriteControl(c)
      <4>1. \A f \in control[c] : f.seq = 0
        BY <1>1 DEF Lanes
      <4>2. /\ control'[c] = {} /\ wire'[c] = wire[c] \cup control[c]
            /\ \A e \in Channel : e # c => control'[e] = control[e] /\ wire'[e] = wire[e]
        BY <1>1, <3>1 DEF WriteControl, TypeOK
      <4>3. InFlight(c)' = InFlight(c) /\ Snapshots(c)' = Snapshots(c)
        BY <4>1, <4>2 DEF InFlight, Snapshots
      <4>4. d # c => InFlight(d)' = InFlight(d) /\ Snapshots(d)' = Snapshots(d)
        BY <4>2 DEF InFlight, Snapshots
      <4>5. QED
        BY <3>1, <4>3, <4>4 DEF WriteControl, ownerVars, appVars, Open
    <3>2. ASSUME NEW n \in acks[c], Ack(c, n)
          PROVE  /\ Open(d)' <=> Open(d)
                 /\ UNCHANGED <<InFlight(d), Snapshots(d), frames[d]>>
                 /\ view' = view /\ attachments' = attachments
      BY <1>1, <3>2 DEF Ack, ownerVars, appVars, Open, InFlight, Snapshots, TypeOK
    <3>3. QED
      BY <1>6, <3>1, <3>2
  <2>2. ASSUME NEW d \in Channel
        PROVE  (Listening(d)' <=> Listening(d)) /\ Shown(d)' = Shown(d) /\ Ahead(d)' = Ahead(d)
    <3>1. /\ Listening(d)' <=> Listening(d)
          /\ view'[d] = view[d] /\ grid'[d] = grid[d] /\ garbled'[d] = garbled[d]
      BY <1>2, <2>1 DEF Listening
    <3>2. QED
      BY <2>1, <3>1, SameSight
  <2>3. QED
    BY <1>2, <2>2, Unseen
<1>7. ASSUME NEW c \in Channel, WriteFrame(c) PROVE UNCHANGED AbstractMirror!mirrorVars
  <2>1. PICK f \in frames[c] : wire' = [wire EXCEPT ![c] = @ \cup {f}]
    BY <1>7 DEF WriteFrame
  <2>2. /\ UNCHANGED <<attachments, view, control>> /\ credit[c] = "ready"
        /\ frames' = [frames EXCEPT ![c] = {}] /\ credit' = [credit EXCEPT ![c] = "used"]
    BY <1>7 DEF WriteFrame, ownerVars, appVars
  <2>3. /\ wire'[c] = wire[c] \cup {f} /\ frames'[c] = {}
        /\ \A d \in Channel : d # c => wire'[d] = wire[d] /\ frames'[d] = frames[d]
        /\ \A d \in Channel : Listening(d)' <=> Listening(d)
    BY <1>1, <2>1, <2>2 DEF TypeOK, Open, Listening
  <2>4. f.seq # 0 /\ InFlight(c) = {} /\ frames[c] = {f}
    BY <1>1, <2>2 DEF FlowInv, Lanes, FlowControl, Open, Waiting
  <2>5. InFlight(c)' = {f} /\ Snapshots(c)' = Snapshots(c)
    BY <2>2, <2>3, <2>4 DEF InFlight, Snapshots
  <2>6. ASSUME NEW d \in Channel, d # c PROVE Shown(d)' = Shown(d) /\ Ahead(d)' = Ahead(d)
    <3>1. /\ UNCHANGED <<InFlight(d), Snapshots(d), frames[d]>>
          /\ view'[d] = view[d] /\ grid'[d] = grid[d] /\ garbled'[d] = garbled[d]
      BY <1>2, <2>2, <2>3, <2>6 DEF InFlight, Snapshots
    <3>2. QED
      BY <2>3, <3>1, SameSight
  <2>7. Shown(c)' = Shown(c)
    BY <1>2, <2>2 DEF Shown
  <2>8. Ahead(c)' = Ahead(c)
    <3>1. CASE ~Listening(c)
      BY <1>3, <2>3, <3>1
    <3>2. CASE Listening(c)
      <4>1. Landed(c)' = Landed(c) /\ First(c)' = First(c)
        BY <1>2, <2>5 DEF Landed, First, Showing
      <4>2. Nearing(c) = Landed(c) /\ Upcoming(c) = Receive(c, Landed(c), f)
        BY <2>4 DEF Nearing, Upcoming, Landed, After
      <4>3. Nearing(c)' = Receive(c, Landed(c), f)
        BY <2>5, <4>1 DEF Nearing, After
      <4>4. Cleared(c)' <=> Redrawn(c)
        BY <1>2, <2>4, <2>5 DEF Cleared, Redrawn
      <4>5. Second(c) = <<>> /\ Third(c)' = <<>> /\ Second(c)' = Third(c)
        BY <2>3, <2>4, <2>5, <4>2, <4>3, <4>4 DEF Second, Third, Showing
      <4>6. First(c) \in Seq(Sight) /\ Third(c) \in Seq(Sight)
        BY <1>1, SightTypes
      <4>7. Ahead(c) = First(c) \o Second(c) \o Third(c) /\ Ahead(c)' = First(c)' \o Second(c)' \o Third(c)'
        BY <1>1, <2>3, <3>2, AheadIs DEF Sighted
      <4>8. \A p, q \in Seq(Sight) : p \o <<>> \o q = p \o q \o <<>>
        OBVIOUS
      <4>9. QED
        BY <4>1, <4>5, <4>6, <4>7, <4>8
    <3>3. QED
      BY <3>1, <3>2
  <2>9. QED
    BY <1>2, <2>3, <2>6, <2>7, <2>8, Unseen
<1>8. QED
  BY <1>4, <1>5, <1>6, <1>7 DEF Server

\* t with its first n elements unknown.
Hidden(t, n) == [i \in 1 .. Len(t) |-> IF i <= n THEN Unknown ELSE t[i]]

Hides(t, r, n) == Len(r) = Len(t) /\ \A i \in 1 .. Len(t) : r[i] = IF i <= n THEN Unknown ELSE t[i]

\* A prefix of t is unknown in r, and the rest is as it was.
Guessed(t, r) == \E n \in 0 .. Len(t) : r = Hidden(t, n)

\* A screen to show after the frames held.
Held(held, x) == IF held = {} THEN <<>> ELSE <<x>>

\* A sequence whose first n elements became unknown.
LEMMA Masked ==
  ASSUME NEW S, NEW t \in Seq(S), NEW r \in Seq(S), NEW n \in Int, Hides(t, r, n)
  PROVE  r = Hidden(t, n)
<1>1. DOMAIN r = 1 .. Len(t)
  BY DEF Hides
<1>2. r = [i \in 1 .. Len(t) |-> r[i]]
  BY <1>1
<1>3. \A i \in 1 .. Len(t) : r[i] = IF i <= n THEN Unknown ELSE t[i]
  BY DEF Hides
<1>4. QED
  BY <1>2, <1>3 DEF Hidden

\* A guess makes a prefix of what is to be shown unknown.
LEMMA GuessedPrefix ==
  ASSUME NEW S, NEW x \in S, NEW y \in S, NEW x1 \in S, NEW y1 \in S, NEW F, NEW W,
         \/ x1 = x /\ y1 = y
         \/ x1 = Unknown /\ y1 \in {y, Unknown}
  PROVE  Guessed(Held(F, x) \o Held(W, y), Held(F, x1) \o Held(W, y1))
<1>1. <<x>> \in Seq(S) /\ <<y>> \in Seq(S) /\ <<x1>> \in Seq(S) /\ <<y1>> \in Seq(S) /\ <<>> \in Seq(S)
  OBVIOUS
<1>2. PICK p \in Seq(S) : p = Held(F, x)
  BY <1>1 DEF Held
<1>3. PICK p1 \in Seq(S) : p1 = Held(F, x1)
  BY <1>1 DEF Held
<1>4. PICK q \in Seq(S) : q = Held(W, y)
  BY <1>1 DEF Held
<1>5. PICK q1 \in Seq(S) : q1 = Held(W, y1)
  BY <1>1 DEF Held
<1>6. p \o q \in Seq(S) /\ p1 \o q1 \in Seq(S)
  OBVIOUS
<1>7. PICK t : t = p \o q
  OBVIOUS
<1>8. PICK r : r = p1 \o q1
  OBVIOUS
<1>9. t \in Seq(S) /\ r \in Seq(S)
  BY <1>6, <1>7, <1>8
<1>10. /\ Len(p) \in {0, 1} /\ Len(p1) = Len(p) /\ Len(q) \in {0, 1} /\ Len(q1) = Len(q)
       /\ Len(p) = 1 => p[1] = x /\ p1[1] = x1
       /\ Len(q) = 1 => q[1] = y /\ q1[1] = y1
  BY <1>2, <1>3, <1>4, <1>5 DEF Held
<1>11. /\ Len(t) = Len(p) + Len(q) /\ Len(r) = Len(t)
       /\ \A i \in 1 .. Len(p) : t[i] = p[i] /\ r[i] = p1[i]
       /\ \A i \in 1 .. Len(q) : t[Len(p) + i] = q[i] /\ r[Len(p) + i] = q1[i]
  <2>1. ASSUME NEW a \in Seq(S), NEW b \in Seq(S)
        PROVE  /\ Len(a \o b) = Len(a) + Len(b)
               /\ \A i \in 1 .. Len(a) : (a \o b)[i] = a[i]
               /\ \A i \in 1 .. Len(b) : (a \o b)[Len(a) + i] = b[i]
    OBVIOUS
  <2>2. t = p \o q /\ r = p1 \o q1
    BY <1>7, <1>8
  <2>3. Len(p1) = Len(p) /\ Len(q1) = Len(q)
    BY <1>10
  <2>4. /\ Len(t) = Len(p) + Len(q)
        /\ \A i \in 1 .. Len(p) : t[i] = p[i]
        /\ \A i \in 1 .. Len(q) : t[Len(p) + i] = q[i]
    BY <2>1, <2>2
  <2>5. /\ Len(r) = Len(p1) + Len(q1)
        /\ \A i \in 1 .. Len(p1) : r[i] = p1[i]
        /\ \A i \in 1 .. Len(q1) : r[Len(p1) + i] = q1[i]
    BY <2>1, <2>2
  <2>6. QED
    BY <2>3, <2>4, <2>5
<1>12. \A i \in 1 .. Len(t) :
         \/ i = 1 /\ Len(p) = 1 /\ t[i] = x /\ r[i] = x1
         \/ i = Len(p) + 1 /\ Len(q) = 1 /\ t[i] = y /\ r[i] = y1
  BY <1>10, <1>11
<1>13. \E n \in 0 .. Len(t) : Hides(t, r, n)
  <2>1. CASE x1 = x /\ y1 = y
    <3>1. Hides(t, r, 0) /\ 0 \in 0 .. Len(t)
      BY <1>9, <1>11, <1>12, <2>1 DEF Hides
    <3>2. QED
      BY <3>1
  <2>2. CASE x1 = Unknown /\ y1 = y
    <3>1. Hides(t, r, Len(p)) /\ Len(p) \in 0 .. Len(t)
      BY <1>9, <1>10, <1>11, <1>12, <2>2 DEF Hides
    <3>2. QED
      BY <3>1
  <2>3. CASE x1 = Unknown /\ y1 = Unknown
    <3>1. Hides(t, r, Len(t)) /\ Len(t) \in 0 .. Len(t)
      BY <1>9, <1>10, <1>11, <1>12, <2>3 DEF Hides
    <3>2. QED
      BY <3>1
  <2>4. QED
    BY <2>1, <2>2, <2>3
<1>14. PICK n \in 0 .. Len(t) : Hides(t, r, n)
  BY <1>13
<1>15. n \in Int
  BY <1>14
<1>16. r = Hidden(t, n)
  BY <1>9, <1>14, <1>15, Masked
<1>17. Guessed(t, r)
  BY <1>14, <1>16 DEF Guessed
<1>18. QED
  BY <1>2, <1>3, <1>4, <1>5, <1>7, <1>8, <1>17

\* A redraw leaves no trace of what was shown before it.
LEMMA ResetRows ==
  ASSUME NEW c, NEW g \in Grid, NEW h \in Grid, NEW f \in Frame, f.reset
  PROVE  Receive(c, g, f).rows = Receive(c, h, f).rows
<1>1. ASSUME NEW k \in Grid
      PROVE  ReplaceRows(ResetGrid(k, f), f).rows = [r \in Row |-> IF Carries(f, r) THEN f.rows[r] ELSE Blank]
  <2>1. PICK z : z = ResetGrid(k, f)
    OBVIOUS
  <2>2. z = [rows |-> BlankRows, size |-> k.size,
             has |-> {r \in Row : r <= k.size \/ \E q \in Row : q >= r /\ Carries(f, q)}]
    BY <2>1 DEF ResetGrid
  <2>3. \A r \in Row : Carries(f, r) => r \in z.has
    <3>1. \A r \in Row : r >= r
      BY DEF Row
    <3>2. QED
      BY <2>2, <3>1
  <2>4. ReplaceRows(z, f).rows = [r \in Row |-> IF r \in z.has /\ Carries(f, r) THEN f.rows[r] ELSE z.rows[r]]
    BY <2>2 DEF ReplaceRows
  <2>5. \A r \in Row : z.rows[r] = Blank
    BY <2>2 DEF BlankRows
  <2>6. QED
    BY <2>1, <2>3, <2>4, <2>5
<1>2. CASE f.seq = 0
  BY <1>2 DEF Receive
<1>3. ASSUME f.seq # 0, NEW k \in Grid
      PROVE  Receive(c, k, f).rows = [r \in Row |-> IF Carries(f, r) THEN f.rows[r] ELSE Blank]
  <2>1. PICK fit : fit = IF c \in Follows /\ k.size # f.size THEN BlankGrid(f.size) ELSE k
    OBVIOUS
  <2>2. fit \in Grid
    <3>1. f.size \in 0 .. MaxRows
      BY ConstantsAssumption DEF Frame, Size
    <3>2. QED
      BY <2>1, <3>1, BlankGridType
  <2>3. Receive(c, k, f) = ReplaceRows(ResetGrid(fit, f), f)
    BY <1>3, <2>1 DEF Receive, Apply
  <2>4. QED
    BY <1>1, <2>2, <2>3
<1>4. QED
  BY <1>2, <1>3

LEMMA AppMirrors ==
  ASSUME MirrorInv, MirrorInv', App
  PROVE  AbstractMirror!Next \/ UNCHANGED AbstractMirror!mirrorVars
<1>1. /\ TypeOK /\ TypeOK' /\ FlowInv /\ Fresh /\ Queued /\ Served /\ Lanes /\ Announced
      /\ Waiting /\ Sighted'
      /\ Announced' /\ StreamInv /\ StreamInv' /\ Guesses /\ Course /\ Course'
  BY SightedNext DEF MirrorInv, StreamInv, FlowInv, Life
<1>2. UNCHANGED <<ownerVars, frames, credit, control>>
  BY DEF App, Attached, ReceiveFrame, CloseView, Resize, RefusedResize, outboxVars
<1>3. UNCHANGED <<row_hashes, attachments>> /\ (\A d \in Channel : Open(d)' <=> Open(d))
  BY <1>2 DEF ownerVars, Open
\* An open view listens.
<1>4. ASSUME NEW c \in Channel, view[c] = "open" PROVE Listening(c) /\ Live(c) /\ Snapshots(c) = {}
  BY <1>1, <1>4 DEF MirrorInv, OpenViews, Served, Queued, Listening, Live, Announced
<1>5. ASSUME NEW c \in Channel,
             \A d \in Channel : d # c => /\ wire'[d] = wire[d] /\ view'[d] = view[d] /\ grid'[d] = grid[d]
                                         /\ garbled'[d] = garbled[d]
      PROVE  OthersKeep(c)
  <2> SUFFICES ASSUME NEW d \in Channel, d # c
               PROVE  (Listening(d)' <=> Listening(d)) /\ Shown(d)' = Shown(d) /\ Ahead(d)' = Ahead(d)
    BY DEF OthersKeep
  <2>1. /\ Listening(d)' <=> Listening(d)
        /\ UNCHANGED <<InFlight(d), Snapshots(d), frames[d]>>
        /\ view'[d] = view[d] /\ grid'[d] = grid[d] /\ garbled'[d] = garbled[d]
    BY <1>2, <1>3, <1>5 DEF Listening, InFlight, Snapshots
  <2>2. QED
    BY <2>1, SameSight
<1>6. ASSUME NEW c \in Channel, Attached(c) PROVE AbstractMirror!Next
  <2>1. PICK f \in wire[c] : /\ f.seq = 0 /\ grid' = [grid EXCEPT ![c] = Receive(c, @, f)]
                            /\ wire' = [wire EXCEPT ![c] = @ \ {f}]
    BY <1>6 DEF Attached
  <2>2. view' = [view EXCEPT ![c] = "open"] /\ UNCHANGED garbled
    BY <1>6 DEF Attached
  <2>3. /\ wire'[c] = wire[c] \ {f} /\ view'[c] = "open" /\ grid'[c] = Receive(c, grid[c], f)
        /\ \A d \in Channel : d # c => wire'[d] = wire[d] /\ view'[d] = view[d] /\ grid'[d] = grid[d]
    BY <1>1, <2>1, <2>2 DEF TypeOK
  <2>4. f \in Snapshots(c)
    BY <2>1 DEF Snapshots
  <2>5. view[c] = "none" /\ Snapshots(c) = {f} /\ garbled[c] = "no"
    BY <1>1, <2>4 DEF Announced, Guesses
  <2>6. InFlight(c)' = InFlight(c) /\ frames'[c] = frames[c]
    BY <1>2, <2>1, <2>3 DEF InFlight
  <2>7. Snapshots(c)' = {}
    BY <1>1, <2>3 DEF Announced
  <2>8. Listening(c) /\ Listening(c)'
    <3>1. Open(c) /\ c \notin attaching
      BY <1>1, <2>1, <2>5 DEF Fresh, Unopened, Queued
    <3>2. QED
      BY <1>1, <1>3, <2>3, <2>5, <3>1 DEF Served, Listening
  <2>9. OthersKeep(c)
    BY <1>5, <2>2, <2>3
  <2>10. Landed(c) = Receive(c, grid[c], f) /\ Landed(c)' = grid'[c]
    BY <2>5, <2>7 DEF Landed, After
  <2>11. Nearing(c)' = Nearing(c) /\ Upcoming(c)' = Upcoming(c)
    BY <2>3, <2>6, <2>10 DEF Nearing, Upcoming, Landed
  <2>12. (Cleared(c)' <=> Cleared(c)) /\ (Redrawn(c)' <=> Redrawn(c))
    BY <2>2, <2>6 DEF Cleared, Redrawn
  <2>13. /\ First(c) = <<Landed(c).rows>> /\ First(c)' = <<>>
         /\ Second(c)' = Second(c) /\ Third(c)' = Third(c)
    BY <2>5, <2>6, <2>7, <2>11, <2>12 DEF First, Second, Third, Showing
  <2>14. Ahead(c) = First(c) \o Second(c) \o Third(c) /\ Ahead(c)' = First(c)' \o Second(c)' \o Third(c)'
    BY <1>1, <2>8, AheadIs DEF Sighted
  <2>15. PICK x \in Sight : x = Landed(c).rows
    BY <1>1, SightTypes DEF Grid, Sight
  <2>16. PICK q \in Seq(Sight) : q = Second(c) \o Third(c)
    <3>1. Second(c) \in Seq(Sight) /\ Third(c) \in Seq(Sight)
      BY <1>1, SightTypes
    <3>2. Second(c) \o Third(c) \in Seq(Sight)
      BY <3>1
    <3>3. QED
      BY <3>2
  <2>17. Ahead(c) = <<x>> \o q /\ Ahead(c)' = q
    <3>1. Second(c) \in Seq(Sight) /\ Third(c) \in Seq(Sight)
      BY <1>1, SightTypes
    <3>2. \A p, r \in Seq(Sight) : <<x>> \o p \o r = <<x>> \o (p \o r) /\ <<>> \o p \o r = p \o r
      OBVIOUS
    <3>3. QED
      BY <2>13, <2>14, <2>15, <2>16, <3>1, <3>2
  <2>18. Ahead(c) # <<>> /\ Head(Ahead(c)) = x /\ Tail(Ahead(c)) = q
    BY <2>17, FirstSight
  <2>19. Shown(c)' = x
    BY <2>2, <2>3, <2>5, <2>10, <2>15 DEF Shown
  <2>20. QED
    BY <1>3, <2>8, <2>9, <2>17, <2>18, <2>19, ShowStep
<1>7. ASSUME NEW c \in Channel, ReceiveFrame(c)
      PROVE  AbstractMirror!Next \/ UNCHANGED AbstractMirror!mirrorVars
  <2>1. PICK f \in wire[c] :
          /\ Oldest(c, f) /\ f.seq # 0
          /\ wire' = [wire EXCEPT ![c] = @ \ {f}]
          /\ IF view[c] = "open"
             THEN /\ grid' = [grid EXCEPT ![c] = Receive(c, @, f)]
                  /\ garbled' = [garbled EXCEPT ![c] = IF f.reset THEN "no" ELSE @]
             ELSE UNCHANGED <<grid, garbled>>
    BY <1>7 DEF ReceiveFrame
  <2>2. UNCHANGED view
    BY <1>7 DEF ReceiveFrame
  <2>3. \A g \in wire[c] : g.seq # 0
    <3> SUFFICES ASSUME NEW g \in wire[c], g.seq = 0 PROVE FALSE
      OBVIOUS
    <3>1. f \in Frame
      BY <1>1 DEF TypeOK
    <3>2. f.seq \in Nat /\ f.seq <= 0
      BY <2>1, <3>1 DEF Oldest, Frame
    <3>3. QED
      BY <2>1, <3>2
  <2>4. f \in InFlight(c) /\ view[c] # "none"
    BY <1>1, <2>1, <2>3 DEF InFlight, FlowInv, AttachedFirst
  <2>5. /\ wire'[c] = wire[c] \ {f}
        /\ view[c] = "open" => /\ grid'[c] = Receive(c, grid[c], f)
                               /\ garbled'[c] = IF f.reset THEN "no" ELSE garbled[c]
        /\ \A d \in Channel : d # c => wire'[d] = wire[d] /\ grid'[d] = grid[d] /\ garbled'[d] = garbled[d]
    BY <1>1, <2>1 DEF TypeOK
  <2>6. OthersKeep(c)
    BY <1>5, <2>2, <2>5
  <2>7. CASE view[c] # "open"
    <3>1. ~Listening(c) /\ ~Listening(c)' /\ Shown(c)' = Shown(c)
      BY <2>2, <2>4, <2>7 DEF Listening, Shown
    <3>2. Ahead(c) = <<>> /\ Ahead(c)' = <<>>
      BY <1>1, <3>1, DeafSight DEF Sighted
    <3>3. QED
      BY <1>3, <2>6, <3>1, <3>2, Unseen DEF OthersKeep
  <2>8. CASE view[c] = "open"
    <3>1. Listening(c) /\ Live(c) /\ Snapshots(c) = {} /\ Listening(c)'
      BY <1>3, <1>4, <2>2, <2>8 DEF Listening
    <3>2. InFlight(c) = {f} /\ frames'[c] = frames[c]
      BY <1>1, <1>2, <2>4, <3>1 DEF FlowInv, FlowControl, Live
    <3>3. InFlight(c)' = {} /\ Snapshots(c)' = {}
      BY <1>1, <2>2, <2>5, <2>8, <3>2 DEF InFlight, Announced
    <3>4. Landed(c) = grid[c] /\ Nearing(c) = grid'[c] /\ Landed(c)' = grid'[c] /\ Nearing(c)' = grid'[c]
      BY <2>5, <2>8, <3>1, <3>2, <3>3 DEF Landed, Nearing, After
    <3>5. Upcoming(c)' = Upcoming(c)
      BY <3>2, <3>4 DEF Upcoming, Nearing, Landed
    <3>6. /\ Cleared(c) <=> garbled'[c] = "no"
          /\ Redrawn(c)' <=> Redrawn(c)
      BY <2>5, <2>8, <3>2, <3>3 DEF Cleared, Redrawn
    <3>7. PICK x \in Sight : x = IF Cleared(c) THEN Nearing(c).rows ELSE Unknown
      BY <1>1, SightTypes DEF Grid, Sight
    <3>8. /\ First(c) = <<>> /\ Second(c) = <<x>> /\ First(c)' = <<>> /\ Second(c)' = <<>>
          /\ Third(c)' = Third(c)
      BY <3>1, <3>2, <3>3, <3>5, <3>6, <3>7 DEF First, Second, Third, Showing
    <3>9. Ahead(c) = First(c) \o Second(c) \o Third(c) /\ Ahead(c)' = First(c)' \o Second(c)' \o Third(c)'
      BY <1>1, <3>1, AheadIs DEF Sighted
    <3>10. PICK q \in Seq(Sight) : q = Third(c)
      BY <1>1, SightTypes
    <3>11. Ahead(c) = <<x>> \o q /\ Ahead(c)' = q
      <4>1. \A r \in Seq(Sight) : <<>> \o <<x>> \o r = <<x>> \o r /\ <<>> \o <<>> \o r = r
        OBVIOUS
      <4>2. QED
        BY <3>8, <3>9, <3>10, <4>1
    <3>12. Ahead(c) # <<>> /\ Head(Ahead(c)) = x /\ Tail(Ahead(c)) = q
      BY <3>11, FirstSight
    <3>13. Shown(c)' = x
      BY <2>2, <2>8, <3>4, <3>6, <3>7 DEF Shown
    <3>14. AbstractMirror!Next
      BY <1>3, <2>6, <3>1, <3>11, <3>12, <3>13, ShowStep
    <3>15. QED
      BY <3>14
  <2>9. QED
    BY <2>7, <2>8
<1>8. ASSUME NEW c \in Channel, CloseView(c) PROVE AbstractMirror!Next
  <2>1. /\ view[c] = "open" /\ view'[c] = "closed"
        /\ \A d \in Channel : d # c => /\ wire'[d] = wire[d] /\ view'[d] = view[d] /\ grid'[d] = grid[d]
                                       /\ garbled'[d] = garbled[d]
    BY <1>1, <1>8 DEF CloseView, wireVars, TypeOK
  <2>2. OthersKeep(c) /\ Listening(c) /\ ~Listening(c)' /\ Shown(c)' = Unknown
    BY <1>4, <1>5, <2>1 DEF Listening, Shown
  <2>3. Ahead(c)' = <<>>
    BY <1>1, <2>2 DEF Sighted
  <2>4. QED
    BY <1>3, <2>2, <2>3, LeaveStep
<1>9. ASSUME NEW c \in Channel, NEW m \in Size, Resize(c, m) \/ RefusedResize(c, m)
      PROVE  AbstractMirror!Next
  <2>1. /\ view[c] = "open" /\ view' = view /\ wire' = wire /\ grid'[c] = BlankGrid(m) /\ garbled'[c] # "no"
        /\ \A d \in Channel : d # c => /\ wire'[d] = wire[d] /\ view'[d] = view[d] /\ grid'[d] = grid[d]
                                       /\ garbled'[d] = garbled[d]
    BY <1>1, <1>9 DEF Resize, RefusedResize, wireVars, TypeOK
  <2>2. OthersKeep(c) /\ Listening(c) /\ Listening(c)' /\ Live(c) /\ Live(c)' /\ Shown(c)' = Unknown
    BY <1>3, <1>4, <1>5, <2>1 DEF Listening, Shown, Live
  <2>3. /\ Snapshots(c) = {} /\ Snapshots(c)' = {} /\ InFlight(c)' = InFlight(c) /\ frames'[c] = frames[c]
    BY <1>1, <1>2, <1>4, <2>1 DEF InFlight, Announced
  <2>4. Landed(c) = grid[c] /\ Landed(c)' = grid'[c] /\ grid[c] \in Grid /\ grid'[c] \in Grid
    BY <1>1, <2>3 DEF Landed, After, TypeOK
  <2>5. Cleared(c)' => Cleared(c) /\ Nearing(c)'.rows = Nearing(c).rows
    <3>1. SUFFICES ASSUME Cleared(c)' PROVE Cleared(c) /\ Nearing(c)'.rows = Nearing(c).rows
      OBVIOUS
    <3>2. PICK f \in InFlight(c) : f.reset
      BY <2>1, <2>3, <3>1 DEF Cleared
    <3>3. InFlight(c) = {f} /\ f \in Frame
      <4>1. InFlight(c) = {f}
        BY <1>1, <2>2, <3>2 DEF FlowInv, FlowControl, Live
      <4>2. f \in Frame
        BY <1>1, <3>2 DEF TypeOK, InFlight
      <4>3. QED
        BY <4>1, <4>2
    <3>4. Nearing(c) = Receive(c, grid[c], f) /\ Nearing(c)' = Receive(c, grid'[c], f)
      BY <2>3, <2>4, <3>3 DEF Nearing, After
    <3>5. PICK g \in Grid : g = grid[c]
      BY <2>4
    <3>6. PICK h \in Grid : h = grid'[c]
      BY <2>4
    <3>7. Receive(c, g, f).rows = Receive(c, h, f).rows
      BY <3>2, <3>3, ResetRows
    <3>8. QED
      BY <3>2, <3>4, <3>5, <3>6, <3>7 DEF Cleared
  <2>6. Redrawn(c)' => Redrawn(c) /\ Upcoming(c)'.rows = Upcoming(c).rows
    <3>1. Redrawn(c)' => Redrawn(c)
      BY <2>1, <2>3 DEF Redrawn
    <3>2. Redrawn(c)' => Right(c, Upcoming(c)) /\ Right(c, Upcoming(c))'
      BY <1>1, <2>2, <3>1, RightWhenRedrawn DEF Sighted
    <3>3. QED
      BY <1>3, <3>1, <3>2 DEF Right
  <2>7. Cleared(c)' => Redrawn(c)'
    BY DEF Cleared, Redrawn
  <2>8. First(c) = <<>> /\ First(c)' = <<>>
    BY <2>3 DEF First, Showing
  <2>9. Ahead(c) = First(c) \o Second(c) \o Third(c) /\ Ahead(c)' = First(c)' \o Second(c)' \o Third(c)'
    BY <1>1, <2>2, AheadIs DEF Sighted
  <2>10. PICK x \in Sight : x = Nearing(c).rows
    BY <1>1, SightTypes DEF Grid, Sight
  <2>11. PICK y \in Sight : y = Upcoming(c).rows
    BY <1>1, SightTypes DEF Grid, Sight
  <2>12. PICK u \in Sight : u = IF Cleared(c) THEN x ELSE Unknown
    BY DEF Sight
  <2>13. PICK u1 \in Sight : u1 = IF Cleared(c)' THEN x ELSE Unknown
    BY DEF Sight
  <2>14. PICK v \in Sight : v = IF Redrawn(c) THEN y ELSE Unknown
    BY DEF Sight
  <2>15. PICK v1 \in Sight : v1 = IF Redrawn(c)' THEN y ELSE Unknown
    BY DEF Sight
  <2>16. \/ u1 = u /\ v1 = v
         \/ u1 = Unknown /\ v1 \in {v, Unknown}
    BY <2>5, <2>6, <2>7, <2>12, <2>13, <2>14, <2>15
  <2>17. PICK F : F = InFlight(c)
    OBVIOUS
  <2>18. PICK W : W = frames[c]
    OBVIOUS
  <2>19. Second(c) = Held(F, u) /\ Second(c)' = Held(F, u1)
    BY <2>3, <2>5, <2>10, <2>12, <2>13, <2>17 DEF Second, Showing, Held
  <2>20. Third(c) = Held(W, v) /\ Third(c)' = Held(W, v1)
    BY <2>3, <2>6, <2>11, <2>14, <2>15, <2>18 DEF Third, Showing, Held
  <2>21. \A z \in Sight : \A H : Held(H, z) \in Seq(Sight)
    BY DEF Held
  <2>22. \A a, b \in Seq(Sight) : <<>> \o a \o b = a \o b
    OBVIOUS
  <2>23. Ahead(c) = Held(F, u) \o Held(W, v) /\ Ahead(c)' = Held(F, u1) \o Held(W, v1)
    BY <2>8, <2>9, <2>19, <2>20, <2>21, <2>22
  <2>24. Guessed(Held(F, u) \o Held(W, v), Held(F, u1) \o Held(W, v1))
    BY <2>16, GuessedPrefix
  <2>25. PICK n \in 0 .. Len(Ahead(c)) : Ahead(c)' = Hidden(Ahead(c), n)
    BY <2>23, <2>24 DEF Guessed
  <2>26. Ahead(c)' = [i \in 1 .. Len(Ahead(c)) |-> IF i <= n THEN Unknown ELSE Ahead(c)[i]]
    BY <2>25 DEF Hidden
  <2>27. QED
    BY <1>3, <2>2, <2>25, <2>26, GuessStep
<1>10. QED
  BY <1>6, <1>7, <1>8, <1>9 DEF App

LEMMA MirrorInit == Init => MirrorInv /\ AbstractMirror!Init
<1> SUFFICES ASSUME Init PROVE MirrorInv /\ AbstractMirror!Init
  OBVIOUS
<1>1. StreamInv
  BY StreamInit
<1>2. OpenViews
  BY DEF Init, OpenViews
<1>3. row_hashes \in [Row -> Cell]
  BY ConstantsAssumption DEF Init, BlankRows
<1>4. \A c \in Channel : ~Listening(c)
  BY DEF Init, Listening
<1>5. \A c \in Channel : Ahead(c) = <<>>
  BY <1>4 DEF Ahead
<1>6. \A c \in Channel : Shown(c) = Unknown
  BY DEF Init, Shown
<1>7. Following = {}
  BY <1>4 DEF Following
<1>8. AbstractMirror!Init
  BY <1>3, <1>5, <1>6, <1>7 DEF AbstractMirror!Init
<1>9. QED
  BY <1>1, <1>2, <1>8 DEF MirrorInv

LEMMA MirrorSteps ==
  ASSUME MirrorInv, MirrorInv', [Next]_vars
  PROVE  AbstractMirror!Next \/ UNCHANGED AbstractMirror!mirrorVars
<1>1. CASE Owner
  BY <1>1, OwnerMirrors
<1>2. CASE Server
  BY <1>2, ServerMirrors
<1>3. CASE App
  BY <1>3, AppMirrors
<1>4. CASE UNCHANGED vars
  <2>1. ASSUME NEW c \in Channel
        PROVE  /\ Listening(c)' <=> Listening(c)
               /\ Shown(c)' = Shown(c) /\ Ahead(c)' = Ahead(c)
    <3>1. /\ Listening(c)' <=> Listening(c)
          /\ view'[c] = view[c] /\ grid'[c] = grid[c] /\ garbled'[c] = garbled[c]
          /\ UNCHANGED <<InFlight(c), Snapshots(c), frames[c]>>
      BY <1>4 DEF vars, ownerVars, outboxVars, wireVars, appVars, Listening, Open, InFlight, Snapshots
    <3>2. QED
      BY <3>1, SameSight
  <2>2. row_hashes' = row_hashes
    BY <1>4 DEF vars, ownerVars
  <2>3. QED
    BY <2>1, <2>2, Unseen
<1>5. QED
  BY <1>1, <1>2, <1>3, <1>4 DEF Next

\* The stream of a session keeps the promise of ScreenMirror: every app shows
\* whole screens the owner published, in their order, whatever the sizes, the
\* credits, the resizes and the refusals on the way (publish and broadcast in
\* the session's owner, the bridge's outbox, RemoteGrid::apply in the apps).
THEOREM MirrorImplemented == Spec => ImplementsMirror
<1>1. Init => MirrorInv /\ AbstractMirror!Init
  BY MirrorInit
<1>2. MirrorInv /\ [Next]_vars => MirrorInv'
  BY MirrorNext
<1>3. MirrorInv /\ MirrorInv' /\ [Next]_vars => [AbstractMirror!Next]_(AbstractMirror!mirrorVars)
  BY MirrorSteps
<1>4. QED
  BY <1>1, <1>2, <1>3, PTL DEF Spec, ImplementsMirror, AbstractMirror!Mirror
=============================================================================
