------------------------------ MODULE Attachments ------------------------------
(***************************************************************************)
(* How one connection's Attach, Resize and Detach requests are answered.   *)
(*                                                                         *)
(* Requests run one at a time on the connection's worker thread            *)
(* (connection/reader.rs).  An Attach or a Resize is not answered there:   *)
(* the worker hands a command to the session's owner thread                *)
(* (session/owner.rs), records the request in the connection               *)
(* (connection/peer.rs), and the owner answers through its sink            *)
(* (connection/sink.rs).  Meanwhile the session may end, by itself or by a *)
(* fault, and the connection may close.                                    *)
(*                                                                         *)
(* One connection and one session; every Attach makes a new channel, so an *)
(* Attach request and its channel share a name.                            *)
(***************************************************************************)
EXTENDS Integers, Sequences, FiniteSets, SequencesExt

CONSTANTS
  Channel,     \* the attachments the app asks for
  MaxResizes,  \* bound: resizes it asks of each channel
  Capacity     \* the worker's queue: requests beyond it are refused

ASSUME AttachmentsAssumption ==
  /\ MaxResizes \in [Channel -> Nat]
  /\ Capacity \in Nat \ {0}

\* Requests; the commands the owner receives for them have the same shape.
\* A resize's `nth` stands for the size it asks for.
Attach(c) == [kind |-> "attach", channel |-> c, nth |-> 0]
Detach(c) == [kind |-> "detach", channel |-> c, nth |-> 0]
Resize(c, i) == [kind |-> "resize", channel |-> c, nth |-> i]

Request ==
  {Attach(c) : c \in Channel} \cup {Detach(c) : c \in Channel}
    \cup UNION {{Resize(c, i) : i \in 1 .. MaxResizes[c]} : c \in Channel}

\* Control messages: a reply to a request, or SessionEnded.
Reply(r, ok) == [re |-> {r}, ok |-> ok]
SessionEnded == [re |-> {}, ok |-> FALSE]
Message ==
  {Reply(r, TRUE) : r \in Request} \cup {Reply(r, FALSE) : r \in Request} \cup {SessionEnded}

VARIABLES
  \* the app
  asked,        \* requests it sent
  answered,     \* requests whose reply it read
  open,         \* channels it knows
  \* the connection
  work,         \* requests its worker has yet to run; the head is running
  found,        \* the running Attach has found its session
  attachments,  \* the connection's channels
  waiting,      \* those whose Attach the owner has not answered
  resizes,      \* each one's unanswered resizes, oldest first
  control,      \* control messages to write
  closed,
  \* the session
  queue,        \* its owner's commands
  owned,        \* the channels its owner sends to
  phase         \* "serving", "draining", "telling", "dropped", "exited"

appVars == <<asked, answered, open>>
attachmentVars == <<attachments, waiting, resizes>>
sessionVars == <<queue, owned, phase>>
vars == <<appVars, work, found, attachmentVars, control, closed, sessionVars>>

Init ==
  /\ asked = {} /\ answered = {} /\ open = {}
  /\ work = <<>> /\ found = FALSE
  /\ attachments = {} /\ waiting = {} /\ resizes = [c \in Channel |-> <<>>]
  /\ control = <<>> /\ closed = FALSE
  /\ queue = <<>> /\ owned = {} /\ phase = "serving"

-----------------------------------------------------------------------------
(* Parts of several actions *)

\* The owner's end of the command queue exists until its thread has finished;
\* whatever it still holds then is dropped.
Receiving == phase \notin {"dropped", "exited"}

Send(commands) == queue' = IF Receiving THEN queue \o commands ELSE queue

\* Mutant of Owed: the resizes are forgotten.
OwedSnapshot(c) == IF c \in waiting THEN {Attach(c)} ELSE {}

\* The requests a channel still owes an answer.
Owed(c) ==
  (IF c \in waiting THEN {Attach(c)} ELSE {}) \cup {Resize(c, i) : i \in ToSet(resizes[c])}

Orders(S) == {s \in UNION {[1 .. n -> S] : n \in 0 .. Cardinality(S)} :
                IsInjective(s) /\ Range(s) = S}

\* Requests of channels in this order: channel by channel, the Attach first and
\* then the resizes, oldest first.
ByChannel(order, requests) ==
  \A i, j \in DOMAIN requests : i < j =>
    \/ requests[i].channel = requests[j].channel /\ requests[i].nth < requests[j].nth
    \/ \E k, l \in DOMAIN order :
         k < l /\ order[k] = requests[i].channel /\ order[l] = requests[j].channel

\* Inner::retire: the attachments among `C` go in some order, the owner is told, and
\* every request they still owe gets an error.  A channel the connection does not
\* have is left alone.  `last` is written after, and the owner has `commands` before.
Retire(C, last, commands) ==
  /\ attachments' = attachments \ C
  /\ waiting' = waiting \ C
  /\ resizes' = [c \in Channel |-> IF c \in C THEN <<>> ELSE resizes[c]]
  /\ \E order \in Orders(C \cap attachments) :
       /\ \E failed \in Orders(UNION {Owed(c) : c \in C \cap attachments}) :
            /\ ByChannel(order, failed)
            /\ control' = control \o [i \in DOMAIN failed |-> Reply(failed[i], FALSE)] \o last
       /\ queue' = IF Receiving THEN commands \o [i \in DOMAIN order |-> Detach(order[i])]
                   ELSE commands

Answer(r, ok) == control' = Append(control, Reply(r, ok))

-----------------------------------------------------------------------------
(* The app and the connection's reader and writer threads *)

\* An app resizes and detaches only channels it knows, and resizes in order.
MayAsk(r) ==
  /\ r \notin asked
  /\ r.kind # "attach" => r.channel \in open
  /\ r.kind = "resize" /\ r.nth > 1 => Resize(r.channel, r.nth - 1) \in asked

\* Requests::route: a request waits for the worker, or is refused at once.
Ask(r) ==
  /\ ~closed /\ MayAsk(r)
  /\ asked' = asked \cup {r}
  /\ open' = IF r.kind = "detach" THEN open \ {r.channel} ELSE open
  /\ \/ Len(work) < Capacity /\ work' = Append(work, r) /\ UNCHANGED control
     \/ Len(work) >= Capacity /\ Answer(r, FALSE) /\ UNCHANGED work
  /\ UNCHANGED <<answered, found, attachmentVars, closed, sessionVars>>

\* The writer thread writes the next control message, and the app reads it.
Write ==
  /\ control # <<>>
  /\ control' = Tail(control)
  /\ LET m == Head(control) IN
       /\ answered' = answered \cup m.re
       /\ open' = IF m = SessionEnded THEN {}
                  ELSE open \cup {c \in Channel : m = Reply(Attach(c), TRUE)}
  /\ UNCHANGED <<asked, work, found, attachmentVars, closed, sessionVars>>

\* Inner::close: the attachments go without a reply.  What is queued may still be
\* written, or the stream is already broken.
Close ==
  /\ ~closed
  /\ closed' = TRUE
  /\ attachments' = {} /\ waiting' = {} /\ resizes' = [c \in Channel |-> <<>>]
  /\ control' \in {control, <<>>}
  /\ \E order \in Orders(attachments) : Send([i \in DOMAIN order |-> Detach(order[i])])
  /\ UNCHANGED <<appVars, work, found, owned, phase>>

-----------------------------------------------------------------------------
(* The connection's worker thread *)

Running(kind) == work # <<>> /\ Head(work).kind = kind

\* A job that starts after the connection closed does nothing.
Skip ==
  /\ work # <<>> /\ ~found /\ closed
  /\ work' = Tail(work)
  /\ UNCHANGED <<appVars, found, attachmentVars, control, closed, sessionVars>>

\* reader.rs attach, up to the registry's answer.
FindSession ==
  /\ Running("attach") /\ ~found /\ ~closed
  /\ IF phase = "exited"
     THEN work' = Tail(work) /\ Answer(Head(work), FALSE) /\ UNCHANGED found
     ELSE found' = TRUE /\ UNCHANGED <<work, control>>
  /\ UNCHANGED <<appVars, attachmentVars, closed, sessionVars>>

\* Mutant of AttachFound: `closed` is not read again.
AttachFoundBlind ==
  /\ found
  /\ found' = FALSE
  /\ work' = Tail(work)
  /\ LET r == Head(work) IN
       IF Receiving
       THEN /\ Send(<<r>>)
            /\ attachments' = attachments \cup {r.channel}
            /\ waiting' = waiting \cup {r.channel}
            /\ UNCHANGED <<resizes, control>>
       ELSE Answer(r, FALSE) /\ UNCHANGED <<attachmentVars, queue>>
  /\ UNCHANGED <<appVars, closed, owned, phase>>

\* Connection::attach: the session may have ended, and the connection closed,
\* since the session was found.
AttachFound ==
  /\ found
  /\ found' = FALSE
  /\ work' = Tail(work)
  /\ LET r == Head(work) IN
       IF closed THEN UNCHANGED <<attachmentVars, control, queue>>
       ELSE IF Receiving
       THEN /\ Send(<<r>>)
            /\ attachments' = attachments \cup {r.channel}
            /\ waiting' = waiting \cup {r.channel}
            /\ UNCHANGED <<resizes, control>>
       ELSE Answer(r, FALSE) /\ UNCHANGED <<attachmentVars, queue>>
  /\ UNCHANGED <<appVars, closed, owned, phase>>

\* Mutant of RunResize: it counts from the next one.
RunResizeNext ==
  /\ Running("resize") /\ ~closed
  /\ work' = Tail(work)
  /\ LET r == Head(work) IN
       IF r.channel \in attachments /\ Receiving
       THEN /\ Send(<<r>>)
            /\ resizes' = [resizes EXCEPT ![r.channel] = Append(@, r.nth + 1)]
            /\ UNCHANGED control
       ELSE Answer(r, FALSE) /\ UNCHANGED <<resizes, queue>>
  /\ UNCHANGED <<appVars, found, attachments, waiting, closed, owned, phase>>

\* Connection::resize.
RunResize ==
  /\ Running("resize") /\ ~closed
  /\ work' = Tail(work)
  /\ LET r == Head(work) IN
       IF r.channel \in attachments /\ Receiving
       THEN /\ Send(<<r>>)
            /\ resizes' = [resizes EXCEPT ![r.channel] = Append(@, r.nth)]
            /\ UNCHANGED control
       ELSE Answer(r, FALSE) /\ UNCHANGED <<resizes, queue>>
  /\ UNCHANGED <<appVars, found, attachments, waiting, closed, owned, phase>>

\* Connection::detach.
RunDetach ==
  /\ Running("detach") /\ ~closed
  /\ work' = Tail(work)
  /\ LET r == Head(work) IN
       IF r.channel \in attachments
       THEN Retire({r.channel}, <<Reply(r, TRUE)>>, queue)
       ELSE Answer(r, FALSE) /\ UNCHANGED <<attachmentVars, queue>>
  /\ UNCHANGED <<appVars, found, closed, owned, phase>>

\* Connection::detach_session: another request on this thread, not followed here,
\* closes the session's pane.
PaneClosed ==
  /\ ~closed /\ ~found /\ attachments # {}
  /\ Retire(attachments, <<>>, queue)
  /\ UNCHANGED <<appVars, work, found, closed, owned, phase>>

-----------------------------------------------------------------------------
(* The session's owner thread *)

Serving(kind) == phase = "serving" /\ queue # <<>> /\ Head(queue).kind = kind

\* A frame for channels whose connection refuses it removes them.
Broadcast == owned \cap attachments

Tick ==
  /\ phase = "serving"
  /\ owned' = Broadcast
  /\ UNCHANGED <<appVars, work, found, attachmentVars, control, closed, queue, phase>>

\* Owner::attach: the others first get what is pending, if anything is; the
\* snapshot answers the request, and is refused if the channel is gone.
ServeAttach ==
  /\ Serving("attach")
  /\ queue' = Tail(queue)
  /\ LET c == Head(queue).channel IN
       /\ \E others \in {owned, Broadcast} :
            owned' = others \cup ({c} \cap attachments)
       /\ waiting' = waiting \ {c}
       /\ control' = IF c \in waiting THEN Append(control, Reply(Attach(c), TRUE)) ELSE control
  /\ UNCHANGED <<appVars, work, found, attachments, resizes, closed, phase>>

\* Mutant of ServeResize: the newest resize is answered.
ServeResizeNewest ==
  /\ Serving("resize")
  /\ queue' = Tail(queue)
  /\ owned' = Broadcast
  /\ LET c == Head(queue).channel IN
       IF c \in Broadcast /\ resizes[c] # <<>>
       THEN /\ Answer(Resize(c, Last(resizes[c])), TRUE)
            /\ resizes' = [resizes EXCEPT ![c] = Front(@)]
       ELSE UNCHANGED <<control, resizes>>
  /\ UNCHANGED <<appVars, work, found, attachments, waiting, closed, phase>>

\* ResizeAttachment: everyone gets a frame, and the channel's oldest resize is
\* answered with it.
ServeResize ==
  /\ Serving("resize")
  /\ queue' = Tail(queue)
  /\ owned' = Broadcast
  /\ LET c == Head(queue).channel IN
       IF c \in Broadcast /\ resizes[c] # <<>>
       THEN /\ Answer(Resize(c, Head(resizes[c])), TRUE)
            /\ resizes' = [resizes EXCEPT ![c] = Tail(@)]
       ELSE UNCHANGED <<control, resizes>>
  /\ UNCHANGED <<appVars, work, found, attachments, waiting, closed, phase>>

ServeDetach ==
  /\ Serving("detach")
  /\ queue' = Tail(queue)
  /\ owned' = owned \ {Head(queue).channel}
  /\ UNCHANGED <<appVars, work, found, attachmentVars, control, closed, phase>>

\* OutboxSink::drop without a snapshot fails the channel; dropping any other
\* command has no effect.
DropCommand ==
  /\ queue # <<>>
  /\ LET r == Head(queue)
     IN  Retire(IF r.kind = "attach" THEN {r.channel} ELSE {}, <<>>, Tail(queue))

\* The terminal fails while it serves an Attach or a Resize: the session ends.
Fault ==
  /\ Serving("attach") \/ Serving("resize")
  /\ DropCommand
  /\ phase' = "draining"
  /\ UNCHANGED <<appVars, work, found, closed, owned>>

\* The same just after the snapshot was accepted: the channel fails, answered.
FaultAfterSnapshot ==
  /\ Serving("attach")
  /\ LET c == Head(queue).channel IN
       /\ c \in waiting
       /\ control' = Append(control, Reply(Attach(c), TRUE))
       /\ attachments' = attachments \ {c} /\ waiting' = waiting \ {c}
       /\ queue' = Append(Tail(queue), Detach(c))
  /\ phase' = "draining"
  /\ UNCHANGED <<appVars, work, found, resizes, closed, owned>>

\* The program exits, or the session is told to end.
End ==
  /\ phase = "serving"
  /\ phase' = "draining"
  /\ UNCHANGED <<appVars, work, found, attachmentVars, control, closed, queue, owned>>

\* Owner::drain_output discards commands until the output ends or a second passed,
\* and dropping the receiver discards those that are left.
Discard ==
  /\ phase \in {"draining", "dropped"}
  /\ DropCommand
  /\ UNCHANGED <<appVars, work, found, closed, owned, phase>>

Drained ==
  /\ phase = "draining"
  /\ phase' = "telling"
  /\ UNCHANGED <<appVars, work, found, attachmentVars, control, closed, queue, owned>>

\* Each attachment hears that the session ended.
Tell(c) ==
  /\ phase = "telling" /\ c \in owned
  /\ owned' = owned \ {c}
  /\ Retire({c}, <<>>, queue)
  /\ UNCHANGED <<appVars, work, found, closed, phase>>

DropReceiver ==
  /\ phase = "telling" /\ owned = {}
  /\ phase' = "dropped"
  /\ UNCHANGED <<appVars, work, found, attachmentVars, control, closed, queue, owned>>

\* Registry::session_exit: the session is no longer found, and the connection is
\* told, in one critical section.
Exit ==
  /\ phase = "dropped" /\ queue = <<>>
  /\ phase' = "exited"
  /\ IF closed THEN UNCHANGED <<attachmentVars, control, queue>>
     ELSE Retire(attachments, <<SessionEnded>>, queue)
  /\ UNCHANGED <<appVars, work, found, closed, owned>>

-----------------------------------------------------------------------------
Worker == Skip \/ FindSession \/ AttachFound \/ RunResize \/ RunDetach

Owner ==
  \/ ServeAttach \/ ServeResize \/ ServeDetach
  \/ Discard \/ Drained \/ DropReceiver \/ Exit
  \/ \E c \in Channel : Tell(c)

Next ==
  \/ \E r \in Request : Ask(r)
  \/ Write \/ Close \/ PaneClosed
  \/ Worker \/ Owner
  \/ Tick \/ Fault \/ FaultAfterSnapshot \/ End

Spec == Init /\ [][Next]_vars

\* The worker runs its queue, the owner serves its commands and, once it is
\* ending, finishes; the writer writes.
Fairness == WF_vars(Worker) /\ WF_vars(Owner) /\ WF_vars(Write)

FairSpec == Spec /\ Fairness

-----------------------------------------------------------------------------
(* Properties *)

\* Type invariant.
TypeOK ==
  /\ asked \subseteq Request /\ answered \subseteq Request /\ open \subseteq Channel
  /\ work \in Seq(Request) /\ found \in BOOLEAN
  /\ attachments \subseteq Channel /\ waiting \subseteq Channel
  /\ \A c \in Channel : resizes[c] \in Seq(1 .. MaxResizes[c])
  /\ control \in Seq(Message) /\ closed \in BOOLEAN
  /\ queue \in Seq(Request) /\ owned \subseteq Channel
  /\ phase \in {"serving", "draining", "telling", "dropped", "exited"}

\* Where a request waits for its answer, or the answer to be read.
Places(r) ==
  {<<"reply", i>> : i \in {i \in DOMAIN control : control[i].re = {r}}}
    \cup (IF r \in answered THEN {<<"read", 0>>} ELSE {})
    \cup {<<"work", i>> : i \in {i \in DOMAIN work : work[i] = r}}
    \cup (IF r.kind = "attach" /\ r.channel \in waiting THEN {<<"waiting", 0>>} ELSE {})
    \cup {<<"resize", i>> : i \in {i \in DOMAIN resizes[r.channel] :
                                     r.kind = "resize" /\ resizes[r.channel][i] = r.nth}}

\* "Every request carries an ID and gets exactly one reply" (docs/tech/protocol.md):
\* an unanswered request of an open connection waits in exactly one place, and an
\* answered one waits nowhere, so nothing can answer it again.
ExactlyOneReply ==
  ~closed => \A r \in asked : \E place \in Places(r) : Places(r) = {place}

\* Resizes of one channel come in the order they were asked in.
InOrder(requests) ==
  \A i, j \in DOMAIN requests :
    /\ i < j
    /\ requests[i].kind = "resize" /\ requests[j].kind = "resize"
    /\ requests[i].channel = requests[j].channel
    => requests[i].nth < requests[j].nth

\* A resize is answered by the frame of its own size: while the owner serves, the
\* resizes a channel waits for are the resize commands queued for it, in order.
ResizesInStep ==
  phase = "serving" =>
    /\ InOrder(queue)
    /\ \A c \in attachments :
         /\ \A i, j \in DOMAIN resizes[c] : i < j => resizes[c][i] < resizes[c][j]
         /\ \A n \in 1 .. MaxResizes[c] :
              n \in ToSet(resizes[c]) <=> Resize(c, n) \in ToSet(queue)

\* The owner and the connection agree on who is attached, up to what is queued: an
\* attachment of the connection is served or about to be, and an attachment only
\* the owner still has is about to be removed.  A ghost would keep the session from
\* taking the size of the next app to attach.
AttachedOnBothSides ==
  phase = "serving" =>
    /\ \A c \in attachments : c \in owned \/ Attach(c) \in ToSet(queue)
    /\ \A c \in owned \ attachments : Detach(c) \in ToSet(queue)

\* The owner and the connection agree on who is attached, and on which resize each
\* waiting request is answered by.
BothSidesAgree == AttachedOnBothSides /\ ResizesInStep

\* When a session is gone the connection has no attachment left to it, even for a
\* request that found the session just before.
NothingOutlivesSession == phase = "exited" \/ closed => attachments = {}

\* After SessionEnded the app hears of no attachment or resize that succeeded.
SessionEndedIsLast ==
  \A i, j \in DOMAIN control :
    i < j /\ control[i] = SessionEnded /\ control[j].ok =>
      \A r \in control[j].re : r.kind = "detach"

\* The end of a session is final on the connection: nothing of it stays open, and
\* nothing that succeeded is told after it.
SessionEndIsFinal == NothingOutlivesSession /\ SessionEndedIsLast

\* Every request is answered in the end, unless the connection closes.
EveryRequestAnswered == \A r \in Request : r \in asked ~> (r \in answered \/ closed)
=============================================================================
