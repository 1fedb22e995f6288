---------------------------- MODULE ClientRequests ----------------------------
(***************************************************************************)
(* The client library's table of pending requests: callers that wait with  *)
(* a time limit, attaches whose terminal arrives on the event stream, and  *)
(* asynchronous requests with a writer thread and a thread that watches    *)
(* their deadlines (muxy-client requests.rs, client.rs, events.rs,         *)
(* async_request.rs).  One connection, with a server that answers in any   *)
(* order, and clones of the client used by several threads.                *)
(*                                                                         *)
(* A step is what one thread does while it holds the table's lock, or one  *)
(* operation on a channel, on a response or on the stream.  The app keeps  *)
(* its end of the event stream, and takes asynchronous results by          *)
(* on_complete: a future that is polled gets the same result.              *)
(***************************************************************************)
EXTENDS Integers, Sequences, FiniteSets, Functions

CONSTANTS
  Plain, Attach, Async, \* the calls of each kind
  Ids,         \* request identities wrap around at this number (2^32)
  Capacity,    \* places of the channel to the writer thread, and asynchronous requests allowed
  Patience,    \* the time limit of an asynchronous call
  MaxTime,     \* bound: the clock of the deadlines
  None

Call == Plain \cup Attach \cup Async

\* What calls return: a result, and the call it answers.
Results ==
  [k : {"disconnected", "timeout", "failed", "dropped", "reply", "error", "attached"}, of : Call]

ASSUME ClientRequestsAssumption ==
  /\ IsFiniteSet(Call) /\ None \notin Call \cup Results
  /\ Plain \cap Attach = {} /\ Async \cap (Plain \cup Attach) = {}
  /\ Ids \in Nat \ {0} /\ Capacity \in Nat \ {0} /\ MaxTime \in Nat
  /\ Patience \in [Async -> Nat]

VARIABLES
  next, waiting, attaching, async, closed, \* State: the next identity, who waits under each, and the end
  deadline,  \* the deadline of an asynchronous call
  id,        \* the identity a call was given
  at,        \* where a call is
  mailbox,   \* a caller's receiver, and the result in an asynchronous response
  result,    \* what the call returned
  wire,      \* requests the server has yet to answer: <<identity, call>>
  router,    \* the reader thread, between its steps
  announced, \* attaches whose terminal is on the event stream
  queue, writer, \* the channel to the writer thread, and the request in its hand
  sleep, notified, now, \* the deadlines thread: None or the deadline it sleeps until
  opened     \* history: attaches answered while the table was open

table == <<next, waiting, attaching, async, closed>>
vars == <<table, deadline, id, at, mailbox, result, wire, router, announced,
          queue, writer, sleep, notified, now, opened>>

Id == 0..(Ids - 1)
Forever == MaxTime + 1

Init ==
  /\ next = 0 /\ closed = FALSE
  /\ waiting = [i \in Id |-> None] /\ attaching = waiting /\ async = waiting
  /\ deadline = [c \in Async |-> 0]
  /\ id = [c \in Call |-> None] /\ at = [c \in Call |-> "new"]
  /\ mailbox = [c \in Call |-> None] /\ result = mailbox
  /\ wire = {} /\ router = [k |-> "read"] /\ announced = {}
  /\ queue = <<>> /\ writer = None
  /\ sleep = None /\ notified = FALSE /\ now = 0
  /\ opened = {}

Got(kind, c) == [k |-> kind, of |-> c]

Return(c, r) == at' = [at EXCEPT ![c] = "done"] /\ result' = [result EXCEPT ![c] = r]

Unchanged == UNCHANGED <<now, opened, announced>>

Free(i) == waiting[i] = None /\ attaching[i] = None /\ async[i] = None

\* Mutant of NextId: the identity that comes next is taken as it is.
NextIdBlind == next

\* next_id: the first identity from the next on that nothing waits under.
NextId ==
  LET ahead == CHOOSE n \in 0..(Ids - 1) :
                 Free((next + n) % Ids) /\ \A m \in 0..(n - 1) : ~Free((next + m) % Ids)
  IN  (next + ahead) % Ids

\* Calls whose identity somebody still holds: the server, the writer thread, the
\* reader or the caller between two steps.
Holders(i) ==
  {c \in Call : <<i, c>> \in wire \/ (id[c] = i /\ at[c] \notin {"new", "done"})}
    \cup {c \in Range(queue) \cup {writer} : c # None /\ id[c] = i}
    \cup {c \in Call : router.k \in {"announce", "attached"} /\ router.id = i}

\* Bound: the identities (2^32 of them) do not come round while an old one is held.
ComesRound(i) == Free(i) /\ Holders(i) # {}

MayRegister == (\E i \in Id : Free(i)) /\ ~ComesRound(NextId)

-----------------------------------------------------------------------------
(* Callers that wait *)

\* register and register_attach
Register(c) ==
  /\ c \in Plain \cup Attach /\ at[c] = "new" /\ MayRegister
  /\ IF closed THEN Return(c, Got("disconnected", c)) /\ UNCHANGED <<table, id>>
     ELSE /\ id' = [id EXCEPT ![c] = NextId] /\ next' = (NextId + 1) % Ids
          /\ waiting' = [waiting EXCEPT ![NextId] = c]
          /\ attaching' = IF c \in Attach THEN [attaching EXCEPT ![NextId] = c] ELSE attaching
          /\ at' = [at EXCEPT ![c] = "sending"]
          /\ UNCHANGED <<async, closed, result>>
  /\ Unchanged /\ UNCHANGED <<deadline, mailbox, wire, router, queue, writer, sleep, notified>>

\* exchange, send: a request that cannot be sent is abandoned.
Send(c) ==
  /\ c \notin Async /\ at[c] = "sending"
  /\ \/ /\ ~closed /\ at' = [at EXCEPT ![c] = "waiting"]
        /\ wire' = wire \cup {<<id[c], c>>}
        /\ UNCHANGED <<table, result>>
     \/ /\ closed \/ router.k = "closed"
        /\ Return(c, Got("disconnected", c))
        /\ waiting' = [waiting EXCEPT ![id[c]] = None]
        /\ attaching' = [attaching EXCEPT ![id[c]] = None]
        /\ UNCHANGED <<next, async, closed, wire>>
  /\ Unchanged /\ UNCHANGED <<deadline, id, mailbox, router, queue, writer, sleep, notified>>

\* A reply is there: it is returned even if the time is over.
TakeReply(c) ==
  /\ c \notin Async /\ at[c] \in {"waiting", "receiving"} /\ mailbox[c] # None
  /\ Return(c, mailbox[c])
  /\ Unchanged
  /\ UNCHANGED <<table, deadline, id, mailbox, wire, router, queue, writer, sleep, notified>>

\* The sender for a call is in the table or in the reader's hand, or was dropped.
SenderDropped(c) ==
  mailbox[c] = None /\ waiting[id[c]] # c /\ ~(router.k = "deliver" /\ router.to = c)

Disconnected(c) ==
  /\ c \notin Async /\ at[c] \in {"waiting", "receiving"} /\ SenderDropped(c)
  /\ Return(c, Got("disconnected", c))
  /\ Unchanged
  /\ UNCHANGED <<table, deadline, id, mailbox, wire, router, queue, writer, sleep, notified>>

\* recv_timeout ends without a reply.
TimeOut(c) ==
  /\ c \notin Async /\ at[c] = "waiting" /\ mailbox[c] = None
  /\ at' = [at EXCEPT ![c] = "late"]
  /\ Unchanged
  /\ UNCHANGED <<table, deadline, id, mailbox, result, wire, router, queue, writer, sleep, notified>>

\* Mutant of Forget: the sender stays in the table.
ForgetNothing(c) ==
  /\ c \in Plain /\ at[c] = "late"
  /\ Return(c, Got("timeout", c))
  /\ Unchanged
  /\ UNCHANGED <<waiting, next, attaching, async, closed, deadline, id, mailbox, wire, router, queue,
                 writer, sleep, notified>>

\* forget
Forget(c) ==
  /\ c \in Plain /\ at[c] = "late"
  /\ waiting' = [waiting EXCEPT ![id[c]] = None]
  /\ Return(c, Got("timeout", c))
  /\ Unchanged
  /\ UNCHANGED <<next, attaching, async, closed, deadline, id, mailbox, wire, router, queue,
                 writer, sleep, notified>>

\* Mutant of GiveUp: an attach is given up whatever the reader is doing.
GiveUpAlways(c) ==
  /\ c \in Attach /\ at[c] = "late"
  /\ waiting' = [waiting EXCEPT ![id[c]] = None]
  /\ Return(c, Got("timeout", c))
  /\ Unchanged
  /\ UNCHANGED <<next, attaching, async, closed, deadline, id, mailbox, wire, router, queue,
                 writer, sleep, notified>>

\* give_up_attach: not once the reply is being announced; the caller then waits
\* without a limit.
GiveUp(c) ==
  /\ c \in Attach /\ at[c] = "late"
  /\ IF attaching[id[c]] = c
     THEN waiting' = [waiting EXCEPT ![id[c]] = None] /\ Return(c, Got("timeout", c))
     ELSE at' = [at EXCEPT ![c] = "receiving"] /\ UNCHANGED <<waiting, result>>
  /\ Unchanged
  /\ UNCHANGED <<next, attaching, async, closed, deadline, id, mailbox, wire, router, queue,
                 writer, sleep, notified>>

-----------------------------------------------------------------------------
(* Asynchronous calls *)

\* Mutant of Notify: the deadlines thread is not told of the new deadline.
NotifyNobody == FALSE

\* register_async wakes the thread that watches the deadlines.
Notify == TRUE

\* request_async: register_async
RegisterAsync(c) ==
  /\ c \in Async /\ at[c] = "new" /\ MayRegister /\ now + Patience[c] <= MaxTime
  /\ IF closed \/ Cardinality({i \in Id : async[i] # None}) >= Capacity
     THEN Return(c, Got("failed", c)) /\ UNCHANGED <<table, id, deadline, notified>>
     ELSE /\ id' = [id EXCEPT ![c] = NextId] /\ next' = (NextId + 1) % Ids
          /\ async' = [async EXCEPT ![NextId] = c]
          /\ deadline' = [deadline EXCEPT ![c] = now + Patience[c]]
          /\ notified' = (notified \/ Notify)
          /\ at' = [at EXCEPT ![c] = "sending"]
          /\ UNCHANGED <<waiting, attaching, closed, result>>
  /\ Unchanged /\ UNCHANGED <<mailbox, wire, router, queue, writer, sleep>>

Ended(kind) == [c \in Call |-> Got(kind, c)]

\* Response::resolve and on_complete: the completion gets the result, whichever
\* of the two comes first.
Resolve(cs, r) ==
  /\ mailbox' = [c \in Call |-> IF c \in cs /\ at[c] # "listening" THEN r[c] ELSE mailbox[c]]
  /\ at' = [c \in Call |-> IF c \in cs /\ at[c] = "listening" THEN "done" ELSE at[c]]
  /\ result' = [c \in Call |-> IF c \in cs /\ at[c] = "listening" THEN r[c] ELSE result[c]]

\* request_async: try_send; a full channel fails the request.
Enqueue(c) ==
  /\ c \in Async /\ at[c] = "sending"
  /\ at' = [at EXCEPT ![c] = "queued"]
  /\ IF Len(queue) < Capacity
     THEN queue' = Append(queue, c) /\ UNCHANGED <<async, mailbox>>
     ELSE /\ async' = [async EXCEPT ![id[c]] = None]
          /\ mailbox' = IF async[id[c]] = c THEN [mailbox EXCEPT ![c] = Got("failed", c)] ELSE mailbox
          /\ UNCHANGED queue
  /\ Unchanged
  /\ UNCHANGED <<next, waiting, attaching, closed, deadline, id, result, wire, router, writer,
                 sleep, notified>>

\* on_complete
Listen(c) ==
  /\ c \in Async /\ at[c] = "queued"
  /\ IF mailbox[c] # None THEN Return(c, mailbox[c])
     ELSE at' = [at EXCEPT ![c] = "listening"] /\ UNCHANGED result
  /\ Unchanged
  /\ UNCHANGED <<table, deadline, id, mailbox, wire, router, queue, writer, sleep, notified>>

\* A request is dropped instead: it is forgotten.
DropRequest(c) ==
  /\ c \in Async /\ at[c] = "queued"
  /\ Return(c, Got("dropped", c))
  /\ async' = [async EXCEPT ![id[c]] = None]
  /\ Unchanged
  /\ UNCHANGED <<next, waiting, attaching, closed, deadline, id, mailbox, wire, router, queue,
                 writer, sleep, notified>>

\* The writer thread leaves out what nobody waits for any more.
TakeQueued ==
  /\ writer = None /\ queue # <<>> /\ queue' = Tail(queue)
  /\ writer' = IF async[id[Head(queue)]] # None THEN Head(queue) ELSE None
  /\ Unchanged
  /\ UNCHANGED <<table, deadline, id, at, mailbox, result, wire, router, sleep, notified>>

WriteQueued ==
  /\ writer # None /\ writer' = None
  /\ wire' = IF router.k = "closed" THEN wire ELSE wire \cup {<<id[writer], writer>>}
  /\ Unchanged
  /\ UNCHANGED <<table, deadline, id, at, mailbox, result, router, queue, sleep, notified>>

-----------------------------------------------------------------------------
(* The reader thread *)

\* A reply arrives.  An attach that succeeded is taken to be announced; any other
\* reply is taken out of the table and delivered after the lock is released.
Read(i, c, ok) ==
  /\ router.k = "read" /\ <<i, c>> \in wire /\ wire' = wire \ {<<i, c>>}
  /\ (c \notin Attach) => ok
  /\ IF c \in Attach /\ ok /\ attaching[i] # None
     THEN /\ attaching' = [attaching EXCEPT ![i] = None]
          /\ router' = [k |-> "announce", id |-> i, of |-> c, tag |-> attaching[i]]
          /\ UNCHANGED <<waiting, async>>
     ELSE /\ waiting' = [waiting EXCEPT ![i] = None]
          /\ attaching' = [attaching EXCEPT ![i] = None]
          /\ async' = [async EXCEPT ![i] = None]
          /\ router' = LET to == IF async[i] # None THEN async[i] ELSE waiting[i] IN
               IF to = None THEN [k |-> "read"]
               ELSE [k |-> "deliver", to |-> to, what |-> Got(IF ok THEN "reply" ELSE "error", c)]
  /\ opened' = IF c \in Attach /\ ok /\ ~closed THEN opened \cup {c} ELSE opened
  /\ UNCHANGED <<next, closed, deadline, id, at, mailbox, result, announced, queue, writer,
                 sleep, notified, now>>

\* The terminal goes to the event stream first.
Announce ==
  /\ router.k = "announce"
  /\ announced' = announced \cup {router.tag}
  /\ router' = [router EXCEPT !.k = "attached"]
  /\ UNCHANGED <<table, deadline, id, at, mailbox, result, wire, queue, writer, sleep,
                 notified, now, opened>>

\* resolve_attached
ResolveAttached ==
  /\ router.k = "attached"
  /\ waiting' = [waiting EXCEPT ![router.id] = None]
  /\ mailbox' = IF waiting[router.id] = None THEN mailbox
                ELSE [mailbox EXCEPT ![waiting[router.id]] = Got("attached", router.of)]
  /\ router' = [k |-> "read"]
  /\ Unchanged
  /\ UNCHANGED <<next, attaching, async, closed, deadline, id, at, result, wire, queue, writer,
                 sleep, notified>>

Deliver ==
  /\ router.k = "deliver" /\ router' = [k |-> "read"]
  /\ IF router.to \in Async THEN Resolve({router.to}, [c \in Call |-> router.what])
     ELSE mailbox' = [mailbox EXCEPT ![router.to] = router.what] /\ UNCHANGED <<at, result>>
  /\ Unchanged
  /\ UNCHANGED <<table, deadline, id, wire, queue, writer, sleep, notified>>

\* close: the senders are dropped and the asynchronous requests end.
CloseTable ==
  /\ closed' = TRUE /\ notified' = TRUE
  /\ waiting' = [i \in Id |-> None] /\ attaching' = waiting' /\ async' = waiting'
  /\ Resolve({async[i] : i \in Id} \ {None}, Ended("disconnected"))
  /\ Unchanged
  /\ UNCHANGED <<next, deadline, id, queue, writer, sleep>>

\* The stream ends or carries something unreadable.
Break ==
  /\ router.k = "read" /\ CloseTable
  /\ router' = [k |-> "closed"] /\ wire' = {}

\* disconnect, from any thread.
Disconnect == ~closed /\ CloseTable /\ UNCHANGED <<router, wire>>

-----------------------------------------------------------------------------
(* Deadlines *)

\* watch_deadlines: it sleeps until the earliest deadline it sees.
Look ==
  /\ sleep = None /\ ~closed
  /\ LET pending == {deadline[async[i]] : i \in {j \in Id : async[j] # None}} IN
       /\ \A d \in pending : d > now
       /\ sleep' = CHOOSE d \in pending \cup {Forever} : \A e \in pending : d <= e
  /\ notified' = FALSE
  /\ Unchanged
  /\ UNCHANGED <<table, deadline, id, at, mailbox, result, wire, router, queue, writer>>

Wake ==
  /\ sleep # None /\ (notified \/ sleep <= now)
  /\ sleep' = None
  /\ Unchanged
  /\ UNCHANGED <<table, deadline, id, at, mailbox, result, wire, router, queue, writer, notified>>

\* expire
Expire ==
  /\ sleep = None /\ ~closed
  /\ LET due == {i \in Id : async[i] # None /\ deadline[async[i]] <= now} IN
       /\ due # {}
       /\ async' = [i \in Id |-> IF i \in due THEN None ELSE async[i]]
       /\ Resolve({async[i] : i \in due}, Ended("timeout"))
  /\ Unchanged
  /\ UNCHANGED <<next, waiting, attaching, closed, deadline, id, wire, router, queue, writer,
                 sleep, notified>>

Tick ==
  /\ now < MaxTime /\ now' = now + 1
  /\ UNCHANGED <<table, deadline, id, at, mailbox, result, wire, router, announced, queue,
                 writer, sleep, notified, opened>>

-----------------------------------------------------------------------------

Caller(c) ==
  \/ Register(c) \/ Send(c) \/ TakeReply(c) \/ Disconnected(c) \/ TimeOut(c)
  \/ Forget(c) \/ GiveUp(c)
  \/ RegisterAsync(c) \/ Enqueue(c) \/ Listen(c) \/ DropRequest(c)

Writer == TakeQueued \/ WriteQueued

Routing == Announce \/ ResolveAttached \/ Deliver

Deadlines == Look \/ Wake \/ Expire

Next ==
  \/ \E c \in Call : Caller(c)
  \/ Writer \/ Routing \/ Deadlines \/ Tick \/ Break \/ Disconnect
  \/ \E i \in Id, c \in Call, ok \in BOOLEAN : Read(i, c, ok)

Spec == Init /\ [][Next]_vars

\* Threads run, limits pass, and the clock moves; the server need not answer and
\* nobody need call, close or drop anything.
Fairness ==
  /\ \A c \in Call :
       WF_vars(Send(c) \/ TakeReply(c) \/ Disconnected(c) \/ TimeOut(c) \/ Forget(c)
               \/ GiveUp(c) \/ Enqueue(c) \/ Listen(c))
  /\ WF_vars(Writer) /\ WF_vars(Routing) /\ WF_vars(Deadlines) /\ WF_vars(Tick)

FairSpec == Spec /\ Fairness

-----------------------------------------------------------------------------
(* Properties *)

Where == {"new", "sending", "waiting", "late", "receiving", "queued", "listening", "done"}

\* The table keeps its types; a call waits under its own identity and not after it
\* has returned.
TypeOK ==
  /\ next \in Id /\ at \in [Call -> Where]
  /\ \A i \in Id : /\ waiting[i] \in Plain \cup Attach \cup {None}
                   /\ attaching[i] \in Attach \cup {None} /\ async[i] \in Async \cup {None}
                   /\ \A c \in {waiting[i], attaching[i], async[i]} \ {None} : id[c] = i
                   /\ \A c \in {waiting[i], async[i]} \ {None} : at[c] # "done"
  /\ announced \subseteq Attach /\ opened \subseteq Attach
  /\ result \in [Call -> Results \cup {None}]
  /\ \A c \in Call : result[c] # None <=> at[c] = "done"
  /\ sleep \in (0..Forever) \cup {None}

\* A call returns the server's answer to its own request, although identities wrap
\* around, calls are given up and their answers come late.
OwnReply ==
  \A c \in Call : result[c] # None => result[c].of = c /\ (c \in Attach => result[c].k # "reply")

\* A terminal that the server opened is always announced on the event stream, and
\* before its caller returns; a caller that gave up did so before the announcement.
HandedOver ==
  /\ [][\A c \in Attach : result[c] = None /\ result'[c] # None =>
          (result'[c].k = "attached" => c \in announced) /\ (result'[c].k = "timeout" => c \notin opened)]_vars
  /\ [](\A c \in opened : c \in announced \/ (router.k = "announce" /\ router.tag = c))

\* Every call returns, whether or not the server answers and however the end of
\* the connection, the deadline and the answer meet.
EveryCallReturns == \A c \in Call : at[c] # "new" ~> at[c] = "done"
=============================================================================
