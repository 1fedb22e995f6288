-------------------------- MODULE ClientRequestsProofs --------------------------
(***************************************************************************)
(* Replies reach their callers and terminals are handed over, for any      *)
(* number of calls and of identities, any capacity and any time limits.    *)
(*                                                                         *)
(* The heart of the invariant Inv is Single: whoever uses an identity, in  *)
(* the table, on the wire, in a queue or between two steps, is one call.   *)
(* The other parts say how a call relates to its entries: Entered (an      *)
(* entry is under the call's own identity), Served (what is on its way to  *)
(* the server or back belongs to calls that were sent), Answered (a call   *)
(* with an answer, or one about to get it, has left the table), Mail (what *)
(* an answer says), and Terminals (where the terminal of an attach is      *)
(* between the server's answer and its announcement).                      *)
(***************************************************************************)
EXTENDS ClientRequests, FiniteSetTheorems, WellFoundedInduction, TLAPS

Kinds == {"disconnected", "timeout", "failed", "dropped", "reply", "error", "attached"}
Routers ==
  [k : {"read", "closed"}] \cup [k : {"deliver"}, to : Call, what : Results]
    \cup [k : {"announce", "attached"}, id : Id, of : Attach, tag : Attach]

Typed ==
  /\ next \in Id /\ closed \in BOOLEAN /\ notified \in BOOLEAN
  /\ waiting \in [Id -> Plain \cup Attach \cup {None}]
  /\ attaching \in [Id -> Attach \cup {None}] /\ async \in [Id -> Async \cup {None}]
  /\ deadline \in [Async -> 0 .. MaxTime] /\ id \in [Call -> Id \cup {None}] /\ at \in [Call -> Where]
  /\ mailbox \in [Call -> Results \cup {None}] /\ result \in [Call -> Results \cup {None}]
  /\ wire \subseteq Id \X Call /\ router \in Routers
  /\ announced \subseteq Attach /\ opened \subseteq Attach
  /\ queue \in Seq(Async) /\ writer \in Async \cup {None}
  /\ sleep \in (0 .. Forever) \cup {None} /\ now \in 0 .. MaxTime

Routes(i, c) == router.k \in {"announce", "attached"} /\ router.id = i /\ router.of = c

\* The call uses the identity.
Uses(i, c) ==
  \/ waiting[i] = c \/ attaching[i] = c \/ async[i] = c
  \/ <<i, c>> \in wire \/ Routes(i, c)
  \/ id[c] = i /\ (at[c] \notin {"new", "done"} \/ writer = c \/ c \in Range(queue))

Single == \A i \in Id : \A c, d \in Call : Uses(i, c) /\ Uses(i, d) => c = d

Entered ==
  \A i \in Id :
    /\ waiting[i] # None => id[waiting[i]] = i /\ at[waiting[i]] \notin {"new", "done"}
    /\ async[i] # None => id[async[i]] = i /\ at[async[i]] \notin {"new", "done"}
    /\ attaching[i] # None => id[attaching[i]] = i /\ at[attaching[i]] # "new"
    /\ waiting[i] \in Attach =>
         attaching[i] = waiting[i] \/ Routes(i, waiting[i])
    /\ closed => waiting[i] = None /\ async[i] = None /\ attaching[i] = None

Sent(c) == at[c] \notin {"new", "sending"}

Wired == \A i \in Id, c \in Call : <<i, c>> \in wire => id[c] = i /\ Sent(c)

Queued == \A c \in Call : c = writer \/ c \in Range(queue) => id[c] \in Id /\ Sent(c)

Routed == \A i \in Id, c \in Call : Routes(i, c) => router.tag = c /\ id[c] = i /\ Sent(c)

Numbered == \A c \in Call : at[c] \notin {"new", "done"} => id[c] \in Id

Served == Wired /\ Queued /\ Routed /\ Numbered

Answered ==
  \A c \in Call :
    mailbox[c] # None \/ (router.k = "deliver" /\ router.to = c) =>
      at[c] # "new" /\ \A i \in Id : waiting[i] # c /\ async[i] # c

Mail ==
  /\ router.k = "deliver" =>
       /\ router.what.of = router.to
       /\ router.what.k = "error" \/ (router.what.k = "reply" /\ router.to \notin Attach)
  /\ \A c \in Call :
       /\ mailbox[c] # None =>
            /\ mailbox[c].of = c
            /\ c \in Attach => mailbox[c].k \notin {"reply", "timeout"}
            /\ c \in Attach /\ mailbox[c].k = "attached" => c \in announced
       /\ result[c] # None => result[c].of = c /\ (c \in Attach => result[c].k # "reply")
       /\ result[c] # None <=> at[c] = "done"
       /\ at[c] = "listening" => c \in Async

Terminals ==
  /\ \A i \in Id, c \in Attach : <<i, c>> \in wire /\ ~closed => attaching[i] = c
  /\ \A c \in Attach : at[c] = "sending" /\ ~closed => attaching[id[c]] = c
  /\ \A c \in opened :
       /\ Sent(c) /\ \A i \in Id : attaching[i] # c /\ <<i, c>> \notin wire
       /\ c \in announced \/ (router.k = "announce" /\ router.tag = c)
  /\ router.k = "attached" => router.tag \in announced

Promises == Single /\ Entered /\ Served /\ Answered /\ Mail /\ Terminals

Inv == Typed /\ Promises

-----------------------------------------------------------------------------
(* The queue of the writer thread and the search for an identity *)

\* What is appended to the queue, and what is taken from it, is in it.
LEMMA QueueRange ==
  ASSUME NEW q \in Seq(Async), NEW c \in Async
  PROVE  /\ Append(q, c) \in Seq(Async) /\ Range(Append(q, c)) = Range(q) \cup {c}
         /\ Range(q) \subseteq Async
         /\ q # <<>> => /\ Tail(q) \in Seq(Async) /\ Range(Tail(q)) \subseteq Range(q)
                        /\ Head(q) \in Range(q)
  <1>1. Append(q, c) \in Seq(Async) /\ Range(q) \subseteq Async
    BY DEF Range
  <1>2. Range(Append(q, c)) = Range(q) \cup {c}
    <2>1. Len(Append(q, c)) = Len(q) + 1 /\ Append(q, c)[Len(q) + 1] = c
          /\ \A i \in 1 .. Len(q) : Append(q, c)[i] = q[i]
      OBVIOUS
    <2>2. DOMAIN Append(q, c) = 1 .. (Len(q) + 1) /\ DOMAIN q = 1 .. Len(q) /\ Len(q) \in Nat
      OBVIOUS
    <2>3. 1 .. (Len(q) + 1) = (1 .. Len(q)) \cup {Len(q) + 1}
      BY <2>2
    <2> QED
      BY <2>1, <2>2, <2>3 DEF Range
  <1>3. ASSUME q # <<>>
        PROVE  /\ Tail(q) \in Seq(Async) /\ Range(Tail(q)) \subseteq Range(q)
               /\ Head(q) \in Range(q)
    <2>1. Len(q) \in Nat /\ Len(q) >= 1 /\ DOMAIN q = 1 .. Len(q)
      BY <1>3
    <2>2. Tail(q) \in Seq(Async) /\ DOMAIN Tail(q) = 1 .. (Len(q) - 1)
          /\ \A i \in 1 .. (Len(q) - 1) : Tail(q)[i] = q[i + 1]
      BY <1>3
    <2>3. Head(q) = q[1]
      BY <1>3
    <2> QED
      BY <2>1, <2>2, <2>3 DEF Range
  <1> QED
    BY <1>1, <1>2, <1>3

\* A set of naturals that is not empty has a least member.
LEMMA LeastMember ==
  ASSUME NEW T, T \subseteq Nat, T # {}
  PROVE  \E n \in T : \A m \in T : n <= m
  <1>1. PICK n \in T : \A m \in T : ~(<<m, n>> \in OpToRel(<, Nat))
    BY NatLessThanWellFounded, WFMin
  <1>2. ASSUME NEW m \in T PROVE n <= m
    <2>1. m \in Nat /\ n \in Nat
      OBVIOUS
    <2>2. m < n => <<m, n>> \in OpToRel(<, Nat)
      BY <2>1 DEF OpToRel
    <2>3. ~(<<m, n>> \in OpToRel(<, Nat))
      BY <1>1, Zenon
    <2>4. ~(m < n)
      BY <2>2, <2>3, Zenon
    <2> QED
      BY <2>1, <2>4
  <1> QED
    BY <1>2

\* If some identity is free, next_id finds one, and registering waits for one that
\* nobody holds.
LEMMA NextIdFree ==
  ASSUME Typed, MayRegister
  PROVE  /\ NextId \in Id /\ Free(NextId) /\ Holders(NextId) = {}
         /\ (NextId + 1) % Ids \in Id
  <1> DEFINE T == {n \in 0 .. (Ids - 1) : Free((next + n) % Ids)}
  <1>1. Ids \in Nat \ {0} /\ next \in Nat /\ next < Ids
    BY ClientRequestsAssumption DEF Typed, Id
  <1>2. T # {}
    <2>1. PICK i \in Id : Free(i)
      BY DEF MayRegister
    <2>2. i \in Nat /\ i < Ids
      BY <1>1, <2>1 DEF Id
    <2>3. CASE i >= next
      <3>1. i - next \in 0 .. (Ids - 1) /\ next + (i - next) = i /\ i % Ids = i
        BY <1>1, <2>2, <2>3
      <3> QED
        BY <2>1, <3>1
    <2>4. CASE i < next
      <3>1. i + Ids - next \in 0 .. (Ids - 1) /\ next + (i + Ids - next) = i + Ids
        BY <1>1, <2>2, <2>4
      <3>2. (i + Ids) % Ids = i
        BY <1>1, <2>2
      <3> QED
        BY <2>1, <3>1, <3>2
    <2> QED
      BY <1>1, <2>2, <2>3, <2>4
  <1>3. PICK n \in T : \A m \in T : n <= m
    <2>1. T \subseteq Nat
      BY <1>1
    <2> HIDE DEF T
    <2> QED
      BY <1>2, <2>1, LeastMember
  <1>4. n \in 0 .. (Ids - 1) /\ Free((next + n) % Ids) /\ \A m \in 0 .. (n - 1) : ~Free((next + m) % Ids)
    <2>1. \A m \in 0 .. (n - 1) : m \in 0 .. (Ids - 1) /\ ~(n <= m)
      BY <1>1
    <2> QED
      BY <1>3, <2>1
  <1> DEFINE P(k) == k \in 0 .. (Ids - 1) /\ Free((next + k) % Ids)
                       /\ \A m \in 0 .. (k - 1) : ~Free((next + m) % Ids)
             ahead == CHOOSE k \in 0 .. (Ids - 1) :
                        Free((next + k) % Ids) /\ \A m \in 0 .. (k - 1) : ~Free((next + m) % Ids)
  <1>5. P(ahead)
    BY <1>4
  <1>6. NextId = (next + ahead) % Ids
    BY DEF NextId
  <1>7. (next + ahead) % Ids \in Id
    <2>1. ahead \in Nat
      BY <1>1, <1>5
    <2> HIDE DEF ahead, P
    <2> QED
      BY <1>1, <2>1 DEF Id
  <1>8. NextId \in Id /\ Free(NextId)
    BY <1>5, <1>6, <1>7
  <1>9. (NextId + 1) % Ids \in Id
    BY <1>1, <1>8 DEF Id
  <1> QED
    BY <1>8, <1>9 DEF MayRegister, ComesRound

-----------------------------------------------------------------------------
(* Types *)

\* The types hold at first.
LEMMA TypedInit == Init => Typed
  <1> SUFFICES ASSUME Init PROVE Typed
    OBVIOUS
  <1>1. 0 \in Id /\ 0 \in 0 .. MaxTime
    BY ClientRequestsAssumption DEF Id
  <1>2. router \in Routers /\ at \in [Call -> Where] /\ queue \in Seq(Async)
    BY DEF Init, Routers, Where
  <1> QED
    BY <1>1, <1>2 DEF Init, Typed

\* A call that returns keeps the types.
LEMMA ReturnTyped ==
  ASSUME Typed, NEW c \in Call, NEW r \in Results, Return(c, r)
  PROVE  at' \in [Call -> Where] /\ result' \in [Call -> Results \cup {None}]
  BY DEF Typed, Return, Where

\* What is resolved keeps the types.
LEMMA ResolveTyped ==
  ASSUME Typed, NEW cs, NEW r \in [Call -> Results], Resolve(cs, r)
  PROVE  /\ at' \in [Call -> Where] /\ result' \in [Call -> Results \cup {None}]
         /\ mailbox' \in [Call -> Results \cup {None}]
  BY DEF Typed, Resolve, Where

\* What calls are told.
LEMMA GotTyped ==
  ASSUME NEW kind \in Kinds
  PROVE  Ended(kind) \in [Call -> Results] /\ \A c \in Call : Got(kind, c) \in Results
  BY DEF Ended, Got, Results, Kinds

\* Callers keep the types (register, exchange, give_up_attach, request_async).
LEMMA CallerTyped == ASSUME Typed, Served, NEW c \in Call, Caller(c) PROVE Typed'
  <1> USE DEF Typed, Unchanged, table
  <1>0. \A kind \in Kinds : Got(kind, c) \in Results
    BY GotTyped
  <1>1. CASE Register(c)
    <2>1. CASE closed
      <3>1. at' \in [Call -> Where] /\ result' \in [Call -> Results \cup {None}]
        BY <1>0, <1>1, <2>1, ReturnTyped DEF Register, Kinds
      <3> QED
        BY <1>1, <2>1, <3>1 DEF Register
    <2>2. CASE ~closed
      <3>1. NextId \in Id /\ (NextId + 1) % Ids \in Id
        BY <1>1, NextIdFree DEF Register
      <3>2. at' \in [Call -> Where]
        BY <1>1, <2>2 DEF Register, Where
      <3> QED
        BY <1>1, <2>2, <3>1, <3>2 DEF Register
    <2> QED
      BY <2>1, <2>2
  <1>2. CASE Send(c)
    <2>1. at' \in [Call -> Where] /\ result' \in [Call -> Results \cup {None}]
      <3>1. CASE Return(c, Got("disconnected", c))
        BY <1>0, <3>1, ReturnTyped DEF Kinds
      <3> QED
        BY <1>2, <3>1 DEF Send, Where
    <2>2. waiting' \in [Id -> Plain \cup Attach \cup {None}] /\ attaching' \in [Id -> Attach \cup {None}]
      BY <1>2 DEF Send
    <2>3. wire' \subseteq Id \X Call
      <3>1. id[c] \in Id
        BY <1>2 DEF Send, Served, Numbered
      <3> QED
        BY <1>2, <3>1 DEF Send
    <2> QED
      BY <1>2, <2>1, <2>2, <2>3 DEF Send
  <1>3. CASE TakeReply(c) \/ Disconnected(c)
    <2>1. \E r \in Results : Return(c, r)
      BY <1>0, <1>3 DEF TakeReply, Disconnected, Kinds
    <2>2. at' \in [Call -> Where] /\ result' \in [Call -> Results \cup {None}]
      BY <2>1, ReturnTyped
    <2> QED
      BY <1>3, <2>2 DEF TakeReply, Disconnected
  <1>4. CASE TimeOut(c)
    BY <1>4 DEF TimeOut, Where
  <1>5. CASE Forget(c)
    <2>1. at' \in [Call -> Where] /\ result' \in [Call -> Results \cup {None}]
      BY <1>0, <1>5, ReturnTyped DEF Forget, Kinds
    <2> QED
      BY <1>5, <2>1 DEF Forget
  <1>6. CASE GiveUp(c)
    <2>1. at' \in [Call -> Where] /\ result' \in [Call -> Results \cup {None}]
      <3>1. CASE Return(c, Got("timeout", c))
        BY <1>0, <3>1, ReturnTyped DEF Kinds
      <3> QED
        BY <1>6, <3>1 DEF GiveUp, Where
    <2> QED
      BY <1>6, <2>1 DEF GiveUp
  <1>7. CASE RegisterAsync(c)
    <2>1. CASE Return(c, Got("failed", c)) /\ UNCHANGED <<table, id, deadline, notified>>
      <3>1. at' \in [Call -> Where] /\ result' \in [Call -> Results \cup {None}]
        BY <1>0, <2>1, ReturnTyped DEF Kinds
      <3> QED
        BY <1>7, <2>1, <3>1 DEF RegisterAsync
    <2>2. CASE ~(Return(c, Got("failed", c)) /\ UNCHANGED <<table, id, deadline, notified>>)
      <3>1. NextId \in Id /\ (NextId + 1) % Ids \in Id
        BY <1>7, NextIdFree DEF RegisterAsync
      <3>2. at' \in [Call -> Where] /\ notified' \in BOOLEAN
        BY <1>7, <2>2 DEF RegisterAsync, Where, Notify
      <3>3. deadline' \in [Async -> 0 .. MaxTime]
        <4>1. now + Patience[c] \in 0 .. MaxTime /\ deadline' = [deadline EXCEPT ![c] = now + Patience[c]]
          BY <1>7, <2>2, ClientRequestsAssumption DEF RegisterAsync
        <4> QED
          BY <4>1
      <3>4. next' \in Id /\ id' \in [Call -> Id \cup {None}] /\ async' \in [Id -> Async \cup {None}]
        BY <1>7, <2>2, <3>1 DEF RegisterAsync
      <3> QED
        BY <1>7, <2>2, <3>2, <3>3, <3>4 DEF RegisterAsync
    <2> QED
      BY <2>1, <2>2
  <1>8. CASE Enqueue(c)
    <2>1. mailbox' \in [Call -> Results \cup {None}] /\ async' \in [Id -> Async \cup {None}]
      BY <1>0, <1>8 DEF Enqueue, Kinds
    <2>2. queue' \in Seq(Async)
      <3>1. c \in Async /\ queue \in Seq(Async) /\ queue' \in {queue, Append(queue, c)}
        BY <1>8 DEF Enqueue
      <3>2. Append(queue, c) \in Seq(Async)
        BY <3>1
      <3> QED
        BY <3>1, <3>2
    <2>3. at' \in [Call -> Where]
      BY <1>8 DEF Enqueue, Where
    <2> QED
      BY <1>8, <2>1, <2>2, <2>3 DEF Enqueue
  <1>9. CASE Listen(c)
    <2>1. at' \in [Call -> Where] /\ result' \in [Call -> Results \cup {None}]
      <3>1. CASE mailbox[c] # None /\ Return(c, mailbox[c])
        BY <3>1, ReturnTyped
      <3> QED
        BY <1>9, <3>1 DEF Listen, Where
    <2> QED
      BY <1>9, <2>1 DEF Listen
  <1>10. CASE DropRequest(c)
    <2>1. at' \in [Call -> Where] /\ result' \in [Call -> Results \cup {None}]
      BY <1>0, <1>10, ReturnTyped DEF DropRequest, Kinds
    <2> QED
      BY <1>10, <2>1 DEF DropRequest
  <1> QED
    BY <1>1, <1>2, <1>3, <1>4, <1>5, <1>6, <1>7, <1>8, <1>9, <1>10 DEF Caller

\* The library's threads keep the types (spawn_writer, route, close, watch_deadlines).
LEMMA ThreadTyped ==
  ASSUME Typed, Served, Writer \/ Routing \/ Deadlines \/ Tick \/ Break \/ Disconnect PROVE Typed'
  <1> USE DEF Typed, Unchanged, table
  <1>1. CASE TakeQueued
    <2>1. queue' \in Seq(Async) /\ Head(queue) \in Async
      BY <1>1, QueueRange DEF TakeQueued
    <2> QED
      BY <1>1, <2>1 DEF TakeQueued
  <1>2. CASE WriteQueued
    <2>1. id[writer] \in Id /\ writer \in Call
      BY <1>2 DEF WriteQueued, Served, Queued, Call
    <2> QED
      BY <1>2, <2>1 DEF WriteQueued
  <1>3. CASE Announce
    BY <1>3 DEF Announce, Routers
  <1>4. CASE ResolveAttached
    <2>1. router.id \in Id /\ router.of \in Call /\ Got("attached", router.of) \in Results
      BY <1>4, GotTyped DEF ResolveAttached, Routers, Call, Kinds
    <2>2. mailbox' \in [Call -> Results \cup {None}]
      BY <1>4, <2>1 DEF ResolveAttached
    <2> QED
      BY <1>4, <2>1, <2>2 DEF ResolveAttached, Routers
  <1>5. CASE Deliver
    <2>1. router.to \in Call /\ router.what \in Results
      BY <1>5 DEF Deliver, Routers
    <2>2. [c \in Call |-> router.what] \in [Call -> Results]
      BY <2>1
    <2>3. /\ at' \in [Call -> Where] /\ result' \in [Call -> Results \cup {None}]
          /\ mailbox' \in [Call -> Results \cup {None}]
      <3>1. CASE Resolve({router.to}, [c \in Call |-> router.what])
        BY <2>2, <3>1, ResolveTyped
      <3> QED
        BY <1>5, <2>1, <3>1 DEF Deliver
    <2> QED
      BY <1>5, <2>3 DEF Deliver, Routers
  <1>6. ASSUME CloseTable, router' \in Routers, wire' \subseteq Id \X Call PROVE Typed'
    <2>1. /\ at' \in [Call -> Where] /\ result' \in [Call -> Results \cup {None}]
          /\ mailbox' \in [Call -> Results \cup {None}]
      BY <1>6, ResolveTyped, GotTyped DEF CloseTable, Kinds
    <2> QED
      BY <1>6, <2>1 DEF CloseTable
  <1>7. CASE Break \/ Disconnect
    <2>1. CloseTable /\ router' \in Routers /\ wire' \subseteq Id \X Call
      BY <1>7 DEF Break, Disconnect, Routers
    <2> QED
      BY <1>6, <2>1
  <1>8. CASE Look
    <2> DEFINE pending == {deadline[async[i]] : i \in {j \in Id : async[j] # None}}
    <2>1. pending \subseteq 0 .. MaxTime
      OBVIOUS
    <2>2. sleep' = CHOOSE d \in pending \cup {Forever} : \A e \in pending : d <= e
      BY <1>8 DEF Look
    <2> HIDE DEF pending
    <2>3. pending \cup {Forever} \subseteq 0 .. Forever /\ Forever \in Nat
      <3>1. MaxTime \in Nat /\ Forever = MaxTime + 1
        BY ClientRequestsAssumption DEF Forever
      <3>2. 0 .. MaxTime \subseteq 0 .. Forever /\ Forever \in 0 .. Forever /\ Forever \in Nat
        BY <3>1
      <3> QED
        BY <2>1, <3>2
    <2>4. \E d \in pending \cup {Forever} : \A e \in pending : d <= e
      <3> DEFINE T == pending \cup {Forever}
      <3>1. T \subseteq Nat /\ T # {}
        BY <2>3, ClientRequestsAssumption
      <3> HIDE DEF T
      <3>2. \E d \in T : \A e \in T : d <= e
        BY <3>1, LeastMember, Zenon
      <3> QED
        BY <3>2 DEF T
    <2>5. sleep' \in (0 .. Forever) \cup {None}
      BY <2>2, <2>3, <2>4
    <2> QED
      BY <1>8, <2>5 DEF Look
  <1>9. CASE Wake \/ Tick
    BY <1>9, ClientRequestsAssumption DEF Wake, Tick
  <1>10. CASE Expire
    <2> DEFINE due == {i \in Id : async[i] # None /\ deadline[async[i]] <= now}
    <2>1. Resolve({async[i] : i \in due}, Ended("timeout"))
          /\ async' = [i \in Id |-> IF i \in due THEN None ELSE async[i]]
      BY <1>10 DEF Expire
    <2>2. async' \in [Id -> Async \cup {None}]
      BY <2>1
    <2>3. /\ at' \in [Call -> Where] /\ result' \in [Call -> Results \cup {None}]
          /\ mailbox' \in [Call -> Results \cup {None}]
      BY <2>1, ResolveTyped, GotTyped DEF Kinds
    <2> HIDE DEF due
    <2> QED
      BY <1>10, <2>2, <2>3 DEF Expire
  <1> QED
    BY <1>1, <1>2, <1>3, <1>4, <1>5, <1>7, <1>8, <1>9, <1>10 DEF Writer, Routing, Deadlines

\* The reader keeps the types (route_message).
LEMMA ReadTyped ==
  ASSUME Typed, NEW i \in Id, NEW c \in Call, NEW ok \in BOOLEAN, Read(i, c, ok) PROVE Typed'
  <1> USE DEF Typed, Unchanged, table
  <1>1. \A kind \in Kinds : Got(kind, c) \in Results
    BY GotTyped
  <1>2. router' \in Routers
    <2>1. CASE c \in Attach /\ ok /\ attaching[i] # None
      BY <2>1 DEF Read, Routers
    <2>2. CASE ~(c \in Attach /\ ok /\ attaching[i] # None)
      <3>1. async[i] # None => async[i] \in Call
        BY DEF Call
      <3>2. waiting[i] # None => waiting[i] \in Call
        BY DEF Call
      <3>3. Got(IF ok THEN "reply" ELSE "error", c) \in Results
        BY <1>1 DEF Kinds
      <3> QED
        BY <2>2, <3>1, <3>2, <3>3 DEF Read, Routers
    <2> QED
      BY <2>1, <2>2
  <1>3. /\ waiting' \in [Id -> Plain \cup Attach \cup {None}] /\ attaching' \in [Id -> Attach \cup {None}]
        /\ async' \in [Id -> Async \cup {None}]
    BY DEF Read
  <1>4. opened' \subseteq Attach /\ wire' \subseteq Id \X Call
    BY DEF Read
  <1> QED
    BY <1>2, <1>3, <1>4 DEF Read

-----------------------------------------------------------------------------
(* The other parts *)

\* An answer is not None, and is of the call and kind it was made for.
LEMMA GotOf ==
  ASSUME NEW kind \in Kinds, NEW c \in Call
  PROVE  Got(kind, c) # None /\ Got(kind, c).of = c /\ Got(kind, c).k = kind
  <1>1. Got(kind, c) \in Results
    BY GotTyped
  <1> QED
    BY <1>1, ClientRequestsAssumption DEF Got

\* Nobody uses the identity a call is about to be given.
LEMMA Unused ==
  ASSUME Typed, NEW c \in Call, MayRegister
  PROVE  \A d \in Call : ~Uses(NextId, d)
  <1>1. NextId \in Id /\ Free(NextId) /\ Holders(NextId) = {}
    BY NextIdFree
  <1>2. ~(router.k \in {"announce", "attached"} /\ router.id = NextId)
    BY <1>1 DEF Holders
  <1>3. \A d \in Call : <<NextId, d>> \notin wire
    BY <1>1 DEF Holders
  <1>4. \A d \in Call : id[d] = NextId => at[d] \in {"new", "done"}
    BY <1>1 DEF Holders
  <1>5. \A d \in Call : id[d] = NextId => writer # d /\ d \notin Range(queue)
    BY <1>1, ClientRequestsAssumption DEF Holders
  <1>6. \A d \in Call : waiting[NextId] # d /\ attaching[NextId] # d /\ async[NextId] # d
    BY <1>1, ClientRequestsAssumption DEF Free
  <1> QED
    BY <1>2, <1>3, <1>4, <1>5, <1>6 DEF Uses, Routes

\* A step that takes no identity keeps each identity with one call.
LEMMA SingleKept ==
  ASSUME Single, \A i \in Id : \A d \in Call : Uses(i, d)' => Uses(i, d)
  PROVE  Single'
  BY DEF Single

\* Callers keep the invariant.
LEMMA CallerStep == ASSUME Inv, NEW c \in Call, Caller(c) PROVE Promises'
  <1>0. \A kind \in Kinds : Got(kind, c) # None /\ Got(kind, c).of = c /\ Got(kind, c).k = kind
    BY GotOf
  <1>21. c \in Async => Range(Append(queue, c)) = Range(queue) \cup {c}
    BY QueueRange DEF Inv, Typed
  <1> USE ClientRequestsAssumption DEF Inv, Promises, Typed, Unchanged, table, Call, Kinds
  <1>1. CASE Send(c)
    <2>0. /\ id[c] \in Id /\ at[c] = "sending" /\ id' = id
          /\ at'[c] \in {"waiting", "done"} /\ \A d \in Call \ {c} : at'[d] = at[d]
      BY <1>1 DEF Send, Return, Served, Numbered
    <2>1. Single'
      <3>1. \A j \in Id : \A d \in Call : Uses(j, d)' => Uses(j, d)
        BY <1>1, <2>0 DEF Send, Return, Uses, Routes, Served, Numbered
      <3> QED
        BY <3>1, SingleKept
    <2>2. Entered'
      BY <1>1, <2>0 DEF Send, Return, Entered, Answered, Routes, Served, Numbered
    <2>3. Served'
      <3>1. Wired'
        BY <1>1, <2>0 DEF Send, Return, Wired, Sent, Served, Numbered
      <3>2. Queued'
        BY <1>1, <2>0 DEF Send, Return, Queued, Sent, Served, Numbered
      <3>3. Routed'
        BY <1>1, <2>0 DEF Send, Return, Routed, Routes, Sent, Served
      <3>4. Numbered'
        BY <1>1, <2>0 DEF Send, Return, Numbered, Served
      <3> QED
        BY <3>1, <3>2, <3>3, <3>4 DEF Served
    <2>4. Answered'
      BY <1>1, <2>0 DEF Send, Return, Answered, Entered
    <2>5. Mail'
      BY <1>0, <1>1, <2>0 DEF Send, Return, Mail
    <2>6. Terminals'
      <3>1. \A i \in Id, d \in Attach : <<i, d>> \in wire' /\ ~closed' => attaching'[i] = d
        <4> SUFFICES ASSUME NEW i \in Id, NEW d \in Attach, <<i, d>> \in wire', ~closed'
                     PROVE  attaching'[i] = d
          OBVIOUS
        <4>1. CASE <<i, d>> \in wire
          <5>1. d # c /\ attaching[i] = d /\ Uses(i, d) /\ id[d] = i
            BY <1>1, <2>0, <4>1 DEF Send, Served, Wired, Sent, Terminals, Uses
          <5>2. i # id[c]
            <6>1. Uses(id[c], c)
              BY <2>0 DEF Uses
            <6> QED
              BY <2>0, <5>1, <6>1 DEF Single
          <5> QED
            BY <1>1, <5>1, <5>2 DEF Send
        <4>2. CASE <<i, d>> \notin wire
          <5>1. i = id[c] /\ d = c /\ attaching' = attaching
            BY <1>1, <4>2 DEF Send
          <5>2. attaching[i] = c
            BY <1>1, <2>0, <4>2, <5>1 DEF Send, Terminals
          <5> QED
            BY <5>1, <5>2
        <4> QED
          BY <4>1, <4>2
      <3>2. \A d \in opened' : \A i \in Id : attaching'[i] # d /\ <<i, d>> \notin wire'
        <4> SUFFICES ASSUME NEW d \in opened, NEW i \in Id
                     PROVE  attaching'[i] # d /\ <<i, d>> \notin wire'
          BY <1>1 DEF Send
        <4>1. d \in Call /\ d # c /\ attaching[i] # d /\ <<i, d>> \notin wire
          BY <2>0 DEF Terminals, Sent
        <4> QED
          BY <1>1, <2>0, <4>1 DEF Send
      <3>3. \A d \in opened' : Sent(d)' /\ (d \in announced' \/ (router'.k = "announce" /\ router'.tag = d))
        BY <1>1, <2>0 DEF Send, Terminals, Sent
      <3>4. \A d \in Attach : at'[d] = "sending" /\ ~closed' => attaching'[id'[d]] = d
        <4> SUFFICES ASSUME NEW d \in Attach, at'[d] = "sending", ~closed'
                     PROVE  attaching'[id[d]] = d
          BY <2>0
        <4>1. d # c /\ at[d] = "sending" /\ ~closed /\ attaching[id[d]] = d /\ id[d] \in Id
          <5>1. d # c /\ at[d] = "sending" /\ ~closed
            BY <1>1, <2>0 DEF Send
          <5> QED
            BY <5>1 DEF Terminals, Served, Numbered
        <4>2. Uses(id[c], c) /\ Uses(id[d], d)
          BY <2>0, <4>1 DEF Uses
        <4>3. id[d] # id[c]
          BY <2>0, <4>1, <4>2 DEF Single
        <4> QED
          BY <1>1, <4>1, <4>3 DEF Send
      <3> QED
        BY <1>1, <3>1, <3>2, <3>3, <3>4 DEF Send, Terminals
    <2> QED
      BY <2>1, <2>2, <2>3, <2>4, <2>5, <2>6
  <1>2. CASE TakeReply(c)
    <2>1. Single'
      <3>1. \A j \in Id : \A d \in Call : Uses(j, d)' => Uses(j, d)
        BY <1>2 DEF TakeReply, Return, Uses, Routes, Served, Numbered
      <3> QED
        BY <3>1, SingleKept
    <2>2. Entered'
      BY <1>2 DEF TakeReply, Return, Entered, Answered, Routes, Served, Numbered
    <2>3. Served'
      <3>1. Wired'
        BY <1>2 DEF TakeReply, Return, Wired, Sent, Served, Numbered
      <3>2. Queued'
        BY <1>2 DEF TakeReply, Return, Queued, Sent, Served, Numbered
      <3>3. Routed'
        BY <1>2 DEF TakeReply, Return, Routed, Routes, Sent, Served
      <3>4. Numbered'
        BY <1>2 DEF TakeReply, Return, Numbered, Served
      <3> QED
        BY <3>1, <3>2, <3>3, <3>4 DEF Served
    <2>4. Answered'
      BY <1>2 DEF TakeReply, Return, Answered, Entered
    <2>5. Mail'
      BY <1>0, <1>2 DEF TakeReply, Return, Mail
    <2>6. Terminals'
      BY <1>2 DEF TakeReply, Return, Terminals, Sent, Served, Wired, Routed, Routes
    <2> QED
      BY <2>1, <2>2, <2>3, <2>4, <2>5, <2>6
  <1>3. CASE Disconnected(c)
    <2>1. Single'
      <3>1. \A j \in Id : \A d \in Call : Uses(j, d)' => Uses(j, d)
        BY <1>3 DEF Disconnected, Return, SenderDropped, Uses, Routes, Served, Numbered
      <3> QED
        BY <3>1, SingleKept
    <2>2. Entered'
      BY <1>3 DEF Disconnected, Return, SenderDropped, Entered, Answered, Routes, Served, Numbered
    <2>3. Served'
      <3>1. Wired'
        BY <1>3 DEF Disconnected, Return, SenderDropped, Wired, Sent, Served, Numbered
      <3>2. Queued'
        BY <1>3 DEF Disconnected, Return, SenderDropped, Queued, Sent, Served, Numbered
      <3>3. Routed'
        BY <1>3 DEF Disconnected, Return, SenderDropped, Routed, Routes, Sent, Served
      <3>4. Numbered'
        BY <1>3 DEF Disconnected, Return, SenderDropped, Numbered, Served
      <3> QED
        BY <3>1, <3>2, <3>3, <3>4 DEF Served
    <2>4. Answered'
      BY <1>3 DEF Disconnected, Return, SenderDropped, Answered, Entered
    <2>5. Mail'
      BY <1>0, <1>3 DEF Disconnected, Return, SenderDropped, Mail
    <2>6. Terminals'
      BY <1>3 DEF Disconnected, Return, SenderDropped, Terminals, Sent, Served, Wired, Routed, Routes
    <2> QED
      BY <2>1, <2>2, <2>3, <2>4, <2>5, <2>6
  <1>4. CASE TimeOut(c)
    <2>1. Single'
      <3>1. \A j \in Id : \A d \in Call : Uses(j, d)' => Uses(j, d)
        BY <1>4 DEF TimeOut, Uses, Routes, Served, Numbered
      <3> QED
        BY <3>1, SingleKept
    <2>2. Entered'
      BY <1>4 DEF TimeOut, Entered, Answered, Routes, Served, Numbered
    <2>3. Served'
      <3>1. Wired'
        BY <1>4 DEF TimeOut, Wired, Sent, Served, Numbered
      <3>2. Queued'
        BY <1>4 DEF TimeOut, Queued, Sent, Served, Numbered
      <3>3. Routed'
        BY <1>4 DEF TimeOut, Routed, Routes, Sent, Served
      <3>4. Numbered'
        BY <1>4 DEF TimeOut, Numbered, Served
      <3> QED
        BY <3>1, <3>2, <3>3, <3>4 DEF Served
    <2>4. Answered'
      BY <1>4 DEF TimeOut, Answered, Entered
    <2>5. Mail'
      BY <1>0, <1>4 DEF TimeOut, Mail
    <2>6. Terminals'
      BY <1>4 DEF TimeOut, Terminals, Sent, Served, Wired, Routed, Routes
    <2> QED
      BY <2>1, <2>2, <2>3, <2>4, <2>5, <2>6
  <1>5. CASE Forget(c)
    <2>1. Single'
      <3>1. \A j \in Id : \A d \in Call : Uses(j, d)' => Uses(j, d)
        BY <1>5 DEF Forget, Return, Uses, Routes, Served, Numbered
      <3> QED
        BY <3>1, SingleKept
    <2>2. Entered'
      BY <1>5 DEF Forget, Return, Entered, Answered, Routes, Served, Numbered
    <2>3. Served'
      <3>1. Wired'
        BY <1>5 DEF Forget, Return, Wired, Sent, Served, Numbered
      <3>2. Queued'
        BY <1>5 DEF Forget, Return, Queued, Sent, Served, Numbered
      <3>3. Routed'
        BY <1>5 DEF Forget, Return, Routed, Routes, Sent, Served
      <3>4. Numbered'
        BY <1>5 DEF Forget, Return, Numbered, Served
      <3> QED
        BY <3>1, <3>2, <3>3, <3>4 DEF Served
    <2>4. Answered'
      BY <1>5 DEF Forget, Return, Answered, Entered
    <2>5. Mail'
      BY <1>0, <1>5 DEF Forget, Return, Mail
    <2>6. Terminals'
      BY <1>5 DEF Forget, Return, Terminals, Sent, Served, Wired, Routed, Routes
    <2> QED
      BY <2>1, <2>2, <2>3, <2>4, <2>5, <2>6
  <1>6. CASE GiveUp(c)
    <2>1. Single'
      <3>1. \A j \in Id : \A d \in Call : Uses(j, d)' => Uses(j, d)
        BY <1>6 DEF GiveUp, Return, Uses, Routes, Served, Numbered
      <3> QED
        BY <3>1, SingleKept
    <2>2. Entered'
      BY <1>6 DEF GiveUp, Return, Entered, Answered, Routes
    <2>3. Served'
      <3>1. Wired'
        BY <1>6 DEF GiveUp, Return, Wired, Sent, Served, Numbered
      <3>2. Queued'
        BY <1>6 DEF GiveUp, Return, Queued, Sent, Served, Numbered
      <3>3. Routed'
        BY <1>6 DEF GiveUp, Return, Routed, Routes, Sent, Served
      <3>4. Numbered'
        BY <1>6 DEF GiveUp, Return, Numbered, Served
      <3> QED
        BY <3>1, <3>2, <3>3, <3>4 DEF Served
    <2>4. Answered'
      BY <1>6 DEF GiveUp, Return, Answered, Entered
    <2>5. Mail'
      BY <1>0, <1>6 DEF GiveUp, Return, Mail
    <2>6. Terminals'
      BY <1>6 DEF GiveUp, Return, Terminals, Sent, Served, Wired, Routed, Routes
    <2> QED
      BY <2>1, <2>2, <2>3, <2>4, <2>5, <2>6
  <1>7. CASE Enqueue(c)
    <2>0. /\ id[c] \in Id /\ at'[c] = "queued" /\ \A d \in Call \ {c} : at'[d] = at[d]
          /\ Range(queue') \subseteq Range(queue) \cup {c}
      <3>1. id[c] \in Id /\ c \in Async /\ queue' \in {queue, Append(queue, c)}
        BY <1>7 DEF Enqueue, Served, Numbered
      <3>2. Range(queue') \subseteq Range(queue) \cup {c}
        BY <1>21, <3>1
      <3> QED
        BY <1>7, <3>1, <3>2 DEF Enqueue
    <2>1. Single'
      <3>1. \A j \in Id : \A d \in Call : Uses(j, d)' => Uses(j, d)
        <4> SUFFICES ASSUME NEW i \in Id, NEW d \in Call, Uses(i, d)' PROVE Uses(i, d)
          OBVIOUS
        <4>1. CASE d = c
          BY <1>7, <2>0, <4>1 DEF Enqueue, Uses, Routes
        <4>2. CASE d # c
          BY <1>7, <2>0, <4>2 DEF Enqueue, Uses, Routes
        <4> QED
          BY <4>1, <4>2
      <3> QED
        BY <3>1, SingleKept
    <2>2. Entered'
      BY <1>7, <2>0 DEF Enqueue, Entered, Answered, Routes, Served, Numbered
    <2>3. Served'
      <3>1. Wired'
        BY <1>7, <2>0 DEF Enqueue, Wired, Sent, Served, Numbered
      <3>2. Queued'
        BY <1>7, <2>0 DEF Enqueue, Queued, Sent, Served, Numbered
      <3>3. Routed'
        BY <1>7, <2>0 DEF Enqueue, Routed, Routes, Sent, Served
      <3>4. Numbered'
        BY <1>7, <2>0 DEF Enqueue, Numbered, Served
      <3> QED
        BY <3>1, <3>2, <3>3, <3>4 DEF Served
    <2>4. Answered'
      BY <1>7, <2>0 DEF Enqueue, Answered, Entered
    <2>5. Mail'
      BY <1>0, <1>7, <2>0 DEF Enqueue, Mail
    <2>6. Terminals'
      BY <1>7, <2>0 DEF Enqueue, Terminals, Sent, Served, Wired, Routed, Routes
    <2> QED
      BY <2>1, <2>2, <2>3, <2>4, <2>5, <2>6
  <1>8. CASE Listen(c)
    <2>0. /\ at[c] = "queued" /\ id' = id /\ at'[c] \in {"listening", "done"}
          /\ \A d \in Call \ {c} : at'[d] = at[d]
      BY <1>8 DEF Listen, Return
    <2>1. Single'
      <3>1. \A j \in Id : \A d \in Call : Uses(j, d)' => Uses(j, d)
        BY <1>8, <2>0 DEF Listen, Return, Uses, Routes, Served, Numbered
      <3> QED
        BY <3>1, SingleKept
    <2>2. Entered'
      BY <1>8, <2>0 DEF Listen, Return, Entered, Answered, Routes, Served, Numbered
    <2>3. Served'
      <3>1. Wired'
        BY <1>8, <2>0 DEF Listen, Return, Wired, Sent, Served, Numbered
      <3>2. Queued'
        BY <1>8, <2>0 DEF Listen, Return, Queued, Sent, Served, Numbered
      <3>3. Routed'
        BY <1>8, <2>0 DEF Listen, Return, Routed, Routes, Sent, Served
      <3>4. Numbered'
        BY <1>8, <2>0 DEF Listen, Return, Numbered, Served
      <3> QED
        BY <3>1, <3>2, <3>3, <3>4 DEF Served
    <2>4. Answered'
      BY <1>8, <2>0 DEF Listen, Return, Answered, Entered
    <2>5. Mail'
      BY <1>0, <1>8, <2>0 DEF Listen, Return, Mail
    <2>6. Terminals'
      BY <1>8, <2>0 DEF Listen, Return, Terminals, Sent, Served, Wired, Routed, Routes
    <2> QED
      BY <2>1, <2>2, <2>3, <2>4, <2>5, <2>6
  <1>9. CASE DropRequest(c)
    <2>1. Single'
      <3>1. \A j \in Id : \A d \in Call : Uses(j, d)' => Uses(j, d)
        BY <1>9 DEF DropRequest, Return, Uses, Routes, Served, Numbered
      <3> QED
        BY <3>1, SingleKept
    <2>2. Entered'
      BY <1>9 DEF DropRequest, Return, Entered, Answered, Routes, Served, Numbered
    <2>3. Served'
      <3>1. Wired'
        BY <1>9 DEF DropRequest, Return, Wired, Sent, Served, Numbered
      <3>2. Queued'
        BY <1>9 DEF DropRequest, Return, Queued, Sent, Served, Numbered
      <3>3. Routed'
        BY <1>9 DEF DropRequest, Return, Routed, Routes, Sent, Served
      <3>4. Numbered'
        BY <1>9 DEF DropRequest, Return, Numbered, Served
      <3> QED
        BY <3>1, <3>2, <3>3, <3>4 DEF Served
    <2>4. Answered'
      BY <1>9 DEF DropRequest, Return, Answered, Entered
    <2>5. Mail'
      BY <1>0, <1>9 DEF DropRequest, Return, Mail
    <2>6. Terminals'
      BY <1>9 DEF DropRequest, Return, Terminals, Sent, Served, Wired, Routed, Routes
    <2> QED
      BY <2>1, <2>2, <2>3, <2>4, <2>5, <2>6
  <1>10. CASE Register(c)
    <2>0. at[c] = "new"
      BY <1>10 DEF Register
    <2>1. CASE closed
      <3>0. /\ Return(c, Got("disconnected", c))
            /\ UNCHANGED <<table, id, now, opened, announced, deadline, mailbox, wire, router, queue,
                              writer, sleep, notified>>
        BY <1>10, <2>1 DEF Register
      <3>1. Single'
        <4>1. \A i \in Id : \A d \in Call : Uses(i, d)' => Uses(i, d)
          BY <2>0, <3>0 DEF Return, Uses, Routes
        <4> QED
          BY <4>1, SingleKept
      <3>2. Entered'
        BY <2>0, <3>0 DEF Return, Entered, Answered, Routes, Served, Numbered
      <3>3. Served'
        <4>1. Wired'
          BY <2>0, <3>0 DEF Return, Wired, Sent, Served, Numbered
        <4>2. Queued'
          BY <2>0, <3>0 DEF Return, Queued, Sent, Served, Numbered
        <4>3. Routed'
          BY <2>0, <3>0 DEF Return, Routed, Routes, Sent, Served
        <4>4. Numbered'
          BY <2>0, <3>0 DEF Return, Numbered, Served
        <4> QED
          BY <4>1, <4>2, <4>3, <4>4 DEF Served
      <3>4. Answered'
        BY <2>0, <3>0 DEF Return, Answered, Entered
      <3>5. Mail'
        BY <1>0, <2>0, <3>0 DEF Return, Mail
      <3>6. Terminals'
        BY <2>0, <3>0 DEF Return, Terminals, Sent, Served, Wired, Routed, Routes
      <3> QED
        BY <3>1, <3>2, <3>3, <3>4, <3>5, <3>6
    <2>2. CASE ~(closed)
      <3>1. MayRegister
        BY <1>10 DEF Register
      <3>2. NextId \in Id /\ Free(NextId) /\ \A d \in Call : ~Uses(NextId, d)
        BY <3>1, Unused, NextIdFree
      <3>0. PICK n \in Id :
              /\ waiting[n] = None /\ attaching[n] = None /\ async[n] = None
              /\ \A d \in Call : ~Uses(n, d)
              /\ c \in Plain \cup Attach /\ id' = [id EXCEPT ![c] = n]
              /\ waiting' = [waiting EXCEPT ![n] = c]
              /\ attaching' = IF c \in Attach THEN [attaching EXCEPT ![n] = c] ELSE attaching
              /\ at' = [at EXCEPT ![c] = "sending"] /\ ~closed
              /\ UNCHANGED <<async, closed, result, opened, announced, mailbox, wire, router, queue,
                             writer>>
        BY <1>10, <2>2, <3>2 DEF Register, Free
      <3>3. Promises'
        <4>1. Single'
          <5>1. \A i \in Id : \A d \in Call : Uses(i, d)' => Uses(i, d) \/ (i = n /\ d = c)
            BY <2>0, <3>0 DEF Uses, Routes
          <5> SUFFICES ASSUME NEW i \in Id, NEW d \in Call, NEW b \in Call, Uses(i, d)', Uses(i, b)'
                       PROVE  d = b
            BY DEF Single
          <5>2. CASE i = n
            BY <3>0, <5>1, <5>2
          <5>3. CASE i # n
            BY <5>1, <5>3 DEF Single
          <5> QED
            BY <5>2, <5>3
        <4>2. Entered'
          BY <2>0, <3>0 DEF Entered, Answered, Routes, Served, Numbered
        <4>3. Served'
          <5>1. Wired'
            BY <2>0, <3>0 DEF Wired, Sent, Served, Numbered
          <5>2. Queued'
            BY <2>0, <3>0 DEF Queued, Sent, Served, Numbered
          <5>3. Routed'
            BY <2>0, <3>0 DEF Routed, Routes, Sent, Served
          <5>4. Numbered'
            BY <2>0, <3>0 DEF Numbered, Served
          <5> QED
            BY <5>1, <5>2, <5>3, <5>4 DEF Served
        <4>4. Answered'
          BY <2>0, <3>0 DEF Answered, Entered
        <4>5. Mail'
          BY <1>0, <2>0, <3>0 DEF Mail
        <4>6. Terminals'
          BY <2>0, <3>0 DEF Terminals, Sent, Served, Wired, Routed, Routes
        <4> QED
          BY <4>1, <4>2, <4>3, <4>4, <4>5, <4>6
      <3> QED
        BY <3>3
    <2> QED
      BY <2>1, <2>2
  <1>11. CASE RegisterAsync(c)
    <2>0. at[c] = "new"
      BY <1>11 DEF RegisterAsync
    <2>1. CASE closed \/ Cardinality({i \in Id : async[i] # None}) >= Capacity
      <3>0. /\ Return(c, Got("failed", c))
            /\ UNCHANGED <<table, id, now, opened, announced, deadline, mailbox, wire, router, queue,
                              writer, sleep, notified>>
        BY <1>11, <2>1 DEF RegisterAsync
      <3>1. Single'
        <4>1. \A i \in Id : \A d \in Call : Uses(i, d)' => Uses(i, d)
          BY <2>0, <3>0 DEF Return, Uses, Routes
        <4> QED
          BY <4>1, SingleKept
      <3>2. Entered'
        BY <2>0, <3>0 DEF Return, Entered, Answered, Routes, Served, Numbered
      <3>3. Served'
        <4>1. Wired'
          BY <2>0, <3>0 DEF Return, Wired, Sent, Served, Numbered
        <4>2. Queued'
          BY <2>0, <3>0 DEF Return, Queued, Sent, Served, Numbered
        <4>3. Routed'
          BY <2>0, <3>0 DEF Return, Routed, Routes, Sent, Served
        <4>4. Numbered'
          BY <2>0, <3>0 DEF Return, Numbered, Served
        <4> QED
          BY <4>1, <4>2, <4>3, <4>4 DEF Served
      <3>4. Answered'
        BY <2>0, <3>0 DEF Return, Answered, Entered
      <3>5. Mail'
        BY <1>0, <2>0, <3>0 DEF Return, Mail
      <3>6. Terminals'
        BY <2>0, <3>0 DEF Return, Terminals, Sent, Served, Wired, Routed, Routes
      <3> QED
        BY <3>1, <3>2, <3>3, <3>4, <3>5, <3>6
    <2>2. CASE ~(closed \/ Cardinality({i \in Id : async[i] # None}) >= Capacity)
      <3>1. MayRegister
        BY <1>11 DEF RegisterAsync
      <3>2. NextId \in Id /\ Free(NextId) /\ \A d \in Call : ~Uses(NextId, d)
        BY <3>1, Unused, NextIdFree
      <3>0. PICK n \in Id :
              /\ waiting[n] = None /\ attaching[n] = None /\ async[n] = None
              /\ \A d \in Call : ~Uses(n, d)
              /\ c \in Async /\ id' = [id EXCEPT ![c] = n]
              /\ async' = [async EXCEPT ![n] = c]
              /\ at' = [at EXCEPT ![c] = "sending"] /\ ~closed
              /\ UNCHANGED <<waiting, attaching, closed, result, opened, announced, mailbox, wire,
                             router, queue, writer>>
        BY <1>11, <2>2, <3>2 DEF RegisterAsync, Free
      <3>3. Promises'
        <4>1. Single'
          <5>1. \A i \in Id : \A d \in Call : Uses(i, d)' => Uses(i, d) \/ (i = n /\ d = c)
            BY <2>0, <3>0 DEF Uses, Routes
          <5> SUFFICES ASSUME NEW i \in Id, NEW d \in Call, NEW b \in Call, Uses(i, d)', Uses(i, b)'
                       PROVE  d = b
            BY DEF Single
          <5>2. CASE i = n
            BY <3>0, <5>1, <5>2
          <5>3. CASE i # n
            BY <5>1, <5>3 DEF Single
          <5> QED
            BY <5>2, <5>3
        <4>2. Entered'
          BY <2>0, <3>0 DEF Entered, Answered, Routes, Served, Numbered
        <4>3. Served'
          <5>1. Wired'
            BY <2>0, <3>0 DEF Wired, Sent, Served, Numbered
          <5>2. Queued'
            BY <2>0, <3>0 DEF Queued, Sent, Served, Numbered
          <5>3. Routed'
            BY <2>0, <3>0 DEF Routed, Routes, Sent, Served
          <5>4. Numbered'
            BY <2>0, <3>0 DEF Numbered, Served
          <5> QED
            BY <5>1, <5>2, <5>3, <5>4 DEF Served
        <4>4. Answered'
          BY <2>0, <3>0 DEF Answered, Entered
        <4>5. Mail'
          BY <1>0, <2>0, <3>0 DEF Mail
        <4>6. Terminals'
          BY <2>0, <3>0 DEF Terminals, Sent, Served, Wired, Routed, Routes
        <4> QED
          BY <4>1, <4>2, <4>3, <4>4, <4>5, <4>6
      <3> QED
        BY <3>3
    <2> QED
      BY <2>1, <2>2
  <1> QED
    BY <1>1, <1>2, <1>3, <1>4, <1>5, <1>6, <1>7, <1>8, <1>9, <1>10, <1>11 DEF Caller

\* The library's threads keep the invariant.
LEMMA ThreadStep ==
  ASSUME Inv, Writer \/ Routing \/ Deadlines \/ Tick \/ Break \/ Disconnect PROVE Promises'
  <1>21. queue # <<>> => /\ Head(queue) \in Range(queue) /\ Head(queue) \in Async
                         /\ Range(Tail(queue)) \subseteq Range(queue)
    <2>1. queue \in Seq(Async)
      BY DEF Inv, Typed
    <2>2. queue # <<>> => Head(queue) \in Async
      BY <2>1
    <2> QED
      BY <2>1, <2>2, QueueRange
  <1>0. \A kind \in Kinds, c \in Call :
          Got(kind, c) # None /\ Got(kind, c).of = c /\ Got(kind, c).k = kind
    BY GotOf
  <1>22. \A kind \in Kinds, c \in Call : Ended(kind)[c] = Got(kind, c)
    BY DEF Ended
  <1> USE ClientRequestsAssumption DEF Inv, Promises, Typed, Unchanged, table, Call, Kinds
  <1>1. CASE TakeQueued
    <2>0. writer = None /\ writer' \in Range(queue) \cup {None} /\ Range(queue') \subseteq Range(queue)
      BY <1>21, <1>1 DEF TakeQueued
    <2>1. Single'
      <3>1. \A j \in Id : \A d \in Call : Uses(j, d)' => Uses(j, d)
        BY <1>1, <2>0 DEF TakeQueued, Uses, Routes, Served, Numbered
      <3> QED
        BY <3>1, SingleKept
    <2>2. Entered'
      BY <1>1, <2>0 DEF TakeQueued, Entered, Answered, Routes, Served, Numbered
    <2>3. Served'
      <3>1. Wired'
        BY <1>1, <2>0 DEF TakeQueued, Wired, Sent, Served, Numbered
      <3>2. Queued'
        BY <1>1, <2>0 DEF TakeQueued, Queued, Sent, Served, Numbered
      <3>3. Routed'
        BY <1>1, <2>0 DEF TakeQueued, Routed, Routes, Sent, Served
      <3>4. Numbered'
        BY <1>1, <2>0 DEF TakeQueued, Numbered, Served
      <3> QED
        BY <3>1, <3>2, <3>3, <3>4 DEF Served
    <2>4. Answered'
      BY <1>1, <2>0 DEF TakeQueued, Answered, Entered
    <2>5. Mail'
      BY <1>0, <1>1, <2>0 DEF TakeQueued, Mail
    <2>6. Terminals'
      BY <1>1, <2>0 DEF TakeQueued, Terminals, Sent, Served, Wired, Routed, Routes
    <2> QED
      BY <2>1, <2>2, <2>3, <2>4, <2>5, <2>6
  <1>2. CASE WriteQueued
    <2>0. writer \in Async /\ id[writer] \in Id /\ Sent(writer)
      BY <1>2 DEF WriteQueued, Served, Queued
    <2>1. Single'
      <3>1. \A j \in Id : \A d \in Call : Uses(j, d)' => Uses(j, d)
        BY <1>2, <2>0 DEF WriteQueued, Uses, Routes, Served, Numbered
      <3> QED
        BY <3>1, SingleKept
    <2>2. Entered'
      BY <1>2, <2>0 DEF WriteQueued, Entered, Answered, Routes, Served, Numbered
    <2>3. Served'
      <3>1. Wired'
        BY <1>2, <2>0 DEF WriteQueued, Wired, Sent, Served, Numbered
      <3>2. Queued'
        BY <1>2, <2>0 DEF WriteQueued, Queued, Sent, Served, Numbered
      <3>3. Routed'
        BY <1>2, <2>0 DEF WriteQueued, Routed, Routes, Sent, Served
      <3>4. Numbered'
        BY <1>2, <2>0 DEF WriteQueued, Numbered, Served
      <3> QED
        BY <3>1, <3>2, <3>3, <3>4 DEF Served
    <2>4. Answered'
      BY <1>2, <2>0 DEF WriteQueued, Answered, Entered
    <2>5. Mail'
      BY <1>0, <1>2, <2>0 DEF WriteQueued, Mail
    <2>6. Terminals'
      BY <1>2, <2>0 DEF WriteQueued, Terminals, Sent, Served, Wired, Routed, Routes
    <2> QED
      BY <2>1, <2>2, <2>3, <2>4, <2>5, <2>6
  <1>3. CASE Announce
    <2>0. PICK i \in Id, c \in Attach :
            /\ router = [k |-> "announce", id |-> i, of |-> c, tag |-> c]
            /\ id[c] = i /\ Sent(c)
      <3>1. router \in [k : {"announce", "attached"}, id : Id, of : Attach, tag : Attach]
        BY <1>3 DEF Announce, Routers
      <3>2. Routes(router.id, router.of) /\ router.k = "announce"
        BY <1>3, <3>1 DEF Announce, Routes
      <3> QED
        BY <3>1, <3>2 DEF Served, Routed
    <2>1. Single'
      <3>1. \A j \in Id : \A d \in Call : Uses(j, d)' => Uses(j, d)
        BY <1>3, <2>0 DEF Announce, Uses, Routes, Served, Numbered
      <3> QED
        BY <3>1, SingleKept
    <2>2. Entered'
      BY <1>3, <2>0 DEF Announce, Entered, Answered, Routes, Served, Numbered
    <2>3. Served'
      <3>1. Wired'
        BY <1>3, <2>0 DEF Announce, Wired, Sent, Served, Numbered
      <3>2. Queued'
        BY <1>3, <2>0 DEF Announce, Queued, Sent, Served, Numbered
      <3>3. Routed'
        BY <1>3, <2>0 DEF Announce, Routed, Routes, Sent, Served
      <3>4. Numbered'
        BY <1>3, <2>0 DEF Announce, Numbered, Served
      <3> QED
        BY <3>1, <3>2, <3>3, <3>4 DEF Served
    <2>4. Answered'
      BY <1>3, <2>0 DEF Announce, Answered, Entered
    <2>5. Mail'
      BY <1>0, <1>3, <2>0 DEF Announce, Mail
    <2>6. Terminals'
      BY <1>3, <2>0 DEF Announce, Terminals, Sent, Served, Wired, Routed, Routes
    <2> QED
      BY <2>1, <2>2, <2>3, <2>4, <2>5, <2>6
  <1>4. CASE ResolveAttached
    <2>0. PICK i \in Id, c \in Attach :
            /\ router = [k |-> "attached", id |-> i, of |-> c, tag |-> c]
            /\ id[c] = i /\ Sent(c)
      <3>1. router \in [k : {"announce", "attached"}, id : Id, of : Attach, tag : Attach]
        BY <1>4 DEF ResolveAttached, Routers
      <3>2. Routes(router.id, router.of) /\ router.k = "attached"
        BY <1>4, <3>1 DEF ResolveAttached, Routes
      <3> QED
        BY <3>1, <3>2 DEF Served, Routed
    <2>7. waiting[i] \in {None, c}
      <3>1. Uses(i, c) /\ c \in Call
        BY <2>0 DEF Uses, Routes
      <3>2. ASSUME waiting[i] # None PROVE waiting[i] = c
        <4>1. waiting[i] \in Call /\ Uses(i, waiting[i])
          BY <3>2 DEF Uses
        <4> QED
          BY <3>1, <4>1 DEF Single
      <3> QED
        BY <3>2
    <2>8. waiting[i] = c => c \in Call /\ mailbox' = [mailbox EXCEPT ![c] = Got("attached", c)]
      BY <1>4, <2>0 DEF ResolveAttached
    <2>9. waiting[i] = None => mailbox' = mailbox
      BY <1>4, <2>0 DEF ResolveAttached
    <2>1. Single'
      <3>1. \A j \in Id : \A d \in Call : Uses(j, d)' => Uses(j, d)
        BY <1>4, <2>0, <2>7 DEF ResolveAttached, Uses, Routes, Served, Numbered
      <3> QED
        BY <3>1, SingleKept
    <2>2. Entered'
      BY <1>4, <2>0, <2>7 DEF ResolveAttached, Entered, Answered, Routes, Served, Numbered
    <2>3. Served'
      <3>1. Wired'
        BY <1>4, <2>0, <2>7 DEF ResolveAttached, Wired, Sent, Served, Numbered
      <3>2. Queued'
        BY <1>4, <2>0, <2>7 DEF ResolveAttached, Queued, Sent, Served, Numbered
      <3>3. Routed'
        BY <1>4, <2>0, <2>7 DEF ResolveAttached, Routed, Routes, Sent, Served
      <3>4. Numbered'
        BY <1>4, <2>0, <2>7 DEF ResolveAttached, Numbered, Served
      <3> QED
        BY <3>1, <3>2, <3>3, <3>4 DEF Served
    <2>4. Answered'
      BY <1>4, <2>0, <2>7 DEF ResolveAttached, Answered, Entered
    <2>5. Mail'
      <3>1. router'.k = "read" /\ UNCHANGED <<at, result, announced>> /\ c \in announced
        BY <1>4, <2>0 DEF ResolveAttached, Terminals
      <3>2. Got("attached", c).of = c /\ Got("attached", c).k = "attached"
        BY <1>0, <2>0
      <3>3. CASE waiting[i] = c
        <4>1. /\ c \in Call /\ mailbox'[c] = Got("attached", c)
              /\ \A d \in Call : d # c => mailbox'[d] = mailbox[d]
          BY <2>8, <3>3
        <4> SUFFICES ASSUME NEW d \in Call, mailbox'[d] # None
                     PROVE  /\ mailbox'[d].of = d
                            /\ d \in Attach => mailbox'[d].k \notin {"reply", "timeout"}
                            /\ d \in Attach /\ mailbox'[d].k = "attached" => d \in announced
          BY <3>1 DEF Mail
        <4>2. CASE d = c
          BY <3>1, <3>2, <4>1, <4>2
        <4>3. CASE d # c
          BY <4>1, <4>3 DEF Mail
        <4> QED
          BY <4>2, <4>3
      <3>4. CASE waiting[i] = None
        BY <2>9, <3>1, <3>4 DEF Mail
      <3> QED
        BY <2>7, <3>3, <3>4
    <2>6. Terminals'
      BY <1>4, <2>0, <2>7 DEF ResolveAttached, Terminals, Sent, Served, Wired, Routed, Routes
    <2> QED
      BY <2>1, <2>2, <2>3, <2>4, <2>5, <2>6
  <1>5. CASE Deliver
    <2>0. PICK to \in Call, what \in Results : router = [k |-> "deliver", to |-> to, what |-> what]
      BY <1>5 DEF Deliver, Routers
    <2>1. Single'
      <3>1. \A j \in Id : \A d \in Call : Uses(j, d)' => Uses(j, d)
        BY <1>5, <2>0 DEF Deliver, Resolve, Uses, Routes, Served, Numbered
      <3> QED
        BY <3>1, SingleKept
    <2>2. Entered'
      BY <1>5, <2>0 DEF Deliver, Resolve, Entered, Answered, Routes, Served, Numbered
    <2>3. Served'
      <3>1. Wired'
        BY <1>5, <2>0 DEF Deliver, Resolve, Wired, Sent, Served, Numbered
      <3>2. Queued'
        BY <1>5, <2>0 DEF Deliver, Resolve, Queued, Sent, Served, Numbered
      <3>3. Routed'
        BY <1>5, <2>0 DEF Deliver, Resolve, Routed, Routes, Sent, Served
      <3>4. Numbered'
        BY <1>5, <2>0 DEF Deliver, Resolve, Numbered, Served
      <3> QED
        BY <3>1, <3>2, <3>3, <3>4 DEF Served
    <2>4. Answered'
      <3>1. router'.k = "read" /\ UNCHANGED <<waiting, async>>
        BY <1>5 DEF Deliver
      <3>2. \A d \in Call : d # to => mailbox'[d] = mailbox[d]
        BY <1>5, <2>0 DEF Deliver, Resolve
      <3>3. \A d \in Call : at'[d] = "new" => at[d] = "new"
        BY <1>5, <2>0 DEF Deliver, Resolve
      <3> SUFFICES ASSUME NEW d \in Call, mailbox'[d] # None
                   PROVE  at'[d] # "new" /\ \A i \in Id : waiting'[i] # d /\ async'[i] # d
        BY <3>1 DEF Answered
      <3>4. mailbox[d] # None \/ (router.k = "deliver" /\ router.to = d)
        BY <2>0, <3>2
      <3> QED
        BY <3>1, <3>3, <3>4 DEF Answered
    <2>5. Mail'
      BY <1>0, <1>5, <2>0 DEF Deliver, Resolve, Mail
    <2>6. Terminals'
      BY <1>5, <2>0 DEF Deliver, Resolve, Terminals, Sent, Served, Wired, Routed, Routes
    <2> QED
      BY <2>1, <2>2, <2>3, <2>4, <2>5, <2>6
  <1>6. CASE (Break \/ Disconnect)
    <2>0. /\ CloseTable /\ router' \in {router, [k |-> "closed"]} /\ wire' \in {wire, {}}
          /\ router.k \in {"announce", "attached", "deliver"} => router' = router
      BY <1>6 DEF Break, Disconnect
    <2>1. Single'
      <3>1. \A j \in Id : \A d \in Call : Uses(j, d)' => Uses(j, d)
        BY <1>6, <2>0, <1>22 DEF CloseTable, Resolve, Uses, Routes, Served, Numbered
      <3> QED
        BY <3>1, SingleKept
    <2>2. Entered'
      BY <1>6, <2>0, <1>22 DEF CloseTable, Resolve, Entered, Answered, Routes, Served, Numbered
    <2>3. Served'
      <3>1. Wired'
        BY <1>6, <2>0, <1>22 DEF CloseTable, Resolve, Wired, Sent, Served, Numbered
      <3>2. Queued'
        BY <1>6, <2>0, <1>22 DEF CloseTable, Resolve, Queued, Sent, Served, Numbered
      <3>3. Routed'
        BY <1>6, <2>0, <1>22 DEF CloseTable, Resolve, Routed, Routes, Sent, Served
      <3>4. Numbered'
        BY <1>6, <2>0, <1>22 DEF CloseTable, Resolve, Numbered, Served
      <3> QED
        BY <3>1, <3>2, <3>3, <3>4 DEF Served
    <2>4. Answered'
      BY <1>6, <2>0, <1>22 DEF CloseTable, Resolve, Answered, Entered
    <2>5. Mail'
      BY <1>0, <1>6, <2>0, <1>22 DEF CloseTable, Resolve, Mail
    <2>6. Terminals'
      BY <1>6, <2>0, <1>22 DEF CloseTable, Resolve, Terminals, Sent, Served, Wired, Routed, Routes
    <2> QED
      BY <2>1, <2>2, <2>3, <2>4, <2>5, <2>6
  <1>7. CASE (Look \/ Wake \/ Tick)
    <2>1. Single'
      <3>1. \A j \in Id : \A d \in Call : Uses(j, d)' => Uses(j, d)
        BY <1>7 DEF Look, Wake, Tick, Uses, Routes, Served, Numbered
      <3> QED
        BY <3>1, SingleKept
    <2>2. Entered'
      BY <1>7 DEF Look, Wake, Tick, Entered, Answered, Routes, Served, Numbered
    <2>3. Served'
      <3>1. Wired'
        BY <1>7 DEF Look, Wake, Tick, Wired, Sent, Served, Numbered
      <3>2. Queued'
        BY <1>7 DEF Look, Wake, Tick, Queued, Sent, Served, Numbered
      <3>3. Routed'
        BY <1>7 DEF Look, Wake, Tick, Routed, Routes, Sent, Served
      <3>4. Numbered'
        BY <1>7 DEF Look, Wake, Tick, Numbered, Served
      <3> QED
        BY <3>1, <3>2, <3>3, <3>4 DEF Served
    <2>4. Answered'
      BY <1>7 DEF Look, Wake, Tick, Answered, Entered
    <2>5. Mail'
      BY <1>0, <1>7 DEF Look, Wake, Tick, Mail
    <2>6. Terminals'
      BY <1>7 DEF Look, Wake, Tick, Terminals, Sent, Served, Wired, Routed, Routes
    <2> QED
      BY <2>1, <2>2, <2>3, <2>4, <2>5, <2>6
  <1>8. CASE Expire
    <2>0. PICK due \in SUBSET Id :
            /\ \A i \in due : async[i] # None
            /\ async' = [i \in Id |-> IF i \in due THEN None ELSE async[i]]
            /\ Resolve({async[i] : i \in due}, Ended("timeout"))
            /\ UNCHANGED <<next, waiting, attaching, closed, id, wire, router, queue, writer, opened,
                           announced>>
      <3> DEFINE due == {i \in Id : async[i] # None /\ deadline[async[i]] <= now}
      <3>1. /\ async' = [i \in Id |-> IF i \in due THEN None ELSE async[i]]
            /\ Resolve({async[i] : i \in due}, Ended("timeout"))
            /\ UNCHANGED <<next, waiting, attaching, closed, id, wire, router, queue, writer, opened,
                           announced>>
        BY <1>8 DEF Expire
      <3>2. due \in SUBSET Id /\ \A i \in due : async[i] # None
        OBVIOUS
      <3> HIDE DEF due
      <3> QED
        BY <3>1, <3>2
    <2>1. Single'
      <3>1. \A j \in Id : \A d \in Call : Uses(j, d)' => Uses(j, d)
        BY <1>8, <2>0, <1>22 DEF Resolve, Uses, Routes, Served, Numbered
      <3> QED
        BY <3>1, SingleKept
    <2>2. Entered'
      BY <1>8, <2>0, <1>22 DEF Resolve, Entered, Answered, Routes, Served, Numbered
    <2>3. Served'
      <3>1. Wired'
        BY <1>8, <2>0, <1>22 DEF Resolve, Wired, Sent, Served, Numbered
      <3>2. Queued'
        BY <1>8, <2>0, <1>22 DEF Resolve, Queued, Sent, Served, Numbered
      <3>3. Routed'
        BY <1>8, <2>0, <1>22 DEF Resolve, Routed, Routes, Sent, Served
      <3>4. Numbered'
        BY <1>8, <2>0, <1>22 DEF Resolve, Numbered, Served
      <3> QED
        BY <3>1, <3>2, <3>3, <3>4 DEF Served
    <2>4. Answered'
      BY <1>8, <2>0, <1>22 DEF Resolve, Answered, Entered
    <2>5. Mail'
      BY <1>0, <1>8, <2>0, <1>22 DEF Resolve, Mail
    <2>6. Terminals'
      BY <1>8, <2>0, <1>22 DEF Resolve, Terminals, Sent, Served, Wired, Routed, Routes
    <2> QED
      BY <2>1, <2>2, <2>3, <2>4, <2>5, <2>6
  <1> QED
    BY <1>1, <1>2, <1>3, <1>4, <1>5, <1>6, <1>7, <1>8 DEF Writer, Routing, Deadlines

\* The reader keeps the invariant: what it finds under the identity of a reply
\* belongs to the call that the reply answers.
LEMMA ReadStep ==
  ASSUME Inv, NEW i \in Id, NEW c \in Call, NEW ok \in BOOLEAN, Read(i, c, ok) PROVE Promises'
  <1> USE ClientRequestsAssumption DEF Inv, Promises, Typed, table, Call
  <1>1. /\ router.k = "read" /\ <<i, c>> \in wire /\ wire' = wire \ {<<i, c>>}
        /\ id[c] = i /\ Sent(c) /\ Uses(i, c)
        /\ UNCHANGED <<next, closed, deadline, id, at, mailbox, result, announced, queue, writer>>
    BY DEF Read, Served, Wired, Uses
  <1>2. \A d \in Call : Uses(i, d) => d = c
    BY <1>1 DEF Single
  <1>3. waiting[i] \in {None, c} /\ attaching[i] \in {None, c} /\ async[i] \in {None, c}
    BY <1>2 DEF Uses
  <1>4. \A j \in Id : j # i => /\ waiting[j] # c /\ attaching[j] # c /\ async[j] # c
                              /\ <<j, c>> \notin wire
    BY <1>1 DEF Entered, Served, Wired
  <1>5. \A d \in Call : at[d] \notin {"new", "done"} /\ id[d] = i => d = c
    BY <1>2 DEF Uses
  <1>6. \A d \in Call : at[d] = "sending" => d # c /\ id[d] # i
    BY <1>1, <1>5 DEF Sent
  <1>7. Queued' /\ Numbered' /\ Wired'
    <2>1. Wired'
      BY <1>1 DEF Served, Wired, Sent
    <2>2. Queued' /\ Numbered'
      BY <1>1 DEF Served, Queued, Numbered, Sent
    <2> QED
      BY <2>1, <2>2
  <1>8. CASE c \in Attach /\ ok /\ attaching[i] # None
    <2>1. /\ attaching[i] = c /\ attaching' = [attaching EXCEPT ![i] = None]
          /\ router' = [k |-> "announce", id |-> i, of |-> c, tag |-> c]
          /\ UNCHANGED <<waiting, async>> /\ ~closed /\ opened' = opened \cup {c}
      BY <1>3, <1>8 DEF Read, Entered
    <2>2. Single'
      <3>1. \A j \in Id : \A d \in Call : Uses(j, d)' => Uses(j, d)
        BY <1>1, <2>1 DEF Uses, Routes
      <3> QED
        BY <3>1, SingleKept
    <2>3. Entered'
      BY <1>1, <1>3, <2>1 DEF Entered, Routes
    <2>4. Routed'
      BY <1>1, <2>1 DEF Routed, Routes, Sent
    <2>5. Answered'
      BY <1>1, <2>1 DEF Answered
    <2>6. Mail'
      BY <1>1, <2>1 DEF Mail
    <2>7. Terminals'
      <3>1. \A j \in Id, d \in Attach : <<j, d>> \in wire' /\ ~closed' => attaching'[j] = d
        BY <1>1, <1>3, <1>4, <2>1 DEF Terminals
      <3>2. \A d \in Attach : at'[d] = "sending" /\ ~closed' => attaching'[id'[d]] = d
        BY <1>1, <1>6, <2>1 DEF Terminals
      <3>3. \A d \in opened' :
              /\ Sent(d)' /\ \A j \in Id : attaching'[j] # d /\ <<j, d>> \notin wire'
              /\ d \in announced' \/ (router'.k = "announce" /\ router'.tag = d)
        <4>1. CASE opened' = opened \cup {c}
          BY <1>1, <1>4, <2>1 DEF Terminals, Sent
        <4> QED
          BY <2>1, <4>1
      <3>4. router'.k # "attached"
        BY <2>1
      <3> QED
        BY <3>1, <3>2, <3>3, <3>4 DEF Terminals
    <2> QED
      BY <1>7, <2>2, <2>3, <2>4, <2>5, <2>6, <2>7 DEF Served
  <1>9. CASE ~(c \in Attach /\ ok /\ attaching[i] # None)
    <2>1. /\ waiting' = [waiting EXCEPT ![i] = None] /\ attaching' = [attaching EXCEPT ![i] = None]
          /\ async' = [async EXCEPT ![i] = None]
      BY <1>9 DEF Read
    <2>2. c \in Attach /\ ok => closed
      BY <1>1, <1>9 DEF Terminals
    <2>3. opened' = opened
      BY <2>2 DEF Read
    <2>4. \/ router' = [k |-> "read"]
          \/ /\ router' = [k |-> "deliver", to |-> c, what |-> Got(IF ok THEN "reply" ELSE "error", c)]
             /\ ~(c \in Attach /\ ok)
      <3> DEFINE to == IF async[i] # None THEN async[i] ELSE waiting[i]
      <3>1. router' = IF to = None THEN [k |-> "read"]
                      ELSE [k |-> "deliver", to |-> to, what |-> Got(IF ok THEN "reply" ELSE "error", c)]
        BY <1>9 DEF Read
      <3>2. to \in {None, c} /\ (closed => to = None)
        BY <1>3 DEF Entered
      <3> HIDE DEF to
      <3> QED
        BY <2>2, <3>1, <3>2
    <2>5. router'.k \in {"read", "deliver"}
      BY <2>4
    <2>6. Single'
      <3>1. \A j \in Id : \A d \in Call : Uses(j, d)' => Uses(j, d)
        BY <1>1, <2>1, <2>5 DEF Uses, Routes
      <3> QED
        BY <3>1, SingleKept
    <2>7. Entered'
      BY <1>1, <2>1, <2>5 DEF Entered, Routes
    <2>8. Routed'
      BY <2>5 DEF Routed, Routes
    <2>9. Answered'
      <3>1. \A j \in Id : waiting'[j] # c /\ async'[j] # c
        BY <1>4, <2>1
      <3>2. at[c] # "new" /\ UNCHANGED <<mailbox, at>>
        BY <1>1 DEF Sent
      <3> SUFFICES ASSUME NEW d \in Call, mailbox'[d] # None \/ (router'.k = "deliver" /\ router'.to = d)
                   PROVE  at'[d] # "new" /\ \A j \in Id : waiting'[j] # d /\ async'[j] # d
        BY DEF Answered
      <3>3. CASE d = c
        BY <3>1, <3>2, <3>3
      <3>4. CASE d # c
        BY <2>1, <2>4, <3>2, <3>4 DEF Answered
      <3> QED
        BY <3>3, <3>4
    <2>10. Mail'
      <3>1. Got("reply", c).of = c /\ Got("error", c).of = c
            /\ Got("reply", c).k = "reply" /\ Got("error", c).k = "error"
        BY GotOf DEF Kinds
      <3> QED
        BY <1>1, <2>4, <3>1 DEF Mail
    <2>11. Terminals'
      <3>1. \A j \in Id, d \in Attach : <<j, d>> \in wire' /\ ~closed' => attaching'[j] = d
        <4> SUFFICES ASSUME NEW j \in Id, NEW d \in Attach, <<j, d>> \in wire', ~closed'
                     PROVE  attaching'[j] = d
          OBVIOUS
        <4>1. attaching[j] = d /\ <<j, d>> # <<i, c>> /\ Uses(j, d)
          BY <1>1 DEF Terminals, Uses
        <4>2. j # i
          BY <1>2, <4>1
        <4> QED
          BY <2>1, <4>1, <4>2
      <3>2. \A d \in Attach : at'[d] = "sending" /\ ~closed' => attaching'[id'[d]] = d
        BY <1>1, <1>6, <2>1 DEF Terminals
      <3>3. \A d \in opened' :
              /\ Sent(d)' /\ \A j \in Id : attaching'[j] # d /\ <<j, d>> \notin wire'
              /\ d \in announced' \/ (router'.k = "announce" /\ router'.tag = d)
        BY <1>1, <2>1, <2>3 DEF Terminals, Sent
      <3> QED
        BY <2>5, <3>1, <3>2, <3>3 DEF Terminals
    <2> QED
      BY <1>7, <2>6, <2>7, <2>8, <2>9, <2>10, <2>11 DEF Served
  <1> QED
    BY <1>8, <1>9

\* Nothing is asked or answered at first.
LEMMA InvInit == Init => Inv
  <1> SUFFICES ASSUME Init PROVE Inv
    OBVIOUS
  <1>1. Typed /\ Range(queue) = {}
    BY TypedInit DEF Init, Range
  <1>2. Single /\ Entered
    BY <1>1, ClientRequestsAssumption DEF Init, Single, Entered, Uses, Routes, Call
  <1>3. Served
    <2>1. Wired /\ Routed /\ Numbered
      BY DEF Init, Wired, Routed, Routes, Numbered
    <2>2. Queued
      BY <1>1, ClientRequestsAssumption DEF Init, Queued
    <2> QED
      BY <2>1, <2>2 DEF Served
  <1>4. Answered /\ Mail /\ Terminals
    BY <1>1 DEF Init, Answered, Mail, Terminals, Sent, Call
  <1> QED
    BY <1>1, <1>2, <1>3, <1>4 DEF Inv, Promises

\* Every step keeps the invariant.
LEMMA InvNext == Inv /\ [Next]_vars => Inv'
  <1> SUFFICES ASSUME Inv, [Next]_vars PROVE Inv'
    OBVIOUS
  <1>1. Typed /\ Served
    BY DEF Inv, Promises
  <1>2. ASSUME NEW c \in Call, Caller(c) PROVE Inv'
    BY <1>1, <1>2, CallerTyped, CallerStep DEF Inv
  <1>3. CASE Writer \/ Routing \/ Deadlines \/ Tick \/ Break \/ Disconnect
    BY <1>1, <1>3, ThreadTyped, ThreadStep DEF Inv
  <1>4. ASSUME NEW i \in Id, NEW c \in Call, NEW ok \in BOOLEAN, Read(i, c, ok) PROVE Inv'
    BY <1>1, <1>4, ReadTyped, ReadStep DEF Inv
  <1>5. CASE UNCHANGED vars
    <2> USE <1>5 DEF vars, table
    <2>1. Typed'
      BY <1>1 DEF Typed, Routers
    <2>2. Single' /\ Entered' /\ Served' /\ Answered' /\ Mail' /\ Terminals'
      BY DEF Inv, Promises, Single, Uses, Routes, Entered, Served, Wired, Queued, Routed, Numbered,
             Sent, Answered, Mail, Terminals
    <2> QED
      BY <2>1, <2>2 DEF Inv, Promises
  <1> QED
    BY <1>2, <1>3, <1>4, <1>5 DEF Next

\* The invariant holds throughout.
THEOREM Invariance == Spec => []Inv
  BY InvInit, InvNext, PTL DEF Spec

-----------------------------------------------------------------------------
(* The properties *)

\* The table's entries belong to the calls they name, and to none that has returned.
THEOREM TypeCorrect == Spec => []TypeOK
  <1>1. ASSUME Inv PROVE TypeOK
    <2> USE <1>1, ClientRequestsAssumption DEF Inv, Promises, Typed
    <2>1. next \in Id /\ at \in [Call -> Where] /\ announced \subseteq Attach /\ opened \subseteq Attach
          /\ result \in [Call -> Results \cup {None}]
          /\ sleep \in (0 .. Forever) \cup {None} /\ \A c \in Call : result[c] # None <=> at[c] = "done"
      BY DEF Mail
    <2>2. ASSUME NEW i \in Id
          PROVE  /\ waiting[i] \in Plain \cup Attach \cup {None}
                 /\ attaching[i] \in Attach \cup {None} /\ async[i] \in Async \cup {None}
                 /\ \A c \in {waiting[i], attaching[i], async[i]} \ {None} : id[c] = i
                 /\ \A c \in {waiting[i], async[i]} \ {None} : at[c] # "done"
      BY <2>2 DEF Entered
    <2> QED
      BY <2>1, <2>2 DEF TypeOK
  <1> QED
    BY <1>1, Invariance, PTL

\* A call returns the answer to its own request, whatever came round or late.
THEOREM RepliesAreOwn == Spec => []OwnReply
  <1>1. Inv => OwnReply
    BY DEF Inv, Promises, Mail, OwnReply
  <1> QED
    BY <1>1, Invariance, PTL

\* What an attach returns: it returns with its terminal after the announcement, and
\* gives up only before the server opened it.
LEMMA ReturnsInOrder ==
  ASSUME Inv, Next, NEW c \in Attach, result[c] = None, result'[c] # None
  PROVE  /\ result'[c].k = "attached" => c \in announced
         /\ result'[c].k = "timeout" => c \notin opened
  <1> USE ClientRequestsAssumption DEF Inv, Promises, Typed, Call
  <1>0. c \in Call /\ c \notin Async /\ c \notin Plain
    OBVIOUS
  <1>1. \A kind \in Kinds : Got(kind, c).k = kind
    BY <1>0, GotOf
  <1>2. ASSUME NEW d \in Call, Caller(d)
        PROVE  /\ result'[c].k = "attached" => c \in announced
               /\ result'[c].k = "timeout" => c \notin opened
    <2>1. ASSUME NEW r, Return(d, r) PROVE d = c /\ result'[c] = r
      BY <2>1 DEF Return
    <2>2. CASE Register(d)
      BY <1>1, <2>1, <2>2 DEF Register, Kinds
    <2>3. CASE Send(d)
      BY <1>1, <2>1, <2>3 DEF Send, Kinds
    <2>4. CASE TakeReply(d)
      BY <2>1, <2>4 DEF TakeReply, Mail
    <2>5. CASE Disconnected(d)
      BY <1>1, <2>1, <2>5 DEF Disconnected, Kinds
    <2>6. CASE TimeOut(d)
      BY <2>6 DEF TimeOut
    <2>7. CASE Forget(d)
      BY <1>0, <2>1, <2>7 DEF Forget
    <2>8. CASE GiveUp(d)
      <3>1. Return(d, Got("timeout", d)) /\ attaching[id[d]] = d /\ d \in Attach /\ at[d] = "late"
        BY <2>8 DEF GiveUp
      <3>2. d = c /\ result'[c] = Got("timeout", c) /\ id[c] \in Id
        BY <2>1, <3>1 DEF Served, Numbered
      <3>3. c \notin opened
        BY <3>1, <3>2 DEF Terminals
      <3> QED
        BY <1>1, <3>2, <3>3 DEF Kinds
    <2>9. CASE RegisterAsync(d) \/ Enqueue(d) \/ Listen(d) \/ DropRequest(d)
      BY <1>0, <2>1, <2>9 DEF RegisterAsync, Enqueue, Listen, DropRequest
    <2> QED
      BY <1>2, <2>2, <2>3, <2>4, <2>5, <2>6, <2>7, <2>8, <2>9 DEF Caller
  <1>3. ASSUME NEW cs, NEW r, Resolve(cs, r) PROVE result'[c] = None
    BY <1>0, <1>3 DEF Resolve, Mail
  <1>4. CASE Writer \/ Tick
    BY <1>4 DEF Writer, TakeQueued, WriteQueued, Tick
  <1>5. CASE Routing
    BY <1>3, <1>5 DEF Routing, Announce, ResolveAttached, Deliver
  <1>6. CASE Deadlines
    BY <1>3, <1>6 DEF Deadlines, Look, Wake, Expire
  <1>7. CASE Break \/ Disconnect
    BY <1>3, <1>7 DEF Break, Disconnect, CloseTable
  <1>8. CASE \E i \in Id, d \in Call, ok \in BOOLEAN : Read(i, d, ok)
    BY <1>8 DEF Read
  <1> QED
    BY <1>2, <1>4, <1>5, <1>6, <1>7, <1>8 DEF Next

\* A terminal that the server opened is announced, and its caller returns after that
\* or gave up before it.
THEOREM TerminalsHandedOver == Spec => HandedOver
  <1> DEFINE Step == \A c \in Attach : result[c] = None /\ result'[c] # None =>
                (result'[c].k = "attached" => c \in announced)
                /\ (result'[c].k = "timeout" => c \notin opened)
             There == \A c \in opened :
                c \in announced \/ (router.k = "announce" /\ router.tag = c)
  <1>1. ASSUME Inv, [Next]_vars PROVE [Step]_vars
    BY <1>1, ReturnsInOrder
  <1>2. Inv => There
    BY DEF Inv, Promises, Terminals
  <1>3. HandedOver <=> [][Step]_vars /\ []There
    BY DEF HandedOver
  <1> HIDE DEF Step, There
  <1> QED
    BY <1>1, <1>2, <1>3, Invariance, PTL DEF Spec
=============================================================================
