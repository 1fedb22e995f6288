---------------------------- MODULE AttachmentsProofs ----------------------------
(***************************************************************************)
(* Safety of one connection's attachments, for any number of channels and  *)
(* resizes and any capacity of the worker's queue.                         *)
(*                                                                         *)
(* What the runs check is not inductive.  That a request waits in one      *)
(* place only is kept because no request is queued twice, because requests *)
(* reach the owner in the order they were asked in, and because an app     *)
(* asks for resizes of a channel only after its Attach was answered.  That *)
(* a resize is answered by the frame of its own size needs the order of    *)
(* the owner's commands, and that no attachment is left behind needs that  *)
(* a channel is attached only once.  The inductive invariant states these  *)
(* orders and facts beside what the runs check.                            *)
(***************************************************************************)
EXTENDS Attachments, TLAPS

-----------------------------------------------------------------------------
(* The inductive invariant *)

\* Every two elements of s are related by R, in their order.
Sorted(s, R) == \A i, j \in DOMAIN s : i < j => <<s[i], s[j]>> \in R

\* A resize comes after the older ones of its channel.
ResizeAfter(r, q) ==
  r.kind = "resize" /\ q.kind = "resize" /\ r.channel = q.channel => r.nth < q.nth

LessThan == {p \in Int \X Int : p[1] < p[2]}

\* The worker runs every request once, and resizes in the order they were asked in.
WorkOrder == {p \in Request \X Request : p[1] # p[2] /\ ResizeAfter(p[1], p[2])}

\* The owner gets a channel's Attach before its resizes.
QueueOrder ==
  {p \in Request \X Request :
     /\ ResizeAfter(p[1], p[2])
     /\ p[1].kind = "resize" => p[2] # Attach(p[1].channel)}

\* Only Detach requests succeed after SessionEnded.
Late(m) == m.ok => \A r \in m.re : r.kind = "detach"

\* No control message is queued twice, and SessionEnded is the last good news.
ControlOrder ==
  {p \in Message \X Message : p[1] # p[2] /\ (p[1] = SessionEnded => Late(p[2]))}

Orderly ==
  /\ Sorted(work, WorkOrder)
  /\ Sorted(queue, QueueOrder)
  /\ Sorted(control, ControlOrder)
  /\ \A c \in Channel : Sorted(resizes[c], LessThan)

Done(r) == Reply(r, TRUE)
Refused(r) == Reply(r, FALSE)

\* A request that its owner has yet to answer.
Owes(r) ==
  \/ r.kind = "attach" /\ r.channel \in waiting
  \/ r.kind = "resize" /\ r.nth \in ToSet(resizes[r.channel])

Typed == TypeOK /\ resizes \in [Channel -> Seq(Int)]

\* An app asks in order, and whatever is queued, waiting or answered was asked.
Asked ==
  /\ \A c \in Channel : \A j \in 1 .. MaxResizes[c] : \A i \in 1 .. j :
       Resize(c, j) \in asked => Resize(c, i) \in asked
  /\ \A c \in open : Attach(c) \in answered
  /\ \A r \in asked : r.kind # "attach" => Attach(r.channel) \in answered
  /\ ToSet(work) \subseteq asked /\ answered \subseteq asked
  /\ \A m \in ToSet(control) : m.re \subseteq asked
  /\ \A r \in ToSet(queue) : r.kind # "detach" => r \in asked
  /\ \A r \in Request : Owes(r) => r \in asked

\* The requests the worker has yet to run are the newest of their channels.
Newer ==
  /\ found => work # <<>> /\ Head(work).kind = "attach"
  /\ \A r \in ToSet(work), q \in ToSet(queue) : ResizeAfter(q, r)
  /\ \A r \in ToSet(work), n \in Int :
       r.kind = "resize" /\ n \in ToSet(resizes[r.channel]) => n < r.nth

\* Only the connection's attachments wait for anything.
Attached ==
  /\ waiting \subseteq attachments
  /\ \A c \in Channel \ attachments : resizes[c] = <<>>
  /\ closed => attachments = {}

\* The request is in one place.
InOnePlace(r) ==
  LET works == r \in ToSet(work)
      owes == Owes(r)
      done == Done(r) \in ToSet(control)
      failed == Refused(r) \in ToSet(control)
      read == r \in answered
  IN  /\ works \/ owes \/ done \/ failed \/ read
      /\ works => ~owes /\ ~done /\ ~failed /\ ~read
      /\ owes => ~done /\ ~failed /\ ~read
      /\ done => ~failed /\ ~read
      /\ failed => ~read

OnePlaceEach == ~closed => \A r \in asked : InOnePlace(r)

\* The worker has not run the channel's Attach.
Early(c) == Attach(c) \notin asked \/ Attach(c) \in ToSet(work)

\* A channel is attached once: nothing of it is anywhere before, and it does not
\* come back when the owner was told that it is gone.
AttachedOnce ==
  /\ \A c \in Channel : Early(c) =>
       c \notin attachments /\ c \notin owned /\ \A r \in ToSet(queue) : r.channel # c
  /\ \A c \in Channel : Detach(c) \in ToSet(queue) => c \notin attachments

\* While the owner serves, its resize commands of a channel are those it owes.
SameResizes ==
  phase = "serving" => \A c \in attachments : \A n \in 1 .. MaxResizes[c] :
    n \in ToSet(resizes[c]) <=> Resize(c, n) \in ToSet(queue)

Ended ==
  /\ SessionEnded \in ToSet(control) => phase = "exited"
  /\ NothingOutlivesSession

IInv ==
  /\ Typed /\ Orderly /\ Asked /\ Newer /\ Attached /\ OnePlaceEach
  /\ AttachedOnce /\ AttachedOnBothSides /\ SameResizes /\ Ended

-----------------------------------------------------------------------------
(* Sequences *)

LEMMA ElementsOf == \A S : \A s \in Seq(S) : ToSet(s) \subseteq S
  <1> SUFFICES ASSUME NEW S, NEW s \in Seq(S), NEW i \in DOMAIN s PROVE s[i] \in S
    BY DEF ToSet
  <1>1. QED
    OBVIOUS

LEMMA TailOf ==
  ASSUME NEW S, NEW s \in Seq(S), s # <<>>
  PROVE  /\ Head(s) \in S /\ Tail(s) \in Seq(S)
         /\ ToSet(s) = {Head(s)} \cup ToSet(Tail(s))
  <1>1. /\ Head(s) = s[1] /\ 1 \in DOMAIN s /\ Tail(s) \in Seq(S) /\ Len(Tail(s)) = Len(s) - 1
        /\ \A i \in 1 .. Len(s) - 1 : Tail(s)[i] = s[i + 1]
    OBVIOUS
  <1>2. DOMAIN s = 1 .. Len(s) /\ DOMAIN Tail(s) = 1 .. Len(s) - 1 /\ Len(s) \in Nat
    BY <1>1
  <1>3. ASSUME NEW x \in ToSet(s) PROVE x \in {Head(s)} \cup ToSet(Tail(s))
    <2>1. PICK i \in 1 .. Len(s) : x = s[i]
      BY <1>2, <1>3 DEF ToSet
    <2>2. CASE i = 1
      BY <1>1, <2>1, <2>2
    <2>3. CASE i # 1
      <3>1. i - 1 \in DOMAIN Tail(s) /\ Tail(s)[i - 1] = x
        BY <1>1, <1>2, <2>1, <2>3
      <3>2. QED
        BY <3>1 DEF ToSet
    <2>4. QED
      BY <2>2, <2>3
  <1>4. ASSUME NEW x \in ToSet(Tail(s)) PROVE x \in ToSet(s)
    <2>1. PICK i \in 1 .. Len(s) - 1 : x = Tail(s)[i]
      BY <1>2, <1>4 DEF ToSet
    <2>2. i + 1 \in DOMAIN s /\ s[i + 1] = x
      BY <1>1, <1>2, <2>1
    <2>3. QED
      BY <2>2 DEF ToSet
  <1>5. Head(s) \in ToSet(s)
    BY <1>1 DEF ToSet
  <1>6. QED
    BY <1>1, <1>2, <1>3, <1>4, <1>5

LEMMA TailSorted ==
  ASSUME NEW S, NEW s \in Seq(S), s # <<>>, NEW R, Sorted(s, R)
  PROVE  Sorted(Tail(s), R) /\ \A x \in ToSet(Tail(s)) : <<Head(s), x>> \in R
  <1>1. /\ Head(s) = s[1] /\ Len(Tail(s)) = Len(s) - 1 /\ Tail(s) \in Seq(S)
        /\ \A i \in 1 .. Len(s) - 1 : Tail(s)[i] = s[i + 1]
    OBVIOUS
  <1>2. DOMAIN s = 1 .. Len(s) /\ DOMAIN Tail(s) = 1 .. Len(s) - 1 /\ Len(s) \in Nat
    BY <1>1
  <1>3. ASSUME NEW i \in DOMAIN Tail(s), NEW j \in DOMAIN Tail(s), i < j
        PROVE  <<Tail(s)[i], Tail(s)[j]>> \in R
    <2>1. i + 1 \in DOMAIN s /\ j + 1 \in DOMAIN s /\ i + 1 < j + 1
      BY <1>2, <1>3
    <2>2. <<s[i + 1], s[j + 1]>> \in R
      BY <2>1 DEF Sorted
    <2>3. QED
      BY <1>1, <1>2, <2>2
  <1>4. ASSUME NEW x \in ToSet(Tail(s)) PROVE <<Head(s), x>> \in R
    <2>1. PICK i \in 1 .. Len(s) - 1 : x = Tail(s)[i]
      BY <1>2, <1>4 DEF ToSet
    <2>2. 1 \in DOMAIN s /\ i + 1 \in DOMAIN s /\ 1 < i + 1 /\ s[i + 1] = x
      BY <1>1, <1>2, <2>1
    <2>3. <<s[1], s[i + 1]>> \in R
      BY <2>2 DEF Sorted
    <2>4. QED
      BY <1>1, <2>2, <2>3
  <1>5. QED
    BY <1>3, <1>4 DEF Sorted

LEMMA Joined ==
  \A S : \A s, t \in Seq(S) : s \o t \in Seq(S) /\ ToSet(s \o t) = ToSet(s) \cup ToSet(t)
  <1> SUFFICES ASSUME NEW S, NEW s \in Seq(S), NEW t \in Seq(S)
               PROVE  s \o t \in Seq(S) /\ ToSet(s \o t) = ToSet(s) \cup ToSet(t)
    OBVIOUS
  <1>0. s \o t \in Seq(S)
    OBVIOUS
  <1>1. PICK u \in Seq(S) : u = s \o t
    BY <1>0
  <1>2. /\ Len(u) = Len(s) + Len(t) /\ Len(s) \in Nat /\ Len(t) \in Nat
        /\ \A i \in 1 .. Len(s) : u[i] = s[i]
        /\ \A i \in 1 .. Len(t) : u[Len(s) + i] = t[i]
        /\ DOMAIN u = 1 .. Len(u) /\ DOMAIN s = 1 .. Len(s) /\ DOMAIN t = 1 .. Len(t)
    BY <1>1
  <1>3. ASSUME NEW x \in ToSet(u) PROVE x \in ToSet(s) \cup ToSet(t)
    <2>1. PICK i \in DOMAIN u : x = u[i]
      BY <1>3 DEF ToSet
    <2>2. CASE i <= Len(s)
      <3>1. i \in DOMAIN s /\ s[i] = x
        BY <1>2, <2>1, <2>2
      <3>2. QED
        BY <3>1 DEF ToSet
    <2>3. CASE i > Len(s)
      <3>1. i - Len(s) \in DOMAIN t /\ t[i - Len(s)] = x
        BY <1>2, <2>1, <2>3
      <3>2. QED
        BY <3>1 DEF ToSet
    <2>4. QED
      BY <1>2, <2>1, <2>2, <2>3
  <1>4. ASSUME NEW x \in ToSet(s) PROVE x \in ToSet(u)
    <2>1. PICK i \in DOMAIN s : x = s[i]
      BY <1>4 DEF ToSet
    <2>2. i \in DOMAIN u /\ u[i] = x
      BY <1>2, <2>1
    <2>3. QED
      BY <2>2 DEF ToSet
  <1>5. ASSUME NEW x \in ToSet(t) PROVE x \in ToSet(u)
    <2>1. PICK i \in DOMAIN t : x = t[i]
      BY <1>5 DEF ToSet
    <2>2. Len(s) + i \in DOMAIN u /\ u[Len(s) + i] = x
      BY <1>2, <2>1
    <2>3. QED
      BY <2>2 DEF ToSet
  <1>6. QED
    BY <1>1, <1>3, <1>4, <1>5

LEMMA JoinedSorted ==
  \A S, R : \A s, t \in Seq(S) :
    Sorted(s, R) /\ Sorted(t, R) /\ (\A x \in ToSet(s), y \in ToSet(t) : <<x, y>> \in R) => Sorted(s \o t, R)
  <1> SUFFICES ASSUME NEW S, NEW s \in Seq(S), NEW t \in Seq(S), NEW R, Sorted(s, R), Sorted(t, R),
                      \A x \in ToSet(s), y \in ToSet(t) : <<x, y>> \in R
               PROVE  Sorted(s \o t, R)
    OBVIOUS
  <1>0. s \o t \in Seq(S)
    OBVIOUS
  <1>1. PICK u \in Seq(S) : u = s \o t
    BY <1>0
  <1>2. /\ Len(u) = Len(s) + Len(t) /\ Len(s) \in Nat /\ Len(t) \in Nat
        /\ \A i \in 1 .. Len(s) : u[i] = s[i]
        /\ \A i \in 1 .. Len(t) : u[Len(s) + i] = t[i]
        /\ DOMAIN u = 1 .. Len(u) /\ DOMAIN s = 1 .. Len(s) /\ DOMAIN t = 1 .. Len(t)
    BY <1>1
  <1>3. ASSUME NEW i \in DOMAIN u, i > Len(s)
        PROVE  i - Len(s) \in DOMAIN t /\ u[i] = t[i - Len(s)] /\ u[i] \in ToSet(t)
    <2>1. i - Len(s) \in DOMAIN t /\ u[i] = t[i - Len(s)]
      BY <1>2, <1>3
    <2>2. QED
      BY <2>1 DEF ToSet
  <1>4. ASSUME NEW i \in DOMAIN u, i <= Len(s)
        PROVE  i \in DOMAIN s /\ u[i] = s[i] /\ u[i] \in ToSet(s)
    <2>1. i \in DOMAIN s /\ u[i] = s[i]
      BY <1>2, <1>4
    <2>2. QED
      BY <2>1 DEF ToSet
  <1>5. ASSUME NEW i \in DOMAIN u, NEW j \in DOMAIN u, i < j PROVE <<u[i], u[j]>> \in R
    <2>1. i \in Int /\ j \in Int
      BY <1>2
    <2>2. CASE j <= Len(s)
      <3>1. i <= Len(s)
        BY <1>2, <1>5, <2>1, <2>2
      <3>2. i \in DOMAIN s /\ j \in DOMAIN s /\ u[i] = s[i] /\ u[j] = s[j]
        BY <1>4, <2>2, <3>1
      <3>3. QED
        BY <1>5, <3>2 DEF Sorted
    <2>3. CASE i > Len(s)
      <3>1. j > Len(s)
        BY <1>2, <1>5, <2>1, <2>3
      <3>2. /\ i - Len(s) \in DOMAIN t /\ j - Len(s) \in DOMAIN t /\ i - Len(s) < j - Len(s)
            /\ u[i] = t[i - Len(s)] /\ u[j] = t[j - Len(s)]
        BY <1>2, <1>3, <1>5, <2>1, <2>3, <3>1
      <3>3. QED
        BY <3>2 DEF Sorted
    <2>4. CASE i <= Len(s) /\ j > Len(s)
      BY <1>3, <1>4, <2>4
    <2>5. QED
      BY <1>2, <2>1, <2>2, <2>3, <2>4
  <1>6. QED
    BY <1>1, <1>5 DEF Sorted

LEMMA One ==
  ASSUME NEW S, NEW x \in S
  PROVE  /\ <<x>> \in Seq(S) /\ ToSet(<<x>>) = {x} /\ \A R : Sorted(<<x>>, R)
         /\ <<>> \in Seq(S) /\ ToSet(<<>>) = {} /\ \A R : Sorted(<<>>, R)
  <1>1. DOMAIN <<x>> = {1} /\ <<x>>[1] = x /\ DOMAIN <<>> = {}
    OBVIOUS
  <1>2. <<x>> \in Seq(S) /\ <<>> \in Seq(S)
    OBVIOUS
  <1>3. ToSet(<<x>>) = {x} /\ ToSet(<<>>) = {}
    BY <1>1 DEF ToSet
  <1>4. ASSUME NEW R PROVE Sorted(<<x>>, R) /\ Sorted(<<>>, R)
    BY <1>1 DEF Sorted
  <1>5. QED
    BY <1>2, <1>3, <1>4

LEMMA Appended == \A S : \A s \in Seq(S), x \in S : ToSet(Append(s, x)) = ToSet(s) \cup {x}
  <1> SUFFICES ASSUME NEW S, NEW s \in Seq(S), NEW x \in S
               PROVE  ToSet(Append(s, x)) = ToSet(s) \cup {x}
    OBVIOUS
  <1>1. Append(s, x) = s \o <<x>>
    OBVIOUS
  <1>2. PICK w \in Seq(S) : w = <<x>> /\ ToSet(w) = {x}
    BY One
  <1>3. s \o w \in Seq(S) /\ ToSet(s \o w) = ToSet(s) \cup ToSet(w)
    BY Joined
  <1>4. QED
    BY <1>1, <1>2, <1>3

LEMMA AppendedSorted ==
  \A S, R : \A s \in Seq(S), x \in S :
    Sorted(s, R) /\ (\A y \in ToSet(s) : <<y, x>> \in R) => Sorted(Append(s, x), R)
  <1> SUFFICES ASSUME NEW S, NEW s \in Seq(S), NEW x \in S, NEW R, Sorted(s, R),
                      \A y \in ToSet(s) : <<y, x>> \in R
               PROVE  Sorted(Append(s, x), R)
    OBVIOUS
  <1>1. Append(s, x) = s \o <<x>>
    OBVIOUS
  <1>2. PICK w \in Seq(S) : w = <<x>> /\ ToSet(w) = {x} /\ Sorted(w, R)
    BY One
  <1>3. \A y \in ToSet(s), z \in ToSet(w) : <<y, z>> \in R
    BY <1>2
  <1>4. QED
    BY <1>1, <1>2, <1>3, JoinedSorted

-----------------------------------------------------------------------------
(* Requests and messages *)

LEMMA Requests ==
  /\ \A c \in Channel : /\ Attach(c) \in Request /\ Detach(c) \in Request
                        /\ \A i \in 1 .. MaxResizes[c] : Resize(c, i) \in Request
  /\ \A c : /\ Attach(c).kind = "attach" /\ Attach(c).channel = c
            /\ Detach(c).kind = "detach" /\ Detach(c).channel = c
            /\ \A i : Resize(c, i).kind = "resize" /\ Resize(c, i).channel = c /\ Resize(c, i).nth = i
  /\ \A r \in Request :
       /\ r.channel \in Channel /\ r.nth \in Int
       /\ \/ r.kind = "attach" /\ r = Attach(r.channel)
          \/ r.kind = "detach" /\ r = Detach(r.channel)
          \/ r.kind = "resize" /\ r = Resize(r.channel, r.nth) /\ r.nth \in 1 .. MaxResizes[r.channel]
  <1>1. /\ \A c \in Channel : /\ Attach(c) \in Request /\ Detach(c) \in Request
                              /\ \A i \in 1 .. MaxResizes[c] : Resize(c, i) \in Request
    BY DEF Request
  <1>2. \A c : /\ Attach(c).kind = "attach" /\ Attach(c).channel = c /\ Attach(c).nth = 0
               /\ Detach(c).kind = "detach" /\ Detach(c).channel = c /\ Detach(c).nth = 0
               /\ \A i : Resize(c, i).kind = "resize" /\ Resize(c, i).channel = c /\ Resize(c, i).nth = i
    BY DEF Attach, Detach, Resize
  <1>3. ASSUME NEW r \in Request
        PROVE  \/ \E c \in Channel : r = Attach(c)
               \/ \E c \in Channel : r = Detach(c)
               \/ \E c \in Channel : \E i \in 1 .. MaxResizes[c] : r = Resize(c, i)
    BY DEF Request
  <1>4. ASSUME NEW r \in Request
        PROVE  /\ r.channel \in Channel /\ r.nth \in Int
               /\ \/ r.kind = "attach" /\ r = Attach(r.channel)
                  \/ r.kind = "detach" /\ r = Detach(r.channel)
                  \/ /\ r.kind = "resize" /\ r = Resize(r.channel, r.nth)
                     /\ r.nth \in 1 .. MaxResizes[r.channel]
    <2>1. CASE \E c \in Channel : r = Attach(c)
      BY <1>2, <2>1
    <2>2. CASE \E c \in Channel : r = Detach(c)
      BY <1>2, <2>2
    <2>3. CASE \E c \in Channel : \E i \in 1 .. MaxResizes[c] : r = Resize(c, i)
      BY <1>2, <2>3
    <2>4. QED
      BY <1>3, <2>1, <2>2, <2>3
  <1>5. QED
    BY <1>1, <1>2, <1>4

LEMMA Messages ==
  /\ \A r : /\ Done(r).re = {r} /\ Done(r).ok /\ Done(r) # SessionEnded
           /\ Refused(r).re = {r} /\ ~Refused(r).ok /\ Refused(r) # SessionEnded
  /\ \A r, q : r # q => Done(r) # Done(q)
  /\ \A r, q : r # q => Refused(r) # Refused(q)
  /\ \A r, q : Done(r) # Refused(q)
  /\ SessionEnded.re = {} /\ ~SessionEnded.ok /\ SessionEnded \in Message
  /\ \A r \in Request : Done(r) \in Message /\ Refused(r) \in Message
  /\ \A m \in Message : m = SessionEnded \/ \E r \in Request : m = Done(r) \/ m = Refused(r)
  <1>1. /\ \A r : /\ Done(r).re = {r} /\ Done(r).ok
                 /\ Refused(r).re = {r} /\ ~Refused(r).ok
        /\ SessionEnded.re = {} /\ ~SessionEnded.ok
    BY DEF Done, Refused, Reply, SessionEnded
  <1>2. \A r : Done(r) # SessionEnded /\ Refused(r) # SessionEnded
    <2> SUFFICES ASSUME NEW r, Done(r) = SessionEnded \/ Refused(r) = SessionEnded PROVE FALSE
      OBVIOUS
    <2>1. {r} = {}
      BY <1>1
    <2>2. QED
      BY <2>1
  <1>3. /\ \A r, q : r # q => Done(r) # Done(q)
        /\ \A r, q : r # q => Refused(r) # Refused(q)
        /\ \A r, q : Done(r) # Refused(q)
    <2>1. ASSUME NEW r, NEW q, r # q PROVE Done(r) # Done(q) /\ Refused(r) # Refused(q)
      <3>1. Done(r).re # Done(q).re /\ Refused(r).re # Refused(q).re
        <4>1. {r} # {q}
          BY <2>1
        <4>2. QED
          BY <1>1, <4>1
      <3>2. QED
        BY <3>1
    <2>2. ASSUME NEW r, NEW q, Done(r) = Refused(q) PROVE FALSE
      BY <1>1, <2>2
    <2>3. QED
      BY <2>1, <2>2
  <1>4. /\ SessionEnded \in Message
        /\ \A r \in Request : Done(r) \in Message /\ Refused(r) \in Message
    BY Zenon DEF Message, Done, Refused
  <1>5. \A m \in Message : m = SessionEnded \/ \E r \in Request : m = Done(r) \/ m = Refused(r)
    BY Zenon DEF Message, Done, Refused
  <1>6. QED
    BY <1>1, <1>2, <1>3, <1>4, <1>5

\* What is owed, and to whom.
LEMMA OwedIs ==
  ASSUME Typed, NEW c \in Channel
  PROVE  \A r : r \in Owed(c) <=> r \in Request /\ r.channel = c /\ Owes(r)
  <1>1. resizes[c] \in Seq(1 .. MaxResizes[c]) /\ ToSet(resizes[c]) \subseteq 1 .. MaxResizes[c]
    <2>1. resizes[c] \in Seq(1 .. MaxResizes[c])
      BY DEF Typed, TypeOK
    <2>2. QED
      BY <2>1, ElementsOf
  <1>2. ASSUME NEW r, r \in Owed(c) PROVE r \in Request /\ r.channel = c /\ Owes(r)
    <2>1. CASE c \in waiting /\ r = Attach(c)
      BY <2>1, Requests DEF Owes
    <2>2. CASE \E i \in ToSet(resizes[c]) : r = Resize(c, i)
      BY <1>1, <2>2, Requests DEF Owes
    <2>3. QED
      BY <1>2, <2>1, <2>2 DEF Owed
  <1>3. ASSUME NEW r \in Request, r.channel = c, Owes(r) PROVE r \in Owed(c)
    <2>1. CASE r.kind = "attach" /\ c \in waiting
      <3>1. r = Attach(c)
        BY <1>3, <2>1, Requests
      <3>2. QED
        BY <2>1, <3>1 DEF Owed
    <2>2. CASE r.kind = "resize" /\ r.nth \in ToSet(resizes[c])
      <3>1. r = Resize(c, r.nth)
        BY <1>3, <2>2, Requests
      <3>2. QED
        BY <2>2, <3>1 DEF Owed
    <2>3. QED
      BY <1>3, <2>1, <2>2 DEF Owes
  <1>4. QED
    BY <1>2, <1>3

LEMMA OrderedSet ==
  ASSUME NEW S, NEW s \in Orders(S)
  PROVE  /\ s \in Seq(S) /\ ToSet(s) = S
         /\ \A i, j \in DOMAIN s : s[i] = s[j] => i = j
  <1>1. PICK n \in 0 .. Cardinality(S) : s \in [1 .. n -> S]
    BY DEF Orders
  <1>2. IsInjective(s) /\ Range(s) = S
    BY DEF Orders
  <1>3. n \in Nat
    BY <1>1
  <1>4. s \in Seq(S)
    BY <1>1, <1>3
  <1>5. QED
    BY <1>2, <1>4 DEF IsInjective, Range, ToSet

\* The errors for what the attachments among C owe.
Errors(C) == {Refused(r) : r \in {q \in Request : Owes(q) /\ q.channel \in C \cap attachments}}

\* Retire writes each of these errors once, and then `last`.
LEMMA RetireWrites ==
  ASSUME Typed, NEW C \in SUBSET Channel, NEW last \in Seq(Message), Sorted(last, ControlOrder),
         ToSet(last) \cap Errors(C) = {},
         NEW commands, Retire(C, last, commands)
  PROVE  \E ext \in Seq(Message) :
           /\ control' = control \o ext /\ Sorted(ext, ControlOrder)
           /\ ToSet(ext) = Errors(C) \cup ToSet(last)
  <1>0. PICK failed \in Orders(UNION {Owed(c) : c \in C \cap attachments}) :
          control' = control \o [i \in DOMAIN failed |-> Reply(failed[i], FALSE)] \o last
    BY DEF Retire
  <1>1. control' = control \o [i \in DOMAIN failed |-> Refused(failed[i])] \o last
    BY <1>0 DEF Refused
  <1>2. UNION {Owed(c) : c \in C \cap attachments} = {q \in Request : Owes(q) /\ q.channel \in C \cap attachments}
    BY OwedIs
  <1>3. PICK S : S = {q \in Request : Owes(q) /\ q.channel \in C \cap attachments}
    OBVIOUS
  <1>4. /\ failed \in Seq(S) /\ ToSet(failed) = S
        /\ \A i, j \in DOMAIN failed : failed[i] = failed[j] => i = j
    BY <1>0, <1>2, <1>3, OrderedSet
  <1>5. PICK errors : errors = [i \in DOMAIN failed |-> Refused(failed[i])]
    OBVIOUS
  <1>6. /\ DOMAIN errors = DOMAIN failed
        /\ \A i \in DOMAIN errors : failed[i] \in S /\ errors[i] = Refused(failed[i])
    BY <1>4, <1>5
  <1>7. S \subseteq Request
    BY <1>3
  <1>8. errors \in Seq(Message)
    <2>1. \A i \in DOMAIN errors : errors[i] \in Message
      BY <1>6, <1>7, Messages
    <2>2. DOMAIN errors = 1 .. Len(failed) /\ Len(failed) \in Nat
      BY <1>4, <1>6
    <2>3. errors \in [1 .. Len(failed) -> Message]
      BY <1>5, <2>1, <2>2
    <2>4. QED
      BY <2>2, <2>3
  <1>9. ToSet(errors) = Errors(C)
    <2>1. ToSet(errors) = {Refused(r) : r \in ToSet(failed)}
      BY <1>6 DEF ToSet
    <2>2. QED
      BY <1>3, <1>4, <2>1 DEF Errors
  <1>10. Sorted(errors, ControlOrder)
    <2> SUFFICES ASSUME NEW i \in DOMAIN errors, NEW j \in DOMAIN errors, i < j
                 PROVE  <<errors[i], errors[j]>> \in ControlOrder
      BY DEF Sorted
    <2>1. failed[i] # failed[j] /\ i # j
      BY <1>4, <1>6, <1>8
    <2>2. errors[i] # errors[j] /\ errors[i] # SessionEnded /\ errors[i] \in Message /\ errors[j] \in Message
      <3>1. errors[i] = Refused(failed[i]) /\ errors[j] = Refused(failed[j])
        BY <1>6
      <3>2. failed[i] \in Request /\ failed[j] \in Request
        BY <1>6, <1>7
      <3>3. PICK r \in Request, q \in Request : r = failed[i] /\ q = failed[j]
        BY <3>2
      <3>4. Refused(r) # Refused(q) /\ Refused(r) # SessionEnded
        BY <2>1, <3>3, Messages
      <3>5. Refused(r) \in Message /\ Refused(q) \in Message
        BY Messages
      <3>6. QED
        BY <3>1, <3>3, <3>4, <3>5
    <2>3. QED
      BY <2>2 DEF ControlOrder
  <1>11. PICK ext : ext = errors \o last
    OBVIOUS
  <1>12. ext \in Seq(Message) /\ ToSet(ext) = Errors(C) \cup ToSet(last)
    BY <1>8, <1>9, <1>11, Joined
  <1>13. Sorted(ext, ControlOrder)
    <2>1. ASSUME NEW x \in ToSet(errors), NEW y \in ToSet(last) PROVE <<x, y>> \in ControlOrder
      <3>1. x # y
        BY <1>9, <2>1
      <3>2. x # SessionEnded /\ x \in Message
        BY <1>6, <1>7, <2>1, Messages DEF ToSet
      <3>3. y \in Message
        BY <2>1 DEF ToSet
      <3>4. QED
        BY <3>1, <3>2, <3>3 DEF ControlOrder
    <2>2. QED
      BY <1>8, <1>10, <1>11, <2>1, JoinedSorted
  <1>14. control' = control \o ext
    <2>1. \A a, b, d \in Seq(Message) : a \o b \o d = a \o (b \o d)
      OBVIOUS
    <2>2. control \in Seq(Message)
      BY DEF Typed, TypeOK
    <2>3. QED
      BY <1>1, <1>5, <1>8, <1>11, <2>1, <2>2
  <1>15. QED
    BY <1>12, <1>13, <1>14

LEMMA DetachesOf ==
  ASSUME NEW S \in SUBSET Channel, NEW order \in Orders(S)
  PROVE  /\ [i \in DOMAIN order |-> Detach(order[i])] \in Seq(Request)
         /\ ToSet([i \in DOMAIN order |-> Detach(order[i])]) = {Detach(c) : c \in S}
  <1>1. order \in Seq(S) /\ ToSet(order) = S
    BY OrderedSet
  <1>2. PICK told : told = [i \in DOMAIN order |-> Detach(order[i])]
    OBVIOUS
  <1>3. DOMAIN told = DOMAIN order /\ \A i \in DOMAIN told : order[i] \in S /\ told[i] = Detach(order[i])
    BY <1>1, <1>2
  <1>4. told \in Seq(Request)
    <2>1. \A i \in DOMAIN told : told[i] \in Request
      BY <1>3, Requests
    <2>2. DOMAIN told = 1 .. Len(order) /\ Len(order) \in Nat
      BY <1>1, <1>3
    <2>3. told \in [1 .. Len(order) -> Request]
      BY <1>2, <2>1, <2>2
    <2>4. QED
      BY <2>2, <2>3
  <1>5. ToSet(told) = {Detach(c) : c \in S}
    BY <1>1, <1>3 DEF ToSet
  <1>6. QED
    BY <1>2, <1>4, <1>5

LEMMA Sends ==
  ASSUME NEW S \in SUBSET Channel, NEW order \in Orders(S), NEW commands \in Seq(Request),
         queue' = IF Receiving THEN commands \o [i \in DOMAIN order |-> Detach(order[i])] ELSE commands
  PROVE  \E more \in Seq(Request) :
           /\ queue' = commands \o more
           /\ ToSet(more) = IF Receiving THEN {Detach(c) : c \in S} ELSE {}
  <1>1. CASE Receiving
    BY <1>1, DetachesOf
  <1>2. CASE ~Receiving
    <2>1. queue' = commands \o <<>> /\ <<>> \in Seq(Request) /\ ToSet(<<>>) = {}
      BY <1>2 DEF ToSet
    <2>2. QED
      BY <1>2, <2>1
  <1>3. QED
    BY <1>1, <1>2

\* Retire and Close send the owner a Detach for each of them.
LEMMA RetireSends ==
  ASSUME Typed, NEW C \in SUBSET Channel, NEW last, NEW commands \in Seq(Request), Retire(C, last, commands)
  PROVE  \E more \in Seq(Request) :
           /\ queue' = commands \o more
           /\ ToSet(more) = IF Receiving THEN {Detach(c) : c \in C \cap attachments} ELSE {}
  <1>1. PICK order \in Orders(C \cap attachments) :
          queue' = IF Receiving THEN commands \o [i \in DOMAIN order |-> Detach(order[i])] ELSE commands
    BY DEF Retire
  <1>2. C \cap attachments \in SUBSET Channel
    OBVIOUS
  <1>3. QED
    BY <1>1, <1>2, Sends

LEMMA CloseSends ==
  ASSUME Typed, Close
  PROVE  \E more \in Seq(Request) :
           /\ queue' = queue \o more
           /\ ToSet(more) = IF Receiving THEN {Detach(c) : c \in attachments} ELSE {}
  <1>1. PICK order \in Orders(attachments) :
          queue' = IF Receiving THEN queue \o [i \in DOMAIN order |-> Detach(order[i])] ELSE queue
    BY DEF Close, Send
  <1>2. attachments \in SUBSET Channel /\ queue \in Seq(Request)
    BY DEF Typed, TypeOK
  <1>3. QED
    BY <1>1, <1>2, Sends

\* What Retire leaves of the connection's attachments.
Kept(C) ==
  /\ attachments' = attachments \ C /\ waiting' = waiting \ C
  /\ resizes' = [c \in Channel |-> IF c \in C THEN <<>> ELSE resizes[c]]

\* Nothing is written after the errors, or one of these messages.
Final(last) == last = <<>> \/ last = <<SessionEnded>> \/ \E r \in Request : last = <<Done(r)>>

LEMMA FinalIs ==
  ASSUME NEW C, NEW last, Final(last)
  PROVE  last \in Seq(Message) /\ Sorted(last, ControlOrder) /\ ToSet(last) \cap Errors(C) = {}
  <1>1. PICK m \in Message :
          /\ last = <<>> \/ last = <<m>>
          /\ m = SessionEnded \/ \E r \in Request : m = Done(r)
    BY Messages DEF Final
  <1>2. m \notin Errors(C)
    BY <1>1, Messages DEF Errors
  <1>3. /\ <<m>> \in Seq(Message) /\ ToSet(<<m>>) = {m} /\ Sorted(<<m>>, ControlOrder)
        /\ <<>> \in Seq(Message) /\ ToSet(<<>>) = {} /\ Sorted(<<>>, ControlOrder)
    BY One
  <1>4. CASE last = <<>>
    <2>1. last \in Seq(Message)
      BY <1>4
    <2>2. DOMAIN last = {}
      BY <1>4
    <2>3. ToSet(last) = {} /\ Sorted(last, ControlOrder)
      BY <2>2 DEF ToSet, Sorted
    <2>4. QED
      BY <2>1, <2>3
  <1>5. CASE last = <<m>>
    <2>1. last \in Seq(Message) /\ ToSet(last) = {m} /\ Sorted(last, ControlOrder)
      BY <1>3, <1>5
    <2>2. QED
      BY <1>2, <2>1
  <1>6. QED
    BY <1>1, <1>4, <1>5

LEMMA RetireTypes ==
  ASSUME Typed, NEW C \in SUBSET Channel, NEW last, Final(last),
         NEW commands \in Seq(Request), Retire(C, last, commands)
  PROVE  /\ Kept(C) /\ control' \in Seq(Message) /\ queue' \in Seq(Request)
         /\ attachments' \subseteq Channel /\ waiting' \subseteq Channel
         /\ resizes' \in [Channel -> Seq(Int)]
         /\ \A c \in Channel : resizes'[c] \in Seq(1 .. MaxResizes[c])
  <1>1. Kept(C)
    BY DEF Retire, Kept
  <1>2. last \in Seq(Message) /\ Sorted(last, ControlOrder) /\ ToSet(last) \cap Errors(C) = {}
    BY FinalIs
  <1>3. PICK ext \in Seq(Message) : control' = control \o ext
    BY <1>2, RetireWrites
  <1>4. PICK more \in Seq(Request) : queue' = commands \o more
    BY RetireSends
  <1>5. control' \in Seq(Message) /\ queue' \in Seq(Request)
    <2>1. control \in Seq(Message)
      BY DEF Typed, TypeOK
    <2>2. control \o ext \in Seq(Message) /\ commands \o more \in Seq(Request)
      BY <2>1, Joined
    <2>3. QED
      BY <1>3, <1>4, <2>2
  <1>6. \A c \in Channel : resizes'[c] \in Seq(1 .. MaxResizes[c]) /\ resizes'[c] \in Seq(Int)
    <2>1. \A c \in Channel : /\ resizes[c] \in Seq(1 .. MaxResizes[c]) /\ resizes[c] \in Seq(Int)
                             /\ <<>> \in Seq(1 .. MaxResizes[c]) /\ <<>> \in Seq(Int)
      BY DEF Typed, TypeOK
    <2>2. QED
      BY <1>1, <2>1 DEF Kept
  <1>7. QED
    BY <1>1, <1>5, <1>6 DEF Kept, Typed, TypeOK

-----------------------------------------------------------------------------
(* Types *)

LEMMA HeadAndTail ==
  ASSUME Typed
  PROVE  /\ work # <<>> => Head(work) \in Request /\ Tail(work) \in Seq(Request)
         /\ queue # <<>> => Head(queue) \in Request /\ Tail(queue) \in Seq(Request)
         /\ control # <<>> => Head(control) \in Message /\ Tail(control) \in Seq(Message)
         /\ \A c \in Channel : resizes[c] # <<>> =>
              /\ Head(resizes[c]) \in 1 .. MaxResizes[c] /\ Tail(resizes[c]) \in Seq(1 .. MaxResizes[c])
              /\ Tail(resizes[c]) \in Seq(Int)
  <1>1. /\ work \in Seq(Request) /\ queue \in Seq(Request) /\ control \in Seq(Message)
        /\ \A c \in Channel : resizes[c] \in Seq(1 .. MaxResizes[c]) /\ resizes[c] \in Seq(Int)
    BY DEF Typed, TypeOK
  <1>2. QED
    BY <1>1, TailOf

LEMMA DropsHead ==
  ASSUME Typed, DropCommand
  PROVE  /\ queue # <<>> /\ Head(queue) \in Request /\ Tail(queue) \in Seq(Request)
         /\ \E C \in SUBSET Channel :
              /\ C = (IF Head(queue).kind = "attach" THEN {Head(queue).channel} ELSE {})
              /\ Retire(C, <<>>, Tail(queue))
  <1>1. queue # <<>> /\ Head(queue) \in Request /\ Tail(queue) \in Seq(Request)
    BY HeadAndTail DEF DropCommand
  <1>2. PICK C : C = (IF Head(queue).kind = "attach" THEN {Head(queue).channel} ELSE {})
    OBVIOUS
  <1>3. C \in SUBSET Channel
    BY <1>1, <1>2, Requests
  <1>4. QED
    BY <1>1, <1>2, <1>3 DEF DropCommand

LEMMA TypedNext ==
  ASSUME Typed, Newer, [Next]_vars
  PROVE  Typed'
  <1> USE DEF Typed, TypeOK
  <1>1. ASSUME NEW r \in Request, Ask(r) PROVE Typed'
    <2>1. asked' \subseteq Request /\ open' \subseteq Channel
      BY <1>1 DEF Ask
    <2>2. /\ work' \in Seq(Request) /\ control' \in Seq(Message)
      <3>1. Append(work, r) \in Seq(Request) /\ Refused(r) \in Message
        BY Appended, Messages
      <3>2. Append(control, Refused(r)) \in Seq(Message)
        BY <3>1, Appended
      <3>3. QED
        BY <1>1, <3>1, <3>2 DEF Ask, Answer, Refused
    <2>3. QED
      BY <1>1, <2>1, <2>2 DEF Ask, attachmentVars, sessionVars
  <1>2. CASE Write
    <2>1. Head(control) \in Message /\ Tail(control) \in Seq(Message)
      BY <1>2, HeadAndTail DEF Write
    <2>2. Head(control).re \subseteq Request
      BY <2>1, Messages
    <2>3. QED
      BY <1>2, <2>1, <2>2 DEF Write, attachmentVars, sessionVars
  <1>3. CASE Close
    <2>1. PICK more \in Seq(Request) : queue' = queue \o more
      BY <1>3, CloseSends
    <2>2. queue' \in Seq(Request)
      BY <2>1, Joined
    <2>3. control' \in Seq(Message)
      <3>1. control' = control \/ control' = <<>>
        BY <1>3 DEF Close
      <3>2. CASE control' = <<>>
        BY <3>2
      <3>3. QED
        BY <3>1, <3>2
    <2>4. QED
      BY <1>3, <2>2, <2>3 DEF Close, appVars
  <1>4. CASE PaneClosed
    <2>1. Retire(attachments, <<>>, queue) /\ Final(<<>>) /\ attachments \in SUBSET Channel
      BY <1>4 DEF PaneClosed, Final
    <2>2. QED
      BY <1>4, <2>1, RetireTypes DEF PaneClosed, appVars
  <1>5. CASE Skip
    BY <1>5, HeadAndTail DEF Skip, appVars, attachmentVars, sessionVars
  <1>6. CASE FindSession
    <2>1. work # <<>> /\ Head(work) \in Request /\ Tail(work) \in Seq(Request)
      BY <1>6, HeadAndTail DEF FindSession, Running
    <2>2. Refused(Head(work)) \in Message
      BY <2>1, Messages
    <2>3. Append(control, Refused(Head(work))) \in Seq(Message)
      BY <2>2, Appended
    <2>4. QED
      BY <1>6, <2>1, <2>3 DEF FindSession, Answer, Refused, appVars, attachmentVars, sessionVars
  <1>7. CASE AttachFound
    <2>1. work # <<>> /\ Head(work) \in Request /\ Tail(work) \in Seq(Request)
      BY <1>7, HeadAndTail DEF AttachFound, Newer
    <2>2. Refused(Head(work)) \in Message /\ Head(work).channel \in Channel
      BY <2>1, Messages, Requests
    <2>3. Append(control, Refused(Head(work))) \in Seq(Message)
      BY <2>2, Appended
    <2>4. queue \o <<Head(work)>> \in Seq(Request)
      BY <2>1, Appended
    <2>5. QED
      BY <1>7, <2>1, <2>2, <2>3, <2>4 DEF AttachFound, Answer, Send, Refused, appVars, attachmentVars
  <1>8. CASE RunResize
    <2>1. work # <<>> /\ Head(work) \in Request /\ Tail(work) \in Seq(Request)
      BY <1>8, HeadAndTail DEF RunResize, Running
    <2>2. PICK r \in Request : r = Head(work)
      BY <2>1
    <2>3. Refused(r) \in Message /\ r.channel \in Channel /\ r.nth \in 1 .. MaxResizes[r.channel] /\ r.nth \in Int
      BY <1>8, <2>2, Messages, Requests DEF RunResize, Running
    <2>4. Append(control, Refused(r)) \in Seq(Message)
      BY <2>3, Appended
    <2>5. queue \o <<r>> \in Seq(Request)
      BY Appended
    <2>6. /\ Append(resizes[r.channel], r.nth) \in Seq(1 .. MaxResizes[r.channel])
          /\ Append(resizes[r.channel], r.nth) \in Seq(Int)
      BY <2>3, Appended
    <2>7. CASE r.channel \in attachments /\ Receiving
      <3>1. resizes' = [resizes EXCEPT ![r.channel] = Append(@, r.nth)] /\ queue' = queue \o <<r>>
        BY <1>8, <2>2, <2>7 DEF RunResize, Send
      <3>2. resizes' \in [Channel -> Seq(Int)] /\ \A c \in Channel : resizes'[c] \in Seq(1 .. MaxResizes[c])
        BY <2>3, <2>6, <3>1
      <3>3. QED
        BY <1>8, <2>1, <2>2, <2>5, <2>7, <3>1, <3>2 DEF RunResize, appVars
    <2>8. CASE ~(r.channel \in attachments /\ Receiving)
      BY <1>8, <2>1, <2>2, <2>4, <2>8 DEF RunResize, Answer, Refused, appVars
    <2>9. QED
      BY <2>7, <2>8
  <1>9. CASE RunDetach
    <2>1. work # <<>> /\ Head(work) \in Request /\ Tail(work) \in Seq(Request)
      BY <1>9, HeadAndTail DEF RunDetach, Running
    <2>2. PICK r \in Request : r = Head(work)
      BY <2>1
    <2>3. Refused(r) \in Message /\ r.channel \in Channel
      BY Messages, Requests
    <2>4. Append(control, Refused(r)) \in Seq(Message)
      BY <2>3, Appended
    <2>5. CASE r.channel \in attachments
      <3>1. Retire({r.channel}, <<Done(r)>>, queue) /\ Final(<<Done(r)>>) /\ {r.channel} \in SUBSET Channel
        BY <1>9, <2>2, <2>3, <2>5 DEF RunDetach, Final, Done
      <3>2. QED
        BY <1>9, <2>1, <3>1, RetireTypes DEF RunDetach, appVars
    <2>6. CASE r.channel \notin attachments
      BY <1>9, <2>1, <2>2, <2>4, <2>6 DEF RunDetach, Answer, Refused, appVars, attachmentVars
    <2>7. QED
      BY <2>5, <2>6
  <1>10. CASE Tick
    BY <1>10 DEF Tick, Broadcast, appVars, attachmentVars
  <1>11. CASE ServeAttach
    <2>1. queue # <<>> /\ Head(queue) \in Request /\ Tail(queue) \in Seq(Request)
      BY <1>11, HeadAndTail DEF ServeAttach, Serving
    <2>2. PICK r \in Request : r = Head(queue) /\ r.channel \in Channel /\ r = Attach(r.channel)
      BY <1>11, <2>1, Requests DEF ServeAttach, Serving
    <2>3. Append(control, Done(r)) \in Seq(Message)
      BY <2>2, Messages, Appended
    <2>4. owned' \subseteq Channel
      BY <1>11 DEF ServeAttach, Broadcast
    <2>5. control' \in Seq(Message)
      BY <1>11, <2>2, <2>3 DEF ServeAttach, Done
    <2>6. QED
      BY <1>11, <2>1, <2>4, <2>5 DEF ServeAttach, appVars
  <1>12. CASE ServeResize
    <2>1. queue # <<>> /\ Head(queue) \in Request /\ Tail(queue) \in Seq(Request)
      BY <1>12, HeadAndTail DEF ServeResize, Serving
    <2>2. PICK c \in Channel : c = Head(queue).channel
      BY <2>1, Requests
    <2>3. CASE c \in Broadcast /\ resizes[c] # <<>>
      <3>1. /\ control' = Append(control, Done(Resize(c, Head(resizes[c]))))
            /\ resizes' = [resizes EXCEPT ![c] = Tail(@)]
        BY <1>12, <2>2, <2>3 DEF ServeResize, Answer, Done
      <3>2. /\ Head(resizes[c]) \in 1 .. MaxResizes[c] /\ Tail(resizes[c]) \in Seq(1 .. MaxResizes[c])
            /\ Tail(resizes[c]) \in Seq(Int)
        BY <2>3, HeadAndTail
      <3>3. control' \in Seq(Message)
        BY <3>1, <3>2, Requests, Messages, Appended
      <3>4. resizes' \in [Channel -> Seq(Int)] /\ \A d \in Channel : resizes'[d] \in Seq(1 .. MaxResizes[d])
        BY <3>1, <3>2
      <3>5. QED
        BY <1>12, <2>1, <3>3, <3>4 DEF ServeResize, Broadcast, appVars
    <2>4. CASE ~(c \in Broadcast /\ resizes[c] # <<>>)
      BY <1>12, <2>1, <2>2, <2>4 DEF ServeResize, Broadcast, appVars
    <2>5. QED
      BY <2>3, <2>4
  <1>13. CASE ServeDetach
    BY <1>13, HeadAndTail DEF ServeDetach, Serving, appVars, attachmentVars
  <1>14. CASE Fault
    <2>1. PICK C \in SUBSET Channel : Retire(C, <<>>, Tail(queue)) /\ Tail(queue) \in Seq(Request)
      BY <1>14, DropsHead DEF Fault
    <2>2. QED
      BY <1>14, <2>1, RetireTypes DEF Fault, Final, appVars
  <1>15. CASE FaultAfterSnapshot
    <2>1. queue # <<>> /\ Head(queue) \in Request /\ Tail(queue) \in Seq(Request)
      BY <1>15, HeadAndTail DEF FaultAfterSnapshot, Serving
    <2>2. PICK c \in Channel : c = Head(queue).channel
      BY <2>1, Requests
    <2>3. Attach(c) \in Request /\ Detach(c) \in Request
      BY Requests
    <2>4. Append(control, Done(Attach(c))) \in Seq(Message) /\ Append(Tail(queue), Detach(c)) \in Seq(Request)
      BY <2>1, <2>3, Messages, Appended
    <2>5. QED
      BY <1>15, <2>2, <2>4 DEF FaultAfterSnapshot, Done, appVars
  <1>16. CASE End
    BY <1>16 DEF End, appVars, attachmentVars
  <1>17. CASE Discard
    <2>1. PICK C \in SUBSET Channel : Retire(C, <<>>, Tail(queue)) /\ Tail(queue) \in Seq(Request)
      BY <1>17, DropsHead DEF Discard
    <2>2. QED
      BY <1>17, <2>1, RetireTypes DEF Discard, Final, appVars
  <1>18. CASE Drained
    BY <1>18 DEF Drained, appVars, attachmentVars
  <1>19. ASSUME NEW c \in Channel, Tell(c) PROVE Typed'
    <2>1. Retire({c}, <<>>, queue) /\ Final(<<>>) /\ {c} \in SUBSET Channel
      BY <1>19 DEF Tell, Final
    <2>2. QED
      BY <1>19, <2>1, RetireTypes DEF Tell, appVars
  <1>20. CASE DropReceiver
    BY <1>20 DEF DropReceiver, appVars, attachmentVars
  <1>21. CASE Exit
    <2>1. CASE closed
      BY <1>21, <2>1 DEF Exit, appVars, attachmentVars
    <2>2. CASE ~closed
      <3>1. Retire(attachments, <<SessionEnded>>, queue) /\ Final(<<SessionEnded>>)
            /\ attachments \in SUBSET Channel
        BY <1>21, <2>2 DEF Exit, Final
      <3>2. QED
        BY <1>21, <3>1, RetireTypes DEF Exit, appVars
    <2>3. QED
      BY <2>1, <2>2
  <1>22. CASE UNCHANGED vars
    BY <1>22 DEF vars, appVars, attachmentVars, sessionVars
  <1>23. QED
    BY <1>1, <1>2, <1>3, <1>4, <1>5, <1>6, <1>7, <1>8, <1>9, <1>10, <1>11, <1>12, <1>13, <1>14, <1>15,
       <1>16, <1>17, <1>18, <1>19, <1>20, <1>21, <1>22 DEF Next, Worker, Owner

-----------------------------------------------------------------------------
(* The worker's queue *)

\* What a step does to the worker's queue.
LEMMA WorkStep ==
  ASSUME Typed, Newer, [Next]_vars
  PROVE  \/ \E r \in Request : Ask(r)
         \/ UNCHANGED <<asked, work>>
         \/ work # <<>> /\ work' = Tail(work) /\ asked' = asked /\ (~found \/ ~found')
  <1>1. CASE Worker
    BY <1>1 DEF Worker, Skip, FindSession, AttachFound, RunResize, RunDetach, Running, Newer, appVars
  <1>2. CASE Write \/ Close \/ PaneClosed
    BY <1>2 DEF Write, Close, PaneClosed, appVars
  <1>3. CASE Owner
    BY <1>3 DEF Owner, ServeAttach, ServeResize, ServeDetach, Discard, Drained, DropReceiver, Exit, Tell, appVars
  <1>4. CASE Tick \/ Fault \/ FaultAfterSnapshot \/ End
    BY <1>4 DEF Tick, Fault, FaultAfterSnapshot, End, appVars
  <1>5. CASE UNCHANGED vars
    BY <1>5 DEF vars, appVars
  <1>6. QED
    BY <1>1, <1>2, <1>3, <1>4, <1>5 DEF Next

\* A request the app may ask is newer than all it asked.
LEMMA Newest ==
  ASSUME Typed, Asked, NEW r \in Request, MayAsk(r), NEW q \in asked
  PROVE  q # r /\ ResizeAfter(q, r)
  <1>1. q # r /\ q \in Request
    BY DEF MayAsk, Typed, TypeOK
  <1>2. ASSUME r.kind = "resize", q.kind = "resize", q.channel = r.channel, ~(q.nth < r.nth)
        PROVE  FALSE
    <2>1. PICK c \in Channel : c = r.channel /\ r = Resize(c, r.nth) /\ q = Resize(c, q.nth)
      BY <1>1, <1>2, Requests
    <2>2. r.nth \in 1 .. MaxResizes[c] /\ q.nth \in 1 .. MaxResizes[c]
      BY <1>1, <1>2, <2>1, Requests
    <2>3. PICK j \in 1 .. MaxResizes[c] : j = q.nth
      BY <2>2
    <2>4. PICK i \in 1 .. j : i = r.nth
      BY <1>2, <2>2, <2>3
    <2>5. Resize(c, j) \in asked
      BY <2>1, <2>3
    <2>6. Resize(c, i) \in asked
      BY <2>5 DEF Asked
    <2>7. QED
      BY <2>1, <2>4, <2>6 DEF MayAsk
  <1>3. QED
    BY <1>1, <1>2 DEF ResizeAfter

LEMMA WorkNext ==
  ASSUME Typed, Asked, Newer, Sorted(work, WorkOrder), [Next]_vars
  PROVE  /\ Sorted(work', WorkOrder) /\ ToSet(work') \subseteq asked'
         /\ \A r \in ToSet(work') : r \in ToSet(work) \/ Ask(r)
         /\ found' => work' # <<>> /\ Head(work').kind = "attach"
  <1>0. work \in Seq(Request) /\ ToSet(work) \subseteq asked
    BY DEF Typed, TypeOK, Asked
  <1>1. ASSUME NEW r \in Request, Ask(r)
        PROVE  /\ Sorted(work', WorkOrder) /\ ToSet(work') \subseteq asked'
               /\ \A q \in ToSet(work') : q \in ToSet(work) \/ q = r
               /\ found' => work' # <<>> /\ Head(work').kind = "attach"
    <2>1. MayAsk(r) /\ asked' = asked \cup {r} /\ (work' = work \/ work' = Append(work, r)) /\ found' = found
      BY <1>1 DEF Ask
    <2>2. \A q \in ToSet(work) : <<q, r>> \in WorkOrder
      <3>1. \A q \in ToSet(work) : q \in Request /\ q \in asked
        BY <1>0, ElementsOf
      <3>2. QED
        BY <2>1, <3>1, Newest DEF WorkOrder
    <2>3. ToSet(Append(work, r)) = ToSet(work) \cup {r} /\ Sorted(Append(work, r), WorkOrder)
      <3>1. ToSet(Append(work, r)) = ToSet(work) \cup {r}
        BY <1>0, Appended
      <3>2. Sorted(Append(work, r), WorkOrder)
        BY <1>0, <2>2, AppendedSorted
      <3>3. QED
        BY <3>1, <3>2
    <2>4. work # <<>> => Append(work, r) # <<>> /\ Head(Append(work, r)) = Head(work)
      BY <1>0
    <2>5. QED
      BY <1>0, <2>1, <2>3, <2>4 DEF Newer
  <1>2. CASE UNCHANGED <<asked, work>>
    <2>1. found' => found \/ FindSession
      BY DEF Next, Worker, Owner, Ask, Write, Close, PaneClosed, Skip, AttachFound, RunResize, RunDetach, ServeAttach,
             ServeResize, ServeDetach, Discard, Drained, DropReceiver, Exit, Tell, Tick, Fault, FaultAfterSnapshot, End,
             vars
    <2>2. FindSession => work # <<>> /\ Head(work).kind = "attach"
      BY DEF FindSession, Running
    <2>3. QED
      BY <1>0, <1>2, <2>1, <2>2 DEF Newer
  <1>3. CASE work # <<>> /\ work' = Tail(work) /\ asked' = asked /\ (~found \/ ~found')
    <2>1. Sorted(Tail(work), WorkOrder) /\ ToSet(work) = {Head(work)} \cup ToSet(Tail(work))
      BY <1>0, <1>3, TailOf, TailSorted
    <2>2. Tail(work) # work
      BY <1>0, <1>3
    <2>3. ~found'
      <3>1. found' => found \/ FindSession
        BY DEF Next, Worker, Owner, Ask, Write, Close, PaneClosed, Skip, AttachFound, RunResize, RunDetach, ServeAttach,
               ServeResize, ServeDetach, Discard, Drained, DropReceiver, Exit, Tell, Tick, Fault, FaultAfterSnapshot,
               End, vars
      <3>2. FindSession /\ found' /\ ~found => work' = work
        BY DEF FindSession
      <3>3. QED
        BY <1>3, <2>2, <3>1, <3>2
    <2>4. QED
      BY <1>0, <1>3, <2>1, <2>3
  <1>4. QED
    BY <1>1, <1>2, <1>3, WorkStep

-----------------------------------------------------------------------------
(* The owner's queue *)

\* The owner's queue loses at most its head, and gains Detach commands of
\* attachments that go.
Shrinks(commands, more) ==
  /\ commands \in Seq(Request) /\ more \in Seq(Request)
  /\ commands = queue \/ (queue # <<>> /\ commands = Tail(queue))
  /\ queue' = commands \o more
  /\ \A r \in ToSet(more) : \E c \in attachments \ attachments' : r = Detach(c)

\* No channel owes a resize it did not owe.
ResizesShrink ==
  \A c \in Channel :
    \/ resizes'[c] = resizes[c] \/ resizes'[c] = <<>>
    \/ resizes[c] # <<>> /\ resizes'[c] = Tail(resizes[c])

\* The worker hands a command to the owner.
Hands(kind) ==
  /\ work # <<>> /\ work' = Tail(work) /\ Head(work).kind = kind /\ ~closed /\ Receiving
  /\ queue' = queue \o <<Head(work)>> /\ asked' = asked

\* Retire removes the attachments among C.
LEMMA RetireShrinks ==
  ASSUME Typed, NEW C \in SUBSET Channel, NEW last, Final(last), NEW commands \in Seq(Request),
         commands = queue \/ (queue # <<>> /\ commands = Tail(queue)), Retire(C, last, commands)
  PROVE  ResizesShrink /\ \E a, b : Shrinks(a, b)
  <1>1. Kept(C)
    BY RetireTypes
  <1>2. ResizesShrink
    BY <1>1 DEF Kept, ResizesShrink
  <1>3. PICK more \in Seq(Request) :
          queue' = commands \o more /\ ToSet(more) = IF Receiving THEN {Detach(c) : c \in C \cap attachments} ELSE {}
    BY RetireSends
  <1>4. \A r \in ToSet(more) : \E c \in attachments \ attachments' : r = Detach(c)
    BY <1>1, <1>3 DEF Kept
  <1>5. Shrinks(commands, more)
    BY <1>3, <1>4 DEF Shrinks
  <1>6. QED
    BY <1>2, <1>5

LEMMA DropShrinks ==
  ASSUME Typed, DropCommand
  PROVE  ResizesShrink /\ \E a, b : Shrinks(a, b)
  <1>1. queue # <<>> /\ Tail(queue) \in Seq(Request) /\ \E C \in SUBSET Channel : Retire(C, <<>>, Tail(queue))
    BY DropsHead
  <1>2. PICK C \in SUBSET Channel : Retire(C, <<>>, Tail(queue))
    BY <1>1
  <1>3. Final(<<>>)
    BY DEF Final
  <1>4. QED
    BY <1>1, <1>2, <1>3, RetireShrinks

\* A queue that only loses its head, or nothing.
LEMMA LosesHead ==
  ASSUME Typed, queue' = queue \/ (queue # <<>> /\ queue' = Tail(queue))
  PROVE  \E a, b : Shrinks(a, b)
  <1>1. queue \in Seq(Request)
    BY DEF Typed, TypeOK
  <1>2. PICK commands \in Seq(Request) : commands = queue' /\ (commands = queue \/ (queue # <<>> /\ commands = Tail(queue)))
    BY <1>1
  <1>3. PICK more \in Seq(Request) : more = <<>>
    <2>1. <<>> \in Seq(Request)
      OBVIOUS
    <2>2. QED
      BY <2>1
  <1>4. queue' = commands \o more /\ ToSet(more) = {}
    BY <1>2, <1>3 DEF ToSet
  <1>5. QED
    BY <1>2, <1>4 DEF Shrinks

\* What a step does to the owner's queue and the resizes owed.
LEMMA QueueStep ==
  ASSUME Typed, Newer, Attached, [Next]_vars
  PROVE  \/ ResizesShrink /\ \E a, b : Shrinks(a, b)
         \/ Hands("attach") /\ UNCHANGED resizes
         \/ /\ Hands("resize") /\ Head(work).channel \in attachments
            /\ resizes' = [resizes EXCEPT ![Head(work).channel] = Append(@, Head(work).nth)]
  <1> DEFINE Less == ResizesShrink /\ \E a, b : Shrinks(a, b)
  <1>1. (UNCHANGED resizes) /\ (queue' = queue \/ (queue # <<>> /\ queue' = Tail(queue))) => Less
    <2>1. UNCHANGED resizes => ResizesShrink
      BY DEF ResizesShrink
    <2>2. QED
      BY <2>1, LosesHead
  <1>2. CASE (\E r \in Request : Ask(r)) \/ Write \/ Skip \/ FindSession \/ Tick \/ End \/ Drained \/ DropReceiver
             \/ UNCHANGED vars \/ ServeAttach \/ ServeDetach \/ (Exit /\ closed)
    <2>1. UNCHANGED resizes
      BY <1>2 DEF Ask, Write, Skip, FindSession, Tick, End, Drained, DropReceiver, vars, ServeAttach, ServeDetach, Exit,
                  attachmentVars
    <2>2. queue' = queue \/ (queue # <<>> /\ queue' = Tail(queue))
      BY <1>2 DEF Ask, Write, Skip, FindSession, Tick, End, Drained, DropReceiver, vars, ServeAttach, ServeDetach, Exit,
                  sessionVars, Serving
    <2>3. QED
      BY <1>1, <2>1, <2>2
  <1>3. CASE Close
    <2>1. PICK more \in Seq(Request) :
            queue' = queue \o more /\ ToSet(more) = IF Receiving THEN {Detach(c) : c \in attachments} ELSE {}
      BY <1>3, CloseSends
    <2>2. attachments' = {} /\ resizes' = [c \in Channel |-> <<>>]
      BY <1>3 DEF Close
    <2>3. \A r \in ToSet(more) : \E c \in attachments \ attachments' : r = Detach(c)
      BY <2>1, <2>2
    <2>4. Shrinks(queue, more)
      BY <2>1, <2>3 DEF Shrinks, Typed, TypeOK
    <2>5. ResizesShrink
      BY <2>2 DEF ResizesShrink
    <2>6. QED
      BY <2>4, <2>5
  <1>4. CASE PaneClosed \/ (Exit /\ ~closed) \/ \E c \in Channel : Tell(c)
    <2>1. PICK C \in SUBSET Channel : \E last : Retire(C, last, queue) /\ Final(last)
      <3>1. attachments \in SUBSET Channel
        BY DEF Typed, TypeOK
      <3>2. \A c \in Channel : {c} \in SUBSET Channel
        OBVIOUS
      <3>3. QED
        BY <1>4, <3>1, <3>2 DEF PaneClosed, Exit, Tell, Final
    <2>2. PICK last : Retire(C, last, queue) /\ Final(last)
      BY <2>1
    <2>3. queue \in Seq(Request)
      BY DEF Typed, TypeOK
    <2>4. QED
      BY <2>2, <2>3, RetireShrinks
  <1>5. CASE Fault \/ Discard
    BY <1>5, DropShrinks DEF Fault, Discard
  <1>6. CASE RunDetach
    <2>1. PICK r \in Request : r = Head(work)
      BY <1>6, HeadAndTail DEF RunDetach, Running
    <2>2. CASE r.channel \in attachments
      <3>1. Retire({r.channel}, <<Done(r)>>, queue) /\ Final(<<Done(r)>>) /\ {r.channel} \in SUBSET Channel
        BY <1>6, <2>1, <2>2, Requests DEF RunDetach, Final, Done
      <3>2. queue \in Seq(Request)
        BY DEF Typed, TypeOK
      <3>3. QED
        BY <3>1, <3>2, RetireShrinks
    <2>3. CASE r.channel \notin attachments
      BY <1>1, <1>6, <2>1, <2>3 DEF RunDetach, attachmentVars
    <2>4. QED
      BY <2>2, <2>3
  <1>7. CASE AttachFound
    <2>1. CASE closed \/ ~Receiving
      BY <1>1, <1>7, <2>1 DEF AttachFound, attachmentVars
    <2>2. CASE ~closed /\ Receiving
      BY <1>7, <2>2 DEF AttachFound, Send, Hands, Newer, appVars
    <2>3. QED
      BY <2>1, <2>2
  <1>8. CASE RunResize
    <2>1. CASE Head(work).channel \in attachments /\ Receiving
      BY <1>8, <2>1 DEF RunResize, Running, Send, Hands, appVars
    <2>2. CASE ~(Head(work).channel \in attachments /\ Receiving)
      BY <1>1, <1>8, <2>2 DEF RunResize
    <2>3. QED
      BY <2>1, <2>2
  <1>9. CASE ServeResize
    <2>1. queue # <<>> /\ queue' = Tail(queue)
      BY <1>9 DEF ServeResize, Serving
    <2>2. ResizesShrink
      BY <1>9 DEF ServeResize, ResizesShrink, Typed
    <2>3. QED
      BY <2>1, <2>2, LosesHead
  <1>10. CASE FaultAfterSnapshot
    <2>1. queue # <<>> /\ Head(queue) \in Request /\ Tail(queue) \in Seq(Request)
      BY <1>10, HeadAndTail DEF FaultAfterSnapshot, Serving
    <2>2. PICK c \in Channel : c = Head(queue).channel
      BY <2>1, Requests
    <2>3. PICK commands \in Seq(Request) : commands = Tail(queue)
      BY <2>1
    <2>4. PICK more \in Seq(Request) : more = <<Detach(c)>> /\ ToSet(more) = {Detach(c)}
      BY Requests, One
    <2>5. queue' = commands \o more
      BY <1>10, <2>2, <2>3, <2>4 DEF FaultAfterSnapshot
    <2>6. c \in attachments \ attachments' /\ resizes' = resizes
      BY <1>10, <2>2 DEF FaultAfterSnapshot, Attached
    <2>7. Shrinks(commands, more)
      BY <2>1, <2>3, <2>4, <2>5, <2>6 DEF Shrinks
    <2>8. QED
      BY <2>6, <2>7 DEF ResizesShrink
  <1>11. QED
    BY <1>2, <1>3, <1>4, <1>5, <1>6, <1>7, <1>8, <1>9, <1>10 DEF Next, Worker, Owner

LEMMA Shrunk ==
  ASSUME Typed, NEW a, NEW b, Shrinks(a, b)
  PROVE  /\ queue' = a \o b /\ a \in Seq(Request) /\ b \in Seq(Request)
         /\ ToSet(a) \subseteq ToSet(queue) /\ ToSet(queue') = ToSet(a) \cup ToSet(b)
         /\ \A r \in ToSet(b) : r.kind = "detach"
         /\ \A R : Sorted(queue, R) => Sorted(a, R)
  <1>1. queue \in Seq(Request) /\ a \in Seq(Request) /\ b \in Seq(Request) /\ queue' = a \o b
    BY DEF Typed, TypeOK, Shrinks
  <1>4. ToSet(a) \subseteq ToSet(queue) /\ \A R : Sorted(queue, R) => Sorted(a, R)
    <2>1. CASE a = queue
      BY <2>1
    <2>2. CASE queue # <<>> /\ a = Tail(queue)
      <3>1. ToSet(a) \subseteq ToSet(queue)
        BY <1>1, <2>2, TailOf
      <3>2. ASSUME NEW R, Sorted(queue, R) PROVE Sorted(a, R)
        BY <1>1, <2>2, <3>2, TailSorted
      <3>3. QED
        BY <3>1, <3>2
    <2>3. QED
      BY <2>1, <2>2 DEF Shrinks
  <1>5. ToSet(queue') = ToSet(a) \cup ToSet(b)
    BY <1>1, Joined
  <1>6. \A r \in ToSet(b) : r.kind = "detach"
    BY Requests DEF Shrinks
  <1>7. QED
    BY <1>1, <1>4, <1>5, <1>6

\* What a channel owes grows only by the resize the worker hands over.
LEMMA ShrunkResizes ==
  ASSUME Typed, ResizesShrink, NEW c \in Channel
  PROVE  /\ ToSet(resizes'[c]) \subseteq ToSet(resizes[c])
         /\ Sorted(resizes[c], LessThan) => Sorted(resizes'[c], LessThan)
  <1>1. resizes[c] \in Seq(Int)
    BY DEF Typed
  <1>2. CASE resizes'[c] = resizes[c]
    BY <1>2
  <1>3. CASE resizes'[c] = <<>>
    <2>1. DOMAIN resizes'[c] = {}
      BY <1>3
    <2>2. QED
      BY <2>1 DEF ToSet, Sorted
  <1>4. CASE resizes[c] # <<>> /\ resizes'[c] = Tail(resizes[c])
    <2>1. ToSet(resizes'[c]) \subseteq ToSet(resizes[c])
      BY <1>1, <1>4, TailOf
    <2>2. Sorted(resizes[c], LessThan) => Sorted(resizes'[c], LessThan)
      BY <1>1, <1>4, TailSorted
    <2>3. QED
      BY <2>1, <2>2
  <1>5. QED
    BY <1>2, <1>3, <1>4 DEF ResizesShrink

LEMMA QueueNext ==
  ASSUME Typed, Typed', Asked, Newer, Attached, Orderly, AttachedOnce, [Next]_vars
  PROVE  /\ Sorted(queue', QueueOrder)
         /\ \A c \in Channel : Sorted(resizes'[c], LessThan)
         /\ \A r \in ToSet(work'), q \in ToSet(queue') : ResizeAfter(q, r)
         /\ \A r \in ToSet(work'), n \in Int :
              r.kind = "resize" /\ n \in ToSet(resizes'[r.channel]) => n < r.nth
         /\ \A r \in ToSet(queue') : r.kind # "detach" => r \in asked'
  <1> DEFINE Goal ==
        /\ Sorted(queue', QueueOrder)
        /\ \A c \in Channel : Sorted(resizes'[c], LessThan)
        /\ \A r \in ToSet(work'), q \in ToSet(queue') : ResizeAfter(q, r)
        /\ \A r \in ToSet(work'), n \in Int :
             r.kind = "resize" /\ n \in ToSet(resizes'[r.channel]) => n < r.nth
        /\ \A r \in ToSet(queue') : r.kind # "detach" => r \in asked'
  <1>1. /\ work \in Seq(Request) /\ queue \in Seq(Request) /\ \A c \in Channel : resizes[c] \in Seq(Int)
        /\ ToSet(work) \subseteq Request /\ ToSet(queue) \subseteq Request /\ ToSet(work') \subseteq Request
        /\ Sorted(work, WorkOrder) /\ Sorted(queue, QueueOrder)
    BY ElementsOf DEF Typed, TypeOK, Orderly
  <1>2. /\ asked \subseteq asked'
        /\ \A r \in ToSet(work') : r \in ToSet(work) \/ Ask(r)
    <2>1. asked \subseteq asked'
      BY WorkStep DEF Ask
    <2>2. QED
      BY <1>1, <2>1, WorkNext
  \* A request just asked is newer than all that was handed over.
  <1>3. ASSUME NEW r \in Request, Ask(r)
        PROVE  /\ \A q \in ToSet(queue) : ResizeAfter(q, r)
               /\ \A n \in Int : r.kind = "resize" /\ n \in ToSet(resizes[r.channel]) => n < r.nth
    <2>1. MayAsk(r)
      BY <1>3 DEF Ask
    <2>2. ASSUME NEW q \in ToSet(queue) PROVE ResizeAfter(q, r)
      <3>1. q.kind = "resize" => q \in asked
        BY <1>1, <2>2 DEF Asked
      <3>2. q.kind = "resize" => ResizeAfter(q, r)
        BY <2>1, <3>1, Newest
      <3>3. QED
        BY <3>2 DEF ResizeAfter
    <2>3. ASSUME NEW n \in Int, r.kind = "resize", n \in ToSet(resizes[r.channel]) PROVE n < r.nth
      <3>1. r.channel \in Channel /\ n \in 1 .. MaxResizes[r.channel]
        <4>1. r.channel \in Channel
          BY Requests
        <4>2. resizes[r.channel] \in Seq(1 .. MaxResizes[r.channel])
          BY <4>1 DEF Typed, TypeOK
        <4>3. QED
          BY <2>3, <4>1, <4>2, ElementsOf
      <3>2. PICK q \in Request : q = Resize(r.channel, n)
        BY <3>1, Requests
      <3>3. q.kind = "resize" /\ q.channel = r.channel /\ q.nth = n
        BY <3>2, Requests
      <3>4. q \in asked
        BY <2>3, <3>3 DEF Asked, Owes
      <3>5. ResizeAfter(q, r)
        BY <2>1, <3>4, Newest
      <3>6. QED
        BY <2>3, <3>3, <3>5 DEF ResizeAfter
    <2>4. QED
      BY <2>2, <2>3
  <1>4. /\ \A r \in ToSet(work'), q \in ToSet(queue) : ResizeAfter(q, r)
        /\ \A r \in ToSet(work'), n \in Int :
             r.kind = "resize" /\ n \in ToSet(resizes[r.channel]) => n < r.nth
    BY <1>1, <1>2, <1>3 DEF Newer
  <1>5. ASSUME ResizesShrink, NEW a, NEW b, Shrinks(a, b) PROVE Goal
    <2>1. /\ queue' = a \o b /\ a \in Seq(Request) /\ b \in Seq(Request)
          /\ ToSet(a) \subseteq ToSet(queue) /\ ToSet(queue') = ToSet(a) \cup ToSet(b)
          /\ \A r \in ToSet(b) : r.kind = "detach"
          /\ Sorted(a, QueueOrder)
      BY <1>1, <1>5, Shrunk
    <2>2. \A x \in Request, y \in ToSet(b) : <<x, y>> \in QueueOrder
      <3>1. ToSet(b) \subseteq Request
        BY <2>1, ElementsOf
      <3>2. \A x \in Request, y \in ToSet(b) : ResizeAfter(x, y) /\ y # Attach(x.channel)
        BY <2>1, Requests DEF ResizeAfter
      <3>3. QED
        BY <3>1, <3>2 DEF QueueOrder
    <2>3. Sorted(b, QueueOrder)
      <3>1. \A i \in DOMAIN b : b[i] \in ToSet(b) /\ b[i] \in Request
        BY <2>1 DEF ToSet
      <3>2. QED
        BY <2>2, <3>1 DEF Sorted
    <2>4. Sorted(queue', QueueOrder)
      <3>1. \A x \in ToSet(a), y \in ToSet(b) : <<x, y>> \in QueueOrder
        BY <1>1, <2>1, <2>2
      <3>2. QED
        BY <2>1, <2>3, <3>1, JoinedSorted
    <2>5. \A r \in ToSet(work'), q \in ToSet(queue') : ResizeAfter(q, r)
      BY <1>4, <2>1 DEF ResizeAfter
    <2>6. \A r \in ToSet(queue') : r.kind # "detach" => r \in asked'
      BY <1>2, <2>1 DEF Asked
    <2>7. \A c \in Channel : Sorted(resizes'[c], LessThan) /\ ToSet(resizes'[c]) \subseteq ToSet(resizes[c])
      BY <1>5, ShrunkResizes DEF Orderly
    <2>8. \A r \in ToSet(work'), n \in Int :
            r.kind = "resize" /\ n \in ToSet(resizes'[r.channel]) => n < r.nth
      <3>1. \A r \in ToSet(work') : r.channel \in Channel
        BY <1>1, Requests
      <3>2. QED
        BY <1>4, <2>7, <3>1
    <2>9. QED
      BY <2>4, <2>5, <2>6, <2>7, <2>8
  \* Facts for the two hand-overs.
  <1>6. ASSUME NEW kind, Hands(kind), \A y \in ToSet(queue) : <<y, Head(work)>> \in QueueOrder, kind # "detach"
        PROVE  /\ Sorted(queue', QueueOrder) /\ ToSet(queue') = ToSet(queue) \cup {Head(work)}
               /\ \A r \in ToSet(work'), q \in ToSet(queue') : ResizeAfter(q, r)
               /\ \A r \in ToSet(queue') : r.kind # "detach" => r \in asked'
               /\ \A r \in ToSet(work') : ResizeAfter(Head(work), r)
    <2>1. PICK r \in Request : r = Head(work) /\ r \in ToSet(work)
      BY <1>1, <1>6, TailOf DEF Hands
    <2>2. PICK b \in Seq(Request) : b = <<r>> /\ ToSet(b) = {r} /\ Sorted(b, QueueOrder)
      BY One
    <2>3. queue' = queue \o b
      BY <1>6, <2>1, <2>2 DEF Hands
    <2>4. Sorted(queue', QueueOrder) /\ ToSet(queue') = ToSet(queue) \cup {r}
      <3>1. \A y \in ToSet(queue), z \in ToSet(b) : <<y, z>> \in QueueOrder
        BY <1>6, <2>1, <2>2
      <3>2. Sorted(queue', QueueOrder)
        BY <1>1, <2>2, <2>3, <3>1, JoinedSorted
      <3>3. ToSet(queue \o b) = ToSet(queue) \cup ToSet(b)
        BY <1>1, Joined
      <3>4. QED
        BY <2>2, <2>3, <3>2, <3>3
    <2>5. \A q \in ToSet(work') : ResizeAfter(r, q)
      <3>1. \A q \in ToSet(Tail(work)) : <<Head(work), q>> \in WorkOrder
        BY <1>1, <1>6, TailSorted DEF Hands
      <3>2. QED
        BY <1>6, <2>1, <3>1 DEF Hands, WorkOrder
    <2>6. r \in asked'
      BY <1>2, <2>1 DEF Asked
    <2>7. QED
      BY <1>2, <1>4, <2>1, <2>4, <2>5, <2>6 DEF Asked
  <1>7. CASE Hands("attach") /\ UNCHANGED resizes
    <2>1. PICK r \in Request : r = Head(work) /\ r \in ToSet(work) /\ r = Attach(r.channel)
      BY <1>1, <1>7, TailOf, Requests DEF Hands
    <2>2. \A y \in ToSet(queue) : y.channel # r.channel
      <3>1. Early(r.channel) /\ r.channel \in Channel
        BY <2>1, Requests DEF Early
      <3>2. QED
        BY <3>1 DEF AttachedOnce
    <2>3. \A y \in ToSet(queue) : <<y, r>> \in QueueOrder
      <3>1. \A y \in ToSet(queue) : ResizeAfter(y, r) /\ r # Attach(y.channel)
        BY <2>1, <2>2, Requests DEF ResizeAfter
      <3>2. QED
        BY <1>1, <3>1 DEF QueueOrder
    <2>4. QED
      BY <1>4, <1>6, <1>7, <2>1, <2>3 DEF Orderly
  <1>8. CASE /\ Hands("resize") /\ Head(work).channel \in attachments
             /\ resizes' = [resizes EXCEPT ![Head(work).channel] = Append(@, Head(work).nth)]
    <2>1. PICK r \in Request : r = Head(work) /\ r \in ToSet(work) /\ r.kind = "resize"
      BY <1>1, <1>8, TailOf DEF Hands
    <2>2. \A y \in ToSet(queue) : <<y, r>> \in QueueOrder
      <3>1. \A y \in ToSet(queue) : ResizeAfter(y, r) /\ r # Attach(y.channel)
        BY <2>1, Requests DEF Newer
      <3>2. QED
        BY <1>1, <3>1 DEF QueueOrder
    <2>3. PICK c \in Channel : c = r.channel /\ r.nth \in Int
      BY Requests
    <2>4. /\ resizes'[c] = Append(resizes[c], r.nth) /\ \A d \in Channel : d # c => resizes'[d] = resizes[d]
      BY <1>8, <2>1, <2>3 DEF Typed
    <2>5. ToSet(resizes'[c]) = ToSet(resizes[c]) \cup {r.nth}
      BY <1>1, <2>3, <2>4, Appended
    <2>6. Sorted(resizes'[c], LessThan)
      <3>1. \A n \in ToSet(resizes[c]) : n \in Int /\ n < r.nth
        BY <1>1, <2>1, <2>3, ElementsOf DEF Newer
      <3>2. \A n \in ToSet(resizes[c]) : <<n, r.nth>> \in LessThan
        BY <2>3, <3>1 DEF LessThan
      <3>3. QED
        BY <1>1, <2>3, <2>4, <3>2, AppendedSorted DEF Orderly
    <2>7. \A d \in Channel : Sorted(resizes'[d], LessThan)
      BY <2>4, <2>6 DEF Orderly
    <2>8. /\ Sorted(queue', QueueOrder)
          /\ \A x \in ToSet(work'), q \in ToSet(queue') : ResizeAfter(q, x)
          /\ \A x \in ToSet(queue') : x.kind # "detach" => x \in asked'
          /\ \A x \in ToSet(work') : ResizeAfter(r, x)
      BY <1>6, <1>8, <2>1, <2>2
    <2>9. ASSUME NEW x \in ToSet(work'), NEW n \in Int, x.kind = "resize", n \in ToSet(resizes'[x.channel])
          PROVE  n < x.nth
      <3>1. x.channel \in Channel
        BY <1>1, <2>9, Requests
      <3>2. CASE n \in ToSet(resizes[x.channel])
        BY <1>4, <2>9, <3>2
      <3>3. CASE n \notin ToSet(resizes[x.channel])
        <4>1. x.channel = c /\ n = r.nth
          BY <2>4, <2>5, <2>9, <3>1, <3>3
        <4>2. QED
          BY <2>1, <2>3, <2>8, <2>9, <4>1 DEF ResizeAfter
      <3>4. QED
        BY <3>2, <3>3
    <2>10. QED
      BY <2>7, <2>8, <2>9
  <1>9. Goal
    BY <1>5, <1>7, <1>8, QueueStep
  <1>10. QED
    BY <1>9

-----------------------------------------------------------------------------
(* Replies *)

\* A request that the worker or the owner has yet to answer.
Pending(r) == r \in ToSet(work) \/ Owes(r)

Replied(r, ext) == Done(r) \in ToSet(ext) \/ Refused(r) \in ToSet(ext)

\* The step writes one reply to each request that stops being pending, and to no other.
Answering(ext) ==
  /\ ext \in Seq(Message) /\ control' = control \o ext /\ Sorted(ext, ControlOrder)
  /\ asked' = asked /\ answered' = answered
  /\ \A r \in Request :
       /\ Replied(r, ext) => Pending(r)
       /\ Pending(r)' <=> Pending(r) /\ ~Replied(r, ext)
       /\ ~(Done(r) \in ToSet(ext) /\ Refused(r) \in ToSet(ext))
       /\ ~(r \in ToSet(work') /\ Owes(r)')
  /\ \A m \in ToSet(ext) : phase = "exited" => m # SessionEnded /\ Late(m)
  /\ SessionEnded \in ToSet(ext) => phase' = "exited"

LEMMA PendingIsUnanswered ==
  ASSUME Typed, Asked, OnePlaceEach, ~closed, NEW r \in Request, Pending(r)
  PROVE  /\ r \in asked /\ r \notin answered
         /\ Done(r) \notin ToSet(control) /\ Refused(r) \notin ToSet(control)
         /\ ~(r \in ToSet(work) /\ Owes(r))
  <1>1. r \in asked
    BY DEF Pending, Asked
  <1>2. InOnePlace(r)
    BY <1>1 DEF OnePlaceEach
  <1>3. QED
    BY <1>1, <1>2 DEF InOnePlace, Pending

LEMMA AnsweringKeeps ==
  ASSUME Typed, Asked, Ended, OnePlaceEach, Sorted(control, ControlOrder), ~closed,
         NEW ext, Answering(ext)
  PROVE  /\ OnePlaceEach' /\ Sorted(control', ControlOrder)
         /\ \A m \in ToSet(control') : m.re \subseteq asked'
         /\ ToSet(control') = ToSet(control) \cup ToSet(ext)
  <1>1. control \in Seq(Message) /\ ext \in Seq(Message) /\ asked \subseteq Request
    BY DEF Typed, TypeOK, Answering
  <1>2. ToSet(control \o ext) = ToSet(control) \cup ToSet(ext)
    BY <1>1, Joined
  <1>3. ToSet(control') = ToSet(control) \cup ToSet(ext)
    BY <1>2 DEF Answering
  <1>4. ToSet(control) \subseteq Message /\ ToSet(ext) \subseteq Message
    BY <1>1, ElementsOf
  <1>5. ASSUME NEW r \in Request, Replied(r, ext)
        PROVE  r \in asked /\ Done(r) \notin ToSet(control) /\ Refused(r) \notin ToSet(control)
    BY <1>5, PendingIsUnanswered DEF Answering
  <1>6. ASSUME NEW m \in ToSet(ext)
        PROVE  m.re \subseteq asked /\ m \notin ToSet(control)
    <2>1. CASE m = SessionEnded
      <3>1. phase # "exited"
        BY <1>6, <2>1 DEF Answering
      <3>2. QED
        BY <2>1, <3>1, Messages DEF Ended
    <2>2. CASE m # SessionEnded
      <3>1. PICK r \in Request : m = Done(r) \/ m = Refused(r)
        BY <1>4, <2>2, Messages
      <3>2. Replied(r, ext)
        BY <1>6, <3>1 DEF Replied
      <3>3. m.re = {r}
        BY <3>1, Messages
      <3>4. QED
        BY <1>5, <3>1, <3>2, <3>3
    <2>3. QED
      BY <2>1, <2>2
  <1>7. \A m \in ToSet(control') : m.re \subseteq asked'
    BY <1>3, <1>6 DEF Asked, Answering
  <1>8. Sorted(control', ControlOrder)
    <2>1. ASSUME NEW x \in ToSet(control), NEW y \in ToSet(ext) PROVE <<x, y>> \in ControlOrder
      <3>1. x # y /\ x \in Message /\ y \in Message
        BY <1>4, <1>6
      <3>2. x = SessionEnded => Late(y)
        BY DEF Ended, Answering
      <3>3. QED
        BY <3>1, <3>2 DEF ControlOrder
    <2>2. Sorted(control \o ext, ControlOrder)
      BY <1>1, <2>1, JoinedSorted DEF Answering
    <2>3. QED
      BY <2>2 DEF Answering
  <1>9. ASSUME NEW r \in asked' PROVE InOnePlace(r)'
    <2>1. r \in asked /\ r \in Request
      BY <1>1, <1>9 DEF Answering
    <2>2. InOnePlace(r)
      BY <2>1 DEF OnePlaceEach
    <2>3. /\ Done(r) \in ToSet(control') <=> Done(r) \in ToSet(control) \/ Done(r) \in ToSet(ext)
          /\ Refused(r) \in ToSet(control') <=> Refused(r) \in ToSet(control) \/ Refused(r) \in ToSet(ext)
          /\ r \in answered' <=> r \in answered
      BY <1>3 DEF Answering
    <2>4. /\ Replied(r, ext) => Pending(r)
          /\ Pending(r)' <=> Pending(r) /\ ~Replied(r, ext)
          /\ ~(Done(r) \in ToSet(ext) /\ Refused(r) \in ToSet(ext))
          /\ ~(r \in ToSet(work') /\ Owes(r)')
      BY <2>1 DEF Answering
    <2>5. Pending(r) <=> r \in ToSet(work) \/ Owes(r)
      BY DEF Pending
    <2>6. Pending(r)' <=> r \in ToSet(work') \/ Owes(r)'
      BY DEF Pending
    <2>7. Done(r)' = Done(r) /\ Refused(r)' = Refused(r)
      BY DEF Done, Refused, Reply
    <2>8. Replied(r, ext) <=> Done(r) \in ToSet(ext) \/ Refused(r) \in ToSet(ext)
      BY DEF Replied
    <2>9. QED
      BY <2>2, <2>3, <2>4, <2>5, <2>6, <2>7, <2>8 DEF InOnePlace
  <1>10. QED
    BY <1>3, <1>7, <1>8, <1>9 DEF OnePlaceEach

\* Three ways to answer: nothing, one reply, or the errors of Retire.
LEMMA AnswersNone ==
  ASSUME Typed, control' = control, asked' = asked, answered' = answered,
         \A r \in Request : (Pending(r)' <=> Pending(r)) /\ ~(r \in ToSet(work') /\ Owes(r)')
  PROVE  \E ext : Answering(ext)
  <1>1. control \in Seq(Message)
    BY DEF Typed, TypeOK
  <1>2. PICK ext \in Seq(Message) : ext = <<>> /\ ToSet(ext) = {} /\ Sorted(ext, ControlOrder)
    BY Messages, One
  <1>3. control' = control \o ext
    BY <1>1, <1>2
  <1>4. \A r : ~Replied(r, ext)
    BY <1>2 DEF Replied
  <1>5. Answering(ext)
    BY <1>2, <1>3, <1>4 DEF Answering
  <1>6. QED
    BY <1>5

LEMMA AnswersOne ==
  ASSUME Typed, asked' = asked, answered' = answered, NEW q \in Request, NEW m, m = Done(q) \/ m = Refused(q),
         control' = Append(control, m), Pending(q),
         phase = "exited" /\ m = Done(q) => q.kind = "detach",
         \A r \in Request : (Pending(r)' <=> Pending(r) /\ r # q) /\ ~(r \in ToSet(work') /\ Owes(r)')
  PROVE  \E ext : Answering(ext)
  <1>1. control \in Seq(Message)
    BY DEF Typed, TypeOK
  <1>2. m \in Message
    BY Messages
  <1>3. PICK ext \in Seq(Message) : ext = <<m>> /\ ToSet(ext) = {m} /\ Sorted(ext, ControlOrder)
    BY <1>2, One
  <1>4. control' = control \o ext
    BY <1>1, <1>2, <1>3
  <1>5. \A r : Replied(r, ext) <=> r = q
    BY <1>3, Messages DEF Replied
  <1>6. \A r : ~(Done(r) \in ToSet(ext) /\ Refused(r) \in ToSet(ext))
    BY <1>3, Messages
  <1>7. m # SessionEnded /\ (phase = "exited" => Late(m))
    BY Messages DEF Late
  <1>8. Answering(ext)
    BY <1>3, <1>4, <1>5, <1>6, <1>7 DEF Answering
  <1>9. QED
    BY <1>8

LEMMA RetireOwes ==
  ASSUME Typed, Typed', Attached, NEW C \in SUBSET Channel, Kept(C), NEW r \in Request
  PROVE  /\ Owes(r)' <=> Owes(r) /\ r.channel \notin C
         /\ Owes(r) => r.channel \in attachments
  <1>1. r.channel \in Channel /\ ToSet(<<>>) = {}
    BY Requests DEF ToSet
  <1>2. resizes'[r.channel] = IF r.channel \in C THEN <<>> ELSE resizes[r.channel]
    BY <1>1 DEF Kept
  <1>3. Owes(r)' <=> Owes(r) /\ r.channel \notin C
    BY <1>1, <1>2 DEF Owes, Kept
  <1>4. Owes(r) => r.channel \in attachments
    BY <1>1 DEF Owes, Attached
  <1>5. QED
    BY <1>3, <1>4

LEMMA AnswersRetire ==
  ASSUME Typed, Typed', Asked, Attached, OnePlaceEach, ~closed, asked' = asked, answered' = answered,
         NEW C \in SUBSET Channel, NEW last, Final(last), NEW commands, Retire(C, last, commands), Kept(C),
         NEW D, ToSet(work') = ToSet(work) \ D, D \subseteq ToSet(work),
         \A r \in Request : Done(r) \in ToSet(last) <=> r \in D,
         \A r \in D : r.kind = "detach",
         SessionEnded \in ToSet(last) => phase # "exited" /\ phase' = "exited"
  PROVE  \E ext : Answering(ext)
  <1>1. last \in Seq(Message) /\ Sorted(last, ControlOrder) /\ ToSet(last) \cap Errors(C) = {}
    BY FinalIs
  <1>2. PICK ext \in Seq(Message) :
          /\ control' = control \o ext /\ Sorted(ext, ControlOrder)
          /\ ToSet(ext) = Errors(C) \cup ToSet(last)
    BY <1>1, RetireWrites
  <1>3. \A m \in ToSet(last) : m = SessionEnded \/ \E r \in Request : m = Done(r)
    <2>1. PICK m \in Message :
            /\ last = <<>> \/ last = <<m>>
            /\ m = SessionEnded \/ \E r \in Request : m = Done(r)
      BY Messages DEF Final
    <2>2. \A n \in ToSet(last) : n = m
      BY <2>1 DEF ToSet
    <2>3. QED
      BY <2>1, <2>2
  <1>4. ASSUME NEW r \in Request
        PROVE  /\ Refused(r) \in ToSet(ext) <=> Owes(r) /\ r.channel \in C
               /\ Done(r) \in ToSet(ext) <=> r \in D
               /\ Owes(r)' <=> Owes(r) /\ r.channel \notin C
    <2>1. Refused(r) \in Errors(C) <=> Owes(r) /\ r.channel \in C
      BY RetireOwes, Messages DEF Errors
    <2>2. Refused(r) \notin ToSet(last) /\ Done(r) \notin Errors(C)
      BY <1>3, Messages DEF Errors
    <2>3. QED
      BY <1>2, <2>1, <2>2, RetireOwes
  <1>5. ASSUME NEW r \in Request
        PROVE  /\ Replied(r, ext) => Pending(r)
               /\ Pending(r)' <=> Pending(r) /\ ~Replied(r, ext)
               /\ ~(Done(r) \in ToSet(ext) /\ Refused(r) \in ToSet(ext))
               /\ ~(r \in ToSet(work') /\ Owes(r)')
    <2>1. ~(r \in ToSet(work) /\ Owes(r))
      BY PendingIsUnanswered DEF Pending
    <2>2. Pending(r)' <=> r \in ToSet(work') \/ Owes(r)'
      BY DEF Pending
    <2>3. r \in ToSet(work') <=> r \in ToSet(work) /\ r \notin D
      OBVIOUS
    <2>4. Replied(r, ext) <=> r \in D \/ (Owes(r) /\ r.channel \in C)
      BY <1>4 DEF Replied
    <2>5. r \in D => r \in ToSet(work)
      OBVIOUS
    <2>6. QED
      BY <1>4, <2>1, <2>2, <2>3, <2>4, <2>5 DEF Pending
  <1>6. ASSUME NEW m \in ToSet(ext), phase = "exited" PROVE m # SessionEnded /\ Late(m)
    <2>1. CASE m \in Errors(C)
      BY <2>1, Messages DEF Errors, Late
    <2>2. CASE m \in ToSet(last)
      <3>1. PICK r \in Request : m = Done(r)
        BY <1>3, <1>6, <2>2
      <3>2. r.kind = "detach" /\ m.re = {r} /\ m # SessionEnded
        BY <2>2, <3>1, Messages
      <3>3. QED
        BY <3>2 DEF Late
    <2>3. QED
      BY <1>2, <1>6, <2>1, <2>2
  <1>7. SessionEnded \in ToSet(ext) => phase' = "exited"
    BY <1>2, Messages DEF Errors
  <1>8. Answering(ext)
    BY <1>2, <1>5, <1>6, <1>7 DEF Answering
  <1>9. QED
    BY <1>8

\* The worker's head is no longer pending once its request was run and answered.
LEMMA WorkHead ==
  ASSUME Typed, Sorted(work, WorkOrder), work # <<>>
  PROVE  /\ Head(work) \in Request /\ Head(work) \in ToSet(work)
         /\ ToSet(Tail(work)) = ToSet(work) \ {Head(work)}
  <1>1. work \in Seq(Request)
    BY DEF Typed, TypeOK
  <1>2. Head(work) \in Request /\ ToSet(work) = {Head(work)} \cup ToSet(Tail(work))
    BY <1>1, TailOf
  <1>3. \A x \in ToSet(Tail(work)) : <<Head(work), x>> \in WorkOrder
    BY <1>1, TailSorted
  <1>4. QED
    BY <1>2, <1>3 DEF WorkOrder

\* The worker answers its head, while what is owed does not change.
LEMMA AnswersHead ==
  ASSUME Typed, Asked, OnePlaceEach, ~closed, Sorted(work, WorkOrder), work # <<>>, work' = Tail(work),
         asked' = asked, answered' = answered, UNCHANGED <<waiting, resizes>>,
         control' = Append(control, Refused(Head(work)))
  PROVE  \E ext : Answering(ext)
  <1>1. PICK q \in Request : q = Head(work) /\ q \in ToSet(work) /\ ToSet(work') = ToSet(work) \ {q}
    BY WorkHead
  <1>2. Pending(q)
    BY <1>1 DEF Pending
  <1>3. \A r : Owes(r)' <=> Owes(r)
    BY DEF Owes
  <1>4. ASSUME NEW r \in Request
        PROVE  (Pending(r)' <=> Pending(r) /\ r # q) /\ ~(r \in ToSet(work') /\ Owes(r)')
    <2>1. ~(r \in ToSet(work) /\ Owes(r))
      BY PendingIsUnanswered DEF Pending
    <2>2. QED
      BY <1>1, <1>3, <2>1 DEF Pending
  <1>5. PICK m : m = Refused(q) /\ m # Done(q)
    BY Messages
  <1>6. control' = Append(control, m)
    BY <1>1, <1>5
  <1>7. QED
    BY <1>2, <1>4, <1>5, <1>6, AnswersOne

\* The worker hands its head over: it is owed by the owner.
LEMMA AnswersLater ==
  ASSUME Typed, Asked, OnePlaceEach, ~closed, Sorted(work, WorkOrder), work # <<>>, work' = Tail(work),
         asked' = asked, answered' = answered, control' = control,
         \A r \in Request : Owes(r)' <=> Owes(r) \/ r = Head(work)
  PROVE  \E ext : Answering(ext)
  <1>1. PICK q \in Request : q = Head(work) /\ q \in ToSet(work) /\ ToSet(work') = ToSet(work) \ {q}
    BY WorkHead
  <1>2. ASSUME NEW r \in Request
        PROVE  (Pending(r)' <=> Pending(r)) /\ ~(r \in ToSet(work') /\ Owes(r)')
    <2>1. ~(r \in ToSet(work) /\ Owes(r))
      BY PendingIsUnanswered DEF Pending
    <2>2. QED
      BY <1>1, <2>1 DEF Pending
  <1>3. QED
    BY <1>2, AnswersNone

\* The owner answers what it owes.
LEMMA AnswersOwed ==
  ASSUME Typed, Asked, OnePlaceEach, ~closed, phase # "exited", work' = work,
         asked' = asked, answered' = answered, NEW q \in Request, Owes(q),
         control' = Append(control, Done(q)), \A r \in Request : Owes(r)' <=> Owes(r) /\ r # q
  PROVE  \E ext : Answering(ext)
  <1>1. ASSUME NEW r \in Request
        PROVE  (Pending(r)' <=> Pending(r) /\ r # q) /\ ~(r \in ToSet(work') /\ Owes(r)')
    <2>1. ~(r \in ToSet(work) /\ Owes(r)) /\ ~(q \in ToSet(work) /\ Owes(q))
      BY PendingIsUnanswered DEF Pending
    <2>2. QED
      BY <2>1 DEF Pending
  <1>2. Pending(q)
    BY DEF Pending
  <1>3. PICK m : m = Done(q)
    OBVIOUS
  <1>4. control' = Append(control, m)
    BY <1>3
  <1>5. QED
    BY <1>1, <1>2, <1>3, <1>4, AnswersOne

LEMMA AnswersUnchanged ==
  ASSUME Typed, Asked, OnePlaceEach, ~closed, UNCHANGED <<asked, answered, work, control, waiting, resizes>>
  PROVE  \E ext : Answering(ext)
  <1>1. \A r : (Owes(r)' <=> Owes(r)) /\ (Pending(r)' <=> Pending(r))
    BY DEF Owes, Pending
  <1>2. \A r \in Request : ~(r \in ToSet(work') /\ Owes(r)')
    BY <1>1, PendingIsUnanswered DEF Pending
  <1>3. QED
    BY <1>1, <1>2, AnswersNone

\* Retire without a reply of the worker's.
LEMMA AnswersGone ==
  ASSUME Typed, Typed', Asked, Attached, OnePlaceEach, ~closed, asked' = asked, answered' = answered, work' = work,
         NEW C \in SUBSET Channel, NEW last, last = <<>> \/ last = <<SessionEnded>>,
         NEW commands \in Seq(Request), Retire(C, last, commands),
         (phase # "exited" /\ phase' = "exited") \/ last = <<>>
  PROVE  \E ext : Answering(ext)
  <1>1. Final(last) /\ Kept(C)
    BY RetireTypes DEF Final
  <1>2. \A m \in ToSet(last) : m = SessionEnded /\ phase # "exited" /\ phase' = "exited"
    BY DEF ToSet
  <1>3. \A r \in Request : Done(r) \in ToSet(last) <=> r \in {}
    BY <1>2, Messages
  <1>4. PICK D : D = {} /\ D \subseteq ToSet(work) /\ ToSet(work') = ToSet(work) \ D
    OBVIOUS
  <1>5. QED
    BY <1>1, <1>2, <1>3, <1>4, AnswersRetire

LEMMA Less == \A x, y : <<x, y>> \in LessThan => x \in Int /\ y \in Int /\ x < y /\ x # y
  <1> SUFFICES ASSUME NEW x, NEW y, <<x, y>> \in LessThan PROVE x \in Int /\ y \in Int /\ x < y /\ x # y
    OBVIOUS
  <1>1. PICK p \in Int \X Int : p = <<x, y>> /\ p[1] < p[2]
    BY DEF LessThan
  <1>2. QED
    BY <1>1

\* A step of an open connection that is not the reader's, the writer's or the closing one
\* answers the requests that stop being pending.
LEMMA StepAnswers ==
  ASSUME Typed, Typed', Asked, Orderly, Newer, Attached, OnePlaceEach, ~closed, [Next]_vars,
         ~Write, ~Close, \A r \in Request : ~Ask(r)
  PROVE  \E ext : Answering(ext)
  <1>0. Sorted(work, WorkOrder) /\ \A c \in Channel : Sorted(resizes[c], LessThan)
    BY DEF Orderly
  <1>1. CASE FindSession
    <2>1. CASE phase = "exited"
      BY <1>0, <1>1, <2>1, AnswersHead DEF FindSession, Running, Answer, Refused, appVars, attachmentVars
    <2>2. CASE phase # "exited"
      BY <1>1, <2>2, AnswersUnchanged DEF FindSession, appVars, attachmentVars
    <2>3. QED
      BY <2>1, <2>2
  <1>2. CASE AttachFound
    <2>1. work # <<>> /\ work' = Tail(work) /\ asked' = asked /\ answered' = answered
      BY <1>2 DEF AttachFound, Newer, appVars
    <2>2. CASE ~Receiving
      BY <1>0, <1>2, <2>1, <2>2, AnswersHead DEF AttachFound, Answer, Refused, attachmentVars
    <2>3. CASE Receiving
      <3>1. PICK q \in Request : q = Head(work) /\ q = Attach(q.channel)
        BY <1>0, <1>2, <2>1, WorkHead, Requests DEF AttachFound, Newer
      <3>2. waiting' = waiting \cup {q.channel} /\ resizes' = resizes /\ control' = control
        BY <1>2, <2>3, <3>1 DEF AttachFound
      <3>3. ASSUME NEW r \in Request PROVE Owes(r)' <=> Owes(r) \/ r = q
        <4>1. r.kind = "attach" /\ r.channel = q.channel <=> r = q
          BY <3>1, Requests
        <4>2. QED
          BY <3>2, <4>1 DEF Owes
      <3>4. QED
        BY <1>0, <2>1, <3>1, <3>2, <3>3, AnswersLater
    <2>4. QED
      BY <2>2, <2>3
  <1>3. CASE RunResize
    <2>1. work # <<>> /\ work' = Tail(work) /\ asked' = asked /\ answered' = answered
      BY <1>3 DEF RunResize, Running, appVars
    <2>2. PICK q \in Request : q = Head(work) /\ q.kind = "resize" /\ q = Resize(q.channel, q.nth)
      BY <1>0, <1>3, <2>1, WorkHead, Requests DEF RunResize, Running
    <2>3. CASE ~(q.channel \in attachments /\ Receiving)
      BY <1>0, <1>3, <2>1, <2>2, <2>3, AnswersHead DEF RunResize, Answer, Refused
    <2>4. CASE q.channel \in attachments /\ Receiving
      <3>1. /\ resizes' = [resizes EXCEPT ![q.channel] = Append(@, q.nth)]
            /\ waiting' = waiting /\ control' = control
        BY <1>3, <2>2, <2>4 DEF RunResize
      <3>2. q.channel \in Channel /\ q.nth \in Int /\ \A c \in Channel : resizes[c] \in Seq(Int)
        BY Requests DEF Typed
      <3>3. /\ resizes'[q.channel] = Append(resizes[q.channel], q.nth)
            /\ \A c \in Channel : c # q.channel => resizes'[c] = resizes[c]
        BY <3>1, <3>2 DEF Typed
      <3>4. ToSet(resizes'[q.channel]) = ToSet(resizes[q.channel]) \cup {q.nth}
        BY <3>2, <3>3, Appended
      <3>5. ASSUME NEW r \in Request PROVE Owes(r)' <=> Owes(r) \/ r = q
        <4>1. r.channel \in Channel /\ (r.kind = "resize" /\ r.channel = q.channel /\ r.nth = q.nth <=> r = q)
          BY <2>2, Requests
        <4>2. CASE r.channel = q.channel
          BY <3>1, <3>4, <4>1, <4>2 DEF Owes
        <4>3. CASE r.channel # q.channel
          BY <3>1, <3>3, <4>1, <4>3 DEF Owes
        <4>4. QED
          BY <4>2, <4>3
      <3>6. QED
        BY <1>0, <2>1, <2>2, <3>1, <3>5, AnswersLater
    <2>5. QED
      BY <2>3, <2>4
  <1>4. CASE RunDetach
    <2>1. work # <<>> /\ work' = Tail(work) /\ asked' = asked /\ answered' = answered
      BY <1>4 DEF RunDetach, Running, appVars
    <2>2. PICK q \in Request :
            /\ q = Head(work) /\ q.kind = "detach" /\ q \in ToSet(work) /\ ToSet(work') = ToSet(work) \ {q}
            /\ q.channel \in Channel
      BY <1>0, <1>4, <2>1, WorkHead, Requests DEF RunDetach, Running
    <2>3. CASE q.channel \notin attachments
      BY <1>0, <1>4, <2>1, <2>2, <2>3, AnswersHead DEF RunDetach, Answer, Refused, attachmentVars
    <2>4. CASE q.channel \in attachments
      <3>1. PICK C \in SUBSET Channel : C = {q.channel}
        BY <2>2
      <3>2. PICK last : last = <<Done(q)>>
        OBVIOUS
      <3>3. C = {q.channel} /\ last = <<Done(q)>> /\ ToSet(last) = {Done(q)}
        <4>1. ToSet(<<Done(q)>>) = {Done(q)}
          BY Messages, One
        <4>2. QED
          BY <3>1, <3>2, <4>1
      <3>4. Retire(C, last, queue) /\ Final(last)
        BY <1>4, <2>2, <2>4, <3>3 DEF RunDetach, Done, Final
      <3>5. Kept(C)
        <4>1. queue \in Seq(Request)
          BY DEF Typed, TypeOK
        <4>2. QED
          BY <3>4, <4>1, RetireTypes
      <3>6. \A r \in Request : Done(r) \in ToSet(last) <=> r \in {q}
        BY <3>3, Messages
      <3>7. SessionEnded \notin ToSet(last)
        BY <3>3, Messages
      <3>8. PICK D : D = {q} /\ D \subseteq ToSet(work) /\ ToSet(work') = ToSet(work) \ D
        BY <2>2
      <3>9. QED
        BY <2>1, <2>2, <3>4, <3>5, <3>6, <3>7, <3>8, AnswersRetire
    <2>5. QED
      BY <2>3, <2>4
  <1>5. CASE PaneClosed \/ \E c \in Channel : Tell(c)
    <2>1. PICK C \in SUBSET Channel : Retire(C, <<>>, queue)
      <3>1. attachments \in SUBSET Channel
        BY DEF Typed, TypeOK
      <3>2. \A c \in Channel : {c} \in SUBSET Channel
        OBVIOUS
      <3>3. QED
        BY <1>5, <3>1, <3>2 DEF PaneClosed, Tell
    <2>2. queue \in Seq(Request)
      BY DEF Typed, TypeOK
    <2>3. PICK last : last = <<>>
      OBVIOUS
    <2>4. Retire(C, last, queue)
      BY <2>1, <2>3
    <2>5. work' = work /\ asked' = asked /\ answered' = answered
      BY <1>5 DEF PaneClosed, Tell, appVars
    <2>6. QED
      BY <2>2, <2>3, <2>4, <2>5, AnswersGone
  <1>6. CASE Exit
    <2>1. Retire(attachments, <<SessionEnded>>, queue) /\ phase # "exited" /\ phase' = "exited"
      BY <1>6 DEF Exit
    <2>2. attachments \in SUBSET Channel /\ queue \in Seq(Request)
      BY DEF Typed, TypeOK
    <2>3. PICK last : last = <<SessionEnded>>
      OBVIOUS
    <2>4. Retire(attachments, last, queue)
      BY <2>1, <2>3
    <2>5. work' = work /\ asked' = asked /\ answered' = answered
      BY <1>6 DEF Exit, appVars
    <2>6. QED
      BY <2>1, <2>2, <2>3, <2>4, <2>5, AnswersGone
  <1>7. CASE Fault \/ Discard
    <2>1. Tail(queue) \in Seq(Request) /\ \E C \in SUBSET Channel : Retire(C, <<>>, Tail(queue))
      BY <1>7, DropsHead DEF Fault, Discard
    <2>2. PICK C \in SUBSET Channel : Retire(C, <<>>, Tail(queue))
      BY <2>1
    <2>3. PICK last : last = <<>>
      OBVIOUS
    <2>4. Retire(C, last, Tail(queue))
      BY <2>2, <2>3
    <2>5. work' = work /\ asked' = asked /\ answered' = answered
      BY <1>7 DEF Fault, Discard, appVars
    <2>6. QED
      BY <2>1, <2>3, <2>4, <2>5, AnswersGone
  <1>8. CASE ServeAttach \/ FaultAfterSnapshot
    <2>1. PICK c \in Channel : c = Head(queue).channel
      BY <1>8, HeadAndTail, Requests DEF ServeAttach, FaultAfterSnapshot, Serving
    <2>2. work' = work /\ asked' = asked /\ answered' = answered /\ resizes' = resizes /\ phase # "exited"
      BY <1>8 DEF ServeAttach, FaultAfterSnapshot, Serving, appVars
    <2>3. CASE c \in waiting
      <3>1. PICK q \in Request : q = Attach(c)
        BY Requests
      <3>2. Owes(q)
        BY <2>3, <3>1, Requests DEF Owes
      <3>3. waiting' = waiting \ {c} /\ control' = Append(control, Done(q))
        BY <1>8, <2>1, <2>3, <3>1 DEF ServeAttach, FaultAfterSnapshot, Done
      <3>4. ASSUME NEW r \in Request PROVE Owes(r)' <=> Owes(r) /\ r # q
        <4>1. r.kind = "attach" /\ r.channel = c <=> r = q
          BY <3>1, Requests
        <4>2. QED
          BY <2>2, <3>3, <4>1 DEF Owes
      <3>5. QED
        BY <2>2, <3>2, <3>3, <3>4, AnswersOwed
    <2>4. CASE c \notin waiting
      <3>1. waiting' = waiting /\ control' = control
        BY <1>8, <2>1, <2>4 DEF ServeAttach, FaultAfterSnapshot
      <3>2. QED
        BY <2>2, <3>1, AnswersUnchanged
    <2>5. QED
      BY <2>3, <2>4
  <1>9. CASE ServeResize
    <2>1. PICK c \in Channel : c = Head(queue).channel
      BY <1>9, HeadAndTail, Requests DEF ServeResize, Serving
    <2>2. work' = work /\ asked' = asked /\ answered' = answered /\ waiting' = waiting /\ phase # "exited"
      BY <1>9 DEF ServeResize, Serving, appVars
    <2>3. CASE c \in Broadcast /\ resizes[c] # <<>>
      <3>1. PICK n \in 1 .. MaxResizes[c] : n = Head(resizes[c])
        BY <2>3, HeadAndTail
      <3>2. PICK q \in Request : q = Resize(c, n) /\ q.kind = "resize" /\ q.channel = c /\ q.nth = n
        BY Requests
      <3>3. resizes' = [resizes EXCEPT ![c] = Tail(@)] /\ control' = Append(control, Done(q))
        BY <1>9, <2>1, <2>3, <3>1, <3>2 DEF ServeResize, Answer, Done
      <3>4. resizes'[c] = Tail(resizes[c]) /\ \A d \in Channel : d # c => resizes'[d] = resizes[d]
        BY <3>3 DEF Typed
      <3>5. n \in ToSet(resizes[c]) /\ ToSet(Tail(resizes[c])) = ToSet(resizes[c]) \ {n}
        <4>1. resizes[c] \in Seq(Int)
          BY DEF Typed
        <4>2. ToSet(resizes[c]) = {n} \cup ToSet(Tail(resizes[c]))
          BY <2>3, <3>1, <4>1, TailOf
        <4>3. \A x \in ToSet(Tail(resizes[c])) : <<n, x>> \in LessThan
          BY <1>0, <2>3, <3>1, <4>1, TailSorted
        <4>4. \A x \in ToSet(Tail(resizes[c])) : x # n
          BY <4>3, Less
        <4>5. QED
          BY <4>2, <4>4
      <3>6. Owes(q)
        BY <3>2, <3>5 DEF Owes
      <3>7. ASSUME NEW r \in Request PROVE Owes(r)' <=> Owes(r) /\ r # q
        <4>1. r.channel \in Channel /\ (r.kind = "resize" /\ r.channel = c /\ r.nth = n <=> r = q)
          BY <3>2, Requests
        <4>2. CASE r.channel = c
          BY <2>2, <3>4, <3>5, <4>1, <4>2 DEF Owes
        <4>3. CASE r.channel # c
          BY <2>2, <3>2, <3>4, <4>1, <4>3 DEF Owes
        <4>4. QED
          BY <4>2, <4>3
      <3>8. QED
        BY <2>2, <3>3, <3>6, <3>7, AnswersOwed
    <2>4. CASE ~(c \in Broadcast /\ resizes[c] # <<>>)
      <3>1. resizes' = resizes /\ control' = control
        BY <1>9, <2>1, <2>4 DEF ServeResize
      <3>2. QED
        BY <2>2, <3>1, AnswersUnchanged
    <2>5. QED
      BY <2>3, <2>4
  <1>10. CASE Tick \/ ServeDetach \/ End \/ Drained \/ DropReceiver \/ UNCHANGED vars
    BY <1>10, AnswersUnchanged DEF Tick, ServeDetach, End, Drained, DropReceiver, vars, appVars, attachmentVars
  <1>11. ~Skip
    BY DEF Skip
  <1>12. QED
    BY <1>1, <1>2, <1>3, <1>4, <1>5, <1>6, <1>7, <1>8, <1>9, <1>10, <1>11 DEF Next, Worker, Owner

LEMMA AskKeeps ==
  ASSUME Typed, Asked, OnePlaceEach, Sorted(control, ControlOrder), NEW r \in Request, Ask(r)
  PROVE  /\ OnePlaceEach' /\ Sorted(control', ControlOrder)
         /\ \A m \in ToSet(control') : m.re \subseteq asked'
         /\ SessionEnded \in ToSet(control') => SessionEnded \in ToSet(control)
  <1>1. /\ ~closed /\ r \notin asked /\ asked' = asked \cup {r} /\ answered' = answered
        /\ waiting' = waiting /\ resizes' = resizes
        /\ \/ work' = Append(work, r) /\ control' = control
           \/ control' = Append(control, Refused(r)) /\ work' = work
    BY DEF Ask, MayAsk, Answer, Refused, attachmentVars
  <1>2. work \in Seq(Request) /\ control \in Seq(Message) /\ asked \subseteq Request /\ Refused(r) \in Message
    BY Messages DEF Typed, TypeOK
  <1>3. ToSet(Append(work, r)) = ToSet(work) \cup {r}
    BY <1>2, Appended
  <1>4. ToSet(Append(control, Refused(r))) = ToSet(control) \cup {Refused(r)}
    BY <1>2, Appended
  <1>5. /\ r \notin ToSet(work) /\ ~Owes(r) /\ r \notin answered
        /\ Done(r) \notin ToSet(control) /\ Refused(r) \notin ToSet(control)
    <2>1. Done(r).re = {r} /\ Refused(r).re = {r}
      BY Messages
    <2>2. Done(r) \notin ToSet(control) /\ Refused(r) \notin ToSet(control)
      BY <1>1, <2>1 DEF Asked
    <2>3. QED
      BY <1>1, <2>2 DEF Asked
  <1>6. Sorted(control', ControlOrder)
    <2>1. ASSUME NEW x \in ToSet(control) PROVE <<x, Refused(r)>> \in ControlOrder
      <3>1. x \in Message /\ x # Refused(r) /\ Late(Refused(r))
        <4>1. ToSet(control) \subseteq Message
          BY <1>2, ElementsOf
        <4>2. Late(Refused(r))
          BY Messages DEF Late
        <4>3. QED
          BY <1>5, <4>1, <4>2
      <3>2. QED
        BY <1>2, <3>1 DEF ControlOrder
    <2>2. Sorted(Append(control, Refused(r)), ControlOrder)
      BY <1>2, <2>1, AppendedSorted
    <2>3. QED
      BY <1>1, <2>2
  <1>7. \A m \in ToSet(control') : m.re \subseteq asked'
    BY <1>1, <1>4, Messages DEF Asked
  <1>8. ASSUME NEW q \in asked' PROVE InOnePlace(q)'
    <2>1. /\ Owes(q)' <=> Owes(q)
          /\ Done(q)' = Done(q) /\ Refused(q)' = Refused(q)
      BY <1>1 DEF Owes, Done, Refused, Reply
    <2>2. CASE q = r
      BY <1>1, <1>3, <1>4, <1>5, <2>1, <2>2, Messages DEF InOnePlace
    <2>3. CASE q # r
      <3>1. InOnePlace(q)
        BY <1>1, <2>3 DEF OnePlaceEach
      <3>2. q \in ToSet(work') <=> q \in ToSet(work)
        BY <1>1, <1>3, <2>3
      <3>3. /\ Done(q) \in ToSet(control') <=> Done(q) \in ToSet(control)
            /\ Refused(q) \in ToSet(control') <=> Refused(q) \in ToSet(control)
        <4>1. Done(q) # Refused(r) /\ Refused(q) # Refused(r)
          BY <2>3, Messages
        <4>2. QED
          BY <1>1, <1>4, <4>1
      <3>4. QED
        BY <1>1, <2>1, <3>1, <3>2, <3>3 DEF InOnePlace
    <2>4. QED
      BY <2>2, <2>3
  <1>9. SessionEnded \in ToSet(control') => SessionEnded \in ToSet(control)
    BY <1>1, <1>4, Messages
  <1>10. QED
    BY <1>6, <1>7, <1>8, <1>9 DEF OnePlaceEach

\* What is written was at the head only.
LEMMA Written ==
  ASSUME Typed, Sorted(control, ControlOrder), Write
  PROVE  /\ Head(control) \in Message /\ Head(control) \in ToSet(control)
         /\ ToSet(control') = ToSet(control) \ {Head(control)} /\ Sorted(control', ControlOrder)
         /\ answered' = answered \cup Head(control).re
  <1>1. control \in Seq(Message) /\ control # <<>> /\ control' = Tail(control)
    BY DEF Write, Typed, TypeOK
  <1>2. Head(control) \in Message /\ ToSet(control) = {Head(control)} \cup ToSet(Tail(control))
    BY <1>1, TailOf
  <1>3. Sorted(Tail(control), ControlOrder) /\ \A x \in ToSet(Tail(control)) : <<Head(control), x>> \in ControlOrder
    BY <1>1, TailSorted
  <1>4. \A x \in ToSet(Tail(control)) : x # Head(control)
    BY <1>3 DEF ControlOrder
  <1>5. QED
    BY <1>1, <1>2, <1>3, <1>4 DEF Write

LEMMA WriteKeeps ==
  ASSUME Typed, Asked, OnePlaceEach, Sorted(control, ControlOrder), Write
  PROVE  /\ OnePlaceEach' /\ Sorted(control', ControlOrder)
         /\ \A m \in ToSet(control') : m.re \subseteq asked'
         /\ SessionEnded \in ToSet(control') => SessionEnded \in ToSet(control)
  <1>1. PICK m \in Message :
          /\ m \in ToSet(control) /\ ToSet(control') = ToSet(control) \ {m} /\ Sorted(control', ControlOrder)
          /\ answered' = answered \cup m.re
    BY Written
  <1>2. asked' = asked /\ work' = work /\ waiting' = waiting /\ resizes' = resizes /\ closed' = closed
    BY DEF Write, attachmentVars
  <1>3. ASSUME ~closed, NEW q \in asked PROVE InOnePlace(q)'
    <2>1. InOnePlace(q) /\ q \in Request
      BY <1>3 DEF OnePlaceEach, Typed, TypeOK
    <2>2. /\ Owes(q)' <=> Owes(q)
          /\ Done(q)' = Done(q) /\ Refused(q)' = Refused(q)
      BY <1>2 DEF Owes, Done, Refused, Reply
    <2>3. q \in answered' <=> q \in answered \/ m = Done(q) \/ m = Refused(q)
      <3>1. q \in m.re <=> m = Done(q) \/ m = Refused(q)
        BY Messages
      <3>2. QED
        BY <1>1, <3>1
    <2>4. Done(q) # Refused(q)
      BY Messages
    <2>5. QED
      BY <1>1, <1>2, <2>1, <2>2, <2>3, <2>4 DEF InOnePlace
  <1>4. QED
    BY <1>1, <1>2, <1>3 DEF OnePlaceEach, Asked

LEMMA NothingErrs ==
  ASSUME Typed, attachments = {}, NEW C \in SUBSET Channel, NEW commands, Retire(C, <<>>, commands)
  PROVE  control' = control
  <1>1. PICK last : last = <<>>
    OBVIOUS
  <1>2. Final(last) /\ Retire(C, last, commands) /\ ToSet(last) = {}
    BY <1>1 DEF Final, ToSet
  <1>3. PICK ext \in Seq(Message) : control' = control \o ext /\ ToSet(ext) = Errors(C) \cup ToSet(last)
    BY <1>2, FinalIs, RetireWrites
  <1>4. ToSet(ext) = {}
    BY <1>2, <1>3 DEF Errors
  <1>5. ext = <<>>
    <2>1. ext # <<>> => Head(ext) \in ToSet(ext)
      BY TailOf
    <2>2. QED
      BY <1>4, <2>1
  <1>6. QED
    BY <1>3, <1>5 DEF Typed, TypeOK

\* A closed connection answers nothing.
LEMMA ClosedControl ==
  ASSUME Typed, Attached, closed, [Next]_vars, ~Write
  PROVE  control' = control /\ asked' = asked /\ answered' = answered /\ closed'
  <1>1. attachments = {} /\ waiting = {}
    BY DEF Attached
  <1>2. CASE Skip \/ AttachFound \/ Tick \/ ServeDetach \/ End \/ Drained \/ DropReceiver \/ Exit \/ UNCHANGED vars
    BY <1>2 DEF Skip, AttachFound, Tick, ServeDetach, End, Drained, DropReceiver, Exit, vars, appVars
  <1>3. CASE ServeAttach \/ ServeResize \/ FaultAfterSnapshot
    BY <1>1, <1>3 DEF ServeAttach, ServeResize, FaultAfterSnapshot, Broadcast, appVars
  <1>4. CASE Fault \/ Discard
    <2>1. \E C \in SUBSET Channel : Retire(C, <<>>, Tail(queue))
      BY <1>4, DropsHead DEF Fault, Discard
    <2>2. QED
      BY <1>1, <1>4, <2>1, NothingErrs DEF Fault, Discard, appVars
  <1>5. CASE \E c \in Channel : Tell(c)
    <2>1. PICK C \in SUBSET Channel : Retire(C, <<>>, queue)
      <3>1. \A c \in Channel : {c} \in SUBSET Channel
        OBVIOUS
      <3>2. QED
        BY <1>5, <3>1 DEF Tell
    <2>2. QED
      BY <1>1, <1>5, <2>1, NothingErrs DEF Tell, appVars
  <1>6. ~(Close \/ PaneClosed \/ FindSession \/ RunResize \/ RunDetach \/ \E r \in Request : Ask(r))
    BY DEF Close, PaneClosed, FindSession, RunResize, RunDetach, Ask
  <1>7. QED
    BY <1>2, <1>3, <1>4, <1>5, <1>6 DEF Next, Worker, Owner

\* Every request stays in one place, and the control messages in order.
LEMMA ControlNext ==
  ASSUME Typed, Typed', Asked, Orderly, Newer, Attached, OnePlaceEach, Ended, [Next]_vars
  PROVE  /\ OnePlaceEach' /\ Sorted(control', ControlOrder)
         /\ \A m \in ToSet(control') : m.re \subseteq asked'
         /\ SessionEnded \in ToSet(control') => SessionEnded \in ToSet(control) \/ phase' = "exited"
  <1>1. Sorted(control, ControlOrder)
    BY DEF Orderly
  <1>2. CASE \E r \in Request : Ask(r)
    BY <1>1, <1>2, AskKeeps
  <1>3. CASE Write
    BY <1>1, <1>3, WriteKeeps
  <1>4. CASE Close
    <2>1. (control' = control \/ control' = <<>>) /\ asked' = asked /\ closed'
      BY <1>4 DEF Close, appVars
    <2>2. CASE control' = control
      BY <1>1, <2>1, <2>2 DEF OnePlaceEach, Asked
    <2>3. CASE control' = <<>>
      <3>1. ToSet(control') = {} /\ Sorted(control', ControlOrder)
        BY <2>3 DEF ToSet, Sorted
      <3>2. QED
        BY <2>1, <3>1 DEF OnePlaceEach
    <2>4. QED
      BY <2>1, <2>2, <2>3
  <1>5. CASE closed /\ ~Write
    <2>1. control' = control /\ asked' = asked /\ closed'
      BY <1>5, ClosedControl
    <2>2. QED
      BY <1>1, <2>1 DEF OnePlaceEach, Asked
  <1>6. CASE ~closed /\ ~Write /\ ~Close /\ \A r \in Request : ~Ask(r)
    <2>1. PICK ext : Answering(ext)
      BY <1>6, StepAnswers
    <2>2. SessionEnded \in ToSet(ext) => phase' = "exited"
      BY <2>1 DEF Answering
    <2>3. QED
      BY <1>1, <1>6, <2>1, <2>2, AnsweringKeeps
  <1>7. QED
    BY <1>2, <1>3, <1>4, <1>5, <1>6

-----------------------------------------------------------------------------
(* Attachments *)

\* A channel gets its first resize after its Attach was answered.
LEMMA WaitingHasNoResizes ==
  ASSUME Typed, Asked, Attached, OnePlaceEach, NEW c \in waiting
  PROVE  resizes[c] = <<>>
  <1>1. c \in Channel /\ ~closed
    BY DEF Attached, Typed, TypeOK
  <1>2. PICK q \in Request : q = Attach(c) /\ q.kind = "attach" /\ q.channel = c
    BY <1>1, Requests
  <1>3. Pending(q)
    BY <1>2 DEF Pending, Owes
  <1>4. q \notin answered
    BY <1>1, <1>3, PendingIsUnanswered
  <1>5. ASSUME resizes[c] # <<>> PROVE FALSE
    <2>1. PICK n \in 1 .. MaxResizes[c] : n \in ToSet(resizes[c])
      <3>1. resizes[c] \in Seq(1 .. MaxResizes[c])
        BY <1>1 DEF Typed, TypeOK
      <3>2. Head(resizes[c]) \in 1 .. MaxResizes[c] /\ Head(resizes[c]) \in ToSet(resizes[c])
        BY <1>5, <3>1, TailOf
      <3>3. QED
        BY <3>2
    <2>2. PICK r \in Request : r = Resize(c, n) /\ r.kind = "resize" /\ r.channel = c /\ r.nth = n
      BY <1>1, Requests
    <2>3. r \in asked
      BY <2>1, <2>2 DEF Asked, Owes
    <2>4. Attach(c) \in answered
      BY <2>2, <2>3 DEF Asked
    <2>5. QED
      BY <1>2, <1>4, <2>4
  <1>6. QED
    BY <1>5

LEMMA AttachedRetire ==
  ASSUME Typed, Typed', Attached, NEW C \in SUBSET Channel, Kept(C), closed' = closed
  PROVE  Attached'
  <1>1. waiting' \subseteq attachments' /\ (closed' => attachments' = {})
    BY DEF Kept, Attached
  <1>2. \A c \in Channel \ attachments' : resizes'[c] = <<>>
    BY DEF Kept, Attached
  <1>3. QED
    BY <1>1, <1>2 DEF Attached

LEMMA AttachedNext ==
  ASSUME Typed, Typed', Asked, Newer, Attached, OnePlaceEach, [Next]_vars
  PROVE  Attached'
  <1>1. CASE /\ UNCHANGED <<attachments, closed>> /\ waiting' \subseteq waiting
             /\ \A c \in Channel : c \notin attachments => resizes'[c] = resizes[c]
    BY <1>1 DEF Attached
  <1>2. CASE (\E r \in Request : Ask(r)) \/ Write \/ Skip \/ FindSession \/ Tick \/ ServeAttach \/ ServeDetach \/ End
             \/ Drained \/ DropReceiver \/ (Exit /\ closed) \/ UNCHANGED vars
    BY <1>1, <1>2 DEF Ask, Write, Skip, FindSession, Tick, ServeAttach, ServeDetach, End, Drained, DropReceiver, Exit,
                      vars, attachmentVars
  <1>3. CASE Close
    BY <1>3 DEF Close, Attached
  <1>4. CASE AttachFound
    <2>1. work # <<>> /\ Head(work) \in Request /\ Head(work).channel \in Channel
      BY <1>4, HeadAndTail, Requests DEF AttachFound, Newer
    <2>2. CASE closed \/ ~Receiving
      BY <1>1, <1>4, <2>2 DEF AttachFound, attachmentVars
    <2>3. CASE ~closed /\ Receiving
      BY <1>4, <2>1, <2>3 DEF AttachFound, Attached
    <2>4. QED
      BY <2>2, <2>3
  <1>5. CASE RunResize
    <2>1. Head(work).channel \in attachments \/ resizes' = resizes
      BY <1>5 DEF RunResize
    <2>2. \A c \in Channel : c \notin attachments => resizes'[c] = resizes[c]
      BY <1>5, <2>1 DEF RunResize, Typed
    <2>3. QED
      BY <1>1, <1>5, <2>2 DEF RunResize
  <1>6. CASE RunDetach
    <2>1. PICK r \in Request : r = Head(work) /\ r.channel \in Channel
      BY <1>6, HeadAndTail, Requests DEF RunDetach, Running
    <2>2. CASE r.channel \in attachments
      <3>1. Kept({r.channel}) /\ {r.channel} \in SUBSET Channel
        BY <1>6, <2>1, <2>2 DEF RunDetach, Retire, Kept
      <3>2. QED
        BY <1>6, <3>1, AttachedRetire DEF RunDetach
    <2>3. CASE r.channel \notin attachments
      BY <1>1, <1>6, <2>1, <2>3 DEF RunDetach, attachmentVars
    <2>4. QED
      BY <2>2, <2>3
  <1>7. CASE PaneClosed \/ (Exit /\ ~closed)
    <2>1. Kept(attachments) /\ attachments \in SUBSET Channel /\ closed' = closed
      BY <1>7 DEF PaneClosed, Exit, Retire, Kept, Typed, TypeOK
    <2>2. QED
      BY <2>1, AttachedRetire
  <1>8. CASE \E c \in Channel : Tell(c)
    <2>1. PICK c \in Channel : Tell(c)
      BY <1>8
    <2>2. Kept({c}) /\ {c} \in SUBSET Channel /\ closed' = closed
      BY <2>1 DEF Tell, Retire, Kept
    <2>3. QED
      BY <2>2, AttachedRetire
  <1>9. CASE Fault \/ Discard
    <2>1. PICK C \in SUBSET Channel : Retire(C, <<>>, Tail(queue))
      BY <1>9, DropsHead DEF Fault, Discard
    <2>2. Kept(C) /\ closed' = closed
      BY <1>9, <2>1 DEF Fault, Discard, Retire, Kept
    <2>3. QED
      BY <2>2, AttachedRetire
  <1>10. CASE ServeResize
    <2>1. \A c \in Channel : c \notin attachments => resizes'[c] = resizes[c]
      BY <1>10 DEF ServeResize, Broadcast, Typed
    <2>2. QED
      BY <1>1, <1>10, <2>1 DEF ServeResize
  <1>11. CASE FaultAfterSnapshot
    <2>1. PICK c \in waiting : /\ attachments' = attachments \ {c} /\ waiting' = waiting \ {c}
                               /\ resizes' = resizes /\ closed' = closed
      BY <1>11 DEF FaultAfterSnapshot
    <2>2. resizes[c] = <<>>
      BY WaitingHasNoResizes
    <2>3. QED
      BY <2>1, <2>2 DEF Attached
  <1>12. QED
    BY <1>2, <1>3, <1>4, <1>5, <1>6, <1>7, <1>8, <1>9, <1>10, <1>11 DEF Next, Worker, Owner

\* Only a handed over Attach adds an attachment, and only its command adds it to the owner's.
LEMMA AttachmentsStep ==
  ASSUME Typed, Newer, [Next]_vars
  PROVE  /\ \/ attachments' \subseteq attachments
            \/ Hands("attach") /\ attachments' = attachments \cup {Head(work).channel} /\ owned' = owned
         /\ \/ owned' \subseteq owned
            \/ queue # <<>> /\ owned' \subseteq owned \cup {Head(queue).channel}
  <1>1. CASE (\E r \in Request : Ask(r)) \/ Write \/ Skip \/ FindSession \/ Tick \/ ServeAttach \/ ServeDetach \/ End
             \/ Drained \/ DropReceiver \/ ServeResize \/ RunResize \/ UNCHANGED vars
    BY <1>1 DEF Ask, Write, Skip, FindSession, Tick, ServeAttach, ServeDetach, End, Drained, DropReceiver, ServeResize,
                RunResize, vars, attachmentVars, sessionVars, Broadcast, Serving
  <1>2. CASE Close \/ PaneClosed \/ RunDetach \/ Exit \/ FaultAfterSnapshot \/ \E c \in Channel : Tell(c)
    BY <1>2 DEF Close, PaneClosed, RunDetach, Exit, FaultAfterSnapshot, Tell, Retire, attachmentVars
  <1>3. CASE Fault \/ Discard
    BY <1>3 DEF Fault, Discard, DropCommand, Retire
  <1>4. CASE AttachFound
    BY <1>4 DEF AttachFound, Hands, Newer, Send, attachmentVars, appVars
  <1>5. QED
    BY <1>1, <1>2, <1>3, <1>4 DEF Next, Worker, Owner

LEMMA EarlyBefore ==
  ASSUME Typed, Asked, Newer, Orderly, [Next]_vars, NEW c \in Channel, Early(c)'
  PROVE  Early(c)
  <1>1. \A r \in ToSet(work') : r \in ToSet(work) \/ Ask(r)
    BY WorkNext DEF Orderly
  <1>2. asked \subseteq asked'
    BY WorkStep DEF Ask
  <1>3. Attach(c)' = Attach(c)
    BY DEF Attach
  <1>4. Ask(Attach(c)) => Attach(c) \notin asked
    BY DEF Ask, MayAsk
  <1>5. QED
    BY <1>1, <1>2, <1>3, <1>4 DEF Early

LEMMA AttachedOnceNext ==
  ASSUME Typed, Typed', Asked, Orderly, Newer, Attached, AttachedOnce, [Next]_vars
  PROVE  AttachedOnce'
  <1>0. /\ work \in Seq(Request) /\ queue \in Seq(Request) /\ Sorted(work, WorkOrder)
        /\ attachments \subseteq Channel /\ owned \subseteq Channel
    BY DEF Typed, TypeOK, Orderly
  \* What an Attach handed over leaves behind.
  <1>1. ASSUME NEW kind, Hands(kind)
        PROVE  /\ Head(work) \in asked' /\ Head(work) \notin ToSet(work') /\ Head(work) \in ToSet(work)
               /\ Head(work) \in Request /\ ToSet(queue') = ToSet(queue) \cup {Head(work)}
    <2>1. Head(work) \in ToSet(work) /\ Head(work) \in Request /\ ToSet(work') = ToSet(work) \ {Head(work)}
      BY <1>0, <1>1, WorkHead DEF Hands
    <2>2. asked' = asked /\ queue' = queue \o <<Head(work)>>
      BY <1>1 DEF Hands
    <2>3. ToSet(queue \o <<Head(work)>>) = ToSet(queue) \cup {Head(work)}
      <3>1. PICK b \in Seq(Request) : b = <<Head(work)>> /\ ToSet(b) = {Head(work)}
        BY <2>1, One
      <3>2. ToSet(queue \o b) = ToSet(queue) \cup ToSet(b)
        BY <1>0, Joined
      <3>3. QED
        BY <3>1, <3>2
    <2>4. QED
      BY <2>1, <2>2, <2>3 DEF Asked
  <1>2. ASSUME NEW a, NEW b, Shrinks(a, b)
        PROVE  /\ ToSet(queue') \subseteq ToSet(queue) \cup ToSet(b)
               /\ \A r \in ToSet(b) : \E d \in attachments \ attachments' : r = Detach(d)
    <2>1. ToSet(queue') \subseteq ToSet(queue) \cup ToSet(b)
      BY <1>2, Shrunk
    <2>2. QED
      BY <1>2, <2>1 DEF Shrinks
  <1>3. ASSUME NEW c \in Channel, Early(c)'
        PROVE  c \notin attachments' /\ c \notin owned' /\ \A r \in ToSet(queue') : r.channel # c
    <2>1. c \notin attachments /\ c \notin owned /\ \A r \in ToSet(queue) : r.channel # c
      BY <1>3, EarlyBefore DEF AttachedOnce
    <2>2. ~(Hands("attach") /\ Head(work).channel = c)
      <3>1. ASSUME Hands("attach"), Head(work).channel = c PROVE FALSE
        <4>1. Head(work) \in asked' /\ Head(work) \notin ToSet(work') /\ Head(work) \in Request
          BY <1>1, <3>1
        <4>2. Head(work) = Attach(c)
          BY <3>1, <4>1, Requests DEF Hands
        <4>3. Attach(c)' = Attach(c)
          BY DEF Attach
        <4>4. QED
          BY <1>3, <4>1, <4>2, <4>3 DEF Early
      <3>2. QED
        BY <3>1
    <2>3. c \notin attachments'
      BY <2>1, <2>2, AttachmentsStep
    <2>4. c \notin owned'
      <3>1. queue # <<>> => Head(queue) \in ToSet(queue)
        BY <1>0, TailOf
      <3>2. QED
        BY <2>1, <3>1, AttachmentsStep
    <2>5. ASSUME NEW r \in ToSet(queue') PROVE r.channel # c
      <3>1. CASE \E a, b : Shrinks(a, b)
        <4>1. PICK a, b : Shrinks(a, b)
          BY <3>1
        <4>2. r \in ToSet(queue) \/ \E d \in attachments \ attachments' : r = Detach(d)
          BY <1>2, <4>1
        <4>3. QED
          BY <2>1, <4>2, Requests
      <3>2. CASE Hands("attach")
        BY <1>1, <2>1, <2>2, <3>2
      <3>3. CASE Hands("resize") /\ Head(work).channel \in attachments
        BY <1>1, <2>1, <3>3
      <3>4. QED
        BY <3>1, <3>2, <3>3, QueueStep
    <2>6. QED
      BY <2>3, <2>4, <2>5
  <1>4. ASSUME NEW c \in Channel, Detach(c) \in ToSet(queue') PROVE c \notin attachments'
    <2>1. CASE \E a, b : Shrinks(a, b)
      <3>1. PICK a, b : Shrinks(a, b)
        BY <2>1
      <3>2. Detach(c) \in ToSet(queue) \/ \E d \in attachments \ attachments' : Detach(c) = Detach(d)
        BY <1>2, <1>4, <3>1
      <3>3. CASE Detach(c) \in ToSet(queue)
        <4>1. c \notin attachments
          BY <3>3 DEF AttachedOnce
        <4>2. ~(Hands("attach") /\ Head(work).channel = c)
          <5>1. ASSUME Hands("attach"), Head(work).channel = c PROVE FALSE
            <6>1. Head(work) \in ToSet(work) /\ Head(work) = Attach(c)
              BY <1>1, <5>1, Requests DEF Hands
            <6>2. \A r \in ToSet(queue) : r.channel # c
              BY <6>1 DEF AttachedOnce, Early
            <6>3. QED
              BY <3>3, <6>2, Requests
          <5>2. QED
            BY <5>1
        <4>3. QED
          BY <4>1, <4>2, AttachmentsStep
      <3>4. CASE \E d \in attachments \ attachments' : Detach(c) = Detach(d)
        BY <3>4, Requests
      <3>5. QED
        BY <3>2, <3>3, <3>4
    <2>2. CASE \E kind \in {"attach", "resize"} : Hands(kind)
      <3>1. PICK kind \in {"attach", "resize"} : Hands(kind)
        BY <2>2
      <3>2. Head(work).kind = kind /\ ToSet(queue') = ToSet(queue) \cup {Head(work)}
        BY <1>1, <3>1 DEF Hands
      <3>3. Detach(c) \in ToSet(queue)
        BY <1>4, <3>2, Requests
      <3>4. c \notin attachments
        BY <3>3 DEF AttachedOnce
      <3>5. ~(Hands("attach") /\ Head(work).channel = c)
        <4>1. ASSUME Hands("attach"), Head(work).channel = c PROVE FALSE
          <5>1. Head(work) \in ToSet(work) /\ Head(work) = Attach(c)
            BY <1>1, <4>1, Requests DEF Hands
          <5>2. \A r \in ToSet(queue) : r.channel # c
            BY <5>1 DEF AttachedOnce, Early
          <5>3. QED
            BY <3>3, <5>2, Requests
        <4>2. QED
          BY <4>1
      <3>6. QED
        BY <3>4, <3>5, AttachmentsStep
    <2>3. QED
      BY <2>1, <2>2, QueueStep
  <1>5. ASSUME NEW c \in Channel PROVE Detach(c)' = Detach(c)
    BY DEF Detach
  <1>6. QED
    BY <1>3, <1>4, <1>5 DEF AttachedOnce

\* While the owner serves, it gets a Detach for every attachment that goes without it.
Leaves(a, b) ==
  /\ Shrinks(a, b) /\ a = queue /\ owned' = owned /\ attachments' \subseteq attachments
  /\ ToSet(b) = {Detach(c) : c \in attachments \ attachments'}
  /\ \A c \in attachments' : resizes'[c] = resizes[c]

LEMMA RetireLeaves ==
  ASSUME Typed, phase = "serving", NEW C \in SUBSET Channel, NEW last, Final(last),
         Retire(C, last, queue), owned' = owned
  PROVE  \E a, b : Leaves(a, b)
  <1>1. Kept(C) /\ queue \in Seq(Request)
    BY RetireTypes DEF Typed, TypeOK
  <1>2. PICK more \in Seq(Request) :
          queue' = queue \o more /\ ToSet(more) = IF Receiving THEN {Detach(c) : c \in C \cap attachments} ELSE {}
    BY <1>1, RetireSends
  <1>3. attachments \ attachments' = C \cap attachments
    BY <1>1 DEF Kept
  <1>4. ToSet(more) = {Detach(c) : c \in attachments \ attachments'}
    BY <1>2, <1>3 DEF Receiving
  <1>5. \A r \in ToSet(more) : \E c \in attachments \ attachments' : r = Detach(c)
    BY <1>4
  <1>6. Shrinks(queue, more)
    BY <1>1, <1>2, <1>5 DEF Shrinks
  <1>7. attachments \subseteq Channel
    BY DEF Typed, TypeOK
  <1>8. attachments' \subseteq attachments /\ \A c \in attachments' : resizes'[c] = resizes[c]
    BY <1>1, <1>7 DEF Kept
  <1>9. QED
    BY <1>4, <1>6, <1>8 DEF Leaves

LEMMA CloseLeaves ==
  ASSUME Typed, phase = "serving", Close
  PROVE  \E a, b : Leaves(a, b)
  <1>1. attachments' = {} /\ owned' = owned /\ queue \in Seq(Request)
    BY DEF Close, Typed, TypeOK
  <1>2. PICK more \in Seq(Request) :
          queue' = queue \o more /\ ToSet(more) = IF Receiving THEN {Detach(c) : c \in attachments} ELSE {}
    BY CloseSends
  <1>3. ToSet(more) = {Detach(c) : c \in attachments \ attachments'}
    BY <1>1, <1>2 DEF Receiving
  <1>4. \A r \in ToSet(more) : \E c \in attachments \ attachments' : r = Detach(c)
    BY <1>3
  <1>5. Shrinks(queue, more)
    BY <1>1, <1>2, <1>4 DEF Shrinks
  <1>6. QED
    BY <1>1, <1>3, <1>5 DEF Leaves

\* What a step does to both sides while the owner serves.
LEMMA ServingStep ==
  ASSUME Typed, Newer, phase' = "serving", [Next]_vars
  PROVE  /\ phase = "serving"
         /\ \/ UNCHANGED <<attachments, owned, queue, resizes>>
            \/ \E a, b : Leaves(a, b)
            \/ Hands("attach") /\ AttachFound /\ owned' = owned /\ attachments' = attachments \cup {Head(work).channel}
               /\ resizes' = resizes
            \/ Hands("resize") /\ Head(work).channel \in attachments /\ UNCHANGED <<attachments, owned>>
               /\ resizes' = [resizes EXCEPT ![Head(work).channel] = Append(@, Head(work).nth)]
            \/ Tick \/ ServeAttach \/ ServeResize \/ ServeDetach
  <1>1. phase = "serving"
    BY DEF Next, Worker, Owner, Ask, Write, Close, PaneClosed, Skip, FindSession, AttachFound, RunResize, RunDetach,
           ServeAttach, ServeResize, ServeDetach, Discard, Drained, DropReceiver, Exit, Tell, Tick, Fault,
           FaultAfterSnapshot, End, vars, sessionVars
  <1>2. CASE (\E r \in Request : Ask(r)) \/ Write \/ Skip \/ FindSession \/ UNCHANGED vars
    BY <1>1, <1>2 DEF Ask, Write, Skip, FindSession, vars, attachmentVars, sessionVars
  <1>3. CASE Close
    BY <1>1, <1>3, CloseLeaves
  <1>4. CASE PaneClosed
    <2>1. PICK last : last = <<>>
      OBVIOUS
    <2>2. Retire(attachments, last, queue) /\ owned' = owned /\ attachments \in SUBSET Channel /\ Final(last)
      BY <1>4, <2>1 DEF PaneClosed, Typed, TypeOK, Final
    <2>3. QED
      BY <1>1, <2>2, RetireLeaves
  <1>5. CASE RunDetach
    <2>1. PICK r \in Request : r = Head(work) /\ r.channel \in Channel
      BY <1>5, HeadAndTail, Requests DEF RunDetach, Running
    <2>2. CASE r.channel \in attachments
      <3>1. PICK last : last = <<Done(r)>>
        OBVIOUS
      <3>2. Retire({r.channel}, last, queue) /\ Final(last) /\ owned' = owned
        BY <1>5, <2>1, <2>2, <3>1 DEF RunDetach, Done, Final
      <3>3. {r.channel} \in SUBSET Channel
        BY <2>1
      <3>4. QED
        BY <1>1, <3>2, <3>3, RetireLeaves
    <2>3. CASE r.channel \notin attachments
      BY <1>1, <1>5, <2>1, <2>3 DEF RunDetach, attachmentVars
    <2>4. QED
      BY <2>2, <2>3
  <1>6. CASE AttachFound
    BY <1>1, <1>6 DEF AttachFound, Hands, Newer, Send, Receiving, attachmentVars, appVars
  <1>7. CASE RunResize
    BY <1>1, <1>7 DEF RunResize, Running, Hands, Send, Receiving, appVars
  <1>8. CASE Tick \/ ServeAttach \/ ServeResize \/ ServeDetach
    BY <1>1, <1>8
  <1>9. ~(Fault \/ FaultAfterSnapshot \/ End \/ Discard \/ Drained \/ DropReceiver \/ Exit \/ \E c \in Channel : Tell(c))
    BY <1>1 DEF Fault, FaultAfterSnapshot, End, Discard, Drained, DropReceiver, Exit, Tell
  <1>10. QED
    BY <1>2, <1>3, <1>4, <1>5, <1>6, <1>7, <1>8, <1>9 DEF Next, Worker, Owner

\* What is in the queue after a command was handed over.
LEMMA HandsAdds ==
  ASSUME Typed, Sorted(work, WorkOrder), NEW kind, Hands(kind)
  PROVE  /\ Head(work) \in Request /\ Head(work) \in ToSet(work)
         /\ ToSet(queue') = ToSet(queue) \cup {Head(work)}
  <1>1. Head(work) \in Request /\ Head(work) \in ToSet(work)
    BY WorkHead DEF Hands
  <1>2. PICK b \in Seq(Request) : b = <<Head(work)>> /\ ToSet(b) = {Head(work)}
    BY <1>1, One
  <1>3. queue \in Seq(Request)
    BY DEF Typed, TypeOK
  <1>4. ToSet(queue \o b) = ToSet(queue) \cup ToSet(b)
    BY <1>3, Joined
  <1>5. QED
    BY <1>1, <1>2, <1>4 DEF Hands

LEMMA BothSidesNext ==
  ASSUME Typed, Typed', Orderly, Newer, AttachedOnce, AttachedOnBothSides, [Next]_vars
  PROVE  AttachedOnBothSides'
  <1> SUFFICES ASSUME phase' = "serving"
               PROVE  /\ \A c \in attachments' : c \in owned' \/ Attach(c) \in ToSet(queue')
                      /\ \A c \in owned' \ attachments' : Detach(c) \in ToSet(queue')
    <2>1. \A c : Attach(c)' = Attach(c) /\ Detach(c)' = Detach(c)
      BY DEF Attach, Detach
    <2>2. QED
      BY <2>1 DEF AttachedOnBothSides
  <1>1. /\ phase = "serving" /\ Sorted(work, WorkOrder) /\ queue \in Seq(Request)
        /\ attachments \subseteq Channel /\ owned \subseteq Channel
    BY ServingStep DEF Orderly, Typed, TypeOK
  <1>2. /\ \A c \in attachments : c \in owned \/ Attach(c) \in ToSet(queue)
        /\ \A c \in owned \ attachments : Detach(c) \in ToSet(queue)
    BY <1>1 DEF AttachedOnBothSides
  <1>3. CASE UNCHANGED <<attachments, owned, queue, resizes>>
    BY <1>2, <1>3
  <1>4. CASE \E a, b : Leaves(a, b)
    <2>1. PICK a, b : Leaves(a, b)
      BY <1>4
    <2>2. ToSet(queue') = ToSet(queue) \cup {Detach(c) : c \in attachments \ attachments'}
      BY <2>1, Shrunk DEF Leaves
    <2>3. QED
      BY <1>2, <2>1, <2>2 DEF Leaves
  <1>5. CASE Hands("attach") /\ owned' = owned /\ attachments' = attachments \cup {Head(work).channel}
    <2>1. Head(work) \in Request /\ ToSet(queue') = ToSet(queue) \cup {Head(work)}
      BY <1>1, <1>5, HandsAdds
    <2>2. Head(work) = Attach(Head(work).channel)
      BY <1>5, <2>1, Requests DEF Hands
    <2>3. QED
      BY <1>2, <1>5, <2>1, <2>2
  <1>6. CASE Hands("resize") /\ UNCHANGED <<attachments, owned>>
    <2>1. ToSet(queue') = ToSet(queue) \cup {Head(work)}
      BY <1>1, <1>6, HandsAdds
    <2>2. QED
      BY <1>2, <1>6, <2>1
  <1>7. CASE Tick
    BY <1>2, <1>7 DEF Tick, Broadcast, attachmentVars
  <1>8. CASE ServeAttach \/ ServeResize \/ ServeDetach
    <2>1. queue # <<>> /\ queue' = Tail(queue) /\ attachments' = attachments
      BY <1>8 DEF ServeAttach, ServeResize, ServeDetach, Serving, attachmentVars
    <2>2. Head(queue) \in Request /\ ToSet(queue) = {Head(queue)} \cup ToSet(queue')
      BY <1>1, <2>1, TailOf
    <2>3. PICK r \in Request : r = Head(queue) /\ r \in ToSet(queue)
      BY <2>2
    <2>4. CASE ServeAttach
      <3>1. r = Attach(r.channel)
        BY <2>3, <2>4, Requests DEF ServeAttach, Serving
      <3>2. PICK others \in {owned, Broadcast} : owned' = others \cup ({r.channel} \cap attachments)
        BY <2>3, <2>4 DEF ServeAttach
      <3>3. owned \cap attachments \subseteq owned' /\ owned' \subseteq owned \cup attachments
        BY <3>2 DEF Broadcast
      <3>4. ASSUME NEW c \in attachments' PROVE c \in owned' \/ Attach(c) \in ToSet(queue')
        <4>1. c \in owned \/ Attach(c) \in ToSet(queue') \/ Attach(c) = r
          BY <1>2, <2>1, <2>2, <2>3, <3>4
        <4>2. Attach(c) = r => c = r.channel
          BY Requests
        <4>3. QED
          BY <2>1, <3>2, <3>3, <3>4, <4>1, <4>2
      <3>5. ASSUME NEW c \in owned' \ attachments' PROVE Detach(c) \in ToSet(queue')
        <4>1. Detach(c) \in ToSet(queue)
          BY <1>2, <2>1, <3>3, <3>5
        <4>2. Detach(c) # r
          BY <3>1, Requests
        <4>3. QED
          BY <2>2, <2>3, <4>1, <4>2
      <3>6. QED
        BY <3>4, <3>5
    <2>5. CASE ServeResize
      <3>1. r.kind = "resize" /\ owned' = owned \cap attachments
        BY <2>3, <2>5 DEF ServeResize, Serving, Broadcast
      <3>2. \A c : Attach(c) # r
        BY <3>1, Requests
      <3>3. QED
        BY <1>2, <2>1, <2>2, <2>3, <3>1, <3>2
    <2>6. CASE ServeDetach
      <3>1. r = Detach(r.channel) /\ r.channel \in Channel /\ owned' = owned \ {r.channel}
        BY <2>3, <2>6, Requests DEF ServeDetach, Serving
      <3>2. r.channel \notin attachments
        BY <2>3, <3>1 DEF AttachedOnce
      <3>3. \A c : Attach(c) # r /\ (Detach(c) = r => c = r.channel)
        BY <3>1, Requests
      <3>4. QED
        BY <1>2, <2>1, <2>2, <2>3, <3>1, <3>2, <3>3
    <2>7. QED
      BY <1>8, <2>4, <2>5, <2>6
  <1>9. QED
    BY <1>3, <1>4, <1>5, <1>6, <1>7, <1>8, ServingStep

\* The owner serves the oldest resize its channel is owed.
LEMMA ServesOldest ==
  ASSUME Typed, Orderly, AttachedOnBothSides, SameResizes, Serving("resize"),
         NEW c \in attachments, c = Head(queue).channel
  PROVE  /\ c \in owned /\ resizes[c] # <<>> /\ Head(queue) = Resize(c, Head(resizes[c]))
         /\ \A n \in ToSet(Tail(resizes[c])) : n # Head(resizes[c])
         /\ Head(queue) \notin ToSet(Tail(queue))
  <1>1. /\ queue \in Seq(Request) /\ queue # <<>> /\ phase = "serving" /\ Sorted(queue, QueueOrder)
        /\ c \in Channel /\ resizes[c] \in Seq(Int) /\ resizes[c] \in Seq(1 .. MaxResizes[c])
        /\ Sorted(resizes[c], LessThan)
    BY DEF Serving, Orderly, Typed, TypeOK
  <1>2. ToSet(queue) = {Head(queue)} \cup ToSet(Tail(queue)) /\ Head(queue) \in Request
    BY <1>1, TailOf
  <1>3. \A x \in ToSet(Tail(queue)) : <<Head(queue), x>> \in QueueOrder
    BY <1>1, TailSorted
  <1>4. PICK k \in 1 .. MaxResizes[c] : Head(queue) = Resize(c, k) /\ Head(queue).kind = "resize" /\ Head(queue).nth = k
    BY <1>2, Requests DEF Serving
  <1>5. \A x \in ToSet(Tail(queue)) : ResizeAfter(Head(queue), x) /\ x # Attach(c)
    BY <1>3, <1>4 DEF QueueOrder
  <1>6. c \in owned
    <2>1. Attach(c) # Head(queue)
      BY <1>4, Requests
    <2>2. Attach(c) \notin ToSet(queue)
      BY <1>2, <1>5, <2>1
    <2>3. QED
      BY <1>1, <2>2 DEF AttachedOnBothSides
  <1>7. k \in ToSet(resizes[c])
    BY <1>1, <1>2, <1>4 DEF SameResizes
  <1>8. resizes[c] # <<>>
    BY <1>7 DEF ToSet
  <1>9. PICK h \in 1 .. MaxResizes[c] : h = Head(resizes[c]) /\ h \in ToSet(resizes[c])
    <2>1. Head(resizes[c]) \in 1 .. MaxResizes[c]
      BY <1>1, <1>8, TailOf
    <2>2. Head(resizes[c]) \in ToSet(resizes[c])
      BY <1>1, <1>8, TailOf
    <2>3. QED
      BY <2>1, <2>2
  <1>10. \A n \in ToSet(Tail(resizes[c])) : <<h, n>> \in LessThan
    BY <1>1, <1>8, <1>9, TailSorted
  <1>11. \A n \in ToSet(Tail(resizes[c])) : h < n /\ n # h
    BY <1>10, Less
  <1>12. ToSet(resizes[c]) = {h} \cup ToSet(Tail(resizes[c]))
    BY <1>1, <1>8, <1>9, TailOf
  <1>13. h = k
    <2>1. Resize(c, h) \in ToSet(queue)
      BY <1>1, <1>9 DEF SameResizes
    <2>2. ASSUME h # k PROVE FALSE
      <3>1. h < k
        BY <1>7, <1>11, <1>12, <2>2
      <3>2. PICK x : x = Resize(c, h) /\ x.kind = "resize" /\ x.channel = c /\ x.nth = h
        BY Requests
      <3>3. x \in ToSet(Tail(queue))
        BY <1>2, <1>4, <2>1, <2>2, <3>2
      <3>4. k < h
        BY <1>4, <1>5, <3>2, <3>3 DEF ResizeAfter
      <3>5. QED
        BY <1>4, <1>9, <3>1, <3>4
    <2>3. QED
      BY <2>2
  <1>14. Head(queue) \notin ToSet(Tail(queue))
    <2>1. ASSUME Head(queue) \in ToSet(Tail(queue)) PROVE FALSE
      <3>1. ResizeAfter(Head(queue), Head(queue))
        BY <1>5, <2>1
      <3>2. k < k
        BY <1>4, <3>1 DEF ResizeAfter
      <3>3. QED
        BY <3>2
    <2>2. QED
      BY <2>1
  <1>15. QED
    BY <1>4, <1>6, <1>8, <1>9, <1>11, <1>13, <1>14

LEMMA SameResizesNext ==
  ASSUME Typed, Typed', Orderly, Newer, Attached, AttachedOnce, AttachedOnBothSides, SameResizes, [Next]_vars
  PROVE  SameResizes'
  <1> SUFFICES ASSUME phase' = "serving", NEW c \in attachments', NEW n \in 1 .. MaxResizes[c]
               PROVE  n \in ToSet(resizes'[c]) <=> Resize(c, n) \in ToSet(queue')
    <2>1. \A c, n : Resize(c, n)' = Resize(c, n)
      BY DEF Resize
    <2>2. QED
      BY <2>1 DEF SameResizes
  <1>1. /\ phase = "serving" /\ Sorted(work, WorkOrder) /\ queue \in Seq(Request) /\ c \in Channel
        /\ resizes[c] \in Seq(Int) /\ attachments \subseteq Channel
    BY ServingStep DEF Orderly, Typed, TypeOK
  <1>2. c \in attachments => (n \in ToSet(resizes[c]) <=> Resize(c, n) \in ToSet(queue))
    BY <1>1 DEF SameResizes
  <1>3. CASE UNCHANGED <<attachments, owned, queue, resizes>>
    BY <1>2, <1>3
  <1>4. CASE \E a, b : Leaves(a, b)
    <2>1. PICK a, b : Leaves(a, b)
      BY <1>4
    <2>2. ToSet(queue') = ToSet(queue) \cup {Detach(d) : d \in attachments \ attachments'}
      BY <2>1, Shrunk DEF Leaves
    <2>3. \A d : Resize(c, n) # Detach(d)
      BY Requests
    <2>4. QED
      BY <1>2, <2>1, <2>2, <2>3 DEF Leaves
  <1>5. CASE Hands("attach") /\ attachments' = attachments \cup {Head(work).channel} /\ resizes' = resizes
    <2>1. PICK r \in Request : r = Head(work) /\ r \in ToSet(work) /\ ToSet(queue') = ToSet(queue) \cup {r}
      BY <1>1, <1>5, HandsAdds
    <2>2. r = Attach(r.channel) /\ r.channel \in Channel /\ r # Resize(c, n)
      BY <1>5, <2>1, Requests DEF Hands
    <2>3. CASE c \in attachments
      BY <1>2, <1>5, <2>1, <2>2, <2>3
    <2>4. CASE c \notin attachments
      <3>1. c = r.channel /\ resizes[c] = <<>>
        BY <1>1, <1>5, <2>1, <2>4 DEF Attached
      <3>2. \A q \in ToSet(queue) : q.channel # c
        BY <2>1, <2>2, <3>1 DEF AttachedOnce, Early
      <3>3. Resize(c, n) \notin ToSet(queue')
        BY <2>1, <2>2, <3>2, Requests
      <3>4. ToSet(resizes'[c]) = {}
        BY <1>5, <3>1 DEF ToSet
      <3>5. QED
        BY <3>3, <3>4
    <2>5. QED
      BY <2>3, <2>4
  <1>6. CASE /\ Hands("resize") /\ UNCHANGED <<attachments, owned>>
             /\ resizes' = [resizes EXCEPT ![Head(work).channel] = Append(@, Head(work).nth)]
    <2>1. PICK r \in Request : r = Head(work) /\ ToSet(queue') = ToSet(queue) \cup {r}
      BY <1>1, <1>6, HandsAdds
    <2>2. r.channel \in Channel /\ r.nth \in Int /\ (r = Resize(c, n) <=> r.channel = c /\ r.nth = n)
      BY <1>6, <2>1, Requests DEF Hands
    <2>3. CASE r.channel = c
      <3>1. resizes'[c] = Append(resizes[c], r.nth)
        BY <1>1, <1>6, <2>1, <2>3 DEF Typed
      <3>2. ToSet(resizes'[c]) = ToSet(resizes[c]) \cup {r.nth}
        BY <1>1, <2>2, <3>1, Appended
      <3>3. QED
        BY <1>2, <1>6, <2>1, <2>2, <2>3, <3>2
    <2>4. CASE r.channel # c
      <3>1. resizes'[c] = resizes[c]
        BY <1>1, <1>6, <2>1, <2>2, <2>4 DEF Typed
      <3>2. QED
        BY <1>2, <1>6, <2>1, <2>2, <2>4, <3>1
    <2>5. QED
      BY <2>3, <2>4
  <1>7. CASE Tick
    BY <1>2, <1>7 DEF Tick, attachmentVars
  <1>8. CASE ServeAttach \/ ServeDetach
    <2>1. queue # <<>> /\ queue' = Tail(queue) /\ attachments' = attachments /\ resizes' = resizes
      BY <1>8 DEF ServeAttach, ServeDetach, Serving, attachmentVars
    <2>2. ToSet(queue) = {Head(queue)} \cup ToSet(queue')
      BY <1>1, <2>1, TailOf
    <2>3. Head(queue) # Resize(c, n)
      BY <1>8, Requests DEF ServeAttach, ServeDetach, Serving
    <2>4. QED
      BY <1>2, <2>1, <2>2, <2>3
  <1>9. CASE ServeResize
    <2>1. Serving("resize") /\ queue # <<>> /\ queue' = Tail(queue) /\ attachments' = attachments
      BY <1>9 DEF ServeResize, Serving
    <2>2. ToSet(queue) = {Head(queue)} \cup ToSet(queue')
      BY <1>1, <2>1, TailOf
    <2>3. PICK d \in Channel : d = Head(queue).channel
      BY <2>1, HeadAndTail, Requests
    <2>4. CASE d = c
      <3>1. /\ c \in owned /\ resizes[c] # <<>> /\ Head(queue) = Resize(c, Head(resizes[c]))
            /\ \A m \in ToSet(Tail(resizes[c])) : m # Head(resizes[c])
            /\ Head(queue) \notin ToSet(Tail(queue))
        BY <2>1, <2>3, <2>4, ServesOldest
      <3>2. resizes'[c] = Tail(resizes[c])
        BY <1>1, <1>9, <2>1, <2>3, <2>4, <3>1 DEF ServeResize, Broadcast, Typed
      <3>3. PICK h : h = Head(resizes[c]) /\ ToSet(resizes[c]) = {h} \cup ToSet(resizes'[c]) /\ h \notin ToSet(resizes'[c])
        BY <1>1, <3>1, <3>2, TailOf
      <3>4. Head(queue) = Resize(c, h) /\ Head(queue) \notin ToSet(queue')
        BY <2>1, <3>1, <3>3
      <3>5. Resize(c, n) = Resize(c, h) <=> n = h
        BY Requests
      <3>6. QED
        BY <1>2, <2>1, <2>2, <3>3, <3>4, <3>5
    <2>5. CASE d # c
      <3>1. resizes'[c] = resizes[c]
        BY <1>1, <1>9, <2>3, <2>5 DEF ServeResize, Typed
      <3>2. Head(queue) # Resize(c, n)
        BY <2>3, <2>5, Requests
      <3>3. QED
        BY <1>2, <2>1, <2>2, <3>1, <3>2
    <2>6. QED
      BY <2>4, <2>5
  <1>10. QED
    BY <1>3, <1>4, <1>5, <1>6, <1>7, <1>8, <1>9, ServingStep

LEMMA OwesNext ==
  ASSUME Typed, Typed', Asked, Orderly, Newer, Attached, Attached', OnePlaceEach, [Next]_vars,
         NEW r \in Request, Owes(r)'
  PROVE  r \in asked'
  <1>0. r.channel \in Channel /\ asked \subseteq asked'
    BY Requests, WorkStep DEF Ask
  <1>1. ~closed'
    <2>1. ASSUME closed' PROVE FALSE
      <3>1. attachments' = {} /\ waiting' = {} /\ resizes'[r.channel] = <<>>
        BY <1>0, <2>1 DEF Attached
      <3>2. ToSet(<<>>) = {}
        BY DEF ToSet
      <3>3. QED
        BY <3>1, <3>2 DEF Owes
    <2>2. QED
      BY <2>1
  <1>2. CASE (\E q \in Request : Ask(q)) \/ Write
    <2>1. waiting' = waiting /\ resizes' = resizes
      BY <1>2 DEF Ask, Write, attachmentVars
    <2>2. Owes(r)
      BY <2>1 DEF Owes
    <2>3. QED
      BY <1>0, <2>2 DEF Asked
  <1>3. CASE ~closed /\ ~Write /\ ~Close /\ \A q \in Request : ~Ask(q)
    <2>1. PICK ext : Answering(ext)
      BY <1>3, StepAnswers
    <2>2. Pending(r)' /\ (Pending(r)' => Pending(r))
      BY <2>1 DEF Answering, Pending
    <2>3. r \in asked
      BY <1>3, <2>2, PendingIsUnanswered
    <2>4. QED
      BY <1>0, <2>3
  <1>4. CASE closed /\ ~Write
    BY <1>1, <1>4, ClosedControl
  <1>5. ~Close
    BY <1>1 DEF Close
  <1>6. QED
    BY <1>2, <1>3, <1>4, <1>5

LEMMA AskedNext ==
  ASSUME Typed, Typed', Asked, Orderly, Newer, Attached, Attached', OnePlaceEach, Ended, AttachedOnce, [Next]_vars
  PROVE  Asked'
  <1>1. /\ ToSet(work') \subseteq asked'
        /\ \A m \in ToSet(control') : m.re \subseteq asked'
        /\ \A r \in ToSet(queue') : r.kind # "detach" => r \in asked'
        /\ \A r \in Request : Owes(r)' => r \in asked'
    <2>1. ToSet(work') \subseteq asked'
      BY WorkNext DEF Orderly
    <2>2. \A m \in ToSet(control') : m.re \subseteq asked'
      BY ControlNext
    <2>3. \A r \in ToSet(queue') : r.kind # "detach" => r \in asked'
      BY QueueNext
    <2>4. QED
      BY <2>1, <2>2, <2>3, OwesNext
  <1>2. /\ \A c \in Channel : \A j \in 1 .. MaxResizes[c] : \A i \in 1 .. j :
             Resize(c, j) \in asked' => Resize(c, i) \in asked'
        /\ \A c \in open' : Attach(c) \in answered'
        /\ \A r \in asked' : r.kind # "attach" => Attach(r.channel) \in answered'
        /\ answered' \subseteq asked'
    <2>1. CASE \E r \in Request : Ask(r)
      <3>1. PICK r \in Request : Ask(r)
        BY <2>1
      <3>2. MayAsk(r) /\ asked' = asked \cup {r} /\ open' \subseteq open /\ answered' = answered
        BY <3>1 DEF Ask
      <3>3. ASSUME NEW c \in Channel, NEW j \in 1 .. MaxResizes[c], NEW i \in 1 .. j, Resize(c, j) = r
            PROVE  Resize(c, i) \in asked'
        <4>1. r.kind = "resize" /\ r.channel = c /\ r.nth = j
          BY <3>3, Requests
        <4>2. CASE i = j
          BY <3>2, <3>3, <4>2
        <4>3. CASE i # j
          <5>1. MaxResizes[c] \in Nat /\ j \in Int
            BY AttachmentsAssumption
          <5>2. PICK k \in 1 .. MaxResizes[c] : k = j - 1 /\ i \in 1 .. k
            BY <4>3, <5>1
          <5>3. Resize(c, k) \in asked
            BY <3>2, <4>1, <5>2 DEF MayAsk
          <5>4. QED
            BY <3>2, <5>2, <5>3 DEF Asked
        <4>4. QED
          BY <4>2, <4>3
      <3>4. r.kind # "attach" => Attach(r.channel) \in answered'
        BY <3>2 DEF MayAsk, Asked
      <3>5. QED
        BY <3>2, <3>3, <3>4 DEF Asked
    <2>2. CASE Write
      <3>1. PICK m \in Message : m \in ToSet(control) /\ answered' = answered \cup m.re /\ m = Head(control)
        BY <2>2, Written DEF Orderly
      <3>2. asked' = asked /\ open' \subseteq open \cup {c \in Channel : m = Done(Attach(c))}
        BY <2>2, <3>1 DEF Write, Done
      <3>3. m.re \subseteq asked
        BY <3>1 DEF Asked
      <3>4. \A c : m = Done(Attach(c)) => Attach(c) \in m.re
        BY Messages
      <3>5. QED
        BY <3>1, <3>2, <3>3, <3>4 DEF Asked
    <2>3. CASE UNCHANGED appVars
      BY <2>3 DEF appVars, Asked
    <2>4. QED
      BY <2>1, <2>2, <2>3 DEF Next, Worker, Owner, Close, PaneClosed, Skip, FindSession, AttachFound, RunResize, RunDetach,
         ServeAttach, ServeResize, ServeDetach, Discard, Drained, DropReceiver, Exit, Tell, Tick, Fault, FaultAfterSnapshot,
         End, vars
  <1>3. \A c, i : Attach(c)' = Attach(c) /\ Resize(c, i)' = Resize(c, i)
    BY DEF Attach, Resize
  <1>4. QED
    BY <1>1, <1>2, <1>3 DEF Asked

LEMMA EndedNext ==
  ASSUME Typed, Typed', Asked, Orderly, Newer, Attached, Attached', OnePlaceEach, Ended, [Next]_vars
  PROVE  Ended'
  <1>1. phase = "exited" => phase' = "exited"
    BY DEF Next, Worker, Owner, Ask, Write, Close, PaneClosed, Skip, FindSession, AttachFound, RunResize, RunDetach,
           ServeAttach, ServeResize, ServeDetach, Discard, Drained, DropReceiver, Exit, Tell, Tick, Fault,
           FaultAfterSnapshot, End, vars, sessionVars, Serving
  <1>2. SessionEnded \in ToSet(control') => phase' = "exited"
    <2>1. SessionEnded \in ToSet(control') => SessionEnded \in ToSet(control) \/ phase' = "exited"
      BY ControlNext
    <2>2. QED
      BY <1>1, <2>1 DEF Ended
  <1>3. ASSUME phase' = "exited" PROVE attachments' = {}
    <2>1. CASE phase = "exited"
      <3>1. attachments = {}
        BY <2>1 DEF Ended, NothingOutlivesSession
      <3>2. ~Hands("attach")
        BY <2>1 DEF Hands, Receiving
      <3>3. QED
        BY <3>1, <3>2, AttachmentsStep
    <2>2. CASE phase # "exited"
      <3>1. Exit
        BY <1>3, <2>2 DEF Next, Worker, Owner, Ask, Write, Close, PaneClosed, Skip, FindSession, AttachFound, RunResize,
           RunDetach, ServeAttach, ServeResize, ServeDetach, Discard, Drained, DropReceiver, Tell, Tick, Fault,
           FaultAfterSnapshot, End, vars, sessionVars
      <3>2. QED
        BY <3>1 DEF Exit, Retire, Attached, attachmentVars
    <2>3. QED
      BY <2>1, <2>2
  <1>4. SessionEnded' = SessionEnded
    BY DEF SessionEnded
  <1>5. QED
    BY <1>2, <1>3, <1>4 DEF Ended, NothingOutlivesSession, Attached

-----------------------------------------------------------------------------
(* The invariant *)

LEMMA NewerNext ==
  ASSUME Typed, Typed', Asked, Orderly, Newer, Attached, AttachedOnce, [Next]_vars
  PROVE  Newer'
  <1>1. found' => work' # <<>> /\ Head(work').kind = "attach"
    BY WorkNext DEF Orderly
  <1>2. /\ \A r \in ToSet(work'), q \in ToSet(queue') : ResizeAfter(q, r)
        /\ \A r \in ToSet(work'), n \in Int :
             r.kind = "resize" /\ n \in ToSet(resizes'[r.channel]) => n < r.nth
    BY QueueNext
  <1>3. \A r, q : ResizeAfter(q, r)' = ResizeAfter(q, r)
    BY DEF ResizeAfter
  <1>4. QED
    BY <1>1, <1>2, <1>3 DEF Newer

LEMMA OrderlyNext ==
  ASSUME Typed, Typed', Asked, Orderly, Newer, Attached, OnePlaceEach, Ended, AttachedOnce, [Next]_vars
  PROVE  Orderly'
  <1>1. Sorted(work', WorkOrder)
    BY WorkNext DEF Orderly
  <1>2. Sorted(queue', QueueOrder) /\ \A c \in Channel : Sorted(resizes'[c], LessThan)
    BY QueueNext
  <1>3. Sorted(control', ControlOrder)
    BY ControlNext
  <1>4. WorkOrder' = WorkOrder /\ QueueOrder' = QueueOrder /\ ControlOrder' = ControlOrder /\ LessThan' = LessThan
    BY DEF WorkOrder, QueueOrder, ControlOrder, LessThan, Request, Message, Reply, SessionEnded, ResizeAfter, Late,
           Attach, Detach, Resize
  <1>5. QED
    BY <1>1, <1>2, <1>3, <1>4 DEF Orderly, Sorted

LEMMA InitIInv == Init => IInv
  <1> SUFFICES ASSUME Init PROVE IInv
    OBVIOUS
  <1> USE DEF Init
  <1>1. /\ ToSet(<<>>) = {} /\ \A R : Sorted(<<>>, R)
        /\ \A c \in Channel : resizes[c] = <<>>
    BY DEF ToSet, Sorted
  <1>2. Typed
    <2>1. \A S : <<>> \in Seq(S)
      OBVIOUS
    <2>2. QED
      BY <1>1, <2>1 DEF Typed, TypeOK
  <1>3. Orderly
    BY <1>1 DEF Orderly
  <1>4. \A r \in Request : ~Owes(r)
    BY <1>1, Requests DEF Owes
  <1>5. Asked
    BY <1>1, <1>4 DEF Asked
  <1>6. Newer /\ Attached /\ OnePlaceEach /\ AttachedOnce /\ AttachedOnBothSides /\ SameResizes /\ Ended
    BY <1>1 DEF Newer, Attached, OnePlaceEach, AttachedOnce, AttachedOnBothSides, SameResizes, Ended,
                NothingOutlivesSession
  <1>7. QED
    BY <1>2, <1>3, <1>5, <1>6 DEF IInv

LEMMA NextIInv == IInv /\ [Next]_vars => IInv'
  <1> SUFFICES ASSUME IInv, [Next]_vars PROVE IInv'
    OBVIOUS
  <1>1. /\ Typed /\ Orderly /\ Asked /\ Newer /\ Attached /\ OnePlaceEach
        /\ AttachedOnce /\ AttachedOnBothSides /\ SameResizes /\ Ended
    BY DEF IInv
  <1>2. Typed'
    BY <1>1, TypedNext
  <1>3. Attached'
    BY <1>1, <1>2, AttachedNext
  <1>4. OnePlaceEach'
    BY <1>1, <1>2, ControlNext
  <1>5. Orderly'
    BY <1>1, <1>2, OrderlyNext
  <1>6. Asked'
    BY <1>1, <1>2, <1>3, AskedNext
  <1>7. Newer'
    BY <1>1, <1>2, NewerNext
  <1>8. AttachedOnce'
    BY <1>1, <1>2, AttachedOnceNext
  <1>9. AttachedOnBothSides'
    BY <1>1, <1>2, BothSidesNext
  <1>10. SameResizes'
    BY <1>1, <1>2, SameResizesNext
  <1>11. Ended'
    BY <1>1, <1>2, <1>3, EndedNext
  <1>12. QED
    BY <1>2, <1>3, <1>4, <1>5, <1>6, <1>7, <1>8, <1>9, <1>10, <1>11 DEF IInv

\* The inductive invariant holds in every reachable state.
THEOREM Invariant == Spec => []IInv
BY InitIInv, NextIInv, PTL DEF Spec

\* Every variable has its type.
THEOREM TypeCorrect == Spec => []TypeOK
  <1>1. IInv => TypeOK
    BY DEF IInv, Typed
  <1>2. QED
    BY <1>1, Invariant, PTL

\* An element is at one index of a sequence sorted by an irreflexive relation.
LEMMA OneIndex ==
  ASSUME NEW S, NEW s \in Seq(S), NEW R, Sorted(s, R), NEW x, <<x, x>> \notin R
  PROVE  /\ x \in ToSet(s) => \E i : {j \in DOMAIN s : s[j] = x} = {i}
         /\ x \notin ToSet(s) => {j \in DOMAIN s : s[j] = x} = {}
  <1>1. ASSUME x \in ToSet(s) PROVE \E i : {j \in DOMAIN s : s[j] = x} = {i}
    <2>1. PICK i \in DOMAIN s : s[i] = x
      BY <1>1 DEF ToSet
    <2>2. ASSUME NEW j \in DOMAIN s, s[j] = x PROVE j = i
      <3>1. i \in Int /\ j \in Int
        OBVIOUS
      <3>2. ~(i < j) /\ ~(j < i)
        BY <2>1, <2>2 DEF Sorted
      <3>3. QED
        BY <3>1, <3>2
    <2>3. {j \in DOMAIN s : s[j] = x} = {i}
      BY <2>1, <2>2
    <2>4. QED
      BY <2>3
  <1>2. x \notin ToSet(s) => {j \in DOMAIN s : s[j] = x} = {}
    BY DEF ToSet
  <1>3. QED
    BY <1>1, <1>2

LEMMA Irreflexive ==
  /\ \A r : <<r, r>> \notin WorkOrder
  /\ \A m : <<m, m>> \notin ControlOrder
  /\ \A n : <<n, n>> \notin LessThan
  <1>1. \A r : <<r, r>> \notin WorkOrder
    BY DEF WorkOrder
  <1>2. \A m : <<m, m>> \notin ControlOrder
    BY DEF ControlOrder
  <1>3. \A n : <<n, n>> \notin LessThan
    BY Less
  <1>4. QED
    BY <1>1, <1>2, <1>3

LEMMA InOnePlaceOnly ==
  ASSUME IInv, ~closed, NEW r \in asked
  PROVE  \E place : Places(r) = {place}
  <1>1. /\ r \in Request /\ InOnePlace(r) /\ r.channel \in Channel
        /\ work \in Seq(Request) /\ control \in Seq(Message) /\ resizes[r.channel] \in Seq(Int)
        /\ Sorted(work, WorkOrder) /\ Sorted(control, ControlOrder) /\ Sorted(resizes[r.channel], LessThan)
    <2>1. r \in Request /\ Typed /\ Orderly /\ OnePlaceEach
      BY DEF IInv, Typed, TypeOK
    <2>2. r.channel \in Channel
      BY <2>1, Requests
    <2>3. QED
      BY <2>1, <2>2 DEF Typed, TypeOK, Orderly, OnePlaceEach
  <1> DEFINE replies == {i \in DOMAIN control : control[i].re = {r}}
             jobs == {i \in DOMAIN work : work[i] = r}
             owed == {i \in DOMAIN resizes[r.channel] : r.kind = "resize" /\ resizes[r.channel][i] = r.nth}
             done == Done(r) \in ToSet(control)
             failed == Refused(r) \in ToSet(control)
             resized == r.kind = "resize" /\ r.nth \in ToSet(resizes[r.channel])
             attached == r.kind = "attach" /\ r.channel \in waiting
  <1>2. /\ (done \/ failed) => \E i : replies = {i}
        /\ ~done /\ ~failed => replies = {}
    <2>1. \A i \in DOMAIN control : control[i].re = {r} <=> control[i] = Done(r) \/ control[i] = Refused(r)
      <3>1. \A m \in Message : m.re = {r} <=> m = Done(r) \/ m = Refused(r)
        BY Messages
      <3>2. QED
        BY <1>1, <3>1
    <2>2. replies = {i \in DOMAIN control : control[i] = Done(r)} \cup {i \in DOMAIN control : control[i] = Refused(r)}
      BY <2>1
    <2>3. /\ done => \E i : {j \in DOMAIN control : control[j] = Done(r)} = {i}
          /\ ~done => {j \in DOMAIN control : control[j] = Done(r)} = {}
      BY <1>1, OneIndex, Irreflexive
    <2>4. /\ failed => \E i : {j \in DOMAIN control : control[j] = Refused(r)} = {i}
          /\ ~failed => {j \in DOMAIN control : control[j] = Refused(r)} = {}
      BY <1>1, OneIndex, Irreflexive
    <2>5. ~(done /\ failed)
      BY <1>1 DEF InOnePlace
    <2>6. QED
      BY <2>2, <2>3, <2>4, <2>5
  <1>3. /\ r \in ToSet(work) => \E i : jobs = {i}
        /\ r \notin ToSet(work) => jobs = {}
    BY <1>1, OneIndex, Irreflexive
  <1>4. /\ resized => \E i : owed = {i}
        /\ ~resized => owed = {}
    <2>1. /\ r.nth \in ToSet(resizes[r.channel]) =>
               \E i : {j \in DOMAIN resizes[r.channel] : resizes[r.channel][j] = r.nth} = {i}
          /\ r.nth \notin ToSet(resizes[r.channel]) =>
               {j \in DOMAIN resizes[r.channel] : resizes[r.channel][j] = r.nth} = {}
      BY <1>1, OneIndex, Irreflexive
    <2>2. CASE r.kind = "resize"
      <3>1. owed = {j \in DOMAIN resizes[r.channel] : resizes[r.channel][j] = r.nth}
        BY <2>2
      <3>2. QED
        BY <2>1, <2>2, <3>1
    <2>3. CASE r.kind # "resize"
      BY <2>3
    <2>4. QED
      BY <2>2, <2>3
  <1>5. Places(r) = {<<"reply", i>> : i \in replies} \cup (IF r \in answered THEN {<<"read", 0>>} ELSE {})
                      \cup {<<"work", i>> : i \in jobs} \cup (IF attached THEN {<<"waiting", 0>>} ELSE {})
                      \cup {<<"resize", i>> : i \in owed}
    BY DEF Places
  <1>6. /\ r \in ToSet(work) \/ attached \/ resized \/ done \/ failed \/ r \in answered
        /\ r \in ToSet(work) => ~attached /\ ~resized /\ ~done /\ ~failed /\ r \notin answered
        /\ attached => ~resized
        /\ attached \/ resized => ~done /\ ~failed /\ r \notin answered
        /\ done => ~failed /\ r \notin answered
        /\ failed => r \notin answered
    BY <1>1 DEF InOnePlace, Owes
  <1> HIDE DEF replies, jobs, owed, done, failed, resized, attached
  <1>7. CASE r \in ToSet(work)
    <2>1. PICK i : jobs = {i}
      BY <1>3, <1>7
    <2>2. Places(r) = {<<"work", i>>}
      BY <1>2, <1>4, <1>5, <1>6, <1>7, <2>1
    <2>3. QED
      BY <2>2
  <1>8. CASE attached
    <2>1. Places(r) = {<<"waiting", 0>>}
      BY <1>2, <1>3, <1>4, <1>5, <1>6, <1>8
    <2>2. QED
      BY <2>1
  <1>9. CASE resized
    <2>1. PICK i : owed = {i}
      BY <1>4, <1>9
    <2>2. Places(r) = {<<"resize", i>>}
      BY <1>2, <1>3, <1>5, <1>6, <1>9, <2>1
    <2>3. QED
      BY <2>2
  <1>10. CASE done \/ failed
    <2>1. PICK i : replies = {i}
      BY <1>2, <1>10
    <2>2. Places(r) = {<<"reply", i>>}
      BY <1>3, <1>4, <1>5, <1>6, <1>10, <2>1
    <2>3. QED
      BY <2>2
  <1>11. CASE r \in answered
    <2>1. Places(r) = {<<"read", 0>>}
      BY <1>2, <1>3, <1>4, <1>5, <1>6, <1>11
    <2>2. QED
      BY <2>1
  <1>12. QED
    BY <1>6, <1>7, <1>8, <1>9, <1>10, <1>11

\* Every request of an open connection gets exactly one reply, however the worker, the
\* owner and the end of the session meet: until it is read the request waits in one
\* place, and after that nowhere (Inner::retire, OutboxSink, Connection::attach).
THEOREM RepliesOnce == Spec => []ExactlyOneReply
  <1>1. IInv => ExactlyOneReply
    BY InOnePlaceOnly DEF ExactlyOneReply
  <1>2. QED
    BY <1>1, Invariant, PTL

\* While the owner serves, it and the connection agree on who is attached and on which
\* resize each waiting request is answered by, up to the commands between them.
THEOREM SidesAgree == Spec => []BothSidesAgree
  <1>1. ASSUME IInv PROVE BothSidesAgree
    <2>1. Typed /\ Orderly /\ AttachedOnBothSides /\ SameResizes
      BY <1>1 DEF IInv
    <2>2. InOrder(queue)
      <3>1. \A i, j \in DOMAIN queue : i < j => <<queue[i], queue[j]>> \in QueueOrder
        BY <2>1 DEF Orderly, Sorted
      <3>2. \A x, y : <<x, y>> \in QueueOrder => ResizeAfter(x, y)
        BY DEF QueueOrder
      <3>3. \A i, j \in DOMAIN queue : i < j => ResizeAfter(queue[i], queue[j])
        BY <3>1, <3>2
      <3>4. QED
        BY <3>3 DEF InOrder, ResizeAfter
    <2>3. \A c \in Channel : \A i, j \in DOMAIN resizes[c] : i < j => resizes[c][i] < resizes[c][j]
      <3>1. \A c \in Channel : \A i, j \in DOMAIN resizes[c] : i < j => <<resizes[c][i], resizes[c][j]>> \in LessThan
        BY <2>1 DEF Orderly, Sorted
      <3>2. QED
        BY <3>1, Less
    <2>4. ResizesInStep
      BY <2>1, <2>2, <2>3 DEF ResizesInStep, SameResizes, Typed, TypeOK
    <2>5. QED
      BY <2>1, <2>4 DEF BothSidesAgree
  <1>2. QED
    BY <1>1, Invariant, PTL

\* When the session is gone or the connection closed, nothing is attached, and no reply
\* after SessionEnded tells of an attachment or a resize that succeeded.
THEOREM EndIsFinal == Spec => []SessionEndIsFinal
  <1>1. ASSUME IInv PROVE SessionEndIsFinal
    <2>1. Orderly /\ Ended
      BY <1>1 DEF IInv
    <2>2. ASSUME NEW i \in DOMAIN control, NEW j \in DOMAIN control, i < j, control[i] = SessionEnded,
                 control[j].ok
          PROVE  \A r \in control[j].re : r.kind = "detach"
      <3>1. <<control[i], control[j]>> \in ControlOrder
        BY <2>1, <2>2 DEF Orderly, Sorted
      <3>2. \A x, y : <<x, y>> \in ControlOrder => (x = SessionEnded => Late(y))
        BY DEF ControlOrder
      <3>3. Late(control[j])
        BY <2>2, <3>1, <3>2
      <3>4. QED
        BY <2>2, <3>3 DEF Late
    <2>3. QED
      BY <2>1, <2>2 DEF SessionEndIsFinal, SessionEndedIsLast, Ended
  <1>2. QED
    BY <1>1, Invariant, PTL
=================================================================================
