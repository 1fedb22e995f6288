------------------------- MODULE PaneSessionsProofs -------------------------
(***************************************************************************)
(* Safety of the sessions behind panes, for any number of apps and panes,  *)
(* any connections lost, apps killed, saves failed and operations.         *)
(*                                                                         *)
(* The inductive invariant IInv has four parts beside the types.  AppsFit: *)
(* every request, reply and event is about a session that its pane may     *)
(* have, nothing is attached while the list of sessions is awaited, and    *)
(* what the app takes for asked is on its way.  OldFits: what is left of a *)
(* lost connection starts no session but its pane's own.  OnDisk: a        *)
(* session that runs, or that a request may still start, is in the file of *)
(* some app, unless it ended, was detached or was cancelled.  InMemory: no *)
(* app forgets such a session that its file still has.                     *)
(*                                                                         *)
(* An app's handler ends in a state S that is Sound and changes the rest   *)
(* as Handled says; the calls it makes on the way only ask more (Follows)  *)
(* or keep what is Going.  A step of the server leaves the apps as they    *)
(* are, and Moves says what it may put on their way.                       *)
(*                                                                         *)
(* What closes spare rests on a second invariant, SeenInv, of the apps     *)
(* none of whose panes has gone (Intact): their references only grow, so   *)
(* the server counts nothing as released, and what they show is attached.  *)
(***************************************************************************)
EXTENDS PaneSessions, FiniteSetTheorems, TLAPS

\* What an app keeps, what it asks for and is told, and what the server knows of a link.
Closes == UNION {[D -> App \X Nat] : D \in SUBSET Session}
States == [at : [Pane -> {"new", "open", "gone"}], session : [Pane -> Session \cup {None}],
           starting : SUBSET Pane, cancels : SUBSET Pane, closes : Closes]
Runs == [ready : BOOLEAN, listed : (SUBSET Session) \cup {None}, pending : SUBSET Pane, detaching : SUBSET Pane,
         discarding : SUBSET Session, cancelling : SUBSET Pane, refs : (SUBSET Session) \cup {None},
         shown : SUBSET Pane]
Works == [k : {"refs"}, set : SUBSET Session]
           \cup [k : {"attach"}, p : Pane, s : Session \cup {None}, new : BOOLEAN]
           \cup [k : {"discard"}, s : Session, op : App \X Nat]
           \cup [k : {"cancel"}, s : Session]
           \cup [k : {"detach"}, p : Pane, s : Session \cup {None}]
Replies == [k : {"failed"}, p : Pane, s : Session \cup {None}, new : BOOLEAN, missing : BOOLEAN]
             \cup [k : {"discard"}, s : Session] \cup [k : {"cancel"}, s : Session]
Events == [k : {"attached"}, p : Pane, s : Session, new : BOOLEAN] \cup [k : {"ended"}, s : Session]
Conns == [up : BOOLEAN, q : Seq(Works), refs : SUBSET Session, released : SUBSET Session,
          created : SUBSET Session, attached : SUBSET (Pane \X (Session \cup {None}))]
Locals == [m : States, r : Runs, q : Seq(Works), n : Nat]

Typed ==
  /\ mem \in [App -> States] /\ disk \in [App -> States]
  /\ run \in [App -> Runs] /\ conns \in [Links -> Conns]
  /\ replies \in [App -> Seq(Replies)] /\ events \in [App -> Seq(Events)]
  /\ status \in [Session -> {"none", "live", "ended", "gone"}]
  /\ cancelled \subseteq Session /\ kept \subseteq Session /\ detached \subseteq Session
  /\ ops \in [App -> Nat] /\ failures \in Nat

Over(s) == status[s] \in {"ended", "gone"}

\* A pane without a session may start one, and what it shows once ran.
StateFits(a, m) ==
  /\ \A p \in Pane : m.at[p] # "new" /\ m.session[p] = None => <<a, p>> \in Fresh
  /\ \A p \in Pane : m.at[p] = "new" => m.session[p] = None
  /\ \A p \in Pane : m.session[p] # None => status[m.session[p]] # "none"
  /\ m.starting \subseteq Open(m)
  /\ \A p \in m.cancels : m.at[p] = "gone" /\ <<a, p>> \in Fresh

\* An attach, and what comes of it, is about the session its pane shows or starts.
AttachFits(a, m, x) ==
  /\ m.at[x.p] # "new"
  /\ x.s # None => status[x.s] # "none"
  /\ x.new => <<a, x.p>> \in Fresh /\ x.s \in {None, <<a, x.p>>} /\ m.session[x.p] \in {None, <<a, x.p>>}
  /\ ~x.new => x.s # None /\ m.session[x.p] = x.s

RequestFits(a, m, w) ==
  /\ w.k = "attach" => AttachFits(a, m, w)
  /\ w.k = "cancel" => w.s[1] = a

ReplyFits(a, m, e) ==
  /\ e.k = "failed" => AttachFits(a, m, e) /\ (e.missing => e.s # None /\ Over(e.s))
  /\ e.k = "discard" => Over(e.s) \/ e.s \in kept
  /\ e.k = "cancel" => e.s[1] = a /\ e.s \in cancelled /\ status[e.s] # "live"

EventFits(a, m, e) ==
  /\ e.k = "attached" => AttachFits(a, m, e)
  /\ e.k = "ended" => Over(e.s)

MessagesFit(a, m, q, rep, ev) ==
  /\ \A w \in Range(q) : RequestFits(a, m, w)
  /\ \A e \in Range(rep) : ReplyFits(a, m, e)
  /\ \A e \in Range(ev) : EventFits(a, m, e)

\* Between the list of sessions and the catalog nothing is attached, and the list
\* has what the app shows and runs.
Listing(m, r, q, rep, ev) ==
  r.listed # None =>
    /\ r.pending = {}
    /\ \A s \in Shows(m) : s \in r.listed \/ Over(s)
    /\ \A w \in Range(q) : w.k # "attach"
    /\ \A e \in Range(rep) : e.k # "failed"
    /\ \A e \in Range(ev) : e.k # "attached"

Awaits(q, rep, k, s) == \E x \in Range(q) \cup Range(rep) : x.k = k /\ x.s = s

\* What the app takes for asked is on its way.
Awaiting(a, r, q, rep) ==
  /\ \A s \in r.discarding : Awaits(q, rep, "discard", s)
  /\ \A p \in r.cancelling : Awaits(q, rep, "cancel", <<a, p>>)

\* What is to be cleaned up was asked.
Clean(a, m, r) ==
  r.ready /\ (r.listed = None \/ a \notin Remote) =>
    DOMAIN m.closes \subseteq r.discarding /\ m.cancels \subseteq r.cancelling

Fits(a, m, r, q, rep, ev) ==
  /\ StateFits(a, m) /\ MessagesFit(a, m, q, rep, ev) /\ r.detaching \subseteq r.pending
  /\ Listing(m, r, q, rep, ev)
  /\ r.ready => Awaiting(a, r, q, rep)
  /\ ~r.ready => rep = <<>> /\ ev = <<>> /\ r.listed = None

AppsFit ==
  \A a \in App :
    /\ Fits(a, mem[a], run[a], conns[<<a, Now>>].q, replies[a], events[a])
    /\ failures = 0 => Clean(a, mem[a], run[a])
    /\ StateFits(a, disk[a])
    /\ conns[<<a, Now>>].up => run[a].ready

\* The requests of a connection that the app has lost.
OldFits ==
  \A a \in App : \A w \in Range(conns[<<a, Old>>].q) :
    w.k = "attach" =>
      /\ w.s # None => status[w.s] # "none"
      /\ w.s = None => w.new
      /\ w.new => <<a, w.p>> \in Fresh /\ w.s \in {None, <<a, w.p>>}

\* A session that somebody must remember once it is started.
Lasting(s) ==
  s \notin detached \cup kept /\ (status[s] = "live" \/ (status[s] = "none" /\ s \notin cancelled))

Begins(w, s) == w.k = "attach" /\ w.s = None /\ w.p = s[2]

Started(s) ==
  status[s] = "live" \/ \E v \in {Now, Old} : \E w \in Range(conns[<<s[1], v>>].q) : Begins(w, s)

OnDisk == \A s \in Session : Lasting(s) /\ Started(s) => \E a \in App : RemembersIt(a, disk[a], s)

\* Memory forgets nothing that the disk still has.
InMemory == \A s \in Session, a \in App : Lasting(s) /\ RemembersIt(a, disk[a], s) => RemembersIt(a, mem[a], s)

IInv == Typed /\ AppsFit /\ OldFits /\ OnDisk /\ InMemory
-----------------------------------------------------------------------------
(* Sequences *)

\* A request is served, a message received, from the head.
LEMMA TailOf ==
  ASSUME NEW S, NEW s \in Seq(S), s # <<>>
  PROVE  /\ Head(s) \in S /\ Head(s) \in Range(s) /\ Tail(s) \in Seq(S)
         /\ Range(s) = {Head(s)} \cup Range(Tail(s))
  <1>1. /\ Head(s) = s[1] /\ 1 \in DOMAIN s /\ Tail(s) \in Seq(S) /\ Len(Tail(s)) = Len(s) - 1
        /\ \A i \in 1 .. Len(s) - 1 : Tail(s)[i] = s[i + 1]
    OBVIOUS
  <1>2. DOMAIN s = 1 .. Len(s) /\ DOMAIN Tail(s) = 1 .. Len(s) - 1 /\ Len(s) \in Nat
    BY <1>1
  <1>3. ASSUME NEW x \in Range(s) PROVE x \in {Head(s)} \cup Range(Tail(s))
    <2>1. PICK i \in 1 .. Len(s) : x = s[i]
      BY <1>2, <1>3 DEF Range
    <2>2. CASE i = 1
      BY <1>1, <2>1, <2>2
    <2>3. CASE i # 1
      <3>1. i - 1 \in DOMAIN Tail(s) /\ Tail(s)[i - 1] = x
        BY <1>1, <1>2, <2>1, <2>3
      <3>2. QED
        BY <3>1 DEF Range
    <2>4. QED
      BY <2>2, <2>3
  <1>4. ASSUME NEW x \in Range(Tail(s)) PROVE x \in Range(s)
    <2>1. PICK i \in 1 .. Len(s) - 1 : x = Tail(s)[i]
      BY <1>2, <1>4 DEF Range
    <2>2. i + 1 \in DOMAIN s /\ s[i + 1] = x
      BY <1>1, <1>2, <2>1
    <2>3. QED
      BY <2>2 DEF Range
  <1>5. Head(s) \in Range(s)
    BY <1>1 DEF Range
  <1>6. QED
    BY <1>1, <1>2, <1>3, <1>4, <1>5

LEMMA Joined ==
  \A S : \A s, t \in Seq(S) : s \o t \in Seq(S) /\ Range(s \o t) = Range(s) \cup Range(t)
  <1> SUFFICES ASSUME NEW S, NEW s \in Seq(S), NEW t \in Seq(S)
               PROVE  s \o t \in Seq(S) /\ Range(s \o t) = Range(s) \cup Range(t)
    OBVIOUS
  <1>0. s \o t \in Seq(S)
    OBVIOUS
  <1>1. PICK u \in Seq(S) : u = s \o t
    BY <1>0
  <1>2. /\ Len(u) = Len(s) + Len(t) /\ Len(s) \in Nat /\ Len(t) \in Nat
        /\ \A i \in 1 .. Len(s) : u[i] = s[i]
        /\ \A i \in 1 .. Len(t) : u[Len(s) + i] = t[i]
        /\ DOMAIN u = 1 .. Len(u) /\ DOMAIN s = 1 .. Len(s) /\ DOMAIN t = 1 .. Len(t)
    BY <1>1
  <1>3. ASSUME NEW x \in Range(u) PROVE x \in Range(s) \cup Range(t)
    <2>1. PICK i \in DOMAIN u : x = u[i]
      BY <1>3 DEF Range
    <2>2. CASE i <= Len(s)
      <3>1. i \in DOMAIN s /\ s[i] = x
        BY <1>2, <2>1, <2>2
      <3>2. QED
        BY <3>1 DEF Range
    <2>3. CASE i > Len(s)
      <3>1. i - Len(s) \in DOMAIN t /\ t[i - Len(s)] = x
        BY <1>2, <2>1, <2>3
      <3>2. QED
        BY <3>1 DEF Range
    <2>4. QED
      BY <1>2, <2>1, <2>2, <2>3
  <1>4. ASSUME NEW x \in Range(s) PROVE x \in Range(u)
    <2>1. PICK i \in DOMAIN s : x = s[i]
      BY <1>4 DEF Range
    <2>2. i \in DOMAIN u /\ u[i] = x
      BY <1>2, <2>1
    <2>3. QED
      BY <2>2 DEF Range
  <1>5. ASSUME NEW x \in Range(t) PROVE x \in Range(u)
    <2>1. PICK i \in DOMAIN t : x = t[i]
      BY <1>5 DEF Range
    <2>2. Len(s) + i \in DOMAIN u /\ u[Len(s) + i] = x
      BY <1>2, <2>1
    <2>3. QED
      BY <2>2 DEF Range
  <1>6. QED
    BY <1>1, <1>3, <1>4, <1>5

LEMMA None1 == \A S : <<>> \in Seq(S) /\ Range(<<>>) = {}
  BY DEF Range

LEMMA One ==
  ASSUME NEW S, NEW x \in S
  PROVE  <<x>> \in Seq(S) /\ Range(<<x>>) = {x}
  <1>1. DOMAIN <<x>> = {1} /\ <<x>>[1] = x
    OBVIOUS
  <1>2. <<x>> \in Seq(S)
    OBVIOUS
  <1>3. Range(<<x>>) = {x}
    BY <1>1 DEF Range
  <1>4. QED
    BY <1>2, <1>3

\* What is sent goes to the end.
LEMMA Appended == \A S : \A s \in Seq(S), x \in S :
                    Append(s, x) \in Seq(S) /\ Range(Append(s, x)) = Range(s) \cup {x}
  <1> SUFFICES ASSUME NEW S, NEW s \in Seq(S), NEW x \in S
               PROVE  Append(s, x) \in Seq(S) /\ Range(Append(s, x)) = Range(s) \cup {x}
    OBVIOUS
  <1>1. Append(s, x) = s \o <<x>>
    OBVIOUS
  <1>2. PICK w \in Seq(S) : w = <<x>> /\ Range(w) = {x}
    BY One
  <1>3. s \o w \in Seq(S) /\ Range(s \o w) = Range(s) \cup Range(w)
    BY Joined
  <1>4. QED
    BY <1>1, <1>2, <1>3

LEMMA ElementsOf == \A S : \A s \in Seq(S) : Range(s) \subseteq S
  <1> SUFFICES ASSUME NEW S, NEW s \in Seq(S), NEW i \in DOMAIN s PROVE s[i] \in S
    BY DEF Range
  <1>1. QED
    OBVIOUS

LEMMA PrefixOf ==
  ASSUME NEW S, NEW s \in Seq(S), NEW n \in Nat, n <= Len(s)
  PROVE  SubSeq(s, 1, n) \in Seq(S) /\ Range(SubSeq(s, 1, n)) \subseteq Range(s)
  <1>1. SubSeq(s, 1, n) \in Seq(S)
    OBVIOUS
  <1>2. PICK u \in Seq(S) : u = SubSeq(s, 1, n)
    BY <1>1
  <1>3. Len(u) = n /\ \A i \in 1 .. n : u[i] = s[i]
    BY <1>2
  <1>4. DOMAIN u = 1 .. n /\ \A i \in 1 .. n : i \in DOMAIN s
    BY <1>3
  <1>5. Range(u) \subseteq Range(s)
    BY <1>3, <1>4 DEF Range
  <1>6. QED
    BY <1>1, <1>2, <1>5

\* SetToSeq lists a finite set.
LEMMA Listed ==
  ASSUME NEW S, IsFiniteSet(S)
  PROVE  SetToSeq(S) \in Seq(S) /\ Range(SetToSeq(S)) = S
  <1> DEFINE n == Cardinality(S)
  <1>1. n \in Nat /\ ExistsBijection(1..n, S)
    BY FS_CardinalityType
  <1>2. \E f \in [1..n -> S] : IsInjective(f)
    BY <1>1 DEF ExistsBijection, Bijection, Injection, IsInjective
  <1>3. SetToSeq(S) \in [1..n -> S] /\ IsInjective(SetToSeq(S))
    BY <1>2 DEF SetToSeq
  <1>4. PICK f \in [1..n -> S] : f = SetToSeq(S) /\ IsInjective(f)
    BY <1>3
  <1>5. f \in Injection(1..n, S)
    BY <1>4 DEF Injection, IsInjective
  <1>6. IsFiniteSet(1..n) /\ Cardinality(1..n) = n
    BY <1>1, FS_Interval
  <1>7. f \in Surjection(1..n, S)
    BY <1>5, <1>6, FS_Injection
  <1>8. Range(f) = S
    BY <1>4, <1>7 DEF Surjection, Range
  <1>9. f \in Seq(S)
    BY <1>1, <1>4
  <1>10. QED
    BY <1>4, <1>8, <1>9
-----------------------------------------------------------------------------
(* What the calls that every handler makes do *)

LEMMA Constants ==
  /\ Session \subseteq App \X Pane /\ None \notin Session
  /\ \A P \in SUBSET Pane : IsFiniteSet(P)
  /\ \A P \in SUBSET Session : IsFiniteSet(P)
  <1>1. Session \subseteq App \X Pane /\ None \notin Session
    BY PaneSessionsAssumption DEF Session
  <1>2. IsFiniteSet(App \X Pane)
    BY PaneSessionsAssumption, FS_Product
  <1>3. IsFiniteSet(Session)
    BY <1>1, <1>2, FS_Subset
  <1>4. QED
    BY <1>1, <1>3, FS_Subset, PaneSessionsAssumption

LEMMA RecordSet ==
  ASSUME NEW P, IsFiniteSet(P), NEW f, f = [p \in P |-> f[p]], NEW S, S = {f[p] : p \in P}
  PROVE  IsFiniteSet(S)
  <1>1. f \in Surjection(P, S)
    BY DEF Surjection
  <1>2. QED
    BY <1>1, FS_Surjection

LEMMA Imaged ==
  ASSUME NEW W, NEW P, IsFiniteSet(P), NEW f \in [P -> W], NEW S, S = {f[p] : p \in P}
  PROVE  SetToSeq(S) \in Seq(W) /\ Range(SetToSeq(S)) = S
  <1>1. IsFiniteSet(S)
    BY RecordSet
  <1>2. SetToSeq(S) \in Seq(S) /\ Range(SetToSeq(S)) = S
    BY <1>1, Listed
  <1>3. S \subseteq W
    OBVIOUS
  <1>4. PICK u \in Seq(S) : u = SetToSeq(S)
    BY <1>2
  <1>5. u \in Seq(W)
    BY <1>3, <1>4
  <1>6. QED
    BY <1>2, <1>4, <1>5

\* What discard_pending asks, in some order.
LEMMA TypeOfCancels ==
  ASSUME NEW a \in App, NEW P \in SUBSET Pane, \A p \in P : <<a, p>> \in Fresh
  PROVE  /\ Cancels(a, P) \in Seq(Works)
         /\ Range(Cancels(a, P)) = {[k |-> "cancel", s |-> <<a, p>>] : p \in P}
  <1> DEFINE f == [p \in P |-> [k |-> "cancel", s |-> <<a, p>>]]
  <1>1. f \in [P -> Works] /\ {f[p] : p \in P} = {[k |-> "cancel", s |-> <<a, p>>] : p \in P}
    BY DEF Works, Session
  <1>2. IsFiniteSet(P)
    BY Constants
  <1>3. PICK S : S = {[k |-> "cancel", s |-> <<a, p>>] : p \in P}
    OBVIOUS
  <1>4. S = {f[p] : p \in P}
    BY <1>1, <1>3
  <1> HIDE DEF f
  <1>5. SetToSeq(S) \in Seq(Works) /\ Range(SetToSeq(S)) = S
    BY <1>1, <1>2, <1>4, Imaged
  <1>6. QED
    BY <1>3, <1>5 DEF Cancels

LEMMA TypeOfCloses ==
  ASSUME NEW c \in Closes
  PROVE  DOMAIN c \subseteq Session /\ \A s \in DOMAIN c : c[s] \in App \X Nat
  BY DEF Closes

LEMMA TypeOfDiscards ==
  ASSUME NEW S \in Locals, NEW P \in SUBSET (DOMAIN S.m.closes)
  PROVE  /\ Discards(S, P) \in Seq(Works)
         /\ Range(Discards(S, P)) = {[k |-> "discard", s |-> s, op |-> S.m.closes[s]] : s \in P}
  <1>1. S.m.closes \in Closes
    BY DEF Locals, States
  <1>2. P \subseteq Session /\ \A s \in P : S.m.closes[s] \in App \X Nat
    BY <1>1, TypeOfCloses
  <1>3. IsFiniteSet(P)
    BY <1>2, Constants
  <1>4. [s \in P |-> [k |-> "discard", s |-> s, op |-> S.m.closes[s]]] \in [P -> Works]
    BY <1>2 DEF Works
  <1>5. PICK f \in [P -> Works] : f = [s \in P |-> [k |-> "discard", s |-> s, op |-> S.m.closes[s]]]
    BY <1>4
  <1>6. PICK W : W = {f[s] : s \in P}
    OBVIOUS
  <1>7. SetToSeq(W) \in Seq(Works) /\ Range(SetToSeq(W)) = W
    BY <1>3, <1>6, Imaged
  <1>8. W = {[k |-> "discard", s |-> s, op |-> S.m.closes[s]] : s \in P}
    BY <1>5, <1>6
  <1>9. QED
    BY <1>7, <1>8 DEF Discards

\* What T may differ in from S when it only asks more, and nothing that starts a session.
Follows(a, S, T) ==
  /\ T \in Locals /\ T.m = S.m /\ T.n = S.n
  /\ T.r.ready = S.r.ready /\ T.r.listed = S.r.listed
  /\ T.r.pending = S.r.pending /\ T.r.detaching = S.r.detaching
  /\ S.r.discarding \subseteq T.r.discarding /\ S.r.cancelling \subseteq T.r.cancelling
  /\ Range(S.q) \subseteq Range(T.q)
  /\ \A w \in Range(T.q) :
       w \in Range(S.q) \/ (w.k \in {"refs", "detach", "discard", "cancel"} /\ (w.k = "cancel" => w.s[1] = a))
  /\ S.r.ready =>
       /\ \A s \in T.r.discarding : s \in S.r.discarding \/ \E w \in Range(T.q) : w.k = "discard" /\ w.s = s
       /\ \A p \in T.r.cancelling :
            p \in S.r.cancelling \/ \E w \in Range(T.q) : w.k = "cancel" /\ w.s = <<a, p>>

\* Calls that only ask more may follow one another.
LEMMA FollowsOn ==
  ASSUME NEW a, NEW S, NEW T, NEW U, Follows(a, S, T), Follows(a, T, U)
  PROVE  Follows(a, S, U)
  <1>1. /\ U \in Locals /\ U.m = S.m /\ U.n = S.n
        /\ U.r.ready = S.r.ready /\ U.r.listed = S.r.listed
        /\ U.r.pending = S.r.pending /\ U.r.detaching = S.r.detaching
        /\ S.r.discarding \subseteq U.r.discarding /\ S.r.cancelling \subseteq U.r.cancelling
        /\ Range(S.q) \subseteq Range(U.q)
    BY DEF Follows
  <1>2. \A w \in Range(U.q) :
          w \in Range(S.q) \/ (w.k \in {"refs", "detach", "discard", "cancel"} /\ (w.k = "cancel" => w.s[1] = a))
    BY DEF Follows
  <1>3. S.r.ready =>
       /\ \A s \in U.r.discarding : s \in S.r.discarding \/ \E w \in Range(U.q) : w.k = "discard" /\ w.s = s
       /\ \A p \in U.r.cancelling :
            p \in S.r.cancelling \/ \E w \in Range(U.q) : w.k = "cancel" /\ w.s = <<a, p>>
    BY SMTT(30) DEF Follows
  <1>4. QED
    BY <1>1, <1>2, <1>3 DEF Follows

LEMMA LocalTypes ==
  ASSUME NEW S \in Locals
  PROVE  /\ S.m \in States /\ S.r \in Runs /\ S.q \in Seq(Works) /\ S.n \in Nat
         /\ Shows(S.m) \subseteq Session /\ Open(S.m) \subseteq Pane
         /\ S.m.cancels \subseteq Pane /\ DOMAIN S.m.closes \subseteq Session
         /\ S.m.session \in [Pane -> Session \cup {None}]
  <1>1. S.m \in States /\ S.r \in Runs /\ S.q \in Seq(Works) /\ S.n \in Nat
    BY DEF Locals
  <1>2. S.m.cancels \subseteq Pane /\ S.m.closes \in Closes /\ S.m.session \in [Pane -> Session \cup {None}]
    BY <1>1 DEF States
  <1>3. QED
    BY <1>1, <1>2, TypeOfCloses DEF Shows, Open

\* A send puts its requests after those in flight, while the app is connected.
LEMMA SendType ==
  ASSUME NEW S \in Locals, NEW works \in Seq(Works)
  PROVE  /\ Send(S, works) \in Locals
         /\ Send(S, works).m = S.m /\ Send(S, works).r = S.r /\ Send(S, works).n = S.n
         /\ Range(S.q) \subseteq Range(Send(S, works).q)
         /\ Range(Send(S, works).q) \subseteq Range(S.q) \cup Range(works)
         /\ S.r.ready => Range(works) \subseteq Range(Send(S, works).q)
  <1>1. /\ S.q \o works \in Seq(Works)
        /\ Range(S.q \o works) = Range(S.q) \cup Range(works)
    BY LocalTypes, Joined
  <1>2. CASE S.r.ready
    <2>1. Send(S, works) = [S EXCEPT !.q = S.q \o works]
      BY <1>2 DEF Send
    <2>2. [S EXCEPT !.q = S.q \o works] \in Locals
      BY <1>1 DEF Locals
    <2>3. [S EXCEPT !.q = S.q \o works].m = S.m /\ [S EXCEPT !.q = S.q \o works].r = S.r
          /\ [S EXCEPT !.q = S.q \o works].n = S.n /\ [S EXCEPT !.q = S.q \o works].q = S.q \o works
      BY DEF Locals
    <2>4. QED
      BY <1>1, <2>1, <2>2, <2>3
  <1>3. CASE ~S.r.ready
    BY <1>3 DEF Send
  <1>4. QED
    BY <1>2, <1>3

LEMMA Stays == \A a : \A S \in Locals : Follows(a, S, S)
  BY DEF Follows

\* A call that sends such requests and notes them as asked only asks more.
LEMMA AsksMore ==
  ASSUME NEW a, NEW S \in Locals, NEW U \in Locals, NEW works \in Seq(Works),
         U.m = S.m, U.n = S.n, U.q = S.q,
         U.r.ready = S.r.ready, U.r.listed = S.r.listed,
         U.r.pending = S.r.pending, U.r.detaching = S.r.detaching,
         S.r.discarding \subseteq U.r.discarding, S.r.cancelling \subseteq U.r.cancelling,
         \A w \in Range(works) :
           w.k \in {"refs", "detach", "discard", "cancel"} /\ (w.k = "cancel" => w.s[1] = a),
         \A s \in U.r.discarding :
           s \in S.r.discarding \/ \E w \in Range(works) : w.k = "discard" /\ w.s = s,
         \A p \in U.r.cancelling :
           p \in S.r.cancelling \/ \E w \in Range(works) : w.k = "cancel" /\ w.s = <<a, p>>
  PROVE  Follows(a, S, Send(U, works))
  <1>1. PICK T \in Locals : T = Send(U, works)
    BY SendType
  <1>2. /\ T.m = S.m /\ T.n = S.n /\ T.r = U.r
        /\ Range(S.q) \subseteq Range(T.q) /\ Range(T.q) \subseteq Range(S.q) \cup Range(works)
        /\ S.r.ready => Range(works) \subseteq Range(T.q)
    BY <1>1, SendType
  <1>3. \A w \in Range(T.q) :
          w \in Range(S.q) \/ (w.k \in {"refs", "detach", "discard", "cancel"} /\ (w.k = "cancel" => w.s[1] = a))
    BY <1>2
  <1>4. S.r.ready =>
       /\ \A s \in T.r.discarding : s \in S.r.discarding \/ \E w \in Range(T.q) : w.k = "discard" /\ w.s = s
       /\ \A p \in T.r.cancelling :
            p \in S.r.cancelling \/ \E w \in Range(T.q) : w.k = "cancel" /\ w.s = <<a, p>>
    BY ZenonT(30), <1>2
  <1>5. Follows(a, S, T)
    BY <1>1, <1>2, <1>3, <1>4 DEF Follows
  <1>6. QED
    BY <1>1, <1>5

\* sync_references and sync_visible only ask more.
LEMMA SyncFollows ==
  ASSUME NEW a, NEW S \in Locals
  PROVE  Follows(a, S, SyncReferences(S))
  <1>1. CASE ~(S.r.ready /\ S.r.refs # Shows(S.m))
    BY <1>1, Stays DEF SyncReferences
  <1>2. CASE S.r.ready /\ S.r.refs # Shows(S.m)
    <2>1. PICK w \in Works : w = [k |-> "refs", set |-> Shows(S.m)]
      BY LocalTypes DEF Works
    <2>2. PICK q \in Seq(Works) : q = <<w>> /\ Range(q) = {w}
      BY One
    <2>3. [S EXCEPT !.r.refs = Shows(S.m)] \in Locals
      BY LocalTypes DEF Locals, Runs
    <2>4. PICK U \in Locals : U = [S EXCEPT !.r.refs = Shows(S.m)]
      BY <2>3
    <2>5. /\ U.m = S.m /\ U.n = S.n /\ U.q = S.q
          /\ U.r.ready = S.r.ready /\ U.r.listed = S.r.listed /\ U.r.pending = S.r.pending
          /\ U.r.detaching = S.r.detaching /\ U.r.discarding = S.r.discarding
          /\ U.r.cancelling = S.r.cancelling
      BY <2>4 DEF Locals, Runs
    <2>6. SyncReferences(S) = Send(U, q)
      BY <1>2, <2>1, <2>2, <2>4 DEF SyncReferences
    <2>7. w.k = "refs"
      BY <2>1
    <2>8. Follows(a, S, Send(U, q))
      BY <2>2, <2>5, <2>7, AsksMore
    <2>9. QED
      BY <2>6, <2>8
  <1>3. QED
    BY <1>1, <1>2

LEMMA VisibleFollows ==
  ASSUME NEW a, NEW S \in Locals
  PROVE  Follows(a, S, SyncVisible(S))
  <1> DEFINE hidden == S.r.shown \ Open(S.m)
  <1>1. hidden \subseteq Pane /\ IsFiniteSet(hidden)
    <2>1. hidden \subseteq Pane
      BY LocalTypes DEF Runs
    <2>2. QED
      BY <2>1, Constants
  <1>2. [p \in hidden |-> [k |-> "detach", p |-> p, s |-> S.m.session[p]]] \in [hidden -> Works]
    BY <1>1, LocalTypes DEF Works
  <1>3. PICK P : P = hidden
    OBVIOUS
  <1>4. PICK f \in [P -> Works] : f = [p \in P |-> [k |-> "detach", p |-> p, s |-> S.m.session[p]]]
    BY <1>2, <1>3
  <1>5. PICK W : W = {f[p] : p \in P}
    OBVIOUS
  <1>6. SetToSeq(W) \in Seq(Works) /\ Range(SetToSeq(W)) = W
    BY <1>1, <1>3, <1>5, Imaged
  <1>7. W = {[k |-> "detach", p |-> p, s |-> S.m.session[p]] : p \in P}
    BY <1>4, <1>5
  <1>8. PICK q \in Seq(Works) : q = SetToSeq(W)
    BY <1>6
  <1>9. \A w \in Range(q) : w.k = "detach"
    BY <1>6, <1>7, <1>8
  <1>10. PICK V : V = SyncReferences(S)
    OBVIOUS
  <1>11. Follows(a, S, V)
    BY <1>10, SyncFollows
  <1>12. V \in Locals
    BY <1>11 DEF Follows
  <1>13. [V EXCEPT !.r.shown = @ \ P] \in Locals
    BY <1>12 DEF Locals, Runs
  <1>14. PICK U \in Locals : U = [V EXCEPT !.r.shown = @ \ P]
    BY <1>13
  <1>15. /\ U.m = V.m /\ U.n = V.n /\ U.q = V.q
         /\ U.r.ready = V.r.ready /\ U.r.listed = V.r.listed /\ U.r.pending = V.r.pending
         /\ U.r.detaching = V.r.detaching /\ U.r.discarding = V.r.discarding
         /\ U.r.cancelling = V.r.cancelling
    BY <1>12, <1>14 DEF Locals, Runs
  <1>16. Follows(a, V, Send(U, q))
    BY <1>9, <1>12, <1>15, AsksMore
  <1>17. SyncVisible(S) = Send(U, q)
    BY <1>3, <1>7, <1>8, <1>10, <1>14 DEF SyncVisible
  <1>18. QED
    BY <1>11, <1>16, <1>17, FollowsOn

\* What is to be cleaned up was asked, by what a handler has.
Asked(a, S) == Clean(a, S.m, S.r)

LEMMA StaysAsked ==
  ASSUME NEW a, NEW S, NEW T, Follows(a, S, T), Asked(a, S)
  PROVE  Asked(a, T)
  BY DEF Follows, Asked, Clean

\* discard_pending asks what is to be cleaned up and was not asked.
LEMMA PendingFollows ==
  ASSUME NEW a \in App, NEW S \in Locals, NEW saved \in BOOLEAN, \A p \in S.m.cancels : <<a, p>> \in Fresh
  PROVE  Follows(a, S, DiscardPending(a, S, saved)) /\ (saved => Asked(a, DiscardPending(a, S, saved)))
  <1>1. CASE ~S.r.ready \/ (a \in Remote /\ S.r.listed # None)
    <2>1. DiscardPending(a, S, saved) = S
      BY <1>1 DEF DiscardPending
    <2>2. QED
      BY <1>1, <2>1, Stays DEF Asked, Clean
  <1>2. CASE S.r.ready /\ ~(a \in Remote /\ S.r.listed # None)
    <2>1. PICK P : P = S.m.cancels \ S.r.cancelling
      OBVIOUS
    <2>2. PICK D : D = IF saved THEN DOMAIN S.m.closes \ S.r.discarding ELSE {}
      OBVIOUS
    <2>3. P \subseteq Pane /\ P \subseteq S.m.cancels
      BY <2>1, LocalTypes
    <2>4. PICK q \in Seq(Works) : q = Cancels(a, P) /\ Range(q) = {[k |-> "cancel", s |-> <<a, p>>] : p \in P}
      BY <2>3, TypeOfCancels
    <2>5. [S EXCEPT !.r.cancelling = @ \cup P] \in Locals
      BY <2>3 DEF Locals, Runs
    <2>6. PICK U \in Locals : U = [S EXCEPT !.r.cancelling = @ \cup P]
      BY <2>5
    <2>7. /\ U.m = S.m /\ U.n = S.n /\ U.q = S.q
          /\ U.r.ready = S.r.ready /\ U.r.listed = S.r.listed /\ U.r.pending = S.r.pending
          /\ U.r.detaching = S.r.detaching /\ U.r.discarding = S.r.discarding
          /\ U.r.cancelling = S.r.cancelling \cup P
      BY <2>6 DEF Locals, Runs
    <2>8. /\ \A w \in Range(q) : w.k = "cancel" /\ w.s[1] = a
          /\ \A p \in P : \E w \in Range(q) : w.k = "cancel" /\ w.s = <<a, p>>
      <3>1. \A w \in Range(q) : w.k = "cancel" /\ w.s[1] = a
        BY <2>4
      <3>2. ASSUME NEW p \in P PROVE \E w \in Range(q) : w.k = "cancel" /\ w.s = <<a, p>>
        <4>1. [k |-> "cancel", s |-> <<a, p>>] \in Range(q)
          BY <2>4
        <4>2. QED
          BY <4>1
      <3>3. QED
        BY <3>1, <3>2
    <2>9. PICK S1 : S1 = Send(U, q)
      OBVIOUS
    <2>10. Follows(a, S, S1)
      BY <2>7, <2>8, <2>9, AsksMore
    <2>11. S1.r = U.r /\ S1 \in Locals /\ S1.m = S.m
      BY <2>7, <2>9, SendType
    <2>12. PICK V : V = SyncReferences(S1)
      OBVIOUS
    <2>13. Follows(a, S1, V)
      BY <2>11, <2>12, SyncFollows
    <2>14. V \in Locals /\ V.m = S.m /\ V.r.ready
      BY <1>2, <2>7, <2>11, <2>13 DEF Follows
    <2>15. D \subseteq Session /\ D \subseteq DOMAIN V.m.closes
      BY <2>2, <2>14, LocalTypes
    <2>16. PICK d \in Seq(Works) : d = Discards(V, D)
                                   /\ Range(d) = {[k |-> "discard", s |-> s, op |-> V.m.closes[s]] : s \in D}
      BY <2>14, <2>15, TypeOfDiscards
    <2>17. /\ \A w \in Range(d) : w.k = "discard"
           /\ \A s \in D : \E w \in Range(d) : w.k = "discard" /\ w.s = s
      <3>1. \A w \in Range(d) : w.k = "discard"
        BY <2>16
      <3>2. ASSUME NEW s \in D PROVE \E w \in Range(d) : w.k = "discard" /\ w.s = s
        <4>1. [k |-> "discard", s |-> s, op |-> V.m.closes[s]] \in Range(d)
          BY <2>16
        <4>2. QED
          BY <4>1
      <3>3. QED
        BY <3>1, <3>2
    <2>18. [V EXCEPT !.r.discarding = @ \cup D] \in Locals
      BY <2>14, <2>15 DEF Locals, Runs
    <2>19. PICK X \in Locals : X = [V EXCEPT !.r.discarding = @ \cup D]
      BY <2>18
    <2>20. /\ X.m = V.m /\ X.n = V.n /\ X.q = V.q
           /\ X.r.ready = V.r.ready /\ X.r.listed = V.r.listed /\ X.r.pending = V.r.pending
           /\ X.r.detaching = V.r.detaching /\ X.r.cancelling = V.r.cancelling
           /\ X.r.discarding = V.r.discarding \cup D
      BY <2>14, <2>19 DEF Locals, Runs
    <2>21. Follows(a, V, Send(X, d))
      BY <2>14, <2>17, <2>20, AsksMore
    <2>22. Follows(a, S, Send(X, d))
      BY <2>10, <2>13, <2>21, FollowsOn
    <2>23. Discards(V, D) = Discards(S, D)
      BY <2>14 DEF Discards
    <2>24. DiscardPending(a, S, saved) = Send(X, d)
      BY <1>2, <2>1, <2>2, <2>4, <2>6, <2>9, <2>12, <2>16, <2>19, <2>23 DEF DiscardPending
    <2>25. Send(X, d).m = S.m /\ Send(X, d).r = X.r
      BY <2>14, <2>20, SendType
    <2>26. S.m.cancels \subseteq X.r.cancelling
      BY <2>1, <2>7, <2>11, <2>13, <2>20 DEF Follows
    <2>27. saved => DOMAIN S.m.closes \subseteq X.r.discarding
      BY <2>2, <2>7, <2>11, <2>13, <2>20 DEF Follows
    <2>28. saved => Asked(a, Send(X, d))
      BY <2>25, <2>26, <2>27 DEF Asked, Clean
    <2>29. QED
      BY <2>22, <2>24, <2>28
  <1>3. QED
    BY <1>1, <1>2

FitsWith(a, S, rep, ev) == S \in Locals /\ Fits(a, S.m, S.r, S.q, rep, ev)

\* What only asks more goes on to fit.
LEMMA FollowsFits ==
  ASSUME NEW a, NEW S, NEW T, NEW rep, NEW ev, FitsWith(a, S, rep, ev), Follows(a, S, T)
  PROVE  FitsWith(a, T, rep, ev)
  <1>1. /\ T \in Locals /\ T.m = S.m
        /\ T.r.ready = S.r.ready /\ T.r.listed = S.r.listed
        /\ T.r.pending = S.r.pending /\ T.r.detaching = S.r.detaching
    BY DEF Follows
  <1>2. StateFits(a, T.m) /\ T.r.detaching \subseteq T.r.pending
    BY <1>1 DEF FitsWith, Fits
  <1>3. \A w \in Range(T.q) : w \in Range(S.q) \/ (w.k # "attach" /\ (w.k = "cancel" => w.s[1] = a))
    BY DEF Follows
  <1>4. MessagesFit(a, T.m, T.q, rep, ev)
    BY <1>1, <1>3 DEF FitsWith, Fits, MessagesFit, RequestFits
  <1>5. Listing(T.m, T.r, T.q, rep, ev)
    BY <1>1, <1>3 DEF FitsWith, Fits, Listing
  <1>6. T.r.ready => Awaiting(a, T.r, T.q, rep)
    <2> SUFFICES ASSUME T.r.ready PROVE Awaiting(a, T.r, T.q, rep)
      OBVIOUS
    <2>1. Awaiting(a, S.r, S.q, rep) /\ S.r.ready /\ Range(S.q) \subseteq Range(T.q)
      BY <1>1 DEF FitsWith, Fits, Follows
    <2>2. ASSUME NEW s \in T.r.discarding PROVE Awaits(T.q, rep, "discard", s)
      BY <2>1 DEF Awaiting, Awaits, Follows
    <2>3. ASSUME NEW p \in T.r.cancelling PROVE Awaits(T.q, rep, "cancel", <<a, p>>)
      <3>1. p \in S.r.cancelling \/ \E w \in Range(T.q) : w.k = "cancel" /\ w.s = <<a, p>>
        BY <2>1, <2>3 DEF Follows
      <3>2. p \in S.r.cancelling => \E w \in Range(S.q) \cup Range(rep) : w.k = "cancel" /\ w.s = <<a, p>>
        BY <2>1 DEF Awaiting, Awaits
      <3>3. QED
        BY <2>1, <3>1, <3>2 DEF Awaits
    <2>4. QED
      BY <2>2, <2>3 DEF Awaiting
  <1>7. ~T.r.ready => rep = <<>> /\ ev = <<>> /\ T.r.listed = None
    BY <1>1 DEF FitsWith, Fits
  <1>8. QED
    BY <1>1, <1>2, <1>4, <1>5, <1>6, <1>7 DEF FitsWith, Fits

LEMMA CancelsFresh ==
  ASSUME NEW a, NEW S, NEW rep, NEW ev, FitsWith(a, S, rep, ev)
  PROVE  \A p \in S.m.cancels : <<a, p>> \in Fresh
  BY DEF FitsWith, Fits, StateFits

\* What is under way is about panes.
PanesOf(q, rep, ev) ==
  /\ \A w \in Range(q) : w.k = "attach" => w.p \in Pane
  /\ \A e \in Range(rep) : e.k = "failed" => e.p \in Pane
  /\ \A e \in Range(ev) : e.k = "attached" => e.p \in Pane

LEMMA TypesOfMessages ==
  ASSUME NEW q \in Seq(Works), NEW rep \in Seq(Replies), NEW ev \in Seq(Events)
  PROVE  PanesOf(q, rep, ev)
  <1>1. Range(q) \subseteq Works /\ Range(rep) \subseteq Replies /\ Range(ev) \subseteq Events
    BY ElementsOf
  <1>2. /\ \A w \in Works : w.k = "attach" => w.p \in Pane
    BY DEF Works
  <1>3. \A e \in Replies : e.k = "failed" => e.p \in Pane
    BY DEF Replies
  <1>4. \A e \in Events : e.k = "attached" => e.p \in Pane
    BY DEF Events
  <1>5. QED
    BY <1>1, <1>2, <1>3, <1>4 DEF PanesOf

\* Another state of the panes fits when what is under way fits it.
LEMMA StateMoves ==
  ASSUME NEW a, NEW S, NEW T, NEW rep, NEW ev, FitsWith(a, S, rep, ev), T \in Locals,
         T.r = S.r, T.q = S.q, StateFits(a, T.m),
         \A x : x.p \in Pane /\ AttachFits(a, S.m, x) => AttachFits(a, T.m, x),
         T.r.listed # None => Shows(T.m) \subseteq Shows(S.m) \cup T.r.listed,
         PanesOf(S.q, rep, ev)
  PROVE  FitsWith(a, T, rep, ev)
  <1>1. MessagesFit(a, S.m, S.q, rep, ev)
    BY DEF FitsWith, Fits
  <1>2. MessagesFit(a, T.m, T.q, rep, ev)
    <2>1. \A w \in Range(T.q) : RequestFits(a, T.m, w)
      BY <1>1 DEF MessagesFit, RequestFits, PanesOf
    <2>2. \A e \in Range(rep) : ReplyFits(a, T.m, e)
      BY <1>1 DEF MessagesFit, ReplyFits, PanesOf
    <2>3. \A e \in Range(ev) : EventFits(a, T.m, e)
      BY <1>1 DEF MessagesFit, EventFits, PanesOf
    <2>4. QED
      BY <2>1, <2>2, <2>3 DEF MessagesFit
  <1>3. Listing(T.m, T.r, T.q, rep, ev)
    <2>1. Listing(S.m, S.r, S.q, rep, ev)
      BY DEF FitsWith, Fits
    <2>2. T.r.listed # None => \A s \in Shows(T.m) : s \in T.r.listed \/ Over(s)
      BY <2>1 DEF Listing
    <2>3. QED
      BY <2>1, <2>2 DEF Listing
  <1>4. QED
    BY <1>2, <1>3 DEF FitsWith, Fits

\* It does when it keeps what the panes show.
LEMMA StateChanges ==
  ASSUME NEW a, NEW S, NEW T, NEW rep, NEW ev, FitsWith(a, S, rep, ev), T \in Locals,
         T.r = S.r, T.q = S.q, StateFits(a, T.m),
         \A p \in Pane : T.m.at[p] = "new" => S.m.at[p] = "new",
         \A p \in Pane : S.m.at[p] # "new" => T.m.session[p] = S.m.session[p],
         T.r.listed # None => Shows(T.m) \subseteq Shows(S.m) \cup T.r.listed,
         PanesOf(S.q, rep, ev)
  PROVE  FitsWith(a, T, rep, ev)
  <1>1. ASSUME NEW x, x.p \in Pane, AttachFits(a, S.m, x) PROVE AttachFits(a, T.m, x)
    BY <1>1 DEF AttachFits
  <1>2. QED
    BY <1>1, StateMoves
-----------------------------------------------------------------------------
(* What fits goes on to fit while the server moves on *)

\* What a step of the server never takes back.
Later ==
  /\ \A s \in Session : /\ status[s] # "none" => status'[s] # "none"
                        /\ Over(s) => Over(s)'
  /\ kept \subseteq kept' /\ cancelled \subseteq cancelled'
  /\ \A s \in cancelled : status[s] # "live" => status'[s] # "live"

LEMMA StateLater ==
  ASSUME NEW a, NEW m \in States, Later, StateFits(a, m)
  PROVE  StateFits(a, m)'
  <1>1. m.session \in [Pane -> Session \cup {None}]
    BY DEF States
  <1>2. \A p \in Pane : m.session[p] # None => status'[m.session[p]] # "none"
    BY <1>1 DEF Later, StateFits
  <1>3. QED
    BY <1>2 DEF StateFits

LEMMA AttachLater ==
  ASSUME NEW a, NEW m, NEW x, x.s \in Session \cup {None}, Later, AttachFits(a, m, x)
  PROVE  AttachFits(a, m, x)'
  BY DEF Later, AttachFits

\* An app that did nothing still fits after such a step: what is new on its way fits,
\* and what it awaits is still on its way.
LEMMA FitsLater ==
  ASSUME NEW a, NEW m \in States, NEW r \in Runs, Later,
         NEW q \in Seq(Works), NEW rep \in Seq(Replies), NEW ev \in Seq(Events),
         NEW q2, NEW rep2, NEW ev2, Fits(a, m, r, q, rep, ev),
         \A w \in Range(q2) : w \in Range(q) \/ (RequestFits(a, m, w)' /\ (w.k = "attach" => r.listed = None)),
         \A e \in Range(rep2) : e \in Range(rep) \/ (ReplyFits(a, m, e)' /\ (e.k = "failed" => r.listed = None)),
         \A e \in Range(ev2) : e \in Range(ev) \/ (EventFits(a, m, e)' /\ (e.k = "attached" => r.listed = None)),
         \A k \in {"discard", "cancel"} : \A s : Awaits(q, rep, k, s) => Awaits(q2, rep2, k, s),
         ~r.ready => rep2 = <<>> /\ ev2 = <<>>
  PROVE  Fits(a, m, r, q2, rep2, ev2)'
  <1>1. Range(q) \subseteq Works /\ Range(rep) \subseteq Replies /\ Range(ev) \subseteq Events
    BY ElementsOf
  <1>2. StateFits(a, m)'
    BY StateLater DEF Fits
  <1>3. MessagesFit(a, m, q, rep, ev)
    BY DEF Fits
  <1>4. ASSUME NEW w \in Range(q) PROVE RequestFits(a, m, w)'
    <2>1. w \in Works /\ RequestFits(a, m, w)
      BY <1>1, <1>3 DEF MessagesFit
    <2>2. w.k = "attach" => w.s \in Session \cup {None}
      BY <2>1 DEF Works
    <2>3. QED
      BY <2>1, <2>2, AttachLater DEF RequestFits
  <1>5. ASSUME NEW e \in Range(rep) PROVE ReplyFits(a, m, e)'
    <2>1. e \in Replies /\ ReplyFits(a, m, e)
      BY <1>1, <1>3 DEF MessagesFit
    <2>2. e.s \in Session \cup {None} /\ (e.k # "failed" => e.s \in Session)
      BY <2>1 DEF Replies
    <2>3. CASE e.k = "failed"
      <3>1. AttachFits(a, m, e)'
        BY <2>1, <2>2, <2>3, AttachLater DEF ReplyFits
      <3>2. e.missing => e.s # None /\ Over(e.s)'
        BY <2>1, <2>2, <2>3 DEF ReplyFits, Later
      <3>3. QED
        BY <2>3, <3>1, <3>2 DEF ReplyFits
    <2>4. CASE e.k = "discard"
      BY <2>1, <2>2, <2>4 DEF ReplyFits, Later
    <2>5. CASE e.k = "cancel"
      BY <2>1, <2>2, <2>5 DEF ReplyFits, Later
    <2>6. e.k \in {"failed", "discard", "cancel"}
      BY <2>1 DEF Replies
    <2>7. QED
      BY <2>3, <2>4, <2>5, <2>6
  <1>6. ASSUME NEW e \in Range(ev) PROVE EventFits(a, m, e)'
    <2>1. e \in Events /\ EventFits(a, m, e)
      BY <1>1, <1>3 DEF MessagesFit
    <2>2. e.s \in Session
      BY <2>1 DEF Events
    <2>3. QED
      BY <2>1, <2>2, AttachLater DEF EventFits, Later
  <1>7. MessagesFit(a, m, q2, rep2, ev2)'
    BY <1>4, <1>5, <1>6 DEF MessagesFit
  <1>8. Listing(m, r, q2, rep2, ev2)'
    <2> SUFFICES ASSUME r.listed # None PROVE Listing(m, r, q2, rep2, ev2)'
      BY DEF Listing
    <2>1. Listing(m, r, q, rep, ev)
      BY DEF Fits
    <2>2. Shows(m) \subseteq Session
      BY DEF States, Shows, Open
    <2>3. \A s \in Shows(m) : s \in r.listed \/ Over(s)'
      BY <2>1, <2>2 DEF Listing, Later
    <2>4. QED
      BY <2>1, <2>3 DEF Listing
  <1>9. r.ready => Awaiting(a, r, q2, rep2)'
    BY DEF Fits, Awaiting
  <1>10. QED
    BY <1>2, <1>7, <1>8, <1>9 DEF Fits

Calm == UNCHANGED <<status, cancelled, kept>>

LEMMA CalmLater == ASSUME Calm PROVE Later
  BY DEF Calm, Later, Over

\* What an app fits, it fits in a step that changes nothing of the server's.
LEMMA FitsStill ==
  ASSUME NEW a, NEW m, NEW r, NEW q, NEW rep, NEW ev, Calm, Fits(a, m, r, q, rep, ev)
  PROVE  Fits(a, m, r, q, rep, ev)' /\ StateFits(a, m)'
  BY ZenonT(30) DEF Calm, Fits, StateFits, MessagesFit, RequestFits, ReplyFits, EventFits, AttachFits, Over, Listing,
         Awaiting, Awaits
-----------------------------------------------------------------------------
(* What a handler of an app must leave *)

\* A state that still remembers what another one does, but for D.
Stay(a, D, m, m2) == \A s \in Session \ D : Lasting(s) /\ RemembersIt(a, m, s) => RemembersIt(a, m2, s)

\* What is asked to start, the state d remembers.
Plans(a, d, S) ==
  \A w \in Range(S.q) : w.k = "attach" /\ w.s = None =>
    w \in Range(conns[<<a, Now>>].q) \/ RemembersIt(a, d, <<a, w.p>>)

\* A handler leaves a state that fits and still remembers what it must, but for D.
Sound(a, S, rep, ev, D) ==
  /\ FitsWith(a, S, rep, ev) /\ rep \in Seq(Replies) /\ ev \in Seq(Events)
  /\ Stay(a, D, mem[a], S.m)

\* A handler's step: d is what the file has then, c the app's link.
Handled(a, S, rep, ev, D, d, c) ==
  /\ mem' = [mem EXCEPT ![a] = S.m] /\ run' = [run EXCEPT ![a] = S.r] /\ ops' = [ops EXCEPT ![a] = S.n]
  /\ conns' = [conns EXCEPT ![<<a, Now>>] = c] /\ c \in Conns /\ c.q = S.q /\ (c.up => S.r.ready)
  /\ replies' = [replies EXCEPT ![a] = rep] /\ events' = [events EXCEPT ![a] = ev]
  /\ detached' = detached \cup D /\ D \subseteq Session /\ Calm
  /\ disk' = [disk EXCEPT ![a] = d] /\ d \in {disk[a], mem[a], S.m} /\ Plans(a, d, S)
  /\ failures' \in Nat /\ (failures' = 0 => failures = 0 /\ Asked(a, S))

LEMMA HandledTypes ==
  ASSUME IInv, NEW a \in App, NEW S, NEW rep, NEW ev, NEW D, NEW d, NEW c,
         Sound(a, S, rep, ev, D), Handled(a, S, rep, ev, D, d, c)
  PROVE  Typed'
  <1>1. S.m \in States /\ S.r \in Runs /\ S.n \in Nat
    BY DEF Sound, FitsWith, Locals
  <1>2. d \in States
    BY <1>1 DEF Handled, IInv, Typed
  <1>3. <<a, Now>> \in Links
    BY DEF Links
  <1>4. mem' \in [App -> States] /\ disk' \in [App -> States] /\ run' \in [App -> Runs] /\ ops' \in [App -> Nat]
    BY <1>1, <1>2 DEF Handled, IInv, Typed
  <1>5. conns' \in [Links -> Conns]
    BY <1>3 DEF Handled, IInv, Typed
  <1>6. replies' \in [App -> Seq(Replies)] /\ events' \in [App -> Seq(Events)]
    BY DEF Sound, Handled, IInv, Typed
  <1>7. /\ status' \in [Session -> {"none", "live", "ended", "gone"}]
        /\ cancelled' \subseteq Session /\ kept' \subseteq Session /\ detached' \subseteq Session
        /\ failures' \in Nat
    BY DEF Handled, Calm, IInv, Typed
  <1>8. QED
    BY <1>4, <1>5, <1>6, <1>7 DEF Typed

\* The handler's app fits; the others, and the server, are as before.
LEMMA HandledFits ==
  ASSUME IInv, NEW a \in App, NEW S, NEW rep, NEW ev, NEW D, NEW d, NEW c,
         Sound(a, S, rep, ev, D), Handled(a, S, rep, ev, D, d, c)
  PROVE  AppsFit' /\ OldFits'
  <1>1. /\ mem \in [App -> States] /\ disk \in [App -> States] /\ run \in [App -> Runs]
        /\ conns \in [Links -> Conns] /\ replies \in [App -> Seq(Replies)] /\ events \in [App -> Seq(Events)]
    BY DEF IInv, Typed
  <1>2. Calm
    BY DEF Handled
  <1>3. \A b \in App : <<b, Now>> \in Links /\ <<b, Old>> \in Links /\ <<b, Old>> # <<a, Now>>
    BY DEF Links, Old, Now
  <1>4. Fits(a, S.m, S.r, S.q, rep, ev)' /\ StateFits(a, S.m)'
    BY <1>2, FitsStill DEF Sound, FitsWith
  <1>5. StateFits(a, disk[a]) /\ StateFits(a, mem[a])
    BY DEF IInv, AppsFit, Fits
  <1>6. StateFits(a, d)'
    <2>1. PICK x : x = disk[a]
      OBVIOUS
    <2>2. PICK y : y = mem[a]
      OBVIOUS
    <2>3. StateFits(a, x)' /\ StateFits(a, y)'
      BY <1>2, <1>5, <2>1, <2>2 DEF Calm, StateFits
    <2>4. QED
      BY <1>4, <2>1, <2>2, <2>3 DEF Handled
  <1>7. /\ mem'[a] = S.m /\ run'[a] = S.r /\ conns'[<<a, Now>>].q = S.q /\ conns'[<<a, Now>>] = c
        /\ replies'[a] = rep /\ events'[a] = ev /\ disk'[a] = d
    BY <1>1, <1>3 DEF Handled
  <1>8. (Fits(a, mem[a], run[a], conns[<<a, Now>>].q, replies[a], events[a]))'
    BY <1>4, <1>7
  <1>9. StateFits(a, disk[a])'
    BY <1>6, <1>7
  <1>10. failures' = 0 => Clean(a, mem'[a], run'[a])
    BY <1>7 DEF Handled, Asked
  <1>11. ASSUME NEW b \in App, b # a
         PROVE  (/\ Fits(b, mem[b], run[b], conns[<<b, Now>>].q, replies[b], events[b])
                 /\ failures = 0 => Clean(b, mem[b], run[b])
                 /\ StateFits(b, disk[b])
                 /\ conns[<<b, Now>>].up => run[b].ready)'
    <2>1. /\ mem'[b] = mem[b] /\ run'[b] = run[b] /\ conns'[<<b, Now>>] = conns[<<b, Now>>]
          /\ replies'[b] = replies[b] /\ events'[b] = events[b] /\ disk'[b] = disk[b]
      BY <1>1, <1>3, <1>11 DEF Handled
    <2>2. PICK m, r, q, rp, e, k : m = mem[b] /\ r = run[b] /\ q = conns[<<b, Now>>].q /\ rp = replies[b]
                                   /\ e = events[b] /\ k = disk[b]
      OBVIOUS
    <2>3. Fits(b, m, r, q, rp, e) /\ StateFits(b, k)
      BY <2>2 DEF IInv, AppsFit
    <2>4. Fits(b, m, r, q, rp, e)' /\ StateFits(b, k)'
      BY <1>2, <2>3, FitsStill DEF Calm, StateFits
    <2>5. (Fits(b, mem[b], run[b], conns[<<b, Now>>].q, replies[b], events[b]))' /\ StateFits(b, disk[b])'
      BY <2>1, <2>2, <2>4
    <2>6. failures' = 0 => Clean(b, mem'[b], run'[b])
      BY <2>1 DEF Handled, IInv, AppsFit
    <2>7. conns'[<<b, Now>>].up => run'[b].ready
      BY <2>1 DEF IInv, AppsFit
    <2>8. QED
      BY <2>5, <2>6, <2>7 DEF Clean
  <1>12. conns'[<<a, Now>>].up => run'[a].ready
    BY <1>7 DEF Handled
  <1>13. AppsFit'
    BY <1>8, <1>9, <1>10, <1>11, <1>12 DEF AppsFit, Clean
  <1>14. \A b \in App : conns'[<<b, Old>>] = conns[<<b, Old>>]
    BY <1>1, <1>3 DEF Handled
  <1>15. OldFits'
    BY <1>2, <1>14 DEF OldFits, IInv, Calm
  <1>16. QED
    BY <1>13, <1>15

\* Nothing that the files must have is lost by a handler, saved or not.
LEMMA HandledRemembers ==
  ASSUME IInv, NEW a \in App, NEW S, NEW rep, NEW ev, NEW D, NEW d, NEW c,
         Sound(a, S, rep, ev, D), Handled(a, S, rep, ev, D, d, c)
  PROVE  OnDisk' /\ InMemory'
  <1>1. mem \in [App -> States] /\ disk \in [App -> States] /\ conns \in [Links -> Conns]
    BY DEF IInv, Typed
  <1>2. mem'[a] = S.m /\ disk'[a] = d /\ \A b \in App \ {a} : mem'[b] = mem[b] /\ disk'[b] = disk[b]
    BY <1>1 DEF Handled
  <1>3. \A l \in Links \ {<<a, Now>>} : conns'[l] = conns[l]
    BY <1>1 DEF Handled
  <1>4. conns'[<<a, Now>>].q = S.q
    BY <1>1 DEF Handled, Links
  <1>5. \A s \in Session : Lasting(s)' => Lasting(s) /\ s \notin D
    BY DEF Handled, Calm, Lasting
  <1>6. \A s \in Session : Lasting(s)' /\ RemembersIt(a, disk[a], s) => RemembersIt(a, d, s)
    BY <1>5 DEF Handled, Sound, Stay, IInv, InMemory
  <1>7. \A s \in Session : Lasting(s)' /\ RemembersIt(a, d, s) => RemembersIt(a, S.m, s)
    BY <1>5 DEF Handled, Sound, Stay, IInv, InMemory
  <1>8. ASSUME NEW s \in Session, Lasting(s)', Started(s)'
        PROVE  Started(s) \/ RemembersIt(a, d, s)
    <2>1. s[1] \in App /\ s = <<s[1], s[2]>>
      BY Constants
    <2>2. CASE status'[s] = "live"
      BY <2>2 DEF Started, Handled, Calm
    <2>3. CASE status'[s] # "live"
      <3>1. PICK v \in {Now, Old} : \E w \in Range(conns'[<<s[1], v>>].q) : Begins(w, s)
        BY <1>8, <2>3 DEF Started
      <3>2. PICK w \in Range(conns'[<<s[1], v>>].q) : Begins(w, s)
        BY <3>1
      <3>3. CASE <<s[1], v>> # <<a, Now>>
        <4>1. <<s[1], v>> \in Links
          BY <2>1 DEF Links
        <4>2. conns'[<<s[1], v>>] = conns[<<s[1], v>>]
          BY <1>3, <3>3, <4>1
        <4>3. QED
          BY <3>2, <4>2 DEF Started
      <3>4. CASE s[1] = a /\ v = Now
        <4>1. w \in Range(S.q) /\ w.k = "attach" /\ w.s = None /\ w.p = s[2]
          BY <1>4, <3>2, <3>4 DEF Begins
        <4>2. w \in Range(conns[<<a, Now>>].q) \/ RemembersIt(a, d, <<a, w.p>>)
          BY <4>1 DEF Handled, Plans
        <4>3. <<a, w.p>> = s
          BY <2>1, <3>4, <4>1
        <4>4. QED
          BY <3>2, <3>4, <4>2, <4>3 DEF Started
      <3>5. QED
        BY <3>3, <3>4
    <2>4. QED
      BY <2>2, <2>3
  <1>9. ASSUME NEW s \in Session, Lasting(s)', Started(s)'
        PROVE  \E b \in App : RemembersIt(b, disk'[b], s)
    <2>1. CASE RemembersIt(a, d, s)
      BY <1>2, <2>1
    <2>2. CASE Started(s)
      <3>1. PICK b \in App : RemembersIt(b, disk[b], s)
        BY <1>5, <1>9, <2>2 DEF IInv, OnDisk
      <3>2. CASE b = a
        BY <1>2, <1>6, <1>9, <3>1, <3>2
      <3>3. CASE b # a
        BY <1>2, <3>1, <3>3
      <3>4. QED
        BY <3>2, <3>3
    <2>3. QED
      BY <1>8, <1>9, <2>1, <2>2
  <1>10. OnDisk'
    BY <1>9 DEF OnDisk, RemembersIt, Shows, Open
  <1>11. ASSUME NEW s \in Session, NEW b \in App, Lasting(s)', RemembersIt(b, disk'[b], s)
         PROVE  RemembersIt(b, mem'[b], s)
    <2>1. CASE b = a
      BY <1>2, <1>7, <1>11, <2>1
    <2>2. CASE b # a
      BY <1>2, <1>5, <1>11, <2>2 DEF IInv, InMemory
    <2>3. QED
      BY <2>1, <2>2
  <1>12. InMemory'
    BY <1>11 DEF InMemory, RemembersIt, Shows, Open
  <1>13. QED
    BY <1>10, <1>12

\* A handler that is sound keeps the invariant.
LEMMA HandledKeeps ==
  ASSUME IInv, NEW a \in App, NEW S, NEW rep, NEW ev, NEW D, NEW d, NEW c,
         Sound(a, S, rep, ev, D), Handled(a, S, rep, ev, D, d, c)
  PROVE  IInv'
  BY HandledTypes, HandledFits, HandledRemembers DEF IInv

LEMMA PutHandled ==
  ASSUME IInv, NEW a \in App, NEW S, NEW rep, NEW ev, NEW D \in SUBSET Session, NEW d,
         Sound(a, S, rep, ev, D), Put(a, S), S.r.ready = run[a].ready, Calm,
         replies' = [replies EXCEPT ![a] = rep], events' = [events EXCEPT ![a] = ev],
         detached' = detached \cup D, disk' = [disk EXCEPT ![a] = d], d \in {disk[a], mem[a], S.m}, Plans(a, d, S),
         failures' \in Nat, failures' = 0 => failures = 0 /\ Asked(a, S)
  PROVE  IInv'
  <1>1. conns \in [Links -> Conns] /\ <<a, Now>> \in Links
    BY DEF IInv, Typed, Links
  <1>2. PICK c : c = [conns[<<a, Now>>] EXCEPT !.q = S.q]
    OBVIOUS
  <1>3. S.q \in Seq(Works)
    BY DEF Sound, FitsWith, Locals
  <1>4. c \in Conns /\ c.q = S.q /\ c.up = conns[<<a, Now>>].up
    BY <1>1, <1>2, <1>3 DEF Conns
  <1>5. conns[<<a, Now>>].up => run[a].ready
    BY DEF IInv, AppsFit
  <1>6. conns' = [conns EXCEPT ![<<a, Now>>] = c]
    BY <1>2 DEF Put
  <1>7. Handled(a, S, rep, ev, D, d, c)
    BY <1>4, <1>5, <1>6 DEF Handled, Put
  <1>8. QED
    BY <1>7, HandledKeeps

\* Nothing more is asked to start.
NoNew(a, S) == \A w \in Range(S.q) : w.k = "attach" /\ w.s = None => w \in Range(conns[<<a, Now>>].q)

\* A handler that saves keeps it as well, whether the save works or fails: neither outcome
\* forgets, and only the one that worked starts a session.
LEMMA SavingKeeps ==
  ASSUME IInv, NEW a \in App, NEW done, NEW failed, NEW rep, NEW ev, Saving(a, done, failed),
         Sound(a, done, rep, ev, {}), Sound(a, failed, rep, ev, {}),
         done.r.ready = run[a].ready, failed.r.ready = run[a].ready,
         failures = 0 => Asked(a, done), Plans(a, done.m, done), NoNew(a, failed),
         replies' = [replies EXCEPT ![a] = rep], events' = [events EXCEPT ![a] = ev],
         Calm, UNCHANGED detached
  PROVE  IInv'
  <1>1. failures \in Nat /\ disk \in [App -> States] /\ detached' = detached \cup {} /\ {} \in SUBSET Session
    BY DEF IInv, Typed
  <1>2. CASE Put(a, done) /\ disk' = [disk EXCEPT ![a] = done.m] /\ UNCHANGED failures
    BY <1>1, <1>2, PutHandled
  <1>3. CASE Put(a, failed) /\ failures' = failures + 1 /\ UNCHANGED disk
    <2>1. disk' = [disk EXCEPT ![a] = disk[a]] /\ failures' \in Nat /\ failures' # 0
      BY <1>1, <1>3
    <2>2. Plans(a, disk[a], failed)
      BY DEF NoNew, Plans
    <2>3. QED
      BY <1>1, <1>3, <2>1, <2>2, PutHandled
  <1>4. QED
    BY <1>2, <1>3 DEF Saving, Keep, Fail

\* A handler that has nothing to save keeps it when it starts no session.
LEMMA UnsavedKeeps ==
  ASSUME IInv, NEW a \in App, NEW S, NEW rep, NEW ev, Quietly(a, S), Sound(a, S, rep, ev, {}),
         S.r.ready = run[a].ready, failures = 0 => Asked(a, S), NoNew(a, S),
         replies' = [replies EXCEPT ![a] = rep], events' = [events EXCEPT ![a] = ev],
         Calm, UNCHANGED detached
  PROVE  IInv'
  <1>1. /\ failures' = failures /\ failures \in Nat /\ disk' = [disk EXCEPT ![a] = disk[a]]
        /\ detached' = detached \cup {} /\ {} \in SUBSET Session /\ Put(a, S)
    BY DEF IInv, Typed, Quietly
  <1>2. Plans(a, disk[a], S)
    BY DEF NoNew, Plans
  <1>3. QED
    BY <1>1, <1>2, PutHandled

\* What a handler starts from.
LEMMA LocalFits ==
  ASSUME IInv, NEW a \in App
  PROVE  /\ FitsWith(a, Local(a), replies[a], events[a]) /\ Local(a) \in Locals
         /\ Local(a).m = mem[a] /\ Local(a).r = run[a] /\ Local(a).q = conns[<<a, Now>>].q
         /\ mem[a] \in States /\ run[a] \in Runs /\ conns[<<a, Now>>].q \in Seq(Works)
         /\ replies[a] \in Seq(Replies) /\ events[a] \in Seq(Events)
         /\ PanesOf(conns[<<a, Now>>].q, replies[a], events[a])
         /\ NoNew(a, Local(a))
         /\ failures = 0 => Asked(a, Local(a))
  <1>1. mem[a] \in States /\ run[a] \in Runs /\ conns[<<a, Now>>].q \in Seq(Works) /\ ops[a] \in Nat
        /\ replies[a] \in Seq(Replies) /\ events[a] \in Seq(Events)
    <2>1. <<a, Now>> \in Links
      BY DEF Links
    <2>2. QED
      BY <2>1 DEF IInv, Typed, Conns
  <1>2. Local(a) \in Locals
    BY <1>1 DEF Local, Locals
  <1>3. Fits(a, mem[a], run[a], conns[<<a, Now>>].q, replies[a], events[a])
    BY DEF IInv, AppsFit
  <1>4. failures = 0 => Clean(a, mem[a], run[a])
    BY DEF IInv, AppsFit
  <1>5. QED
    BY <1>1, <1>2, <1>3, <1>4, TypesOfMessages DEF Local, FitsWith, NoNew, Asked

\* Stay and NoNew hold on to what only asks more.
LEMMA StayFollows ==
  ASSUME NEW a, NEW S, NEW T, Follows(a, S, T)
  PROVE  /\ \A D, m : Stay(a, D, m, S.m) => Stay(a, D, m, T.m)
         /\ NoNew(a, S) => NoNew(a, T)
         /\ \A d : Plans(a, d, S) => Plans(a, d, T)
         /\ T.r.ready = S.r.ready /\ T.m = S.m /\ T \in Locals
  <1>1. /\ T.m = S.m /\ T.r.ready = S.r.ready /\ T \in Locals
        /\ \A w \in Range(T.q) : w.k = "attach" => w \in Range(S.q)
    BY DEF Follows
  <1>2. QED
    BY <1>1 DEF NoNew, Plans

LEMMA StayItself == \A a, D, m : Stay(a, D, m, m)
  BY DEF Stay

LEMMA NoNewPlans == ASSUME NEW a, NEW S, NoNew(a, S) PROVE \A d : Plans(a, d, S)
  BY DEF NoNew, Plans
-----------------------------------------------------------------------------
(* What the other calls of the handlers do *)

LEMMA StateFields ==
  ASSUME NEW m \in States
  PROVE  /\ m = [at |-> m.at, session |-> m.session, starting |-> m.starting, cancels |-> m.cancels, closes |-> m.closes]
         /\ m.at \in [Pane -> {"new", "open", "gone"}] /\ m.session \in [Pane -> Session \cup {None}]
         /\ m.starting \subseteq Pane /\ m.cancels \subseteq Pane /\ m.closes \in Closes
  BY DEF States

LEMMA RemovePanesState ==
  ASSUME NEW m \in States, NEW P \in SUBSET Pane, NEW m2, m2 = RemovePanes(m, P)
  PROVE  /\ m2.at = [p \in Pane |-> IF p \in P THEN "gone" ELSE m.at[p]]
         /\ m2.session = m.session /\ m2.starting = m.starting \ P /\ m2.closes = m.closes
         /\ m2.cancels = m.cancels \cup {p \in P \cap m.starting : m.session[p] = None}
         /\ m2 \in States
  <1>1. PICK at : at = [p \in Pane |-> IF p \in P THEN "gone" ELSE m.at[p]]
    OBVIOUS
  <1>2. PICK c : c = m.cancels \cup {p \in P \cap m.starting : m.session[p] = None}
    OBVIOUS
  <1>3. m2 = [m EXCEPT !.at = at, !.starting = m.starting \ P, !.cancels = c]
    BY <1>1, <1>2 DEF RemovePanes
  <1>4. m2 = [at |-> at, session |-> m.session, starting |-> m.starting \ P, cancels |-> c, closes |-> m.closes]
    BY <1>3, StateFields
  <1>5. at \in [Pane -> {"new", "open", "gone"}] /\ m.starting \ P \subseteq Pane /\ c \subseteq Pane
    BY <1>1, <1>2, StateFields
  <1>6. m2 \in States
    BY <1>4, <1>5, StateFields DEF States
  <1>7. QED
    BY <1>1, <1>2, <1>4, <1>6

\* remove_pane leaves the panes' sessions, and forgets only theirs.
LEMMA RemovePanesFits ==
  ASSUME NEW a \in App, NEW S, NEW rep, NEW ev, FitsWith(a, S, rep, ev), PanesOf(S.q, rep, ev),
         NEW P \in SUBSET Open(S.m), NEW T, T = [S EXCEPT !.m = RemovePanes(@, P)]
  PROVE  /\ FitsWith(a, T, rep, ev) /\ T.r = S.r /\ T.q = S.q /\ T.n = S.n
         /\ T.m.session = S.m.session /\ T.m.closes = S.m.closes /\ T.m = RemovePanes(S.m, P)
         /\ Open(T.m) = Open(S.m) \ P
         /\ \A s \in Session : RemembersIt(a, S.m, s) =>
              RemembersIt(a, T.m, s) \/ \E p \in P : S.m.session[p] = s
  <1>1. S \in Locals /\ S.m \in States /\ P \subseteq Pane
    BY DEF FitsWith, Locals, Open
  <1>2. /\ T.m = RemovePanes(S.m, P) /\ T.r = S.r /\ T.q = S.q /\ T.n = S.n
    BY <1>1 DEF Locals
  <1>3. /\ T.m.at = [p \in Pane |-> IF p \in P THEN "gone" ELSE S.m.at[p]]
        /\ T.m.session = S.m.session /\ T.m.starting = S.m.starting \ P /\ T.m.closes = S.m.closes
        /\ T.m.cancels = S.m.cancels \cup {p \in P \cap S.m.starting : S.m.session[p] = None}
    BY <1>1, <1>2, RemovePanesState
  <1>4. T.m \in States
    BY <1>1, <1>2, RemovePanesState
  <1>5. T \in Locals
    BY <1>1, <1>2, <1>4 DEF Locals
  <1>6. Open(T.m) = Open(S.m) \ P
    BY <1>3 DEF Open
  <1>7. StateFits(a, S.m)
    BY DEF FitsWith, Fits
  <1>8. \A p \in P : S.m.at[p] = "open"
    BY DEF Open
  <1>9. StateFits(a, T.m)
    <2>1. \A p \in Pane : T.m.at[p] # "new" <=> S.m.at[p] # "new"
      BY <1>3, <1>8
    <2>2. T.m.starting \subseteq Open(T.m)
      BY <1>3, <1>6, <1>7 DEF StateFits
    <2>3. \A p \in T.m.cancels : T.m.at[p] = "gone" /\ <<a, p>> \in Fresh
      BY <1>1, <1>3, <1>7, <1>8 DEF StateFits, States
    <2>4. QED
      BY <1>3, <1>7, <2>1, <2>2, <2>3 DEF StateFits
  <1>10. Shows(T.m) \subseteq Shows(S.m)
    BY <1>3, <1>6 DEF Shows
  <1>11. \A p \in Pane : (T.m.at[p] = "new" => S.m.at[p] = "new") /\ T.m.session[p] = S.m.session[p]
    BY <1>3
  <1>12. FitsWith(a, T, rep, ev)
    BY <1>2, <1>5, <1>9, <1>10, <1>11, StateChanges
  <1>13. ASSUME NEW s \in Session, RemembersIt(a, S.m, s)
         PROVE  RemembersIt(a, T.m, s) \/ \E p \in P : S.m.session[p] = s
    <2>1. CASE s \in Shows(S.m)
      BY <1>3, <1>6, <2>1 DEF Shows, RemembersIt
    <2>2. CASE s \in DOMAIN S.m.closes
      BY <1>3, <2>2 DEF RemembersIt
    <2>3. CASE s[1] = a /\ s[2] \in S.m.cancels
      BY <1>3, <2>3 DEF RemembersIt
    <2>4. CASE s[1] = a /\ s[2] \in S.m.starting /\ S.m.session[s[2]] = None
      BY <1>3, <2>4 DEF RemembersIt
    <2>5. QED
      BY <1>13, <2>1, <2>2, <2>3, <2>4 DEF RemembersIt
  <1>14. QED
    BY <1>2, <1>3, <1>6, <1>12, <1>13

\* An intent to close a session remembers it.
LEMMA QueueDiscardFits ==
  ASSUME NEW a \in App, NEW S, NEW rep, NEW ev, FitsWith(a, S, rep, ev), PanesOf(S.q, rep, ev),
         NEW s \in Session, NEW T, T = QueueDiscard(a, S, s)
  PROVE  /\ FitsWith(a, T, rep, ev) /\ T.r = S.r /\ T.q = S.q
         /\ s \in DOMAIN T.m.closes
         /\ \A t \in Session : RemembersIt(a, S.m, t) => RemembersIt(a, T.m, t)
  <1>1. CASE s \in DOMAIN S.m.closes
    BY <1>1 DEF QueueDiscard
  <1>2. CASE s \notin DOMAIN S.m.closes
    <2>1. S \in Locals /\ S.m \in States /\ S.n \in Nat /\ S.m.closes \in Closes
      BY DEF FitsWith, Locals, States
    <2>2. PICK c : c = [t \in DOMAIN S.m.closes \cup {s} |-> IF t = s THEN <<a, S.n + 1>> ELSE S.m.closes[t]]
      OBVIOUS
    <2>3. c \in Closes /\ DOMAIN c = DOMAIN S.m.closes \cup {s}
      <3>1. DOMAIN S.m.closes \cup {s} \in SUBSET Session
        BY <2>1, TypeOfCloses
      <3>2. c \in [DOMAIN S.m.closes \cup {s} -> App \X Nat]
        BY <2>1, <2>2, TypeOfCloses
      <3>3. QED
        BY <3>1, <3>2, <2>2 DEF Closes
    <2>4. T = [S EXCEPT !.n = S.n + 1, !.m.closes = c]
      BY <1>2, <2>2 DEF QueueDiscard
    <2>5. /\ T.r = S.r /\ T.q = S.q /\ T.m.at = S.m.at /\ T.m.session = S.m.session
          /\ T.m.starting = S.m.starting /\ T.m.cancels = S.m.cancels /\ T.m.closes = c /\ T.m \in States
          /\ T \in Locals
      <3>1. PICK m : m = [S.m EXCEPT !.closes = c]
        OBVIOUS
      <3>2. m = [at |-> S.m.at, session |-> S.m.session, starting |-> S.m.starting, cancels |-> S.m.cancels,
                 closes |-> c]
        BY <2>1, <3>1, StateFields
      <3>3. m \in States
        BY <2>1, <2>3, <3>2, StateFields DEF States
      <3>4. T = [S EXCEPT !.n = S.n + 1, !.m = m]
        BY <2>4, <3>1
      <3>5. T = [m |-> m, r |-> S.r, q |-> S.q, n |-> S.n + 1]
        BY <2>1, <3>4 DEF Locals
      <3>6. T \in Locals
        BY <2>1, <3>3, <3>5 DEF Locals
      <3>7. QED
        BY <3>2, <3>3, <3>5, <3>6
    <2>6. StateFits(a, T.m)
      BY <2>5 DEF FitsWith, Fits, StateFits, Open
    <2>7. Shows(T.m) = Shows(S.m)
      BY <2>5 DEF Shows, Open
    <2>8. FitsWith(a, T, rep, ev)
      BY <2>5, <2>6, <2>7, StateChanges
    <2>9. \A t \in Session : RemembersIt(a, S.m, t) => RemembersIt(a, T.m, t)
      BY <2>3, <2>5, <2>7 DEF RemembersIt
    <2>10. QED
      BY <2>3, <2>5, <2>8, <2>9
  <1>3. QED
    BY <1>1, <1>2

LEMMA RunChanges ==
  ASSUME NEW a, NEW S, NEW T, NEW rep, NEW ev, FitsWith(a, S, rep, ev), T \in Locals, T.m = S.m, T.q = S.q,
         T.r.ready = S.r.ready, T.r.listed \in {S.r.listed, None}, T.r.detaching \subseteq T.r.pending,
         T.r.listed # None => T.r.pending = {},
         T.r.discarding \subseteq S.r.discarding, T.r.cancelling \subseteq S.r.cancelling
  PROVE  FitsWith(a, T, rep, ev)
  BY DEF FitsWith, Fits, Listing, Awaiting

\* An attach that fits may be sent once the list has been dealt with.
LEMMA AttachesFit ==
  ASSUME NEW a, NEW S, NEW works \in Seq(Works), NEW rep, NEW ev, FitsWith(a, S, rep, ev), S.r.listed = None,
         \A w \in Range(works) : w.k = "attach" /\ AttachFits(a, S.m, w)
  PROVE  FitsWith(a, Send(S, works), rep, ev)
  <1>1. S \in Locals
    BY DEF FitsWith
  <1>2. PICK T \in Locals : T = Send(S, works)
    BY <1>1, SendType
  <1>3. /\ T.m = S.m /\ T.r = S.r /\ Range(S.q) \subseteq Range(T.q)
        /\ Range(T.q) \subseteq Range(S.q) \cup Range(works)
    BY <1>1, <1>2, SendType
  <1>4. \A w \in Range(T.q) : RequestFits(a, T.m, w)
    BY <1>3 DEF FitsWith, Fits, MessagesFit, RequestFits
  <1>5. MessagesFit(a, T.m, T.q, rep, ev)
    BY <1>3, <1>4 DEF FitsWith, Fits, MessagesFit
  <1>6. Listing(T.m, T.r, T.q, rep, ev)
    BY <1>3 DEF Listing
  <1>7. T.r.ready => Awaiting(a, T.r, T.q, rep)
    BY <1>3 DEF FitsWith, Fits, Awaiting, Awaits
  <1>8. FitsWith(a, T, rep, ev)
    BY <1>3, <1>5, <1>6, <1>7 DEF FitsWith, Fits
  <1>9. QED
    BY <1>2, <1>8
-----------------------------------------------------------------------------
(* The user's handlers *)

\* The states that a handler's assignments leave.
LEMMA OpenState ==
  ASSUME NEW m \in States, NEW p \in Pane, NEW s \in Session \cup {None}, NEW m2,
         m2 = [m EXCEPT !.at[p] = "open", !.session[p] = s]
  PROVE  /\ m2 = [at |-> [m.at EXCEPT ![p] = "open"], session |-> [m.session EXCEPT ![p] = s],
                  starting |-> m.starting, cancels |-> m.cancels, closes |-> m.closes]
         /\ m2 \in States
  <1>1. m2 = [at |-> [m.at EXCEPT ![p] = "open"], session |-> [m.session EXCEPT ![p] = s],
              starting |-> m.starting, cancels |-> m.cancels, closes |-> m.closes]
    BY DEF States
  <1>2. m2 \in States
    BY <1>1, StateFields DEF States
  <1>3. QED
    BY <1>1, <1>2

LEMMA StartingState ==
  ASSUME NEW m \in States, NEW P \in SUBSET Pane, NEW m2, m2 = [m EXCEPT !.starting = @ \cup P]
  PROVE  /\ m2 = [at |-> m.at, session |-> m.session, starting |-> m.starting \cup P,
                  cancels |-> m.cancels, closes |-> m.closes]
         /\ m2 \in States
  <1>1. m2 = [at |-> m.at, session |-> m.session, starting |-> m.starting \cup P,
              cancels |-> m.cancels, closes |-> m.closes]
    BY DEF States
  <1>2. m2 \in States
    BY <1>1, StateFields DEF States
  <1>3. QED
    BY <1>1, <1>2

LEMMA GoneState ==
  ASSUME NEW m \in States, NEW p \in Pane, NEW m2, m2 = [m EXCEPT !.at[p] = "gone", !.starting = @ \ {p}]
  PROVE  /\ m2 = [at |-> [m.at EXCEPT ![p] = "gone"], session |-> m.session, starting |-> m.starting \ {p},
                  cancels |-> m.cancels, closes |-> m.closes]
         /\ m2 \in States
  <1>1. m2 = [at |-> [m.at EXCEPT ![p] = "gone"], session |-> m.session, starting |-> m.starting \ {p},
              cancels |-> m.cancels, closes |-> m.closes]
    BY DEF States
  <1>2. m2 \in States
    BY <1>1, StateFields DEF States
  <1>3. QED
    BY <1>1, <1>2

LEMMA ClosesState ==
  ASSUME NEW m \in States, NEW c \in Closes, NEW m2, m2 = [m EXCEPT !.closes = c]
  PROVE  /\ m2 = [at |-> m.at, session |-> m.session, starting |-> m.starting, cancels |-> m.cancels, closes |-> c]
         /\ m2 \in States
  <1>1. m2 = [at |-> m.at, session |-> m.session, starting |-> m.starting, cancels |-> m.cancels, closes |-> c]
    BY DEF States
  <1>2. m2 \in States
    BY <1>1, StateFields DEF States
  <1>3. QED
    BY <1>1, <1>2

LEMMA CancelsState ==
  ASSUME NEW m \in States, NEW p, NEW m2, m2 = [m EXCEPT !.cancels = @ \ {p}]
  PROVE  /\ m2 = [at |-> m.at, session |-> m.session, starting |-> m.starting, cancels |-> m.cancels \ {p},
                  closes |-> m.closes]
         /\ m2 \in States
  <1>1. m2 = [at |-> m.at, session |-> m.session, starting |-> m.starting, cancels |-> m.cancels \ {p},
              closes |-> m.closes]
    BY DEF States
  <1>2. m2 \in States
    BY <1>1, StateFields DEF States
  <1>3. QED
    BY <1>1, <1>2

LEMMA OpenPaneKeeps ==
  ASSUME IInv, NEW a \in App, NEW p \in Pane, NEW s \in Session \cup {None}, OpenPane(a, p, s)
  PROVE  IInv'
  <1>1. PICK L : L = Local(a)
    OBVIOUS
  <1>2. /\ FitsWith(a, L, replies[a], events[a]) /\ L \in Locals
        /\ L.m = mem[a] /\ L.r = run[a] /\ L.q = conns[<<a, Now>>].q
        /\ mem[a] \in States /\ PanesOf(L.q, replies[a], events[a])
        /\ replies[a] \in Seq(Replies) /\ events[a] \in Seq(Events)
        /\ NoNew(a, L) /\ (failures = 0 => Asked(a, L))
    BY <1>1, LocalFits
  <1>3. PICK m : m = [mem[a] EXCEPT !.at[p] = "open", !.session[p] = s]
    OBVIOUS
  <1>4. m = [at |-> [mem[a].at EXCEPT ![p] = "open"], session |-> [mem[a].session EXCEPT ![p] = s],
             starting |-> mem[a].starting, cancels |-> mem[a].cancels, closes |-> mem[a].closes]
    BY ZenonT(30), <1>2, <1>3, OpenState
  <1>5. m \in States
    BY <1>2, <1>3, OpenState
  <1>6. PICK S : S = [L EXCEPT !.m = m]
    OBVIOUS
  <1>7. S \in Locals /\ S.m = m /\ S.r = L.r /\ S.q = L.q
    BY <1>2, <1>5, <1>6 DEF Locals
  <1>8. StateFits(a, mem[a]) /\ mem[a].at[p] = "new"
    BY <1>2 DEF FitsWith, Fits, OpenPane
  <1>9. Shows(m) = Shows(mem[a]) \cup ({s} \ {None}) /\ Open(m) = Open(mem[a]) \cup {p}
    BY <1>2, <1>4, <1>8, StateFields DEF Shows, Open
  <1>10. StateFits(a, m)
    BY <1>2, <1>4, <1>8, <1>9, StateFields DEF StateFits, OpenPane
  <1>11. FitsWith(a, S, replies[a], events[a])
    <2>1. run[a].listed # None => s = None
      BY DEF OpenPane
    <2>2. \A x \in Pane : m.at[x] = "new" => L.m.at[x] = "new"
      BY <1>2, <1>4, StateFields
    <2>3. \A x \in Pane : L.m.at[x] # "new" => m.session[x] = L.m.session[x]
      BY <1>2, <1>4, <1>8, StateFields
    <2>4. QED
      BY <1>2, <1>7, <1>9, <1>10, <2>1, <2>2, <2>3, StateChanges
  <1>12. Stay(a, {}, mem[a], m)
    <2>1. \A x \in mem[a].starting : m.session[x] = mem[a].session[x]
      BY <1>2, <1>4, <1>8, StateFields DEF StateFits, Open
    <2>2. QED
      BY <1>4, <1>9, <2>1 DEF Stay, RemembersIt
  <1>13. PICK T : T = SyncVisible(S)
    OBVIOUS
  <1>14. Follows(a, S, T)
    BY <1>7, <1>13, VisibleFollows
  <1>15. FitsWith(a, T, replies[a], events[a]) /\ NoNew(a, T) /\ T.r.ready = run[a].ready /\ T.m = m
    <2>1. NoNew(a, S)
      BY <1>2, <1>7 DEF NoNew
    <2>2. QED
      BY <1>2, <1>7, <1>11, <1>14, <2>1, FollowsFits, StayFollows
  <1>16. failures = 0 => Asked(a, T)
    <2>1. failures = 0 => Asked(a, S)
      BY <1>2, <1>4, <1>7 DEF Asked, Clean
    <2>2. QED
      BY <1>14, <2>1, StaysAsked
  <1>17. Sound(a, T, replies[a], events[a], {}) /\ Sound(a, L, replies[a], events[a], {})
    BY <1>2, <1>12, <1>15, StayItself DEF Sound
  <1>18. Plans(a, T.m, T)
    BY <1>15, NoNewPlans
  <1>19. Saving(a, T, L) /\ Calm /\ UNCHANGED <<replies, events, detached>>
    BY <1>1, <1>3, <1>6, <1>13 DEF OpenPane, Server, Calm
  <1>20. replies' = [replies EXCEPT ![a] = replies[a]] /\ events' = [events EXCEPT ![a] = events[a]]
    BY <1>19 DEF IInv, Typed
  <1>21. QED
    BY <1>2, <1>15, <1>16, <1>17, <1>18, <1>19, <1>20, SavingKeeps

\* A pane that starts a session is saved first, so that the file has what the server
\* may run.
LEMMA StartAttachKeeps ==
  ASSUME IInv, NEW a \in App, NEW p \in Pane, StartAttach(a, p)
  PROVE  IInv'
  <1>1. PICK L : L = Local(a)
    OBVIOUS
  <1>2. /\ FitsWith(a, L, replies[a], events[a]) /\ L \in Locals
        /\ L.m = mem[a] /\ L.r = run[a] /\ L.q = conns[<<a, Now>>].q
        /\ mem[a] \in States /\ run[a] \in Runs /\ PanesOf(L.q, replies[a], events[a])
        /\ replies[a] \in Seq(Replies) /\ events[a] \in Seq(Events)
        /\ NoNew(a, L) /\ (failures = 0 => Asked(a, L))
    BY <1>1, LocalFits
  <1>3. StateFits(a, mem[a]) /\ p \in Open(mem[a]) /\ run[a].ready /\ run[a].listed = None
    BY <1>2 DEF FitsWith, Fits, StartAttach
  <1>4. PICK s \in Session \cup {None} : s = mem[a].session[p]
    BY <1>2, StateFields
  <1>5. PICK m : m = [mem[a] EXCEPT !.starting = @ \cup {p}]
    OBVIOUS
  <1>6. m = [at |-> mem[a].at, session |-> mem[a].session, starting |-> mem[a].starting \cup {p},
             cancels |-> mem[a].cancels, closes |-> mem[a].closes]
    BY <1>2, <1>5, StartingState
  <1>7. m \in States
    BY <1>2, <1>5, StartingState
  <1>8. PICK P : P = [L EXCEPT !.m = m]
    OBVIOUS
  <1>9. P \in Locals /\ P.m = m /\ P.r = L.r /\ P.q = L.q
    BY <1>2, <1>7, <1>8 DEF Locals
  <1>10. Open(m) = Open(mem[a]) /\ Shows(m) = Shows(mem[a])
    BY <1>6 DEF Shows, Open
  <1>11. StateFits(a, m)
    BY <1>3, <1>6, <1>10 DEF StateFits
  <1>12. FitsWith(a, P, replies[a], events[a])
    BY <1>2, <1>6, <1>9, <1>10, <1>11, StateChanges
  <1>13. PICK U : U = [P EXCEPT !.r.pending = @ \cup {p}]
    OBVIOUS
  <1>14. /\ U \in Locals /\ U.m = m /\ U.q = L.q /\ U.r.ready = L.r.ready /\ U.r.listed = L.r.listed
         /\ U.r.pending = L.r.pending \cup {p} /\ U.r.detaching = L.r.detaching
         /\ U.r.discarding = L.r.discarding /\ U.r.cancelling = L.r.cancelling
    BY <1>9, <1>13 DEF Locals, Runs
  <1>15. FitsWith(a, U, replies[a], events[a])
    <2>1. U.r.detaching \subseteq U.r.pending
      BY <1>2, <1>14 DEF FitsWith, Fits
    <2>2. QED
      BY ZenonT(30), <1>2, <1>3, <1>9, <1>12, <1>14, <2>1, RunChanges
  <1>16. PICK w \in Works : w = [k |-> "attach", p |-> p, s |-> s, new |-> (s = None)]
    <2>1. PICK b \in BOOLEAN : b = (s = None)
      OBVIOUS
    <2>2. [k |-> "attach", p |-> p, s |-> s, new |-> b] \in Works
      BY DEF Works
    <2>3. QED
      BY <2>1, <2>2
  <1>17. PICK q \in Seq(Works) : q = <<w>> /\ Range(q) = {w}
    BY One
  <1>18. AttachFits(a, m, w)
    <2>1. mem[a].at[p] = "open"
      BY <1>3 DEF Open
    <2>2. m.at = mem[a].at /\ m.session = mem[a].session /\ w.p = p /\ w.s = s /\ w.new = (s = None)
      BY <1>6, <1>16
    <2>3. (s # None => status[s] # "none") /\ (s = None => <<a, p>> \in Fresh)
      BY <1>3, <1>4, <2>1 DEF StateFits
    <2>4. QED
      BY <1>4, <2>1, <2>2, <2>3 DEF AttachFits
  <1>19. PICK T : T = Send(U, q)
    OBVIOUS
  <1>20. FitsWith(a, T, replies[a], events[a])
    <2>1. U.r.listed = None /\ U.m = m
      BY <1>2, <1>3, <1>14
    <2>2. \A x \in Range(q) : x.k = "attach" /\ AttachFits(a, m, x)
      BY <1>16, <1>17, <1>18
    <2>3. FitsWith(a, Send(U, q), replies[a], events[a])
      BY <1>15, <2>1, <2>2, AttachesFit
    <2>4. QED
      BY <1>19, <2>3
  <1>21. T.m = m /\ T.r = U.r /\ Range(T.q) \subseteq Range(L.q) \cup {w}
    BY <1>14, <1>17, <1>19, SendType
  <1>22. Stay(a, {}, mem[a], m)
    BY <1>6, <1>10 DEF Stay, RemembersIt
  <1>23. Plans(a, T.m, T)
    <2>1. w.s = None => RemembersIt(a, m, <<a, w.p>>)
      BY <1>4, <1>6, <1>16 DEF RemembersIt
    <2>2. QED
      BY <1>2, <1>21, <2>1 DEF Plans, NoNew
  <1>24. NoNew(a, P) /\ (failures = 0 => Asked(a, T))
    BY <1>2, <1>6, <1>9, <1>14, <1>21 DEF NoNew, Asked, Clean
  <1>25. Sound(a, T, replies[a], events[a], {}) /\ Sound(a, P, replies[a], events[a], {})
    BY <1>2, <1>9, <1>12, <1>20, <1>21, <1>22 DEF Sound
  <1>26. Saving(a, T, P) /\ Calm /\ UNCHANGED <<replies, events, detached>>
    <2>1. P = [Local(a) EXCEPT !.m.starting = @ \cup {p}]
      BY <1>1, <1>2, <1>5, <1>8 DEF Locals
    <2>2. T = Send([P EXCEPT !.r.pending = @ \cup {p}],
                   <<[k |-> "attach", p |-> p, s |-> mem[a].session[p], new |-> mem[a].session[p] = None]>>)
      BY <1>4, <1>13, <1>16, <1>17, <1>19
    <2>3. QED
      BY <2>1, <2>2 DEF StartAttach, Server, Calm
  <1>27. replies' = [replies EXCEPT ![a] = replies[a]] /\ events' = [events EXCEPT ![a] = events[a]]
    BY <1>26 DEF IInv, Typed
  <1>28. T.r.ready = run[a].ready /\ P.r.ready = run[a].ready
    BY <1>2, <1>9, <1>14, <1>21
  <1>29. QED
    BY <1>23, <1>24, <1>25, <1>26, <1>27, <1>28, SavingKeeps

\* The close of a pane is remembered as an intent in the same save.
LEMMA ClosePaneKeeps ==
  ASSUME IInv, NEW a \in App, NEW p \in Pane, ClosePane(a, p)
  PROVE  IInv'
  <1>1. PICK L : L = Local(a)
    OBVIOUS
  <1>2. /\ FitsWith(a, L, replies[a], events[a]) /\ L \in Locals
        /\ L.m = mem[a] /\ L.r = run[a] /\ L.q = conns[<<a, Now>>].q
        /\ mem[a] \in States /\ PanesOf(L.q, replies[a], events[a])
        /\ replies[a] \in Seq(Replies) /\ events[a] \in Seq(Events) /\ NoNew(a, L)
    BY <1>1, LocalFits
  <1>3. {p} \in SUBSET Open(L.m)
    BY <1>2 DEF ClosePane
  <1>4. PICK S : S = [L EXCEPT !.m = RemovePanes(@, {p})]
    OBVIOUS
  <1>5. /\ FitsWith(a, S, replies[a], events[a]) /\ S.r = L.r /\ S.q = L.q
        /\ \A s \in Session : RemembersIt(a, mem[a], s) => RemembersIt(a, S.m, s) \/ mem[a].session[p] = s
    <2>1. PICK P \in SUBSET Open(L.m) : P = {p}
      BY <1>3
    <2>2. S = [L EXCEPT !.m = RemovePanes(@, P)]
      BY <1>4, <2>1
    <2>3. FitsWith(a, L, replies[a], events[a]) /\ PanesOf(L.q, replies[a], events[a])
      BY <1>2
    <2>4. FitsWith(a, S, replies[a], events[a])
      BY <2>2, <2>3, RemovePanesFits
    <2>5. S.r = L.r /\ S.q = L.q
      BY <2>2, <2>3, RemovePanesFits
    <2>6. \A s \in Session : RemembersIt(a, L.m, s) => RemembersIt(a, S.m, s) \/ \E x \in P : L.m.session[x] = s
      BY SMTT(30), <1>2, <2>2, RemovePanesFits
    <2>7. QED
      BY <1>2, <2>1, <2>4, <2>5, <2>6
  <1>6. PICK Q : Q = IF mem[a].session[p] \in Session \ Shows(S.m)
                     THEN QueueDiscard(a, S, mem[a].session[p]) ELSE S
    OBVIOUS
  <1>7. /\ FitsWith(a, Q, replies[a], events[a]) /\ Q.r = L.r /\ Q.q = L.q
        /\ Stay(a, {}, mem[a], Q.m)
    <2>1. CASE mem[a].session[p] \in Session \ Shows(S.m)
      <3>1. /\ FitsWith(a, Q, replies[a], events[a]) /\ Q.r = S.r /\ Q.q = S.q
            /\ mem[a].session[p] \in DOMAIN Q.m.closes
            /\ \A t \in Session : RemembersIt(a, S.m, t) => RemembersIt(a, Q.m, t)
        <4>1. PICK s \in Session : s = mem[a].session[p]
          BY <2>1
        <4>2. Q = QueueDiscard(a, S, s)
          BY <1>6, <2>1, <4>1
        <4>3. PanesOf(S.q, replies[a], events[a])
          BY <1>2, <1>5
        <4>4. /\ FitsWith(a, Q, replies[a], events[a]) /\ Q.r = S.r /\ Q.q = S.q
              /\ s \in DOMAIN Q.m.closes
              /\ \A t \in Session : RemembersIt(a, S.m, t) => RemembersIt(a, Q.m, t)
          BY <1>5, <4>2, <4>3, QueueDiscardFits
        <4>5. QED
          BY <4>1, <4>4
      <3>2. \A s \in Session : RemembersIt(a, mem[a], s) => RemembersIt(a, Q.m, s)
        <4>1. RemembersIt(a, Q.m, mem[a].session[p])
          BY <3>1 DEF RemembersIt
        <4>2. QED
          BY <1>5, <3>1, <4>1
      <3>3. QED
        BY <1>5, <3>1, <3>2 DEF Stay
    <2>2. CASE mem[a].session[p] \notin Session \ Shows(S.m)
      <3>1. Q = S
        BY <1>6, <2>2
      <3>2. mem[a].session[p] \in Session => RemembersIt(a, S.m, mem[a].session[p])
        BY <2>2 DEF RemembersIt
      <3>3. QED
        BY <1>5, <3>1, <3>2 DEF Stay
    <2>3. QED
      BY <2>1, <2>2
  <1>8. PICK V : V = SyncVisible(Q)
    OBVIOUS
  <1>9. Follows(a, Q, V)
    BY <1>7, <1>8, VisibleFollows DEF FitsWith
  <1>10. FitsWith(a, V, replies[a], events[a])
    BY <1>7, <1>9, FollowsFits
  <1>11. PICK T : T = DiscardPending(a, V, TRUE)
    OBVIOUS
  <1>12. Follows(a, V, T) /\ Asked(a, T)
    BY <1>10, <1>11, PendingFollows, CancelsFresh DEF FitsWith
  <1>13. Follows(a, Q, T)
    BY <1>9, <1>12, FollowsOn
  <1>14. NoNew(a, Q)
    BY <1>2, <1>7 DEF NoNew
  <1>15. FitsWith(a, T, replies[a], events[a]) /\ NoNew(a, T) /\ T.r.ready = run[a].ready
         /\ Stay(a, {}, mem[a], T.m)
    BY <1>2, <1>7, <1>13, <1>14, FollowsFits, StayFollows
  <1>16. Sound(a, T, replies[a], events[a], {}) /\ Sound(a, L, replies[a], events[a], {})
    BY <1>2, <1>15, StayItself DEF Sound
  <1>17. Plans(a, T.m, T)
    BY <1>15, NoNewPlans
  <1>18. Saving(a, T, L) /\ Calm /\ UNCHANGED <<replies, events, detached>>
    BY <1>1, <1>4, <1>6, <1>8, <1>11 DEF ClosePane, Server, Calm
  <1>19. replies' = [replies EXCEPT ![a] = replies[a]] /\ events' = [events EXCEPT ![a] = events[a]]
    BY <1>18 DEF IInv, Typed
  <1>20. L.r.ready = run[a].ready
    BY <1>2
  <1>21. QED
    BY <1>2, <1>12, <1>15, <1>16, <1>17, <1>18, <1>19, <1>20, SavingKeeps

\* Only what the user detaches may be forgotten.
LEMMA DetachPaneKeeps ==
  ASSUME IInv, NEW a \in App, NEW p \in Pane, DetachPane(a, p)
  PROVE  IInv'
  <1>1. PICK L : L = Local(a)
    OBVIOUS
  <1>2. /\ FitsWith(a, L, replies[a], events[a]) /\ L \in Locals
        /\ L.m = mem[a] /\ L.r = run[a] /\ L.q = conns[<<a, Now>>].q
        /\ mem[a] \in States /\ run[a] \in Runs /\ PanesOf(L.q, replies[a], events[a])
        /\ replies[a] \in Seq(Replies) /\ events[a] \in Seq(Events) /\ NoNew(a, L)
    BY <1>1, LocalFits
  <1>3. PICK m : m = [mem[a] EXCEPT !.at[p] = "gone", !.starting = @ \ {p}]
    OBVIOUS
  <1>4. /\ m = [at |-> [mem[a].at EXCEPT ![p] = "gone"], session |-> mem[a].session,
                starting |-> mem[a].starting \ {p}, cancels |-> mem[a].cancels, closes |-> mem[a].closes]
        /\ m \in States
    BY <1>2, <1>3, GoneState
  <1>5. PICK U : U = [L EXCEPT !.m = m]
    OBVIOUS
  <1>6. U \in Locals /\ U.m = m /\ U.r = L.r /\ U.q = L.q
    BY <1>2, <1>4, <1>5 DEF Locals
  <1>7. StateFits(a, mem[a]) /\ p \in Open(mem[a]) /\ mem[a].at[p] = "open"
    BY <1>2 DEF FitsWith, Fits, DetachPane, Open
  <1>8. Open(m) = Open(mem[a]) \ {p} /\ Shows(m) \subseteq Shows(mem[a])
    BY <1>2, <1>4, <1>7, StateFields DEF Open, Shows
  <1>9. \A x \in Pane : m.at[x] = IF x = p THEN "gone" ELSE mem[a].at[x]
    BY <1>2, <1>4, StateFields
  <1>10. StateFits(a, m)
    BY SMTT(30), <1>4, <1>7, <1>8, <1>9 DEF StateFits
  <1>11. FitsWith(a, U, replies[a], events[a])
    <2>1. \A x \in Pane : m.at[x] = "new" => L.m.at[x] = "new"
      BY <1>2, <1>9
    <2>2. \A x \in Pane : m.session[x] = L.m.session[x]
      BY <1>2, <1>4
    <2>3. QED
      BY <1>2, <1>6, <1>8, <1>10, <2>1, <2>2, StateChanges
  <1>12. PICK S : S = [U EXCEPT !.r.detaching = @ \cup ({p} \cap run[a].pending)]
    OBVIOUS
  <1>13. /\ S \in Locals /\ S.m = m /\ S.q = L.q /\ S.r.ready = L.r.ready /\ S.r.listed = L.r.listed
         /\ S.r.pending = L.r.pending /\ S.r.detaching = L.r.detaching \cup ({p} \cap run[a].pending)
         /\ S.r.discarding = L.r.discarding /\ S.r.cancelling = L.r.cancelling
    BY <1>6, <1>12 DEF Locals, Runs
  <1>14. FitsWith(a, S, replies[a], events[a])
    <2>1. S.r.detaching \subseteq S.r.pending
      BY <1>2, <1>13 DEF FitsWith, Fits
    <2>2. S.r.listed # None => S.r.pending = {}
      BY <1>2, <1>13 DEF FitsWith, Fits, Listing
    <2>3. QED
      BY <1>6, <1>11, <1>13, <2>1, <2>2, RunChanges
  <1>15. PICK D : D = {mem[a].session[p], <<a, p>>} \cap Session
    OBVIOUS
  <1>16. Stay(a, D, mem[a], m)
    <2>1. ASSUME NEW s \in Session \ D, RemembersIt(a, mem[a], s) PROVE RemembersIt(a, m, s)
      <3>1. s # mem[a].session[p] /\ s # <<a, p>> /\ s = <<s[1], s[2]>>
        BY <1>15, Constants
      <3>2. CASE s \in Shows(mem[a])
        BY <1>4, <1>8, <3>1, <3>2 DEF Shows, RemembersIt
      <3>3. CASE s \in DOMAIN mem[a].closes
        BY <1>4, <3>3 DEF RemembersIt
      <3>4. CASE s[1] = a /\ s[2] \in mem[a].cancels
        BY <1>4, <3>4 DEF RemembersIt
      <3>5. CASE s[1] = a /\ s[2] \in mem[a].starting /\ mem[a].session[s[2]] = None
        BY <1>4, <3>1, <3>5 DEF RemembersIt
      <3>6. QED
        BY <2>1, <3>2, <3>3, <3>4, <3>5 DEF RemembersIt
    <2>2. QED
      BY <2>1 DEF Stay
  <1>17. PICK V : V = SyncVisible(S)
    OBVIOUS
  <1>18. Follows(a, S, V)
    BY <1>13, <1>17, VisibleFollows
  <1>19. FitsWith(a, V, replies[a], events[a])
    BY <1>14, <1>18, FollowsFits
  <1>20. PICK T : T = DiscardPending(a, V, TRUE)
    OBVIOUS
  <1>21. Follows(a, V, T) /\ Asked(a, T)
    BY <1>19, <1>20, PendingFollows, CancelsFresh DEF FitsWith
  <1>22. Follows(a, S, T)
    BY <1>18, <1>21, FollowsOn
  <1>23. NoNew(a, S)
    BY <1>2, <1>13 DEF NoNew
  <1>24. FitsWith(a, T, replies[a], events[a]) /\ NoNew(a, T) /\ T.r.ready = run[a].ready
         /\ Stay(a, D, mem[a], T.m)
    BY <1>2, <1>13, <1>14, <1>16, <1>22, <1>23, FollowsFits, StayFollows
  <1>25. Sound(a, T, replies[a], events[a], D) /\ Plans(a, T.m, T)
    BY <1>2, <1>24, NoNewPlans DEF Sound
  <1>26. /\ Saving(a, T, L) /\ detached' = IF failures' = failures THEN detached \cup D ELSE detached
         /\ Calm /\ UNCHANGED <<replies, events>>
    <2>1. S = [L EXCEPT !.m.at[p] = "gone", !.m.starting = @ \ {p},
                        !.r.detaching = @ \cup ({p} \cap run[a].pending)]
      BY <1>2, <1>3, <1>5, <1>12 DEF Locals
    <2>2. QED
      BY <1>1, <1>15, <1>17, <1>20, <2>1 DEF DetachPane, Server, Calm
  <1>27. /\ replies' = [replies EXCEPT ![a] = replies[a]] /\ events' = [events EXCEPT ![a] = events[a]]
         /\ failures \in Nat /\ D \in SUBSET Session
    BY <1>15, <1>26 DEF IInv, Typed
  <1>28. CASE Put(a, T) /\ Keep(a, T.m)
    <2>1. disk' = [disk EXCEPT ![a] = T.m] /\ failures' = failures /\ detached' = detached \cup D
      BY <1>26, <1>28 DEF Keep
    <2>2. QED
      BY <1>21, <1>24, <1>25, <1>26, <1>27, <1>28, <2>1, PutHandled
  <1>29. CASE Put(a, L) /\ Fail(a) /\ UNCHANGED disk
    <2>1. failures' = failures + 1 /\ detached' = detached \cup {} /\ {} \in SUBSET Session
      BY <1>26, <1>27, <1>29 DEF Fail
    <2>2. disk' = [disk EXCEPT ![a] = disk[a]] /\ failures' \in Nat /\ failures' # 0
      BY <1>27, <1>29, <2>1 DEF IInv, Typed
    <2>3. Sound(a, L, replies[a], events[a], {}) /\ Plans(a, disk[a], L) /\ L.r.ready = run[a].ready
      BY <1>2, StayItself, NoNewPlans DEF Sound
    <2>4. QED
      BY <1>26, <1>27, <1>29, <2>1, <2>2, <2>3, PutHandled
  <1>30. QED
    BY <1>26, <1>28, <1>29 DEF Saving
-----------------------------------------------------------------------------
(* A connection and its catalog *)

\* A new connection asks first for the references and what is to be cleaned up.
LEMMA ConnectedFits ==
  ASSUME IInv, NEW a \in App, ~run[a].ready, NEW saved \in BOOLEAN, NEW T, T = Connected(a, saved)
  PROVE  /\ replies[a] = <<>> /\ events[a] = <<>> /\ Sound(a, T, <<>>, <<>>, {}) /\ (saved => Asked(a, T))
         /\ T \in Locals /\ T.m = mem[a] /\ T.n = ops[a] /\ T.r.ready
         /\ \A w \in Range(T.q) : w.k # "attach"
  <1>1. PICK L : L = Local(a)
    OBVIOUS
  <1>2. /\ FitsWith(a, L, replies[a], events[a]) /\ L \in Locals
        /\ L.m = mem[a] /\ L.r = run[a] /\ L.n = ops[a] /\ mem[a] \in States /\ NoNew(a, L)
        /\ (failures = 0 => Asked(a, L))
    BY <1>1, LocalFits DEF Local
  <1>3. ~run[a].ready
    OBVIOUS
  <1>4. replies[a] = <<>> /\ events[a] = <<>> /\ StateFits(a, mem[a])
    BY <1>2, <1>3 DEF FitsWith, Fits
  <1>5. PICK r : r = [Offline EXCEPT !.ready = TRUE]
    OBVIOUS
  <1>6. /\ r \in Runs /\ r.ready /\ r.listed = None /\ r.pending = {} /\ r.detaching = {}
        /\ r.discarding = {} /\ r.cancelling = {}
    BY <1>5 DEF Offline, Runs
  <1>7. PICK S : S = [L EXCEPT !.r = r, !.q = <<>>]
    OBVIOUS
  <1>8. S \in Locals /\ S.m = mem[a] /\ S.r = r /\ S.q = <<>> /\ S.n = ops[a] /\ Range(S.q) = {}
    BY <1>2, <1>6, <1>7, None1 DEF Locals
  <1>9. FitsWith(a, S, <<>>, <<>>)
    <2>1. MessagesFit(a, mem[a], <<>>, <<>>, <<>>)
      BY None1 DEF MessagesFit
    <2>2. Listing(mem[a], r, <<>>, <<>>, <<>>) /\ Awaiting(a, r, <<>>, <<>>)
      BY <1>6 DEF Listing, Awaiting
    <2>3. QED
      BY <1>4, <1>6, <1>8, <2>1, <2>2 DEF FitsWith, Fits
  <1>10. PICK V : V = SyncReferences(S)
    OBVIOUS
  <1>11. Follows(a, S, V)
    BY <1>8, <1>10, SyncFollows
  <1>12. FitsWith(a, V, <<>>, <<>>)
    BY <1>9, <1>11, FollowsFits
  <1>13. /\ V \in Locals /\ V.m = mem[a] /\ V.n = ops[a] /\ V.r.ready /\ V.r.pending = {} /\ V.r.detaching = {}
         /\ \A w \in Range(V.q) : w.k # "attach"
    BY <1>6, <1>8, <1>11 DEF Follows
  <1>14. PICK listed : listed = {s \in Session : status[s] = "live"}
    OBVIOUS
  <1>15. PICK S1 : S1 = [V EXCEPT !.r.listed = listed]
    OBVIOUS
  <1>16. /\ S1 \in Locals /\ S1.m = mem[a] /\ S1.n = ops[a] /\ S1.q = V.q
         /\ S1.r.ready /\ S1.r.listed = listed /\ S1.r.pending = {} /\ S1.r.detaching = {}
         /\ S1.r.discarding = V.r.discarding /\ S1.r.cancelling = V.r.cancelling
    BY <1>13, <1>14, <1>15 DEF Locals, Runs
  <1>17. FitsWith(a, S1, <<>>, <<>>)
    <2>1. \A s \in Shows(mem[a]) : s \in listed \/ Over(s)
      <3>1. ASSUME NEW s \in Shows(mem[a]) PROVE s \in listed \/ Over(s)
        <4>1. PICK p \in Pane : s = mem[a].session[p] /\ s # None
          BY <3>1 DEF Shows, Open
        <4>2. s \in Session /\ status[s] # "none"
          BY <1>2, <1>4, <4>1, StateFields DEF StateFits
        <4>3. status[s] \in {"none", "live", "ended", "gone"}
          BY <4>2 DEF IInv, Typed
        <4>4. QED
          BY <1>14, <4>2, <4>3 DEF Over
      <3>2. QED
        BY <3>1
    <2>2. Listing(S1.m, S1.r, S1.q, <<>>, <<>>)
      BY <1>13, <1>16, <2>1, None1 DEF Listing
    <2>3. MessagesFit(a, S1.m, S1.q, <<>>, <<>>)
      BY <1>12, <1>13, <1>16 DEF FitsWith, Fits
    <2>4. Awaiting(a, S1.r, S1.q, <<>>)
      BY <1>12, <1>13, <1>16 DEF FitsWith, Fits, Awaiting
    <2>5. QED
      BY <1>4, <1>16, <2>2, <2>3, <2>4 DEF FitsWith, Fits
  <1>18. T = DiscardPending(a, S1, saved)
    BY <1>1, <1>5, <1>7, <1>10, <1>14, <1>15 DEF Connected
  <1>19. Follows(a, S1, T) /\ (saved => Asked(a, T))
    BY <1>16, <1>17, <1>18, PendingFollows, CancelsFresh
  <1>20. FitsWith(a, T, <<>>, <<>>)
    BY <1>17, <1>19, FollowsFits
  <1>21. /\ T \in Locals /\ T.m = mem[a] /\ T.n = ops[a] /\ T.r.ready
         /\ \A w \in Range(T.q) : w.k # "attach"
    BY <1>13, <1>16, <1>19 DEF Follows
  <1>22. Sound(a, T, <<>>, <<>>, {})
    BY <1>20, <1>21, None1, StayItself DEF Sound
  <1>23. QED
    BY <1>4, <1>19, <1>21, <1>22

LEMMA LinkKeeps ==
  ASSUME IInv, NEW a \in App, ~run[a].ready, NEW saved \in BOOLEAN, Link(a, Connected(a, saved)),
         NEW d \in {disk[a], mem[a]}, disk' = [disk EXCEPT ![a] = d],
         failures' \in Nat, failures' = 0 => failures = 0 /\ saved,
         UNCHANGED <<mem, replies, events, Server, ops, detached>>
  PROVE  IInv'
  <1>1. PICK T : T = Connected(a, saved)
    OBVIOUS
  <1>2. /\ replies[a] = <<>> /\ events[a] = <<>> /\ Sound(a, T, <<>>, <<>>, {}) /\ (saved => Asked(a, T))
        /\ T \in Locals /\ T.m = mem[a] /\ T.n = ops[a] /\ T.r.ready
        /\ \A w \in Range(T.q) : w.k # "attach"
    BY <1>1, ConnectedFits
  <1>3. PICK c : c = [Down EXCEPT !.up = TRUE, !.q = T.q]
    OBVIOUS
  <1>4. c \in Conns /\ c.q = T.q /\ c.up
    BY <1>2, <1>3 DEF Down, Conns, Locals
  <1>5. run' = [run EXCEPT ![a] = T.r] /\ conns' = [conns EXCEPT ![<<a, Now>>] = c] /\ Calm
    BY <1>1, <1>3 DEF Link, Server, Calm
  <1>6. /\ mem' = [mem EXCEPT ![a] = T.m] /\ ops' = [ops EXCEPT ![a] = T.n]
        /\ replies' = [replies EXCEPT ![a] = <<>>] /\ events' = [events EXCEPT ![a] = <<>>]
        /\ detached' = detached \cup {}
    BY <1>2 DEF IInv, Typed
  <1>7. Plans(a, d, T) /\ (failures' = 0 => failures = 0 /\ Asked(a, T))
    BY <1>2 DEF Plans
  <1>8. Handled(a, T, <<>>, <<>>, {}, d, c)
    BY <1>2, <1>4, <1>5, <1>6, <1>7 DEF Handled
  <1>9. QED
    BY <1>2, <1>8, HandledKeeps

LEMMA ConnectKeeps ==
  ASSUME IInv, NEW a \in App, Connect(a)
  PROVE  IInv'
  <1>1. failures \in Nat /\ disk \in [App -> States]
    BY DEF IInv, Typed
  <1>2. ~run[a].ready /\ UNCHANGED <<mem, replies, events, Server, ops, detached>>
    BY DEF Connect
  <1>3. CASE \E d \in {disk[a], mem[a]} : Link(a, Connected(a, TRUE)) /\ Keep(a, d)
    BY <1>1, <1>2, <1>3, LinkKeeps DEF Keep
  <1>4. CASE Link(a, Connected(a, FALSE)) /\ Fail(a) /\ UNCHANGED disk
    <2>1. disk' = [disk EXCEPT ![a] = disk[a]] /\ failures' \in Nat /\ failures' # 0
      BY <1>1, <1>4 DEF Fail
    <2>2. QED
      BY <1>2, <1>4, <2>1, LinkKeeps
  <1>5. QED
    BY <1>3, <1>4 DEF Connect

\* Panes whose session is not listed close: it is over, by Listing. Those that were
\* starting start again, saved first.
LEMMA RestoredFits ==
  ASSUME IInv, NEW a \in App, run[a].listed # None, run[a].ready, NEW saved \in BOOLEAN,
         NEW T, T = Restored(a, saved)
  PROVE  /\ Sound(a, T, replies[a], events[a], {}) /\ T.r.ready
         /\ saved => Asked(a, T) /\ Plans(a, T.m, T)
         /\ ~saved => NoNew(a, T)
  <1>1. PICK L : L = Local(a)
    OBVIOUS
  <1>2. /\ FitsWith(a, L, replies[a], events[a]) /\ L \in Locals
        /\ L.m = mem[a] /\ L.r = run[a] /\ L.q = conns[<<a, Now>>].q
        /\ mem[a] \in States /\ run[a] \in Runs /\ PanesOf(L.q, replies[a], events[a])
        /\ replies[a] \in Seq(Replies) /\ events[a] \in Seq(Events) /\ NoNew(a, L)
    BY <1>1, LocalFits
  <1>3. run[a].listed # None /\ run[a].ready
    OBVIOUS
  <1>4. Listing(mem[a], run[a], L.q, replies[a], events[a]) /\ run[a].detaching \subseteq run[a].pending
    BY <1>2 DEF FitsWith, Fits
  <1>5. PICK lost : lost = {p \in Open(mem[a]) : mem[a].session[p] \notin run[a].listed \cup {None}}
    OBVIOUS
  <1>6. PICK A : A = [L EXCEPT !.m = RemovePanes(@, lost)]
    OBVIOUS
  <1>7. lost \in SUBSET Open(L.m) /\ lost \subseteq Pane
    BY <1>2, <1>5 DEF Open
  <1>8. FitsWith(a, A, replies[a], events[a])
    <2>1. FitsWith(a, L, replies[a], events[a]) /\ PanesOf(L.q, replies[a], events[a])
      BY <1>2
    <2>2. QED
      BY <1>6, <1>7, <2>1, RemovePanesFits
  <1>9. A.r = run[a] /\ A.q = L.q /\ A.m = RemovePanes(mem[a], lost)
    BY <1>2, <1>6 DEF Locals
  <1>10. \A s \in Session : RemembersIt(a, mem[a], s) => RemembersIt(a, A.m, s) \/ \E p \in lost : mem[a].session[p] = s
    <2>1. FitsWith(a, L, replies[a], events[a]) /\ PanesOf(L.q, replies[a], events[a]) /\ L.m = mem[a]
      BY <1>2
    <2>2. \A s \in Session : RemembersIt(a, L.m, s) => RemembersIt(a, A.m, s) \/ \E p \in lost : L.m.session[p] = s
      BY SMTT(30), <1>6, <1>7, <2>1, RemovePanesFits
    <2>3. QED
      BY <2>1, <2>2
  <1>11. Stay(a, {}, mem[a], A.m)
    <2>1. ASSUME NEW s \in Session, NEW p \in lost, mem[a].session[p] = s PROVE ~Lasting(s)
      <3>1. s \in Shows(mem[a]) /\ s \notin run[a].listed
        BY <1>5, <2>1, Constants DEF Shows
      <3>2. Over(s)
        BY <1>3, <1>4, <3>1 DEF Listing
      <3>3. QED
        BY <3>2 DEF Over, Lasting
    <2>2. QED
      BY <1>10, <2>1 DEF Stay
  <1>12. PICK B : B = [A EXCEPT !.r.listed = None, !.r.pending = {}]
    OBVIOUS
  <1>13. /\ B \in Locals /\ B.m = A.m /\ B.q = A.q /\ B.r.ready /\ B.r.listed = None
         /\ B.r.pending = {} /\ B.r.detaching = {}
         /\ B.r.discarding = A.r.discarding /\ B.r.cancelling = A.r.cancelling
    BY <1>3, <1>4, <1>8, <1>9, <1>12 DEF FitsWith, Locals, Runs, Listing
  <1>14. FitsWith(a, B, replies[a], events[a])
    BY <1>3, <1>8, <1>9, <1>13, RunChanges
  <1>15. PICK S1 : S1 = DiscardPending(a, B, saved)
    OBVIOUS
  <1>16. Follows(a, B, S1) /\ (saved => Asked(a, S1))
    BY <1>13, <1>14, <1>15, PendingFollows, CancelsFresh
  <1>17. FitsWith(a, S1, replies[a], events[a])
    BY <1>14, <1>16, FollowsFits
  <1>18. /\ S1 \in Locals /\ S1.m = A.m /\ S1.m \in States /\ S1.r.ready /\ S1.r.listed = None
         /\ S1.r.detaching = {} /\ S1.r.pending = {}
    BY <1>13, <1>16 DEF Follows, Locals
  <1>19. NoNew(a, S1)
    <2>1. NoNew(a, B)
      BY <1>2, <1>9, <1>13 DEF NoNew
    <2>2. QED
      BY <1>16, <2>1, StayFollows
  <1>20. PICK new : new = {p \in Open(S1.m) : S1.m.session[p] = None}
    OBVIOUS
  <1>21. new \subseteq Pane /\ new \subseteq Open(S1.m) /\ \A p \in new : S1.m.at[p] = "open" /\ S1.m.session[p] = None
    BY <1>20 DEF Open
  <1>22. PICK m : m = [S1.m EXCEPT !.starting = @ \cup new]
    OBVIOUS
  <1>23. /\ m = [at |-> S1.m.at, session |-> S1.m.session, starting |-> S1.m.starting \cup new,
                 cancels |-> S1.m.cancels, closes |-> S1.m.closes]
         /\ m \in States
    BY <1>18, <1>21, <1>22, StartingState
  <1>24. PICK P : P = [S1 EXCEPT !.m = m]
    OBVIOUS
  <1>25. P \in Locals /\ P.m = m /\ P.r = S1.r /\ P.q = S1.q
    BY <1>18, <1>23, <1>24 DEF Locals
  <1>26. Open(m) = Open(S1.m) /\ Shows(m) = Shows(S1.m)
    BY <1>23 DEF Shows, Open
  <1>27. StateFits(a, S1.m)
    BY <1>17 DEF FitsWith, Fits
  <1>28. StateFits(a, m)
    BY <1>21, <1>23, <1>26, <1>27 DEF StateFits
  <1>29. FitsWith(a, P, replies[a], events[a])
    <2>1. PanesOf(S1.q, replies[a], events[a])
      BY <1>2, <1>18, LocalTypes, TypesOfMessages
    <2>2. QED
      BY <1>17, <1>18, <1>23, <1>25, <1>28, <2>1, StateChanges
  <1>30. Stay(a, {}, mem[a], m) /\ NoNew(a, P)
    <2>1. Stay(a, {}, mem[a], m)
      BY <1>11, <1>18, <1>23, <1>26 DEF Stay, RemembersIt
    <2>2. NoNew(a, P)
      BY <1>19, <1>25 DEF NoNew
    <2>3. QED
      BY <2>1, <2>2
  <1>31. PICK U : U = [P EXCEPT !.r.pending = new]
    OBVIOUS
  <1>32. /\ U \in Locals /\ U.m = m /\ U.q = S1.q /\ U.r.ready /\ U.r.listed = None /\ U.r.pending = new
         /\ U.r.detaching = {} /\ U.r.discarding = S1.r.discarding /\ U.r.cancelling = S1.r.cancelling
    BY <1>18, <1>21, <1>25, <1>31 DEF Locals, Runs
  <1>33. FitsWith(a, U, replies[a], events[a])
    BY <1>18, <1>25, <1>29, <1>32, RunChanges
  <1>34. [p \in new |-> [k |-> "attach", p |-> p, s |-> None, new |-> TRUE]] \in [new -> Works]
    BY <1>21 DEF Works
  <1>35. PICK f \in [new -> Works] : f = [p \in new |-> [k |-> "attach", p |-> p, s |-> None, new |-> TRUE]]
    BY <1>34
  <1>36. PICK W : W = {f[p] : p \in new}
    OBVIOUS
  <1>37. SetToSeq(W) \in Seq(Works) /\ Range(SetToSeq(W)) = W
    BY <1>21, <1>36, Imaged, Constants
  <1>38. W = {[k |-> "attach", p |-> p, s |-> None, new |-> TRUE] : p \in new}
    BY <1>35, <1>36
  <1>39. PICK q \in Seq(Works) : q = SetToSeq(W) /\ Range(q) = W
    BY <1>37
  <1>40. ASSUME NEW w \in Range(q) PROVE w.k = "attach" /\ AttachFits(a, m, w) /\ RemembersIt(a, m, <<a, w.p>>)
    <2>1. PICK p \in new : w = [k |-> "attach", p |-> p, s |-> None, new |-> TRUE]
      BY <1>38, <1>39, <1>40
    <2>2. m.at[p] = "open" /\ m.session[p] = None /\ p \in m.starting /\ <<a, p>> \in Fresh
      BY <1>21, <1>23, <1>27 DEF StateFits
    <2>3. QED
      BY <2>1, <2>2 DEF AttachFits, RemembersIt
  <1>41. PICK X : X = Send(U, q)
    OBVIOUS
  <1>42. FitsWith(a, X, replies[a], events[a])
    BY <1>32, <1>33, <1>40, <1>41, AttachesFit
  <1>43. X \in Locals /\ X.m = m /\ X.r = U.r /\ Range(X.q) \subseteq Range(S1.q) \cup Range(q)
    BY <1>32, <1>41, SendType
  <1>44. (saved => Asked(a, X)) /\ Plans(a, m, X)
    <2>1. saved => Asked(a, X)
      BY <1>16, <1>18, <1>23, <1>32, <1>43 DEF Asked, Clean
    <2>2. Plans(a, m, X)
      BY <1>19, <1>40, <1>43 DEF Plans, NoNew
    <2>3. QED
      BY <2>1, <2>2
  <1>45. PICK done : done = SyncVisible(X)
    OBVIOUS
  <1>46. PICK failed : failed = SyncVisible(P)
    OBVIOUS
  <1>47. Follows(a, X, done) /\ Follows(a, P, failed)
    BY <1>25, <1>43, <1>45, <1>46, VisibleFollows
  <1>48. /\ FitsWith(a, done, replies[a], events[a]) /\ FitsWith(a, failed, replies[a], events[a])
         /\ saved => Asked(a, done)
    BY <1>29, <1>42, <1>44, <1>47, FollowsFits, StaysAsked
  <1>49. done.m = m /\ done.r.ready /\ failed.m = m /\ failed.r.ready
    BY <1>18, <1>25, <1>32, <1>43, <1>47 DEF Follows
  <1>50. Plans(a, m, done) /\ NoNew(a, failed)
    BY <1>30, <1>44, <1>47, StayFollows
  <1>51. Sound(a, done, replies[a], events[a], {}) /\ Sound(a, failed, replies[a], events[a], {})
    BY <1>2, <1>30, <1>48, <1>49 DEF Sound
  <1>52. T = IF saved THEN done ELSE failed
    <2>1. B = [[L EXCEPT !.r.listed = None, !.m = RemovePanes(@, lost)] EXCEPT !.r.pending = {}]
      BY <1>2, <1>6, <1>12 DEF Locals, Runs
    <2>2. P = [S1 EXCEPT !.m.starting = @ \cup new]
      BY <1>18, <1>22, <1>24 DEF Locals
    <2>3. X = Send([P EXCEPT !.r.pending = new],
                   SetToSeq({[k |-> "attach", p |-> p, s |-> None, new |-> TRUE] : p \in new}))
      BY <1>31, <1>38, <1>39, <1>41
    <2> DEFINE lost0 == {p \in Open(mem[a]) : mem[a].session[p] \notin run[a].listed \cup {None}}
               S0 == [Local(a) EXCEPT !.r.listed = None, !.m = RemovePanes(@, lost0)]
               S2 == DiscardPending(a, [S0 EXCEPT !.r.pending = {}], saved)
               new0 == {p \in Open(S2.m) : S2.m.session[p] = None}
               planned == [S2 EXCEPT !.m.starting = @ \cup new0]
               sent == Send([planned EXCEPT !.r.pending = new0],
                 SetToSeq({[k |-> "attach", p |-> p, s |-> None, new |-> TRUE] : p \in new0}))
    <2>4. T = SyncVisible(IF saved THEN sent ELSE planned)
      BY DEF Restored
    <2>5. S0 = [L EXCEPT !.r.listed = None, !.m = RemovePanes(@, lost)]
      BY <1>1, <1>5
    <2> HIDE DEF lost0, S0
    <2>6. S2 = S1
      BY <1>15, <2>1, <2>5
    <2> HIDE DEF S2
    <2>7. new0 = new
      BY <1>20, <2>6
    <2> HIDE DEF new0
    <2>8. planned = P
      BY <2>2, <2>6, <2>7
    <2> HIDE DEF planned
    <2>9. sent = X
      BY <2>3, <2>7, <2>8
    <2> HIDE DEF sent
    <2>10. QED
      BY <1>45, <1>46, <2>4, <2>8, <2>9
  <1>53. QED
    BY <1>48, <1>49, <1>50, <1>51, <1>52

\* The catalog is saved first, with the state as it was.
LEMMA RestoreKeeps ==
  ASSUME IInv, NEW a \in App, Restore(a)
  PROVE  IInv'
  <1>1. PICK T : T = Restored(a, TRUE)
    OBVIOUS
  <1>2. PICK F : F = Restored(a, FALSE)
    OBVIOUS
  <1>3. PICK L : L = Local(a)
    OBVIOUS
  <1>4. run[a].listed # None /\ run[a].ready /\ Calm /\ UNCHANGED <<replies, events, detached>>
    BY DEF Restore, Server, Calm
  <1>5. Sound(a, T, replies[a], events[a], {}) /\ T.r.ready /\ Asked(a, T) /\ Plans(a, T.m, T)
    BY <1>1, <1>4, RestoredFits
  <1>6. Sound(a, F, replies[a], events[a], {}) /\ F.r.ready /\ NoNew(a, F)
    BY <1>2, <1>4, RestoredFits
  <1>7. Sound(a, L, replies[a], events[a], {}) /\ L.r.ready /\ NoNew(a, L)
    BY <1>3, <1>4, LocalFits, StayItself DEF Sound
  <1>8. /\ replies' = [replies EXCEPT ![a] = replies[a]] /\ events' = [events EXCEPT ![a] = events[a]]
        /\ detached' = detached \cup {} /\ {} \in SUBSET Session
        /\ failures \in Nat /\ disk = [disk EXCEPT ![a] = disk[a]]
    BY <1>4 DEF IInv, Typed
  <1>9. CASE Put(a, T) /\ Keep(a, T.m)
    BY <1>4, <1>5, <1>8, <1>9, PutHandled DEF Keep
  <1>10. CASE Put(a, F) /\ Fail(a) /\ disk' = [disk EXCEPT ![a] = mem[a]]
    <2>1. failures' \in Nat /\ failures' # 0 /\ Plans(a, mem[a], F)
      BY <1>6, <1>8, <1>10, NoNewPlans DEF Fail
    <2>2. QED
      BY <1>4, <1>6, <1>8, <1>10, <2>1, PutHandled
  <1>11. CASE Put(a, L) /\ Fail(a) /\ UNCHANGED disk
    <2>1. /\ failures' \in Nat /\ failures' # 0 /\ Plans(a, disk[a], L)
          /\ disk' = [disk EXCEPT ![a] = disk[a]]
      BY <1>7, <1>8, <1>11, NoNewPlans DEF Fail
    <2>2. QED
      BY <1>4, <1>7, <1>8, <1>11, <2>1, PutHandled
  <1>12. QED
    BY <1>1, <1>2, <1>3, <1>9, <1>10, <1>11 DEF Restore
-----------------------------------------------------------------------------
(* What comes back to an app *)

\* Fewer messages fit as well, unless the app awaits one of them.
LEMMA FewerFit ==
  ASSUME NEW a, NEW S, NEW T, NEW rep, NEW ev, NEW rep2, NEW ev2, FitsWith(a, S, rep, ev), S.r.ready,
         T \in Locals, T.m = S.m, T.q = S.q, T.r.ready = S.r.ready, T.r.listed = S.r.listed,
         T.r.pending = S.r.pending, T.r.detaching = S.r.detaching,
         Range(rep2) \subseteq Range(rep), Range(ev2) \subseteq Range(ev), Awaiting(a, T.r, T.q, rep2)
  PROVE  FitsWith(a, T, rep2, ev2)
  <1>1. MessagesFit(a, T.m, T.q, rep2, ev2)
    BY DEF FitsWith, Fits, MessagesFit
  <1>2. Listing(T.m, T.r, T.q, rep2, ev2)
    BY DEF FitsWith, Fits, Listing
  <1>3. QED
    BY <1>1, <1>2 DEF FitsWith, Fits

LEMMA StayOn ==
  ASSUME NEW a, NEW D, NEW m, NEW m2, NEW m3, Stay(a, D, m, m2), Stay(a, D, m2, m3)
  PROVE  Stay(a, D, m, m3)
  BY DEF Stay

\* What a handler has on the way: the state fits, forgets nothing and starts nothing.
\* When it is saved, what is to be cleaned up was asked as well.
Going(a, S, rep, ev, saved) ==
  /\ FitsWith(a, S, rep, ev) /\ rep \in Seq(Replies) /\ ev \in Seq(Events)
  /\ Stay(a, {}, mem[a], S.m) /\ NoNew(a, S) /\ S.r.ready = run[a].ready
  /\ failures = 0 /\ saved => Asked(a, S)

LEMMA GoingOn ==
  ASSUME NEW a, NEW S, NEW T, NEW rep, NEW ev, NEW saved, Going(a, S, rep, ev, saved), Follows(a, S, T)
  PROVE  Going(a, T, rep, ev, saved)
  BY FollowsFits, StayFollows, StaysAsked DEF Going

LEMMA GoingEither ==
  ASSUME NEW a, NEW S, NEW rep, NEW ev, NEW saved \in BOOLEAN, Going(a, S, rep, ev, TRUE)
  PROVE  Going(a, S, rep, ev, saved)
  BY DEF Going

LEMMA GoingKeeps ==
  ASSUME IInv, NEW a \in App, NEW T, NEW F, NEW rep, NEW ev, Saving(a, T, F),
         Going(a, T, rep, ev, TRUE), Going(a, F, rep, ev, FALSE),
         replies' = [replies EXCEPT ![a] = rep], events' = [events EXCEPT ![a] = ev], Calm, UNCHANGED detached
  PROVE  IInv'
  <1>1. Sound(a, T, rep, ev, {}) /\ Plans(a, T.m, T)
    BY NoNewPlans DEF Going, Sound
  <1>2. Sound(a, F, rep, ev, {})
    BY DEF Going, Sound
  <1>3. QED
    BY <1>1, <1>2, SavingKeeps DEF Going

LEMMA GoingUnsaved ==
  ASSUME IInv, NEW a \in App, NEW S, NEW rep, NEW ev, Quietly(a, S), Going(a, S, rep, ev, TRUE),
         replies' = [replies EXCEPT ![a] = rep], events' = [events EXCEPT ![a] = ev], Calm, UNCHANGED detached
  PROVE  IInv'
  <1>1. Sound(a, S, rep, ev, {})
    BY DEF Going, Sound
  <1>2. QED
    BY <1>1, UnsavedKeeps DEF Going

LEMMA GoingPanes ==
  ASSUME NEW a, NEW S, NEW rep, NEW ev, NEW saved, Going(a, S, rep, ev, saved)
  PROVE  S \in Locals /\ PanesOf(S.q, rep, ev)
  BY TypesOfMessages, LocalTypes DEF Going, FitsWith

\* A session that is over may be closed and forgotten.
LEMMA CloseEndedGoes ==
  ASSUME NEW a \in App, NEW S, NEW rep, NEW ev, NEW saved \in BOOLEAN, Going(a, S, rep, ev, saved), NEW s \in Session, Over(s)
  PROVE  Going(a, CloseEnded(a, S, s, saved), rep, ev, saved)
  <1>1. CASE s \notin Shows(S.m)
    BY <1>1 DEF CloseEnded
  <1>2. CASE s \in Shows(S.m)
    <2>1. PICK P \in SUBSET Open(S.m) : P = {p \in Open(S.m) : S.m.session[p] = s}
      OBVIOUS
    <2>2. PICK A : A = [S EXCEPT !.m = RemovePanes(@, P)]
      OBVIOUS
    <2>3. FitsWith(a, S, rep, ev) /\ PanesOf(S.q, rep, ev)
      BY GoingPanes DEF Going
    <2>4. FitsWith(a, A, rep, ev)
      BY <2>2, <2>3, RemovePanesFits
    <2>5. A.r = S.r /\ A.q = S.q
      BY <2>2, <2>3, RemovePanesFits
    <2>6. \A t \in Session : RemembersIt(a, S.m, t) => RemembersIt(a, A.m, t) \/ \E p \in P : S.m.session[p] = t
      BY <2>2, <2>3, RemovePanesFits
    <2>7. Stay(a, {}, S.m, A.m)
      <3>1. ~Lasting(s) /\ \A p \in P : S.m.session[p] = s
        BY <2>1 DEF Over, Lasting
      <3>2. QED
        BY <2>6, <3>1 DEF Stay
    <2>8. Stay(a, {}, mem[a], A.m) /\ NoNew(a, A)
      BY <2>5, <2>7, StayOn DEF Going, NoNew
    <2>9. PICK V : V = SyncVisible(A)
      OBVIOUS
    <2>10. Follows(a, A, V)
      BY <2>4, <2>9, VisibleFollows DEF FitsWith
    <2>11. FitsWith(a, V, rep, ev)
      BY <2>4, <2>10, FollowsFits
    <2>12. PICK T : T = DiscardPending(a, V, saved)
      OBVIOUS
    <2>13. Follows(a, V, T) /\ (saved => Asked(a, T))
      BY <2>11, <2>12, PendingFollows, CancelsFresh DEF FitsWith
    <2>14. Follows(a, A, T)
      BY <2>10, <2>13, FollowsOn
    <2>15. FitsWith(a, T, rep, ev) /\ NoNew(a, T) /\ T.r.ready = A.r.ready /\ Stay(a, {}, mem[a], T.m)
      BY <2>4, <2>8, <2>14, FollowsFits, StayFollows
    <2>16. Going(a, T, rep, ev, saved)
      BY <2>5, <2>13, <2>15 DEF Going
    <2>17. CloseEnded(a, S, s, saved) = T
      BY <1>2, <2>1, <2>2, <2>9, <2>12 DEF CloseEnded
    <2>18. QED
      BY <2>16, <2>17
  <1>3. QED
    BY <1>1, <1>2

LEMMA ArrivedGoes ==
  ASSUME IInv, NEW a \in App, NEW rep, NEW ev, NEW saved \in BOOLEAN, Going(a, Local(a), rep, ev, saved), run[a].listed = None, NEW e
  PROVE  /\ Going(a, Arrived(a, e), rep, ev, saved) /\ Arrived(a, e).m = mem[a]
         /\ Arrived(a, e).r.listed = None
  <1>1. PICK L : L = Local(a)
    OBVIOUS
  <1>2. /\ L \in Locals /\ L.m = mem[a] /\ L.r = run[a] /\ Going(a, L, rep, ev, saved)
        /\ L.r.detaching \subseteq L.r.pending
    BY <1>1, LocalFits DEF FitsWith, Fits
  <1>3. PICK S : S = [L EXCEPT !.r.pending = @ \ {e.p}, !.r.detaching = @ \ {e.p}]
    OBVIOUS
  <1>4. /\ S \in Locals /\ S.m = L.m /\ S.q = L.q /\ S.r.ready = L.r.ready /\ S.r.listed = None
        /\ S.r.pending = L.r.pending \ {e.p} /\ S.r.detaching = L.r.detaching \ {e.p}
        /\ S.r.discarding = L.r.discarding /\ S.r.cancelling = L.r.cancelling
    BY <1>2, <1>3 DEF Locals, Runs
  <1>5. FitsWith(a, S, rep, ev)
    BY <1>2, <1>4, RunChanges DEF Going
  <1>6. Going(a, S, rep, ev, saved)
    BY <1>2, <1>4, <1>5 DEF Going, NoNew, Asked, Clean
  <1>7. CASE e.p \notin run[a].detaching
    <2>1. Arrived(a, e) = S
      BY <1>1, <1>3, <1>7 DEF Arrived
    <2>2. QED
      BY <1>2, <1>4, <1>6, <2>1
  <1>8. CASE e.p \in run[a].detaching
    <2>1. PICK R : R = [S EXCEPT !.r.refs = None]
      OBVIOUS
    <2>2. /\ R \in Locals /\ R.m = L.m /\ R.q = L.q /\ R.r.ready = L.r.ready /\ R.r.listed = None
          /\ R.r.pending = S.r.pending /\ R.r.detaching = S.r.detaching
          /\ R.r.discarding = L.r.discarding /\ R.r.cancelling = L.r.cancelling
      BY <1>4, <2>1 DEF Locals, Runs
    <2>3. FitsWith(a, R, rep, ev)
      BY <1>2, <1>4, <1>5, <2>2, RunChanges
    <2>4. Going(a, R, rep, ev, saved)
      BY <1>2, <1>4, <2>2, <2>3 DEF Going, NoNew, Asked, Clean
    <2>5. PICK T : T = SyncReferences(R)
      OBVIOUS
    <2>6. Follows(a, R, T)
      BY <2>2, <2>5, SyncFollows
    <2>7. Going(a, T, rep, ev, saved) /\ T.m = mem[a] /\ T.r.listed = None
      BY <1>2, <2>2, <2>4, <2>6, GoingOn DEF Follows
    <2>8. Arrived(a, e) = T
      BY <1>1, <1>3, <1>8, <2>1, <2>5 DEF Arrived
    <2>9. QED
      BY <2>7, <2>8
  <1>9. QED
    BY <1>7, <1>8

LEMMA KnownState ==
  ASSUME NEW m \in States, NEW p \in Pane, NEW s \in Session, NEW m2, m2 = [m EXCEPT !.session[p] = s]
  PROVE  /\ m2 = [at |-> m.at, session |-> [m.session EXCEPT ![p] = s], starting |-> m.starting,
                  cancels |-> m.cancels, closes |-> m.closes]
         /\ m2 \in States
  <1>1. m2 = [at |-> m.at, session |-> [m.session EXCEPT ![p] = s], starting |-> m.starting,
              cancels |-> m.cancels, closes |-> m.closes]
    BY DEF States
  <1>2. m2 \in States
    BY <1>1, StateFields DEF States
  <1>3. QED
    BY <1>1, <1>2

\* The session that came back for a pane goes to it.
LEMMA KnownGoes ==
  ASSUME NEW a \in App, NEW S, NEW rep, NEW ev, NEW saved \in BOOLEAN, Going(a, S, rep, ev, saved), S.r.listed = None,
         NEW p \in Pane, NEW s \in Session, S.m.at[p] = "open", status[s] # "none",
         S.m.session[p] = s \/ (s = <<a, p>> /\ S.m.session[p] \in {None, s}),
         NEW T \in Locals, T.r = S.r, T.q = S.q, T.m.at = S.m.at, T.m.starting = S.m.starting,
         T.m.cancels = S.m.cancels, T.m.closes = S.m.closes, T.m.session[p] = s,
         \A x \in Pane : x # p => T.m.session[x] = S.m.session[x]
  PROVE  Going(a, T, rep, ev, saved)
  <1>1. S \in Locals /\ S.m \in States /\ PanesOf(S.q, rep, ev)
    BY GoingPanes DEF Locals
  <1>4. PICK m \in States : m = S.m
    BY <1>1
  <1>5. PICK m2 \in States : m2 = T.m
    BY LocalTypes
  <1>8. T.m = m2
    BY <1>5
  <1>9. /\ m2.at = m.at /\ m2.starting = m.starting /\ m2.cancels = m.cancels /\ m2.closes = m.closes
        /\ m2.session[p] = s /\ \A x \in Pane : x # p => m2.session[x] = m.session[x]
    BY <1>4, <1>5
  <1>10. StateFits(a, m)
    BY <1>4 DEF Going, FitsWith, Fits
  <1>11. /\ m.at[p] = "open" /\ status[s] # "none" /\ None \notin Session
         /\ m.session[p] = s \/ (s = <<a, p>> /\ m.session[p] \in {None, s})
    BY <1>4, Constants
  <1>12. StateFits(a, m2)
    <2>1. Open(m2) = Open(m)
      BY <1>9 DEF Open
    <2>2. \A x \in Pane : m2.session[x] = None => m.session[x] = None
      BY <1>9, <1>11
    <2>3. \A x \in Pane : m2.session[x] # None => status[m2.session[x]] # "none"
      BY <1>9, <1>10, <1>11 DEF StateFits
    <2>4. QED
      BY <1>9, <1>10, <1>11, <2>1, <2>2, <2>3 DEF StateFits
  <1>13. ASSUME NEW x, x.p \in Pane, AttachFits(a, m, x) PROVE AttachFits(a, m2, x)
    <2>1. CASE x.p # p
      BY <1>9, <1>13, <2>1 DEF AttachFits
    <2>2. CASE x.p = p
      BY <1>9, <1>11, <1>13, <2>2 DEF AttachFits
    <2>3. QED
      BY <2>1, <2>2
  <1>14. FitsWith(a, T, rep, ev)
    <2>1. FitsWith(a, S, rep, ev) /\ T.r.listed = None
      BY <1>8 DEF Going
    <2>2. \A x : x.p \in Pane /\ AttachFits(a, S.m, x) => AttachFits(a, T.m, x)
      BY <1>4, <1>8, <1>13
    <2>3. T.r = S.r /\ T.q = S.q /\ T \in Locals /\ StateFits(a, T.m) /\ PanesOf(S.q, rep, ev)
      BY <1>1, <1>8, <1>12
    <2>4. QED
      BY <2>1, <2>2, <2>3, StateMoves
  <1>15. Stay(a, {}, m, m2)
    <2>1. ASSUME NEW t \in Session, RemembersIt(a, m, t) PROVE RemembersIt(a, m2, t)
      <3>1. t = <<t[1], t[2]>> /\ t[2] \in Pane
        BY Constants
      <3>2. s \in Shows(m2)
        BY <1>9, <1>11 DEF Shows, Open
      <3>3. CASE t \in Shows(m)
        <4>1. PICK x \in Open(m) : t = m.session[x] /\ t # None
          BY <3>3 DEF Shows
        <4>2. CASE x = p
          BY <1>11, <3>2, <4>1, <4>2 DEF RemembersIt
        <4>3. CASE x # p
          BY <1>9, <4>1, <4>3 DEF Shows, Open, RemembersIt
        <4>4. QED
          BY <4>2, <4>3
      <3>4. CASE t \in DOMAIN m.closes
        BY <1>9, <3>4 DEF RemembersIt
      <3>5. CASE t[1] = a /\ t[2] \in m.cancels
        BY <1>9, <3>5 DEF RemembersIt
      <3>6. CASE t[1] = a /\ t[2] \in m.starting /\ m.session[t[2]] = None
        <4>1. CASE t[2] = p
          BY <1>11, <3>1, <3>2, <3>6, <4>1 DEF RemembersIt
        <4>2. CASE t[2] # p
          BY <1>9, <3>1, <3>6, <4>2 DEF RemembersIt
        <4>3. QED
          BY <4>1, <4>2
      <3>7. QED
        BY <2>1, <3>3, <3>4, <3>5, <3>6 DEF RemembersIt
    <2>2. QED
      BY <2>1 DEF Stay
  <1>16. Going(a, T, rep, ev, saved)
    <2>1. Stay(a, {}, mem[a], T.m)
      BY <1>4, <1>8, <1>15, StayOn DEF Going
    <2>2. QED
      BY <1>4, <1>8, <1>9, <1>14, <2>1 DEF Going, NoNew, Asked, Clean
  <1>17. QED
    BY <1>16

\* What came back for a pane goes to it or, when the pane is gone, is to be closed.
LEMMA SettleGoes ==
  ASSUME NEW a \in App, NEW S, NEW rep, NEW ev, NEW saved \in BOOLEAN, Going(a, S, rep, ev, saved),
         S.m = mem[a], S.r.listed = None,
         NEW e, e.p \in Pane, e.s \in Session, e.new \in BOOLEAN, AttachFits(a, mem[a], e)
  PROVE  /\ Going(a, Settle(a, S, e, saved), rep, ev, saved)
         /\ mem[a].at[e.p] = "open" => Settle(a, S, e, saved).m.session[e.p] = e.s
  <1>1. S \in Locals /\ PanesOf(S.q, rep, ev)
    BY GoingPanes
  <1>2. CASE mem[a].at[e.p] = "open"
    <2>1. PICK K : K = [S EXCEPT !.m.session[e.p] = e.s]
      OBVIOUS
    <2>2. Going(a, K, rep, ev, saved) /\ K.m.session[e.p] = e.s
      <3>1. PICK p \in Pane : p = e.p
        OBVIOUS
      <3>2. PICK s \in Session : s = e.s
        OBVIOUS
      <3>3. /\ S.m.at[p] = "open" /\ status[s] # "none"
            /\ S.m.session[p] = s \/ (s = <<a, p>> /\ S.m.session[p] \in {None, s})
        BY <1>2, <3>1, <3>2, Constants DEF AttachFits
      <3>4. PICK m : m = [S.m EXCEPT !.session[p] = s]
        OBVIOUS
      <3>5. S.m \in States
        BY <1>1 DEF Locals
      <3>6. /\ m = [at |-> S.m.at, session |-> [S.m.session EXCEPT ![p] = s], starting |-> S.m.starting,
                    cancels |-> S.m.cancels, closes |-> S.m.closes]
            /\ m \in States
        BY <3>4, <3>5, KnownState
      <3>7. K = [S EXCEPT !.m = m]
        BY <1>1, <2>1, <3>1, <3>2, <3>4 DEF Locals
      <3>8. K \in Locals /\ K.m = m /\ K.r = S.r /\ K.q = S.q
        BY <1>1, <3>6, <3>7 DEF Locals
      <3>9. m.session[p] = s /\ \A x \in Pane : x # p => m.session[x] = S.m.session[x]
        BY <3>5, <3>6, StateFields
      <3>10. Going(a, K, rep, ev, saved)
        <4>1. /\ K.m.at = S.m.at /\ K.m.starting = S.m.starting /\ K.m.cancels = S.m.cancels
              /\ K.m.closes = S.m.closes
          BY <3>6, <3>8
        <4>2. K.m.session[p] = s /\ \A x \in Pane : x # p => K.m.session[x] = S.m.session[x]
          BY <3>8, <3>9
        <4>3. K \in Locals /\ K.r = S.r /\ K.q = S.q
          BY <3>8
        <4>4. S.r.listed = None /\ Going(a, S, rep, ev, saved)
          OBVIOUS
        <4>5. S.m.at[p] = "open" /\ status[s] # "none"
          BY <3>3
        <4>6. S.m.session[p] = s \/ (s = <<a, p>> /\ S.m.session[p] \in {None, s})
          BY <3>3
        <4>7. QED
          BY <4>1, <4>2, <4>3, <4>4, <4>5, <4>6, KnownGoes
      <3>11. QED
        BY <3>1, <3>2, <3>8, <3>9, <3>10
    <2>3. K \in Locals
      BY <2>2, GoingPanes
    <2>4. PICK T : T = SyncReferences(K)
      OBVIOUS
    <2>5. Follows(a, K, T)
      BY <2>3, <2>4, SyncFollows
    <2>6. Going(a, T, rep, ev, saved) /\ T.m = K.m
      BY <2>2, <2>5, GoingOn DEF Follows
    <2>7. Settle(a, S, e, saved) = T
      BY <1>2, <2>1, <2>4 DEF Settle
    <2>8. QED
      BY <2>2, <2>6, <2>7
  <1>3. CASE mem[a].at[e.p] # "open" /\ e.new /\ e.p \notin run[a].detaching
    <2>1. PICK s \in Session : s = e.s
      OBVIOUS
    <2>2. PICK Q : Q = QueueDiscard(a, S, s)
      OBVIOUS
    <2>3. FitsWith(a, S, rep, ev)
      BY DEF Going
    <2>4. /\ FitsWith(a, Q, rep, ev) /\ Q.r = S.r /\ Q.q = S.q
          /\ \A t \in Session : RemembersIt(a, S.m, t) => RemembersIt(a, Q.m, t)
      BY SMTT(30), <1>1, <2>2, <2>3, QueueDiscardFits
    <2>5. Stay(a, {}, mem[a], Q.m) /\ NoNew(a, Q)
      BY <2>4 DEF Going, Stay, NoNew
    <2>6. PICK T : T = IF saved THEN DiscardPending(a, Q, TRUE) ELSE Q
      OBVIOUS
    <2>7. Follows(a, Q, T) /\ (saved => Asked(a, T))
      <3>1. Q \in Locals /\ \A p \in Q.m.cancels : <<a, p>> \in Fresh
        BY <2>4, CancelsFresh DEF FitsWith
      <3>2. Follows(a, Q, DiscardPending(a, Q, TRUE)) /\ Asked(a, DiscardPending(a, Q, TRUE))
        BY <3>1, PendingFollows
      <3>3. Follows(a, Q, Q)
        BY <3>1, Stays
      <3>4. QED
        BY <2>6, <3>2, <3>3
    <2>8. FitsWith(a, T, rep, ev) /\ NoNew(a, T) /\ T.r.ready = Q.r.ready /\ Stay(a, {}, mem[a], T.m)
      BY <2>4, <2>5, <2>7, FollowsFits, StayFollows
    <2>9. Going(a, T, rep, ev, saved)
      BY <2>4, <2>7, <2>8 DEF Going
    <2>10. Settle(a, S, e, saved) = T
      BY <1>3, <2>1, <2>2, <2>6 DEF Settle, Saves
    <2>11. QED
      BY <1>3, <2>9, <2>10
  <1>4. CASE mem[a].at[e.p] # "open" /\ ~(e.new /\ e.p \notin run[a].detaching)
    <2>1. CASE e.k = "attached"
      <3>1. PICK w \in Works : w = [k |-> "detach", p |-> e.p, s |-> e.s]
        BY DEF Works
      <3>2. PICK q \in Seq(Works) : q = <<w>> /\ Range(q) = {w}
        BY One
      <3>3. Follows(a, S, Send(S, q))
        <4>1. \A x \in Range(q) : x.k = "detach"
          BY <3>1, <3>2
        <4>2. QED
          BY <1>1, <4>1, AsksMore
      <3>4. Going(a, Send(S, q), rep, ev, saved)
        BY <3>3, GoingOn
      <3>5. Settle(a, S, e, saved) = Send(S, q)
        BY <1>4, <2>1, <3>1, <3>2 DEF Settle, Saves
      <3>6. QED
        BY <1>4, <3>4, <3>5
    <2>2. CASE e.k # "attached"
      <3>1. Settle(a, S, e, saved) = S
        BY <1>4, <2>2 DEF Settle, Saves
      <3>2. QED
        BY <1>4, <3>1
    <2>3. QED
      BY <2>1, <2>2
  <1>5. QED
    BY <1>2, <1>3, <1>4

\* A message is received when the rest still fits.
LEMMA Consumed ==
  ASSUME IInv, NEW a \in App
  PROVE  /\ events[a] # <<>> =>
              /\ Head(events[a]) \in Events /\ EventFits(a, mem[a], Head(events[a]))
              /\ Going(a, Local(a), replies[a], Tail(events[a]), TRUE)
              /\ Head(events[a]).k = "attached" => run[a].listed = None
         /\ replies[a] # <<>> =>
              /\ Head(replies[a]) \in Replies /\ ReplyFits(a, mem[a], Head(replies[a])) /\ run[a].ready
              /\ Tail(replies[a]) \in Seq(Replies) /\ Range(Tail(replies[a])) \subseteq Range(replies[a])
              /\ Head(replies[a]).k = "failed" =>
                   Going(a, Local(a), Tail(replies[a]), events[a], TRUE) /\ run[a].listed = None
  <1>1. PICK L : L = Local(a)
    OBVIOUS
  <1>2. PICK rep \in Seq(Replies) : rep = replies[a]
    BY LocalFits
  <1>3. PICK ev \in Seq(Events) : ev = events[a]
    BY LocalFits
  <1>4. /\ FitsWith(a, L, rep, ev) /\ L \in Locals /\ L.m = mem[a] /\ L.r = run[a] /\ NoNew(a, L)
        /\ failures = 0 => Asked(a, L)
    BY <1>1, <1>2, <1>3, LocalFits
  <1>5. ASSUME ev # <<>>
        PROVE  /\ Head(ev) \in Events /\ EventFits(a, mem[a], Head(ev))
               /\ Going(a, L, rep, Tail(ev), TRUE) /\ (Head(ev).k = "attached" => run[a].listed = None)
    <2>1. Head(ev) \in Events /\ Head(ev) \in Range(ev) /\ Tail(ev) \in Seq(Events) /\ Range(Tail(ev)) \subseteq Range(ev)
      BY <1>5, TailOf
    <2>2. run[a].ready
      BY <1>4, <1>5 DEF FitsWith, Fits
    <2>3. EventFits(a, mem[a], Head(ev)) /\ (Head(ev).k = "attached" => run[a].listed = None)
      BY <1>4, <2>1 DEF FitsWith, Fits, MessagesFit, Listing
    <2>4. Awaiting(a, L.r, L.q, rep)
      BY <1>4, <2>2 DEF FitsWith, Fits
    <2>5. FitsWith(a, L, rep, Tail(ev))
      BY <1>4, <2>1, <2>2, <2>4, FewerFit
    <2>6. QED
      BY <1>4, <2>1, <2>3, <2>5, StayItself DEF Going
  <1>6. ASSUME rep # <<>>
        PROVE  /\ Head(rep) \in Replies /\ ReplyFits(a, mem[a], Head(rep)) /\ run[a].ready
               /\ Tail(rep) \in Seq(Replies) /\ Range(Tail(rep)) \subseteq Range(rep)
               /\ Head(rep).k = "failed" => Going(a, L, Tail(rep), ev, TRUE) /\ run[a].listed = None
    <2>1. /\ Head(rep) \in Replies /\ Head(rep) \in Range(rep) /\ Tail(rep) \in Seq(Replies)
          /\ Range(Tail(rep)) \subseteq Range(rep) /\ Range(rep) = {Head(rep)} \cup Range(Tail(rep))
      BY <1>6, TailOf
    <2>2. run[a].ready
      BY <1>4, <1>6 DEF FitsWith, Fits
    <2>3. ReplyFits(a, mem[a], Head(rep)) /\ (Head(rep).k = "failed" => run[a].listed = None)
      BY <1>4, <2>1 DEF FitsWith, Fits, MessagesFit, Listing
    <2>4. ASSUME Head(rep).k = "failed" PROVE Going(a, L, Tail(rep), ev, TRUE)
      <3>1. Awaiting(a, L.r, L.q, rep)
        BY <1>4, <2>2 DEF FitsWith, Fits
      <3>2. Awaiting(a, L.r, L.q, Tail(rep))
        BY <2>1, <2>4, <3>1 DEF Awaiting, Awaits
      <3>3. FitsWith(a, L, Tail(rep), ev)
        BY <1>4, <2>1, <2>2, <3>2, FewerFit
      <3>4. QED
        BY <1>4, <2>1, <3>3, StayItself DEF Going
    <2>5. QED
      BY <2>1, <2>2, <2>3, <2>4
  <1>7. QED
    BY <1>1, <1>2, <1>3, <1>5, <1>6

\* One lemma for each kind of message.
LEMMA AttachedGoes ==
  ASSUME IInv, NEW a \in App, NEW rep, NEW ev, Going(a, Local(a), rep, ev, TRUE), run[a].listed = None,
         NEW e, e.p \in Pane, e.s \in Session, e.new \in BOOLEAN, AttachFits(a, mem[a], e), NEW saved \in BOOLEAN
  PROVE  Going(a, Attached(a, e, saved), rep, ev, saved)
  <1>1. PICK A : A = Arrived(a, e)
    OBVIOUS
  <1>2. Going(a, A, rep, ev, saved) /\ A.m = mem[a] /\ A.r.listed = None
    BY <1>1, GoingEither, ArrivedGoes
  <1>3. PICK S : S = Settle(a, A, e, saved)
    OBVIOUS
  <1>4. Going(a, S, rep, ev, saved)
    BY <1>2, <1>3, SettleGoes
  <1>5. PICK T : T = IF mem[a].at[e.p] = "open" THEN [S EXCEPT !.r.shown = @ \cup {e.p}] ELSE S
    OBVIOUS
  <1>6. Going(a, T, rep, ev, saved)
    <2>1. CASE mem[a].at[e.p] = "open"
      <3>1. S \in Locals
        BY <1>4, GoingPanes
      <3>2. /\ T \in Locals /\ T.m = S.m /\ T.q = S.q /\ T.n = S.n /\ T.r.ready = S.r.ready /\ T.r.listed = S.r.listed
            /\ T.r.pending = S.r.pending /\ T.r.detaching = S.r.detaching
            /\ T.r.discarding = S.r.discarding /\ T.r.cancelling = S.r.cancelling
        BY <1>5, <2>1, <3>1 DEF Locals, Runs
      <3>3. Follows(a, S, T)
        BY <3>2 DEF Follows
      <3>4. QED
        BY <1>4, <3>3, GoingOn
    <2>2. CASE mem[a].at[e.p] # "open"
      BY <1>4, <1>5, <2>2
    <2>3. QED
      BY <2>1, <2>2
  <1>7. Attached(a, e, saved) = T
    BY <1>1, <1>3, <1>5 DEF Attached
  <1>8. QED
    BY <1>6, <1>7

LEMMA AttachedKeeps ==
  ASSUME IInv, NEW a \in App, events[a] # <<>>, Head(events[a]).k = "attached",
         ReceiveAttached(a, Head(events[a])), events' = [events EXCEPT ![a] = Tail(@)],
         Calm, UNCHANGED <<replies, detached>>
  PROVE  IInv'
  <1>1. PICK e : e = Head(events[a])
    OBVIOUS
  <1>2. PICK ev : ev = Tail(events[a])
    OBVIOUS
  <1>3. PICK rep : rep = replies[a]
    OBVIOUS
  <1>4. /\ e \in Events /\ EventFits(a, mem[a], e) /\ e.k = "attached" /\ run[a].listed = None
        /\ Going(a, Local(a), rep, ev, TRUE)
    BY <1>1, <1>2, <1>3, Consumed
  <1>5. e.p \in Pane /\ e.s \in Session /\ e.new \in BOOLEAN /\ AttachFits(a, mem[a], e)
    BY <1>4 DEF Events, EventFits
  <1>6. Going(a, Attached(a, e, TRUE), rep, ev, TRUE) /\ Going(a, Attached(a, e, FALSE), rep, ev, FALSE)
    BY <1>4, <1>5, AttachedGoes
  <1>7. replies' = [replies EXCEPT ![a] = rep] /\ events' = [events EXCEPT ![a] = ev]
    BY <1>2, <1>3 DEF IInv, Typed
  <1>8. CASE Saving(a, Attached(a, e, TRUE), Attached(a, e, FALSE))
    BY <1>6, <1>7, <1>8, GoingKeeps
  <1>9. CASE Quietly(a, Attached(a, e, TRUE))
    BY <1>6, <1>7, <1>9, GoingUnsaved
  <1>10. QED
    BY <1>1, <1>8, <1>9 DEF ReceiveAttached

LEMMA EndedKeeps ==
  ASSUME IInv, NEW a \in App, events[a] # <<>>, Head(events[a]).k = "ended",
         ReceiveEnded(a, Head(events[a])), events' = [events EXCEPT ![a] = Tail(@)],
         Calm, UNCHANGED <<replies, detached>>
  PROVE  IInv'
  <1>1. PICK s : s = Head(events[a]).s
    OBVIOUS
  <1>2. PICK ev : ev = Tail(events[a])
    OBVIOUS
  <1>3. PICK rep : rep = replies[a]
    OBVIOUS
  <1>4. s \in Session /\ Over(s) /\ Going(a, Local(a), rep, ev, TRUE)
    BY <1>1, <1>2, <1>3, Consumed DEF Events, EventFits
  <1>5. /\ Going(a, CloseEnded(a, Local(a), s, TRUE), rep, ev, TRUE)
        /\ Going(a, CloseEnded(a, Local(a), s, FALSE), rep, ev, FALSE)
    BY <1>4, GoingEither, CloseEndedGoes
  <1>6. replies' = [replies EXCEPT ![a] = rep] /\ events' = [events EXCEPT ![a] = ev]
    BY <1>2, <1>3 DEF IInv, Typed
  <1>7. CASE Saving(a, CloseEnded(a, Local(a), s, TRUE), CloseEnded(a, Local(a), s, FALSE))
    BY <1>5, <1>6, <1>7, GoingKeeps
  <1>8. CASE Quietly(a, Local(a))
    BY <1>4, <1>6, <1>8, GoingUnsaved
  <1>9. QED
    BY <1>1, <1>7, <1>8 DEF ReceiveEnded

LEMMA AttachFailedGoes ==
  ASSUME IInv, NEW a \in App, NEW rep, NEW ev, Going(a, Local(a), rep, ev, TRUE), run[a].listed = None,
         NEW e, e.p \in Pane, e.s \in Session \cup {None}, e.new \in BOOLEAN, AttachFits(a, mem[a], e),
         e.missing => e.s # None /\ Over(e.s), NEW saved \in BOOLEAN
  PROVE  Going(a, AttachFailed(a, e, saved), rep, ev, saved)
  <1>1. PICK A : A = Arrived(a, e)
    OBVIOUS
  <1>2. Going(a, A, rep, ev, saved) /\ A.m = mem[a] /\ A.r.listed = None
    BY <1>1, GoingEither, ArrivedGoes
  <1>3. PICK S : S = IF e.s = None THEN A ELSE Settle(a, A, e, saved)
    OBVIOUS
  <1>4. Going(a, S, rep, ev, saved) /\ (e.s # None /\ mem[a].at[e.p] = "open" => S.m.session[e.p] = e.s)
    <2>1. CASE e.s = None
      BY <1>2, <1>3, <2>1
    <2>2. CASE e.s # None
      <3>1. e.s \in Session
        BY <2>2
      <3>2. S = Settle(a, A, e, saved)
        BY <1>3, <2>2
      <3>3. QED
        BY <1>2, <3>1, <3>2, SettleGoes
    <2>3. QED
      BY <2>1, <2>2
  <1>5. PICK T : T = IF e.missing /\ mem[a].at[e.p] = "open" /\ S.m.session[e.p] # None
                     THEN CloseEnded(a, S, S.m.session[e.p], saved) ELSE S
    OBVIOUS
  <1>6. Going(a, T, rep, ev, saved)
    <2>1. CASE e.missing /\ mem[a].at[e.p] = "open" /\ S.m.session[e.p] # None
      <3>1. PICK s \in Session : s = e.s
        BY <2>1
      <3>2. Over(s) /\ T = CloseEnded(a, S, s, saved)
        BY <1>4, <1>5, <2>1, <3>1
      <3>3. QED
        BY <1>4, <3>2, CloseEndedGoes
    <2>2. CASE ~(e.missing /\ mem[a].at[e.p] = "open" /\ S.m.session[e.p] # None)
      BY <1>4, <1>5, <2>2
    <2>3. QED
      BY <2>1, <2>2
  <1>7. AttachFailed(a, e, saved) = T
    BY <1>1, <1>3, <1>5 DEF AttachFailed
  <1>8. QED
    BY <1>6, <1>7

LEMMA AttachFailedKeeps ==
  ASSUME IInv, NEW a \in App, replies[a] # <<>>, Head(replies[a]).k = "failed",
         ReceiveAttachFailed(a, Head(replies[a])), replies' = [replies EXCEPT ![a] = Tail(@)],
         Calm, UNCHANGED <<events, detached>>
  PROVE  IInv'
  <1>1. PICK e : e = Head(replies[a])
    OBVIOUS
  <1>2. PICK rep : rep = Tail(replies[a])
    OBVIOUS
  <1>3. PICK ev : ev = events[a]
    OBVIOUS
  <1>4. /\ e \in Replies /\ ReplyFits(a, mem[a], e) /\ e.k = "failed" /\ run[a].listed = None
        /\ Going(a, Local(a), rep, ev, TRUE)
    BY <1>1, <1>2, <1>3, Consumed
  <1>5. /\ e.p \in Pane /\ e.s \in Session \cup {None} /\ e.new \in BOOLEAN /\ AttachFits(a, mem[a], e)
        /\ e.missing => e.s # None /\ Over(e.s)
    BY <1>4 DEF Replies, ReplyFits
  <1>6. Going(a, AttachFailed(a, e, TRUE), rep, ev, TRUE) /\ Going(a, AttachFailed(a, e, FALSE), rep, ev, FALSE)
    BY <1>4, <1>5, AttachFailedGoes
  <1>7. replies' = [replies EXCEPT ![a] = rep] /\ events' = [events EXCEPT ![a] = ev]
    BY <1>2, <1>3 DEF IInv, Typed
  <1>8. CASE Saving(a, AttachFailed(a, e, TRUE), AttachFailed(a, e, FALSE))
    BY <1>6, <1>7, <1>8, GoingKeeps
  <1>9. CASE Quietly(a, AttachFailed(a, e, TRUE))
    BY <1>6, <1>7, <1>9, GoingUnsaved
  <1>10. QED
    BY <1>1, <1>8, <1>9 DEF ReceiveAttachFailed

LEMMA DiscardedKeeps ==
  ASSUME IInv, NEW a \in App, replies[a] # <<>>, Head(replies[a]).k = "discard",
         ReceiveDiscarded(a, Head(replies[a])), replies' = [replies EXCEPT ![a] = Tail(@)],
         Calm, UNCHANGED <<events, detached>>
  PROVE  IInv'
  <1>1. PICK s : s = Head(replies[a]).s
    OBVIOUS
  <1>2. PICK rep : rep = Tail(replies[a])
    OBVIOUS
  <1>3. PICK ev : ev = events[a]
    OBVIOUS
  <1>4. PICK L : L = Local(a)
    OBVIOUS
  <1>5. /\ FitsWith(a, L, replies[a], ev) /\ L \in Locals /\ L.m = mem[a] /\ L.r = run[a]
        /\ ev \in Seq(Events) /\ NoNew(a, L) /\ (failures = 0 => Asked(a, L)) /\ mem[a] \in States
        /\ PanesOf(L.q, replies[a], ev)
    BY <1>3, <1>4, LocalFits
  <1>6. /\ s \in Session /\ (Over(s) \/ s \in kept) /\ run[a].ready
        /\ rep \in Seq(Replies) /\ Range(rep) \subseteq Range(replies[a])
    BY <1>1, <1>2, Consumed DEF Replies, ReplyFits
  <1>7. Range(replies[a]) = {Head(replies[a])} \cup Range(rep)
    BY <1>2, TailOf, LocalFits
  <1>8. PICK S : S = [L EXCEPT !.r.discarding = @ \ {s}]
    OBVIOUS
  <1>9. /\ S \in Locals /\ S.m = mem[a] /\ S.q = L.q /\ S.r.ready = L.r.ready /\ S.r.listed = L.r.listed
        /\ S.r.pending = L.r.pending /\ S.r.detaching = L.r.detaching
        /\ S.r.discarding = L.r.discarding \ {s} /\ S.r.cancelling = L.r.cancelling
    BY <1>5, <1>8 DEF Locals, Runs
  <1>10. FitsWith(a, S, rep, ev)
    <2>1. Awaiting(a, L.r, L.q, replies[a])
      BY <1>5, <1>6 DEF FitsWith, Fits
    <2>2. Awaiting(a, S.r, S.q, rep)
      BY <1>1, <1>7, <1>9, <2>1 DEF Awaiting, Awaits
    <2>3. QED
      BY <1>5, <1>6, <1>9, <2>2, FewerFit
  <1>11. PICK c : c = Restrict(mem[a].closes, DOMAIN mem[a].closes \ {s})
    OBVIOUS
  <1>12. c \in Closes /\ DOMAIN c = DOMAIN mem[a].closes \ {s}
    <2>1. PICK f \in Closes : f = mem[a].closes
      BY <1>5, StateFields
    <2>2. DOMAIN f \subseteq Session /\ \A x \in DOMAIN f : f[x] \in App \X Nat
      BY TypeOfCloses
    <2>3. c = [x \in DOMAIN f \ {s} |-> f[x]]
      BY <1>11, <2>1 DEF Restrict
    <2>4. c \in [DOMAIN f \ {s} -> App \X Nat]
      BY <2>2, <2>3
    <2>5. QED
      BY <2>1, <2>2, <2>3, <2>4 DEF Closes
  <1>13. PICK m : m = [mem[a] EXCEPT !.closes = c]
    OBVIOUS
  <1>14. /\ m = [at |-> mem[a].at, session |-> mem[a].session, starting |-> mem[a].starting,
                 cancels |-> mem[a].cancels, closes |-> c]
         /\ m \in States
    BY <1>5, <1>12, <1>13, ClosesState
  <1>15. PICK T : T = [S EXCEPT !.m = m]
    OBVIOUS
  <1>16. T \in Locals /\ T.m = m /\ T.r = S.r /\ T.q = S.q
    BY <1>9, <1>14, <1>15 DEF Locals
  <1>17. Open(m) = Open(mem[a]) /\ Shows(m) = Shows(mem[a])
    BY <1>14 DEF Shows, Open
  <1>18. StateFits(a, m)
    BY <1>5, <1>14, <1>17 DEF FitsWith, Fits, StateFits
  <1>19. FitsWith(a, T, rep, ev)
    <2>1. PanesOf(S.q, rep, ev)
      BY <1>5, <1>6, <1>9 DEF PanesOf
    <2>2. QED
      BY <1>9, <1>10, <1>14, <1>16, <1>17, <1>18, <2>1, StateChanges
  <1>20. Stay(a, {}, mem[a], m)
    <2>1. ~Lasting(s)
      BY <1>6 DEF Over, Lasting
    <2>2. QED
      BY <1>12, <1>14, <1>17, <2>1 DEF Stay, RemembersIt
  <1>21. NoNew(a, S) /\ NoNew(a, T) /\ (failures = 0 => Asked(a, T))
    BY SMTT(30), <1>5, <1>9, <1>12, <1>14, <1>16 DEF NoNew, Asked, Clean
  <1>22. Sound(a, T, rep, ev, {}) /\ Sound(a, S, rep, ev, {}) /\ Plans(a, T.m, T)
    BY <1>5, <1>6, <1>9, <1>10, <1>16, <1>19, <1>20, <1>21, StayItself, NoNewPlans DEF Sound
  <1>23. Saving(a, T, S)
    <2>1. T = [S EXCEPT !.m.closes = Restrict(@, DOMAIN @ \ {s})]
      BY <1>9, <1>11, <1>13, <1>15 DEF Locals
    <2>2. QED
      BY <1>1, <1>4, <1>8, <2>1 DEF ReceiveDiscarded
  <1>24. replies' = [replies EXCEPT ![a] = rep] /\ events' = [events EXCEPT ![a] = ev]
    BY <1>2, <1>3 DEF IInv, Typed
  <1>25. T.r.ready = run[a].ready /\ S.r.ready = run[a].ready
    BY <1>5, <1>9, <1>16
  <1>26. QED
    BY <1>21, <1>22, <1>23, <1>24, <1>25, SavingKeeps

LEMMA CancelledKeeps ==
  ASSUME IInv, NEW a \in App, replies[a] # <<>>, Head(replies[a]).k = "cancel",
         ReceiveCancelled(a, Head(replies[a])), replies' = [replies EXCEPT ![a] = Tail(@)],
         Calm, UNCHANGED <<events, detached>>
  PROVE  IInv'
  <1>1. PICK s : s = Head(replies[a]).s
    OBVIOUS
  <1>2. PICK rep : rep = Tail(replies[a])
    OBVIOUS
  <1>3. PICK ev : ev = events[a]
    OBVIOUS
  <1>4. PICK L : L = Local(a)
    OBVIOUS
  <1>5. /\ FitsWith(a, L, replies[a], ev) /\ L \in Locals /\ L.m = mem[a] /\ L.r = run[a]
        /\ ev \in Seq(Events) /\ NoNew(a, L) /\ (failures = 0 => Asked(a, L)) /\ mem[a] \in States
        /\ PanesOf(L.q, replies[a], ev)
    BY <1>3, <1>4, LocalFits
  <1>6. /\ s \in Session /\ s[1] = a /\ s \in cancelled /\ status[s] # "live" /\ run[a].ready
        /\ rep \in Seq(Replies) /\ Range(rep) \subseteq Range(replies[a])
    BY <1>1, <1>2, Consumed DEF Replies, ReplyFits
  <1>7. Range(replies[a]) = {Head(replies[a])} \cup Range(rep)
    BY <1>2, TailOf, LocalFits
  <1>8. PICK p \in Pane : p = s[2] /\ s = <<a, p>>
    BY <1>6, Constants
  <1>9. PICK S : S = [L EXCEPT !.r.cancelling = @ \ {p}]
    OBVIOUS
  <1>10. /\ S \in Locals /\ S.m = mem[a] /\ S.q = L.q /\ S.r.ready = L.r.ready /\ S.r.listed = L.r.listed
         /\ S.r.pending = L.r.pending /\ S.r.detaching = L.r.detaching
         /\ S.r.discarding = L.r.discarding /\ S.r.cancelling = L.r.cancelling \ {p}
    BY <1>5, <1>9 DEF Locals, Runs
  <1>11. FitsWith(a, S, rep, ev)
    <2>1. Awaiting(a, L.r, L.q, replies[a])
      BY <1>5, <1>6 DEF FitsWith, Fits
    <2>2. \A x \in S.r.discarding : Awaits(S.q, rep, "discard", x)
      BY <1>7, <1>10, <2>1 DEF Awaiting, Awaits
    <2>3. \A x \in S.r.cancelling : Awaits(S.q, rep, "cancel", <<a, x>>)
      <3>1. ASSUME NEW x \in S.r.cancelling PROVE Awaits(S.q, rep, "cancel", <<a, x>>)
        <4>1. x \in L.r.cancelling /\ <<a, x>> # s
          BY <1>8, <1>10, <3>1
        <4>2. Awaits(L.q, replies[a], "cancel", <<a, x>>)
          BY <2>1, <4>1 DEF Awaiting
        <4>3. QED
          BY <1>1, <1>7, <1>10, <4>1, <4>2 DEF Awaits
      <3>2. QED
        BY <3>1
    <2>4. Awaiting(a, S.r, S.q, rep)
      BY <2>2, <2>3 DEF Awaiting
    <2>5. QED
      BY <1>5, <1>6, <1>10, <2>4, FewerFit
  <1>12. PICK m : m = [mem[a] EXCEPT !.cancels = @ \ {p}]
    OBVIOUS
  <1>13. /\ m = [at |-> mem[a].at, session |-> mem[a].session, starting |-> mem[a].starting,
                 cancels |-> mem[a].cancels \ {p}, closes |-> mem[a].closes]
         /\ m \in States
    BY <1>5, <1>12, CancelsState
  <1>14. PICK T : T = [S EXCEPT !.m = m]
    OBVIOUS
  <1>15. T \in Locals /\ T.m = m /\ T.r = S.r /\ T.q = S.q
    BY <1>10, <1>13, <1>14 DEF Locals
  <1>16. Open(m) = Open(mem[a]) /\ Shows(m) = Shows(mem[a])
    BY <1>13 DEF Shows, Open
  <1>17. StateFits(a, m)
    BY <1>5, <1>13, <1>16 DEF FitsWith, Fits, StateFits
  <1>18. FitsWith(a, T, rep, ev)
    <2>1. PanesOf(S.q, rep, ev)
      BY <1>5, <1>6, <1>10 DEF PanesOf
    <2>2. QED
      BY <1>10, <1>11, <1>13, <1>15, <1>16, <1>17, <2>1, StateChanges
  <1>19. Stay(a, {}, mem[a], m)
    <2>1. ~Lasting(s)
      BY <1>6 DEF Lasting
    <2>2. ASSUME NEW t \in Session, Lasting(t), RemembersIt(a, mem[a], t) PROVE RemembersIt(a, m, t)
      <3>1. t = <<t[1], t[2]>> /\ t # s
        BY <2>1, <2>2, Constants
      <3>2. t[1] = a => t[2] # p
        BY <1>8, <3>1
      <3>3. QED
        BY <1>13, <1>16, <2>2, <3>2 DEF RemembersIt
    <2>3. QED
      BY <2>2 DEF Stay
  <1>20. NoNew(a, S) /\ NoNew(a, T) /\ (failures = 0 => Asked(a, T))
    BY <1>5, <1>10, <1>13, <1>15 DEF NoNew, Asked, Clean
  <1>21. Sound(a, T, rep, ev, {}) /\ Sound(a, S, rep, ev, {}) /\ Plans(a, T.m, T)
    BY <1>5, <1>6, <1>10, <1>11, <1>15, <1>18, <1>19, <1>20, StayItself, NoNewPlans DEF Sound
  <1>22. Saving(a, T, S)
    <2>1. T = [S EXCEPT !.m.cancels = @ \ {s[2]}]
      BY <1>8, <1>10, <1>12, <1>14 DEF Locals
    <2>2. S = [Local(a) EXCEPT !.r.cancelling = @ \ {s[2]}]
      BY <1>4, <1>8, <1>9
    <2>3. QED
      BY <1>1, <2>1, <2>2 DEF ReceiveCancelled
  <1>23. replies' = [replies EXCEPT ![a] = rep] /\ events' = [events EXCEPT ![a] = ev]
    BY <1>2, <1>3 DEF IInv, Typed
  <1>24. T.r.ready = run[a].ready /\ S.r.ready = run[a].ready
    BY <1>5, <1>10, <1>15
  <1>25. QED
    BY <1>20, <1>21, <1>22, <1>23, <1>24, SavingKeeps

LEMMA ReceiveKeeps ==
  ASSUME IInv, NEW a \in App, Receive(a)
  PROVE  IInv'
  <1>1. Calm /\ UNCHANGED detached
    BY DEF Receive, Server, Calm
  <1>2. CASE replies[a] # <<>> /\ replies' = [replies EXCEPT ![a] = Tail(@)] /\ UNCHANGED events
             /\ Head(replies[a]).k = "failed" /\ ReceiveAttachFailed(a, Head(replies[a]))
    BY <1>1, <1>2, AttachFailedKeeps
  <1>3. CASE replies[a] # <<>> /\ replies' = [replies EXCEPT ![a] = Tail(@)] /\ UNCHANGED events
             /\ Head(replies[a]).k = "discard" /\ ReceiveDiscarded(a, Head(replies[a]))
    BY <1>1, <1>3, DiscardedKeeps
  <1>4. CASE replies[a] # <<>> /\ replies' = [replies EXCEPT ![a] = Tail(@)] /\ UNCHANGED events
             /\ Head(replies[a]).k = "cancel" /\ ReceiveCancelled(a, Head(replies[a]))
    BY <1>1, <1>4, CancelledKeeps
  <1>5. CASE events[a] # <<>> /\ events' = [events EXCEPT ![a] = Tail(@)] /\ UNCHANGED replies
             /\ Head(events[a]).k = "attached" /\ ReceiveAttached(a, Head(events[a]))
    BY <1>1, <1>5, AttachedKeeps
  <1>6. CASE events[a] # <<>> /\ events' = [events EXCEPT ![a] = Tail(@)] /\ UNCHANGED replies
             /\ Head(events[a]).k = "ended" /\ ReceiveEnded(a, Head(events[a]))
    BY <1>1, <1>6, EndedKeeps
  <1>7. QED
    BY <1>2, <1>3, <1>4, <1>5, <1>6 DEF Receive
-----------------------------------------------------------------------------
(* The server's steps *)

\* What a step of the server does to what an app has on the way.
Moves(a) ==
  /\ \A w \in Range(conns'[<<a, Now>>].q) :
       \/ w \in Range(conns[<<a, Now>>].q)
       \/ w.k = "attach" /\ w.s # None /\ RequestFits(a, mem[a], w)' /\ run[a].listed = None
  /\ \A e \in Range(replies'[a]) :
       e \in Range(replies[a]) \/ (ReplyFits(a, mem[a], e)' /\ (e.k = "failed" => run[a].listed = None))
  /\ \A e \in Range(events'[a]) :
       e \in Range(events[a]) \/ (EventFits(a, mem[a], e)' /\ (e.k = "attached" => run[a].listed = None))
  /\ \A k \in {"discard", "cancel"} : \A s :
       Awaits(conns[<<a, Now>>].q, replies[a], k, s) => Awaits(conns'[<<a, Now>>].q, replies'[a], k, s)
  /\ ~run[a].ready => replies'[a] = <<>> /\ events'[a] = <<>>
  /\ conns'[<<a, Now>>].up => conns[<<a, Now>>].up
  /\ Range(conns'[<<a, Old>>].q) \subseteq Range(conns[<<a, Old>>].q)

\* A session starts by what was asked, and only once.
StatusMoves ==
  \A s \in Session :
    /\ status'[s] = "live" => status[s] = "live" \/ (status[s] = "none" /\ s \notin cancelled /\ Started(s))
    /\ status'[s] = "none" => status[s] = "none"

\* A step of the server keeps the invariant when it only moves on, as above, and starts
\* only what the files remember.
LEMMA ServerKeeps ==
  ASSUME IInv, Later, Typed', StatusMoves, \A a \in App : Moves(a),
         UNCHANGED <<mem, disk, run, failures, detached>>
  PROVE  IInv'
  <1>1. ASSUME NEW a \in App
        PROVE  (/\ Fits(a, mem[a], run[a], conns[<<a, Now>>].q, replies[a], events[a])
                /\ failures = 0 => Clean(a, mem[a], run[a])
                /\ StateFits(a, disk[a])
                /\ conns[<<a, Now>>].up => run[a].ready)'
    <2>1. PICK m \in States : m = mem[a]
      BY LocalFits
    <2>2. PICK r \in Runs : r = run[a]
      BY LocalFits
    <2>3. PICK q \in Seq(Works) : q = conns[<<a, Now>>].q
      BY LocalFits
    <2>4. PICK rep \in Seq(Replies) : rep = replies[a]
      BY LocalFits
    <2>5. PICK ev \in Seq(Events) : ev = events[a]
      BY LocalFits
    <2>6. PICK q2 : q2 = conns'[<<a, Now>>].q
      OBVIOUS
    <2>7. PICK rep2 : rep2 = replies'[a]
      OBVIOUS
    <2>8. PICK ev2 : ev2 = events'[a]
      OBVIOUS
    <2>9. PICK k \in States : k = disk[a]
      BY DEF IInv, Typed
    <2>10. Fits(a, m, r, q, rep, ev) /\ StateFits(a, k)
      BY <2>1, <2>2, <2>3, <2>4, <2>5, <2>9 DEF IInv, AppsFit
    <2>11. mem'[a] = m /\ run'[a] = r /\ disk'[a] = k
      BY <2>1, <2>2, <2>9
    <2>12. Moves(a)
      OBVIOUS
    <2>13. \A w \in Range(q2) : w \in Range(q) \/ (RequestFits(a, m, w)' /\ (w.k = "attach" => r.listed = None))
      BY <2>2, <2>3, <2>6, <2>11, <2>12 DEF Moves
    <2>14. \A e \in Range(rep2) : e \in Range(rep) \/ (ReplyFits(a, m, e)' /\ (e.k = "failed" => r.listed = None))
      BY <2>2, <2>4, <2>7, <2>11, <2>12 DEF Moves
    <2>15. \A e \in Range(ev2) : e \in Range(ev) \/ (EventFits(a, m, e)' /\ (e.k = "attached" => r.listed = None))
      BY <2>2, <2>5, <2>8, <2>11, <2>12 DEF Moves
    <2>16. /\ \A x \in {"discard", "cancel"} : \A s : Awaits(q, rep, x, s) => Awaits(q2, rep2, x, s)
           /\ ~r.ready => rep2 = <<>> /\ ev2 = <<>>
      BY <2>2, <2>3, <2>4, <2>6, <2>7, <2>8, <2>12 DEF Moves
    <2>17. Fits(a, m, r, q2, rep2, ev2)'
      BY <2>10, <2>13, <2>14, <2>15, <2>16, FitsLater
    <2>18. StateFits(a, k)'
      BY <2>10, StateLater
    <2>19. (Fits(a, mem[a], run[a], conns[<<a, Now>>].q, replies[a], events[a]))' /\ StateFits(a, disk[a])'
      BY <2>6, <2>7, <2>8, <2>11, <2>17, <2>18
    <2>20. failures' = 0 => Clean(a, mem'[a], run'[a])
      BY DEF IInv, AppsFit
    <2>21. conns'[<<a, Now>>].up => run'[a].ready
      BY <2>12 DEF Moves, IInv, AppsFit
    <2>22. QED
      BY <2>19, <2>20, <2>21 DEF Clean
  <1>2. AppsFit'
    BY <1>1 DEF AppsFit
  <1>3. OldFits'
    <2>1. ASSUME NEW a \in App, NEW w \in Range(conns'[<<a, Old>>].q), w.k = "attach"
          PROVE  /\ w.s # None => status'[w.s] # "none"
                 /\ w.s = None => w.new
                 /\ w.new => <<a, w.p>> \in Fresh /\ w.s \in {None, <<a, w.p>>}
      <3>1. w \in Range(conns[<<a, Old>>].q) /\ <<a, Old>> \in Links
        BY <2>1 DEF Moves, Links
      <3>2. conns[<<a, Old>>].q \in Seq(Works)
        BY <3>1 DEF IInv, Typed, Conns
      <3>3. w \in Works
        BY <3>1, <3>2, ElementsOf
      <3>4. w.s \in Session \cup {None}
        BY <2>1, <3>3 DEF Works
      <3>5. QED
        BY <2>1, <3>1, <3>4 DEF IInv, OldFits, Later
    <2>2. QED
      BY <2>1 DEF OldFits
  <1>4. ASSUME NEW s \in Session, Lasting(s)' PROVE Lasting(s)
    BY <1>4 DEF Lasting, StatusMoves, Later, IInv, Typed
  <1>5. ASSUME NEW s \in Session, Started(s)' PROVE Started(s)
    <2>1. s[1] \in App
      BY Constants
    <2>2. CASE status'[s] = "live"
      BY <2>2 DEF StatusMoves, Started
    <2>3. CASE status'[s] # "live"
      <3>1. PICK v \in {Now, Old} : \E w \in Range(conns'[<<s[1], v>>].q) : Begins(w, s)
        BY <1>5, <2>3 DEF Started
      <3>2. PICK w \in Range(conns'[<<s[1], v>>].q) : Begins(w, s)
        BY <3>1
      <3>3. w \in Range(conns[<<s[1], v>>].q)
        BY <2>1, <3>2 DEF Moves, Begins
      <3>4. QED
        BY <3>2, <3>3 DEF Started
    <2>4. QED
      BY <2>2, <2>3
  <1>6. OnDisk'
    <2>1. ASSUME NEW s \in Session, Lasting(s)', Started(s)' PROVE \E a \in App : RemembersIt(a, disk'[a], s)
      BY <1>4, <1>5, <2>1 DEF IInv, OnDisk
    <2>2. QED
      BY <2>1 DEF OnDisk, RemembersIt, Shows, Open
  <1>7. InMemory'
    <2>1. ASSUME NEW s \in Session, NEW a \in App, Lasting(s)', RemembersIt(a, disk'[a], s)
          PROVE  RemembersIt(a, mem'[a], s)
      BY <1>4, <2>1 DEF IInv, InMemory
    <2>2. QED
      BY <2>1 DEF InMemory, RemembersIt, Shows, Open
  <1>8. QED
    BY <1>2, <1>3, <1>6, <1>7 DEF IInv

LEMMA HeadOf ==
  ASSUME IInv, NEW b \in App, NEW v \in {Now, Old}, conns[<<b, v>>].up, conns[<<b, v>>].q # <<>>
  PROVE  /\ Head(conns[<<b, v>>].q) \in Works /\ Head(conns[<<b, v>>].q) \in Range(conns[<<b, v>>].q)
         /\ Tail(conns[<<b, v>>].q) \in Seq(Works)
         /\ Range(conns[<<b, v>>].q) = {Head(conns[<<b, v>>].q)} \cup Range(Tail(conns[<<b, v>>].q))
         /\ v = Now => run[b].ready /\ RequestFits(b, mem[b], Head(conns[<<b, v>>].q))
                       /\ (Head(conns[<<b, v>>].q).k = "attach" => run[b].listed = None)
         /\ conns[<<b, v>>] \in Conns /\ <<b, v>> \in Links
  <1>1. <<b, v>> \in Links
    BY DEF Links
  <1>2. conns[<<b, v>>] \in Conns
    BY <1>1 DEF IInv, Typed
  <1>3. PICK q \in Seq(Works) : q = conns[<<b, v>>].q
    BY <1>2 DEF Conns
  <1>4. Head(q) \in Works /\ Head(q) \in Range(q) /\ Tail(q) \in Seq(Works) /\ Range(q) = {Head(q)} \cup Range(Tail(q))
    BY <1>3, TailOf
  <1>5. ASSUME v = Now PROVE run[b].ready /\ RequestFits(b, mem[b], Head(q)) /\ (Head(q).k = "attach" => run[b].listed = None)
    <2>1. run[b].ready
      BY <1>5 DEF IInv, AppsFit
    <2>2. Fits(b, mem[b], run[b], q, replies[b], events[b])
      BY <1>3, <1>5 DEF IInv, AppsFit
    <2>3. QED
      BY <1>4, <2>1, <2>2 DEF Fits, MessagesFit, Listing
  <1>6. QED
    BY <1>1, <1>2, <1>3, <1>4, <1>5

\* What a step tells an app of events.
Tells(a) ==
  \/ events'[a] = events[a]
  \/ run[a].ready /\ \A e \in Range(events'[a]) :
       e \in Range(events[a]) \/ (EventFits(a, mem[a], e)' /\ (e.k = "attached" => run[a].listed = None))

\* A request of the link <<b, v>> is served: N is what comes in its place, R what is replied.
ServedAs(b, v, w, N, R) ==
  /\ conns[<<b, v>>].up /\ conns[<<b, v>>].q # <<>> /\ w = Head(conns[<<b, v>>].q)
  /\ \A k \in Links : (conns'[k].up => conns[k].up) /\ (k # <<b, v>> => conns'[k].q = conns[k].q)
  /\ Range(conns'[<<b, v>>].q) = N \cup Range(Tail(conns[<<b, v>>].q))
  /\ \A x \in N : v = Now /\ x.k = "attach" /\ x.s # None /\ RequestFits(b, mem[b], x)' /\ run[b].listed = None
  /\ \A a \in App : a # b \/ v = Old => replies'[a] = replies[a]
  /\ v = Now => Range(replies'[b]) = Range(replies[b]) \cup R
  /\ v = Now => \A e \in R : ReplyFits(b, mem[b], e)' /\ (e.k = "failed" => run[b].listed = None)
  /\ v = Now /\ w.k \in {"discard", "cancel"} => \E e \in R : e.k = w.k /\ e.s = w.s

\* What an app has on its way moves so when a request is served.
LEMMA ServedMoves ==
  ASSUME IInv, NEW b \in App, NEW v \in {Now, Old}, NEW w, NEW N, NEW R, ServedAs(b, v, w, N, R),
         \A a \in App : Tells(a)
  PROVE  \A a \in App : Moves(a)
  <1>0. /\ conns[<<b, v>>].up /\ conns[<<b, v>>].q # <<>> /\ w = Head(conns[<<b, v>>].q)
        /\ \A k \in Links : (conns'[k].up => conns[k].up) /\ (k # <<b, v>> => conns'[k].q = conns[k].q)
        /\ Range(conns'[<<b, v>>].q) = N \cup Range(Tail(conns[<<b, v>>].q))
        /\ \A x \in N : v = Now /\ x.k = "attach" /\ x.s # None /\ RequestFits(b, mem[b], x)' /\ run[b].listed = None
        /\ \A a \in App : a # b \/ v = Old => replies'[a] = replies[a]
        /\ v = Now => Range(replies'[b]) = Range(replies[b]) \cup R
        /\ v = Now => \A e \in R : ReplyFits(b, mem[b], e)' /\ (e.k = "failed" => run[b].listed = None)
        /\ v = Now /\ w.k \in {"discard", "cancel"} => \E e \in R : e.k = w.k /\ e.s = w.s
    BY DEF ServedAs
  <1>1. /\ Range(conns[<<b, v>>].q) = {w} \cup Range(Tail(conns[<<b, v>>].q)) /\ <<b, v>> \in Links
        /\ v = Now => run[b].ready
    BY <1>0, HeadOf
  <1>2. ASSUME NEW a \in App
        PROVE  Moves(a)
    <2>1. <<a, Now>> \in Links /\ <<a, Old>> \in Links /\ Now # Old
      BY DEF Links, Now, Old
    <2>2. Tells(a)
      OBVIOUS
    <2>3. ~run[a].ready => replies[a] = <<>> /\ events[a] = <<>>
      BY DEF IInv, AppsFit, Fits
    <2>4. \A e \in Range(events'[a]) :
            e \in Range(events[a]) \/ (EventFits(a, mem[a], e)' /\ (e.k = "attached" => run[a].listed = None))
      BY <2>2 DEF Tells
    <2>5. ~run[a].ready => events'[a] = <<>>
      BY <2>2, <2>3 DEF Tells
    <2>6. conns'[<<a, Now>>].up => conns[<<a, Now>>].up
      BY <1>0, <2>1
    <2>7. CASE a = b /\ v = Now
      <3>1. Range(conns'[<<a, Now>>].q) = N \cup Range(Tail(conns[<<a, Now>>].q))
        BY <1>0, <2>7
      <3>2. \A x \in Range(conns'[<<a, Now>>].q) :
             \/ x \in Range(conns[<<a, Now>>].q)
             \/ x.k = "attach" /\ x.s # None /\ RequestFits(a, mem[a], x)' /\ run[a].listed = None
        BY <1>0, <1>1, <2>7, <3>1
      <3>3. Range(replies'[a]) = Range(replies[a]) \cup R
        BY <1>0, <2>7
      <3>4. \A e \in Range(replies'[a]) :
             e \in Range(replies[a]) \/ (ReplyFits(a, mem[a], e)' /\ (e.k = "failed" => run[a].listed = None))
        BY <1>0, <2>7, <3>3
      <3>5. ASSUME NEW k \in {"discard", "cancel"}, NEW s, Awaits(conns[<<a, Now>>].q, replies[a], k, s)
            PROVE  Awaits(conns'[<<a, Now>>].q, replies'[a], k, s)
        <4>1. PICK x \in Range(conns[<<a, Now>>].q) \cup Range(replies[a]) : x.k = k /\ x.s = s
          BY <3>5 DEF Awaits
        <4>2. CASE x \in Range(Tail(conns[<<a, Now>>].q)) \cup Range(replies[a])
          BY <3>1, <3>3, <4>1, <4>2 DEF Awaits
        <4>3. CASE x = w
          BY <1>0, <2>7, <3>3, <4>1, <4>3 DEF Awaits
        <4>4. QED
          BY <1>1, <2>7, <4>1, <4>2, <4>3
      <3>6. Range(conns'[<<a, Old>>].q) \subseteq Range(conns[<<a, Old>>].q)
        BY <1>0, <2>1, <2>7
      <3>7. run[a].ready
        BY <1>1, <2>7
      <3>8. QED
        BY <2>4, <2>5, <2>6, <3>2, <3>4, <3>5, <3>6, <3>7 DEF Moves
    <2>8. CASE ~(a = b /\ v = Now)
      <3>1. conns'[<<a, Now>>].q = conns[<<a, Now>>].q /\ replies'[a] = replies[a]
        BY <1>0, <2>1, <2>8
      <3>2. Range(conns'[<<a, Old>>].q) \subseteq Range(conns[<<a, Old>>].q)
        <4>1. CASE a = b /\ v = Old
          <5>1. N = {}
            BY <1>0, <2>1, <4>1
          <5>2. QED
            BY <1>0, <1>1, <4>1, <5>1
        <4>2. CASE ~(a = b /\ v = Old)
          <5>1. <<a, Old>> # <<b, v>>
            BY <4>2
          <5>2. QED
            BY <1>0, <2>1, <5>1
        <4>3. QED
          BY <4>1, <4>2
      <3>3. QED
        BY <2>3, <2>4, <2>5, <2>6, <3>1, <3>2 DEF Moves
    <2>9. QED
      BY <2>7, <2>8
  <1>3. QED
    BY <1>2

LEMMA ConnFields ==
  ASSUME NEW c \in Conns
  PROVE  /\ c = [up |-> c.up, q |-> c.q, refs |-> c.refs, released |-> c.released, created |-> c.created,
                 attached |-> c.attached]
         /\ c.up \in BOOLEAN /\ c.q \in Seq(Works) /\ c.refs \subseteq Session /\ c.released \subseteq Session
         /\ c.created \subseteq Session /\ c.attached \subseteq Pane \X (Session \cup {None})
  BY DEF Conns

LEMMA QuietlyKeeps ==
  ASSUME IInv, NEW b \in App, NEW v \in {Now, Old}, conns[<<b, v>>].up, conns[<<b, v>>].q # <<>>,
         NEW w, w = Head(conns[<<b, v>>].q), w.k \in {"refs", "detach"}, ServeQuietly(<<b, v>>, w),
         UNCHANGED <<mem, disk, run, ops, losses, failures, detached>>
  PROVE  IInv'
  <1>1. /\ w \in Works /\ Tail(conns[<<b, v>>].q) \in Seq(Works)
        /\ conns[<<b, v>>] \in Conns /\ <<b, v>> \in Links
    BY HeadOf
  <1>2. PICK c \in Conns : c = conns[<<b, v>>]
    BY <1>1
  <1>3. PICK q \in Seq(Works) : q = Tail(c.q)
    BY <1>1, <1>2
  <1>4. PICK x : x = IF w.k = "refs" THEN UseReferences(c, w.set) ELSE [c EXCEPT !.attached = @ \ {<<w.p, w.s>>}]
    OBVIOUS
  <1>5. PICK d : d = [x EXCEPT !.q = Tail(c.q)]
    OBVIOUS
  <1>6. d \in Conns /\ d.q = q /\ d.up = c.up
    <2>1. x \in Conns /\ x.up = c.up /\ x.q = c.q
      <3>1. CASE w.k = "refs"
        <4>1. w.set \subseteq Session
          BY <1>1, <3>1 DEF Works
        <4>2. QED
          BY <1>4, <3>1, <4>1 DEF UseReferences, Conns
      <3>2. CASE w.k # "refs"
        BY <1>4, <3>2 DEF Conns
      <3>3. QED
        BY <3>1, <3>2
    <2>2. QED
      BY <1>3, <1>5, <2>1 DEF Conns
  <1>8x. conns' = [conns EXCEPT ![<<b, v>>] = d]
    BY <1>2, <1>4, <1>5 DEF ServeQuietly
  <1>8. conns \in [Links -> Conns]
    BY DEF IInv, Typed
  <1>9. /\ conns' \in [Links -> Conns]
        /\ \A k \in Links : (conns'[k].up => conns[k].up) /\ (k # <<b, v>> => conns'[k].q = conns[k].q)
        /\ conns'[<<b, v>>].q = Tail(conns[<<b, v>>].q)
    BY <1>1, <1>2, <1>3, <1>6, <1>8x, <1>8
  <1>10. UNCHANGED <<status, cancelled, kept, replies, events>>
    BY DEF ServeQuietly
  <1>11. Later
    BY <1>10, CalmLater DEF Calm
  <1>12. StatusMoves
    BY <1>10 DEF StatusMoves
  <1>13. Typed'
    BY <1>9, <1>10 DEF IInv, Typed
  <1>14. \A a \in App : Moves(a)
    <2>1. \A a \in App : Tells(a)
      BY <1>10 DEF Tells
    <2>2. ServedAs(b, v, w, {}, {})
      BY <1>9, <1>10 DEF ServedAs
    <2>3. QED
      BY <2>1, <2>2, ServedMoves
  <1>15. QED
    BY <1>11, <1>12, <1>13, <1>14, ServerKeeps
-----------------------------------------------------------------------------
(* Ends, replies and events *)

LEMMA EndOnFields ==
  ASSUME NEW cs \in [Links -> Conns], NEW s \in Session
  PROVE  /\ EndOn(cs, s) \in [Links -> Conns]
         /\ \A k \in Links : EndOn(cs, s)[k].up = cs[k].up /\ EndOn(cs, s)[k].q = cs[k].q
  <1>1. ASSUME NEW c \in Conns PROVE Forget(c, s) \in Conns /\ Forget(c, s).up = c.up /\ Forget(c, s).q = c.q
    BY DEF Forget, Conns
  <1>2. ASSUME NEW k \in Links
        PROVE  /\ (IF cs[k].up THEN Forget(cs[k], s) ELSE cs[k]) \in Conns
               /\ EndOn(cs, s)[k].up = cs[k].up /\ EndOn(cs, s)[k].q = cs[k].q
    <2>1. cs[k] \in Conns
      OBVIOUS
    <2>2. Forget(cs[k], s) \in Conns /\ Forget(cs[k], s).up = cs[k].up /\ Forget(cs[k], s).q = cs[k].q
      BY <1>1, <2>1
    <2>3. QED
      BY <2>1, <2>2 DEF EndOn
  <1>3. QED
    BY <1>2 DEF EndOn

\* A session that ends stays so.
LEMMA Ends ==
  ASSUME IInv, NEW s \in Session, NEW z \in {"ended", "gone"}, status' = [status EXCEPT ![s] = z],
         kept \subseteq kept', cancelled \subseteq cancelled'
  PROVE  /\ status' \in [Session -> {"none", "live", "ended", "gone"}]
         /\ Later /\ StatusMoves /\ Over(s)' /\ status'[s] # "live"
  <1>1. status \in [Session -> {"none", "live", "ended", "gone"}]
    BY DEF IInv, Typed
  <1>2. \A t \in Session : status'[t] = IF t = s THEN z ELSE status[t]
    BY <1>1
  <1>3. QED
    BY <1>1, <1>2 DEF Later, StatusMoves, Over

\* Only apps that are connected are told.
LEMMA ToldEnded ==
  ASSUME IInv, NEW s \in Session, TellEnded(s), Over(s)'
  PROVE  events' \in [App -> Seq(Events)] /\ \A a \in App : Tells(a)
  <1>1. PICK e \in Events : e = [k |-> "ended", s |-> s]
    BY DEF Events
  <1>2. ASSUME NEW a \in App
        PROVE  /\ Append(events[a], e) \in Seq(Events) /\ events[a] \in Seq(Events)
               /\ Range(Append(events[a], e)) = Range(events[a]) \cup {e}
    BY Appended DEF IInv, Typed
  <1>3. events' = [a \in App |-> IF conns[<<a, Now>>].up THEN Append(events[a], e) ELSE events[a]]
    BY <1>1 DEF TellEnded
  <1>4. ASSUME NEW a \in App PROVE Tells(a)
    <2>1. CASE conns[<<a, Now>>].up
      <3>1. run[a].ready
        BY <2>1 DEF IInv, AppsFit
      <3>2. Range(events'[a]) = Range(events[a]) \cup {e}
        BY <1>2, <1>3, <2>1
      <3>3. EventFits(a, mem[a], e)' /\ e.k # "attached"
        BY <1>1 DEF EventFits
      <3>4. QED
        BY <3>1, <3>2, <3>3 DEF Tells
    <2>2. CASE ~conns[<<a, Now>>].up
      BY <1>3, <2>2 DEF Tells
    <2>3. QED
      BY <2>1, <2>2
  <1>5. events' \in [App -> Seq(Events)]
    BY <1>2, <1>3
  <1>6. QED
    BY <1>4, <1>5

LEMMA DiscardMoves ==
  ASSUME IInv, NEW cs \in [Links -> Conns], NEW s \in Session, Discard(cs, s),
         kept \subseteq kept', cancelled \subseteq cancelled'
  PROVE  /\ status' \in [Session -> {"none", "live", "ended", "gone"}]
         /\ Later /\ StatusMoves /\ Over(s)' /\ status'[s] # "live"
         /\ conns' \in [Links -> Conns] /\ \A k \in Links : conns'[k].up = cs[k].up /\ conns'[k].q = cs[k].q
         /\ events' \in [App -> Seq(Events)] /\ \A a \in App : Tells(a)
  <1>1. /\ status' \in [Session -> {"none", "live", "ended", "gone"}]
        /\ Later /\ StatusMoves /\ Over(s)' /\ status'[s] # "live"
    BY Ends DEF Discard
  <1>2. conns' \in [Links -> Conns] /\ \A k \in Links : conns'[k].up = cs[k].up /\ conns'[k].q = cs[k].q
    BY EndOnFields DEF Discard
  <1>3. events' \in [App -> Seq(Events)] /\ \A a \in App : Tells(a)
    <2>1. CASE status[s] = "live"
      BY <1>1, <2>1, ToldEnded DEF Discard
    <2>2. CASE status[s] # "live"
      BY <2>2 DEF Discard, Tells, IInv, Typed
    <2>3. QED
      BY <2>1, <2>2
  <1>4. QED
    BY <1>1, <1>2, <1>3

LEMMA Replied ==
  ASSUME IInv, NEW b \in App, NEW v \in {Now, Old}, NEW e \in Replies, Reply(<<b, v>>, e)
  PROVE  /\ replies' \in [App -> Seq(Replies)]
         /\ \A a \in App : a # b \/ v = Old => replies'[a] = replies[a]
         /\ v = Now => Range(replies'[b]) = Range(replies[b]) \cup {e}
  <1>1. replies \in [App -> Seq(Replies)] /\ Now # Old
    BY DEF IInv, Typed, Now, Old
  <1>2. CASE v = Now
    <2>1. replies' = [replies EXCEPT ![b] = Append(replies[b], e)]
      BY <1>2 DEF Reply
    <2>2. Append(replies[b], e) \in Seq(Replies) /\ Range(Append(replies[b], e)) = Range(replies[b]) \cup {e}
      BY <1>1, Appended
    <2>3. QED
      BY <1>1, <1>2, <2>1, <2>2
  <1>3. CASE v = Old
    BY <1>1, <1>3 DEF Reply
  <1>4. QED
    BY <1>2, <1>3

LEMMA Notified ==
  ASSUME IInv, NEW b \in App, NEW v \in {Now, Old}, NEW e \in Events, Event(<<b, v>>, e),
         v = Now => run[b].ready /\ EventFits(b, mem[b], e)' /\ run[b].listed = None
  PROVE  events' \in [App -> Seq(Events)] /\ \A a \in App : Tells(a)
  <1>1. events \in [App -> Seq(Events)] /\ Now # Old
    BY DEF IInv, Typed, Now, Old
  <1>2. CASE v = Now
    <2>1. events' = [events EXCEPT ![b] = Append(events[b], e)]
      BY <1>2 DEF Event
    <2>2. Append(events[b], e) \in Seq(Events) /\ Range(Append(events[b], e)) = Range(events[b]) \cup {e}
      BY <1>1, Appended
    <2>3. events' \in [App -> Seq(Events)] /\ Range(events'[b]) = Range(events[b]) \cup {e}
          /\ \A a \in App \ {b} : events'[a] = events[a]
      BY <1>1, <2>1, <2>2
    <2>4. Tells(b)
      BY <1>2, <2>3 DEF Tells
    <2>5. \A a \in App \ {b} : Tells(a)
      BY <2>3 DEF Tells
    <2>6. QED
      BY <2>3, <2>4, <2>5
  <1>3. CASE v = Old
    BY <1>1, <1>3 DEF Event, Tells
  <1>4. QED
    BY <1>2, <1>3

LEMMA ServedFields ==
  ASSUME IInv, NEW b \in App, NEW v \in {Now, Old}, conns[<<b, v>>].up, conns[<<b, v>>].q # <<>>
  PROVE  /\ Served(<<b, v>>) \in [Links -> Conns]
         /\ \A k \in Links : /\ Served(<<b, v>>)[k].up = conns[k].up
                             /\ k # <<b, v>> => Served(<<b, v>>)[k].q = conns[k].q
         /\ Served(<<b, v>>)[<<b, v>>].q = Tail(conns[<<b, v>>].q)
  <1>1. Tail(conns[<<b, v>>].q) \in Seq(Works) /\ conns[<<b, v>>] \in Conns /\ <<b, v>> \in Links
    BY HeadOf
  <1>2. PICK q \in Seq(Works) : q = Tail(conns[<<b, v>>].q)
    BY <1>1
  <1>3. conns \in [Links -> Conns]
    BY DEF IInv, Typed
  <1>4. PICK d : d = [conns[<<b, v>>] EXCEPT !.q = q]
    OBVIOUS
  <1>5. d \in Conns /\ d.q = q /\ d.up = conns[<<b, v>>].up
    BY <1>1, <1>4 DEF Conns
  <1>6. PICK cs : cs = [conns EXCEPT ![<<b, v>>] = d]
    OBVIOUS
  <1>7. cs = Served(<<b, v>>)
    BY <1>2, <1>4, <1>6 DEF Served
  <1>8. cs \in [Links -> Conns] /\ cs[<<b, v>>] = d /\ \A k \in Links : k # <<b, v>> => cs[k] = conns[k]
    BY <1>1, <1>3, <1>5, <1>6
  <1>9. QED
    BY <1>2, <1>5, <1>7, <1>8
-----------------------------------------------------------------------------
(* The requests that are served *)

LEMMA ServedKeeps ==
  ASSUME IInv, NEW b \in App, NEW v \in {Now, Old}, NEW w, NEW N, NEW R, ServedAs(b, v, w, N, R),
         \A a \in App : Tells(a), Later, StatusMoves, Typed',
         UNCHANGED <<mem, disk, run, ops, losses, failures, detached>>
  PROVE  IInv'
  <1>1. \A a \in App : Moves(a)
    BY ServedMoves
  <1>2. QED
    BY <1>1, ServerKeeps

\* A creation that was cancelled before is refused.
LEMMA CancelledCreateKeeps ==
  ASSUME IInv, NEW b \in App, NEW v \in {Now, Old}, conns[<<b, v>>].up, conns[<<b, v>>].q # <<>>,
         NEW w, w = Head(conns[<<b, v>>].q), w.k = "attach", w.s = None, <<b, w.p>> \in cancelled,
         ServeCreate(<<b, v>>, w), UNCHANGED <<mem, disk, run, ops, losses, failures, detached>>
  PROVE  IInv'
  <1>1. /\ w \in Works
        /\ v = Now => run[b].ready /\ RequestFits(b, mem[b], w) /\ run[b].listed = None
    BY HeadOf
  <1>2. w.p \in Pane
    BY <1>1 DEF Works
  <1>3. PICK e \in Replies : e = [k |-> "failed", p |-> w.p, s |-> None, new |-> TRUE, missing |-> FALSE]
    BY <1>2 DEF Replies
  <1>4. /\ conns' = Served(<<b, v>>) /\ Reply(<<b, v>>, e)
        /\ UNCHANGED <<status, cancelled, receipts, kept, events>>
    BY <1>3 DEF ServeCreate
  <1>5. v = Now => ReplyFits(b, mem[b], e)'
    BY <1>1, <1>3, <1>4 DEF ReplyFits, RequestFits, AttachFits
  <1>6. /\ replies' \in [App -> Seq(Replies)]
        /\ \A a \in App : a # b \/ v = Old => replies'[a] = replies[a]
        /\ v = Now => Range(replies'[b]) = Range(replies[b]) \cup {e}
    BY <1>4, Replied
  <1>7. /\ conns' \in [Links -> Conns]
        /\ \A k \in Links : conns'[k].up = conns[k].up /\ (k # <<b, v>> => conns'[k].q = conns[k].q)
        /\ conns'[<<b, v>>].q = Tail(conns[<<b, v>>].q)
    BY <1>4, ServedFields
  <1>8. ServedAs(b, v, w, {}, {e})
    BY <1>1, <1>5, <1>6, <1>7 DEF ServedAs
  <1>9. Typed'
    BY <1>4, <1>6, <1>7 DEF IInv, Typed
  <1>10. Later
    BY <1>4, CalmLater DEF Calm
  <1>11. StatusMoves /\ \A a \in App : Tells(a)
    BY <1>4 DEF StatusMoves, Tells
  <1>12. QED
    BY <1>8, <1>9, <1>10, <1>11, ServedKeeps

\* A creation starts the pane's own session, once; the attach that follows is about it.
LEMMA CreateKeeps ==
  ASSUME IInv, NEW b \in App, NEW v \in {Now, Old}, conns[<<b, v>>].up, conns[<<b, v>>].q # <<>>,
         NEW w, w = Head(conns[<<b, v>>].q), w.k = "attach", w.s = None, <<b, w.p>> \notin cancelled,
         ServeCreate(<<b, v>>, w), UNCHANGED <<mem, disk, run, ops, losses, failures, detached>>
  PROVE  IInv'
  <1>1. /\ w \in Works /\ w \in Range(conns[<<b, v>>].q) /\ Tail(conns[<<b, v>>].q) \in Seq(Works)
        /\ conns[<<b, v>>] \in Conns /\ <<b, v>> \in Links
        /\ v = Now => run[b].ready /\ RequestFits(b, mem[b], w) /\ run[b].listed = None
    BY HeadOf
  <1>2. PICK s : s = <<b, w.p>>
    OBVIOUS
  <1>3. s \in Session /\ w.new /\ s[1] = b /\ s[2] = w.p /\ s # None
    <2>1. CASE v = Now
      BY <1>1, <1>2, <2>1, Constants DEF RequestFits, AttachFits, Session
    <2>2. CASE v = Old
      BY <1>1, <1>2, <2>2, Constants DEF IInv, OldFits, Session
    <2>3. QED
      BY <2>1, <2>2
  <1>4. PICK x : x = [w EXCEPT !.s = s]
    OBVIOUS
  <1>5. x \in Works /\ x.k = "attach" /\ x.s = s /\ x.p = w.p /\ x.new = w.new
    BY <1>1, <1>3, <1>4 DEF Works
  <1>6. PICK next \in Seq(Works) : next = IF v = Now THEN <<x>> ELSE <<>>
    BY <1>5, One, None1
  <1>7. PICK N : N = IF v = Now THEN {x} ELSE {}
    OBVIOUS
  <1>8. Range(next) = N
    BY <1>5, <1>6, <1>7, One, None1
  <1>9. PICK q \in Seq(Works) : q = next \o Tail(conns[<<b, v>>].q) /\ Range(q) = N \cup Range(Tail(conns[<<b, v>>].q))
    <2>1. PICK t \in Seq(Works) : t = Tail(conns[<<b, v>>].q)
      BY <1>1
    <2>2. next \o t \in Seq(Works) /\ Range(next \o t) = Range(next) \cup Range(t)
      BY Joined
    <2>3. QED
      BY <1>8, <2>1, <2>2
  <1>10. /\ status' = [status EXCEPT ![s] = IF @ = "none" THEN "live" ELSE @]
         /\ UNCHANGED <<cancelled, receipts, kept, replies, events>>
    BY <1>2 DEF ServeCreate
  <1>11. PICK taken : taken = (status[s] \in {"none", "live"}
                                /\ ~(s \in conns[<<b, v>>].refs \/ \E p \in Pane : <<p, s>> \in conns[<<b, v>>].attached))
    OBVIOUS
  <1>12. conns' = [conns EXCEPT ![<<b, v>>].q = next \o Tail(@),
                                ![<<b, v>>].created = IF taken THEN @ \cup {s} ELSE @]
    BY <1>2, <1>4, <1>6, <1>11 DEF ServeCreate
  <1>13. PICK d : d = [conns[<<b, v>>] EXCEPT !.q = q, !.created = IF taken THEN @ \cup {s} ELSE @]
    OBVIOUS
  <1>14. d \in Conns /\ d.q = q /\ d.up = conns[<<b, v>>].up
    BY <1>1, <1>3, <1>13 DEF Conns
  <1>15. conns \in [Links -> Conns] /\ status \in [Session -> {"none", "live", "ended", "gone"}]
    BY DEF IInv, Typed
  <1>16. conns' = [conns EXCEPT ![<<b, v>>] = d]
    BY <1>1, <1>9, <1>12, <1>13, <1>15
  <1>17. /\ conns' \in [Links -> Conns]
         /\ \A k \in Links : conns'[k].up = conns[k].up /\ (k # <<b, v>> => conns'[k].q = conns[k].q)
         /\ conns'[<<b, v>>].q = q
    BY <1>1, <1>14, <1>15, <1>16
  <1>18. /\ status' \in [Session -> {"none", "live", "ended", "gone"}]
         /\ status'[s] # "none" /\ (status[s] # "none" => status'[s] = status[s])
         /\ \A t \in Session \ {s} : status'[t] = status[t]
    BY <1>3, <1>10, <1>15
  <1>19. Later
    <2>1. s \notin cancelled /\ cancelled \subseteq Session /\ kept' = kept /\ cancelled' = cancelled
      BY <1>2, <1>10 DEF IInv, Typed
    <2>2. \A t \in Session : status[t] # "none" => status'[t] = status[t]
      BY <1>18
    <2>3. \A t \in cancelled : status'[t] = status[t]
      BY <1>18, <2>1
    <2>4. QED
      BY <2>1, <2>2, <2>3 DEF Later, Over
  <1>20. StatusMoves
    <2>1. Started(s)
      BY <1>1, <1>3 DEF Started, Begins
    <2>2. QED
      BY <1>2, <1>15, <1>18, <2>1 DEF StatusMoves
  <1>21. v = Now => RequestFits(b, mem[b], x)'
    BY <1>1, <1>2, <1>3, <1>5, <1>18 DEF RequestFits, AttachFits
  <1>22. ServedAs(b, v, w, N, {})
    BY <1>1, <1>3, <1>5, <1>7, <1>9, <1>10, <1>17, <1>21 DEF ServedAs
  <1>23. Typed'
    BY <1>10, <1>17, <1>18 DEF IInv, Typed
  <1>24. \A a \in App : Tells(a)
    BY <1>10 DEF Tells
  <1>25. QED
    BY <1>19, <1>20, <1>22, <1>23, <1>24, ServedKeeps

LEMMA AttachKeeps ==
  ASSUME IInv, NEW b \in App, NEW v \in {Now, Old}, conns[<<b, v>>].up, conns[<<b, v>>].q # <<>>,
         NEW w, w = Head(conns[<<b, v>>].q), w.k = "attach", w.s # None,
         ServeAttach(<<b, v>>, w), UNCHANGED <<mem, disk, run, ops, losses, failures, detached>>
  PROVE  IInv'
  <1>1. /\ w \in Works /\ conns[<<b, v>>] \in Conns /\ <<b, v>> \in Links
        /\ v = Now => run[b].ready /\ RequestFits(b, mem[b], w) /\ run[b].listed = None
    BY HeadOf
  <1>2. w.p \in Pane /\ w.s \in Session /\ w.new \in BOOLEAN
    BY <1>1 DEF Works
  <1>3. /\ Served(<<b, v>>) \in [Links -> Conns]
        /\ \A k \in Links : /\ Served(<<b, v>>)[k].up = conns[k].up
                            /\ k # <<b, v>> => Served(<<b, v>>)[k].q = conns[k].q
        /\ Served(<<b, v>>)[<<b, v>>].q = Tail(conns[<<b, v>>].q)
    BY ServedFields
  <1>4. CASE status[w.s] = "live"
    <2>1. PICK e \in Events : e = [k |-> "attached", p |-> w.p, s |-> w.s, new |-> w.new]
      BY <1>2 DEF Events
    <2>2. Event(<<b, v>>, e) /\ UNCHANGED <<status, cancelled, receipts, kept, replies>>
      BY <1>4, <2>1 DEF ServeAttach
    <2>3. PICK cs \in [Links -> Conns] : cs = Served(<<b, v>>)
      BY <1>3
    <2>4. conns' = [cs EXCEPT ![<<b, v>>].attached = @ \cup {<<w.p, w.s>>},
                              ![<<b, v>>].created = @ \ {w.s}, ![<<b, v>>].released = @ \ {w.s}]
      BY <1>4, <2>3 DEF ServeAttach
    <2>5. PICK d : d = [cs[<<b, v>>] EXCEPT !.attached = @ \cup {<<w.p, w.s>>},
                                            !.created = @ \ {w.s}, !.released = @ \ {w.s}]
      OBVIOUS
    <2>6. d \in Conns /\ d.up = cs[<<b, v>>].up /\ d.q = cs[<<b, v>>].q
      <3>1. PICK c \in Conns : c = cs[<<b, v>>]
        BY <1>1
      <3>2. c.attached \cup {<<w.p, w.s>>} \in SUBSET (Pane \X (Session \cup {None}))
        BY <1>2 DEF Conns
      <3>3. QED
        BY <2>5, <3>1, <3>2 DEF Conns
    <2>7. conns' = [cs EXCEPT ![<<b, v>>] = d]
      BY <1>1, <2>4, <2>5
    <2>8. /\ conns' \in [Links -> Conns]
          /\ \A k \in Links : conns'[k].up = conns[k].up /\ (k # <<b, v>> => conns'[k].q = conns[k].q)
          /\ conns'[<<b, v>>].q = Tail(conns[<<b, v>>].q)
      BY <1>1, <1>3, <2>3, <2>6, <2>7
    <2>9. v = Now => run[b].ready /\ EventFits(b, mem[b], e)' /\ run[b].listed = None
      BY <1>1, <2>1, <2>2 DEF EventFits, RequestFits, AttachFits
    <2>10. events' \in [App -> Seq(Events)] /\ \A a \in App : Tells(a)
      BY <2>2, <2>9, Notified
    <2>11. ServedAs(b, v, w, {}, {})
      BY <2>2, <2>8 DEF ServedAs
    <2>12. Typed'
      BY <2>2, <2>8, <2>10 DEF IInv, Typed
    <2>13. Later
      BY <2>2, CalmLater DEF Calm
    <2>14. StatusMoves
      BY <2>2 DEF StatusMoves
    <2>15. QED
      BY <2>10, <2>11, <2>12, <2>13, <2>14, ServedKeeps
  <1>5. CASE status[w.s] # "live"
    <2>1. PICK e \in Replies : e = [k |-> "failed", p |-> w.p, s |-> w.s, new |-> w.new, missing |-> TRUE]
      BY <1>2 DEF Replies
    <2>2. /\ conns' = Served(<<b, v>>) /\ Reply(<<b, v>>, e)
          /\ UNCHANGED <<status, cancelled, receipts, kept, events>>
      BY <1>5, <2>1 DEF ServeAttach
    <2>3. status[w.s] \in {"none", "live", "ended", "gone"}
      BY <1>2 DEF IInv, Typed
    <2>4. v = Now => ReplyFits(b, mem[b], e)'
      BY <1>1, <1>5, <2>1, <2>2, <2>3 DEF ReplyFits, RequestFits, AttachFits, Over
    <2>5. /\ replies' \in [App -> Seq(Replies)]
          /\ \A a \in App : a # b \/ v = Old => replies'[a] = replies[a]
          /\ v = Now => Range(replies'[b]) = Range(replies[b]) \cup {e}
      BY <2>2, Replied
    <2>6. ServedAs(b, v, w, {}, {e})
      BY <1>1, <1>3, <2>2, <2>4, <2>5 DEF ServedAs
    <2>7. Typed'
      BY <1>3, <2>2, <2>5 DEF IInv, Typed
    <2>8. Later
      BY <2>2, CalmLater DEF Calm
    <2>9. StatusMoves /\ \A a \in App : Tells(a)
      BY <2>2 DEF StatusMoves, Tells
    <2>10. QED
      BY <2>6, <2>7, <2>8, <2>9, ServedKeeps
  <1>6. QED
    BY <1>4, <1>5

\* A close ends the session, or leaves it to those who refer to it.
LEMMA ServeDiscardKeeps ==
  ASSUME IInv, NEW b \in App, NEW v \in {Now, Old}, conns[<<b, v>>].up, conns[<<b, v>>].q # <<>>,
         NEW w, w = Head(conns[<<b, v>>].q), w.k = "discard",
         ServeDiscard(<<b, v>>, w), UNCHANGED <<mem, disk, run, ops, losses, failures, detached>>
  PROVE  IInv'
  <1>1. w \in Works /\ conns[<<b, v>>] \in Conns /\ <<b, v>> \in Links
    BY HeadOf
  <1>2. w.s \in Session
    BY <1>1 DEF Works
  <1>3. PICK s \in Session : s = w.s
    BY <1>2
  <1>4. PICK sent \in [Links -> Conns] : sent = Served(<<b, v>>)
    BY ServedFields
  <1>5. /\ \A k \in Links : sent[k].up = conns[k].up /\ (k # <<b, v>> => sent[k].q = conns[k].q)
        /\ sent[<<b, v>>].q = Tail(conns[<<b, v>>].q)
    BY <1>4, ServedFields
  <1>6. PICK c \in Conns : c = sent[<<b, v>>]
    BY <1>1
  <1>7. PICK d : d = [c EXCEPT !.created = @ \ {s}, !.attached = {x \in @ : x[2] # s}]
    OBVIOUS
  <1>8. d \in Conns /\ d.up = c.up /\ d.q = c.q
    BY <1>7 DEF Conns
  <1>9. PICK left : left = [sent EXCEPT ![<<b, v>>] = d]
    OBVIOUS
  <1>10. left = [sent EXCEPT ![<<b, v>>].created = @ \ {s}, ![<<b, v>>].attached = {x \in @ : x[2] # s}]
    BY <1>1, <1>6, <1>7, <1>9
  <1>11. left \in [Links -> Conns] /\ \A k \in Links : left[k].up = sent[k].up /\ left[k].q = sent[k].q
    BY <1>1, <1>6, <1>8, <1>9
  <1>12. PICK mine : mine = (s \in conns[<<b, v>>].refs \/ receipts[w.op] # None)
    OBVIOUS
  <1>13. PICK discard : discard = IF receipts[w.op] = None THEN Decide(<<b, v>>, s) ELSE receipts[w.op]
    OBVIOUS
  <1>14. PICK cs : cs = IF mine THEN sent ELSE left
    OBVIOUS
  <1>15. cs \in [Links -> Conns] /\ \A k \in Links : cs[k].up = sent[k].up /\ cs[k].q = sent[k].q
    BY <1>11, <1>14
  <1>16. PICK e \in Replies : e = [k |-> "discard", s |-> s]
    BY DEF Replies
  <1>17. /\ IF discard THEN Discard(cs, s) ELSE conns' = cs /\ UNCHANGED <<status, events>>
         /\ kept' = IF discard THEN kept ELSE kept \cup {s}
         /\ Reply(<<b, v>>, e) /\ UNCHANGED cancelled
    BY <1>3, <1>4, <1>10, <1>12, <1>13, <1>14, <1>16 DEF ServeDiscard
  <1>18. /\ replies' \in [App -> Seq(Replies)]
         /\ \A a \in App : a # b \/ v = Old => replies'[a] = replies[a]
         /\ v = Now => Range(replies'[b]) = Range(replies[b]) \cup {e}
    BY <1>17, Replied
  <1>19. kept \subseteq kept' /\ cancelled \subseteq cancelled' /\ kept' \subseteq Session
    BY <1>17 DEF IInv, Typed
  <1>20. /\ status' \in [Session -> {"none", "live", "ended", "gone"}] /\ Later /\ StatusMoves
         /\ conns' \in [Links -> Conns] /\ \A k \in Links : conns'[k].up = cs[k].up /\ conns'[k].q = cs[k].q
         /\ events' \in [App -> Seq(Events)] /\ \A a \in App : Tells(a)
         /\ Over(s)' \/ s \in kept'
    <2>1. CASE discard
      BY <1>15, <1>17, <1>19, <2>1, DiscardMoves
    <2>2. CASE ~discard
      <3>1. conns' = cs /\ UNCHANGED <<status, events, cancelled>> /\ s \in kept'
        BY <1>17, <2>2
      <3>2. Later
        BY <1>19, <3>1 DEF Later, Over
      <3>3. StatusMoves /\ \A a \in App : Tells(a)
        BY <3>1 DEF StatusMoves, Tells
      <3>4. QED
        BY <1>15, <3>1, <3>2, <3>3 DEF IInv, Typed
    <2>3. QED
      BY <2>1, <2>2
  <1>21. /\ \A k \in Links : conns'[k].up = conns[k].up /\ (k # <<b, v>> => conns'[k].q = conns[k].q)
         /\ conns'[<<b, v>>].q = Tail(conns[<<b, v>>].q)
    BY <1>1, <1>5, <1>15, <1>20
  <1>22. ReplyFits(b, mem[b], e)' /\ e.k = "discard" /\ e.s = w.s
    BY <1>3, <1>16, <1>20 DEF ReplyFits
  <1>23. ServedAs(b, v, w, {}, {e})
    BY <1>18, <1>21, <1>22 DEF ServedAs
  <1>24. Typed'
    BY <1>17, <1>18, <1>19, <1>20 DEF IInv, Typed
  <1>25. QED
    BY <1>20, <1>23, <1>24, ServedKeeps

\* A cancellation that comes first is kept for the creation that follows.
LEMMA ServeCancelKeeps ==
  ASSUME IInv, NEW b \in App, NEW v \in {Now, Old}, conns[<<b, v>>].up, conns[<<b, v>>].q # <<>>,
         NEW w, w = Head(conns[<<b, v>>].q), w.k = "cancel",
         ServeCancel(<<b, v>>, w), UNCHANGED <<mem, disk, run, ops, losses, failures, detached>>
  PROVE  IInv'
  <1>1. /\ w \in Works /\ conns[<<b, v>>] \in Conns /\ <<b, v>> \in Links
        /\ v = Now => RequestFits(b, mem[b], w)
    BY HeadOf
  <1>2. w.s \in Session
    <2>1. w \in [k : {"cancel"}, s : Session]
      BY <1>1 DEF Works
    <2>2. QED
      BY <2>1
  <1>3. PICK s \in Session : s = w.s
    BY <1>2
  <1>4. PICK sent \in [Links -> Conns] : sent = Served(<<b, v>>)
    BY ServedFields
  <1>5. /\ \A k \in Links : sent[k].up = conns[k].up /\ (k # <<b, v>> => sent[k].q = conns[k].q)
        /\ sent[<<b, v>>].q = Tail(conns[<<b, v>>].q)
    BY <1>4, ServedFields
  <1>6. PICK e \in Replies : e = [k |-> "cancel", s |-> s]
    BY DEF Replies
  <1>7. /\ cancelled' = cancelled \cup {s}
        /\ IF status[s] = "none" THEN conns' = sent /\ UNCHANGED <<status, events>> ELSE Discard(sent, s)
        /\ Reply(<<b, v>>, e) /\ UNCHANGED kept
    BY <1>3, <1>4, <1>6 DEF ServeCancel
  <1>8. /\ replies' \in [App -> Seq(Replies)]
        /\ \A a \in App : a # b \/ v = Old => replies'[a] = replies[a]
        /\ v = Now => Range(replies'[b]) = Range(replies[b]) \cup {e}
    BY <1>7, Replied
  <1>9. kept \subseteq kept' /\ cancelled \subseteq cancelled' /\ cancelled' \subseteq Session
    BY <1>7 DEF IInv, Typed
  <1>10. /\ status' \in [Session -> {"none", "live", "ended", "gone"}] /\ Later /\ StatusMoves
         /\ conns' \in [Links -> Conns] /\ \A k \in Links : conns'[k].up = sent[k].up /\ conns'[k].q = sent[k].q
         /\ events' \in [App -> Seq(Events)] /\ \A a \in App : Tells(a)
         /\ status'[s] # "live"
    <2>1. CASE status[s] # "none"
      BY <1>7, <1>9, <2>1, DiscardMoves
    <2>2. CASE status[s] = "none"
      <3>1. conns' = sent /\ UNCHANGED <<status, events>>
        BY <1>7, <2>2
      <3>2. Later
        BY <1>7, <1>9, <2>2, <3>1 DEF Later, Over
      <3>3. StatusMoves /\ \A a \in App : Tells(a)
        BY <3>1 DEF StatusMoves, Tells
      <3>4. QED
        BY <2>2, <3>1, <3>2, <3>3 DEF IInv, Typed
    <2>3. QED
      BY <2>1, <2>2
  <1>11. /\ \A k \in Links : conns'[k].up = conns[k].up /\ (k # <<b, v>> => conns'[k].q = conns[k].q)
         /\ conns'[<<b, v>>].q = Tail(conns[<<b, v>>].q)
    <2>1. \A k \in Links : conns'[k].up = sent[k].up /\ conns'[k].q = sent[k].q
      BY <1>10
    <2>2. QED
      BY <1>1, <1>5, <2>1
  <1>12. e.k = "cancel" /\ e.s = w.s /\ (v = Now => ReplyFits(b, mem[b], e)')
    <2>1. e.k = "cancel" /\ e.s = s
      BY <1>6
    <2>2. v = Now => s[1] = b
      BY <1>1, <1>3 DEF RequestFits
    <2>3. s \in cancelled' /\ status'[s] # "live"
      BY <1>7, <1>10
    <2>4. QED
      BY <1>3, <2>1, <2>2, <2>3 DEF ReplyFits
  <1>13. ServedAs(b, v, w, {}, {e})
    BY <1>8, <1>11, <1>12 DEF ServedAs
  <1>14. Typed'
    BY <1>7, <1>8, <1>9, <1>10 DEF IInv, Typed
  <1>15. QED
    BY <1>10, <1>13, <1>14, ServedKeeps

LEMMA ServeKeeps ==
  ASSUME IInv, NEW l \in Links, Serve(l)
  PROVE  IInv'
  <1>1. PICK b \in App, v \in {Now, Old} : l = <<b, v>>
    BY DEF Links
  <1>2. PICK w : w = Head(conns[<<b, v>>].q)
    OBVIOUS
  <1>3. conns[<<b, v>>].up /\ conns[<<b, v>>].q # <<>>
    BY <1>1 DEF Serve
  <1>4. UNCHANGED <<mem, disk, run, ops, losses, failures, detached>>
    BY DEF Serve
  <1>5. \/ w.k \in {"refs", "detach"} /\ ServeQuietly(<<b, v>>, w)
        \/ w.k = "attach" /\ w.s = None /\ ServeCreate(<<b, v>>, w)
        \/ w.k = "attach" /\ w.s # None /\ ServeAttach(<<b, v>>, w)
        \/ w.k = "discard" /\ ServeDiscard(<<b, v>>, w)
        \/ w.k = "cancel" /\ ServeCancel(<<b, v>>, w)
    BY <1>1, <1>2 DEF Serve
  <1>6. CASE w.k \in {"refs", "detach"} /\ ServeQuietly(<<b, v>>, w)
    BY <1>2, <1>3, <1>4, <1>6, QuietlyKeeps
  <1>7. CASE w.k = "attach" /\ w.s = None /\ ServeCreate(<<b, v>>, w)
    <2>1. CASE <<b, w.p>> \in cancelled
      BY <1>2, <1>3, <1>4, <1>7, <2>1, CancelledCreateKeeps
    <2>2. CASE <<b, w.p>> \notin cancelled
      BY <1>2, <1>3, <1>4, <1>7, <2>2, CreateKeeps
    <2>3. QED
      BY <2>1, <2>2
  <1>8. CASE w.k = "attach" /\ w.s # None /\ ServeAttach(<<b, v>>, w)
    BY <1>2, <1>3, <1>4, <1>8, AttachKeeps
  <1>9. CASE w.k = "discard" /\ ServeDiscard(<<b, v>>, w)
    BY <1>2, <1>3, <1>4, <1>9, ServeDiscardKeeps
  <1>10. CASE w.k = "cancel" /\ ServeCancel(<<b, v>>, w)
    BY <1>2, <1>3, <1>4, <1>10, ServeCancelKeeps
  <1>11. QED
    BY <1>5, <1>6, <1>7, <1>8, <1>9, <1>10

LEMMA ExitKeeps ==
  ASSUME IInv, NEW s \in Session, Exit(s)
  PROVE  IInv'
  <1>1. /\ status[s] = "live" /\ status' = [status EXCEPT ![s] = "ended"]
        /\ conns' = EndOn(conns, s) /\ TellEnded(s)
        /\ UNCHANGED <<mem, disk, run, replies, cancelled, receipts, ops, losses, failures, detached, kept>>
    BY DEF Exit
  <1>2. /\ status' \in [Session -> {"none", "live", "ended", "gone"}]
        /\ Later /\ StatusMoves /\ Over(s)'
    BY <1>1, Ends
  <1>3. conns \in [Links -> Conns]
    BY DEF IInv, Typed
  <1>4. conns' \in [Links -> Conns] /\ \A k \in Links : conns'[k].up = conns[k].up /\ conns'[k].q = conns[k].q
    BY <1>1, <1>3, EndOnFields
  <1>5. events' \in [App -> Seq(Events)] /\ \A a \in App : Tells(a)
    BY <1>1, <1>2, ToldEnded
  <1>6. ASSUME NEW a \in App PROVE Moves(a)
    <2>1. <<a, Now>> \in Links /\ <<a, Old>> \in Links
      BY DEF Links
    <2>2. /\ conns'[<<a, Now>>].q = conns[<<a, Now>>].q /\ conns'[<<a, Now>>].up = conns[<<a, Now>>].up
          /\ conns'[<<a, Old>>].q = conns[<<a, Old>>].q /\ replies'[a] = replies[a]
      BY <1>1, <1>4, <2>1
    <2>3. ~run[a].ready => replies[a] = <<>> /\ events[a] = <<>>
      BY DEF IInv, AppsFit, Fits
    <2>4. Tells(a)
      BY <1>5
    <2>5. \A e \in Range(events'[a]) :
            e \in Range(events[a]) \/ (EventFits(a, mem[a], e)' /\ (e.k = "attached" => run[a].listed = None))
      BY <2>4 DEF Tells
    <2>6. ~run[a].ready => events'[a] = <<>>
      BY <2>3, <2>4 DEF Tells
    <2>7. QED
      BY <2>2, <2>3, <2>5, <2>6 DEF Moves
  <1>7. Typed'
    BY <1>1, <1>2, <1>4, <1>5 DEF IInv, Typed
  <1>8. QED
    BY <1>1, <1>2, <1>6, <1>7, ServerKeeps
-----------------------------------------------------------------------------
(* Losses *)

LEMMA DownFields == Down \in Conns /\ ~Down.up /\ Down.q = <<>> /\ Range(Down.q) = {}
  <1>1. <<>> \in Seq(Works) /\ Range(<<>>) = {}
    BY None1
  <1>2. QED
    BY <1>1 DEF Down, Conns

\* The server notices a loss.
LEMMA CloseOldKeeps ==
  ASSUME IInv, NEW b \in App, CloseOld(b)
  PROVE  IInv'
  <1>1. /\ conns' = [conns EXCEPT ![<<b, Old>>] = Down]
        /\ UNCHANGED <<mem, disk, run, replies, events, Server, ops, failures, detached>>
    BY DEF CloseOld
  <1>2. UNCHANGED <<status, cancelled, kept>>
    BY <1>1 DEF Server
  <1>3. conns \in [Links -> Conns] /\ Now # Old /\ \A a \in App : <<a, Now>> \in Links /\ <<a, Old>> \in Links
    BY DEF IInv, Typed, Links, Now, Old
  <1>4. /\ conns' \in [Links -> Conns] /\ Range(conns'[<<b, Old>>].q) = {}
        /\ \A a \in App : /\ conns'[<<a, Now>>] = conns[<<a, Now>>]
                          /\ a # b => conns'[<<a, Old>>] = conns[<<a, Old>>]
    BY <1>1, <1>3, DownFields
  <1>5. ASSUME NEW a \in App PROVE Moves(a)
    <2>1. ~run[a].ready => replies[a] = <<>> /\ events[a] = <<>>
      BY DEF IInv, AppsFit, Fits
    <2>2. Range(conns'[<<a, Old>>].q) \subseteq Range(conns[<<a, Old>>].q)
      BY <1>4
    <2>3. QED
      BY <1>1, <1>4, <2>1, <2>2 DEF Moves
  <1>6. Later
    BY <1>2, CalmLater DEF Calm
  <1>7. StatusMoves
    BY <1>2 DEF StatusMoves
  <1>8. Typed'
    BY <1>1, <1>2, <1>4 DEF IInv, Typed
  <1>9. QED
    BY <1>1, <1>5, <1>6, <1>7, <1>8, ServerKeeps

\* An app without a connection awaits nothing.
LEMMA OfflineFits ==
  /\ Offline \in Runs /\ ~Offline.ready
  /\ \A a, m : StateFits(a, m) => Fits(a, m, Offline, <<>>, <<>>, <<>>)
  <1>1. Offline \in Runs /\ ~Offline.ready /\ Offline.listed = None /\ Offline.detaching = {} /\ Offline.pending = {}
    BY DEF Offline, Runs
  <1>2. Range(<<>>) = {}
    BY None1
  <1>3. QED
    BY <1>1, <1>2 DEF Fits, MessagesFit, Listing

LEMMA InTransitOf ==
  ASSUME NEW q \in Seq(Works)
  PROVE  InTransit(q) \in Seq(Works) /\ Range(InTransit(q)) \subseteq Range(q)
  <1>1. Len(q) \in Nat /\ (q # <<>> => Len(q) > 0) /\ (q = <<>> => Len(q) = 0)
    OBVIOUS
  <1>2. PICK n \in Nat : n <= Len(q) /\ InTransit(q) = SubSeq(q, 1, n)
    <2>1. CASE q # <<>> /\ Head(q).k = "attach" /\ Head(q).s # None
      <3>1. PICK n \in Nat : n = IF Len(q) = 1 THEN 1 ELSE 2
        OBVIOUS
      <3>2. n <= Len(q)
        <4>1. PICK k \in Nat : k = Len(q) /\ k > 0
          BY <1>1, <2>1
        <4>2. QED
          BY <3>1, <4>1
      <3>3. InTransit(q) = SubSeq(q, 1, n)
        BY <2>1, <3>1 DEF InTransit
      <3>4. QED
        BY <3>2, <3>3
    <2>2. CASE ~(q # <<>> /\ Head(q).k = "attach" /\ Head(q).s # None)
      <3>1. PICK n \in Nat : n = IF q = <<>> THEN 0 ELSE 1
        OBVIOUS
      <3>2. n <= Len(q)
        BY <1>1, <3>1
      <3>3. InTransit(q) = SubSeq(q, 1, n)
        BY <2>2, <3>1 DEF InTransit
      <3>4. QED
        BY <3>2, <3>3
    <2>3. QED
      BY <2>1, <2>2
  <1>3. QED
    BY <1>2, PrefixOf

\* A loss leaves a part of what was sent on the old link. Whatever it would still start is
\* in the file, and a killed app finds it there.
LEMMA CutKeeps ==
  ASSUME IInv, NEW a \in App, Cut(a), mem' \in {mem, [mem EXCEPT ![a] = disk[a]]}
  PROVE  IInv'
  <1>1. /\ mem \in [App -> States] /\ disk \in [App -> States] /\ run \in [App -> Runs]
        /\ conns \in [Links -> Conns] /\ replies \in [App -> Seq(Replies)] /\ events \in [App -> Seq(Events)]
    BY DEF IInv, Typed
  <1>2. Now # Old /\ \A b \in App : <<b, Now>> \in Links /\ <<b, Old>> \in Links
    BY DEF Links, Now, Old
  <1>3. PICK c \in Conns : c = conns[<<a, Now>>]
    BY <1>1, <1>2
  <1>4. PICK q \in Seq(Works) : q = c.q
    BY DEF Conns
  <1>5. PICK sent \in Seq(Works) : sent = InTransit(q) /\ Range(sent) \subseteq Range(q)
    BY InTransitOf
  <1>6. PICK d : d = [c EXCEPT !.q = sent]
    OBVIOUS
  <1>7. d \in Conns /\ d.q = sent
    BY <1>6 DEF Conns
  <1>8. conns' = [conns EXCEPT ![<<a, Now>>] = Down, ![<<a, Old>>] = d]
    BY <1>3, <1>4, <1>5, <1>6 DEF Cut
  <1>9. /\ run' = [run EXCEPT ![a] = Offline]
        /\ replies' = [replies EXCEPT ![a] = <<>>] /\ events' = [events EXCEPT ![a] = <<>>]
        /\ UNCHANGED <<disk, status, cancelled, ops, failures, detached, kept>>
    BY DEF Cut
  <1>10. /\ conns' \in [Links -> Conns] /\ conns'[<<a, Now>>] = Down /\ conns'[<<a, Old>>].q = sent
         /\ \A b \in App \ {a} : conns'[<<b, Now>>] = conns[<<b, Now>>] /\ conns'[<<b, Old>>] = conns[<<b, Old>>]
    <2>1. conns' \in [Links -> Conns]
      BY <1>1, <1>7, <1>8, DownFields
    <2>2. conns'[<<a, Now>>] = Down /\ conns'[<<a, Old>>] = d
      BY <1>1, <1>2, <1>8
    <2>3. ASSUME NEW b \in App \ {a}
          PROVE  conns'[<<b, Now>>] = conns[<<b, Now>>] /\ conns'[<<b, Old>>] = conns[<<b, Old>>]
      BY <1>1, <1>2, <1>8
    <2>4. QED
      BY <1>7, <2>1, <2>2, <2>3
  <1>11. /\ mem' \in [App -> States] /\ mem'[a] \in {mem[a], disk[a]}
         /\ \A b \in App \ {a} : mem'[b] = mem[b]
    BY <1>1
  <1>12. /\ run' \in [App -> Runs] /\ run'[a] = Offline /\ \A b \in App \ {a} : run'[b] = run[b]
         /\ replies' \in [App -> Seq(Replies)] /\ replies'[a] = <<>>
         /\ \A b \in App \ {a} : replies'[b] = replies[b]
         /\ events' \in [App -> Seq(Events)] /\ events'[a] = <<>>
         /\ \A b \in App \ {a} : events'[b] = events[b]
    <2>1. <<>> \in Seq(Replies) /\ <<>> \in Seq(Events)
      OBVIOUS
    <2>2. QED
      BY <1>1, <1>9, <2>1, OfflineFits
  <1>13. Typed'
    BY <1>9, <1>10, <1>11, <1>12 DEF IInv, Typed
  <1>14. Calm
    BY <1>9 DEF Calm
  <1>15. (/\ Fits(a, mem[a], run[a], conns[<<a, Now>>].q, replies[a], events[a])
          /\ failures = 0 => Clean(a, mem[a], run[a])
          /\ StateFits(a, disk[a])
          /\ conns[<<a, Now>>].up => run[a].ready)'
    <2>1. PICK m, k : m = mem'[a] /\ k = disk[a]
      OBVIOUS
    <2>2. StateFits(a, m) /\ StateFits(a, k)
      BY <1>11, <2>1 DEF IInv, AppsFit, Fits
    <2>3. Fits(a, m, Offline, <<>>, <<>>, <<>>)
      BY <2>2, OfflineFits
    <2>4. Fits(a, m, Offline, <<>>, <<>>, <<>>)' /\ StateFits(a, k)'
      <3>1. Fits(a, k, Offline, <<>>, <<>>, <<>>)
        BY <2>2, OfflineFits
      <3>2. PICK r, e : r = Offline /\ e = <<>>
        OBVIOUS
      <3>3. Fits(a, m, r, e, e, e) /\ Fits(a, k, r, e, e, e)
        BY <2>3, <3>1, <3>2
      <3>4. Fits(a, m, r, e, e, e)' /\ StateFits(a, k)'
        BY <1>14, <3>3, FitsStill
      <3>5. QED
        BY <3>2, <3>4
    <2>5. conns'[<<a, Now>>].q = <<>> /\ ~conns'[<<a, Now>>].up
      BY <1>10, DownFields
    <2>6. (Fits(a, mem[a], run[a], conns[<<a, Now>>].q, replies[a], events[a]))' /\ StateFits(a, disk[a])'
      BY <1>9, <1>12, <2>1, <2>4, <2>5
    <2>7. Clean(a, mem[a], run[a])'
      BY <1>12, OfflineFits DEF Clean
    <2>8. QED
      BY <2>5, <2>6, <2>7
  <1>16. ASSUME NEW b \in App \ {a}
         PROVE  (/\ Fits(b, mem[b], run[b], conns[<<b, Now>>].q, replies[b], events[b])
                 /\ failures = 0 => Clean(b, mem[b], run[b])
                 /\ StateFits(b, disk[b])
                 /\ conns[<<b, Now>>].up => run[b].ready)'
    <2>1. /\ mem'[b] = mem[b] /\ run'[b] = run[b] /\ conns'[<<b, Now>>] = conns[<<b, Now>>]
          /\ replies'[b] = replies[b] /\ events'[b] = events[b] /\ disk'[b] = disk[b]
      BY <1>9, <1>10, <1>11, <1>12
    <2>2. PICK m, r, u, rp, e, k : m = mem[b] /\ r = run[b] /\ u = conns[<<b, Now>>].q /\ rp = replies[b]
                                   /\ e = events[b] /\ k = disk[b]
      OBVIOUS
    <2>3. Fits(b, m, r, u, rp, e) /\ StateFits(b, k)
      BY <2>2 DEF IInv, AppsFit
    <2>4. Fits(b, m, r, u, rp, e)' /\ StateFits(b, k)'
      BY <1>14, <2>3, FitsStill DEF Calm, StateFits
    <2>5. (Fits(b, mem[b], run[b], conns[<<b, Now>>].q, replies[b], events[b]))' /\ StateFits(b, disk[b])'
      BY <2>1, <2>2, <2>4
    <2>6. failures' = 0 => Clean(b, mem'[b], run'[b])
      BY <1>9, <2>1 DEF IInv, AppsFit
    <2>7. conns'[<<b, Now>>].up => run'[b].ready
      BY <2>1 DEF IInv, AppsFit
    <2>8. QED
      BY <2>5, <2>6, <2>7 DEF Clean
  <1>17. AppsFit'
    BY <1>15, <1>16 DEF AppsFit, Clean
  <1>18. Fits(a, mem[a], run[a], q, replies[a], events[a])
    BY <1>3, <1>4 DEF IInv, AppsFit
  <1>19. OldFits'
    <2>1. ASSUME NEW b \in App, NEW w \in Range(conns'[<<b, Old>>].q), w.k = "attach"
          PROVE  /\ w.s # None => status[w.s] # "none"
                 /\ w.s = None => w.new
                 /\ w.new => <<b, w.p>> \in Fresh /\ w.s \in {None, <<b, w.p>>}
      <3>1. CASE b = a
        <4>1. w \in Range(q)
          BY <1>5, <1>10, <2>1, <3>1
        <4>2. AttachFits(a, mem[a], w)
          BY <1>18, <2>1, <4>1 DEF Fits, MessagesFit, RequestFits
        <4>3. QED
          BY <3>1, <4>2 DEF AttachFits
      <3>2. CASE b # a
        BY <1>10, <2>1, <3>2 DEF IInv, OldFits
      <3>3. QED
        BY <3>1, <3>2
    <2>2. QED
      BY <1>9, <2>1 DEF OldFits
  <1>20. \A s \in Session : Lasting(s)' => Lasting(s)
    BY <1>9 DEF Lasting
  <1>21. ASSUME NEW s \in Session, Started(s)' PROVE Started(s)
    <2>1. s[1] \in App
      BY Constants
    <2>2. CASE status'[s] = "live"
      BY <1>9, <2>2 DEF Started
    <2>3. CASE status'[s] # "live"
      <3>1. PICK v \in {Now, Old} : \E w \in Range(conns'[<<s[1], v>>].q) : Begins(w, s)
        BY <1>21, <2>3 DEF Started
      <3>2. PICK w \in Range(conns'[<<s[1], v>>].q) : Begins(w, s)
        BY <3>1
      <3>3. CASE s[1] = a
        <4>1. w \in Range(conns[<<a, Now>>].q)
          BY <1>3, <1>4, <1>5, <1>10, <3>2, <3>3, DownFields
        <4>2. QED
          BY <3>2, <3>3, <4>1 DEF Started
      <3>4. CASE s[1] # a
        BY <1>10, <2>1, <3>2, <3>4 DEF Started
      <3>5. QED
        BY <3>3, <3>4
    <2>4. QED
      BY <2>2, <2>3
  <1>22. OnDisk'
    <2>1. ASSUME NEW s \in Session, Lasting(s)', Started(s)' PROVE \E b \in App : RemembersIt(b, disk'[b], s)
      BY <1>9, <1>20, <1>21, <2>1 DEF IInv, OnDisk
    <2>2. QED
      BY <2>1 DEF OnDisk, RemembersIt, Shows, Open
  <1>23. InMemory'
    <2>1. ASSUME NEW s \in Session, NEW b \in App, Lasting(s)', RemembersIt(b, disk'[b], s)
          PROVE  RemembersIt(b, mem'[b], s)
      <3>1. Lasting(s) /\ RemembersIt(b, disk[b], s) /\ RemembersIt(b, mem[b], s)
        BY <1>9, <1>20, <2>1 DEF IInv, InMemory
      <3>2. mem'[b] \in {mem[b], disk[b]}
        BY <1>11
      <3>3. QED
        BY <3>1, <3>2
    <2>2. QED
      BY <2>1 DEF InMemory, RemembersIt, Shows, Open
  <1>24. QED
    BY <1>13, <1>17, <1>19, <1>22, <1>23 DEF IInv
-----------------------------------------------------------------------------
(* The theorems *)

LEMMA InitKeeps ==
  ASSUME Init
  PROVE  IInv
  <1>1. PICK blank : blank = Blank
    OBVIOUS
  <1>2. /\ blank \in States /\ blank.at = [p \in Pane |-> "new"] /\ blank.session = [p \in Pane |-> None]
        /\ blank.starting = {} /\ blank.cancels = {} /\ DOMAIN blank.closes = {}
    <2>1. <<>> \in [{} -> App \X Nat] /\ DOMAIN <<>> = {}
      OBVIOUS
    <2>2. <<>> \in Closes
      BY <2>1 DEF Closes
    <2>3. QED
      BY <1>1, <2>1, <2>2 DEF Blank, States
  <1>3. /\ \A a \in App : mem[a] = blank /\ disk[a] = blank /\ run[a] = Offline /\ replies[a] = <<>> /\ events[a] = <<>>
        /\ \A l \in Links : conns[l] = Down
        /\ \A s \in Session : status[s] = "none"
        /\ failures = 0 /\ \A a \in App : <<a, Now>> \in Links /\ <<a, Old>> \in Links
    BY <1>1 DEF Init, Links
  <1>4. Typed
    <2>1. <<>> \in Seq(Replies) /\ <<>> \in Seq(Events)
      OBVIOUS
    <2>2. mem \in [App -> States] /\ disk \in [App -> States]
      BY <1>1, <1>2 DEF Init
    <2>3. run \in [App -> Runs] /\ conns \in [Links -> Conns]
      BY OfflineFits, DownFields DEF Init
    <2>4. replies \in [App -> Seq(Replies)] /\ events \in [App -> Seq(Events)]
      BY <2>1 DEF Init
    <2>5. QED
      BY <2>2, <2>3, <2>4 DEF Init, Typed
  <1>5. \A a : StateFits(a, blank)
    BY <1>2 DEF StateFits
  <1>6. \A a \in App : Fits(a, blank, Offline, <<>>, <<>>, <<>>)
    BY <1>5, OfflineFits
  <1>7. AppsFit
    <2>1. ASSUME NEW a \in App
          PROVE  /\ Fits(a, mem[a], run[a], conns[<<a, Now>>].q, replies[a], events[a])
                 /\ failures = 0 => Clean(a, mem[a], run[a])
                 /\ StateFits(a, disk[a])
                 /\ conns[<<a, Now>>].up => run[a].ready
      <3>1. conns[<<a, Now>>].q = <<>> /\ ~conns[<<a, Now>>].up
        BY <1>3, DownFields
      <3>2. Clean(a, mem[a], run[a])
        BY <1>3, OfflineFits DEF Clean
      <3>3. QED
        BY <1>3, <1>5, <1>6, <3>1, <3>2
    <2>2. QED
      BY <2>1 DEF AppsFit
  <1>8. OldFits
    BY <1>3, DownFields DEF OldFits
  <1>9. \A s \in Session : ~Started(s)
    <2>1. ASSUME NEW s \in Session, NEW v \in {Now, Old} PROVE Range(conns[<<s[1], v>>].q) = {}
      BY <1>3, Constants, DownFields
    <2>2. QED
      BY <1>3, <2>1 DEF Started
  <1>10. OnDisk
    BY <1>9 DEF OnDisk
  <1>11. InMemory
    BY <1>3 DEF InMemory
  <1>12. QED
    BY <1>4, <1>7, <1>8, <1>10, <1>11 DEF IInv

LEMMA StutterKeeps ==
  ASSUME IInv, UNCHANGED vars
  PROVE  IInv'
  <1>1. UNCHANGED <<mem, disk, run, conns, replies, events, status, cancelled, kept, ops, failures, detached>>
    BY DEF vars
  <1>2. Typed'
    BY <1>1 DEF IInv, Typed
  <1>3. Later
    BY <1>1, CalmLater DEF Calm
  <1>4. StatusMoves
    BY <1>1 DEF StatusMoves
  <1>5. ASSUME NEW a \in App PROVE Moves(a)
    <2>1. ~run[a].ready => replies[a] = <<>> /\ events[a] = <<>>
      BY DEF IInv, AppsFit, Fits
    <2>2. QED
      BY <1>1, <2>1 DEF Moves
  <1>6. QED
    BY <1>1, <1>2, <1>3, <1>4, <1>5, ServerKeeps

LEMMA NextKeeps ==
  ASSUME IInv, [Next]_vars
  PROVE  IInv'
  <1>1. ASSUME NEW a \in App, User(a) PROVE IInv'
    <2>1. PICK p \in Pane : \/ \E s \in Session \cup {None} : OpenPane(a, p, s)
                            \/ StartAttach(a, p) \/ ClosePane(a, p) \/ DetachPane(a, p)
      BY <1>1 DEF User
    <2>2. QED
      BY <2>1, OpenPaneKeeps, StartAttachKeeps, ClosePaneKeeps, DetachPaneKeeps
  <1>2. ASSUME NEW a \in App, Handler(a) PROVE IInv'
    BY <1>2, ConnectKeeps, RestoreKeeps, ReceiveKeeps, CloseOldKeeps DEF Handler
  <1>3. ASSUME NEW a \in App, Break(a) PROVE IInv'
    <2>1. Cut(a) /\ mem' = mem
      BY <1>3 DEF Break
    <2>2. QED
      BY <2>1, CutKeeps
  <1>4. ASSUME NEW a \in App, Kill(a) PROVE IInv'
    <2>1. Cut(a) /\ mem' = [mem EXCEPT ![a] = disk[a]]
      BY <1>4 DEF Kill
    <2>2. QED
      BY <2>1, CutKeeps
  <1>5. ASSUME NEW l \in Links, Serve(l) PROVE IInv'
    BY <1>5, ServeKeeps
  <1>6. ASSUME NEW s \in Session, Exit(s) PROVE IInv'
    BY <1>6, ExitKeeps
  <1>7. ASSUME UNCHANGED vars PROVE IInv'
    BY <1>7, StutterKeeps
  <1>8. QED
    BY <1>1, <1>2, <1>3, <1>4, <1>5, <1>6, <1>7 DEF Next

\* What the proofs rest on holds: every message is about a session that its pane
\* may have, and the files have every session that was started or is about to be.
THEOREM Invariant == Spec => []IInv
  <1>1. Init => IInv
    BY InitKeeps
  <1>2. IInv /\ [Next]_vars => IInv'
    BY NextKeeps
  <1>3. QED
    BY <1>1, <1>2, PTL DEF Spec

\* Panes and intents keep their types, whatever order closes, attaches, losses and
\* failed saves come in: only an open pane is starting, and only one that is gone
\* has its creation cancelled (remove_pane, start_attach).
THEOREM TypeCorrect == Spec => []TypeOK
  <1>1. IInv => TypeOK
    <2> SUFFICES ASSUME IInv PROVE TypeOK
      OBVIOUS
    <2>1. \A a \in App : mem[a] \in States /\ disk[a] \in States
      BY DEF IInv, Typed
    <2>2. \A a \in App : StateFits(a, mem[a]) /\ StateFits(a, disk[a]) /\ run[a].detaching \subseteq run[a].pending
      BY DEF IInv, AppsFit, Fits
    <2>3. ASSUME NEW a, NEW m \in States, StateFits(a, m) PROVE StateOK(m)
      <3>1. /\ m.at \in [Pane -> {"new", "open", "gone"}] /\ m.session \in [Pane -> Session \cup {None}]
            /\ m.cancels \in SUBSET Pane /\ m.closes \in Closes
        BY DEF States
      <3>2. m.cancels \subseteq Pane \ Open(m)
        BY <2>3, <3>1 DEF StateFits, Open
      <3>3. DOMAIN m.closes \subseteq Session
        BY <3>1, TypeOfCloses
      <3>4. QED
        BY <2>3, <3>1, <3>2, <3>3 DEF StateOK, StateFits
    <2>4. ASSUME NEW l \in Links PROVE conns[l].refs \cup conns[l].created \subseteq Session
      <3>1. conns[l] \in Conns
        BY DEF IInv, Typed
      <3>2. QED
        BY <3>1, ConnFields
    <2>5. QED
      BY <2>1, <2>2, <2>3, <2>4 DEF TypeOK, IInv, Typed
  <1>2. QED
    BY <1>1, Invariant, PTL

\* No terminal runs that nobody remembers, whatever connections are lost, apps killed
\* and saves failed; and while no save failed, every close and cancellation that a
\* connected app keeps is on its way (EachRemembered, CleanupUnderWay). For any number
\* of apps and panes.
THEOREM NothingIsForgotten == Spec => []NothingForgotten
  <1>1. IInv => EachRemembered
    <2> SUFFICES ASSUME IInv, NEW s \in Session, s \notin detached \cup kept, status[s] = "live"
                 PROVE  /\ \E a \in App : RemembersIt(a, disk[a], s)
                        /\ \E a \in App : RemembersIt(a, mem[a], s)
      BY DEF EachRemembered
    <2>1. Lasting(s) /\ Started(s)
      BY DEF Lasting, Started
    <2>2. PICK a \in App : RemembersIt(a, disk[a], s)
      BY <2>1 DEF IInv, OnDisk
    <2>3. RemembersIt(a, mem[a], s)
      BY <2>1, <2>2 DEF IInv, InMemory
    <2>4. QED
      BY <2>2, <2>3
  <1>2. IInv => CleanupUnderWay
    <2> SUFFICES ASSUME IInv, NEW a \in App, run[a].ready, run[a].listed = None, failures = 0
                 PROVE  /\ \A s \in DOMAIN mem[a].closes : Awaited(a, "discard", s)
                        /\ \A p \in mem[a].cancels : Awaited(a, "cancel", <<a, p>>)
      BY DEF CleanupUnderWay
    <2>1. DOMAIN mem[a].closes \subseteq run[a].discarding /\ mem[a].cancels \subseteq run[a].cancelling
      BY DEF IInv, AppsFit, Clean
    <2>2. Awaiting(a, run[a], conns[<<a, Now>>].q, replies[a])
      BY DEF IInv, AppsFit, Fits
    <2>3. QED
      BY <2>1, <2>2 DEF Awaiting, Awaits, Awaited
  <1>3. IInv => NothingForgotten
    BY <1>1, <1>2 DEF NothingForgotten
  <1>4. QED
    BY <1>3, Invariant, PTL
-----------------------------------------------------------------------------
(* What an app shows while none of its panes has gone *)

\* References are announced in their order: while no pane has gone they only grow,
\* and there is nothing to close and nothing to detach.
Rising(q) == \A i, j \in DOMAIN q : i < j /\ q[i].k = "refs" /\ q[j].k = "refs" => q[i].set \subseteq q[j].set

Growing(S, R) ==
  Intact(S.m) =>
    /\ DOMAIN S.m.closes = {} /\ R \subseteq Shows(S.m) /\ Rising(S.q)
    /\ \A w \in Range(S.q) :
         /\ w.k \notin {"detach", "discard"}
         /\ w.k = "refs" => R \subseteq w.set /\ w.set \subseteq Shows(S.m)

\* A pane on the screen has a session, which the server has attached to it in A.
OnView(S, A) ==
  \A p \in S.r.shown :
    /\ S.m.at[p] # "new"
    /\ S.m.at[p] = "open" =>
         /\ S.m.session[p] # None
         /\ Intact(S.m) /\ status[S.m.session[p]] = "live" => <<p, S.m.session[p]>> \in A

\* So has a pane that is told so.
OnWay(m, ev, A) ==
  Intact(m) => \A e \in Range(ev) : e.k = "attached" /\ status[e.s] = "live" => <<e.p, e.s>> \in A

Seen(a) ==
  LET c == conns[<<a, Now>>] IN
    /\ run[a].ready <=> c.up
    /\ run[a].ready \/ run[a].shown = {}
    /\ Growing(Local(a), c.refs) /\ OnView(Local(a), c.attached) /\ OnWay(mem[a], events[a], c.attached)
    /\ Intact(mem[a]) => c.released = {}
    /\ Intact(disk[a]) => DOMAIN disk[a].closes = {}

\* Only panes of Slots are opened, and an app closes by its own operations.
Mine(a, m) ==
  /\ \A p \in Pane : m.at[p] # "new" => <<a, p>> \in Slots
  /\ \A s \in DOMAIN m.closes : m.closes[s][1] = a

OwnWorks(a, q) == \A w \in Range(q) : w.k = "discard" => w.op[1] = a

AppsOwn ==
  \A a \in App : Mine(a, mem[a]) /\ Mine(a, disk[a]) /\ \A v \in {Now, Old} : OwnWorks(a, conns[<<a, v>>].q)

SeenInv == AppsOwn /\ \A a \in App : Seen(a)

View(a, S, R, A) == Growing(S, R) /\ OnView(S, A) /\ Mine(a, S.m) /\ OwnWorks(a, S.q)

LEMMA RisingOn ==
  ASSUME NEW q \in Seq(Works), NEW works \in Seq(Works), Rising(q), Rising(works),
         \A x \in Range(q), w \in Range(works) : x.k = "refs" /\ w.k = "refs" => x.set \subseteq w.set
  PROVE  Rising(q \o works)
  <1>1. PICK u \in Seq(Works) : u = q \o works
    BY Joined
  <1>2. /\ Len(u) = Len(q) + Len(works) /\ Len(q) \in Nat /\ Len(works) \in Nat
        /\ \A i \in 1 .. Len(q) : u[i] = q[i]
        /\ \A i \in 1 .. Len(works) : u[Len(q) + i] = works[i]
        /\ DOMAIN u = 1 .. Len(u) /\ DOMAIN q = 1 .. Len(q) /\ DOMAIN works = 1 .. Len(works)
    BY <1>1
  <1>3. ASSUME NEW i \in DOMAIN u, NEW j \in DOMAIN u, i < j, u[i].k = "refs", u[j].k = "refs"
        PROVE  u[i].set \subseteq u[j].set
    <2>1. CASE j <= Len(q)
      <3>1. i \in DOMAIN q /\ j \in DOMAIN q /\ u[i] = q[i] /\ u[j] = q[j]
        BY <1>2, <1>3, <2>1
      <3>2. QED
        BY <1>3, <3>1 DEF Rising
    <2>2. CASE i > Len(q)
      <3>1. /\ i - Len(q) \in DOMAIN works /\ j - Len(q) \in DOMAIN works /\ i - Len(q) < j - Len(q)
            /\ u[i] = works[i - Len(q)] /\ u[j] = works[j - Len(q)]
        BY <1>2, <1>3, <2>2
      <3>2. QED
        BY <1>3, <3>1 DEF Rising
    <2>3. CASE i <= Len(q) /\ j > Len(q)
      <3>1. /\ i \in DOMAIN q /\ u[i] = q[i]
            /\ j - Len(q) \in DOMAIN works /\ u[j] = works[j - Len(q)]
        BY <1>2, <1>3, <2>3
      <3>2. u[i] \in Range(q) /\ u[j] \in Range(works)
        BY <3>1 DEF Range
      <3>3. QED
        BY <1>3, <3>2
    <2>4. QED
      BY <1>2, <1>3, <2>1, <2>2, <2>3
  <1>4. Rising(u)
    BY <1>3 DEF Rising
  <1>5. QED
    BY <1>1, <1>4

LEMMA RisingTail ==
  ASSUME NEW q \in Seq(Works), q # <<>>, Rising(q)
  PROVE  /\ Rising(Tail(q))
         /\ \A w \in Range(Tail(q)) : Head(q).k = "refs" /\ w.k = "refs" => Head(q).set \subseteq w.set
  <1>1. PICK t \in Seq(Works) : t = Tail(q)
    BY TailOf
  <1>2. /\ Head(q) = q[1] /\ 1 \in DOMAIN q /\ Len(t) = Len(q) - 1 /\ Len(q) \in Nat
        /\ DOMAIN q = 1 .. Len(q) /\ DOMAIN t = 1 .. Len(q) - 1
        /\ \A i \in 1 .. Len(q) - 1 : t[i] = q[i + 1]
    BY <1>1
  <1>3. \A i \in DOMAIN t : i + 1 \in DOMAIN q /\ t[i] = q[i + 1] /\ 1 < i + 1
    BY <1>2
  <1>4. Rising(t)
    <2> SUFFICES ASSUME NEW i \in DOMAIN t, NEW j \in DOMAIN t, i < j, t[i].k = "refs", t[j].k = "refs"
                 PROVE  t[i].set \subseteq t[j].set
      BY DEF Rising
    <2>1. i + 1 < j + 1
      BY <1>2
    <2>2. QED
      BY <1>3, <2>1 DEF Rising
  <1>5. ASSUME NEW w \in Range(t), Head(q).k = "refs", w.k = "refs" PROVE Head(q).set \subseteq w.set
    <2>1. PICK i \in DOMAIN t : t[i] = w
      BY <1>5 DEF Range
    <2>2. QED
      BY <1>2, <1>3, <1>5, <2>1 DEF Rising
  <1>6. QED
    BY <1>1, <1>4, <1>5

LEMMA RisingFew ==
  /\ \A q : (\A w \in Range(q) : w.k # "refs") => Rising(q)
  /\ \A w : Rising(<<w>>) /\ Rising(<<>>)
  <1>1. ASSUME NEW q, \A w \in Range(q) : w.k # "refs" PROVE Rising(q)
    BY <1>1 DEF Rising, Range
  <1>2. ASSUME NEW w PROVE Rising(<<w>>)
    <2>1. DOMAIN <<w>> = {1}
      OBVIOUS
    <2>2. QED
      BY <2>1 DEF Rising
  <1>3. Rising(<<>>)
    BY DEF Rising
  <1>4. QED
    BY <1>1, <1>2, <1>3

\* A call that sends references as they are, and closes and detaches only when a pane has
\* gone, leaves what is seen.
LEMMA AsksView ==
  ASSUME NEW a, NEW S \in Locals, NEW U \in Locals, NEW R, NEW A, View(a, S, R, A), NEW works \in Seq(Works),
         U.m = S.m, U.q = S.q, U.r.shown \subseteq S.r.shown, Rising(works),
         \A w \in Range(works) :
           /\ w.k = "refs" => w.set = Shows(S.m)
           /\ w.k \in {"detach", "discard"} => ~Intact(S.m)
           /\ w.k = "discard" => w.op[1] = a
  PROVE  View(a, Send(U, works), R, A) /\ Send(U, works) \in Locals
  <1>1. PICK T \in Locals : T = Send(U, works)
    BY SendType
  <1>2. T.m = S.m /\ T.r = U.r /\ Range(T.q) \subseteq Range(S.q) \cup Range(works)
    BY <1>1, SendType
  <1>3. T.q = S.q \o works \/ T.q = S.q
    BY <1>1 DEF Send, Locals
  <1>4. S.q \in Seq(Works)
    BY DEF Locals
  <1>5. Growing(T, R)
    <2> SUFFICES ASSUME Intact(S.m) PROVE Growing(T, R)
      BY <1>2 DEF Growing
    <2>1. /\ DOMAIN S.m.closes = {} /\ R \subseteq Shows(S.m) /\ Rising(S.q)
          /\ \A w \in Range(S.q) :
               /\ w.k \notin {"detach", "discard"}
               /\ w.k = "refs" => R \subseteq w.set /\ w.set \subseteq Shows(S.m)
      BY DEF View, Growing
    <2>2. Rising(S.q \o works)
      BY <1>4, <2>1, RisingOn
    <2>3. \A w \in Range(T.q) :
               /\ w.k \notin {"detach", "discard"}
               /\ w.k = "refs" => R \subseteq w.set /\ w.set \subseteq Shows(S.m)
      BY <1>2, <2>1
    <2>4. QED
      BY <1>2, <1>3, <2>1, <2>2, <2>3 DEF Growing
  <1>6. OnView(T, A)
    BY <1>2 DEF View, OnView
  <1>7. Mine(a, T.m) /\ OwnWorks(a, T.q)
    BY <1>2 DEF View, OwnWorks
  <1>8. QED
    BY <1>1, <1>5, <1>6, <1>7 DEF View

LEMMA SyncView ==
  ASSUME NEW a, NEW S \in Locals, NEW R, NEW A, View(a, S, R, A)
  PROVE  View(a, SyncReferences(S), R, A) /\ SyncReferences(S).r.shown = S.r.shown
  <1>1. CASE ~(S.r.ready /\ S.r.refs # Shows(S.m))
    BY <1>1 DEF SyncReferences
  <1>2. CASE S.r.ready /\ S.r.refs # Shows(S.m)
    <2>1. PICK w \in Works : w = [k |-> "refs", set |-> Shows(S.m)]
      BY LocalTypes DEF Works
    <2>2. PICK q \in Seq(Works) : q = <<w>> /\ Range(q) = {w}
      BY One
    <2>3. [S EXCEPT !.r.refs = Shows(S.m)] \in Locals
      BY LocalTypes DEF Locals, Runs
    <2>4. PICK U \in Locals : U = [S EXCEPT !.r.refs = Shows(S.m)]
      BY <2>3
    <2>5. U.m = S.m /\ U.q = S.q /\ U.r.shown = S.r.shown
      BY <2>4 DEF Locals, Runs
    <2>6. SyncReferences(S) = Send(U, q)
      BY <1>2, <2>1, <2>2, <2>4 DEF SyncReferences
    <2>7. Rising(q)
      BY <2>2, RisingFew
    <2>8. \A x \in Range(q) : x.k = "refs" /\ x.set = Shows(S.m)
      BY <2>1, <2>2
    <2>9. View(a, Send(U, q), R, A)
      BY <2>5, <2>7, <2>8, AsksView
    <2>10. Send(U, q).r = U.r
      BY SendType
    <2>11. QED
      BY <2>5, <2>6, <2>9, <2>10
  <1>3. QED
    BY <1>1, <1>2

LEMMA VisibleView ==
  ASSUME NEW a, NEW S \in Locals, NEW R, NEW A, View(a, S, R, A)
  PROVE  View(a, SyncVisible(S), R, A) /\ SyncVisible(S).r.shown \subseteq S.r.shown
  <1>1. PICK P : P = S.r.shown \ Open(S.m)
    OBVIOUS
  <1>2. P \subseteq Pane /\ IsFiniteSet(P)
    <2>1. P \subseteq Pane
      BY <1>1, LocalTypes DEF Runs
    <2>2. QED
      BY <2>1, Constants
  <1>3. [p \in P |-> [k |-> "detach", p |-> p, s |-> S.m.session[p]]] \in [P -> Works]
    BY <1>2, LocalTypes DEF Works
  <1>4. PICK f \in [P -> Works] : f = [p \in P |-> [k |-> "detach", p |-> p, s |-> S.m.session[p]]]
    BY <1>3
  <1>5. PICK W : W = {f[p] : p \in P}
    OBVIOUS
  <1>6. SetToSeq(W) \in Seq(Works) /\ Range(SetToSeq(W)) = W
    BY <1>2, <1>5, Imaged
  <1>7. W = {[k |-> "detach", p |-> p, s |-> S.m.session[p]] : p \in P}
    BY <1>4, <1>5
  <1>8. PICK q \in Seq(Works) : q = SetToSeq(W)
    BY <1>6
  <1>9. \A w \in Range(q) : w.k = "detach" /\ w.p \in P
    BY <1>6, <1>7, <1>8
  <1>10. PICK V : V = SyncReferences(S)
    OBVIOUS
  <1>11. V \in Locals /\ V.m = S.m
    BY <1>10, SyncFollows DEF Follows
  <1>12. View(a, V, R, A) /\ V.r.shown = S.r.shown
    BY <1>10, SyncView
  <1>13. [V EXCEPT !.r.shown = @ \ P] \in Locals
    BY <1>11 DEF Locals, Runs
  <1>14. PICK U \in Locals : U = [V EXCEPT !.r.shown = @ \ P]
    BY <1>13
  <1>15. U.m = V.m /\ U.q = V.q /\ U.r.shown = V.r.shown \ P
    BY <1>11, <1>14 DEF Locals, Runs
  <1>16. P # {} => ~Intact(S.m)
    <2> SUFFICES ASSUME NEW p \in P PROVE S.m.at[p] = "gone"
      BY <1>2 DEF Intact
    <2>1. S.m.at[p] # "new" /\ p \in Pane /\ S.m.at[p] # "open"
      BY <1>1, <1>2 DEF View, OnView, Open
    <2>2. QED
      BY <2>1, LocalTypes DEF States
  <1>17. \A w \in Range(q) : w.k = "detach" /\ ~Intact(V.m)
    BY <1>9, <1>11, <1>16
  <1>18. Rising(q)
    BY <1>9, RisingFew
  <1>19. View(a, Send(U, q), R, A)
    <2>1. U.r.shown \subseteq V.r.shown
      BY <1>15
    <2>2. QED
      BY <1>11, <1>12, <1>15, <1>17, <1>18, <2>1, AsksView
  <1>20. SyncVisible(S) = Send(U, q)
    BY <1>1, <1>7, <1>8, <1>10, <1>14 DEF SyncVisible
  <1>21. Send(U, q).r = U.r
    BY SendType
  <1>22. QED
    BY <1>12, <1>15, <1>19, <1>20, <1>21

LEMMA PendingView ==
  ASSUME NEW a \in App, NEW S \in Locals, NEW R, NEW A, View(a, S, R, A),
         NEW saved \in BOOLEAN, \A p \in S.m.cancels : <<a, p>> \in Fresh
  PROVE  View(a, DiscardPending(a, S, saved), R, A) /\ DiscardPending(a, S, saved).r.shown = S.r.shown
  <1>1. CASE ~S.r.ready \/ (a \in Remote /\ S.r.listed # None)
    BY <1>1 DEF DiscardPending
  <1>2. CASE S.r.ready /\ ~(a \in Remote /\ S.r.listed # None)
    <2>1. PICK P : P = S.m.cancels \ S.r.cancelling
      OBVIOUS
    <2>2. PICK D : D = IF saved THEN DOMAIN S.m.closes \ S.r.discarding ELSE {}
      OBVIOUS
    <2>3. P \subseteq Pane /\ P \subseteq S.m.cancels
      BY <2>1, LocalTypes
    <2>4. PICK q \in Seq(Works) : q = Cancels(a, P) /\ Range(q) = {[k |-> "cancel", s |-> <<a, p>>] : p \in P}
      BY <2>3, TypeOfCancels
    <2>5. [S EXCEPT !.r.cancelling = @ \cup P] \in Locals
      BY <2>3 DEF Locals, Runs
    <2>6. PICK U \in Locals : U = [S EXCEPT !.r.cancelling = @ \cup P]
      BY <2>5
    <2>7. U.m = S.m /\ U.q = S.q /\ U.r.shown = S.r.shown
      BY <2>6 DEF Locals, Runs
    <2>8. \A w \in Range(q) : w.k = "cancel"
      BY <2>4
    <2>9. PICK S1 : S1 = Send(U, q)
      OBVIOUS
    <2>10. View(a, S1, R, A) /\ S1 \in Locals
      BY <2>7, <2>8, <2>9, AsksView, RisingFew
    <2>11. S1.r = U.r /\ S1.m = S.m
      BY <2>7, <2>9, SendType
    <2>12. PICK V : V = SyncReferences(S1)
      OBVIOUS
    <2>13. View(a, V, R, A) /\ V.r.shown = S.r.shown
      BY <2>7, <2>10, <2>11, <2>12, SyncView
    <2>14. V \in Locals /\ V.m = S.m
      BY <2>10, <2>11, <2>12, SyncFollows DEF Follows
    <2>15. D \subseteq Session /\ D \subseteq DOMAIN V.m.closes
      BY <2>2, <2>14, LocalTypes
    <2>16. PICK d \in Seq(Works) : d = Discards(V, D)
                                   /\ Range(d) = {[k |-> "discard", s |-> s, op |-> V.m.closes[s]] : s \in D}
      BY <2>14, <2>15, TypeOfDiscards
    <2>17. \A w \in Range(d) : w.k = "discard" /\ w.op[1] = a /\ ~Intact(V.m)
      <3>1. \A s \in D : V.m.closes[s][1] = a
        BY <2>13, <2>15 DEF View, Mine
      <3>2. D # {} => ~Intact(V.m)
        BY <2>13, <2>15 DEF View, Growing
      <3>3. QED
        BY <2>16, <3>1, <3>2
    <2>18. [V EXCEPT !.r.discarding = @ \cup D] \in Locals
      BY <2>14, <2>15 DEF Locals, Runs
    <2>19. PICK X \in Locals : X = [V EXCEPT !.r.discarding = @ \cup D]
      BY <2>18
    <2>20. X.m = V.m /\ X.q = V.q /\ X.r.shown = V.r.shown
      BY <2>14, <2>19 DEF Locals, Runs
    <2>21. View(a, Send(X, d), R, A)
      BY <2>13, <2>14, <2>17, <2>20, AsksView, RisingFew
    <2>22. Discards(V, D) = Discards(S, D)
      BY <2>14 DEF Discards
    <2>23. DiscardPending(a, S, saved) = Send(X, d)
      BY <1>2, <2>1, <2>2, <2>4, <2>6, <2>9, <2>12, <2>16, <2>19, <2>22 DEF DiscardPending
    <2>24. Send(X, d).r = X.r
      BY SendType
    <2>25. QED
      BY <2>13, <2>20, <2>21, <2>23, <2>24
  <1>3. QED
    BY <1>1, <1>2

\* Another state of the panes is seen the same when no pane comes back and what it shows grows
\* while none has gone.
LEMMA ViewMoves ==
  ASSUME NEW a, NEW S, NEW T, NEW R, NEW A, View(a, S, R, A), T.q = S.q, T.r.shown \subseteq S.r.shown,
         Mine(a, T.m), Intact(T.m) => Intact(S.m) /\ DOMAIN T.m.closes = {} /\ Shows(S.m) \subseteq Shows(T.m),
         \A p \in T.r.shown : S.m.at[p] # "new" =>
           T.m.at[p] # "new" /\ (T.m.at[p] = "open" => S.m.at[p] = "open"),
         \A p \in T.r.shown : S.m.session[p] # None => T.m.session[p] = S.m.session[p]
  PROVE  View(a, T, R, A)
  <1>1. Growing(T, R)
    BY DEF View, Growing
  <1>2. OnView(T, A)
    BY DEF View, OnView
  <1>3. QED
    BY <1>1, <1>2 DEF View
-----------------------------------------------------------------------------
(* The handlers of an app, and what it shows *)

LEMMA RemovePanesView ==
  ASSUME NEW a \in App, NEW S \in Locals, NEW R, NEW A, View(a, S, R, A),
         NEW P \in SUBSET Open(S.m), NEW T \in Locals, T.m = RemovePanes(S.m, P), T.r = S.r, T.q = S.q
  PROVE  View(a, T, R, A) /\ (Intact(T.m) => Intact(S.m) /\ P = {})
  <1>1. S.m \in States /\ P \subseteq Pane
    BY LocalTypes
  <1>2. PICK m : m = RemovePanes(S.m, P)
    OBVIOUS
  <1>3. /\ m.at = [p \in Pane |-> IF p \in P THEN "gone" ELSE S.m.at[p]]
        /\ m.session = S.m.session /\ m.closes = S.m.closes /\ m \in States
    BY <1>1, <1>2, RemovePanesState
  <1>4. T.m = m /\ T.r = S.r /\ T.q = S.q /\ T \in Locals
    BY <1>2
  <1>5. \A p \in Pane : p \in P \/ m.at[p] = S.m.at[p]
    BY <1>3
  <1>6. Intact(m) => P = {} /\ Intact(S.m)
    BY <1>1, <1>3 DEF Intact
  <1>7. Mine(a, m)
    BY <1>3 DEF View, Mine, Open
  <1>8. P = {} => Shows(m) = Shows(S.m)
    <2>1. \A p \in Pane : P = {} => m.at[p] = S.m.at[p]
      BY <1>3
    <2>2. QED
      BY <1>3, <2>1 DEF Shows, Open
  <1>9. \A p \in T.r.shown : S.m.at[p] # "new" => m.at[p] # "new" /\ (m.at[p] = "open" => S.m.at[p] = "open")
    <2>1. T.r.shown \subseteq Pane
      BY <1>4, LocalTypes DEF Runs
    <2>2. QED
      BY <1>3, <2>1
  <1>10. View(a, T, R, A)
    <2>1. Intact(T.m) => Intact(S.m) /\ DOMAIN T.m.closes = {} /\ Shows(S.m) \subseteq Shows(T.m)
      BY <1>3, <1>4, <1>6, <1>8 DEF View, Growing
    <2>2. T.q = S.q /\ T.r.shown \subseteq S.r.shown /\ Mine(a, T.m)
      BY <1>4, <1>7
    <2>3. \A p \in T.r.shown : S.m.at[p] # "new" =>
            T.m.at[p] # "new" /\ (T.m.at[p] = "open" => S.m.at[p] = "open")
      BY <1>4, <1>9
    <2>4. \A p \in T.r.shown : S.m.session[p] # None => T.m.session[p] = S.m.session[p]
      BY <1>3, <1>4
    <2>5. QED
      BY ZenonT(30), <2>1, <2>2, <2>3, <2>4, ViewMoves
  <1>11. QED
    BY <1>4, <1>6, <1>10

LEMMA QueueDiscardView ==
  ASSUME NEW a \in App, NEW S \in Locals, NEW R, NEW A, View(a, S, R, A), ~Intact(S.m),
         NEW s \in Session, NEW T, T = QueueDiscard(a, S, s)
  PROVE  T \in Locals /\ View(a, T, R, A) /\ T.r = S.r /\ ~Intact(T.m) /\ T.m.cancels = S.m.cancels
  <1>1. CASE s \in DOMAIN S.m.closes
    BY <1>1 DEF QueueDiscard
  <1>2. CASE s \notin DOMAIN S.m.closes
    <2>1. S.m \in States /\ S.n \in Nat
      BY LocalTypes
    <2>2. PICK c : c = [t \in DOMAIN S.m.closes \cup {s} |-> IF t = s THEN <<a, S.n + 1>> ELSE S.m.closes[t]]
      OBVIOUS
    <2>3. c \in Closes
      <3>1. S.m.closes \in Closes
        BY <2>1 DEF States
      <3>2. DOMAIN S.m.closes \subseteq Session /\ \A t \in DOMAIN S.m.closes : S.m.closes[t] \in App \X Nat
        BY <3>1, TypeOfCloses
      <3>3. PICK D \in SUBSET Session : D = DOMAIN S.m.closes \cup {s}
        BY <3>2
      <3>4. c \in [D -> App \X Nat]
        BY <2>1, <2>2, <3>2, <3>3
      <3>5. QED
        BY <3>4 DEF Closes
    <2>4. PICK m : m = [S.m EXCEPT !.closes = c]
      OBVIOUS
    <2>5. /\ m = [at |-> S.m.at, session |-> S.m.session, starting |-> S.m.starting, cancels |-> S.m.cancels,
                  closes |-> c]
          /\ m \in States
      BY <2>1, <2>3, <2>4, ClosesState
    <2>6. T = [S EXCEPT !.n = S.n + 1, !.m = m]
      BY <1>2, <2>2, <2>4 DEF QueueDiscard, Locals
    <2>7. T \in Locals /\ T.m = m /\ T.r = S.r /\ T.q = S.q
      <3>1. T = [m |-> m, r |-> S.r, q |-> S.q, n |-> S.n + 1]
        BY <2>6 DEF Locals
      <3>2. S.r \in Runs /\ S.q \in Seq(Works) /\ S.n + 1 \in Nat
        BY LocalTypes
      <3>3. QED
        BY <2>5, <3>1, <3>2 DEF Locals
    <2>8. Mine(a, m)
      BY <2>2, <2>5 DEF View, Mine
    <2>9. ~Intact(m)
      BY <2>5 DEF Intact
    <2>10. View(a, T, R, A)
      BY <2>5, <2>7, <2>8, <2>9, ViewMoves
    <2>11. QED
      BY <2>5, <2>7, <2>9, <2>10
  <1>3. QED
    BY <1>1, <1>2

\* An app's handler that ends in such a state.
Viewing(a, S, ev) ==
  LET c == conns[<<a, Now>>] IN
    /\ S \in Locals /\ View(a, S, c.refs, c.attached) /\ OnWay(S.m, ev, c.attached)
    /\ Intact(S.m) => Intact(mem[a])
    /\ S.r.ready = run[a].ready /\ (S.r.ready \/ S.r.shown = {})

LEMMA ViewingFirst ==
  ASSUME IInv, SeenInv, NEW a \in App
  PROVE  /\ Viewing(a, Local(a), events[a])
         /\ conns[<<a, Now>>] \in Conns /\ <<a, Now>> \in Links /\ conns \in [Links -> Conns]
         /\ mem \in [App -> States] /\ disk \in [App -> States] /\ run \in [App -> Runs]
         /\ Local(a).m = mem[a] /\ Local(a).r = run[a] /\ Local(a).q = conns[<<a, Now>>].q
  <1>1. /\ conns[<<a, Now>>] \in Conns /\ <<a, Now>> \in Links /\ conns \in [Links -> Conns]
        /\ mem \in [App -> States] /\ disk \in [App -> States] /\ run \in [App -> Runs]
    BY DEF IInv, Typed, Links
  <1>2. Local(a) \in Locals /\ Local(a).m = mem[a] /\ Local(a).r = run[a] /\ Local(a).q = conns[<<a, Now>>].q
    BY LocalFits
  <1>3. View(a, Local(a), conns[<<a, Now>>].refs, conns[<<a, Now>>].attached)
    BY <1>2 DEF SeenInv, AppsOwn, Seen, View
  <1>4. OnWay(mem[a], events[a], conns[<<a, Now>>].attached) /\ (run[a].ready \/ run[a].shown = {})
    BY DEF SeenInv, Seen
  <1>5. QED
    BY <1>1, <1>2, <1>3, <1>4 DEF Viewing

\* What an app sees depends on its own state and its connection only.
LEMMA SeenStays ==
  ASSUME NEW b \in App, Seen(b), Local(b)' = Local(b), conns'[<<b, Now>>] = conns[<<b, Now>>],
         mem'[b] = mem[b], disk'[b] = disk[b], run'[b] = run[b], events'[b] = events[b], status' = status
  PROVE  Seen(b)'
  <1>1. (Growing(Local(b), conns[<<b, Now>>].refs))'
    BY DEF Seen, Growing, Rising, Intact, Shows, Open
  <1>2. (OnView(Local(b), conns[<<b, Now>>].attached))'
    BY DEF Seen, OnView, Intact
  <1>3. (OnWay(mem[b], events[b], conns[<<b, Now>>].attached))'
    BY DEF Seen, OnWay, Intact
  <1>4. QED
    BY <1>1, <1>2, <1>3 DEF Seen, Intact

\* A step of an app: c is its link then, d what its file has.
LEMMA AppSeen ==
  ASSUME IInv, SeenInv, NEW a \in App, NEW S \in Locals, NEW ev, NEW d, NEW c,
         View(a, S, c.refs, c.attached), OnWay(S.m, ev, c.attached), c.up <=> S.r.ready,
         S.r.ready \/ S.r.shown = {}, Intact(S.m) => c.released = {}, c.q = S.q,
         Mine(a, d), Intact(d) => DOMAIN d.closes = {},
         mem' = [mem EXCEPT ![a] = S.m], run' = [run EXCEPT ![a] = S.r], ops' = [ops EXCEPT ![a] = S.n],
         disk' = [disk EXCEPT ![a] = d], events' = [events EXCEPT ![a] = ev], status' = status,
         conns'[<<a, Now>>] = c, OwnWorks(a, conns'[<<a, Old>>].q),
         \A b \in App \ {a} : \A v \in {Now, Old} : conns'[<<b, v>>] = conns[<<b, v>>]
  PROVE  SeenInv'
  <1>1. /\ mem \in [App -> States] /\ disk \in [App -> States] /\ run \in [App -> Runs]
        /\ events \in [App -> Seq(Events)] /\ ops \in [App -> Nat]
    BY DEF IInv, Typed
  <1>2. \A b \in App \ {a} : /\ mem'[b] = mem[b] /\ run'[b] = run[b] /\ disk'[b] = disk[b]
                             /\ events'[b] = events[b] /\ ops'[b] = ops[b]
    BY <1>1
  <1>3. mem'[a] = S.m /\ run'[a] = S.r /\ disk'[a] = d /\ events'[a] = ev /\ ops'[a] = S.n
    BY <1>1
  <1>4. S = [m |-> S.m, r |-> S.r, q |-> S.q, n |-> S.n]
    BY DEF Locals
  <1>5. Local(a)' = S
    BY <1>3, <1>4 DEF Local
  <1>6. AppsOwn'
    <2> SUFFICES ASSUME NEW b \in App
                 PROVE  /\ Mine(b, mem'[b]) /\ Mine(b, disk'[b])
                        /\ \A v \in {Now, Old} : OwnWorks(b, conns'[<<b, v>>].q)
      BY DEF AppsOwn, Mine, OwnWorks
    <2>1. CASE b = a
      BY <1>3, <2>1 DEF View
    <2>2. CASE b # a
      BY <1>2, <2>2 DEF SeenInv, AppsOwn
    <2>3. QED
      BY <2>1, <2>2
  <1>7. Seen(a)'
    <2>1. (Growing(Local(a), conns[<<a, Now>>].refs))'
      BY <1>5 DEF View, Growing, Rising, Intact, Shows, Open
    <2>2. (OnView(Local(a), conns[<<a, Now>>].attached))'
      BY <1>5 DEF View, OnView, Intact
    <2>3. (OnWay(mem[a], events[a], conns[<<a, Now>>].attached))'
      BY <1>3 DEF OnWay, Intact
    <2>4. QED
      BY <1>3, <2>1, <2>2, <2>3 DEF Seen, Intact
  <1>8. ASSUME NEW b \in App \ {a} PROVE Seen(b)'
    <2>1. conns'[<<b, Now>>] = conns[<<b, Now>>]
      BY <1>8
    <2>2. Local(b)' = Local(b)
      BY <1>2, <1>8, <2>1 DEF Local
    <2>3. Seen(b)
      BY <1>8 DEF SeenInv
    <2>4. QED
      BY <1>2, <1>8, <2>1, <2>2, <2>3, SeenStays
  <1>9. QED
    BY <1>6, <1>7, <1>8 DEF SeenInv

LEMMA ViewingKeeps ==
  ASSUME IInv, SeenInv, NEW a \in App, NEW S, NEW ev, NEW d, Viewing(a, S, ev), Put(a, S),
         disk' = [disk EXCEPT ![a] = d], d \in {disk[a], mem[a], S.m}, status' = status,
         events' = [events EXCEPT ![a] = ev]
  PROVE  SeenInv'
  <1>1. conns[<<a, Now>>] \in Conns /\ <<a, Now>> \in Links /\ conns \in [Links -> Conns]
    BY ViewingFirst
  <1>2. /\ mem' = [mem EXCEPT ![a] = S.m] /\ run' = [run EXCEPT ![a] = S.r] /\ ops' = [ops EXCEPT ![a] = S.n]
        /\ conns' = [conns EXCEPT ![<<a, Now>>].q = S.q]
    BY DEF Put
  <1>3. PICK c : c = [conns[<<a, Now>>] EXCEPT !.q = S.q]
    OBVIOUS
  <1>4. /\ c.up = conns[<<a, Now>>].up /\ c.refs = conns[<<a, Now>>].refs /\ c.q = S.q
        /\ c.released = conns[<<a, Now>>].released /\ c.attached = conns[<<a, Now>>].attached
    BY <1>1, <1>3 DEF Conns
  <1>5. conns' = [conns EXCEPT ![<<a, Now>>] = c]
    BY <1>2, <1>3
  <1>6. conns'[<<a, Now>>] = c /\ \A l \in Links : l # <<a, Now>> => conns'[l] = conns[l]
    BY <1>1, <1>5
  <1>7. /\ conns'[<<a, Old>>] = conns[<<a, Old>>]
        /\ \A b \in App \ {a} : \A v \in {Now, Old} : conns'[<<b, v>>] = conns[<<b, v>>]
    BY <1>6 DEF Links, Now, Old
  <1>8. S \in Locals /\ View(a, S, c.refs, c.attached) /\ OnWay(S.m, ev, c.attached)
        /\ (S.r.ready \/ S.r.shown = {})
    BY <1>4 DEF Viewing
  <1>9. (c.up <=> S.r.ready) /\ (Intact(S.m) => c.released = {}) /\ OwnWorks(a, conns'[<<a, Old>>].q)
    BY <1>4, <1>7 DEF SeenInv, AppsOwn, Seen, Viewing
  <1>10. Mine(a, d) /\ (Intact(d) => DOMAIN d.closes = {})
    <2>1. Mine(a, S.m) /\ (Intact(S.m) => DOMAIN S.m.closes = {})
      BY <1>8 DEF View, Growing
    <2>2. Mine(a, mem[a]) /\ Mine(a, disk[a]) /\ (Intact(disk[a]) => DOMAIN disk[a].closes = {})
      BY DEF SeenInv, AppsOwn, Seen
    <2>3. Intact(mem[a]) => DOMAIN mem[a].closes = {}
      BY ViewingFirst DEF Viewing, View, Growing
    <2>4. QED
      BY <2>1, <2>2, <2>3
  <1>11. QED
    BY <1>2, <1>4, <1>6, <1>7, <1>8, <1>9, <1>10, AppSeen

\* A handler that saves.
LEMMA SavingViews ==
  ASSUME IInv, SeenInv, NEW a \in App, NEW done, NEW failed, NEW ev, Saving(a, done, failed),
         Viewing(a, done, ev), Viewing(a, failed, ev), status' = status, events' = [events EXCEPT ![a] = ev]
  PROVE  SeenInv'
  <1>1. disk = [disk EXCEPT ![a] = disk[a]]
    BY DEF IInv, Typed
  <1>2. CASE Put(a, done) /\ disk' = [disk EXCEPT ![a] = done.m]
    BY <1>2, ViewingKeeps
  <1>3. CASE Put(a, failed) /\ UNCHANGED disk
    BY <1>1, <1>3, ViewingKeeps
  <1>4. QED
    BY <1>2, <1>3 DEF Saving, Keep

\* A handler that has nothing to save.
LEMMA UnsavedViews ==
  ASSUME IInv, SeenInv, NEW a \in App, NEW S, NEW ev, Quietly(a, S), Viewing(a, S, ev), status' = status,
         events' = [events EXCEPT ![a] = ev]
  PROVE  SeenInv'
  <1>1. Put(a, S) /\ disk' = [disk EXCEPT ![a] = disk[a]]
    BY DEF Quietly, IInv, Typed
  <1>2. QED
    BY <1>1, ViewingKeeps

\* The calls that every handler makes.
LEMMA CallsView ==
  ASSUME NEW a \in App, NEW S, NEW ev, Viewing(a, S, ev)
  PROVE  /\ Viewing(a, SyncReferences(S), ev) /\ SyncReferences(S).m = S.m
         /\ Viewing(a, SyncVisible(S), ev) /\ SyncVisible(S).m = S.m
         /\ (\A p \in S.m.cancels : <<a, p>> \in Fresh) =>
              \A saved \in BOOLEAN : Viewing(a, DiscardPending(a, S, saved), ev) /\ DiscardPending(a, S, saved).m = S.m
  <1>1. PICK R, A : R = conns[<<a, Now>>].refs /\ A = conns[<<a, Now>>].attached
    OBVIOUS
  <1>2. S \in Locals /\ View(a, S, R, A)
    BY <1>1 DEF Viewing
  <1>3. ASSUME NEW T \in Locals, View(a, T, R, A), T.m = S.m, T.r.ready = S.r.ready, T.r.shown \subseteq S.r.shown
        PROVE  Viewing(a, T, ev)
    BY <1>1, <1>3 DEF Viewing
  <1>4. Viewing(a, SyncReferences(S), ev) /\ SyncReferences(S).m = S.m
    <2>1. PICK T : T = SyncReferences(S)
      OBVIOUS
    <2>2. View(a, T, R, A) /\ T.r.shown = S.r.shown
      BY <1>2, <2>1, SyncView
    <2>3. T \in Locals /\ T.m = S.m /\ T.r.ready = S.r.ready
      BY <1>2, <2>1, SyncFollows DEF Follows
    <2>4. QED
      BY <1>3, <2>1, <2>2, <2>3
  <1>5. Viewing(a, SyncVisible(S), ev) /\ SyncVisible(S).m = S.m
    <2>1. PICK T : T = SyncVisible(S)
      OBVIOUS
    <2>2. View(a, T, R, A) /\ T.r.shown \subseteq S.r.shown
      BY <1>2, <2>1, VisibleView
    <2>3. T \in Locals /\ T.m = S.m /\ T.r.ready = S.r.ready
      BY <1>2, <2>1, VisibleFollows DEF Follows
    <2>4. QED
      BY <1>3, <2>1, <2>2, <2>3
  <1>6. ASSUME \A p \in S.m.cancels : <<a, p>> \in Fresh, NEW saved \in BOOLEAN
        PROVE  Viewing(a, DiscardPending(a, S, saved), ev) /\ DiscardPending(a, S, saved).m = S.m
    <2>1. PICK T : T = DiscardPending(a, S, saved)
      OBVIOUS
    <2>2. View(a, T, R, A) /\ T.r.shown = S.r.shown
      BY <1>2, <1>6, <2>1, PendingView
    <2>3. T \in Locals /\ T.m = S.m /\ T.r.ready = S.r.ready
      BY <1>2, <1>6, <2>1, PendingFollows DEF Follows
    <2>4. QED
      BY <1>3, <2>1, <2>2, <2>3
  <1>7. QED
    BY <1>4, <1>5, <1>6

LEMMA ViewingMoves ==
  ASSUME NEW a, NEW S, NEW T \in Locals, NEW ev, Viewing(a, S, ev), T.q = S.q, T.r.shown \subseteq S.r.shown,
         T.r.ready = S.r.ready, Mine(a, T.m),
         Intact(T.m) => Intact(S.m) /\ DOMAIN T.m.closes = {} /\ Shows(S.m) \subseteq Shows(T.m),
         \A p \in T.r.shown : S.m.at[p] # "new" =>
           T.m.at[p] # "new" /\ (T.m.at[p] = "open" => S.m.at[p] = "open"),
         \A p \in T.r.shown : S.m.session[p] # None => T.m.session[p] = S.m.session[p]
  PROVE  Viewing(a, T, ev)
  <1>1. PICK R, A : R = conns[<<a, Now>>].refs /\ A = conns[<<a, Now>>].attached
    OBVIOUS
  <1>2. View(a, S, R, A)
    BY <1>1 DEF Viewing
  <1>3. View(a, T, R, A)
    BY ZenonT(30), <1>2, ViewMoves
  <1>4. QED
    BY <1>1, <1>3 DEF Viewing, OnWay

\* What the app keeps for its connection may change, but for what is shown.
LEMMA ViewingRuns ==
  ASSUME NEW a, NEW S, NEW T \in Locals, NEW ev, Viewing(a, S, ev), T.q = S.q, T.r.shown = S.r.shown,
         T.r.ready = S.r.ready, T.m.at = S.m.at, T.m.session = S.m.session, DOMAIN T.m.closes \subseteq DOMAIN S.m.closes,
         \A s \in DOMAIN T.m.closes : T.m.closes[s] = S.m.closes[s]
  PROVE  Viewing(a, T, ev)
  <1>1. Mine(a, S.m) /\ (Intact(S.m) => DOMAIN S.m.closes = {})
    BY DEF Viewing, View, Growing
  <1>2. Mine(a, T.m)
    BY <1>1 DEF Mine
  <1>3. Shows(T.m) = Shows(S.m) /\ (Intact(T.m) <=> Intact(S.m))
    BY DEF Shows, Open, Intact
  <1>4. QED
    BY <1>1, <1>2, <1>3, ViewingMoves

LEMMA ViewingAttaches ==
  ASSUME NEW a, NEW S, NEW ev, Viewing(a, S, ev), NEW works \in Seq(Works), \A w \in Range(works) : w.k = "attach"
  PROVE  Viewing(a, Send(S, works), ev) /\ Send(S, works).m = S.m
  <1>1. PICK R, A : R = conns[<<a, Now>>].refs /\ A = conns[<<a, Now>>].attached
    OBVIOUS
  <1>2. S \in Locals /\ View(a, S, R, A)
    BY <1>1 DEF Viewing
  <1>3. PICK T : T = Send(S, works)
    OBVIOUS
  <1>4. View(a, T, R, A) /\ T \in Locals
    BY <1>2, <1>3, AsksView, RisingFew
  <1>5. T.m = S.m /\ T.r = S.r
    BY <1>2, <1>3, SendType
  <1>6. QED
    BY <1>1, <1>3, <1>4, <1>5 DEF Viewing

LEMMA ViewingRemoves ==
  ASSUME NEW a \in App, NEW S, NEW ev, Viewing(a, S, ev), NEW P \in SUBSET Open(S.m),
         NEW T, T = [S EXCEPT !.m = RemovePanes(@, P)]
  PROVE  /\ Viewing(a, T, ev) /\ T.r = S.r /\ T.m = RemovePanes(S.m, P)
         /\ Intact(T.m) => P = {}
  <1>1. PICK R, A : R = conns[<<a, Now>>].refs /\ A = conns[<<a, Now>>].attached
    OBVIOUS
  <1>2. S \in Locals /\ View(a, S, R, A)
    BY <1>1 DEF Viewing
  <1>3. T \in Locals /\ T.m = RemovePanes(S.m, P) /\ T.r = S.r /\ T.q = S.q
    <2>1. P \in SUBSET Pane /\ S.m \in States
      BY <1>2, LocalTypes
    <2>2. RemovePanes(S.m, P) \in States
      BY <2>1, RemovePanesState
    <2>3. QED
      BY <1>2, <2>2 DEF Locals
  <1>4. View(a, T, R, A) /\ (Intact(T.m) => Intact(S.m) /\ P = {})
    <2>1. ASSUME NEW X \in Locals, X.m = RemovePanes(S.m, P), X.r = S.r, X.q = S.q, NEW M \in Locals, M = S
          PROVE  View(a, X, R, A) /\ (Intact(X.m) => Intact(M.m) /\ P = {})
      <3>1. P \in SUBSET Open(M.m) /\ View(a, M, R, A)
        BY <1>2, <2>1
      <3>2. X.m = RemovePanes(M.m, P) /\ X.r = M.r /\ X.q = M.q
        BY <2>1
      <3>3. QED
        BY <2>1, <3>1, <3>2, RemovePanesView
    <2>2. QED
      BY <1>2, <1>3, <2>1
  <1>5. QED
    BY <1>1, <1>3, <1>4 DEF Viewing, OnWay

LEMMA ViewingQueues ==
  ASSUME NEW a \in App, NEW S, NEW ev, Viewing(a, S, ev), ~Intact(S.m), NEW s \in Session,
         NEW T, T = QueueDiscard(a, S, s)
  PROVE  /\ Viewing(a, T, ev) /\ T.r = S.r /\ T.m.cancels = S.m.cancels
  <1>1. PICK R, A : R = conns[<<a, Now>>].refs /\ A = conns[<<a, Now>>].attached
    OBVIOUS
  <1>2. S \in Locals /\ View(a, S, R, A)
    BY <1>1 DEF Viewing
  <1>3. T \in Locals /\ View(a, T, R, A) /\ T.r = S.r /\ ~Intact(T.m) /\ T.m.cancels = S.m.cancels
    BY SMTT(30), <1>2, QueueDiscardView
  <1>4. QED
    BY <1>1, <1>3 DEF Viewing, OnWay

LEMMA OpenPaneSeen ==
  ASSUME IInv, SeenInv, NEW a \in App, NEW p \in Pane, NEW s \in Session \cup {None}, OpenPane(a, p, s)
  PROVE  SeenInv'
  <1>1. PICK L : L = Local(a)
    OBVIOUS
  <1>2. Viewing(a, L, events[a]) /\ L \in Locals /\ L.m = mem[a] /\ L.m \in States
    BY <1>1, ViewingFirst, LocalFits
  <1>3. PICK m : m = [mem[a] EXCEPT !.at[p] = "open", !.session[p] = s]
    OBVIOUS
  <1>4. m = [at |-> [mem[a].at EXCEPT ![p] = "open"], session |-> [mem[a].session EXCEPT ![p] = s],
             starting |-> mem[a].starting, cancels |-> mem[a].cancels, closes |-> mem[a].closes]
    BY ZenonT(30), <1>2, <1>3, OpenState
  <1>5. m \in States
    BY <1>2, <1>3, OpenState
  <1>6. PICK S : S = [L EXCEPT !.m = m]
    OBVIOUS
  <1>7. S \in Locals /\ S.m = m /\ S.r = L.r /\ S.q = L.q
    BY <1>2, <1>5, <1>6 DEF Locals
  <1>8. mem[a].at[p] = "new" /\ mem[a].session[p] = None /\ <<a, p>> \in Slots
    BY DEF OpenPane, IInv, AppsFit, Fits, StateFits
  <1>9. \A x \in Pane : /\ m.at[x] = IF x = p THEN "open" ELSE mem[a].at[x]
                        /\ m.session[x] = IF x = p THEN s ELSE mem[a].session[x]
    BY <1>2, <1>4, StateFields
  <1>10. Mine(a, mem[a]) /\ (Intact(mem[a]) => DOMAIN mem[a].closes = {})
    BY <1>2 DEF Viewing, View, Growing
  <1>11. Mine(a, m) /\ (Intact(m) => Intact(mem[a])) /\ Shows(mem[a]) \subseteq Shows(m)
    <2>1. Mine(a, m)
      BY <1>4, <1>8, <1>9, <1>10 DEF Mine
    <2>2. Intact(m) => Intact(mem[a])
      BY <1>8, <1>9 DEF Intact
    <2>3. Shows(mem[a]) \subseteq Shows(m)
      BY <1>8, <1>9 DEF Shows, Open
    <2>4. QED
      BY <2>1, <2>2, <2>3
  <1>12. Viewing(a, S, events[a])
    <2>1. S.r.shown \subseteq Pane
      BY <1>7, LocalTypes DEF Runs
    <2>2. S.q = L.q /\ S.r.shown \subseteq L.r.shown /\ S.r.ready = L.r.ready /\ Mine(a, S.m)
      BY <1>7, <1>11
    <2>3. Intact(S.m) => Intact(L.m) /\ DOMAIN S.m.closes = {} /\ Shows(L.m) \subseteq Shows(S.m)
      BY <1>2, <1>4, <1>7, <1>10, <1>11
    <2>4. \A x \in S.r.shown : L.m.at[x] # "new" =>
            S.m.at[x] # "new" /\ (S.m.at[x] = "open" => L.m.at[x] = "open")
      BY <1>2, <1>7, <1>8, <1>9, <2>1
    <2>5. \A x \in S.r.shown : L.m.session[x] # None => S.m.session[x] = L.m.session[x]
      BY <1>2, <1>7, <1>8, <1>9, <2>1
    <2>6. QED
      BY <1>2, <1>7, <2>2, <2>3, <2>4, <2>5, ViewingMoves
  <1>13. Viewing(a, SyncVisible(S), events[a])
    BY <1>12, CallsView
  <1>14. Saving(a, SyncVisible(S), L) /\ status' = status
    BY <1>1, <1>3, <1>6 DEF OpenPane, Server
  <1>15. events' = [events EXCEPT ![a] = events[a]]
    BY DEF OpenPane, IInv, Typed
  <1>16. QED
    BY <1>2, <1>13, <1>14, <1>15, SavingViews

LEMMA StartAttachSeen ==
  ASSUME IInv, SeenInv, NEW a \in App, NEW p \in Pane, StartAttach(a, p)
  PROVE  SeenInv'
  <1>1. PICK L : L = Local(a)
    OBVIOUS
  <1>2. Viewing(a, L, events[a]) /\ L \in Locals /\ L.m = mem[a] /\ L.m \in States /\ L.r = run[a] /\ L.r \in Runs
    BY <1>1, ViewingFirst, LocalFits
  <1>3. PICK s \in Session \cup {None} : s = mem[a].session[p]
    BY <1>2, StateFields
  <1>4. PICK m : m = [mem[a] EXCEPT !.starting = @ \cup {p}]
    OBVIOUS
  <1>5. /\ m = [at |-> mem[a].at, session |-> mem[a].session, starting |-> mem[a].starting \cup {p},
                cancels |-> mem[a].cancels, closes |-> mem[a].closes]
        /\ m \in States
    <2>1. PICK P \in SUBSET Pane : P = {p}
      OBVIOUS
    <2>2. m = [mem[a] EXCEPT !.starting = @ \cup P] /\ mem[a] \in States
      BY <1>2, <1>4, <2>1
    <2>3. QED
      BY <2>1, <2>2, StartingState
  <1>6. PICK P : P = [L EXCEPT !.m = m]
    OBVIOUS
  <1>7. P \in Locals /\ P.m = m /\ P.r = L.r /\ P.q = L.q
    BY <1>2, <1>5, <1>6 DEF Locals
  <1>8. Viewing(a, P, events[a])
    BY <1>2, <1>5, <1>7, ViewingRuns
  <1>9. PICK U : U = [P EXCEPT !.r.pending = @ \cup {p}]
    OBVIOUS
  <1>10. U \in Locals /\ U.m = m /\ U.q = L.q /\ U.r.ready = L.r.ready /\ U.r.shown = L.r.shown
    BY <1>7, <1>9 DEF Locals, Runs
  <1>11. Viewing(a, U, events[a])
    BY <1>7, <1>8, <1>10, ViewingRuns
  <1>12. PICK w \in Works : w = [k |-> "attach", p |-> p, s |-> s, new |-> (s = None)]
    <2>1. PICK b \in BOOLEAN : b = (s = None)
      OBVIOUS
    <2>2. [k |-> "attach", p |-> p, s |-> s, new |-> b] \in Works
      BY DEF Works
    <2>3. QED
      BY <2>1, <2>2
  <1>13. PICK q \in Seq(Works) : q = <<w>> /\ Range(q) = {w}
    BY One
  <1>14. Viewing(a, Send(U, q), events[a])
    <2>1. \A x \in Range(q) : x.k = "attach"
      BY <1>12, <1>13
    <2>2. QED
      BY <1>11, <2>1, ViewingAttaches
  <1>15. Saving(a, Send(U, q), P) /\ status' = status
    <2>1. P = [Local(a) EXCEPT !.m.starting = @ \cup {p}]
      BY <1>1, <1>2, <1>4, <1>6 DEF Locals
    <2>2. Send(U, q) = Send([P EXCEPT !.r.pending = @ \cup {p}],
                   <<[k |-> "attach", p |-> p, s |-> mem[a].session[p], new |-> mem[a].session[p] = None]>>)
      BY <1>3, <1>9, <1>12, <1>13
    <2>3. QED
      BY <2>1, <2>2 DEF StartAttach, Server
  <1>16. events' = [events EXCEPT ![a] = events[a]]
    BY DEF StartAttach, IInv, Typed
  <1>17. QED
    BY <1>8, <1>14, <1>15, <1>16, SavingViews

LEMMA ClosePaneSeen ==
  ASSUME IInv, SeenInv, NEW a \in App, NEW p \in Pane, ClosePane(a, p)
  PROVE  SeenInv'
  <1>1. PICK L : L = Local(a)
    OBVIOUS
  <1>2. /\ Viewing(a, L, events[a]) /\ L \in Locals /\ L.m = mem[a]
        /\ FitsWith(a, L, replies[a], events[a]) /\ PanesOf(L.q, replies[a], events[a])
    BY <1>1, ViewingFirst, LocalFits
  <1>3. PICK P \in SUBSET Open(L.m) : P = {p}
    BY <1>2 DEF ClosePane
  <1>4. PICK S : S = [L EXCEPT !.m = RemovePanes(@, P)]
    OBVIOUS
  <1>5. Viewing(a, S, events[a]) /\ ~Intact(S.m)
    BY <1>2, <1>3, <1>4, ViewingRemoves
  <1>6. FitsWith(a, S, replies[a], events[a])
    BY <1>2, <1>4, RemovePanesFits
  <1>7. \A x \in S.m.cancels : <<a, x>> \in Fresh
    BY <1>6, CancelsFresh
  <1>8. PICK Q : Q = IF mem[a].session[p] \in Session \ Shows(S.m)
                     THEN QueueDiscard(a, S, mem[a].session[p]) ELSE S
    OBVIOUS
  <1>9. Viewing(a, Q, events[a]) /\ Q.m.cancels = S.m.cancels
    <2>1. CASE mem[a].session[p] \in Session \ Shows(S.m)
      <3>1. PICK s \in Session : s = mem[a].session[p]
        BY <2>1
      <3>2. Q = QueueDiscard(a, S, s)
        BY <1>8, <2>1, <3>1
      <3>3. QED
        BY <1>5, <3>2, ViewingQueues
    <2>2. CASE mem[a].session[p] \notin Session \ Shows(S.m)
      BY <1>5, <1>8, <2>2
    <2>3. QED
      BY <2>1, <2>2
  <1>10. PICK V : V = SyncVisible(Q)
    OBVIOUS
  <1>11. Viewing(a, V, events[a]) /\ V.m = Q.m
    BY <1>9, <1>10, CallsView
  <1>12. PICK T : T = DiscardPending(a, V, TRUE)
    OBVIOUS
  <1>13. Viewing(a, T, events[a])
    BY <1>7, <1>9, <1>11, <1>12, CallsView
  <1>14. Saving(a, T, L) /\ status' = status
    BY <1>1, <1>3, <1>4, <1>8, <1>10, <1>12 DEF ClosePane, Server
  <1>15. events' = [events EXCEPT ![a] = events[a]]
    BY DEF ClosePane, IInv, Typed
  <1>16. QED
    BY <1>2, <1>13, <1>14, <1>15, SavingViews

LEMMA DetachPaneSeen ==
  ASSUME IInv, SeenInv, NEW a \in App, NEW p \in Pane, DetachPane(a, p)
  PROVE  SeenInv'
  <1>1. PICK L : L = Local(a)
    OBVIOUS
  <1>2. /\ Viewing(a, L, events[a]) /\ L \in Locals /\ L.m = mem[a] /\ L.m \in States /\ L.r = run[a] /\ L.r \in Runs
        /\ FitsWith(a, L, replies[a], events[a])
    BY <1>1, ViewingFirst, LocalFits
  <1>3. PICK m : m = [mem[a] EXCEPT !.at[p] = "gone", !.starting = @ \ {p}]
    OBVIOUS
  <1>4. /\ m = [at |-> [mem[a].at EXCEPT ![p] = "gone"], session |-> mem[a].session,
                starting |-> mem[a].starting \ {p}, cancels |-> mem[a].cancels, closes |-> mem[a].closes]
        /\ m \in States
    BY <1>2, <1>3, GoneState
  <1>5. PICK S : S = [[L EXCEPT !.m = m] EXCEPT !.r.detaching = @ \cup ({p} \cap run[a].pending)]
    OBVIOUS
  <1>6. S \in Locals /\ S.m = m /\ S.q = L.q /\ S.r.ready = L.r.ready /\ S.r.shown = L.r.shown
    <2>1. PICK U : U = [L EXCEPT !.m = m]
      OBVIOUS
    <2>2. U \in Locals /\ U.m = m /\ U.r = L.r /\ U.q = L.q
      BY <1>2, <1>4, <2>1 DEF Locals
    <2>3. QED
      BY <1>2, <1>5, <2>1, <2>2 DEF Locals, Runs
  <1>7. \A x \in Pane : m.at[x] = IF x = p THEN "gone" ELSE mem[a].at[x]
    BY <1>2, <1>4, StateFields
  <1>8. mem[a].at[p] = "open" /\ Mine(a, mem[a])
    BY <1>2 DEF DetachPane, Open, Viewing, View
  <1>9. Mine(a, m) /\ ~Intact(m)
    BY <1>4, <1>7, <1>8 DEF Mine, Intact
  <1>10. Viewing(a, S, events[a])
    <2>1. S.r.shown \subseteq Pane
      BY <1>6, LocalTypes DEF Runs
    <2>2. \A x \in S.r.shown : L.m.at[x] # "new" =>
            S.m.at[x] # "new" /\ (S.m.at[x] = "open" => L.m.at[x] = "open")
      BY <1>2, <1>6, <1>7, <2>1
    <2>3. \A x \in S.r.shown : L.m.session[x] # None => S.m.session[x] = L.m.session[x]
      BY <1>2, <1>4, <1>6
    <2>4. QED
      BY <1>2, <1>6, <1>9, <2>2, <2>3, ViewingMoves
  <1>11. PICK V : V = SyncVisible(S)
    OBVIOUS
  <1>12. Viewing(a, V, events[a]) /\ V.m = S.m
    BY <1>10, <1>11, CallsView
  <1>13. \A x \in V.m.cancels : <<a, x>> \in Fresh
    BY <1>2, <1>4, <1>6, <1>12, CancelsFresh
  <1>14. PICK T : T = DiscardPending(a, V, TRUE)
    OBVIOUS
  <1>15. Viewing(a, T, events[a])
    BY <1>12, <1>13, <1>14, CallsView
  <1>16. Saving(a, T, L) /\ status' = status
    <2>1. S = [L EXCEPT !.m.at[p] = "gone", !.m.starting = @ \ {p},
                        !.r.detaching = @ \cup ({p} \cap run[a].pending)]
      BY <1>2, <1>3, <1>5 DEF Locals
    <2>2. QED
      BY <1>1, <1>11, <1>14, <2>1 DEF DetachPane, Server
  <1>17. events' = [events EXCEPT ![a] = events[a]]
    BY DEF DetachPane, IInv, Typed
  <1>18. QED
    BY <1>2, <1>15, <1>16, <1>17, SavingViews

\* What AppSeen asks of a step after which app a has S, events ev, file d and connection c.
Outcome(a, S, ev, d, c) ==
  /\ View(a, S, c.refs, c.attached) /\ OnWay(S.m, ev, c.attached)
  /\ c.up <=> S.r.ready
  /\ S.r.ready \/ S.r.shown = {}
  /\ Intact(S.m) => c.released = {}
  /\ c.q = S.q
  /\ Mine(a, d) /\ (Intact(d) => DOMAIN d.closes = {})
  /\ mem' = [mem EXCEPT ![a] = S.m] /\ run' = [run EXCEPT ![a] = S.r] /\ ops' = [ops EXCEPT ![a] = S.n]
  /\ disk' = [disk EXCEPT ![a] = d] /\ events' = [events EXCEPT ![a] = ev] /\ status' = status
  /\ conns'[<<a, Now>>] = c /\ OwnWorks(a, conns'[<<a, Old>>].q)
  /\ \A b \in App \ {a} : \A v \in {Now, Old} : conns'[<<b, v>>] = conns[<<b, v>>]

\* It keeps the invariant (AppSeen).
LEMMA OutcomeSeen ==
  ASSUME IInv, SeenInv, NEW a \in App, NEW S \in Locals, NEW ev, NEW d, NEW c, Outcome(a, S, ev, d, c)
  PROVE  SeenInv'
  BY AppSeen DEF Outcome

\* A new connection starts with nothing shown.
LEMMA LinkSeen ==
  ASSUME IInv, SeenInv, NEW a \in App, ~run[a].ready, NEW saved \in BOOLEAN, Link(a, Connected(a, saved)),
         NEW d \in {disk[a], mem[a]}, disk' = [disk EXCEPT ![a] = d], UNCHANGED <<mem, events, status, ops>>
  PROVE  SeenInv'
  <1>1. PICK L : L = Local(a)
    OBVIOUS
  <1>2. /\ FitsWith(a, L, replies[a], events[a]) /\ L \in Locals /\ Viewing(a, L, events[a])
        /\ L.m = mem[a] /\ L.r = run[a] /\ L.n = ops[a]
        /\ conns \in [Links -> Conns] /\ <<a, Now>> \in Links
    BY <1>1, ViewingFirst, LocalFits DEF Local
  <1>3. ~run[a].ready
    OBVIOUS
  <1>4. events[a] = <<>> /\ \A p \in mem[a].cancels : <<a, p>> \in Fresh
    BY <1>2, <1>3, CancelsFresh DEF FitsWith, Fits
  <1>5. PICK r : r = [Offline EXCEPT !.ready = TRUE]
    OBVIOUS
  <1>6. r \in Runs /\ r.ready /\ r.shown = {}
    BY <1>5 DEF Offline, Runs
  <1>7. PICK S : S = [L EXCEPT !.r = r, !.q = <<>>]
    OBVIOUS
  <1>8. S \in Locals /\ S.m = mem[a] /\ S.r = r /\ S.q = <<>> /\ S.n = ops[a] /\ Range(S.q) = {}
    BY <1>2, <1>6, <1>7, None1 DEF Locals
  <1>9. View(a, S, {}, {})
    <2>1. Mine(a, mem[a]) /\ (Intact(mem[a]) => DOMAIN mem[a].closes = {})
      BY <1>2 DEF Viewing, View, Growing
    <2>2. Growing(S, {})
      BY <1>8, <2>1, RisingFew DEF Growing
    <2>3. OnView(S, {}) /\ OwnWorks(a, S.q)
      BY <1>6, <1>8 DEF OnView, OwnWorks
    <2>4. QED
      BY <1>8, <2>1, <2>2, <2>3 DEF View
  <1>10. PICK V : V = SyncReferences(S)
    OBVIOUS
  <1>11. View(a, V, {}, {}) /\ V.r.shown = {}
    BY <1>6, <1>8, <1>9, <1>10, SyncView
  <1>12. V \in Locals /\ V.m = mem[a] /\ V.n = ops[a] /\ V.r.ready
    BY <1>6, <1>8, <1>10, SyncFollows DEF Follows
  <1>13. PICK listed : listed = {s \in Session : status[s] = "live"}
    OBVIOUS
  <1>14. PICK S1 : S1 = [V EXCEPT !.r.listed = listed]
    OBVIOUS
  <1>15. /\ S1 \in Locals /\ S1.m = V.m /\ S1.n = V.n /\ S1.q = V.q /\ S1.r.ready /\ S1.r.shown = {}
    BY <1>11, <1>12, <1>13, <1>14 DEF Locals, Runs
  <1>16. View(a, S1, {}, {})
    BY <1>11, <1>15 DEF View, Growing, OnView
  <1>17. PICK T : T = DiscardPending(a, S1, saved)
    OBVIOUS
  <1>18. View(a, T, {}, {}) /\ T.r.shown = {}
    BY <1>4, <1>12, <1>15, <1>16, <1>17, PendingView
  <1>19. T \in Locals /\ T.m = mem[a] /\ T.n = ops[a] /\ T.r.ready
    BY <1>4, <1>12, <1>15, <1>17, PendingFollows DEF Follows
  <1>20. PICK c : c = [Down EXCEPT !.up = TRUE, !.q = T.q]
    OBVIOUS
  <1>21. c.up /\ c.q = T.q /\ c.refs = {} /\ c.released = {} /\ c.attached = {}
    BY <1>20 DEF Down
  <1>22. /\ run' = [run EXCEPT ![a] = T.r] /\ conns' = [conns EXCEPT ![<<a, Now>>] = c]
    BY <1>1, <1>5, <1>7, <1>10, <1>13, <1>14, <1>17, <1>20 DEF Link, Connected
  <1>23. /\ mem' = [mem EXCEPT ![a] = T.m] /\ ops' = [ops EXCEPT ![a] = T.n]
         /\ status' = status
    BY <1>19, <1>22 DEF IInv, Typed
  <1>24. /\ conns'[<<a, Now>>] = c /\ conns'[<<a, Old>>] = conns[<<a, Old>>]
         /\ \A b \in App \ {a} : \A v \in {Now, Old} : conns'[<<b, v>>] = conns[<<b, v>>]
    BY <1>2, <1>22 DEF Links, Now, Old
  <1>25. Mine(a, d) /\ (Intact(d) => DOMAIN d.closes = {}) /\ OwnWorks(a, conns'[<<a, Old>>].q)
    <2>1. Mine(a, mem[a]) /\ (Intact(mem[a]) => DOMAIN mem[a].closes = {})
      BY <1>2 DEF Viewing, View, Growing
    <2>2. QED
      BY <1>24, <2>1 DEF SeenInv, AppsOwn, Seen
  <1>26. PICK ev : ev = <<>>
    OBVIOUS
  <1>27. View(a, T, c.refs, c.attached)
    BY <1>18, <1>21
  <1>28. /\ c.up <=> T.r.ready
         /\ T.r.ready \/ T.r.shown = {}
         /\ Intact(T.m) => c.released = {}
         /\ c.q = T.q
    BY <1>19, <1>21
  <1>29. OnWay(T.m, ev, c.attached) /\ events' = [events EXCEPT ![a] = ev]
    BY <1>4, <1>26, None1 DEF OnWay, IInv, Typed
  <1>30. T \in Locals /\ run' = [run EXCEPT ![a] = T.r]
    BY <1>19, <1>22
  <1>31. /\ conns'[<<a, Now>>] = c
         /\ \A b \in App \ {a} : \A v \in {Now, Old} : conns'[<<b, v>>] = conns[<<b, v>>]
    BY <1>24
  <1>32. Outcome(a, T, ev, d, c)
    BY <1>23, <1>25, <1>27, <1>28, <1>29, <1>30, <1>31 DEF Outcome
  <1>33. QED
    BY <1>30, <1>32, OutcomeSeen

LEMMA ConnectSeen ==
  ASSUME IInv, SeenInv, NEW a \in App, Connect(a)
  PROVE  SeenInv'
  <1>1. ~run[a].ready /\ UNCHANGED <<mem, events, status, ops>> /\ disk = [disk EXCEPT ![a] = disk[a]]
    BY DEF Connect, Server, IInv, Typed
  <1>2. PICK saves : saves = (a \notin Remote /\ DOMAIN mem[a].closes # {})
    OBVIOUS
  <1>3. CASE Link(a, Connected(a, TRUE)) /\ Keep(a, IF saves THEN mem[a] ELSE disk[a])
    BY <1>1, <1>3, LinkSeen DEF Keep
  <1>4. CASE Link(a, Connected(a, FALSE)) /\ UNCHANGED disk
    BY <1>1, <1>4, LinkSeen
  <1>5. QED
    BY <1>2, <1>3, <1>4 DEF Connect

LEMMA RestoredView ==
  ASSUME IInv, SeenInv, NEW a \in App, NEW saved \in BOOLEAN
  PROVE  Viewing(a, Restored(a, saved), events[a])
  <1>1. PICK L : L = Local(a)
    OBVIOUS
  <1>2. /\ Viewing(a, L, events[a]) /\ L \in Locals /\ L.m = mem[a] /\ L.r = run[a]
        /\ FitsWith(a, L, replies[a], events[a]) /\ PanesOf(L.q, replies[a], events[a])
    BY <1>1, ViewingFirst, LocalFits
  <1>3. PICK lost : lost = {p \in Open(mem[a]) : mem[a].session[p] \notin run[a].listed \cup {None}}
    OBVIOUS
  <1>4. lost \in SUBSET Open(L.m)
    BY <1>2, <1>3
  <1>5. PICK A : A = [L EXCEPT !.m = RemovePanes(@, lost)]
    OBVIOUS
  <1>6. Viewing(a, A, events[a]) /\ A.r = L.r
    BY <1>2, <1>4, <1>5, ViewingRemoves
  <1>7. \A x \in A.m.cancels : <<a, x>> \in Fresh
    <2>1. FitsWith(a, A, replies[a], events[a])
      BY <1>2, <1>4, <1>5, RemovePanesFits
    <2>2. QED
      BY <2>1, CancelsFresh
  <1>8. PICK B : B = [A EXCEPT !.r.listed = None, !.r.pending = {}]
    OBVIOUS
  <1>9. B \in Locals /\ B.m = A.m /\ B.q = A.q /\ B.r.ready = A.r.ready /\ B.r.shown = A.r.shown
    BY <1>6, <1>8 DEF Viewing, Locals, Runs
  <1>10. Viewing(a, B, events[a])
    BY <1>6, <1>9, ViewingRuns
  <1>11. PICK S1 : S1 = DiscardPending(a, B, saved)
    OBVIOUS
  <1>12. Viewing(a, S1, events[a]) /\ S1.m = A.m
    BY <1>7, <1>9, <1>10, <1>11, CallsView
  <1>13. PICK new : new = {p \in Open(S1.m) : S1.m.session[p] = None}
    OBVIOUS
  <1>14. new \in SUBSET Pane
    BY <1>13 DEF Open
  <1>15. S1 \in Locals /\ S1.m \in States
    BY <1>12 DEF Viewing, Locals
  <1>16. PICK m : m = [S1.m EXCEPT !.starting = @ \cup new]
    OBVIOUS
  <1>17. /\ m = [at |-> S1.m.at, session |-> S1.m.session, starting |-> S1.m.starting \cup new,
                 cancels |-> S1.m.cancels, closes |-> S1.m.closes]
         /\ m \in States
    BY <1>14, <1>15, <1>16, StartingState
  <1>18. PICK P : P = [S1 EXCEPT !.m = m]
    OBVIOUS
  <1>19. P \in Locals /\ P.m = m /\ P.r = S1.r /\ P.q = S1.q
    BY <1>15, <1>17, <1>18 DEF Locals
  <1>20. Viewing(a, P, events[a])
    BY <1>12, <1>17, <1>19, ViewingRuns
  <1>21. PICK U : U = [P EXCEPT !.r.pending = new]
    OBVIOUS
  <1>22. U \in Locals /\ U.m = m /\ U.q = P.q /\ U.r.ready = P.r.ready /\ U.r.shown = P.r.shown
    BY <1>14, <1>19, <1>21 DEF Locals, Runs
  <1>23. Viewing(a, U, events[a])
    BY <1>19, <1>20, <1>22, ViewingRuns
  <1>24. [p \in new |-> [k |-> "attach", p |-> p, s |-> None, new |-> TRUE]] \in [new -> Works]
    BY <1>14 DEF Works
  <1>25. PICK f \in [new -> Works] : f = [p \in new |-> [k |-> "attach", p |-> p, s |-> None, new |-> TRUE]]
    BY <1>24
  <1>26. PICK W : W = {f[p] : p \in new}
    OBVIOUS
  <1>27. SetToSeq(W) \in Seq(Works) /\ Range(SetToSeq(W)) = W
    BY <1>14, <1>26, Imaged, Constants
  <1>28. W = {[k |-> "attach", p |-> p, s |-> None, new |-> TRUE] : p \in new}
    BY <1>25, <1>26
  <1>29. PICK q \in Seq(Works) : q = SetToSeq(W) /\ Range(q) = W
    BY <1>27
  <1>30. PICK X : X = Send(U, q)
    OBVIOUS
  <1>31. Viewing(a, X, events[a])
    <2>1. \A w \in Range(q) : w.k = "attach"
      BY <1>28, <1>29
    <2>2. QED
      BY <1>23, <1>30, <2>1, ViewingAttaches
  <1>32. PICK T : T = SyncVisible(IF saved THEN X ELSE P)
    OBVIOUS
  <1>33. Viewing(a, T, events[a])
    BY <1>20, <1>31, <1>32, CallsView
  <1>34. Restored(a, saved) = T
    <2>1. B = [[L EXCEPT !.r.listed = None, !.m = RemovePanes(@, lost)] EXCEPT !.r.pending = {}]
      BY <1>2, <1>5, <1>8 DEF Locals, Runs
    <2>2. P = [S1 EXCEPT !.m.starting = @ \cup new]
      BY <1>15, <1>16, <1>18 DEF Locals
    <2>3. X = Send([P EXCEPT !.r.pending = new],
                   SetToSeq({[k |-> "attach", p |-> p, s |-> None, new |-> TRUE] : p \in new}))
      BY <1>21, <1>28, <1>29, <1>30
    <2> DEFINE lost0 == {p \in Open(mem[a]) : mem[a].session[p] \notin run[a].listed \cup {None}}
               S0 == [Local(a) EXCEPT !.r.listed = None, !.m = RemovePanes(@, lost0)]
               S2 == DiscardPending(a, [S0 EXCEPT !.r.pending = {}], saved)
               new0 == {p \in Open(S2.m) : S2.m.session[p] = None}
               planned == [S2 EXCEPT !.m.starting = @ \cup new0]
               sent == Send([planned EXCEPT !.r.pending = new0],
                 SetToSeq({[k |-> "attach", p |-> p, s |-> None, new |-> TRUE] : p \in new0}))
    <2>4. Restored(a, saved) = SyncVisible(IF saved THEN sent ELSE planned)
      BY DEF Restored
    <2>5. S0 = [L EXCEPT !.r.listed = None, !.m = RemovePanes(@, lost)]
      BY <1>1, <1>3
    <2> HIDE DEF lost0, S0
    <2>6. S2 = S1
      BY <1>11, <2>1, <2>5
    <2> HIDE DEF S2
    <2>7. new0 = new
      BY <1>13, <2>6
    <2> HIDE DEF new0
    <2>8. planned = P
      BY <2>2, <2>6, <2>7
    <2> HIDE DEF planned
    <2>9. sent = X
      BY <2>3, <2>7, <2>8
    <2> HIDE DEF sent
    <2>10. QED
      BY <1>32, <2>4, <2>8, <2>9
  <1>35. QED
    BY <1>33, <1>34

LEMMA RestoreSeen ==
  ASSUME IInv, SeenInv, NEW a \in App, Restore(a)
  PROVE  SeenInv'
  <1>1. Viewing(a, Restored(a, TRUE), events[a]) /\ Viewing(a, Restored(a, FALSE), events[a])
    BY RestoredView
  <1>2. Viewing(a, Local(a), events[a])
    BY ViewingFirst
  <1>3. /\ status' = status /\ events' = [events EXCEPT ![a] = events[a]] /\ disk = [disk EXCEPT ![a] = disk[a]]
    BY DEF Restore, Server, IInv, Typed
  <1>4. CASE Put(a, Restored(a, TRUE)) /\ Keep(a, Restored(a, TRUE).m)
    BY <1>1, <1>3, <1>4, ViewingKeeps DEF Keep
  <1>5. CASE Put(a, Restored(a, FALSE)) /\ disk' = [disk EXCEPT ![a] = mem[a]]
    BY <1>1, <1>3, <1>5, ViewingKeeps
  <1>6. CASE Put(a, Local(a)) /\ UNCHANGED disk
    BY <1>2, <1>3, <1>6, ViewingKeeps
  <1>7. QED
    BY <1>4, <1>5, <1>6 DEF Restore

\* The server notices, or the app loses, a connection.
LEMMA CloseOldSeen ==
  ASSUME IInv, SeenInv, NEW a \in App, CloseOld(a)
  PROVE  SeenInv'
  <1>1. conns \in [Links -> Conns]
    BY DEF IInv, Typed
  <1>2. conns' = [conns EXCEPT ![<<a, Old>>] = Down] /\ UNCHANGED <<mem, disk, run, events, status, ops>>
    BY DEF CloseOld, Server
  <1>3. \A b \in App : conns'[<<b, Now>>] = conns[<<b, Now>>]
    BY <1>1, <1>2 DEF Links, Now, Old
  <1>4. \A b \in App : conns'[<<b, Old>>] = conns[<<b, Old>>] \/ conns'[<<b, Old>>] = Down
    BY <1>1, <1>2 DEF Links
  <1>5. \A b \in App : OwnWorks(b, Down.q)
    BY DownFields DEF OwnWorks
  <1>6. AppsOwn'
    <2>1. ASSUME NEW b \in App
          PROVE  /\ Mine(b, mem'[b]) /\ Mine(b, disk'[b])
                 /\ OwnWorks(b, conns'[<<b, Now>>].q) /\ OwnWorks(b, conns'[<<b, Old>>].q)
      <3>1. /\ Mine(b, mem[b]) /\ Mine(b, disk[b])
            /\ OwnWorks(b, conns[<<b, Now>>].q) /\ OwnWorks(b, conns[<<b, Old>>].q)
        BY DEF SeenInv, AppsOwn
      <3>2. QED
        BY <1>2, <1>3, <1>4, <1>5, <3>1
    <2>2. QED
      BY <2>1 DEF AppsOwn, Mine, OwnWorks
  <1>7. ASSUME NEW b \in App PROVE Seen(b)'
    <2>1. Local(b)' = Local(b)
      BY <1>2, <1>3, <1>7 DEF Local
    <2>2. Seen(b)
      BY <1>7 DEF SeenInv
    <2>3. QED
      BY <1>2, <1>3, <1>7, <2>1, <2>2, SeenStays
  <1>8. QED
    BY <1>6, <1>7 DEF SeenInv

LEMMA CutSeen ==
  ASSUME IInv, SeenInv, NEW a \in App, Cut(a), NEW m \in {mem[a], disk[a]}, mem' = [mem EXCEPT ![a] = m]
  PROVE  SeenInv'
  <1>1. /\ conns \in [Links -> Conns] /\ <<a, Now>> \in Links /\ <<a, Old>> \in Links /\ ops \in [App -> Nat]
        /\ disk \in [App -> States] /\ m \in States
    BY DEF IInv, Typed, Links
  <1>2. /\ conns' = [conns EXCEPT ![<<a, Now>>] = Down,
                            ![<<a, Old>>] = [conns[<<a, Now>>] EXCEPT !.q = InTransit(conns[<<a, Now>>].q)]]
        /\ run' = [run EXCEPT ![a] = Offline] /\ events' = [events EXCEPT ![a] = <<>>]
        /\ UNCHANGED <<disk, status, ops>>
    BY DEF Cut
  <1>3. Offline \in Runs /\ ~Offline.ready /\ Offline.shown = {}
    BY DEF Offline, Runs
  <1>4. PICK S : S = [m |-> m, r |-> Offline, q |-> <<>>, n |-> ops[a]]
    OBVIOUS
  <1>5. S \in Locals /\ S.m = m /\ S.r = Offline /\ S.q = <<>> /\ S.n = ops[a] /\ Range(S.q) = {}
    BY <1>1, <1>3, <1>4, None1 DEF Locals
  <1>6. Down.q = <<>> /\ ~Down.up /\ Down.refs = {} /\ Down.released = {} /\ Down.attached = {}
    BY DEF Down
  <1>7. View(a, S, {}, {})
    <2>1. Mine(a, m) /\ (Intact(m) => DOMAIN m.closes = {})
      BY DEF SeenInv, AppsOwn, Seen, Growing, Local
    <2>2. Growing(S, {})
      BY <1>5, <2>1, RisingFew DEF Growing
    <2>3. OnView(S, {}) /\ OwnWorks(a, S.q)
      BY <1>3, <1>5 DEF OnView, OwnWorks
    <2>4. QED
      BY <1>5, <2>1, <2>2, <2>3 DEF View
  <1>8. conns'[<<a, Now>>] = Down /\ conns'[<<a, Old>>] = [conns[<<a, Now>>] EXCEPT !.q = InTransit(conns[<<a, Now>>].q)]
    BY <1>1, <1>2 DEF Now, Old
  <1>9. \A b \in App \ {a} : \A v \in {Now, Old} : conns'[<<b, v>>] = conns[<<b, v>>]
    BY <1>1, <1>2 DEF Links
  <1>10. OwnWorks(a, conns'[<<a, Old>>].q)
    <2>1. conns[<<a, Now>>].q \in Seq(Works) /\ conns[<<a, Now>>] \in Conns
      BY <1>1 DEF Conns
    <2>2. Range(InTransit(conns[<<a, Now>>].q)) \subseteq Range(conns[<<a, Now>>].q)
      BY <2>1, InTransitOf
    <2>3. conns'[<<a, Old>>].q = InTransit(conns[<<a, Now>>].q)
      BY <1>8, <2>1 DEF Conns
    <2>4. OwnWorks(a, conns[<<a, Now>>].q)
      BY DEF SeenInv, AppsOwn
    <2>5. QED
      BY <2>2, <2>3, <2>4 DEF OwnWorks
  <1>11. mem' = [mem EXCEPT ![a] = S.m] /\ run' = [run EXCEPT ![a] = S.r] /\ ops' = [ops EXCEPT ![a] = S.n]
         /\ disk' = [disk EXCEPT ![a] = disk[a]]
    BY <1>1, <1>2, <1>5
  <1>12. Mine(a, disk[a]) /\ (Intact(disk[a]) => DOMAIN disk[a].closes = {})
    BY DEF SeenInv, AppsOwn, Seen
  <1>13. OnWay(S.m, <<>>, Down.attached)
    BY None1 DEF OnWay
  <1>14. View(a, S, Down.refs, Down.attached) /\ Down.q = S.q /\ (Down.up <=> S.r.ready) /\ S.r.shown = {}
    BY <1>3, <1>5, <1>6, <1>7
  <1>15. QED
    BY <1>2, <1>5, <1>6, <1>8, <1>9, <1>10, <1>11, <1>12, <1>13, <1>14, AppSeen

\* What is received by an app.
LEMMA ViewingLater ==
  ASSUME IInv, SeenInv, NEW a \in App, events[a] # <<>>
  PROVE  /\ Viewing(a, Local(a), Tail(events[a]))
         /\ Head(events[a]).k = "attached" /\ Intact(mem[a]) /\ status[Head(events[a]).s] = "live" =>
              <<Head(events[a]).p, Head(events[a]).s>> \in conns[<<a, Now>>].attached
  <1>1. PICK ev \in Seq(Events) : ev = events[a]
    BY LocalFits
  <1>2. Head(ev) \in Range(ev) /\ Range(Tail(ev)) \subseteq Range(ev)
    BY <1>1, TailOf
  <1>3. Viewing(a, Local(a), ev) /\ Local(a).m = mem[a]
    BY <1>1, ViewingFirst
  <1>4. Viewing(a, Local(a), Tail(ev))
    BY <1>2, <1>3 DEF Viewing, OnWay
  <1>5. Head(ev).k = "attached" /\ Intact(mem[a]) /\ status[Head(ev).s] = "live" =>
          <<Head(ev).p, Head(ev).s>> \in conns[<<a, Now>>].attached
    BY <1>2, <1>3 DEF Viewing, OnWay
  <1>6. QED
    BY <1>1, <1>4, <1>5

LEMMA CloseEndedView ==
  ASSUME NEW a \in App, NEW S, NEW ev, Viewing(a, S, ev), NEW rep, NEW ev2, NEW saved \in BOOLEAN,
         Going(a, S, rep, ev2, saved), NEW s
  PROVE  Viewing(a, CloseEnded(a, S, s, saved), ev)
  <1>1. CASE s \notin Shows(S.m)
    BY <1>1 DEF CloseEnded
  <1>2. CASE s \in Shows(S.m)
    <2>1. PICK P \in SUBSET Open(S.m) : P = {p \in Open(S.m) : S.m.session[p] = s}
      OBVIOUS
    <2>2. PICK A : A = [S EXCEPT !.m = RemovePanes(@, P)]
      OBVIOUS
    <2>3. FitsWith(a, S, rep, ev2) /\ PanesOf(S.q, rep, ev2)
      BY GoingPanes DEF Going
    <2>4. FitsWith(a, A, rep, ev2)
      BY <2>2, <2>3, RemovePanesFits
    <2>5. \A x \in A.m.cancels : <<a, x>> \in Fresh
      BY <2>4, CancelsFresh
    <2>6. Viewing(a, A, ev)
      BY <2>2, ViewingRemoves
    <2>7. PICK V : V = SyncVisible(A)
      OBVIOUS
    <2>8. Viewing(a, V, ev) /\ V.m = A.m
      BY <2>6, <2>7, CallsView
    <2>9. PICK T : T = DiscardPending(a, V, saved)
      OBVIOUS
    <2>10. Viewing(a, T, ev)
      BY <2>5, <2>8, <2>9, CallsView
    <2>11. CloseEnded(a, S, s, saved) = T
      BY <1>2, <2>1, <2>2, <2>7, <2>9 DEF CloseEnded
    <2>12. QED
      BY <2>10, <2>11
  <1>3. QED
    BY <1>1, <1>2

LEMMA ArrivedView ==
  ASSUME IInv, NEW a \in App, NEW ev, Viewing(a, Local(a), ev), NEW e
  PROVE  Viewing(a, Arrived(a, e), ev)
  <1>1. PICK L : L = Local(a)
    OBVIOUS
  <1>2. L \in Locals /\ L.m = mem[a] /\ L.r = run[a] /\ Viewing(a, L, ev)
    BY <1>1, LocalFits
  <1>3. PICK S : S = [L EXCEPT !.r.pending = @ \ {e.p}, !.r.detaching = @ \ {e.p}]
    OBVIOUS
  <1>4. S \in Locals /\ S.m = L.m /\ S.q = L.q /\ S.r.ready = L.r.ready /\ S.r.shown = L.r.shown
    BY <1>2, <1>3 DEF Locals, Runs
  <1>5. Viewing(a, S, ev)
    BY <1>2, <1>4, ViewingRuns
  <1>6. CASE e.p \notin run[a].detaching
    BY <1>1, <1>3, <1>5, <1>6 DEF Arrived
  <1>7. CASE e.p \in run[a].detaching
    <2>1. PICK R : R = [S EXCEPT !.r.refs = None]
      OBVIOUS
    <2>2. R \in Locals /\ R.m = S.m /\ R.q = S.q /\ R.r.ready = S.r.ready /\ R.r.shown = S.r.shown
      BY <1>4, <2>1 DEF Locals, Runs
    <2>3. Viewing(a, R, ev)
      BY <1>5, <2>2, ViewingRuns
    <2>4. Viewing(a, SyncReferences(R), ev)
      BY <2>3, CallsView
    <2>5. Arrived(a, e) = SyncReferences(R)
      BY <1>1, <1>3, <1>7, <2>1 DEF Arrived
    <2>6. QED
      BY <2>4, <2>5
  <1>8. QED
    BY <1>6, <1>7

LEMMA SettleView ==
  ASSUME NEW a \in App, NEW S, NEW ev, Viewing(a, S, ev), NEW rep, NEW ev2, NEW saved \in BOOLEAN,
         Going(a, S, rep, ev2, saved), S.m = mem[a],
         NEW e, e.p \in Pane, e.s \in Session, e.new \in BOOLEAN, AttachFits(a, mem[a], e)
  PROVE  Viewing(a, Settle(a, S, e, saved), ev)
  <1>1. S \in Locals /\ S.m \in States /\ mem[a] \in States
    BY GoingPanes, LocalTypes
  <1>2. PICK p \in Pane : p = e.p
    OBVIOUS
  <1>3. PICK s \in Session : s = e.s
    OBVIOUS
  <1>4. mem[a].at[p] # "new" /\ mem[a].session[p] \in {None, s} /\ s # None
    BY <1>2, <1>3, Constants DEF AttachFits
  <1>5. CASE mem[a].at[e.p] = "open"
    <2>1. PICK m : m = [S.m EXCEPT !.session[p] = s]
      OBVIOUS
    <2>2. /\ m = [at |-> S.m.at, session |-> [S.m.session EXCEPT ![p] = s], starting |-> S.m.starting,
                  cancels |-> S.m.cancels, closes |-> S.m.closes]
          /\ m \in States
      BY <1>1, <2>1, KnownState
    <2>3. PICK K : K = [S EXCEPT !.m = m]
      OBVIOUS
    <2>4. K \in Locals /\ K.m = m /\ K.r = S.r /\ K.q = S.q
      BY <1>1, <2>2, <2>3 DEF Locals
    <2>5. \A x \in Pane : m.session[x] = IF x = p THEN s ELSE S.m.session[x]
      BY <1>1, <2>2, StateFields
    <2>6. Mine(a, S.m) /\ (Intact(S.m) => DOMAIN S.m.closes = {})
      BY DEF Viewing, View, Growing
    <2>7. Mine(a, m) /\ (Intact(m) <=> Intact(S.m)) /\ m.closes = S.m.closes /\ m.at = S.m.at
      BY <2>2, <2>6 DEF Mine, Intact
    <2>8. Shows(S.m) \subseteq Shows(m)
      BY <1>4, <2>5, <2>7 DEF Shows, Open
    <2>9. \A x \in K.r.shown : S.m.session[x] # None => m.session[x] = S.m.session[x]
      <3>1. K.r.shown \subseteq Pane
        BY <2>4, LocalTypes DEF Runs
      <3>2. QED
        BY <1>4, <2>5, <3>1
    <2>10. Viewing(a, K, ev)
      BY <2>4, <2>6, <2>7, <2>8, <2>9, ViewingMoves
    <2>11. Viewing(a, SyncReferences(K), ev)
      BY <2>10, CallsView
    <2>12. K = [S EXCEPT !.m.session[e.p] = e.s]
      BY <1>1, <1>2, <1>3, <2>1, <2>3 DEF Locals
    <2>13. Settle(a, S, e, saved) = SyncReferences(K)
      BY <1>5, <2>12 DEF Settle
    <2>14. QED
      BY <2>11, <2>13
  <1>6. mem[a].at[e.p] # "open" => ~Intact(S.m)
    <2>1. mem[a].at[p] \in {"new", "open", "gone"}
      BY <1>1, StateFields
    <2>2. QED
      BY <1>2, <1>4, <2>1 DEF Intact
  <1>7. CASE mem[a].at[e.p] # "open" /\ e.new /\ e.p \notin run[a].detaching
    <2>1. PICK Q : Q = QueueDiscard(a, S, s)
      OBVIOUS
    <2>2. Viewing(a, Q, ev) /\ Q.m.cancels = S.m.cancels
      BY <1>6, <1>7, <2>1, ViewingQueues
    <2>3. \A x \in Q.m.cancels : <<a, x>> \in Fresh
      BY <2>2, CancelsFresh DEF Going
    <2>4. Viewing(a, DiscardPending(a, Q, TRUE), ev)
      BY <2>2, <2>3, CallsView
    <2>5. Settle(a, S, e, saved) = IF saved THEN DiscardPending(a, Q, TRUE) ELSE Q
      BY <1>3, <1>7, <2>1 DEF Settle, Saves
    <2>6. QED
      BY <2>2, <2>4, <2>5
  <1>8. CASE mem[a].at[e.p] # "open" /\ ~(e.new /\ e.p \notin run[a].detaching) /\ e.k = "attached"
    <2>1. PICK w \in Works : w = [k |-> "detach", p |-> p, s |-> s]
      BY DEF Works
    <2>2. PICK q \in Seq(Works) : q = <<w>> /\ Range(q) = {w}
      BY One
    <2>3. PICK R, A : R = conns[<<a, Now>>].refs /\ A = conns[<<a, Now>>].attached
      OBVIOUS
    <2>4. View(a, S, R, A)
      BY <2>3 DEF Viewing
    <2>5. Rising(q) /\ \A x \in Range(q) : x.k = "detach" /\ ~Intact(S.m)
      BY <1>6, <1>8, <2>1, <2>2, RisingFew
    <2>6. PICK T : T = Send(S, q)
      OBVIOUS
    <2>7. View(a, T, R, A) /\ T \in Locals
      BY <1>1, <2>4, <2>5, <2>6, AsksView
    <2>8. T.m = S.m /\ T.r = S.r
      BY <1>1, <2>6, SendType
    <2>9. Viewing(a, T, ev)
      BY <2>3, <2>7, <2>8 DEF Viewing
    <2>10. Settle(a, S, e, saved) = T
      BY <1>2, <1>3, <1>8, <2>1, <2>2, <2>6 DEF Settle, Saves
    <2>11. QED
      BY <2>9, <2>10
  <1>9. CASE mem[a].at[e.p] # "open" /\ ~(e.new /\ e.p \notin run[a].detaching) /\ e.k # "attached"
    BY <1>9 DEF Settle, Saves
  <1>10. QED
    BY <1>5, <1>7, <1>8, <1>9

\* A pane is on the screen once the app is told that it is attached.
LEMMA AttachedView ==
  ASSUME IInv, SeenInv, NEW a \in App, events[a] # <<>>, NEW e, e = Head(events[a]), e.k = "attached",
         NEW saved \in BOOLEAN
  PROVE  Viewing(a, Attached(a, e, saved), Tail(events[a]))
  <1>2. PICK ev : ev = Tail(events[a])
    OBVIOUS
  <1>3. PICK rep : rep = replies[a]
    OBVIOUS
  <1>4. /\ e \in Events /\ EventFits(a, mem[a], e) /\ e.k = "attached" /\ run[a].listed = None
        /\ Going(a, Local(a), rep, ev, TRUE)
    BY <1>2, <1>3, Consumed
  <1>5. e.p \in Pane /\ e.s \in Session /\ e.new \in BOOLEAN /\ AttachFits(a, mem[a], e)
    BY <1>4 DEF Events, EventFits
  <1>6. Viewing(a, Local(a), ev)
    BY <1>2, ViewingLater
  <1>7. PICK A : A = Arrived(a, e)
    OBVIOUS
  <1>8. Going(a, A, rep, ev, saved) /\ A.m = mem[a] /\ A.r.listed = None
    BY <1>4, <1>7, GoingEither, ArrivedGoes
  <1>9. Viewing(a, A, ev)
    BY <1>6, <1>7, ArrivedView
  <1>10. PICK S : S = Settle(a, A, e, saved)
    OBVIOUS
  <1>11. Viewing(a, S, ev) /\ (mem[a].at[e.p] = "open" => S.m.session[e.p] = e.s)
    BY <1>5, <1>8, <1>9, <1>10, SettleView, SettleGoes
  <1>12. PICK T : T = IF mem[a].at[e.p] = "open" THEN [S EXCEPT !.r.shown = @ \cup {e.p}] ELSE S
    OBVIOUS
  <1>13. Viewing(a, T, ev)
    <2>1. CASE mem[a].at[e.p] # "open"
      BY <1>11, <1>12, <2>1
    <2>2. CASE mem[a].at[e.p] = "open"
      <3>1. PICK R, C : R = conns[<<a, Now>>].refs /\ C = conns[<<a, Now>>].attached
        OBVIOUS
      <3>2. S \in Locals /\ View(a, S, R, C) /\ (Intact(S.m) => Intact(mem[a]))
        BY <1>11, <3>1 DEF Viewing
      <3>3. T \in Locals /\ T.m = S.m /\ T.q = S.q /\ T.r.ready = S.r.ready /\ T.r.shown = S.r.shown \cup {e.p}
        BY <1>5, <1>12, <2>2, <3>2 DEF Locals, Runs
      <3>4. S.m.at[e.p] # "new"
        <4>1. S = SyncReferences([A EXCEPT !.m.session[e.p] = e.s])
          BY <1>8, <1>10, <2>2 DEF Settle
        <4>2. PICK K : K = [A EXCEPT !.m.session[e.p] = e.s]
          OBVIOUS
        <4>3. A \in Locals
          BY <1>8, GoingPanes
        <4>4. K.m.at = A.m.at
          BY <4>2, <4>3 DEF Locals, States
        <4>5. S.m = K.m
          BY <4>1, <4>2 DEF SyncReferences, Send
        <4>6. QED
          BY <1>8, <2>2, <4>4, <4>5
      <3>5. S.m.session[e.p] # None
        BY <1>5, <1>11, <2>2, Constants
      <3>6. Intact(S.m) /\ status[S.m.session[e.p]] = "live" => <<e.p, S.m.session[e.p]>> \in C
        BY <1>4, <1>11, <2>2, <3>1, <3>2, ViewingLater
      <3>7. OnView(T, C)
        BY <3>2, <3>3, <3>4, <3>5, <3>6 DEF View, OnView
      <3>8. View(a, T, R, C)
        BY <3>2, <3>3, <3>7 DEF View, Growing
      <3>9. S.r.ready
        <4>1. S.r.ready = run[a].ready
          BY <1>11 DEF Viewing
        <4>2. run[a].ready
          BY LocalFits DEF FitsWith, Fits
        <4>3. QED
          BY <4>1, <4>2
      <3>10. QED
        BY <1>11, <3>1, <3>3, <3>8, <3>9 DEF Viewing
    <2>3. QED
      BY <2>1, <2>2
  <1>14. Attached(a, e, saved) = T
    BY <1>7, <1>10, <1>12 DEF Attached
  <1>15. QED
    BY <1>2, <1>13, <1>14

LEMMA AttachedSeen ==
  ASSUME IInv, SeenInv, NEW a \in App, events[a] # <<>>, Head(events[a]).k = "attached",
         ReceiveAttached(a, Head(events[a])), events' = [events EXCEPT ![a] = Tail(@)], status' = status
  PROVE  SeenInv'
  <1>1. PICK e : e = Head(events[a])
    OBVIOUS
  <1>2. PICK ev : ev = Tail(events[a])
    OBVIOUS
  <1>3. Viewing(a, Attached(a, e, TRUE), ev) /\ Viewing(a, Attached(a, e, FALSE), ev)
    BY <1>1, <1>2, AttachedView
  <1>4. events' = [events EXCEPT ![a] = ev]
    BY <1>2
  <1>5. CASE Saving(a, Attached(a, e, TRUE), Attached(a, e, FALSE))
    BY <1>3, <1>4, <1>5, SavingViews
  <1>6. CASE Quietly(a, Attached(a, e, TRUE))
    BY <1>3, <1>4, <1>6, UnsavedViews
  <1>7. QED
    BY <1>1, <1>5, <1>6 DEF ReceiveAttached

LEMMA EndedSeen ==
  ASSUME IInv, SeenInv, NEW a \in App, events[a] # <<>>, Head(events[a]).k = "ended",
         ReceiveEnded(a, Head(events[a])), events' = [events EXCEPT ![a] = Tail(@)], status' = status
  PROVE  SeenInv'
  <1>1. PICK s : s = Head(events[a]).s
    OBVIOUS
  <1>2. Going(a, Local(a), replies[a], Tail(events[a]), TRUE) /\ Viewing(a, Local(a), Tail(events[a]))
    BY Consumed, ViewingLater
  <1>3. /\ Viewing(a, CloseEnded(a, Local(a), s, TRUE), Tail(events[a]))
        /\ Viewing(a, CloseEnded(a, Local(a), s, FALSE), Tail(events[a]))
    BY <1>2, GoingEither, CloseEndedView
  <1>4. events' = [events EXCEPT ![a] = Tail(events[a])]
    OBVIOUS
  <1>5. CASE Saving(a, CloseEnded(a, Local(a), s, TRUE), CloseEnded(a, Local(a), s, FALSE))
    BY <1>3, <1>4, <1>5, SavingViews
  <1>6. CASE Quietly(a, Local(a))
    BY <1>2, <1>4, <1>6, UnsavedViews
  <1>7. QED
    BY <1>1, <1>5, <1>6 DEF ReceiveEnded

LEMMA AttachFailedView ==
  ASSUME IInv, SeenInv, NEW a \in App, replies[a] # <<>>, NEW e, e = Head(replies[a]), e.k = "failed",
         NEW saved \in BOOLEAN
  PROVE  Viewing(a, AttachFailed(a, e, saved), events[a])
  <1>1. PICK rep : rep = Tail(replies[a])
    OBVIOUS
  <1>2. PICK ev : ev = events[a]
    OBVIOUS
  <1>3. /\ e \in Replies /\ ReplyFits(a, mem[a], e) /\ e.k = "failed" /\ run[a].listed = None
        /\ Going(a, Local(a), rep, ev, TRUE)
    BY <1>1, <1>2, Consumed
  <1>4. e.p \in Pane /\ e.s \in Session \cup {None} /\ e.new \in BOOLEAN /\ AttachFits(a, mem[a], e)
    BY <1>3 DEF Replies, ReplyFits
  <1>5. Viewing(a, Local(a), ev)
    BY <1>2, ViewingFirst
  <1>6. PICK A : A = Arrived(a, e)
    OBVIOUS
  <1>7. Going(a, A, rep, ev, saved) /\ A.m = mem[a] /\ A.r.listed = None
    BY <1>3, <1>6, GoingEither, ArrivedGoes
  <1>8. Viewing(a, A, ev)
    BY <1>5, <1>6, ArrivedView
  <1>9. PICK S : S = IF e.s = None THEN A ELSE Settle(a, A, e, saved)
    OBVIOUS
  <1>10. Viewing(a, S, ev) /\ Going(a, S, rep, ev, saved)
    <2>1. CASE e.s = None
      BY <1>7, <1>8, <1>9, <2>1
    <2>2. CASE e.s # None
      <3>1. e.s \in Session /\ S = Settle(a, A, e, saved)
        BY <1>4, <1>9, <2>2
      <3>2. QED
        BY <1>4, <1>7, <1>8, <3>1, SettleView, SettleGoes
    <2>3. QED
      BY <2>1, <2>2
  <1>11. PICK T : T = IF e.missing /\ mem[a].at[e.p] = "open" /\ S.m.session[e.p] # None
                      THEN CloseEnded(a, S, S.m.session[e.p], saved) ELSE S
    OBVIOUS
  <1>12. Viewing(a, T, ev)
    BY <1>10, <1>11, CloseEndedView
  <1>13. AttachFailed(a, e, saved) = T
    BY <1>6, <1>9, <1>11 DEF AttachFailed
  <1>14. QED
    BY <1>2, <1>12, <1>13

LEMMA AttachFailedSeen ==
  ASSUME IInv, SeenInv, NEW a \in App, replies[a] # <<>>, Head(replies[a]).k = "failed",
         ReceiveAttachFailed(a, Head(replies[a])), UNCHANGED <<events, status>>
  PROVE  SeenInv'
  <1>1. PICK e : e = Head(replies[a])
    OBVIOUS
  <1>2. Viewing(a, AttachFailed(a, e, TRUE), events[a]) /\ Viewing(a, AttachFailed(a, e, FALSE), events[a])
    BY <1>1, AttachFailedView
  <1>3. events' = [events EXCEPT ![a] = events[a]]
    BY DEF IInv, Typed
  <1>4. CASE Saving(a, AttachFailed(a, e, TRUE), AttachFailed(a, e, FALSE))
    BY <1>2, <1>3, <1>4, SavingViews
  <1>5. CASE Quietly(a, AttachFailed(a, e, TRUE))
    BY <1>2, <1>3, <1>5, UnsavedViews
  <1>6. QED
    BY <1>1, <1>4, <1>5 DEF ReceiveAttachFailed

LEMMA DiscardedSeen ==
  ASSUME IInv, SeenInv, NEW a \in App, NEW e, ReceiveDiscarded(a, e), UNCHANGED <<events, status>>
  PROVE  SeenInv'
  <1>1. PICK L : L = Local(a)
    OBVIOUS
  <1>2. Viewing(a, L, events[a]) /\ L \in Locals /\ L.m = mem[a] /\ mem[a] \in States
    BY <1>1, ViewingFirst, LocalFits
  <1>3. PICK S : S = [L EXCEPT !.r.discarding = @ \ {e.s}]
    OBVIOUS
  <1>4. S \in Locals /\ S.m = L.m /\ S.q = L.q /\ S.r.ready = L.r.ready /\ S.r.shown = L.r.shown
    BY <1>2, <1>3 DEF Locals, Runs
  <1>5. Viewing(a, S, events[a])
    BY <1>2, <1>4, ViewingRuns
  <1>6. PICK c : c = Restrict(mem[a].closes, DOMAIN mem[a].closes \ {e.s})
    OBVIOUS
  <1>7. c \in Closes /\ DOMAIN c \subseteq DOMAIN mem[a].closes /\ \A x \in DOMAIN c : c[x] = mem[a].closes[x]
    <2>1. PICK f \in Closes : f = mem[a].closes
      BY <1>2, StateFields
    <2>2. DOMAIN f \subseteq Session /\ \A x \in DOMAIN f : f[x] \in App \X Nat
      BY TypeOfCloses
    <2>3. c = [x \in DOMAIN f \ {e.s} |-> f[x]]
      BY <1>6, <2>1 DEF Restrict
    <2>4. c \in [DOMAIN f \ {e.s} -> App \X Nat]
      BY <2>2, <2>3
    <2>5. QED
      BY <2>1, <2>2, <2>3, <2>4 DEF Closes
  <1>8. PICK m : m = [mem[a] EXCEPT !.closes = c]
    OBVIOUS
  <1>9. /\ m = [at |-> mem[a].at, session |-> mem[a].session, starting |-> mem[a].starting,
                cancels |-> mem[a].cancels, closes |-> c]
        /\ m \in States
    BY <1>2, <1>7, <1>8, ClosesState
  <1>10. PICK T : T = [S EXCEPT !.m = m]
    OBVIOUS
  <1>11. T \in Locals /\ T.m = m /\ T.r = S.r /\ T.q = S.q
    BY <1>4, <1>9, <1>10 DEF Locals
  <1>12. Viewing(a, T, events[a])
    <2>1. T.m.at = S.m.at /\ T.m.session = S.m.session /\ DOMAIN T.m.closes \subseteq DOMAIN S.m.closes
          /\ \A x \in DOMAIN T.m.closes : T.m.closes[x] = S.m.closes[x]
      BY <1>2, <1>4, <1>7, <1>9, <1>11
    <2>2. QED
      BY <1>5, <1>11, <2>1, ViewingRuns
  <1>13. Saving(a, T, S)
    <2>1. T = [S EXCEPT !.m.closes = Restrict(@, DOMAIN @ \ {e.s})]
      BY <1>2, <1>4, <1>6, <1>8, <1>10 DEF Locals
    <2>2. QED
      BY <1>1, <1>3, <2>1 DEF ReceiveDiscarded
  <1>14. events' = [events EXCEPT ![a] = events[a]]
    BY DEF IInv, Typed
  <1>15. QED
    BY <1>5, <1>12, <1>13, <1>14, SavingViews

LEMMA CancelledSeen ==
  ASSUME IInv, SeenInv, NEW a \in App, NEW e, ReceiveCancelled(a, e), UNCHANGED <<events, status>>
  PROVE  SeenInv'
  <1>1. PICK L : L = Local(a)
    OBVIOUS
  <1>2. Viewing(a, L, events[a]) /\ L \in Locals /\ L.m = mem[a] /\ mem[a] \in States
    BY <1>1, ViewingFirst, LocalFits
  <1>3. PICK p : p = e.s[2]
    OBVIOUS
  <1>4. PICK S : S = [L EXCEPT !.r.cancelling = @ \ {p}]
    OBVIOUS
  <1>5. S \in Locals /\ S.m = L.m /\ S.q = L.q /\ S.r.ready = L.r.ready /\ S.r.shown = L.r.shown
    BY <1>2, <1>4 DEF Locals, Runs
  <1>6. Viewing(a, S, events[a])
    BY <1>2, <1>5, ViewingRuns
  <1>7. PICK m : m = [mem[a] EXCEPT !.cancels = @ \ {p}]
    OBVIOUS
  <1>8. /\ m = [at |-> mem[a].at, session |-> mem[a].session, starting |-> mem[a].starting,
                cancels |-> mem[a].cancels \ {p}, closes |-> mem[a].closes]
        /\ m \in States
    BY <1>2, <1>7, CancelsState
  <1>9. PICK T : T = [S EXCEPT !.m = m]
    OBVIOUS
  <1>10. T \in Locals /\ T.m = m /\ T.r = S.r /\ T.q = S.q
    BY <1>5, <1>8, <1>9 DEF Locals
  <1>11. Viewing(a, T, events[a])
    <2>1. T.m.at = S.m.at /\ T.m.session = S.m.session /\ T.m.closes = S.m.closes
      BY <1>2, <1>5, <1>8, <1>10
    <2>2. QED
      BY <1>6, <1>10, <2>1, ViewingRuns
  <1>12. Saving(a, T, S)
    <2>1. T = [S EXCEPT !.m.cancels = @ \ {p}]
      BY <1>2, <1>5, <1>7, <1>9 DEF Locals
    <2>2. QED
      BY <1>1, <1>3, <1>4, <2>1 DEF ReceiveCancelled
  <1>13. events' = [events EXCEPT ![a] = events[a]]
    BY DEF IInv, Typed
  <1>14. QED
    BY <1>6, <1>11, <1>12, <1>13, SavingViews

LEMMA ReceiveSeen ==
  ASSUME IInv, SeenInv, NEW a \in App, Receive(a)
  PROVE  SeenInv'
  <1>1. status' = status
    BY DEF Receive, Server
  <1>2. CASE replies[a] # <<>> /\ UNCHANGED events
             /\ Head(replies[a]).k = "failed" /\ ReceiveAttachFailed(a, Head(replies[a]))
    BY <1>1, <1>2, AttachFailedSeen
  <1>3. CASE UNCHANGED events /\ ReceiveDiscarded(a, Head(replies[a]))
    BY <1>1, <1>3, DiscardedSeen
  <1>4. CASE UNCHANGED events /\ ReceiveCancelled(a, Head(replies[a]))
    BY <1>1, <1>4, CancelledSeen
  <1>5. CASE events[a] # <<>> /\ events' = [events EXCEPT ![a] = Tail(@)]
             /\ Head(events[a]).k = "attached" /\ ReceiveAttached(a, Head(events[a]))
    BY <1>1, <1>5, AttachedSeen
  <1>6. CASE events[a] # <<>> /\ events' = [events EXCEPT ![a] = Tail(@)]
             /\ Head(events[a]).k = "ended" /\ ReceiveEnded(a, Head(events[a]))
    BY <1>1, <1>6, EndedSeen
  <1>7. QED
    BY <1>2, <1>3, <1>4, <1>5, <1>6 DEF Receive
-----------------------------------------------------------------------------
(* The server and what apps show *)

\* A connection and the events of its app that leave what the app shows as it is seen.
Unhurt(a, d) ==
  /\ Rising(d.q) /\ d.released = {} /\ d.refs \subseteq Shows(mem[a])
  /\ \A w \in Range(d.q) :
       /\ w.k \notin {"detach", "discard"}
       /\ w.k = "refs" => d.refs \subseteq w.set /\ w.set \subseteq Shows(mem[a])

Tended(a, d, ev) ==
  LET c == conns[<<a, Now>>] IN
    /\ d.up = c.up /\ OwnWorks(a, d.q)
    /\ Intact(mem[a]) =>
         /\ Unhurt(a, d)
         /\ \A x \in c.attached : x[2] \in Session /\ status'[x[2]] = "live" => x \in d.attached
         /\ \A e \in Range(ev) : e.k = "attached" /\ status'[e.s] = "live" =>
              e \in Range(events[a]) \/ <<e.p, e.s>> \in d.attached

AllTended(cs) == \A a \in App : Tended(a, cs[<<a, Now>>], events[a]) /\ OwnWorks(a, cs[<<a, Old>>].q)

NoneRevives == \A s \in Session : status'[s] = "live" => status[s] \in {"none", "live"}

LEMMA ServerSeen ==
  ASSUME IInv, SeenInv, UNCHANGED <<mem, disk, run, ops>>, NoneRevives,
         \A a \in App : Tended(a, conns'[<<a, Now>>], events'[a]) /\ OwnWorks(a, conns'[<<a, Old>>].q)
  PROVE  SeenInv'
  <1>1. AppsOwn'
    <2>1. ASSUME NEW a \in App PROVE \A v \in {Now, Old} : OwnWorks(a, conns'[<<a, v>>].q)
      BY DEF Tended
    <2>2. QED
      BY <2>1 DEF SeenInv, AppsOwn, Mine, OwnWorks
  <1>2. ASSUME NEW a \in App PROVE Seen(a)'
    <2>1. PICK c, d, m : c = conns[<<a, Now>>] /\ d = conns'[<<a, Now>>] /\ m = mem[a]
      OBVIOUS
    <2>2. /\ mem'[a] = m /\ run'[a] = run[a] /\ disk'[a] = disk[a] /\ m \in States /\ run[a] \in Runs
          /\ StateFits(a, m) /\ Tended(a, d, events'[a]) /\ events[a] \in Seq(Events)
          /\ \A e \in Range(events[a]) : EventFits(a, m, e)
      BY <2>1, LocalFits DEF IInv, AppsFit, Fits, MessagesFit
    <2>3. /\ run[a].ready <=> c.up
          /\ run[a].ready \/ run[a].shown = {}
          /\ Growing(Local(a), c.refs) /\ OnView(Local(a), c.attached) /\ OnWay(m, events[a], c.attached)
          /\ Intact(disk[a]) => DOMAIN disk[a].closes = {}
      BY <2>1 DEF SeenInv, Seen
    <2>4. Local(a).m = m /\ Local(a).r = run[a]
      BY <2>1, LocalFits
    <2>5. PICK S : S = [m |-> m, r |-> run[a], q |-> d.q, n |-> ops[a]]
      OBVIOUS
    <2>6. S.m = m /\ S.r = run[a] /\ S.q = d.q /\ Local(a)' = S
      BY <2>1, <2>2, <2>5 DEF Local
    <2>7. Growing(S, d.refs)
      BY <2>2, <2>3, <2>4, <2>6 DEF Growing, Tended, Unhurt, Intact, Shows, Open
    <2>8. \A s \in Session : status[s] # "none" /\ status'[s] = "live" => status[s] = "live"
      BY DEF NoneRevives
    <2>9. ASSUME NEW p \in run[a].shown
          PROVE  /\ m.at[p] # "new"
                 /\ m.at[p] = "open" =>
                      /\ m.session[p] # None
                      /\ Intact(m) /\ status'[m.session[p]] = "live" => <<p, m.session[p]>> \in d.attached
      <3>1. p \in Pane /\ m.session[p] \in Session \cup {None}
        BY <2>2, StateFields DEF Runs
      <3>2. /\ m.at[p] # "new"
            /\ m.at[p] = "open" =>
                 /\ m.session[p] # None
                 /\ Intact(m) /\ status[m.session[p]] = "live" => <<p, m.session[p]>> \in c.attached
        BY <2>3, <2>4 DEF OnView
      <3>3. ASSUME m.at[p] = "open", Intact(m), status'[m.session[p]] = "live"
            PROVE  <<p, m.session[p]>> \in d.attached
        <4>1. m.session[p] \in Session /\ status[m.session[p]] # "none"
          BY <2>2, <3>1, <3>2, <3>3 DEF StateFits
        <4>2. <<p, m.session[p]>> \in c.attached
          BY <2>8, <3>2, <3>3, <4>1
        <4>3. QED
          BY <2>1, <2>2, <3>3, <4>1, <4>2 DEF Tended
      <3>4. QED
        BY <3>2, <3>3
    <2>10. OnView(S, d.attached)'
      BY <2>6, <2>9 DEF OnView, Intact
    <2>11. ASSUME Intact(m), NEW e \in Range(events'[a]), e.k = "attached", status'[e.s] = "live"
           PROVE  <<e.p, e.s>> \in d.attached
      <3>1. CASE e \notin Range(events[a])
        BY <2>1, <2>2, <2>11, <3>1 DEF Tended
      <3>2. CASE e \in Range(events[a])
        <4>1. e \in Events
          BY <2>2, <3>2, ElementsOf
        <4>2. e.s \in Session /\ e.s # None
          BY <2>11, <4>1, Constants DEF Events
        <4>3. status[e.s] # "none"
          BY <2>2, <2>11, <3>2, <4>2 DEF EventFits, AttachFits
        <4>4. <<e.p, e.s>> \in c.attached
          BY <2>3, <2>8, <2>11, <3>2, <4>2, <4>3 DEF OnWay
        <4>5. QED
          BY <2>1, <2>2, <2>11, <4>2, <4>4 DEF Tended
      <3>3. QED
        BY <3>1, <3>2
    <2>12. OnWay(m, events[a], d.attached)'
      BY <2>1, <2>2, <2>11 DEF OnWay, Intact
    <2>13. (run'[a].ready <=> d.up) /\ (Intact(m) => d.released = {})
      BY <2>1, <2>2, <2>3 DEF Tended, Unhurt
    <2> DEFINE c1 == conns[<<a, Now>>]
    <2>14. Growing(Local(a), c1.refs)'
      BY <2>1, <2>6, <2>7 DEF Growing, Intact, Shows, Open, Rising
    <2>15. OnView(Local(a), c1.attached)'
      BY <2>1, <2>6, <2>10 DEF OnView, Intact
    <2>16. OnWay(mem[a], events[a], c1.attached)'
      BY <2>1, <2>2, <2>12 DEF OnWay, Intact
    <2>17. (Intact(mem[a]) => c1.released = {})' /\ (Intact(disk[a]) => DOMAIN disk[a].closes = {})'
           /\ (run[a].ready <=> c1.up)' /\ (run[a].ready \/ run[a].shown = {})'
      BY <2>1, <2>2, <2>3, <2>13 DEF Intact
    <2>18. QED
      BY <2>14, <2>15, <2>16, <2>17 DEF Seen
  <1>3. QED
    BY <1>1, <1>2 DEF SeenInv

\* A connection as it is.
LEMMA AsItWas ==
  ASSUME IInv, SeenInv, NEW a \in App
  PROVE  Tended(a, conns[<<a, Now>>], events[a]) /\ OwnWorks(a, conns[<<a, Old>>].q)
  <1>1. OwnWorks(a, conns[<<a, Now>>].q) /\ OwnWorks(a, conns[<<a, Old>>].q)
    BY DEF SeenInv, AppsOwn
  <1>2. Growing(Local(a), conns[<<a, Now>>].refs) /\ (Intact(mem[a]) => conns[<<a, Now>>].released = {})
    BY DEF SeenInv, Seen
  <1>3. Intact(mem[a]) => Unhurt(a, conns[<<a, Now>>])
    BY <1>2, LocalFits DEF Growing, Unhurt
  <1>4. QED
    BY <1>1, <1>3 DEF Tended

\* One link changes.
LEMMA LinkTended ==
  ASSUME IInv, SeenInv, NEW b \in App, NEW v \in {Now, Old}, NEW d, NEW cs, cs = [conns EXCEPT ![<<b, v>>] = d],
         OwnWorks(b, d.q), v = Now => Tended(b, d, events[b])
  PROVE  AllTended(cs)
  <1>1. conns \in [Links -> Conns] /\ Now # Old /\ \A a \in App : <<a, Now>> \in Links /\ <<a, Old>> \in Links
    BY DEF IInv, Typed, Links, Now, Old
  <1>2. ASSUME NEW a \in App PROVE Tended(a, cs[<<a, Now>>], events[a]) /\ OwnWorks(a, cs[<<a, Old>>].q)
    <2>1. Tended(a, conns[<<a, Now>>], events[a]) /\ OwnWorks(a, conns[<<a, Old>>].q)
      BY AsItWas
    <2>2. CASE a # b
      <3>1. cs[<<a, Now>>] = conns[<<a, Now>>] /\ cs[<<a, Old>>] = conns[<<a, Old>>]
        BY <1>1, <2>2
      <3>2. QED
        BY <2>1, <3>1
    <2>3. CASE a = b /\ v = Now
      <3>1. cs[<<a, Now>>] = d /\ cs[<<a, Old>>] = conns[<<a, Old>>]
        BY <1>1, <2>3
      <3>2. QED
        BY <2>1, <2>3, <3>1
    <2>4. CASE a = b /\ v = Old
      <3>1. cs[<<a, Now>>] = conns[<<a, Now>>] /\ cs[<<a, Old>>] = d
        BY <1>1, <2>4
      <3>2. QED
        BY <2>1, <2>4, <3>1
    <2>5. QED
      BY <2>2, <2>3, <2>4
  <1>3. QED
    BY <1>2 DEF AllTended

\* What is left of a queue.
LEMMA TailTended ==
  ASSUME IInv, SeenInv, NEW b \in App, NEW v \in {Now, Old}, conns[<<b, v>>].up, conns[<<b, v>>].q # <<>>
  PROVE  /\ OwnWorks(b, Tail(conns[<<b, v>>].q))
         /\ v = Now => Tended(b, [conns[<<b, v>>] EXCEPT !.q = Tail(conns[<<b, v>>].q)], events[b])
  <1>1. PICK c \in Conns : c = conns[<<b, v>>]
    BY HeadOf
  <1>2. PICK q \in Seq(Works) : q = c.q
    BY <1>1, ConnFields
  <1>3. PICK t \in Seq(Works) : t = Tail(q) /\ Range(t) \subseteq Range(q)
    BY <1>1, <1>2, TailOf
  <1>4. OwnWorks(b, q)
    BY <1>1, <1>2 DEF SeenInv, AppsOwn
  <1>5. OwnWorks(b, t)
    BY <1>3, <1>4 DEF OwnWorks
  <1>6. PICK d : d = [c EXCEPT !.q = t]
    OBVIOUS
  <1>7. /\ d.up = c.up /\ d.q = t /\ d.refs = c.refs /\ d.released = c.released /\ d.attached = c.attached
    BY <1>6, ConnFields
  <1>8. ASSUME v = Now PROVE Tended(b, d, events[b])
    <2>1. Tended(b, c, events[b])
      BY <1>1, <1>8, AsItWas
    <2>2. ASSUME Intact(mem[b]) PROVE Unhurt(b, d)
      <3>1. Unhurt(b, c)
        BY <2>1, <2>2 DEF Tended
      <3>2. Rising(t)
        BY <1>1, <1>2, <1>3, <3>1, RisingTail DEF Unhurt
      <3>3. QED
        BY <1>2, <1>3, <1>7, <3>1, <3>2 DEF Unhurt
    <2>3. QED
      BY <1>1, <1>5, <1>7, <1>8, <2>1, <2>2 DEF Tended
  <1>9. QED
    BY <1>1, <1>2, <1>3, <1>5, <1>6, <1>8

LEMMA ServedTended ==
  ASSUME IInv, SeenInv, NEW b \in App, NEW v \in {Now, Old}, conns[<<b, v>>].up, conns[<<b, v>>].q # <<>>
  PROVE  AllTended(Served(<<b, v>>))
  <1>1. PICK d : d = [conns[<<b, v>>] EXCEPT !.q = Tail(conns[<<b, v>>].q)]
    OBVIOUS
  <1>2. conns[<<b, v>>] \in Conns /\ <<b, v>> \in Links /\ conns \in [Links -> Conns]
    BY HeadOf DEF IInv, Typed
  <1>3. d.q = Tail(conns[<<b, v>>].q)
    BY <1>1, <1>2 DEF Conns
  <1>4. OwnWorks(b, d.q) /\ (v = Now => Tended(b, d, events[b]))
    BY <1>1, <1>3, TailTended
  <1>5. PICK cs : cs = [conns EXCEPT ![<<b, v>>] = d]
    OBVIOUS
  <1>6. AllTended(cs)
    BY <1>4, <1>5, LinkTended
  <1>7. cs = Served(<<b, v>>)
    BY <1>1, <1>5 DEF Served
  <1>8. QED
    BY <1>6, <1>7

\* A session that ends takes only what is its own.
LEMMA ForgetTended ==
  ASSUME NEW a \in App, NEW d \in Conns, NEW ev, Tended(a, d, ev), NEW s \in Session, status'[s] # "live"
  PROVE  Tended(a, Forget(d, s), ev)
  <1>1. PICK f : f = Forget(d, s)
    OBVIOUS
  <1>2. /\ f.up = d.up /\ f.q = d.q /\ f.released = d.released
        /\ f.refs = d.refs \ {s} /\ f.attached = {x \in d.attached : x[2] # s}
    BY <1>1, ConnFields DEF Forget
  <1>3. \A x \in d.attached : status'[x[2]] = "live" => x \in f.attached
    BY <1>2
  <1>4. \A p, t : <<p, t>>[2] = t
    OBVIOUS
  <1>5. Unhurt(a, d) => Unhurt(a, f)
    BY <1>2 DEF Unhurt
  <1>6. QED
    BY <1>1, <1>2, <1>3, <1>4, <1>5 DEF Tended

LEMMA EndsSeen ==
  ASSUME IInv, SeenInv, UNCHANGED <<mem, disk, run, ops>>, NEW cs \in [Links -> Conns], AllTended(cs),
         NEW s \in Session, NEW z \in {"ended", "gone"}, status' = [status EXCEPT ![s] = z],
         conns' = EndOn(cs, s), TellEnded(s)
  PROVE  SeenInv'
  <1>1. status'[s] # "live" /\ NoneRevives
    BY DEF IInv, Typed, NoneRevives
  <1>2. \A l \in Links : conns'[l] = IF cs[l].up THEN Forget(cs[l], s) ELSE cs[l]
    BY DEF EndOn
  <1>3. \A l \in Links : conns'[l].q = cs[l].q
    BY EndOnFields
  <1>4. ASSUME NEW a \in App
        PROVE  Tended(a, conns'[<<a, Now>>], events'[a]) /\ OwnWorks(a, conns'[<<a, Old>>].q)
    <2>1. <<a, Now>> \in Links /\ <<a, Old>> \in Links
      BY DEF Links
    <2>2. Tended(a, cs[<<a, Now>>], events[a]) /\ OwnWorks(a, cs[<<a, Old>>].q)
      BY DEF AllTended
    <2>3. Tended(a, conns'[<<a, Now>>], events[a])
      BY <1>1, <1>2, <2>1, <2>2, ForgetTended
    <2>4. PICK e \in Events : e = [k |-> "ended", s |-> s]
      BY DEF Events
    <2>5. events'[a] = events[a] \/ events'[a] = Append(events[a], e)
      BY <2>4 DEF TellEnded
    <2>6. events[a] \in Seq(Events)
      BY LocalFits
    <2>7. Range(events'[a]) \subseteq Range(events[a]) \cup {e} /\ e.k # "attached"
      BY <2>4, <2>5, <2>6, Appended
    <2>8. Tended(a, conns'[<<a, Now>>], events'[a])
      BY <2>3, <2>7 DEF Tended
    <2>9. QED
      BY <1>3, <2>1, <2>2, <2>8
  <1>5. QED
    BY <1>1, <1>4, ServerSeen

LEMMA QuietSeen ==
  ASSUME IInv, SeenInv, UNCHANGED <<mem, disk, run, ops, status, events>>, AllTended(conns')
  PROVE  SeenInv'
  <1>1. NoneRevives
    BY DEF NoneRevives
  <1>2. \A a \in App : Tended(a, conns'[<<a, Now>>], events'[a]) /\ OwnWorks(a, conns'[<<a, Old>>].q)
    BY DEF AllTended
  <1>3. QED
    BY <1>1, <1>2, ServerSeen

LEMMA DiscardSeen ==
  ASSUME IInv, SeenInv, UNCHANGED <<mem, disk, run, ops>>, NEW cs \in [Links -> Conns], AllTended(cs),
         NEW s \in Session, Discard(cs, s)
  PROVE  SeenInv'
  <1>1. CASE status[s] = "live"
    <2>1. status' = [status EXCEPT ![s] = "gone"] /\ conns' = EndOn(cs, s) /\ TellEnded(s)
      BY <1>1 DEF Discard
    <2>2. QED
      BY <2>1, EndsSeen
  <1>2. CASE status[s] # "live"
    <2>1. status' = [status EXCEPT ![s] = "gone"] /\ conns' = cs /\ events' = events
      BY <1>2 DEF Discard
    <2>2. NoneRevives
      BY <2>1 DEF IInv, Typed, NoneRevives
    <2>3. \A a \in App : Tended(a, conns'[<<a, Now>>], events'[a]) /\ OwnWorks(a, conns'[<<a, Old>>].q)
      BY <2>1 DEF AllTended
    <2>4. QED
      BY <2>2, <2>3, ServerSeen
  <1>3. QED
    BY <1>1, <1>2

LEMMA ExitSeen ==
  ASSUME IInv, SeenInv, NEW s \in Session, Exit(s)
  PROVE  SeenInv'
  <1>1. conns \in [Links -> Conns]
    BY DEF IInv, Typed
  <1>2. AllTended(conns)
    BY AsItWas DEF AllTended
  <1>3. /\ status' = [status EXCEPT ![s] = "ended"] /\ conns' = EndOn(conns, s) /\ TellEnded(s)
        /\ UNCHANGED <<mem, disk, run, ops>>
    BY DEF Exit
  <1>4. QED
    BY <1>1, <1>2, <1>3, EndsSeen
-----------------------------------------------------------------------------
(* The requests that are served, and what apps show *)

\* References replace others that they contain, until a pane has gone.
LEMMA ServeQuietlySeen ==
  ASSUME IInv, SeenInv, NEW b \in App, NEW v \in {Now, Old}, conns[<<b, v>>].up, conns[<<b, v>>].q # <<>>,
         NEW w, w = Head(conns[<<b, v>>].q), w.k \in {"refs", "detach"}, ServeQuietly(<<b, v>>, w),
         UNCHANGED <<mem, disk, run, ops>>
  PROVE  SeenInv'
  <1>1. PICK c \in Conns : c = conns[<<b, v>>]
    BY HeadOf
  <1>2. PICK q \in Seq(Works) : q = c.q
    BY <1>1, ConnFields
  <1>3. PICK t \in Seq(Works) : t = Tail(q)
    BY <1>1, <1>2, TailOf
  <1>4. /\ w \in Works /\ w \in Range(q) /\ Range(t) \subseteq Range(q)
    BY <1>1, <1>2, <1>3, TailOf
  <1>5. PICK d : d = [IF w.k = "refs" THEN UseReferences(c, w.set)
                      ELSE [c EXCEPT !.attached = @ \ {<<w.p, w.s>>}] EXCEPT !.q = t]
    OBVIOUS
  <1>6. /\ d.up = c.up /\ d.q = t
        /\ w.k = "refs" => /\ d.refs = w.set /\ d.released = (c.released \cup c.refs) \ w.set
                           /\ d.attached = c.attached
    <2>1. CASE w.k = "refs"
      <3>1. d = [[c EXCEPT !.refs = w.set, !.released = (@ \cup c.refs) \ w.set, !.created = {}] EXCEPT !.q = t]
        BY <1>5, <2>1 DEF UseReferences
      <3>2. QED
        BY <3>1, ConnFields
    <2>2. CASE w.k # "refs"
      <3>1. d = [[c EXCEPT !.attached = @ \ {<<w.p, w.s>>}] EXCEPT !.q = t]
        BY <1>5, <2>2
      <3>2. QED
        BY <2>2, <3>1, ConnFields
    <2>3. QED
      BY <2>1, <2>2
  <1>7. OwnWorks(b, t)
    BY <1>1, <1>2, <1>3, TailTended
  <1>8. ASSUME v = Now PROVE Tended(b, d, events[b])
    <2>1. Tended(b, c, events[b])
      BY <1>1, <1>8, AsItWas
    <2>2. ASSUME Intact(mem[b]) PROVE w.k = "refs" /\ Unhurt(b, d)
      <3>1. Unhurt(b, c)
        BY <2>1, <2>2 DEF Tended
      <3>2. w.k = "refs" /\ c.refs \subseteq w.set /\ w.set \subseteq Shows(mem[b])
        BY <1>2, <1>4, <3>1 DEF Unhurt
      <3>3. d.released = {} /\ d.refs = w.set
        BY <1>6, <3>1, <3>2 DEF Unhurt
      <3>4. Rising(t) /\ \A x \in Range(t) : x.k = "refs" => w.set \subseteq x.set
        BY <1>1, <1>2, <1>3, <3>1, <3>2, RisingTail DEF Unhurt
      <3>5. QED
        BY <1>2, <1>4, <1>6, <3>1, <3>2, <3>3, <3>4 DEF Unhurt
    <2>3. QED
      BY <1>1, <1>6, <1>7, <1>8, <2>1, <2>2 DEF Tended
  <1>9. conns' = [conns EXCEPT ![<<b, v>>] = d] /\ UNCHANGED <<status, events>>
    BY <1>1, <1>2, <1>3, <1>5 DEF ServeQuietly
  <1>10. AllTended(conns')
    BY <1>6, <1>7, <1>8, <1>9, LinkTended
  <1>11. QED
    BY <1>9, <1>10, QuietSeen

LEMMA ServeCreateSeen ==
  ASSUME IInv, SeenInv, NEW b \in App, NEW v \in {Now, Old}, conns[<<b, v>>].up, conns[<<b, v>>].q # <<>>,
         NEW w, w = Head(conns[<<b, v>>].q), w.k = "attach", w.s = None, ServeCreate(<<b, v>>, w),
         UNCHANGED <<mem, disk, run, ops>>
  PROVE  SeenInv'
  <1>1. CASE <<b, w.p>> \in cancelled
    <2>1. conns' = Served(<<b, v>>) /\ UNCHANGED <<status, events>>
      BY <1>1 DEF ServeCreate
    <2>2. QED
      BY <2>1, ServedTended, QuietSeen
  <1>2. CASE <<b, w.p>> \notin cancelled
    <2>1. PICK s : s = <<b, w.p>>
      OBVIOUS
    <2>2. PICK x : x = [w EXCEPT !.s = s]
      OBVIOUS
    <2>3. PICK c \in Conns : c = conns[<<b, v>>]
      BY HeadOf
    <2>4. w \in Works
      BY HeadOf
    <2>5. x \in Works /\ x.k = "attach"
      <3>1. s \in Session
        <4>1. CASE v = Now
          BY <2>1, <4>1, HeadOf, Constants DEF RequestFits, AttachFits, Session
        <4>2. CASE v = Old
          BY <2>1, <4>2, HeadOf, Constants DEF IInv, OldFits, Session
        <4>3. QED
          BY <4>1, <4>2
      <3>2. QED
        BY <2>2, <2>4, <3>1 DEF Works
    <2>6. PICK next \in Seq(Works) : /\ next = IF v = Now THEN <<x>> ELSE <<>>
                                     /\ Range(next) \subseteq {x}
      BY <2>5, One, None1
    <2>7. PICK t \in Seq(Works) : t = Tail(c.q)
      BY <2>3, HeadOf
    <2>8. next \o t \in Seq(Works) /\ Range(next \o t) = Range(next) \cup Range(t)
      BY Joined
    <2>9. PICK q \in Seq(Works) : q = next \o t /\ Range(q) \subseteq {x} \cup Range(t)
      BY <2>6, <2>8
    <2>10. PICK taken : taken = (status[s] \in {"none", "live"}
                                  /\ ~(s \in c.refs \/ \E p \in Pane : <<p, s>> \in c.attached))
      OBVIOUS
    <2>11. PICK d : d = [c EXCEPT !.q = q, !.created = IF taken THEN @ \cup {s} ELSE @]
      OBVIOUS
    <2>12. d.up = c.up /\ d.q = q /\ d.refs = c.refs /\ d.released = c.released /\ d.attached = c.attached
      BY <2>11, ConnFields
    <2>13. /\ status' = [status EXCEPT ![s] = IF @ = "none" THEN "live" ELSE @] /\ events' = events
           /\ conns' = [conns EXCEPT ![<<b, v>>].q = next \o Tail(@),
                                     ![<<b, v>>].created = IF taken THEN @ \cup {s} ELSE @]
      BY <1>2, <2>1, <2>2, <2>3, <2>6, <2>10 DEF ServeCreate
    <2>14. conns' = [conns EXCEPT ![<<b, v>>] = d]
      BY <2>3, <2>7, <2>9, <2>11, <2>13, HeadOf DEF IInv, Typed
    <2>15. NoneRevives
      BY <2>13 DEF IInv, Typed, NoneRevives
    <2>16. OwnWorks(b, t)
      BY <2>3, <2>7, TailTended
    <2>17. OwnWorks(b, q)
      BY <2>5, <2>9, <2>16 DEF OwnWorks
    <2>18. ASSUME v = Now PROVE Tended(b, d, events[b])
      <3>1. PICK e : e = [c EXCEPT !.q = t]
        OBVIOUS
      <3>2. e.up = c.up /\ e.q = t /\ e.refs = c.refs /\ e.released = c.released /\ e.attached = c.attached
        BY <3>1, ConnFields
      <3>3. Tended(b, e, events[b])
        BY <2>3, <2>7, <2>18, <3>1, TailTended
      <3>4. ASSUME Unhurt(b, e) PROVE Unhurt(b, d)
        <4>1. Rising(t) /\ Rising(next)
          BY <2>6, <3>2, <3>4, RisingFew DEF Unhurt
        <4>2. \A y \in Range(next) : y.k # "refs"
          BY <2>5, <2>6
        <4>3. Rising(q)
          BY <2>9, <4>1, <4>2, RisingOn
        <4>4. QED
          BY <2>5, <2>9, <2>12, <3>2, <3>4, <4>3 DEF Unhurt
      <3>5. QED
        BY <2>12, <2>17, <3>2, <3>3, <3>4 DEF Tended
    <2>19. AllTended(conns')
      BY <2>12, <2>14, <2>17, <2>18, LinkTended
    <2>20. \A a \in App : Tended(a, conns'[<<a, Now>>], events'[a]) /\ OwnWorks(a, conns'[<<a, Old>>].q)
      BY <2>13, <2>19 DEF AllTended
    <2>21. QED
      BY <2>15, <2>20, ServerSeen
  <1>3. QED
    BY <1>1, <1>2

\* What is attached is attached before the app is told so.
LEMMA ServeAttachSeen ==
  ASSUME IInv, SeenInv, NEW b \in App, NEW v \in {Now, Old}, conns[<<b, v>>].up, conns[<<b, v>>].q # <<>>,
         NEW w, w = Head(conns[<<b, v>>].q), w.k = "attach", w.s # None, ServeAttach(<<b, v>>, w),
         UNCHANGED <<mem, disk, run, ops>>
  PROVE  SeenInv'
  <1>1. CASE status[w.s] # "live"
    <2>1. conns' = Served(<<b, v>>) /\ UNCHANGED <<status, events>>
      BY <1>1 DEF ServeAttach
    <2>2. QED
      BY <2>1, ServedTended, QuietSeen
  <1>2. CASE status[w.s] = "live"
    <2>1. PICK c \in Conns : c = conns[<<b, v>>]
      BY HeadOf
    <2>2. PICK t \in Seq(Works) : t = Tail(c.q)
      BY <2>1, HeadOf
    <2>3. w \in Works /\ w.p \in Pane /\ w.s \in Session /\ w.new \in BOOLEAN
      <3>1. w \in Works
        BY HeadOf
      <3>2. QED
        BY <1>2, <3>1 DEF Works
    <2>4. PICK e \in Events : e = [k |-> "attached", p |-> w.p, s |-> w.s, new |-> w.new]
      BY <2>3 DEF Events
    <2>5. PICK d : d = [c EXCEPT !.q = t, !.attached = @ \cup {<<w.p, w.s>>},
                                 !.created = @ \ {w.s}, !.released = @ \ {w.s}]
      OBVIOUS
    <2>6. /\ d.up = c.up /\ d.q = t /\ d.refs = c.refs /\ d.released \subseteq c.released
          /\ d.attached = c.attached \cup {<<w.p, w.s>>}
      BY <2>5, ConnFields
    <2>7. Event(<<b, v>>, e) /\ status' = status
      BY <1>2, <2>4 DEF ServeAttach
    <2>8. conns' = [conns EXCEPT ![<<b, v>>] = d]
      <3>1. conns' = [Served(<<b, v>>) EXCEPT ![<<b, v>>].attached = @ \cup {<<w.p, w.s>>},
                                     ![<<b, v>>].created = @ \ {w.s}, ![<<b, v>>].released = @ \ {w.s}]
        BY <1>2 DEF ServeAttach
      <3>2. <<b, v>> \in Links /\ conns \in [Links -> Conns]
        BY HeadOf DEF IInv, Typed
      <3>3. PICK u : u = [c EXCEPT !.q = t]
        OBVIOUS
      <3>4. Served(<<b, v>>) = [conns EXCEPT ![<<b, v>>] = u]
        BY <2>1, <2>2, <3>3 DEF Served
      <3>5. d = [u EXCEPT !.attached = @ \cup {<<w.p, w.s>>}, !.created = @ \ {w.s}, !.released = @ \ {w.s}]
        BY <2>5, <3>3, ConnFields
      <3>6. PICK cs : cs = [conns EXCEPT ![<<b, v>>] = u]
        OBVIOUS
      <3>7. cs[<<b, v>>] = u /\ conns' = [cs EXCEPT ![<<b, v>>] = d]
        BY <3>1, <3>2, <3>4, <3>5, <3>6
      <3>8. QED
        BY <3>2, <3>6, <3>7
    <2>9. OwnWorks(b, d.q)
      BY <2>1, <2>2, <2>6, TailTended
    <2>10. ASSUME v = Now PROVE Tended(b, d, events[b]) /\ Tended(b, d, Append(events[b], e))
      <3>1. PICK u : u = [c EXCEPT !.q = t]
        OBVIOUS
      <3>2. u.up = c.up /\ u.q = t /\ u.refs = c.refs /\ u.released = c.released /\ u.attached = c.attached
        BY <3>1, ConnFields
      <3>3. Tended(b, u, events[b])
        BY <2>1, <2>2, <2>10, <3>1, TailTended
      <3>4. Unhurt(b, u) => Unhurt(b, d)
        BY <2>6, <3>2 DEF Unhurt
      <3>5. Tended(b, d, events[b])
        BY <2>6, <2>9, <3>2, <3>3, <3>4 DEF Tended
      <3>6. events[b] \in Seq(Events)
        BY LocalFits
      <3>7. Range(Append(events[b], e)) = Range(events[b]) \cup {e} /\ <<e.p, e.s>> \in d.attached
        BY <2>4, <2>6, <3>6, Appended
      <3>8. QED
        BY <3>5, <3>7 DEF Tended
    <2>11. AllTended(conns')
      BY <2>8, <2>9, <2>10, LinkTended
    <2>12. ASSUME NEW a \in App
           PROVE  Tended(a, conns'[<<a, Now>>], events'[a]) /\ OwnWorks(a, conns'[<<a, Old>>].q)
      <3>1. Tended(a, conns'[<<a, Now>>], events[a]) /\ OwnWorks(a, conns'[<<a, Old>>].q)
        BY <2>11 DEF AllTended
      <3>2. CASE v = Now /\ a = b
        <4>1. events'[a] = Append(events[a], e) /\ conns'[<<a, Now>>] = d
          BY <2>7, <2>8, <3>2, HeadOf DEF Event, IInv, Typed
        <4>2. QED
          BY <2>10, <3>1, <3>2, <4>1
      <3>3. CASE ~(v = Now /\ a = b)
        <4>1. events'[a] = events[a]
          BY <2>7, <3>3 DEF Event, IInv, Typed
        <4>2. QED
          BY <3>1, <4>1
      <3>4. QED
        BY <3>2, <3>3
    <2>13. NoneRevives
      BY <2>7 DEF NoneRevives
    <2>14. QED
      BY <2>12, <2>13, ServerSeen
  <1>3. QED
    BY <1>1, <1>2

\* An app closes only when one of its panes has gone; others lose the session that ends.
LEMMA ServeDiscardSeen ==
  ASSUME IInv, SeenInv, NEW b \in App, NEW v \in {Now, Old}, conns[<<b, v>>].up, conns[<<b, v>>].q # <<>>,
         NEW w, w = Head(conns[<<b, v>>].q), w.k = "discard", ServeDiscard(<<b, v>>, w),
         UNCHANGED <<mem, disk, run, ops>>
  PROVE  SeenInv'
  <1>1. PICK c \in Conns : c = conns[<<b, v>>]
    BY HeadOf
  <1>2. PICK t \in Seq(Works) : t = Tail(c.q)
    BY <1>1, HeadOf
  <1>3. w \in Works /\ w \in Range(c.q) /\ <<b, v>> \in Links /\ conns \in [Links -> Conns]
    BY <1>1, HeadOf DEF IInv, Typed
  <1>4. w.s \in Session
    BY <1>3 DEF Works
  <1>5. PICK mine : mine = (w.s \in c.refs \/ receipts[w.op] # None)
    OBVIOUS
  <1>6. PICK u : u = [c EXCEPT !.q = t]
    OBVIOUS
  <1>7. PICK d : d = IF mine THEN u ELSE [u EXCEPT !.created = @ \ {w.s}, !.attached = {x \in @ : x[2] # w.s}]
    OBVIOUS
  <1>8. d \in Conns /\ d.up = c.up /\ d.q = t
    <2>1. u \in Conns /\ u.q = t /\ u.up = c.up
      BY <1>6 DEF Conns
    <2>2. CASE mine
      BY <1>7, <2>1, <2>2
    <2>3. CASE ~mine
      <3>1. d = [u EXCEPT !.created = @ \ {w.s}, !.attached = {x \in @ : x[2] # w.s}]
        BY <1>7, <2>3
      <3>2. QED
        BY <2>1, <3>1 DEF Conns
    <2>4. QED
      BY <2>2, <2>3
  <1>9. PICK cs : cs = [conns EXCEPT ![<<b, v>>] = d]
    OBVIOUS
  <1>10. cs \in [Links -> Conns]
    BY <1>3, <1>8, <1>9
  <1>11. Served(<<b, v>>) = [conns EXCEPT ![<<b, v>>] = u]
    BY <1>1, <1>2, <1>6 DEF Served
  <1>12. cs = IF mine THEN Served(<<b, v>>)
              ELSE [Served(<<b, v>>) EXCEPT ![<<b, v>>].created = @ \ {w.s}, ![<<b, v>>].attached = {x \in @ : x[2] # w.s}]
    <2>1. CASE mine
      BY <1>7, <1>9, <1>11, <2>1
    <2>2. CASE ~mine
      <3>1. PICK k : k = [conns EXCEPT ![<<b, v>>] = u]
        OBVIOUS
      <3>2. k[<<b, v>>] = u /\ cs = [k EXCEPT ![<<b, v>>] = d]
        BY <1>3, <1>9, <3>1
      <3>3. d = [u EXCEPT !.created = @ \ {w.s}, !.attached = {x \in @ : x[2] # w.s}]
        BY <1>7, <2>2
      <3>4. QED
        BY <1>11, <2>2, <3>1, <3>2, <3>3
    <2>3. QED
      BY <2>1, <2>2
  <1>13. \/ Discard(cs, w.s)
         \/ conns' = cs /\ UNCHANGED <<status, events>>
    BY <1>1, <1>5, <1>12 DEF ServeDiscard
  <1>14. OwnWorks(b, d.q)
    BY <1>1, <1>2, <1>8, TailTended
  <1>15. v = Now => Tended(b, d, events[b])
    <2> SUFFICES ASSUME v = Now PROVE Tended(b, d, events[b])
      OBVIOUS
    <2>1. Tended(b, c, events[b])
      BY <1>1, AsItWas
    <2>2. ~Intact(mem[b])
      BY <1>3, <2>1 DEF Tended, Unhurt
    <2>3. QED
      BY <1>1, <1>8, <1>14, <2>2 DEF Tended
  <1>16. AllTended(cs)
    BY <1>9, <1>14, <1>15, LinkTended
  <1>17. QED
    BY <1>4, <1>10, <1>13, <1>16, DiscardSeen, QuietSeen

LEMMA ServeCancelSeen ==
  ASSUME IInv, SeenInv, NEW b \in App, NEW v \in {Now, Old}, conns[<<b, v>>].up, conns[<<b, v>>].q # <<>>,
         NEW w, w = Head(conns[<<b, v>>].q), w.k = "cancel", ServeCancel(<<b, v>>, w),
         UNCHANGED <<mem, disk, run, ops>>
  PROVE  SeenInv'
  <1>1. PICK cs \in [Links -> Conns] : cs = Served(<<b, v>>)
    BY ServedFields
  <1>2. AllTended(cs)
    BY <1>1, ServedTended
  <1>3. w.s \in Session
    <2>1. w \in Works
      BY HeadOf
    <2>2. QED
      BY <2>1 DEF Works
  <1>4. \/ Discard(cs, w.s)
        \/ conns' = cs /\ UNCHANGED <<status, events>>
    BY <1>1 DEF ServeCancel
  <1>5. QED
    BY <1>2, <1>3, <1>4, DiscardSeen, QuietSeen

LEMMA ServeSeen ==
  ASSUME IInv, SeenInv, NEW l \in Links, Serve(l)
  PROVE  SeenInv'
  <1>1. PICK b \in App, v \in {Now, Old} : l = <<b, v>>
    BY DEF Links
  <1>2. PICK w : w = Head(conns[<<b, v>>].q)
    OBVIOUS
  <1>3. conns[<<b, v>>].up /\ conns[<<b, v>>].q # <<>> /\ UNCHANGED <<mem, disk, run, ops>>
    BY <1>1 DEF Serve
  <1>4. \/ w.k \in {"refs", "detach"} /\ ServeQuietly(<<b, v>>, w)
        \/ w.k = "attach" /\ w.s = None /\ ServeCreate(<<b, v>>, w)
        \/ w.k = "attach" /\ w.s # None /\ ServeAttach(<<b, v>>, w)
        \/ w.k = "discard" /\ ServeDiscard(<<b, v>>, w)
        \/ w.k = "cancel" /\ ServeCancel(<<b, v>>, w)
    BY <1>1, <1>2 DEF Serve
  <1>5. QED
    BY <1>2, <1>3, <1>4, ServeQuietlySeen, ServeCreateSeen, ServeAttachSeen, ServeDiscardSeen, ServeCancelSeen
-----------------------------------------------------------------------------
(* Closing, and what is shown *)

LEMMA InitSeen ==
  ASSUME Init
  PROVE  SeenInv
  <1>1. PICK blank : blank = Blank
    OBVIOUS
  <1>2. \A p \in Pane : blank.at[p] = "new"
    BY <1>1 DEF Blank
  <1>3. DOMAIN blank.closes = {}
    BY <1>1 DEF Blank
  <1>4. /\ \A a \in App : mem[a] = blank /\ disk[a] = blank /\ run[a] = Offline /\ events[a] = <<>>
        /\ \A a \in App, v \in {Now, Old} : conns[<<a, v>>] = Down
    BY <1>1 DEF Init, Links
  <1>5. /\ Down.q = <<>> /\ ~Down.up /\ Down.refs = {} /\ Down.released = {} /\ Down.attached = {}
        /\ Range(<<>>) = {} /\ Rising(<<>>) /\ ~Offline.ready /\ Offline.shown = {}
    BY None1, RisingFew DEF Down, Offline
  <1>6. \A a : Mine(a, blank) /\ OwnWorks(a, Down.q)
    BY <1>2, <1>3, <1>5 DEF Mine, OwnWorks
  <1>7. ASSUME NEW a \in App PROVE Seen(a)
    <2>1. PICK S : S = Local(a)
      OBVIOUS
    <2>2. S.m = blank /\ S.r = Offline /\ S.q = <<>>
      BY <1>4, <1>5, <2>1 DEF Local
    <2>3. Growing(S, {}) /\ OnView(S, {})
      BY <1>3, <1>5, <2>2 DEF Growing, OnView
    <2>4. OnWay(mem[a], events[a], {})
      BY <1>4, <1>5 DEF OnWay
    <2>5. QED
      BY <1>3, <1>4, <1>5, <2>1, <2>3, <2>4 DEF Seen
  <1>8. QED
    BY <1>4, <1>6, <1>7 DEF SeenInv, AppsOwn

LEMMA StutterSeen ==
  ASSUME IInv, SeenInv, UNCHANGED vars
  PROVE  SeenInv'
  <1>1. UNCHANGED <<mem, disk, run, ops, conns, status, events>>
    BY DEF vars
  <1>2. AllTended(conns')
    BY <1>1, AsItWas DEF AllTended
  <1>3. QED
    BY <1>1, <1>2, QuietSeen

LEMMA NextSeen ==
  ASSUME IInv, SeenInv, [Next]_vars
  PROVE  SeenInv'
  <1>1. ASSUME NEW a \in App, User(a) PROVE SeenInv'
    <2>1. PICK p \in Pane : \/ \E s \in Session \cup {None} : OpenPane(a, p, s)
                            \/ StartAttach(a, p) \/ ClosePane(a, p) \/ DetachPane(a, p)
      BY <1>1 DEF User
    <2>2. QED
      BY <2>1, OpenPaneSeen, StartAttachSeen, ClosePaneSeen, DetachPaneSeen
  <1>2. ASSUME NEW a \in App, Handler(a) PROVE SeenInv'
    BY <1>2, ConnectSeen, RestoreSeen, ReceiveSeen, CloseOldSeen DEF Handler
  <1>3. mem \in [App -> States]
    BY DEF IInv, Typed
  <1>4. ASSUME NEW a \in App, Break(a) PROVE SeenInv'
    <2>1. Cut(a) /\ mem' = [mem EXCEPT ![a] = mem[a]]
      BY <1>3, <1>4 DEF Break
    <2>2. QED
      BY <2>1, CutSeen
  <1>5. ASSUME NEW a \in App, Kill(a) PROVE SeenInv'
    <2>1. Cut(a) /\ mem' = [mem EXCEPT ![a] = disk[a]]
      BY <1>5 DEF Kill
    <2>2. QED
      BY <2>1, CutSeen
  <1>6. ASSUME NEW l \in Links, Serve(l) PROVE SeenInv'
    BY <1>6, ServeSeen
  <1>7. ASSUME NEW s \in Session, Exit(s) PROVE SeenInv'
    BY <1>7, ExitSeen
  <1>8. ASSUME UNCHANGED vars PROVE SeenInv'
    BY <1>8, StutterSeen
  <1>9. QED
    BY <1>1, <1>2, <1>4, <1>5, <1>6, <1>7, <1>8 DEF Next

\* What an app has on its screen, its connection uses.
LEMMA ShownIsUsed ==
  ASSUME SeenInv, NEW a \in App, Intact(mem[a]), NEW s \in Session, status[s] = "live", OnScreen(a, s),
         run[a].shown \subseteq Pane
  PROVE  Uses(conns[<<a, Now>>], s)
  <1>1. PICK p \in run[a].shown : mem[a].at[p] = "open" /\ mem[a].session[p] = s
    BY DEF OnScreen
  <1>2. /\ conns[<<a, Now>>].up /\ conns[<<a, Now>>].released = {}
        /\ OnView(Local(a), conns[<<a, Now>>].attached)
    BY <1>1 DEF SeenInv, Seen
  <1>3. Local(a).m = mem[a] /\ Local(a).r = run[a]
    BY DEF Local
  <1>4. <<p, s>> \in conns[<<a, Now>>].attached /\ p \in Pane
    BY <1>1, <1>2, <1>3 DEF OnView
  <1>5. QED
    BY <1>2, <1>4 DEF Uses

\* Only a close decides a receipt, and it looks at every other connection.
LEMMA DecisionSpares ==
  ASSUME IInv, SeenInv, Next, NEW o \in DOMAIN receipts, receipts[o] = None, receipts'[o] = TRUE,
         NEW s \in Session, status[s] = "live", status'[s] = "gone", NEW a \in App, a # o[1], Intact(mem[a])
  PROVE  ~OnScreen(a, s)
  <1>1. receipts' # receipts
    BY PaneSessionsAssumption
  <1>2. PICK l \in Links : Serve(l)
    <2>1. ASSUME NEW b \in App, User(b) PROVE receipts' = receipts
      <3>1. PICK p \in Pane : \/ \E t \in Session \cup {None} : OpenPane(b, p, t)
                              \/ StartAttach(b, p) \/ ClosePane(b, p) \/ DetachPane(b, p)
        BY <2>1 DEF User
      <3>2. (\E t \in Session \cup {None} : OpenPane(b, p, t)) => receipts' = receipts
        BY DEF OpenPane, Server
      <3>3. StartAttach(b, p) => receipts' = receipts
        BY DEF StartAttach, Server
      <3>4. ClosePane(b, p) => receipts' = receipts
        BY DEF ClosePane, Server
      <3>5. DetachPane(b, p) => receipts' = receipts
        BY DEF DetachPane, Server
      <3>6. QED
        BY <3>1, <3>2, <3>3, <3>4, <3>5
    <2>2. ASSUME NEW b \in App, Handler(b) PROVE receipts' = receipts
      BY <2>2 DEF Handler, Connect, Restore, Receive, CloseOld, Server
    <2>3. QED
      BY <1>1, <2>1, <2>2 DEF Next, Break, Kill, Cut, Exit
  <1>3. PICK b \in App, v \in {Now, Old} : l = <<b, v>>
    BY DEF Links
  <1>4. PICK w : w = Head(conns[l].q)
    OBVIOUS
  <1>5. w.k = "discard" /\ ServeDiscard(l, w) /\ conns[l].up /\ conns[l].q # <<>>
    BY <1>1, <1>2, <1>4 DEF Serve, ServeQuietly, ServeCreate, ServeAttach, ServeCancel
  <1>6. o = w.op
    BY <1>5, PaneSessionsAssumption DEF ServeDiscard
  <1>7. Decide(l, w.s) /\ s = w.s
    <2>1. Decide(l, w.s)
      BY <1>5, <1>6 DEF ServeDiscard
    <2>2. status' = [status EXCEPT ![w.s] = "gone"]
      BY <1>5, <1>6, <2>1 DEF ServeDiscard, Discard
    <2>3. QED
      BY <2>1, <2>2 DEF IInv, Typed
  <1>8. o[1] = b
    <2>1. w \in Range(conns[l].q)
      BY <1>3, <1>4, <1>5, HeadOf
    <2>2. OwnWorks(b, conns[l].q)
      BY <1>3 DEF SeenInv, AppsOwn
    <2>3. QED
      BY <1>5, <1>6, <2>1, <2>2 DEF OwnWorks
  <1>9. <<a, Now>> \in Links \ {l}
    BY <1>3, <1>8 DEF Links
  <1>10. ~Uses(conns[<<a, Now>>], s)
    BY <1>7, <1>9 DEF Decide, Shared
  <1>11. run[a].shown \subseteq Pane
    BY LocalFits DEF Runs
  <1>12. QED
    BY <1>10, <1>11, ShownIsUsed

LEMMA SeenAlways == Spec => [](IInv /\ SeenInv)
  <1>1. Init => IInv /\ SeenInv
    BY InitKeeps, InitSeen
  <1>2. (IInv /\ SeenInv) /\ [Next]_vars => (IInv /\ SeenInv)'
    BY NextKeeps, NextSeen
  <1>3. QED
    BY <1>1, <1>2, PTL DEF Spec

\* Closing never ends a session on the screen of another connected app none of whose
\* panes has gone, whatever order references, attaches and closes are served in
\* (close_session, session_shared).  For any number of apps and of panes of each.
THEOREM ClosesSpareWhatIsShown == Spec => CloseSparesShown
  <1> DEFINE Spares ==
        \A o \in DOMAIN receipts : receipts[o] = None /\ receipts'[o] = TRUE =>
          \A s \in Session : status[s] = "live" /\ status'[s] = "gone" =>
            \A a \in App \ {o[1]} : Intact(mem[a]) => ~OnScreen(a, s)
  <1>1. IInv /\ SeenInv /\ [Next]_vars => [Spares]_vars
    <2> SUFFICES ASSUME IInv, SeenInv, Next PROVE Spares
      OBVIOUS
    <2>1. QED
      BY DecisionSpares
  <1>2. CloseSparesShown <=> [][Spares]_vars
    BY DEF CloseSparesShown
  <1> HIDE DEF Spares
  <1>3. QED
    BY <1>1, <1>2, SeenAlways, PTL DEF Spec
=============================================================================
