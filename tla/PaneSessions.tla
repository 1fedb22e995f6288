----------------------------- MODULE PaneSessions -----------------------------
(***************************************************************************)
(* The panes of desktop apps and the sessions they show: what an app keeps *)
(* on disk about panes that start, close and are cleaned up                *)
(* (muxy-app/src/model.rs, muxy-app-core), its one-at-a-time requests, and *)
(* the server that decides when a close ends a session, by what each       *)
(* connection references, has created and has attached (references.rs,     *)
(* peer.rs, registry.rs).                                                  *)
(*                                                                         *)
(* A pane starts at most one session and its token names it, so a session  *)
(* is the pane <<app, pane>> that starts it. All saves of one handler      *)
(* succeed or fail together, but for the one of the catalog in Restore.    *)
(* Panes are all visible; moving sessions, restarting a terminal in place  *)
(* and the quick terminal are left out, and so are creations that fail     *)
(* although their token is good, and errors that the server answers to     *)
(* closes and cancellations.                                               *)
(***************************************************************************)
EXTENDS Integers, Sequences, FiniteSets, SequencesExt

CONSTANTS
  App,         \* desktop apps
  Pane,        \* pane identities of one app, each used once
  Slots,       \* the panes that may be opened
  Fresh,       \* those that may open a new terminal
  Remote,      \* apps whose server is on another computer
  Frail,       \* bound: the apps that losses and failed saves happen to
  MaxLosses,   \* bound: connections that break and apps that are killed
  MaxFailures, \* bound: saves that fail
  MaxCloses,   \* bound: close operations of one app
  None

ASSUME PaneSessionsAssumption ==
  /\ IsFiniteSet(App) /\ IsFiniteSet(Pane)
  /\ Fresh \subseteq Slots /\ Slots \subseteq App \X Pane /\ Remote \subseteq App /\ Frail \subseteq App
  /\ MaxLosses \in Nat /\ MaxFailures \in Nat /\ MaxCloses \in Nat
  /\ None \notin Fresh /\ None \notin BOOLEAN

Session == Fresh

VARIABLES
  mem, disk,   \* each app's panes and intents, in memory and in its file
  run,         \* what a running app keeps for its connection
  conns,       \* the server's connections: each app's own, and an old one it has not seen end
  replies, events, \* what the client library has for the app, each in order
  status,      \* what the server knows of each session
  cancelled,   \* creation tokens that may never start a session
  receipts,    \* decided closes: operation -> whether it ended the session
  ops,         \* close operations each app has used
  losses, failures, \* counters of the bounds
  detached, kept \* history: sessions whose pane was detached, and those a close kept

vars == <<mem, disk, run, conns, replies, events, status, cancelled, receipts, ops, losses, failures, detached, kept>>

Now == "now"
Old == "old"
Links == App \X {Now, Old}

-----------------------------------------------------------------------------
(* The app's state *)

Blank == [at |-> [p \in Pane |-> "new"], session |-> [p \in Pane |-> None],
          starting |-> {}, cancels |-> {}, closes |-> <<>>]

\* The panes a state shows.
Open(m) == {p \in Pane : m.at[p] = "open"}

\* session_references: what the panes of a state show.
Shows(m) == {m.session[p] : p \in Open(m)} \ {None}

Offline == [ready |-> FALSE, listed |-> None, pending |-> {}, detaching |-> {},
            discarding |-> {}, cancelling |-> {}, refs |-> None, shown |-> {}]

Down == [up |-> FALSE, q |-> <<>>, refs |-> {}, released |-> {}, created |-> {}, attached |-> {}]

Init ==
  /\ mem = [a \in App |-> Blank] /\ disk = mem
  /\ run = [a \in App |-> Offline]
  /\ conns = [l \in Links |-> Down]
  /\ replies = [a \in App |-> <<>>] /\ events = [a \in App |-> <<>>]
  /\ status = [s \in Session |-> "none"]
  /\ cancelled = {} /\ receipts = [o \in App \X (1..MaxCloses) |-> None]
  /\ ops = [a \in App |-> 0] /\ losses = 0 /\ failures = 0
  /\ detached = {} /\ kept = {}

\* A handler works on the app's state, what it keeps for the connection, the
\* requests it sends and the operations it has used.
Local(a) == [m |-> mem[a], r |-> run[a], q |-> conns[<<a, Now>>].q, n |-> ops[a]]

Send(S, works) == IF S.r.ready THEN [S EXCEPT !.q = @ \o works] ELSE S

Discards(S, sessions) ==
  SetToSeq({[k |-> "discard", s |-> s, op |-> S.m.closes[s]] : s \in sessions})

Cancels(a, panes) == SetToSeq({[k |-> "cancel", s |-> <<a, p>>] : p \in panes})

SyncReferences(S) ==
  IF S.r.ready /\ S.r.refs # Shows(S.m)
  THEN Send([S EXCEPT !.r.refs = Shows(S.m)], <<[k |-> "refs", set |-> Shows(S.m)]>>)
  ELSE S

\* discard_pending: cancellations, then the references, then the closes, once they
\* are saved.
DiscardPending(a, S, saved) ==
  IF ~S.r.ready \/ (a \in Remote /\ S.r.listed # None) THEN S
  ELSE LET cancels  == S.m.cancels \ S.r.cancelling
           discards == IF saved THEN DOMAIN S.m.closes \ S.r.discarding ELSE {}
           S1 == Send([S EXCEPT !.r.cancelling = @ \cup cancels], Cancels(a, cancels))
       IN  Send([SyncReferences(S1) EXCEPT !.r.discarding = @ \cup discards], Discards(S, discards))

\* queue_discard: a session has one close under way, whatever happened since.
QueueDiscard(a, S, s) ==
  IF s \in DOMAIN S.m.closes THEN S
  ELSE [S EXCEPT !.n = @ + 1,
                 !.m.closes = [t \in DOMAIN @ \cup {s} |-> IF t = s THEN <<a, S.n + 1>> ELSE @[t]]]

\* Mutant of RemovePanes: what starts is not forgotten.
RemovePanesStarting(m, panes) ==
  [m EXCEPT !.at = [p \in Pane |-> IF p \in panes THEN "gone" ELSE @[p]],
            !.cancels = @ \cup {p \in panes \cap m.starting : m.session[p] = None}]

\* Mutant of RemovePanes: a pane that is starting goes without a trace.
RemovePanesSilently(m, panes) ==
  [m EXCEPT !.at = [p \in Pane |-> IF p \in panes THEN "gone" ELSE @[p]],
            !.starting = @ \ panes]

\* remove_pane: a pane that was starting leaves a cancellation.
RemovePanes(m, panes) ==
  [m EXCEPT !.at = [p \in Pane |-> IF p \in panes THEN "gone" ELSE @[p]],
            !.starting = @ \ panes,
            !.cancels = @ \cup {p \in panes \cap m.starting : m.session[p] = None}]

\* sync_visible: the views of panes that are gone detach.
SyncVisible(S) ==
  LET hidden == S.r.shown \ Open(S.m)
      detach == SetToSeq({[k |-> "detach", p |-> p, s |-> S.m.session[p]] : p \in hidden})
  IN  Send([SyncReferences(S) EXCEPT !.r.shown = @ \ hidden], detach)

Bounded(S) == S.n <= MaxCloses

Put(a, S) ==
  /\ Bounded(S)
  /\ mem' = [mem EXCEPT ![a] = S.m]
  /\ run' = [run EXCEPT ![a] = S.r]
  /\ conns' = [conns EXCEPT ![<<a, Now>>].q = S.q]
  /\ ops' = [ops EXCEPT ![a] = S.n]

\* The app's file has m then.
Keep(a, m) == disk' = [disk EXCEPT ![a] = m] /\ UNCHANGED failures

\* A save fails.
Fail(a) == a \in Frail /\ failures < MaxFailures /\ failures' = failures + 1

\* A handler that saves; "failed" is what it does when it cannot.
Saving(a, done, failed) ==
  \/ Put(a, done) /\ Keep(a, done.m)
  \/ Put(a, failed) /\ Fail(a) /\ UNCHANGED disk

\* A handler that has nothing to save.
Quietly(a, S) == Put(a, S) /\ UNCHANGED <<disk, failures>>

Server == <<status, cancelled, receipts, kept, losses>>

\* Connection::references, channels included.
Uses(c, s) ==
  c.up /\ \/ s \in c.refs \cup c.created
          \/ s \notin c.released /\ \E p \in Pane : <<p, s>> \in c.attached

-----------------------------------------------------------------------------
(* The user *)

\* A new terminal, or an existing one in a new pane: one that the app neither
\* shows nor has attached by what the server lists (open_existing_session,
\* adopt_sessions, show_session).  The catalog has come before, which the last two
\* check and the first, where the user picks from a list, does not.
OpenPane(a, p, s) ==
  /\ mem[a].at[p] = "new" /\ <<a, p>> \in Slots
  /\ IF s = None THEN <<a, p>> \in Fresh
     ELSE /\ status[s] = "live" /\ s \notin Shows(mem[a])
          /\ run[a].ready /\ run[a].listed = None /\ ~Uses(conns[<<a, Now>>], s)
  /\ LET m == [mem[a] EXCEPT !.at[p] = "open", !.session[p] = s] IN
       Saving(a, SyncVisible([Local(a) EXCEPT !.m = m]), Local(a))
  /\ UNCHANGED <<Server, replies, events, detached>>

\* start_attach: the intent is saved before the request is sent.
StartAttach(a, p) ==
  LET s == mem[a].session[p]
      planned == [Local(a) EXCEPT !.m.starting = @ \cup {p}]
      sent == Send([planned EXCEPT !.r.pending = @ \cup {p}],
                   <<[k |-> "attach", p |-> p, s |-> s, new |-> s = None]>>)
  IN  /\ p \in Open(mem[a]) \ (run[a].pending \cup run[a].shown)
      /\ run[a].ready /\ run[a].listed = None
      /\ Saving(a, sent, planned)
      /\ UNCHANGED <<Server, replies, events, detached>>

\* close_confirmed; a close that cannot be saved is undone.
ClosePane(a, p) ==
  LET s == mem[a].session[p]
      S == [Local(a) EXCEPT !.m = RemovePanes(@, {p})]
      queued == IF s \in Session \ Shows(S.m) THEN QueueDiscard(a, S, s) ELSE S
  IN  /\ p \in Open(mem[a])
      /\ Saving(a, DiscardPending(a, SyncVisible(queued), TRUE), Local(a))
      /\ UNCHANGED <<Server, replies, events, detached>>

\* close_confirmed with the setting that detaches.
DetachPane(a, p) ==
  LET s == mem[a].session[p]
      S == [Local(a) EXCEPT !.m.at[p] = "gone", !.m.starting = @ \ {p},
                            !.r.detaching = @ \cup ({p} \cap run[a].pending)]
  IN  /\ p \in Open(mem[a])
      /\ Saving(a, DiscardPending(a, SyncVisible(S), TRUE), Local(a))
      /\ detached' = IF failures' = failures THEN detached \cup ({s, <<a, p>>} \cap Session) ELSE detached
      /\ UNCHANGED <<Server, replies, events>>

-----------------------------------------------------------------------------
(* What comes back *)

\* receive_connected: the sessions listed then are compared once the catalog comes.
\* Closes of this computer's server are saved once more and sent at once.
Connected(a, saved) ==
  LET listed == {s \in Session : status[s] = "live"}
      S == [Local(a) EXCEPT !.r = [Offline EXCEPT !.ready = TRUE], !.q = <<>>]
  IN  DiscardPending(a, [SyncReferences(S) EXCEPT !.r.listed = listed], saved)

Link(a, S) ==
  /\ run' = [run EXCEPT ![a] = S.r]
  /\ conns' = [conns EXCEPT ![<<a, Now>>] = [Down EXCEPT !.up = TRUE, !.q = S.q]]

Connect(a) ==
  LET saves == a \notin Remote /\ DOMAIN mem[a].closes # {}
  IN  /\ ~run[a].ready
      /\ \/ Link(a, Connected(a, TRUE)) /\ Keep(a, IF saves THEN mem[a] ELSE disk[a])
         \/ saves /\ Link(a, Connected(a, FALSE)) /\ Fail(a) /\ UNCHANGED disk
      /\ UNCHANGED <<mem, replies, events, Server, ops, detached>>

\* apply_restore: panes whose session is not listed close, those that were starting
\* start again.
Restored(a, saved) ==
  LET lost == {p \in Open(mem[a]) : mem[a].session[p] \notin run[a].listed \cup {None}}
      S == [Local(a) EXCEPT !.r.listed = None, !.m = RemovePanes(@, lost)]
      S1 == DiscardPending(a, [S EXCEPT !.r.pending = {}], saved)
      new == {p \in Open(S1.m) : S1.m.session[p] = None}
      planned == [S1 EXCEPT !.m.starting = @ \cup new]
      sent == Send([planned EXCEPT !.r.pending = new],
                   SetToSeq({[k |-> "attach", p |-> p, s |-> None, new |-> TRUE] : p \in new}))
  IN  SyncVisible(IF saved THEN sent ELSE planned)

\* receive_catalog: the catalog is saved with the state as it was, without which
\* nothing is restored; then apply_restore saves.
Restore(a) ==
  /\ run[a].ready /\ run[a].listed # None
  /\ \/ Put(a, Restored(a, TRUE)) /\ Keep(a, Restored(a, TRUE).m)
     \/ Put(a, Restored(a, FALSE)) /\ Fail(a) /\ disk' = [disk EXCEPT ![a] = mem[a]]
     \/ Put(a, Local(a)) /\ Fail(a) /\ UNCHANGED disk
  /\ UNCHANGED <<Server, replies, events, detached>>

\* What comes back about a pane that is open, or a session to be closed, is saved.
Saves(a, e) == mem[a].at[e.p] = "open" \/ (e.new /\ e.p \notin run[a].detaching)

\* A session that came back goes to its pane; without one it is closed if it was
\* created (discard_created), unless its pane was detached on purpose.
Settle(a, S, e, saved) ==
  LET known == [S EXCEPT !.m.session[e.p] = e.s]
      queued == QueueDiscard(a, S, e.s)
  IN  IF S.m.at[e.p] = "open" THEN SyncReferences(known)
      ELSE IF Saves(a, e) THEN IF saved THEN DiscardPending(a, queued, TRUE) ELSE queued
      ELSE IF e.k = "attached" THEN Send(S, <<[k |-> "detach", p |-> e.p, s |-> e.s]>>)
      ELSE S

Arrived(a, e) ==
  LET S == [Local(a) EXCEPT !.r.pending = @ \ {e.p}, !.r.detaching = @ \ {e.p}]
  IN  IF e.p \in run[a].detaching THEN SyncReferences([S EXCEPT !.r.refs = None]) ELSE S

\* close_ended_session
CloseEnded(a, S, s, saved) ==
  IF s \notin Shows(S.m) THEN S
  ELSE DiscardPending(a, SyncVisible([S EXCEPT !.m =
         RemovePanes(@, {p \in Open(@) : S.m.session[p] = s})]), saved)

\* receive_attached
Attached(a, e, saved) ==
  LET S == Settle(a, Arrived(a, e), e, saved)
  IN  IF mem[a].at[e.p] = "open" THEN [S EXCEPT !.r.shown = @ \cup {e.p}] ELSE S

\* receive_attach_failed
AttachFailed(a, e, saved) ==
  LET S == IF e.s = None THEN Arrived(a, e) ELSE Settle(a, Arrived(a, e), e, saved)
  IN  IF e.missing /\ mem[a].at[e.p] = "open" /\ S.m.session[e.p] # None
      THEN CloseEnded(a, S, S.m.session[e.p], saved) ELSE S

ReceiveAttached(a, e) ==
  IF Saves(a, e) THEN Saving(a, Attached(a, e, TRUE), Attached(a, e, FALSE))
  ELSE Quietly(a, Attached(a, e, TRUE))

ReceiveAttachFailed(a, e) ==
  IF e.s # None /\ Saves(a, e) THEN Saving(a, AttachFailed(a, e, TRUE), AttachFailed(a, e, FALSE))
  ELSE Quietly(a, AttachFailed(a, e, TRUE))

ReceiveEnded(a, e) ==
  IF e.s \in Shows(mem[a])
  THEN Saving(a, CloseEnded(a, Local(a), e.s, TRUE), CloseEnded(a, Local(a), e.s, FALSE))
  ELSE Quietly(a, Local(a))

\* receive_discarded and receive_creation_cancelled: what cannot be saved stays to be done.
ReceiveDiscarded(a, e) ==
  LET S == [Local(a) EXCEPT !.r.discarding = @ \ {e.s}]
  IN  Saving(a, [S EXCEPT !.m.closes = Restrict(@, DOMAIN @ \ {e.s})], S)

ReceiveCancelled(a, e) ==
  LET S == [Local(a) EXCEPT !.r.cancelling = @ \ {e.s[2]}]
  IN  Saving(a, [S EXCEPT !.m.cancels = @ \ {e.s[2]}], S)

Receive(a) ==
  \/ /\ replies[a] # <<>>
     /\ LET e == Head(replies[a]) IN
          \/ e.k = "failed" /\ ReceiveAttachFailed(a, e)
          \/ e.k = "discard" /\ ReceiveDiscarded(a, e)
          \/ e.k = "cancel" /\ ReceiveCancelled(a, e)
     /\ replies' = [replies EXCEPT ![a] = Tail(@)]
     /\ UNCHANGED <<Server, events, detached>>
  \/ /\ events[a] # <<>>
     /\ LET e == Head(events[a]) IN
          \/ e.k = "attached" /\ ReceiveAttached(a, e)
          \/ e.k = "ended" /\ ReceiveEnded(a, e)
     /\ events' = [events EXCEPT ![a] = Tail(@)]
     /\ UNCHANGED <<Server, replies, detached>>

-----------------------------------------------------------------------------
(* The server, one request of a connection at a time *)

\* session_shared: another connection uses it.
Shared(l, s) == \E k \in Links \ {l} : Uses(conns[k], s)

\* References::update and use_references: what was dropped counts as released
\* although its channel is still open.
UseReferences(c, set) ==
  [c EXCEPT !.refs = set, !.released = (@ \cup c.refs) \ set, !.created = {}]

Forget(c, s) ==
  [c EXCEPT !.refs = @ \ {s}, !.created = @ \ {s}, !.attached = {x \in @ : x[2] # s}]

\* A session ends: every connection lets go of it and is told.
EndOn(cs, s) == [l \in Links |-> IF cs[l].up THEN Forget(cs[l], s) ELSE cs[l]]
TellEnded(s) ==
  events' = [a \in App |-> IF conns[<<a, Now>>].up THEN Append(events[a], [k |-> "ended", s |-> s])
                          ELSE events[a]]

Reply(l, e) == replies' = IF l[2] = Now THEN [replies EXCEPT ![l[1]] = Append(@, e)] ELSE replies
Event(l, e) == events' = IF l[2] = Now THEN [events EXCEPT ![l[1]] = Append(@, e)] ELSE events

Served(l) == [conns EXCEPT ![l].q = Tail(@)]

\* set_references and detach
ServeQuietly(l, w) ==
  LET c == conns[l]
      served == IF w.k = "refs" THEN UseReferences(c, w.set)
                ELSE [c EXCEPT !.attached = @ \ {<<w.p, w.s>>}]
  IN  /\ conns' = [conns EXCEPT ![l] = [served EXCEPT !.q = Tail(c.q)]]
      /\ UNCHANGED <<status, cancelled, receipts, kept, replies, events>>

\* create_launched: a token that was served before gives the same session again.
\* The app's next request on this connection attaches it.
ServeCreate(l, w) ==
  LET s == <<l[1], w.p>>
      live == status[s] \in {"none", "live"}
      taken == s \in conns[l].refs \/ \E p \in Pane : <<p, s>> \in conns[l].attached
      next == IF l[2] = Now THEN <<[w EXCEPT !.s = s]>> ELSE <<>>
  IN  IF s \in cancelled
      THEN /\ conns' = Served(l)
           /\ Reply(l, [k |-> "failed", p |-> w.p, s |-> None, new |-> TRUE, missing |-> FALSE])
           /\ UNCHANGED <<status, cancelled, receipts, kept, events>>
      ELSE /\ status' = [status EXCEPT ![s] = IF @ = "none" THEN "live" ELSE @]
           /\ conns' = [conns EXCEPT ![l].q = next \o Tail(@),
                                     ![l].created = IF live /\ ~taken THEN @ \cup {s} ELSE @]
           /\ UNCHANGED <<cancelled, receipts, kept, replies, events>>

\* attach; a desktop app names no owner of its references, so that released sessions
\* are not refused.
ServeAttach(l, w) ==
  IF status[w.s] = "live"
  THEN /\ conns' = [Served(l) EXCEPT ![l].attached = @ \cup {<<w.p, w.s>>},
                                     ![l].created = @ \ {w.s}, ![l].released = @ \ {w.s}]
       /\ Event(l, [k |-> "attached", p |-> w.p, s |-> w.s, new |-> w.new])
       /\ UNCHANGED <<status, cancelled, receipts, kept, replies>>
  ELSE /\ conns' = Served(l)
       /\ Reply(l, [k |-> "failed", p |-> w.p, s |-> w.s, new |-> w.new, missing |-> TRUE])
       /\ UNCHANGED <<status, cancelled, receipts, kept, events>>

\* discard_owned
Discard(cs, s) ==
  /\ status' = [status EXCEPT ![s] = "gone"]
  /\ conns' = IF status[s] = "live" THEN EndOn(cs, s) ELSE cs
  /\ IF status[s] = "live" THEN TellEnded(s) ELSE UNCHANGED events

\* Mutant of Decide: only references count, not what was just created or attached.
DecideByReferences(l, s) ==
  s \notin conns[l].refs /\ \A k \in Links \ {l} : ~(conns[k].up /\ s \in conns[k].refs)

\* Whether a close ends the session.
Decide(l, s) == s \notin conns[l].refs /\ ~Shared(l, s)

\* close_session: decided once for each operation.
ServeDiscard(l, w) ==
  LET discard == IF receipts[w.op] = None THEN Decide(l, w.s) ELSE receipts[w.op]
      mine == w.s \in conns[l].refs \/ receipts[w.op] # None
      cs == IF mine THEN Served(l)
            ELSE [Served(l) EXCEPT ![l].created = @ \ {w.s}, ![l].attached = {x \in @ : x[2] # w.s}]
  IN  /\ receipts' = [receipts EXCEPT ![w.op] = discard]
      /\ IF discard THEN Discard(cs, w.s) ELSE conns' = cs /\ UNCHANGED <<status, events>>
      /\ kept' = IF discard THEN kept ELSE kept \cup {w.s}
      /\ Reply(l, [k |-> "discard", s |-> w.s])
      /\ UNCHANGED cancelled

\* cancel_creation: what the token has started is discarded whoever uses it.
ServeCancel(l, w) ==
  /\ cancelled' = cancelled \cup {w.s}
  /\ IF status[w.s] = "none" THEN conns' = Served(l) /\ UNCHANGED <<status, events>>
     ELSE Discard(Served(l), w.s)
  /\ Reply(l, [k |-> "cancel", s |-> w.s])
  /\ UNCHANGED <<receipts, kept>>

Serve(l) ==
  /\ conns[l].up /\ conns[l].q # <<>>
  /\ LET w == Head(conns[l].q) IN
       \/ w.k \in {"refs", "detach"} /\ ServeQuietly(l, w)
       \/ w.k = "attach" /\ w.s = None /\ ServeCreate(l, w)
       \/ w.k = "attach" /\ w.s # None /\ ServeAttach(l, w)
       \/ w.k = "discard" /\ ServeDiscard(l, w)
       \/ w.k = "cancel" /\ ServeCancel(l, w)
  /\ UNCHANGED <<mem, disk, run, ops, losses, failures, detached>>

\* A terminal's program exits by itself.
Exit(s) ==
  /\ status[s] = "live"
  /\ status' = [status EXCEPT ![s] = "ended"]
  /\ conns' = EndOn(conns, s)
  /\ TellEnded(s)
  /\ UNCHANGED <<mem, disk, run, replies, cancelled, receipts, ops, losses, failures, detached, kept>>

-----------------------------------------------------------------------------
(* Losses *)

\* What the server may still run of a connection's requests: the one that was
\* sent, and the next one too after an attach, whose reply is not waited for.
InTransit(q) ==
  IF q # <<>> /\ Head(q).k = "attach" /\ Head(q).s # None
  THEN SubSeq(q, 1, IF Len(q) = 1 THEN 1 ELSE 2)
  ELSE SubSeq(q, 1, IF q = <<>> THEN 0 ELSE 1)

\* The app loses its connection, which the server has yet to notice.
Cut(a) ==
  /\ run[a].ready /\ ~conns[<<a, Old>>].up
  /\ conns' = [conns EXCEPT ![<<a, Now>>] = Down,
                            ![<<a, Old>>] = [conns[<<a, Now>>] EXCEPT !.q = InTransit(conns[<<a, Now>>].q)]]
  /\ run' = [run EXCEPT ![a] = Offline]
  /\ replies' = [replies EXCEPT ![a] = <<>>] /\ events' = [events EXCEPT ![a] = <<>>]
  /\ a \in Frail /\ losses < MaxLosses /\ losses' = losses + 1
  /\ UNCHANGED <<disk, status, cancelled, receipts, ops, failures, detached, kept>>

Break(a) == Cut(a) /\ UNCHANGED mem

\* The app is killed; it starts again from its file.
Kill(a) == Cut(a) /\ mem' = [mem EXCEPT ![a] = disk[a]]

\* The server notices that a connection is gone.
CloseOld(a) ==
  /\ conns[<<a, Old>>].up
  /\ conns' = [conns EXCEPT ![<<a, Old>>] = Down]
  /\ UNCHANGED <<mem, disk, run, replies, events, Server, ops, failures, detached>>

-----------------------------------------------------------------------------

User(a) ==
  \E p \in Pane : \/ \E s \in Session \cup {None} : OpenPane(a, p, s)
                  \/ StartAttach(a, p) \/ ClosePane(a, p) \/ DetachPane(a, p)

Handler(a) == Connect(a) \/ Restore(a) \/ Receive(a) \/ CloseOld(a)

Next ==
  \/ \E a \in App : User(a) \/ Handler(a) \/ Break(a) \/ Kill(a)
  \/ \E l \in Links : Serve(l)
  \/ \E s \in Session : Exit(s)

Spec == Init /\ [][Next]_vars

-----------------------------------------------------------------------------
(* Properties *)

StateOK(m) ==
  /\ m.at \in [Pane -> {"new", "open", "gone"}]
  /\ m.session \in [Pane -> Session \cup {None}]
  /\ m.starting \subseteq Open(m)
  /\ m.cancels \subseteq Pane \ Open(m)
  /\ DOMAIN m.closes \subseteq Session

\* Panes and intents keep their types: only an open pane is starting, and only a
\* pane that is gone has its creation cancelled.
TypeOK ==
  /\ \A a \in App : StateOK(mem[a]) /\ StateOK(disk[a])
  /\ \A l \in Links : conns[l].refs \cup conns[l].created \subseteq Session
  /\ \A a \in App : run[a].detaching \subseteq run[a].pending
  /\ status \in [Session -> {"none", "live", "ended", "gone"}]

\* Somebody's state shows the session, will ask for it again or will end it.
RemembersIt(a, m, s) ==
  \/ s \in Shows(m) \cup DOMAIN m.closes
  \/ s[1] = a /\ s[2] \in m.cancels
  \/ s[1] = a /\ s[2] \in m.starting /\ m.session[s[2]] = None

\* No terminal runs that nobody remembers: whatever is lost, killed or not
\* saved, the files of the apps lead to every running session, unless it was
\* detached or a close left it to others.
EachRemembered ==
  \A s \in Session \ (detached \cup kept) :
    status[s] = "live" => /\ \E a \in App : RemembersIt(a, disk[a], s)
                          /\ \E a \in App : RemembersIt(a, mem[a], s)

Awaited(a, k, s) ==
  \E x \in Range(conns[<<a, Now>>].q) \cup Range(replies[a]) : x.k = k /\ x.s = s

\* A close or cancellation that a connected app keeps is always on its way to
\* the server or back: none waits for a request that was never sent.
CleanupUnderWay ==
  \A a \in App : run[a].ready /\ run[a].listed = None /\ failures = 0 =>
    /\ \A s \in DOMAIN mem[a].closes : Awaited(a, "discard", s)
    /\ \A p \in mem[a].cancels : Awaited(a, "cancel", <<a, p>>)

\* What is to end is remembered and under way.
NothingForgotten == EachRemembered /\ CleanupUnderWay

OnScreen(a, s) == \E p \in run[a].shown : mem[a].at[p] = "open" /\ mem[a].session[p] = s

\* No pane of the app has gone.
Intact(m) == \A p \in Pane : m.at[p] # "gone"

\* Closing a pane never ends a session that another connected app has on its
\* screen, however the close, the attach and the references cross, unless that app
\* has closed a pane itself.  It is not true of one that has: its references drop a
\* session that it closed, which stays released while the attach of another of its
\* panes to that session is under way.
CloseSparesShown ==
  [][\A o \in DOMAIN receipts : receipts[o] = None /\ receipts'[o] = TRUE =>
       \A s \in Session : status[s] = "live" /\ status'[s] = "gone" =>
         \A a \in App \ {o[1]} : Intact(mem[a]) => ~OnScreen(a, s)]_vars

\* Likewise for a pane that is closed while its terminal starts (server-model.md).
CancelSparesShown ==
  [][\A s \in cancelled' \ cancelled : status[s] = "live" =>
       \A a \in App \ {s[1]} : ~OnScreen(a, s)]_vars

\* Nothing is under way anywhere.
Settled ==
  \A a \in App : /\ run[a].ready /\ run[a].listed = None /\ ~conns[<<a, Old>>].up
                 /\ conns[<<a, Now>>].q = <<>> /\ replies[a] = <<>> /\ events[a] = <<>>
                 /\ mem[a].closes = <<>> /\ mem[a].cancels = {} /\ mem[a].starting \cap Open(mem[a]) \subseteq run[a].shown

\* Closing the last pane that shows a session ends it (server-model.md).
LastPaneEndsIt ==
  Settled => \A s \in Session \ detached : status[s] = "live" => \E a \in App : s \in Shows(mem[a])
=============================================================================
