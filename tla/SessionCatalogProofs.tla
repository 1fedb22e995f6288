-------------------------- MODULE SessionCatalogProofs --------------------------
(***************************************************************************)
(* Safety of the registry and the catalog, for any number of sessions,     *)
(* operations, failed writes and restarts.                                 *)
(*                                                                         *)
(* What the runs check is not inductive: that an answer holds depends on   *)
(* the contents that a power loss may bring back, and that a removed       *)
(* session stays away depends on where the removal under way stands.  The  *)
(* inductive invariant has four parts:                                     *)
(*   Typed    every variable has its type, the operation under way a shape *)
(*   Durable  every content the disk may hold, the present one and the     *)
(*            older ones, supports every answer given so far               *)
(*   Safe     running shells can be reached, an operation is as far as its *)
(*            step says, and what is gone is nowhere                       *)
(*   Shown    the catalog shows ends, and a start finishes removals        *)
(***************************************************************************)
EXTENDS SessionCatalog, FiniteSetTheorems, TLAPS

-----------------------------------------------------------------------------
(* The inductive invariant *)

\* The contents of the catalog's file.
Catalog ==
  [status : [Session -> {"none", "starting", "live", "ended"}], discarding : SUBSET Session,
   cancelled : SUBSET Creation, creations : SUBSET (Creation \X Session),
   failed : SUBSET Creation, closes : SUBSET (Closing \X Session \X BOOLEAN)]

\* Everything the disk may hold after a power loss.
Contents == older \cup {cat}

\* The steps of a creation that may still list its session, and those of a removal.
Starting == {"reserve", "spawn", "publish", "insert", "withdraw"}
Removing == {"begin", "wait", "erase", "finish"}

\* The operation under way is about one session, at a step of its kind.
Called ==
  /\ call \in [kind : {"idle", "create", "cancel", "close", "discard", "resume", "prune"},
              op : SUBSET (Creation \cup Closing), session : SUBSET Session,
              at : {"idle", "fail", "withdrawn"} \cup Starting \cup Removing]
  /\ call.kind = "idle" => call = Idle
  /\ call.kind = "create" => call.at \in Starting \cup {"fail", "withdrawn"}
  /\ call.kind \notin {"idle", "create"} => call.at \in Removing
  /\ call.kind # "idle" => \E s \in Session : call.session = {s}
  /\ call.kind \in {"create", "cancel"} => \E o \in Creation : call.op = {o}
  /\ call.kind = "close" => \E k \in Closing : call.op = {k}

Counted == faults \in 0 .. MaxFaults /\ restarts \in 0 .. MaxRestarts

Stored == cat \in Catalog /\ older \subseteq Catalog /\ saved \subseteq Session

Served ==
  /\ pending \subseteq Session /\ listing \subseteq Session /\ starting \subseteq Session
  /\ stopping \in BOOLEAN /\ told \subseteq Session /\ todo \subseteq Session
  /\ shell \in [Session -> {"none", "running", "exited", "recorded", "gone"}]
  /\ phase \in {"down", "cleanup", "up"}

History ==
  /\ started \in [Creation -> SUBSET Session] /\ made \subseteq Creation \X Session
  /\ refused \subseteq Creation /\ kept \subseteq Closing
  /\ doomed \subseteq Session /\ gone \subseteq Session

Typed == Stored /\ Served /\ Called /\ Counted /\ History

\* A content has one session for a creation, one decision for a close, and has lost
\* no session but those some operation began to remove.
Decided(c) ==
  /\ \A o \in Creation, s, t \in Session : <<o, s>> \in c.creations /\ <<o, t>> \in c.creations => s = t
  /\ \A k \in Closing, s, t \in Session, d, e \in BOOLEAN :
       <<k, s, d>> \in c.closes /\ <<k, t, e>> \in c.closes => d = e
  /\ \A o \in Creation, s \in Session : <<o, s>> \in c.creations => s \in Known(c) \cup doomed

\* A content supports the answers given so far.
Holds(c) ==
  /\ \A o \in Creation : \A s \in started[o] : <<o, s>> \in c.creations
  /\ made \subseteq c.creations
  /\ refused \subseteq c.cancelled
  /\ \A k \in kept : \E s \in Session : <<k, s, FALSE>> \in c.closes
  /\ \A s \in gone : c.status[s] = "none"

\* A content has what the operation under way has recorded already.
Covers(c) ==
  /\ (call.kind = "create" /\ call.at # "reserve") \/ call.kind = "cancel" =>
       call.op \X call.session \subseteq c.creations
  /\ call.kind = "cancel" => call.op \subseteq c.cancelled
  /\ call.kind = "close" => \A k \in call.op, s \in call.session : <<k, s, TRUE>> \in c.closes

Good(c) == Decided(c) /\ Holds(c) /\ Covers(c)

\* Older contents know no more than the present one.
Durable ==
  \A c \in Contents : Good(c) /\ c.creations \subseteq cat.creations /\ c.closes \subseteq cat.closes

\* The session's process or its owner thread is there.
Active(s) == shell[s] \in {"running", "exited", "recorded"}

\* Shells can be reached, and only the creation under way keeps a reservation.
Reach ==
  /\ starting \subseteq call.session
  /\ starting # {} => call.kind = "create" /\ call.at \in Starting
  /\ \A s \in Session : Active(s) => s \in listing \cup starting
  /\ \A s \in listing : shell[s] # "none"
  /\ Running \subseteq Known(cat)

\* How far the operation under way must have come to be at its step.
Progress ==
  /\ call.kind = "create" /\ call.at = "reserve" => \A o \in call.op : Made(o) = {}
  /\ call.kind = "create" /\ call.at \in {"reserve", "spawn"} =>
       /\ starting = call.session
       /\ call.session \cap doomed = {} /\ \A s \in call.session : shell[s] = "none"
       /\ call.op \cap cat.cancelled = {}
  /\ call.at \in {"spawn", "publish"} => call.session \subseteq Known(cat)
  /\ call.at \in {"publish", "insert", "withdraw"} => \A s \in call.session : shell[s] # "none"
  /\ call.kind \notin {"idle", "create"} => call.session \subseteq doomed
  /\ call.at \in {"erase", "finish"} => call.session \cap listing = {}
  /\ call.at = "finish" => call.session \cap saved = {}
  /\ call.kind = "resume" => phase = "cleanup" /\ call.session \subseteq todo
  /\ call.kind \notin {"idle", "resume"} => phase = "up"

\* What was removed, or started for a cancelled creation, is nowhere.
Removed ==
  /\ gone \subseteq doomed
  /\ \A o \in refused : started[o] \subseteq gone
  /\ gone \cap (listing \cup starting \cup saved) = {}

\* An ended session is shown as ended, or its end waits to be written.
Ends ==
  phase # "down" => \A s \in Session :
    /\ cat.status[s] \in {"starting", "live"} /\ shell[s] \in {"recorded", "gone"} => s \in pending
    /\ cat.status[s] = "live" => shell[s] # "none"

\* A start has every removal it found still on its list.
Cleanup == phase = "cleanup" => Discarding(cat) \subseteq todo

\* No session is listed and reserved at once.
Apart == listing \cap starting = {}

-----------------------------------------------------------------------------
(* Types *)

\* A session ends in a content: nothing else of it changes.
LEMMA EndedContent ==
  ASSUME NEW c \in Catalog, NEW E \in SUBSET Session
  PROVE  /\ Ended(c, E) \in Catalog
         /\ \A s \in Session : Ended(c, E).status[s] = IF s \in E /\ c.status[s] # "none" THEN "ended" ELSE c.status[s]
         /\ \A f \in {"discarding", "cancelled", "creations", "failed", "closes"} : Ended(c, E)[f] = c[f]
         /\ Known(Ended(c, E)) = Known(c)
  BY DEF Ended, Catalog, Known

\* Whatever becomes of a write, the file has the old content or the new one, and
\* only these two and what was older may come back.
LEMMA Written ==
  ASSUME Typed, NEW new \in Catalog, Write(new) \/ WriteFails(new)
  PROVE  /\ cat' \in {cat, new} /\ cat' \in Catalog /\ older' \subseteq Catalog
         /\ Contents' \subseteq Contents \cup {cat'}
         /\ Write(new) => cat' = new /\ Contents' = {new}
         /\ UNCHANGED restarts => Counted'
  BY SessionCatalogAssumption DEF Typed, Stored, Counted, Write, WriteFails, Contents

LEMMA Synced ==
  ASSUME Typed, Sync \/ SyncFails
  PROVE  /\ cat' = cat /\ older' \subseteq Catalog /\ Contents' \subseteq Contents
         /\ Sync => Contents' = {cat}
         /\ UNCHANGED restarts => Counted'
  BY SessionCatalogAssumption DEF Typed, Stored, Counted, Sync, SyncFails, Contents

LEMMA WroteExits ==
  ASSUME Typed, NEW E \in SUBSET Session, WriteExits(E)
  PROVE  /\ cat' \in {cat, Ended(cat, E)} /\ cat' \in Catalog /\ older' \subseteq Catalog
         /\ Contents' \subseteq Contents \cup {cat'}
         /\ pending' = E \/ (pending' = {} /\ cat' = Ended(cat, E))
         /\ UNCHANGED restarts => Counted'
  <1>1. cat \in Catalog /\ Ended(cat, E) \in Catalog
    BY EndedContent DEF Typed, Stored
  <1>2. CASE Write(Ended(cat, E)) \/ WriteFails(Ended(cat, E))
    BY <1>1, <1>2, Written DEF WriteExits, Write, WriteFails, Typed, Stored, Contents
  <1>3. CASE UNCHANGED <<cat, older, faults>> /\ pending' = E
    BY <1>1, <1>3 DEF Typed, Stored, Counted, Contents
  <1> QED
    BY <1>2, <1>3 DEF WriteExits

\* What each operation would write.
Reserving(o, s) == [cat EXCEPT !.status[s] = "starting", !.creations = @ \cup {<<o, s>>}]
Publishing(s) == [cat EXCEPT !.status[s] = IF @ = "starting" THEN "live" ELSE @]
Failing(o, s) == Ended([cat EXCEPT !.failed = @ \cup {o}], {s})
Cancelling(o) == [cat EXCEPT !.cancelled = @ \cup {o}]
Closed(k, s, d) == [cat EXCEPT !.closes = @ \cup {<<k, s, d>>},
                               !.discarding = @ \cup (IF d THEN {s} ELSE {})]
Marking(s) == [cat EXCEPT !.discarding = @ \cup {s}]
Finishing(s) == [cat EXCEPT !.status[s] = "none", !.discarding = @ \ {s}]

LEMMA NewContents ==
  ASSUME Typed
  PROVE  /\ \A o \in Creation, s \in Session : Reserving(o, s) \in Catalog /\ Failing(o, s) \in Catalog
         /\ \A s \in Session : Publishing(s) \in Catalog /\ Marking(s) \in Catalog /\ Finishing(s) \in Catalog
         /\ \A o \in Creation : Cancelling(o) \in Catalog
         /\ \A k \in Closing, s \in Session, d \in BOOLEAN : Closed(k, s, d) \in Catalog
  <1> USE DEF Typed, Stored, Catalog
  <1>1. ASSUME NEW o \in Creation, NEW s \in Session PROVE Reserving(o, s) \in Catalog
    <2>1. cat.creations \cup {<<o, s>>} \in SUBSET (Creation \X Session)
      OBVIOUS
    <2>2. [cat.status EXCEPT ![s] = "starting"] \in [Session -> {"none", "starting", "live", "ended"}]
      OBVIOUS
    <2> QED
      BY <2>1, <2>2 DEF Reserving
  <1>2. ASSUME NEW s \in Session PROVE Publishing(s) \in Catalog
    BY DEF Publishing
  <1>3. ASSUME NEW o \in Creation, NEW s \in Session PROVE Failing(o, s) \in Catalog
    <2>1. [cat EXCEPT !.failed = @ \cup {o}] \in Catalog
      OBVIOUS
    <2> HIDE DEF Catalog
    <2> QED
      BY <2>1, EndedContent DEF Failing
  <1>4. ASSUME NEW o \in Creation PROVE Cancelling(o) \in Catalog
    BY DEF Cancelling
  <1>5. ASSUME NEW k \in Closing, NEW s \in Session, NEW d \in BOOLEAN PROVE Closed(k, s, d) \in Catalog
    <2>1. cat.closes \cup {<<k, s, d>>} \in SUBSET (Closing \X Session \X BOOLEAN)
      OBVIOUS
    <2>2. cat.discarding \cup (IF d THEN {s} ELSE {}) \in SUBSET Session
      OBVIOUS
    <2> QED
      BY <2>1, <2>2 DEF Closed
  <1>6. ASSUME NEW s \in Session PROVE Marking(s) \in Catalog /\ Finishing(s) \in Catalog
    BY DEF Marking, Finishing
  <1> HIDE DEF Typed, Stored, Catalog
  <1> QED
    BY <1>1, <1>2, <1>3, <1>4, <1>5, <1>6

\* A step of an operation stays with it.
LEMMA StepCall ==
  ASSUME Called, NEW at, Step(at),
         \/ call.kind = "create" /\ at \in Starting \cup {"fail", "withdrawn"}
         \/ call.kind \notin {"idle", "create"} /\ at \in Removing
  PROVE  /\ Called' /\ call'.kind = call.kind /\ call'.op = call.op
         /\ call'.session = call.session /\ call'.at = at
  BY DEF Called, Step, Idle

LEMMA CallAt ==
  ASSUME Called
  PROVE  /\ call.at \in Starting \cup {"fail", "withdrawn"} => call.kind = "create"
         /\ call.at \in Removing => call.kind \notin {"idle", "create"}
         /\ call.at = "idle" => call.kind = "idle"
  BY DEF Called, Starting, Removing, Idle

\* What a step leaves alone keeps its type.
LEMMA Same ==
  /\ Stored /\ UNCHANGED <<cat, older, saved>> => Stored'
  /\ Served /\ UNCHANGED <<pending, listing, starting, stopping, told, todo, shell, phase>> => Served'
  /\ Called /\ UNCHANGED call => Called'
  /\ call' = Idle => Called'
  /\ Counted /\ UNCHANGED <<faults, restarts>> => Counted'
  /\ History /\ UNCHANGED <<started, made, refused, kept, doomed, gone>> => History'
  <1>1. Stored /\ UNCHANGED <<cat, older, saved>> => Stored'
    BY DEF Stored
  <1>2. Served /\ UNCHANGED <<pending, listing, starting, stopping, told, todo, shell, phase>> => Served'
    BY DEF Served
  <1>3. Called /\ UNCHANGED call => Called'
    BY DEF Called
  <1>4. call' = Idle => Called'
    BY DEF Called, Idle
  <1>5. Counted /\ UNCHANGED <<faults, restarts>> => Counted'
    BY DEF Counted
  <1>6. History /\ UNCHANGED <<started, made, refused, kept, doomed, gone>> => History'
    BY DEF History
  <1> QED
    BY <1>1, <1>2, <1>3, <1>4, <1>5, <1>6

LEMMA WriteTyped ==
  ASSUME Typed, NEW new \in Catalog, Write(new) \/ WriteFails(new), UNCHANGED <<saved, restarts>>
  PROVE  Stored' /\ Counted'
  BY Written DEF Stored, Typed

LEMMA SyncTyped ==
  ASSUME Typed, Sync \/ SyncFails, UNCHANGED <<saved, restarts>>
  PROVE  Stored' /\ Counted'
  BY Synced DEF Stored, Typed

\* An operation that gives up is over, and so is a start that fails.
LEMMA LostTypes == Served /\ Lost => Served' /\ Called'
  <1> SUFFICES ASSUME Served, Lost PROVE Served' /\ Called'
    OBVIOUS
  <1>1. shell' \in [Session -> {"none", "running", "exited", "recorded", "gone"}]
    BY DEF Lost
  <1> QED
    BY <1>1, Same DEF Served, Lost

LEMMA FailTypes == Served /\ Fail => Served' /\ Called'
  BY LostTypes, Same DEF Fail, registry

LEMMA RemovalTypes ==
  ASSUME NEW s \in Session, NEW kind, NEW op, Removal(kind, op, s),
         \/ kind = "cancel" /\ \E o \in Creation : op = {o}
         \/ kind = "close" /\ \E k \in Closing : op = {k}
         \/ kind \in {"discard", "resume"} /\ op = {}
  PROVE  Called' /\ (doomed \subseteq Session => doomed' \subseteq Session)
  BY DEF Removal, Called, Removing, Idle

LEMMA TypedInit == Init => Typed
  <1> SUFFICES ASSUME Init PROVE Typed
    OBVIOUS
  <1>1. Stored
    BY DEF Init, Stored, Empty, Catalog
  <1>2. Called
    BY DEF Init, Called, Idle
  <1>3. Counted
    BY SessionCatalogAssumption DEF Init, Counted
  <1>4. Served
    BY DEF Init, Served
  <1>5. History
    BY DEF Init, History
  <1> QED
    BY <1>1, <1>2, <1>3, <1>4, <1>5 DEF Typed

LEMMA CreationTyped ==
  ASSUME Typed, NEW o \in Creation, NEW s \in Session,
         \/ CreateAgain(o) \/ Create(o) \/ Reserve(o, s) \/ Spawn(o, s) \/ FailCreation(o, s)
         \/ Publish(s) \/ Insert(o, s) \/ Withdrawn
  PROVE  Typed'
  <1> USE DEF bounds, answers, registry, Typed
  <1>1. CASE CreateAgain(o)
    <2>1. Stored' /\ Counted'
      BY <1>1, SyncTyped DEF CreateAgain
    <2>2. Made(o) \subseteq Session
      BY DEF Made
    <2>3. made' \subseteq Creation \X Session
      BY <1>1, <2>2 DEF CreateAgain, History
    <2>4. History'
      BY <1>1, <2>3 DEF CreateAgain, History
    <2> QED
      BY <1>1, <2>1, <2>4, Same DEF CreateAgain
  <1>2. CASE Create(o)
    <2>1. Served' /\ Called'
      BY <1>2 DEF Create, Fresh, Served, Called, Starting, Idle
    <2> QED
      BY <1>2, <2>1, Same DEF Create
  <1>3. CASE Reserve(o, s)
    <2>1. Stored' /\ Counted'
      BY <1>3, NewContents, WriteTyped DEF Reserve, Reserving
    <2>2. Served'
      BY <1>3 DEF Reserve, Served
    <2>3. Called'
      BY <1>3, StepCall, Same DEF Reserve, Starting
    <2> QED
      BY <1>3, <2>1, <2>2, <2>3, Same DEF Reserve
  <1>4. CASE Spawn(o, s)
    <2>1. Called'
      BY <1>4, CallAt, StepCall DEF Spawn, Starting
    <2>2. Served' /\ Counted'
      BY <1>4, SessionCatalogAssumption DEF Spawn, Served, Counted
    <2>3. started' \in [Creation -> SUBSET Session]
      BY <1>4 DEF Spawn, History
    <2>4. History'
      BY <1>4, <2>3 DEF Spawn, History
    <2> QED
      BY <1>4, <2>1, <2>2, <2>4, Same DEF Spawn
  <1>5. CASE FailCreation(o, s)
    <2>1. Stored' /\ Counted'
      BY <1>5, NewContents, WriteTyped DEF FailCreation, Failing
    <2> QED
      BY <1>5, <2>1, Same DEF FailCreation
  <1>6. CASE Publish(s)
    <2>1. Stored' /\ Counted'
      BY <1>6, NewContents, WriteTyped DEF Publish, Publishing
    <2>2. Called'
      BY <1>6, CallAt, StepCall DEF Publish, Starting
    <2> QED
      BY <1>6, <2>1, <2>2, Same DEF Publish
  <1>7. CASE Insert(o, s)
    <2>1. Called'
      BY <1>7, CallAt, StepCall, Same DEF Insert, Starting
    <2>2. History'
      BY <1>7 DEF Insert, History
    <2>3. Served'
      BY <1>7 DEF Insert, Served
    <2> QED
      BY <1>7, <2>1, <2>2, <2>3, Same DEF Insert
  <1>8. CASE Withdrawn
    BY <1>8, Same DEF Withdrawn
  <1> QED
    BY <1>1, <1>2, <1>3, <1>4, <1>5, <1>6, <1>7, <1>8

LEMMA RequestTyped ==
  ASSUME Typed, NEW o \in Creation, NEW k \in Closing, NEW s \in Session, NEW discard \in BOOLEAN,
         \/ Cancel(o) \/ Discard(s) \/ CloseAgain(k, s) \/ Close(k, s, discard) \/ Prune(s) \/ Resume(s)
  PROVE  Typed'
  <1> USE DEF bounds, answers, registry, Typed
  <1>1. CASE Cancel(o)
    <2>1. Stored' /\ Counted'
      BY <1>1, NewContents, WriteTyped DEF Cancel, Cancelling
    <2>2. Made(o) \subseteq Session
      BY DEF Made
    <2>3. Called'
      BY <1>1, <2>2, RemovalTypes, Same DEF Cancel
    <2>4. doomed' \subseteq Session
      BY <1>1, <2>2 DEF Cancel, Removal, History
    <2>5. History'
      BY <1>1, <2>4 DEF Cancel, History
    <2> QED
      BY <1>1, <2>1, <2>3, <2>5, Same DEF Cancel
  <1>2. CASE Discard(s)
    <2>1. Called' /\ History'
      BY <1>2, RemovalTypes DEF Discard, History
    <2> QED
      BY <1>2, <2>1, Same DEF Discard
  <1>3. CASE CloseAgain(k, s)
    <2>1. Stored' /\ Counted'
      BY <1>3, SyncTyped DEF CloseAgain
    <2>2. Called'
      BY <1>3, RemovalTypes, Same DEF CloseAgain
    <2>3. doomed' \subseteq Session /\ kept' \subseteq Closing
      BY <1>3 DEF CloseAgain, Removal, History
    <2>4. History'
      BY <1>3, <2>3 DEF CloseAgain, History
    <2> QED
      BY <1>3, <2>1, <2>2, <2>4, Same DEF CloseAgain
  <1>4. CASE Close(k, s, discard)
    <2>1. Stored' /\ Counted'
      BY <1>4, NewContents, WriteTyped DEF Close, Closed
    <2>2. Called'
      BY <1>4, RemovalTypes, Same DEF Close
    <2>3. doomed' \subseteq Session /\ kept' \subseteq Closing
      BY <1>4 DEF Close, Removal, History
    <2>4. History'
      BY <1>4, <2>3 DEF Close, History
    <2> QED
      BY <1>4, <2>1, <2>2, <2>4, Same DEF Close
  <1>5. CASE Prune(s)
    <2>1. Called' /\ History'
      BY <1>5 DEF Prune, Called, Removing, Idle, History
    <2> QED
      BY <1>5, <2>1, Same DEF Prune
  <1>6. CASE Resume(s)
    <2>1. Called' /\ History'
      BY <1>6, RemovalTypes DEF Resume, History
    <2> QED
      BY <1>6, <2>1, Same DEF Resume
  <1> QED
    BY <1>1, <1>2, <1>3, <1>4, <1>5, <1>6

LEMMA DiscardTyped ==
  ASSUME Typed, NEW s \in Session,
         \/ BeginDiscard(s) \/ Wait(s) \/ Erase(s) \/ FinishDiscard(s)
  PROVE  Typed'
  <1> USE DEF bounds, answers, registry, Typed
  <1>1. CASE BeginDiscard(s)
    <2>1. Stored' /\ Counted'
      BY <1>1, NewContents, WriteTyped DEF BeginDiscard, Marking
    <2>2. Called'
      BY <1>1, CallAt, StepCall, FailTypes DEF BeginDiscard, Removing
    <2>3. Served'
      <3>1. CASE Fail
        BY <3>1, FailTypes
      <3>2. CASE told' = told \cup ({s} \cap listing) /\ UNCHANGED <<pending, listing, starting, stopping, shell, phase, todo>>
        BY <3>2 DEF Served
      <3> QED
        BY <1>1, <3>1, <3>2 DEF BeginDiscard
    <2> QED
      BY <1>1, <2>1, <2>2, <2>3, Same DEF BeginDiscard
  <1>2. CASE Wait(s)
    <2>1. Called'
      BY <1>2, CallAt, StepCall, FailTypes DEF Wait, Removing
    <2>2. Served'
      BY <1>2, FailTypes, Same DEF Wait
    <2> QED
      BY <1>2, <2>1, <2>2, Same DEF Wait
  <1>3. CASE Erase(s)
    <2>1. Called'
      BY <1>3, CallAt, StepCall, FailTypes DEF Erase, Removing
    <2>2. Served'
      BY <1>3, FailTypes, Same DEF Erase
    <2>3. Stored'
      BY <1>3 DEF Erase, Stored
    <2>4. Counted'
      BY <1>3, SessionCatalogAssumption DEF Erase, Counted
    <2> QED
      BY <1>3, <2>1, <2>2, <2>3, <2>4, Same DEF Erase
  <1>4. CASE FinishDiscard(s)
    <2>1. Stored' /\ Counted'
      BY <1>4, NewContents, WriteTyped DEF FinishDiscard, Finishing
    <2>2. Called'
      BY <1>4, FailTypes, Same DEF FinishDiscard
    <2>3. Served'
      <3>1. CASE Fail
        BY <3>1, FailTypes
      <3>2. CASE todo' = todo \ {s} /\ UNCHANGED <<pending, registry, shell, phase>>
        BY <3>2 DEF Served
      <3> QED
        BY <1>4, <3>1, <3>2 DEF FinishDiscard
    <2>4. refused' \subseteq Creation /\ gone' \subseteq Session
      BY <1>4 DEF FinishDiscard, Called, History
    <2>5. History'
      BY <1>4, <2>4 DEF FinishDiscard, History
    <2> QED
      BY <1>4, <2>1, <2>2, <2>3, <2>5, Same DEF FinishDiscard
  <1> QED
    BY <1>1, <1>2, <1>3, <1>4

LEMMA OwnerTyped ==
  ASSUME Typed, NEW s \in Session,
         \/ Checkpoint(s) \/ Exit(s) \/ RecordExit(s) \/ RetryExits \/ Unlist(s)
  PROVE  Typed'
  <1> USE DEF bounds, answers, registry, Typed
  <1>1. CASE Checkpoint(s)
    <2>1. Stored'
      BY <1>1 DEF Checkpoint, Stored
    <2> QED
      BY <1>1, <2>1, Same DEF Checkpoint
  <1>2. CASE Exit(s)
    <2>1. Stored' /\ Served'
      BY <1>2 DEF Exit, Stored, Served
    <2> QED
      BY <1>2, <2>1, Same DEF Exit
  <1>3. CASE RecordExit(s)
    <2>1. pending \cup {s} \in SUBSET Session /\ UNCHANGED <<saved, restarts>>
      BY <1>3 DEF Served, RecordExit
    <2>2. Stored' /\ Counted' /\ pending' \subseteq Session
      BY <1>3, <2>1, WroteExits DEF RecordExit, Stored
    <2>3. Served'
      BY <1>3, <2>2 DEF RecordExit, Served
    <2> QED
      BY <1>3, <2>2, <2>3, Same DEF RecordExit
  <1>4. CASE RetryExits
    <2>1. pending \in SUBSET Session /\ UNCHANGED <<saved, restarts>>
      BY <1>4 DEF Served, RetryExits
    <2>2. Stored' /\ Counted' /\ pending' \subseteq Session
      BY <1>4, <2>1, WroteExits DEF RetryExits, Stored
    <2>3. Served'
      BY <1>4, <2>2 DEF RetryExits, Served
    <2> QED
      BY <1>4, <2>2, <2>3, Same DEF RetryExits
  <1>5. CASE Unlist(s)
    <2>1. Served'
      BY <1>5 DEF Unlist, Served
    <2> QED
      BY <1>5, <2>1, Same DEF Unlist
  <1> QED
    BY <1>1, <1>2, <1>3, <1>4, <1>5

LEMMA ServerTyped ==
  ASSUME Typed, Shutdown \/ StopIfIdle \/ Die \/ PowerLoss \/ Open \/ Serve
  PROVE  Typed'
  <1> USE DEF bounds, answers, registry, Typed
  <1>1. CASE Shutdown \/ StopIfIdle
    <2>1. Served'
      BY <1>1 DEF Shutdown, StopIfIdle, Served
    <2> QED
      BY <1>1, <2>1, Same DEF Shutdown, StopIfIdle
  <1>2. CASE Die
    <2>1. Counted'
      BY <1>2, SessionCatalogAssumption DEF Die, Counted
    <2> QED
      BY <1>2, <2>1, LostTypes, Same DEF Die
  <1>3. CASE PowerLoss
    <2>1. Stored'
      BY <1>3 DEF PowerLoss, Stored
    <2>2. Counted'
      BY <1>3, SessionCatalogAssumption DEF PowerLoss, Counted
    <2> QED
      BY <1>3, <2>1, <2>2, LostTypes, Same DEF PowerLoss
  <1>4. CASE Open
    <2>1. Ended(cat, Session) \in Catalog
      BY EndedContent DEF Stored
    <2>2. Stored' /\ Counted'
      BY <1>4, <2>1, WriteTyped DEF Open
    <2>3. Discarding(Ended(cat, Session)) \subseteq Session
      BY <2>1 DEF Discarding, Known, Catalog
    <2>4. Served'
      BY <1>4, <2>3 DEF Open, Served
    <2> QED
      BY <1>4, <2>2, <2>4, Same DEF Open
  <1>5. CASE Serve
    <2>1. Served'
      BY <1>5 DEF Serve, Served
    <2> QED
      BY <1>5, <2>1, Same DEF Serve
  <1> QED
    BY <1>1, <1>2, <1>3, <1>4, <1>5

-----------------------------------------------------------------------------
(* What was answered can no longer be taken back by a power loss *)

LEMMA Fields ==
  ASSUME Typed
  PROVE  /\ \A o \in Creation, s \in Session :
              /\ Reserving(o, s).status = [cat.status EXCEPT ![s] = "starting"]
              /\ Reserving(o, s).creations = cat.creations \cup {<<o, s>>}
              /\ Reserving(o, s).closes = cat.closes /\ Reserving(o, s).cancelled = cat.cancelled
              /\ Reserving(o, s).discarding = cat.discarding
         /\ \A s \in Session : Publishing(s) = [cat EXCEPT !.status = Publishing(s).status]
         /\ \A s, t \in Session : Publishing(s).status[t] =
              IF t = s /\ cat.status[s] = "starting" THEN "live" ELSE cat.status[t]
         /\ \A o \in Creation, s \in Session :
              /\ Failing(o, s) = [cat EXCEPT !.status = Failing(o, s).status, !.failed = Failing(o, s).failed]
              /\ \A t \in Session : Failing(o, s).status[t] =
                   IF t = s /\ cat.status[s] # "none" THEN "ended" ELSE cat.status[t]
         /\ \A o \in Creation : Cancelling(o) = [cat EXCEPT !.cancelled = cat.cancelled \cup {o}]
         /\ \A k \in Closing, s \in Session, d \in BOOLEAN :
              /\ Closed(k, s, d).closes = cat.closes \cup {<<k, s, d>>}
              /\ Closed(k, s, d).discarding = cat.discarding \cup (IF d THEN {s} ELSE {})
              /\ Closed(k, s, d).creations = cat.creations /\ Closed(k, s, d).status = cat.status
              /\ Closed(k, s, d).cancelled = cat.cancelled
         /\ \A s \in Session :
              /\ Marking(s) = [cat EXCEPT !.discarding = cat.discarding \cup {s}]
              /\ Finishing(s) = [cat EXCEPT !.status = [cat.status EXCEPT ![s] = "none"],
                                            !.discarding = cat.discarding \ {s}]
  <1> USE DEF Typed, Stored, Catalog
  <1>1. ASSUME NEW s \in Session
        PROVE  /\ Publishing(s) = [cat EXCEPT !.status = Publishing(s).status]
               /\ \A t \in Session : Publishing(s).status[t] =
                    IF t = s /\ cat.status[s] = "starting" THEN "live" ELSE cat.status[t]
    BY DEF Publishing
  <1>2. ASSUME NEW o \in Creation, NEW s \in Session
        PROVE  /\ Failing(o, s) = [cat EXCEPT !.status = Failing(o, s).status, !.failed = Failing(o, s).failed]
               /\ \A t \in Session : Failing(o, s).status[t] =
                    IF t = s /\ cat.status[s] # "none" THEN "ended" ELSE cat.status[t]
    BY DEF Failing, Ended
  <1> QED
    BY <1>1, <1>2 DEF Reserving, Cancelling, Closed, Marking, Finishing

\* A content in which only the states of known sessions differ, or what is discarded.
Alike(new) ==
  /\ new.creations = cat.creations /\ new.closes = cat.closes /\ new.cancelled = cat.cancelled
  /\ \A s \in Session : new.status[s] = "none" <=> cat.status[s] = "none"

LEMMA AlikeContents ==
  ASSUME Typed
  PROVE  /\ \A o \in Creation, s \in Session : Alike(Failing(o, s))
         /\ \A s \in Session : Alike(Publishing(s)) /\ Alike(Marking(s))
         /\ \A E \in SUBSET Session : Alike(Ended(cat, E))
  <1>1. ASSUME NEW E \in SUBSET Session PROVE Alike(Ended(cat, E))
    <2>1. /\ \A s \in Session : Ended(cat, E).status[s] = IF s \in E /\ cat.status[s] # "none" THEN "ended" ELSE cat.status[s]
          /\ \A f \in {"discarding", "cancelled", "creations", "failed", "closes"} : Ended(cat, E)[f] = cat[f]
      BY EndedContent DEF Typed, Stored
    <2> QED
      BY <2>1 DEF Alike
  <1>2. ASSUME NEW o \in Creation, NEW s \in Session PROVE Alike(Failing(o, s))
    BY DEF Alike, Failing, Ended, Typed, Stored, Catalog
  <1>3. ASSUME NEW s \in Session PROVE Alike(Publishing(s)) /\ Alike(Marking(s))
    BY DEF Alike, Publishing, Marking, Typed, Stored, Catalog
  <1> QED
    BY <1>1, <1>2, <1>3

\* The operation under way, if any, is at the same point or has not written yet.
CallKept ==
  \/ call'.kind \notin {"create", "cancel", "close"}
  \/ call'.kind = "create" /\ call'.at = "reserve"
  \/ /\ call'.kind = call.kind /\ call'.op = call.op /\ call'.session = call.session
     /\ call.kind = "create" => call.at # "reserve"

AnswersKept == UNCHANGED <<started, made, refused, kept, gone>> /\ doomed \subseteq doomed'

LEMMA GoodKept ==
  ASSUME NEW c, Good(c), AnswersKept, CallKept
  PROVE  Good(c)'
  <1>1. Decided(c)'
    BY DEF Good, Decided, AnswersKept, Known
  <1>2. Holds(c)'
    BY DEF Good, Holds, AnswersKept
  <1>3. Covers(c)'
    BY DEF Good, Covers, CallKept
  <1> QED
    BY <1>1, <1>2, <1>3 DEF Good

LEMMA GoodAlike ==
  ASSUME Typed, NEW c \in Catalog, Good(cat), Alike(c)
  PROVE  Good(c)
  <1>1. Known(c) = Known(cat)
    BY DEF Known, Alike
  <1>2. Decided(c)
    BY <1>1 DEF Good, Decided, Alike
  <1>3. Holds(c)
    BY DEF Good, Holds, Alike, Typed, History
  <1>4. Covers(c)
    BY DEF Good, Covers, Alike
  <1> QED
    BY <1>2, <1>3, <1>4 DEF Good

\* Steps that leave the file alone, and those that write a content like it.
LEMMA DurableSame ==
  ASSUME Typed, Durable, AnswersKept, CallKept, UNCHANGED <<cat, older>>
  PROVE  Durable'
  BY GoodKept DEF Durable, Contents

LEMMA DurableAlike ==
  ASSUME Typed, Durable, AnswersKept, CallKept, NEW new \in Catalog, Alike(new),
         cat' \in {cat, new}, Contents' \subseteq Contents \cup {cat'}
  PROVE  Durable'
  <1>1. Good(cat) /\ \A c \in Contents : c.creations \subseteq cat.creations /\ c.closes \subseteq cat.closes
    BY DEF Durable, Contents
  <1>2. Good(new)
    BY <1>1, GoodAlike
  <1>3. \A c \in Contents' : Good(c)
    BY <1>1, <1>2 DEF Durable
  <1>4. \A c \in Contents' : Good(c)'
    BY <1>3, GoodKept
  <1>5. cat'.creations = cat.creations /\ cat'.closes = cat.closes
    BY DEF Alike
  <1> QED
    BY <1>1, <1>4, <1>5 DEF Durable

\* Any write that only adds to the answers on record.
LEMMA DurableWrite ==
  ASSUME Typed, Durable, NEW new \in Catalog, Write(new) \/ WriteFails(new),
         cat.creations \subseteq new.creations, cat.closes \subseteq new.closes,
         \A c \in Contents' : Good(c)'
  PROVE  Durable'
  <1>1. \A c \in Contents : c.creations \subseteq cat.creations /\ c.closes \subseteq cat.closes
    BY DEF Durable, Contents
  <1>2. cat' \in {cat, new} /\ Contents' \subseteq Contents \cup {cat'}
    BY Written
  <1> QED
    BY <1>1, <1>2 DEF Durable

LEMMA DurableInit == Init => Durable
  <1> SUFFICES ASSUME Init PROVE Durable
    OBVIOUS
  <1>1. Contents = {Empty}
    BY DEF Init, Contents
  <1>2. Decided(Empty)
    BY DEF Decided, Empty
  <1>3. Holds(Empty)
    BY DEF Holds, Empty, Init
  <1>4. Covers(Empty)
    BY DEF Covers, Init, Idle
  <1> QED
    BY <1>1, <1>2, <1>3, <1>4 DEF Durable, Good, Init

LEMMA DurableQuiet ==
  ASSUME Typed, Durable, NEW o \in Creation, NEW s \in Session,
         \/ Create(o) \/ Withdrawn \/ Discard(s) \/ Wait(s) \/ Erase(s) \/ Prune(s)
         \/ Checkpoint(s) \/ Exit(s) \/ Unlist(s) \/ Shutdown \/ StopIfIdle \/ Die \/ Resume(s) \/ Serve
  PROVE  Durable'
  <1> USE DEF AnswersKept, CallKept, answers
  <1>1. CASE Create(o)
    BY <1>1, DurableSame DEF Create
  <1>2. CASE Withdrawn \/ Die
    BY <1>2, DurableSame DEF Withdrawn, Die, Lost, Idle
  <1>3. CASE Discard(s)
    BY <1>3, DurableSame DEF Discard, Removal
  <1>4. CASE Wait(s)
    <2>1. call'.kind = "idle" \/ (call'.kind = call.kind /\ call'.op = call.op /\ call'.session = call.session)
      BY <1>4, StepCall, CallAt DEF Wait, Typed, Fail, Lost, Idle, Removing
    <2>2. call.at # "reserve"
      BY <1>4 DEF Wait
    <2> QED
      BY <1>4, <2>1, <2>2, DurableSame DEF Wait
  <1>5. CASE Erase(s)
    <2>1. call'.kind = "idle" \/ (call'.kind = call.kind /\ call'.op = call.op /\ call'.session = call.session)
      BY <1>5, StepCall, CallAt DEF Erase, Typed, Fail, Lost, Idle, Removing
    <2>2. call.at # "reserve"
      BY <1>5 DEF Erase
    <2> QED
      BY <1>5, <2>1, <2>2, DurableSame DEF Erase
  <1>6. CASE Prune(s) \/ Resume(s)
    BY <1>6, DurableSame DEF Prune, Resume, Removal
  <1>7. CASE Checkpoint(s) \/ Exit(s) \/ Unlist(s) \/ Shutdown \/ StopIfIdle \/ Serve
    BY <1>7, DurableSame DEF Checkpoint, Exit, Unlist, Shutdown, StopIfIdle, Serve
  <1> QED
    BY <1>1, <1>2, <1>3, <1>4, <1>5, <1>6, <1>7

LEMMA DurableWrites ==
  ASSUME Typed, Durable, NEW o \in Creation, NEW s \in Session,
         \/ FailCreation(o, s) \/ Publish(s) \/ BeginDiscard(s) \/ RecordExit(s) \/ RetryExits \/ Open
  PROVE  Durable'
  <1> USE DEF AnswersKept, CallKept, answers
  <1>1. CASE FailCreation(o, s)
    <2>1. cat' \in {cat, Failing(o, s)} /\ Contents' \subseteq Contents \cup {cat'}
      BY <1>1, NewContents, Written DEF FailCreation, Failing
    <2>2. AnswersKept /\ CallKept
      BY <1>1 DEF FailCreation, Idle
    <2> QED
      BY <2>1, <2>2, NewContents, AlikeContents, DurableAlike
  <1>2. CASE Publish(s)
    <2>1. cat' \in {cat, Publishing(s)} /\ Contents' \subseteq Contents \cup {cat'}
      BY <1>2, NewContents, Written DEF Publish, Publishing
    <2>2. AnswersKept /\ CallKept
      BY <1>2, StepCall, CallAt DEF Publish, Typed, Starting
    <2> QED
      BY <2>1, <2>2, NewContents, AlikeContents, DurableAlike
  <1>3. CASE BeginDiscard(s)
    <2>1. cat' \in {cat, Marking(s)} /\ Contents' \subseteq Contents \cup {cat'}
      BY <1>3, NewContents, Written DEF BeginDiscard, Marking
    <2>2. AnswersKept /\ CallKept
      <3>1. call'.kind = "idle" \/ (call'.kind = call.kind /\ call'.op = call.op /\ call'.session = call.session)
        BY <1>3, StepCall, CallAt DEF BeginDiscard, Typed, Fail, Lost, Idle, Removing
      <3>2. call.at # "reserve" /\ AnswersKept
        BY <1>3 DEF BeginDiscard
      <3> QED
        BY <3>1, <3>2
    <2> QED
      BY <2>1, <2>2, NewContents, AlikeContents, DurableAlike
  <1>4. ASSUME NEW E \in SUBSET Session, WriteExits(E), UNCHANGED <<call, started, doomed, answers>>
        PROVE  Durable'
    <2>1. cat' \in {cat, Ended(cat, E)} /\ Contents' \subseteq Contents \cup {cat'}
      BY <1>4, WroteExits
    <2>2. AnswersKept /\ CallKept
      BY <1>4
    <2>3. Ended(cat, E) \in Catalog
      BY EndedContent DEF Typed, Stored
    <2> QED
      BY <2>1, <2>2, <2>3, AlikeContents, DurableAlike
  <1>5. CASE RecordExit(s)
    <2>1. pending \cup {s} \in SUBSET Session
      BY DEF Typed, Served
    <2> QED
      BY <1>4, <1>5, <2>1 DEF RecordExit
  <1>6. CASE RetryExits
    <2>1. pending \in SUBSET Session
      BY DEF Typed, Served
    <2> QED
      BY <1>4, <1>6, <2>1 DEF RetryExits
  <1>7. CASE Open
    <2>1. Ended(cat, Session) \in Catalog
      BY EndedContent DEF Typed, Stored
    <2>2. cat' \in {cat, Ended(cat, Session)} /\ Contents' \subseteq Contents \cup {cat'}
      BY <1>7, <2>1, Written DEF Open
    <2>3. AnswersKept /\ CallKept
      BY <1>7 DEF Open
    <2> QED
      BY <2>1, <2>2, <2>3, AlikeContents, DurableAlike
  <1> QED
    BY <1>1, <1>2, <1>3, <1>5, <1>6, <1>7

\* A creation answered again is on disk when it is.
LEMMA DurableCreateAgain ==
  ASSUME Typed, Durable, NEW o \in Creation, CreateAgain(o)
  PROVE  Durable'
  <1>1. cat' = cat /\ Contents' \subseteq Contents /\ UNCHANGED <<call, started, doomed, refused, kept, gone>>
    BY Synced DEF CreateAgain
  <1>2. \A c \in Contents' : Decided(c)' /\ Covers(c)'
    BY <1>1 DEF Durable, Good, Decided, Covers, Known
  <1>3. CASE UNCHANGED made
    <2>1. \A c \in Contents' : Holds(c)'
      BY <1>1, <1>3 DEF Durable, Good, Holds
    <2> QED
      BY <1>1, <1>2, <2>1 DEF Durable, Good
  <1>4. CASE Sync /\ made' = made \cup (IF o \in cat.cancelled \cup cat.failed THEN {} ELSE {<<o, s>> : s \in Made(o)})
    <2>1. Contents' = {cat}
      BY <1>4, Synced
    <2>2. made' \subseteq cat.creations
      <3>1. made \subseteq cat.creations
        BY DEF Durable, Contents, Good, Holds
      <3> QED
        BY <1>4, <3>1 DEF Made
    <2>3. Holds(cat)'
      BY <1>1, <2>2 DEF Durable, Contents, Good, Holds
    <2> QED
      BY <1>1, <1>2, <2>1, <2>3 DEF Durable, Good
  <1> QED
    BY <1>3, <1>4 DEF CreateAgain

\* A session is reserved for a creation that has none.
LEMMA DurableReserve ==
  ASSUME Typed, Durable, Progress, Removed, NEW o \in Creation, NEW s \in Session, Reserve(o, s)
  PROVE  Durable'
  <1>0. PICK new : new = Reserving(o, s)
    OBVIOUS
  <1>1. /\ new \in Catalog /\ new.creations = cat.creations \cup {<<o, s>>} /\ new.closes = cat.closes
        /\ new.cancelled = cat.cancelled /\ new.status = [cat.status EXCEPT ![s] = "starting"]
    <2>1. new \in Catalog
      BY <1>0, NewContents
    <2> QED
      BY <1>0, <2>1 DEF Reserving, Typed, Stored, Catalog
  <1>2. Write(new) \/ WriteFails(new)
    BY <1>0 DEF Reserve, Reserving
  <1>3. UNCHANGED <<started, made, refused, kept, gone, doomed>>
    BY DEF Reserve, answers
  <1>4. Made(o) = {} /\ s \notin doomed
    BY DEF Reserve, Progress
  <1>5. Good(cat)
    BY DEF Durable, Contents
  <1>6. Decided(new)
    <2>1. Known(cat) \subseteq Known(new) /\ s \in Known(new)
      BY <1>1 DEF Known, Typed, Stored, Catalog
    <2>2. \A t \in Session : <<o, t>> \notin cat.creations
      BY <1>4 DEF Made
    <2> QED
      BY <1>1, <1>5, <2>1, <2>2 DEF Good, Decided
  <1>7. Holds(new)
    <2>1. \A t \in gone : new.status[t] = "none"
      BY <1>1, <1>4, <1>5 DEF Good, Holds, Removed, Typed, Stored, Catalog, History
    <2> QED
      BY <1>1, <1>5, <2>1 DEF Good, Holds
  <1>8. Decided(new)' /\ Holds(new)'
    BY <1>3, <1>6, <1>7 DEF Decided, Holds, Known
  <1>9. CASE Write(new) /\ Step("spawn")
    <2>1. Contents' = {new}
      BY <1>1, <1>9, Written
    <2>2. call'.kind = "create" /\ call'.op = {o} /\ call'.session = {s}
      BY <1>9, StepCall DEF Reserve, Typed, Starting
    <2>3. Covers(new)'
      BY <1>1, <2>2 DEF Covers
    <2>4. \A c \in Contents' : Good(c)'
      BY <1>8, <2>1, <2>3 DEF Good
    <2> QED
      BY <1>1, <1>2, <2>4, DurableWrite
  <1>10. CASE WriteFails(new) /\ call' = Idle
    <2>1. Contents' \subseteq Contents \cup {new}
      BY <1>1, <1>10 DEF WriteFails, Contents
    <2>2. \A c \in Contents : Good(c)'
      BY <1>3, <1>10, GoodKept DEF Durable, AnswersKept, CallKept, Idle
    <2>3. Covers(new)'
      BY <1>10 DEF Covers, Idle
    <2>4. \A c \in Contents' : Good(c)'
      BY <1>8, <2>1, <2>2, <2>3 DEF Good
    <2> QED
      BY <1>1, <1>2, <2>4, DurableWrite
  <1> QED
    BY <1>0, <1>9, <1>10 DEF Reserve, Reserving

\* What starts, and what is answered, is on record in every content.
LEMMA DurableSpawn ==
  ASSUME Typed, Durable, NEW o \in Creation, NEW s \in Session, Spawn(o, s) \/ Insert(o, s)
  PROVE  Durable'
  <1>1. UNCHANGED <<cat, older, refused, kept, gone, doomed>>
    BY DEF Spawn, Insert, answers, bounds
  <1>2. call.kind = "create" /\ call.op = {o} /\ call.session = {s} /\ call.at # "reserve"
    BY CallAt DEF Spawn, Insert, Typed, Starting
  <1>3. \A c \in Contents : <<o, s>> \in c.creations
    BY <1>2 DEF Durable, Good, Covers
  <1>4. /\ \A p \in Creation : started'[p] \subseteq started[p] \cup (IF p = o THEN {s} ELSE {})
        /\ made' \subseteq made \cup {<<o, s>>}
    BY DEF Spawn, Insert, answers, Typed, History
  <1>5. \A c \in Contents : Holds(c)'
    BY <1>1, <1>3, <1>4 DEF Durable, Good, Holds
  <1>6. call'.kind = "idle" \/ (call'.kind = call.kind /\ call'.op = call.op /\ call'.session = call.session)
    BY <1>2, StepCall DEF Spawn, Insert, Typed, Starting, Idle
  <1>7. \A c \in Contents : Covers(c)'
    BY <1>2, <1>6 DEF Durable, Good, Covers
  <1>8. \A c \in Contents : Decided(c)'
    BY <1>1 DEF Durable, Good, Decided, Known
  <1> QED
    BY <1>1, <1>5, <1>7, <1>8 DEF Durable, Good, Contents

LEMMA DurableCancel ==
  ASSUME Typed, Durable, NEW o \in Creation, Cancel(o)
  PROVE  Durable'
  <1>0. PICK new : new = Cancelling(o)
    OBVIOUS
  <1>1. new \in Catalog /\ new = [cat EXCEPT !.cancelled = cat.cancelled \cup {o}]
    BY <1>0, NewContents, Fields
  <1>2. Write(new) \/ WriteFails(new)
    BY <1>0 DEF Cancel, Cancelling
  <1>3. /\ new.creations = cat.creations /\ new.closes = cat.closes /\ new.status = cat.status
        /\ new.cancelled = cat.cancelled \cup {o}
    BY <1>1 DEF Typed, Stored, Catalog
  <1>4. Good(cat) /\ call = Idle
    BY DEF Durable, Contents, Cancel, May
  <1>5. UNCHANGED <<started, made, kept, gone>> /\ doomed \subseteq doomed' /\ refused' \subseteq refused \cup {o}
    BY DEF Cancel, Removal
  <1>6. Decided(new)' /\ Holds(new)'
    <2>1. Known(new) = Known(cat)
      BY <1>3 DEF Known
    <2> QED
      BY <1>3, <1>4, <1>5, <2>1 DEF Good, Decided, Holds, Known
  <1>7. Covers(new)'
    <2>1. CASE \E s \in Made(o) : Removal("cancel", {o}, s)
      BY <1>3, <2>1 DEF Covers, Removal, Made
    <2>2. CASE call' = call
      BY <1>4, <2>2 DEF Covers, Idle
    <2> QED
      BY <2>1, <2>2 DEF Cancel
  <1>8. Good(new)'
    BY <1>6, <1>7 DEF Good
  <1>9. CASE Write(new)
    <2>1. Contents' = {new}
      BY <1>1, <1>9, Written
    <2> QED
      BY <1>1, <1>2, <1>3, <1>8, <2>1, DurableWrite
  <1>10. CASE ~Write(new)
    <2>1. WriteFails(new) /\ UNCHANGED <<call, refused>>
      BY <1>0, <1>10 DEF Cancel, Cancelling
    <2>2. \A c \in Contents : Good(c)'
      BY <1>4, <1>5, <2>1, GoodKept DEF Durable, AnswersKept, CallKept, Idle
    <2>3. Contents' \subseteq Contents \cup {new}
      BY <2>1 DEF WriteFails, Contents
    <2> QED
      BY <1>1, <1>2, <1>3, <1>8, <2>2, <2>3, DurableWrite
  <1> QED
    BY <1>9, <1>10

LEMMA DurableClose ==
  ASSUME Typed, Durable, NEW k \in Closing, NEW s \in Session, NEW d \in BOOLEAN, Close(k, s, d)
  PROVE  Durable'
  <1>0. PICK new : new = Closed(k, s, d)
    OBVIOUS
  <1>1. /\ new \in Catalog /\ new.creations = cat.creations /\ new.closes = cat.closes \cup {<<k, s, d>>}
        /\ new.status = cat.status /\ new.cancelled = cat.cancelled
    <2>1. new \in Catalog
      BY <1>0, NewContents
    <2> QED
      BY <1>0, <2>1 DEF Closed, Typed, Stored, Catalog
  <1>2. Write(new) \/ WriteFails(new)
    BY <1>0 DEF Close, Closed
  <1>3. Good(cat) /\ call = Idle /\ \A t \in Session, e \in BOOLEAN : <<k, t, e>> \notin cat.closes
    BY DEF Durable, Contents, Close, May
  <1>4. /\ UNCHANGED <<started, made, refused, gone>> /\ doomed \subseteq doomed'
        /\ kept' = kept \/ (~d /\ kept' = kept \cup {k})
    BY DEF Close, Removal
  <1>5. Decided(new)'
    <2>1. Known(new) = Known(cat)
      BY <1>1 DEF Known
    <2> QED
      BY <1>1, <1>3, <1>4, <2>1 DEF Good, Decided, Known
  <1>6. Holds(new)'
    BY <1>1, <1>3, <1>4 DEF Good, Holds
  <1>7. Covers(new)'
    <2>1. CASE d /\ Removal("close", {k}, s)
      BY <1>1, <2>1 DEF Covers, Removal
    <2>2. CASE call' = call
      BY <1>3, <2>2 DEF Covers, Idle
    <2> QED
      BY <2>1, <2>2 DEF Close
  <1>8. Good(new)'
    BY <1>5, <1>6, <1>7 DEF Good
  <1>9. CASE Write(new)
    <2>1. Contents' = {new}
      BY <1>1, <1>9, Written
    <2> QED
      BY <1>1, <1>2, <1>8, <2>1, DurableWrite
  <1>10. CASE ~Write(new)
    <2>1. WriteFails(new) /\ UNCHANGED <<call, kept>>
      BY <1>0, <1>10 DEF Close, Closed
    <2>2. \A c \in Contents : Good(c)'
      BY <1>3, <1>4, <2>1, GoodKept DEF Durable, AnswersKept, CallKept, Idle
    <2>3. Contents' \subseteq Contents \cup {new}
      BY <2>1 DEF WriteFails, Contents
    <2> QED
      BY <1>1, <1>2, <1>8, <2>2, <2>3, DurableWrite
  <1> QED
    BY <1>9, <1>10

LEMMA DurableCloseAgain ==
  ASSUME Typed, Durable, NEW k \in Closing, NEW s \in Session, CloseAgain(k, s)
  PROVE  Durable'
  <1>1. PICK d \in BOOLEAN :
          /\ <<k, s, d>> \in cat.closes
          /\ \/ Sync /\ d /\ Removal("close", {k}, s) /\ UNCHANGED kept
             \/ Sync /\ ~d /\ kept' = kept \cup {k} /\ UNCHANGED <<call, doomed>>
             \/ SyncFails /\ UNCHANGED <<call, doomed, kept>>
    BY DEF CloseAgain
  <1>2. cat' = cat /\ Contents' \subseteq Contents /\ Good(cat) /\ call = Idle
    BY <1>1, Synced DEF CloseAgain, Durable, Contents, May
  <1>3. UNCHANGED <<started, made, refused, gone>> /\ doomed \subseteq doomed'
    BY <1>1 DEF CloseAgain, Removal
  <1>4. CASE SyncFails /\ UNCHANGED <<call, doomed, kept>>
    <2>1. \A c \in Contents : Good(c)'
      BY <1>2, <1>3, <1>4, GoodKept DEF Durable, AnswersKept, CallKept, Idle
    <2> QED
      BY <1>2, <2>1 DEF Durable
  <1>5. CASE Sync
    <2>1. Contents' = {cat}
      BY <1>5, Synced
    <2>2. Decided(cat)'
      BY <1>2, <1>3 DEF Good, Decided, Known
    <2>3. Holds(cat)'
      BY <1>1, <1>2, <1>3, <1>5 DEF Good, Holds
    <2>4. Covers(cat)'
      <3>1. CASE d /\ Removal("close", {k}, s)
        BY <1>1, <1>2, <3>1 DEF Covers, Removal
      <3>2. CASE call' = call
        BY <1>2, <3>2 DEF Covers, Idle
      <3> QED
        BY <1>1, <3>1, <3>2
    <2> QED
      BY <1>2, <2>1, <2>2, <2>3, <2>4 DEF Durable, Good
  <1> QED
    BY <1>1, <1>4, <1>5

\* The end of a removal: nobody was promised the session.
LEMMA DurableFinish ==
  ASSUME Typed, Durable, Progress, NEW s \in Session, FinishDiscard(s)
  PROVE  Durable'
  <1>0. PICK new : new = Finishing(s)
    OBVIOUS
  <1>1. new \in Catalog /\ new = [cat EXCEPT !.status = [cat.status EXCEPT ![s] = "none"],
                                             !.discarding = cat.discarding \ {s}]
    BY <1>0, NewContents, Fields
  <1>2. Write(new) \/ WriteFails(new)
    BY <1>0 DEF FinishDiscard, Finishing
  <1>3. /\ new.creations = cat.creations /\ new.closes = cat.closes /\ new.cancelled = cat.cancelled
        /\ new.status = [cat.status EXCEPT ![s] = "none"]
    BY <1>1 DEF Typed, Stored, Catalog
  <1>4. Good(cat) /\ call.session = {s} /\ s \in doomed /\ UNCHANGED <<started, made, kept, doomed>>
    BY CallAt DEF Durable, Contents, FinishDiscard, Progress, Typed, Removing
  <1>5. call'.kind = "idle"
    BY DEF FinishDiscard, Fail, Lost, Idle
  <1>6. Decided(new)'
    <2>1. Known(cat) \subseteq Known(new) \cup {s}
      BY <1>3 DEF Known, Typed, Stored, Catalog
    <2> QED
      BY <1>3, <1>4, <2>1 DEF Good, Decided, Known
  <1>7. gone' \subseteq gone \cup {s} /\ refused' \subseteq refused \cup (IF call.kind = "cancel" THEN call.op ELSE {})
    BY DEF FinishDiscard
  <1>8. Holds(new)'
    <2>1. refused' \subseteq new.cancelled
      BY <1>3, <1>4, <1>7 DEF Good, Holds, Covers
    <2>2. \A t \in gone' : new.status[t] = "none"
      BY <1>3, <1>4, <1>7 DEF Good, Holds, Typed, Stored, Catalog, History
    <2> QED
      BY <1>3, <1>4, <2>1, <2>2 DEF Good, Holds
  <1>9. Good(new)'
    BY <1>5, <1>6, <1>8 DEF Good, Covers
  <1>10. CASE Write(new)
    <2>1. Contents' = {new}
      BY <1>1, <1>10, Written
    <2> QED
      BY <1>1, <1>2, <1>3, <1>9, <2>1, DurableWrite
  <1>11. CASE ~Write(new)
    <2>1. WriteFails(new) /\ UNCHANGED <<gone, refused>>
      BY <1>0, <1>11 DEF FinishDiscard, Finishing
    <2>2. \A c \in Contents : Good(c)'
      BY <1>4, <1>5, <2>1, GoodKept DEF Durable, AnswersKept, CallKept
    <2>3. Contents' \subseteq Contents \cup {new}
      BY <2>1 DEF WriteFails, Contents
    <2> QED
      BY <1>1, <1>2, <1>3, <1>9, <2>2, <2>3, DurableWrite
  <1> QED
    BY <1>10, <1>11

LEMMA DurablePowerLoss ==
  ASSUME Typed, Durable, PowerLoss
  PROVE  Durable'
  <1>1. cat' \in Contents /\ Contents' = {cat'}
    BY DEF PowerLoss, Contents
  <1>2. AnswersKept /\ CallKept
    BY DEF PowerLoss, Lost, Idle, AnswersKept, CallKept, answers
  <1>3. \A c \in Contents : Good(c)'
    BY <1>2, GoodKept DEF Durable
  <1> QED
    BY <1>1, <1>3 DEF Durable

-----------------------------------------------------------------------------
(* Shells, listings and the steps of operations *)

\* A step that neither makes nor forgets a session, a creation or a cancellation.
Neutral ==
  /\ cat'.creations = cat.creations /\ cat'.cancelled = cat.cancelled
  /\ \A s \in Session : cat'.status[s] = "none" <=> cat.status[s] = "none"

LEMMA NeutralAlike ==
  ASSUME Typed, NEW new \in Catalog, Write(new) \/ WriteFails(new), Alike(new)
  PROVE  Neutral
  BY DEF Write, WriteFails, Neutral, Alike

LEMMA NeutralSteps ==
  ASSUME Typed, NEW o \in Creation, NEW s \in Session,
         \/ FailCreation(o, s) \/ Publish(s) \/ BeginDiscard(s) \/ RecordExit(s) \/ RetryExits \/ Open
  PROVE  Neutral
  <1>1. CASE FailCreation(o, s)
    BY <1>1, NewContents, AlikeContents, NeutralAlike DEF FailCreation, Failing
  <1>2. CASE Publish(s)
    BY <1>2, NewContents, AlikeContents, NeutralAlike DEF Publish, Publishing
  <1>3. CASE BeginDiscard(s)
    BY <1>3, NewContents, AlikeContents, NeutralAlike DEF BeginDiscard, Marking
  <1>4. ASSUME NEW E \in SUBSET Session, WriteExits(E) PROVE Neutral
    <2>1. Ended(cat, E) \in Catalog /\ Alike(Ended(cat, E))
      BY EndedContent, AlikeContents DEF Typed, Stored
    <2>2. CASE Write(Ended(cat, E)) \/ WriteFails(Ended(cat, E))
      BY <2>1, <2>2, NeutralAlike
    <2>3. CASE UNCHANGED cat
      BY <2>3 DEF Neutral
    <2> QED
      BY <1>4, <2>2, <2>3 DEF WriteExits
  <1>5. CASE RecordExit(s)
    <2>1. pending \cup {s} \in SUBSET Session
      BY DEF Typed, Served
    <2> QED
      BY <1>4, <1>5, <2>1 DEF RecordExit
  <1>6. CASE RetryExits
    <2>1. pending \in SUBSET Session
      BY DEF Typed, Served
    <2> QED
      BY <1>4, <1>6, <2>1 DEF RetryExits
  <1>7. CASE Open
    <2>1. Ended(cat, Session) \in Catalog /\ Alike(Ended(cat, Session))
      BY EndedContent, AlikeContents DEF Typed, Stored
    <2> QED
      BY <1>7, <2>1, NeutralAlike DEF Open
  <1> QED
    BY <1>1, <1>2, <1>3, <1>5, <1>6, <1>7

Safe == Reach /\ Progress /\ Removed

LEMMA SafeInit == Init => Safe
  BY DEF Init, Safe, Reach, Progress, Removed, Active, Running, Idle, Starting

\* Requests that begin an operation, and those that are answered at once.
LEMMA SafeRequest ==
  ASSUME Typed, Durable, Safe, NEW o \in Creation, NEW k \in Closing, NEW s \in Session, NEW d \in BOOLEAN,
         \/ CreateAgain(o) \/ Create(o) \/ Cancel(o) \/ Discard(s) \/ CloseAgain(k, s) \/ Close(k, s, d)
         \/ Prune(s)
  PROVE  Safe'
  <1> USE DEF Safe, registry, answers
  <1>1. /\ call = Idle /\ phase = "up" /\ starting = {}
        /\ UNCHANGED <<shell, listing, saved, started, gone, phase, todo>>
    BY DEF CreateAgain, Create, Cancel, Discard, CloseAgain, Close, Prune, May, Reach, Idle
  <1>2. ASSUME \A t \in Session : cat'.status[t] = cat.status[t], starting' = {}, refused' = refused,
               doomed \subseteq doomed',
               \/ call' = call
               \/ call'.kind \in {"cancel", "discard", "close"} /\ call'.at = "begin" /\ call'.session \subseteq doomed'
        PROVE  Safe'
    <2>1. Reach'
      BY <1>1, <1>2 DEF Reach, Active, Running, Known
    <2>2. Progress'
      BY <1>1, <1>2 DEF Progress, Idle
    <2>3. Removed'
      BY <1>1, <1>2 DEF Removed
    <2> QED
      BY <2>1, <2>2, <2>3
  <1>3. CASE CreateAgain(o)
    BY <1>1, <1>2, <1>3 DEF CreateAgain, Sync, SyncFails
  <1>4. CASE Create(o)
    <2>1. PICK t \in Fresh : /\ starting' = starting \cup {t}
                             /\ call' = [kind |-> "create", op |-> {o}, session |-> {t}, at |-> "reserve"]
      BY <1>4 DEF Create
    <2>2. t \in Session /\ shell[t] = "none" /\ t \notin doomed
      BY <2>1 DEF Fresh
    <2>3. UNCHANGED <<cat, refused, doomed>> /\ Made(o) = {} /\ o \notin cat.cancelled
      BY <1>4 DEF Create
    <2>4. Reach'
      BY <1>1, <2>1, <2>2, <2>3 DEF Reach, Active, Running, Known, Starting
    <2>5. Progress'
      BY <1>1, <2>1, <2>2, <2>3 DEF Progress, Made
    <2>6. Removed'
      BY <1>1, <2>1, <2>2, <2>3 DEF Removed
    <2> QED
      BY <2>4, <2>5, <2>6
  <1>5. CASE Cancel(o)
    <2>1. cat' = cat \/ cat' = Cancelling(o)
      BY <1>5 DEF Cancel, Cancelling, Write, WriteFails
    <2>2. \A t \in Session : cat'.status[t] = cat.status[t]
      BY <2>1 DEF Cancelling, Typed, Stored, Catalog
    <2>3. starting' = {} /\ doomed \subseteq doomed'
      BY <1>1, <1>5 DEF Cancel, Removal
    <2>4. CASE \E t \in Made(o) : Removal("cancel", {o}, t) /\ UNCHANGED refused
      <3>1. call'.kind = "cancel" /\ call'.at = "begin" /\ call'.session \subseteq doomed' /\ refused' = refused
        BY <2>4 DEF Removal
      <3> QED
        BY <1>2, <2>2, <2>3, <3>1
    <2>5. CASE UNCHANGED <<call, refused>>
      BY <1>2, <2>2, <2>3, <2>5
    <2>6. CASE Made(o) = {} /\ refused' = refused \cup {o} /\ UNCHANGED <<call, doomed>>
      <3>1. started[o] = {}
        BY <2>6 DEF Durable, Contents, Good, Holds, Made, Typed, History
      <3>2. Reach'
        BY <1>1, <2>2, <2>3, <2>6 DEF Reach, Active, Running, Known
      <3>3. Progress'
        BY <1>1, <2>6 DEF Progress, Idle
      <3>4. Removed'
        BY <1>1, <2>3, <2>6, <3>1 DEF Removed
      <3> QED
        BY <3>2, <3>3, <3>4
    <2> QED
      BY <1>5, <2>4, <2>5, <2>6 DEF Cancel
  <1>6. CASE Discard(s)
    BY <1>1, <1>2, <1>6 DEF Discard, Removal
  <1>7. CASE CloseAgain(k, s)
    BY <1>1, <1>2, <1>7 DEF CloseAgain, Removal, Sync, SyncFails
  <1>8. CASE Close(k, s, d)
    <2>1. cat' = cat \/ cat' = Closed(k, s, d)
      BY <1>8 DEF Close, Closed, Write, WriteFails
    <2>2. \A t \in Session : cat'.status[t] = cat.status[t]
      BY <2>1 DEF Closed, Typed, Stored, Catalog
    <2> QED
      BY <1>1, <1>2, <1>8, <2>2 DEF Close, Removal
  <1>9. CASE Prune(s)
    <2>1. UNCHANGED <<cat, refused>> /\ starting' = {} /\ doomed' = doomed \cup {s} /\ s \notin listing
          /\ call' = [kind |-> "prune", op |-> {}, session |-> {s}, at |-> "erase"]
      BY <1>1, <1>9 DEF Prune
    <2>2. Reach'
      BY <1>1, <2>1 DEF Reach, Active, Running, Known
    <2>3. Progress'
      BY <1>1, <2>1 DEF Progress
    <2>4. Removed'
      BY <1>1, <2>1 DEF Removed
    <2> QED
      BY <2>2, <2>3, <2>4
  <1> QED
    BY <1>3, <1>4, <1>5, <1>6, <1>7, <1>8, <1>9

LEMMA SafeCreation ==
  ASSUME Typed, Durable, Safe, NEW o \in Creation, NEW s \in Session,
         \/ Reserve(o, s) \/ Spawn(o, s) \/ FailCreation(o, s) \/ Publish(s) \/ Insert(o, s) \/ Withdrawn
  PROVE  Safe'
  <1> USE DEF Safe, registry, answers, bounds
  <1>1. /\ UNCHANGED <<saved, refused, doomed, gone, phase, todo>>
        /\ call.kind = "create"
        /\ call.at \in {"reserve", "spawn", "publish", "insert", "withdraw", "fail", "withdrawn"}
    BY CallAt DEF Reserve, Spawn, FailCreation, Publish, Insert, Withdrawn, Starting, Typed
  <1>3. CASE Reserve(o, s)
    <2>1. /\ starting = {s} /\ call.session = {s} /\ call.op = {o} /\ s \notin doomed /\ shell[s] = "none"
          /\ o \notin cat.cancelled /\ UNCHANGED <<shell, listing, started>>
      BY <1>3 DEF Reserve, Progress
    <2>2. cat' \in {cat, Reserving(o, s)}
      BY <1>3 DEF Reserve, Reserving, Write, WriteFails
    <2>3. Known(cat) \subseteq Known(cat') /\ cat'.cancelled = cat.cancelled
      BY <2>2 DEF Reserving, Known, Typed, Stored, Catalog
    <2>4. CASE Write(Reserving(o, s)) /\ Step("spawn") /\ UNCHANGED starting
      <3>1. call'.kind = "create" /\ call'.op = {o} /\ call'.session = {s} /\ call'.at = "spawn"
        BY <1>1, <2>1, <2>4, StepCall DEF Typed, Starting
      <3>2. s \in Known(cat')
        BY <2>4 DEF Write, Reserving, Known, Typed, Stored, Catalog
      <3>3. Reach'
        BY <2>1, <2>3, <2>4, <3>1 DEF Reach, Active, Running, Starting
      <3>4. Progress'
        BY <1>1, <2>1, <2>3, <2>4, <3>1, <3>2 DEF Progress
      <3>5. Removed'
        BY <1>1, <2>1, <2>4 DEF Removed
      <3> QED
        BY <3>3, <3>4, <3>5
    <2>5. CASE starting' = starting \ {s} /\ call' = Idle
      <3>1. Reach'
        BY <2>1, <2>3, <2>5 DEF Reach, Active, Running
      <3>2. Progress'
        BY <2>5 DEF Progress, Idle
      <3>3. Removed'
        BY <1>1, <2>1, <2>5 DEF Removed
      <3> QED
        BY <3>1, <3>2, <3>3
    <2> QED
      BY <1>3, <2>4, <2>5 DEF Reserve, Reserving
  <1>4. CASE Spawn(o, s)
    <2>1. /\ starting = {s} /\ call.session = {s} /\ call.op = {o} /\ s \notin doomed /\ shell[s] = "none"
          /\ o \notin cat.cancelled /\ s \in Known(cat) /\ UNCHANGED <<cat, listing>>
      BY <1>1, <1>4 DEF Spawn, Progress
    <2>2. o \notin refused
      BY <2>1 DEF Durable, Contents, Good, Holds
    <2>3. CASE /\ shell' = [shell EXCEPT ![s] = "running"] /\ started' = [started EXCEPT ![o] = @ \cup {s}]
               /\ Step("publish") /\ UNCHANGED starting
      <3>1. call'.kind = "create" /\ call'.op = {o} /\ call'.session = {s} /\ call'.at = "publish"
        BY <1>1, <2>1, <2>3, StepCall DEF Typed, Starting
      <3>2. \A t \in Session : shell'[t] = IF t = s THEN "running" ELSE shell[t]
        BY <2>3 DEF Typed, Served
      <3>3. Reach'
        BY <2>1, <2>3, <3>1, <3>2 DEF Reach, Active, Running, Starting
      <3>4. Progress'
        BY <1>1, <2>1, <2>3, <3>1, <3>2 DEF Progress
      <3>5. \A p \in refused : started'[p] = started[p]
        BY <2>2, <2>3 DEF Typed, History
      <3>6. Removed'
        BY <1>1, <2>1, <2>3, <3>5 DEF Removed
      <3> QED
        BY <3>3, <3>4, <3>6
    <2>4. CASE starting' = starting \ {s} /\ Step("fail") /\ UNCHANGED <<shell, started>>
      <3>1. call'.kind = "create" /\ call'.session = {s} /\ call'.at = "fail"
        BY <1>1, <2>1, <2>4, StepCall DEF Typed
      <3>2. Reach'
        BY <2>1, <2>4, <3>1 DEF Reach, Active, Running
      <3>3. Progress'
        BY <1>1, <2>1, <2>4, <3>1 DEF Progress
      <3>4. Removed'
        BY <1>1, <2>1, <2>4 DEF Removed
      <3> QED
        BY <3>2, <3>3, <3>4
    <2> QED
      BY <1>4, <2>3, <2>4 DEF Spawn
  <1>5. CASE FailCreation(o, s)
    <2>1. Neutral /\ call' = Idle /\ starting = {} /\ UNCHANGED <<shell, listing, starting, started>>
      BY <1>5, NeutralSteps DEF FailCreation, Reach, Starting
    <2>2. Reach'
      BY <2>1 DEF Reach, Active, Running, Known, Neutral
    <2>3. Progress'
      BY <2>1 DEF Progress, Idle
    <2>4. Removed'
      BY <1>1, <2>1 DEF Removed
    <2> QED
      BY <2>2, <2>3, <2>4
  <1>6. CASE Publish(s)
    <2>1. Neutral /\ UNCHANGED <<shell, listing, starting, started>>
      BY <1>6, NeutralSteps DEF Publish
    <2>2. /\ call'.kind = "create" /\ call'.session = call.session
          /\ call'.at \in {"insert", "withdraw"} /\ call.at = "publish"
      BY <1>1, <1>6, StepCall DEF Publish, Typed, Starting
    <2>3. Reach'
      BY <2>1, <2>2 DEF Reach, Active, Running, Known, Neutral, Starting
    <2>4. Progress'
      BY <1>1, <2>1, <2>2 DEF Progress
    <2>5. Removed'
      BY <1>1, <2>1 DEF Removed
    <2> QED
      BY <2>3, <2>4, <2>5
  <1>7. CASE Insert(o, s)
    <2>1. /\ call.session = {s} /\ shell[s] # "none" /\ starting \subseteq {s}
          /\ listing' = listing \cup ({s} \cap starting) /\ starting' = {}
          /\ UNCHANGED <<cat, shell, started>>
      BY <1>7 DEF Insert, Reach, Progress
    <2>2. call' = Idle \/ (call'.kind = "create" /\ call'.session = {s} /\ call'.at = "withdrawn")
      BY <1>1, <1>7, <2>1, StepCall DEF Insert, Typed
    <2>3. Reach'
      BY <2>1, <2>2 DEF Reach, Active, Running
    <2>4. Progress'
      BY <1>1, <2>1, <2>2 DEF Progress, Idle
    <2>5. Removed'
      BY <1>1, <2>1 DEF Removed
    <2> QED
      BY <2>3, <2>4, <2>5
  <1>8. CASE Withdrawn
    <2>1. call' = Idle /\ starting = {} /\ UNCHANGED <<cat, shell, listing, starting, started>>
      BY <1>8 DEF Withdrawn, Reach, Starting
    <2>2. Reach'
      BY <2>1 DEF Reach, Active, Running
    <2>3. Progress'
      BY <2>1 DEF Progress, Idle
    <2>4. Removed'
      BY <1>1, <2>1 DEF Removed
    <2> QED
      BY <2>2, <2>3, <2>4
  <1> QED
    BY <1>3, <1>4, <1>5, <1>6, <1>7, <1>8

\* A removal reaches the archive only when the shell is gone.
LEMMA SafeDiscard ==
  ASSUME Typed, Durable, Safe, NEW o \in Creation, NEW s \in Session,
         \/ BeginDiscard(s) \/ Wait(s) \/ Erase(s) \/ FinishDiscard(s)
  PROVE  Safe'
  <1> USE DEF Safe, registry, answers, bounds
  <1>1. /\ call.at \in Removing /\ call.kind \notin {"idle", "create"} /\ call.session = {s}
        /\ starting = {} /\ s \in doomed /\ UNCHANGED <<started, doomed>>
    BY CallAt DEF BeginDiscard, Wait, Erase, FinishDiscard, Removing, Typed, Reach, Progress
  <1>2. ASSUME Lost, \A t \in Session : cat'.status[t] = "none" => cat.status[t] = "none" \/ shell[t] # "running",
               saved' \subseteq saved, UNCHANGED <<refused, gone>>
        PROVE  Safe'
    <2>1. Reach'
      BY <1>2 DEF Lost, Reach, Active, Running, Idle
    <2>2. Progress'
      BY <1>2 DEF Lost, Progress, Idle
    <2>3. Removed'
      BY <1>1, <1>2 DEF Lost, Removed
    <2> QED
      BY <2>1, <2>2, <2>3
  <1>3. ASSUME Fail, \A t \in Session : cat'.status[t] = "none" => cat.status[t] = "none" \/ shell[t] # "running",
               saved' \subseteq saved, UNCHANGED <<refused, gone>>
        PROVE  Safe'
    <2>1. CASE call' = Idle /\ UNCHANGED <<pending, registry, shell, phase, todo>>
      <3>1. Reach'
        BY <1>1, <1>3, <2>1 DEF Reach, Active, Running, Known
      <3>2. Progress'
        BY <2>1 DEF Progress, Idle
      <3>3. Removed'
        BY <1>1, <1>3, <2>1 DEF Removed
      <3> QED
        BY <3>1, <3>2, <3>3
    <2> QED
      BY <1>2, <1>3, <2>1 DEF Fail
  <1>4. CASE BeginDiscard(s)
    <2>1. Neutral /\ UNCHANGED <<saved, refused, gone>>
      BY <1>4, NeutralSteps DEF BeginDiscard
    <2>2. CASE Fail
      BY <1>3, <2>1, <2>2 DEF Neutral
    <2>3. CASE Step(IF s \in listing THEN "wait" ELSE "erase") /\ UNCHANGED <<listing, starting, shell, phase, todo>>
      <3>1. /\ call'.kind = call.kind /\ call'.session = {s} /\ call'.at \in {"wait", "erase"}
            /\ s \in listing => call'.at = "wait"
        BY <1>1, <2>3, StepCall DEF Typed, Removing
      <3>2. Reach'
        BY <1>1, <2>1, <2>3 DEF Reach, Active, Running, Known, Neutral
      <3>3. Progress'
        BY <1>1, <2>3, <3>1 DEF Progress
      <3>4. Removed'
        BY <1>1, <2>1, <2>3 DEF Removed
      <3> QED
        BY <3>2, <3>3, <3>4
    <2> QED
      BY <1>4, <2>2, <2>3 DEF BeginDiscard
  <1>5. CASE Wait(s)
    <2>1. UNCHANGED <<cat, saved, refused, gone>>
      BY <1>5 DEF Wait
    <2>2. CASE Fail
      BY <1>3, <2>1, <2>2
    <2>3. CASE s \notin listing /\ Step("erase") /\ UNCHANGED <<listing, starting, shell, phase, todo>>
      <3>1. call'.kind = call.kind /\ call'.session = {s} /\ call'.at = "erase"
        BY <1>1, <2>3, StepCall DEF Typed, Removing
      <3>2. Reach'
        BY <1>1, <2>1, <2>3 DEF Reach, Active, Running
      <3>3. Progress'
        BY <1>1, <2>3, <3>1 DEF Progress
      <3>4. Removed'
        BY <1>1, <2>1, <2>3 DEF Removed
      <3> QED
        BY <3>2, <3>3, <3>4
    <2> QED
      BY <1>5, <2>2, <2>3 DEF Wait
  <1>6. CASE Erase(s)
    <2>1. UNCHANGED <<cat, refused, gone>> /\ s \notin listing
      BY <1>1, <1>6 DEF Erase, Progress
    <2>2. CASE Fail /\ UNCHANGED saved
      BY <1>3, <2>1, <2>2
    <2>3. CASE saved' = saved \ {s} /\ Step("finish") /\ UNCHANGED <<listing, starting, shell, phase, todo>>
      <3>1. call'.kind = call.kind /\ call'.session = {s} /\ call'.at = "finish"
        BY <1>1, <2>3, StepCall DEF Typed, Removing
      <3>2. Reach'
        BY <1>1, <2>1, <2>3 DEF Reach, Active, Running
      <3>3. Progress'
        BY <1>1, <2>1, <2>3, <3>1 DEF Progress
      <3>4. Removed'
        BY <1>1, <2>1, <2>3 DEF Removed
      <3> QED
        BY <3>2, <3>3, <3>4
    <2> QED
      BY <1>6, <2>2, <2>3 DEF Erase
  <1>7. CASE FinishDiscard(s)
    <2>1. s \notin listing /\ s \notin saved /\ shell[s] # "running" /\ UNCHANGED saved
      BY <1>1, <1>7 DEF FinishDiscard, Progress, Reach, Active
    <2>2. cat' \in {cat, Finishing(s)}
      BY <1>7 DEF FinishDiscard, Finishing, Write, WriteFails
    <2>3. \A t \in Session : cat'.status[t] = "none" => cat.status[t] = "none" \/ t = s
      BY <2>2 DEF Finishing, Typed, Stored, Catalog
    <2>4. CASE Fail /\ UNCHANGED <<gone, refused>>
      BY <1>3, <2>1, <2>3, <2>4
    <2>5. CASE /\ call' = Idle /\ gone' = gone \cup {s}
               /\ refused' = IF call.kind = "cancel" THEN refused \cup call.op ELSE refused
               /\ UNCHANGED <<pending, registry, shell, phase>>
      <3>1. Reach'
        BY <1>1, <2>1, <2>3, <2>5 DEF Reach, Active, Running, Known
      <3>2. Progress'
        BY <2>5 DEF Progress, Idle
      <3>3. \A p \in refused' : started[p] \subseteq gone'
        <4>1. ASSUME call.kind = "cancel", NEW p \in call.op PROVE started[p] \subseteq {s}
          <5>1. p \in Creation /\ <<p, s>> \in cat.creations
            BY <1>1, <4>1 DEF Durable, Contents, Good, Covers, Typed, Called
          <5>2. \A t \in started[p] : <<p, t>> \in cat.creations /\ t \in Session
            BY <5>1 DEF Durable, Contents, Good, Holds, Typed, History
          <5> QED
            BY <5>1, <5>2 DEF Durable, Contents, Good, Decided
        <4> QED
          BY <2>5, <4>1 DEF Removed
      <3>4. Removed'
        BY <1>1, <2>1, <2>5, <3>3 DEF Removed
      <3> QED
        BY <3>1, <3>2, <3>4
    <2> QED
      BY <1>7, <2>4, <2>5 DEF FinishDiscard
  <1> QED
    BY <1>4, <1>5, <1>6, <1>7

LEMMA SafeOwner ==
  ASSUME Typed, Safe, NEW o \in Creation, NEW s \in Session,
         \/ Checkpoint(s) \/ Exit(s) \/ RecordExit(s) \/ RetryExits \/ Unlist(s)
  PROVE  Safe'
  <1> USE DEF Safe, registry, answers, bounds
  <1>1. UNCHANGED <<call, phase, todo, started, refused, doomed, gone>>
    BY DEF Checkpoint, Exit, RecordExit, RetryExits, Unlist
  <1>2. Neutral
    <2>1. CASE RecordExit(s) \/ RetryExits
      BY <2>1, NeutralSteps
    <2>2. CASE Checkpoint(s) \/ Exit(s) \/ Unlist(s)
      BY <2>2 DEF Checkpoint, Exit, Unlist, Neutral
    <2> QED
      BY <2>1, <2>2
  <1>3. ASSUME UNCHANGED <<listing, starting>>,
               \A t \in Session : /\ Active(t)' <=> Active(t)
                                  /\ shell'[t] = "none" <=> shell[t] = "none"
                                  /\ shell'[t] = "running" => shell[t] = "running",
               \A t \in saved' \ saved : t \in Session /\ shell[t] = "running"
        PROVE  Safe'
    <2>1. Reach'
      <3>1. Running' \subseteq Running /\ Known(cat') = Known(cat)
        BY <1>2, <1>3 DEF Running, Known, Neutral
      <3>2. \A t \in Session : Active(t)' => t \in listing' \cup starting'
        BY <1>3 DEF Reach
      <3>3. \A t \in listing' : shell'[t] # "none"
        BY <1>3 DEF Reach, Typed, Served
      <3> QED
        BY <1>1, <1>3, <3>1, <3>2, <3>3 DEF Reach
    <2>2. Progress'
      <3>1. Known(cat') = Known(cat) /\ \A p \in Creation : Made(p)' = Made(p)
        BY <1>2 DEF Known, Neutral, Made
      <3>2. call.at = "finish" => call.session \cap saved' = {}
        <4>1. call.at = "finish" => starting = {}
          BY CallAt DEF Reach, Starting, Removing
        <4> QED
          BY <1>3, <4>1 DEF Progress, Reach, Active
      <3>3. call.session \subseteq Session /\ call.op \cap Creation \subseteq Creation
        BY DEF Typed, Called
      <3>4. call.kind = "create" => call.op \subseteq Creation
        BY DEF Typed, Called
      <3>5. cat'.cancelled = cat.cancelled
        BY <1>2 DEF Neutral
      <3> QED
        BY <1>1, <1>3, <3>1, <3>2, <3>3, <3>4, <3>5 DEF Progress
    <2>3. Removed'
      BY <1>1, <1>3 DEF Removed, Reach, Active
    <2> QED
      BY <2>1, <2>2, <2>3
  <1>4. CASE Checkpoint(s)
    BY <1>3, <1>4 DEF Checkpoint, Active
  <1>5. CASE Exit(s)
    BY <1>3, <1>5 DEF Exit, Active, Typed, Served
  <1>6. CASE RecordExit(s)
    BY <1>3, <1>6 DEF RecordExit, Active, Typed, Served
  <1>7. CASE RetryExits
    BY <1>3, <1>7 DEF RetryExits, Active
  <1>8. CASE Unlist(s)
    <2>1. /\ \A t \in Session : shell'[t] = IF t = s THEN "gone" ELSE shell[t]
          /\ shell[s] = "recorded" /\ listing' = listing \ {s} /\ starting' = starting \ {s}
          /\ UNCHANGED saved
      BY <1>8 DEF Unlist, Typed, Served
    <2>2. Reach'
      <3>1. Running' \subseteq Running /\ Known(cat') = Known(cat)
        BY <1>2, <2>1 DEF Running, Known, Neutral
      <3>2. \A t \in Session : Active(t)' => Active(t) /\ t # s
        BY <2>1 DEF Active
      <3>3. \A t \in Session : Active(t)' => t \in listing' \cup starting'
        BY <2>1, <3>2 DEF Reach
      <3>4. \A t \in listing' : shell'[t] # "none"
        BY <2>1 DEF Reach, Typed, Served
      <3> QED
        BY <1>1, <2>1, <3>1, <3>3, <3>4 DEF Reach
    <2>3. Progress'
      BY <1>1, <1>2, <2>1 DEF Progress, Known, Neutral, Made, Typed, Called
    <2>4. Removed'
      BY <1>1, <2>1 DEF Removed
    <2> QED
      BY <2>2, <2>3, <2>4
  <1> QED
    BY <1>4, <1>5, <1>6, <1>7, <1>8

LEMMA SafeServer ==
  ASSUME Typed, Safe, NEW o \in Creation, NEW s \in Session,
         Shutdown \/ StopIfIdle \/ Die \/ PowerLoss \/ Open \/ Serve \/ Resume(s)
  PROVE  Safe'
  <1> USE DEF Safe, registry, answers, bounds
  <1>1. UNCHANGED <<saved, started, refused, gone>>
    BY DEF Shutdown, StopIfIdle, Die, PowerLoss, Open, Serve, Resume
  <1>2. CASE Shutdown \/ StopIfIdle
    <2>1. UNCHANGED <<cat, shell, listing, starting, call, phase, todo, doomed>>
      BY <1>2 DEF Shutdown, StopIfIdle
    <2> QED
      BY <1>1, <2>1 DEF Reach, Progress, Removed, Active, Running, Known, Made
  <1>3. CASE Die \/ PowerLoss
    <2>1. Lost /\ doomed' = doomed
      BY <1>3 DEF Die, PowerLoss
    <2>2. Reach'
      BY <2>1 DEF Lost, Reach, Active, Running, Idle
    <2>3. Progress'
      BY <2>1 DEF Lost, Progress, Idle
    <2>4. Removed'
      BY <1>1, <2>1 DEF Lost, Removed
    <2> QED
      BY <2>2, <2>3, <2>4
  <1>4. CASE Open
    <2>1. Neutral /\ UNCHANGED <<shell, listing, starting, call, doomed>> /\ call.kind = "idle"
      BY <1>4, NeutralSteps DEF Open, Progress
    <2>2. call = Idle
      BY <2>1 DEF Typed, Called
    <2>3. Reach'
      BY <2>1 DEF Reach, Active, Running, Known, Neutral
    <2>4. Progress'
      BY <2>1, <2>2 DEF Progress, Idle
    <2>5. Removed'
      BY <1>1, <2>1 DEF Removed
    <2> QED
      BY <2>3, <2>4, <2>5
  <1>5. CASE Serve
    <2>1. UNCHANGED <<cat, shell, listing, starting, call, doomed>> /\ call = Idle
      BY <1>5 DEF Serve
    <2>2. Reach'
      BY <2>1 DEF Reach, Active, Running, Known
    <2>3. Progress'
      BY <2>1 DEF Progress, Idle
    <2>4. Removed'
      BY <1>1, <2>1 DEF Removed
    <2> QED
      BY <2>2, <2>3, <2>4
  <1>6. CASE Resume(s)
    <2>1. /\ UNCHANGED <<cat, shell, listing, starting, phase, todo>> /\ call = Idle /\ phase = "cleanup"
          /\ doomed' = doomed \cup {s} /\ s \in todo
          /\ call' = [kind |-> "resume", op |-> {}, session |-> {s}, at |-> "begin"]
      BY <1>6 DEF Resume, Removal
    <2>2. Reach'
      BY <2>1 DEF Reach, Active, Running, Known, Idle
    <2>3. Progress'
      BY <2>1 DEF Progress
    <2>4. Removed'
      BY <1>1, <2>1 DEF Removed
    <2> QED
      BY <2>2, <2>3, <2>4
  <1> QED
    BY <1>2, <1>3, <1>4, <1>5, <1>6

-----------------------------------------------------------------------------
(* What the catalog shows of ends, and what a start cleans up *)

Shown == Ends /\ Cleanup /\ Apart

LEMMA ShownInit == Init => Shown
  BY DEF Init, Shown, Ends, Cleanup, Apart, Empty

\* A step that changes no shell and starts no session shows no end wrongly.
LEMMA EndsKept ==
  ASSUME Ends, UNCHANGED <<shell, pending>>, phase' # "down" => phase # "down",
         \A t \in Session : cat'.status[t] \in {"starting", "live"} =>
           cat.status[t] = cat'.status[t] \/ (cat.status[t] = "starting" /\ shell[t] # "none")
  PROVE  Ends'
  BY DEF Ends

LEMMA ShownRequest ==
  ASSUME Typed, Safe, Shown, NEW o \in Creation, NEW k \in Closing, NEW s \in Session, NEW d \in BOOLEAN,
         \/ CreateAgain(o) \/ Create(o) \/ Cancel(o) \/ Discard(s) \/ CloseAgain(k, s) \/ Close(k, s, d)
         \/ Prune(s)
  PROVE  Shown'
  <1> USE DEF Shown, registry
  <1>1. phase = "up" /\ UNCHANGED <<shell, pending, phase, listing>>
    BY DEF CreateAgain, Create, Cancel, Discard, CloseAgain, Close, Prune, May
  <1>2. \A t \in Session : cat'.status[t] = cat.status[t]
    <2>1. CASE Cancel(o)
      BY <2>1 DEF Cancel, Write, WriteFails, Typed, Stored, Catalog
    <2>2. CASE Close(k, s, d)
      BY <2>2 DEF Close, Write, WriteFails, Typed, Stored, Catalog
    <2>3. CASE CreateAgain(o) \/ Create(o) \/ Discard(s) \/ CloseAgain(k, s) \/ Prune(s)
      BY <2>3 DEF CreateAgain, Create, Discard, CloseAgain, Prune, Sync, SyncFails
    <2> QED
      BY <2>1, <2>2, <2>3
  <1>3. Ends'
    BY <1>1, <1>2, EndsKept
  <1>4. Cleanup'
    BY <1>1 DEF Cleanup
  <1>5. Apart'
    <2>1. CASE Create(o)
      <3>1. PICK t \in Fresh : starting' = starting \cup {t}
        BY <2>1 DEF Create
      <3> QED
        BY <1>1, <3>1 DEF Apart, Fresh, Safe, Reach
    <2>2. CASE ~Create(o)
      BY <1>1, <2>2 DEF CreateAgain, Cancel, Discard, CloseAgain, Close, Prune, Apart
    <2> QED
      BY <2>1, <2>2
  <1> QED
    BY <1>3, <1>4, <1>5

LEMMA ShownCreation ==
  ASSUME Typed, Safe, Shown, NEW o \in Creation, NEW s \in Session,
         \/ Reserve(o, s) \/ Spawn(o, s) \/ FailCreation(o, s) \/ Publish(s) \/ Insert(o, s) \/ Withdrawn
  PROVE  Shown'
  <1> USE DEF Shown, registry, bounds
  <1>1. call.kind = "create" /\ phase = "up" /\ UNCHANGED <<pending, phase>>
    BY CallAt DEF Reserve, Spawn, FailCreation, Publish, Insert, Withdrawn, Starting, Typed, Safe, Progress
  <1>2. Cleanup'
    BY <1>1 DEF Cleanup
  <1>3. Apart'
    BY DEF Reserve, Spawn, FailCreation, Publish, Insert, Withdrawn, Apart
  <1>4. CASE Reserve(o, s)
    <2>1. shell[s] = "none" /\ UNCHANGED shell
      BY <1>4 DEF Reserve, Safe, Progress
    <2>2. cat' \in {cat, Reserving(o, s)}
      BY <1>4 DEF Reserve, Reserving, Write, WriteFails
    <2>3. \A t \in Session : cat'.status[t] = cat.status[t] \/ (t = s /\ cat'.status[t] = "starting")
      BY <2>2 DEF Reserving, Typed, Stored, Catalog
    <2>4. Ends'
      BY <1>1, <2>1, <2>3 DEF Ends
    <2> QED
      BY <1>2, <1>3, <2>4
  <1>5. CASE Spawn(o, s)
    <2>1. UNCHANGED cat /\ \A t \in Session : shell'[t] = shell[t] \/ shell'[t] = "running"
      BY <1>5 DEF Spawn, Typed, Served
    <2>2. Ends'
      BY <1>1, <2>1 DEF Ends
    <2> QED
      BY <1>2, <1>3, <2>2
  <1>6. CASE FailCreation(o, s)
    <2>1. cat' \in {cat, Failing(o, s)} /\ UNCHANGED shell
      BY <1>6 DEF FailCreation, Failing, Write, WriteFails
    <2>2. \A t \in Session : cat'.status[t] \in {cat.status[t], "ended"}
      BY <2>1 DEF Failing, Ended, Typed, Stored, Catalog
    <2>3. Ends'
      BY <1>1, <2>1, <2>2, EndsKept
    <2> QED
      BY <1>2, <1>3, <2>3
  <1>7. CASE Publish(s)
    <2>1. cat' \in {cat, Publishing(s)} /\ UNCHANGED shell /\ shell[s] # "none"
      BY <1>7 DEF Publish, Publishing, Write, WriteFails, Safe, Progress
    <2>2. \A t \in Session : cat'.status[t] = cat.status[t] \/ (t = s /\ cat.status[t] = "starting")
      BY <2>1 DEF Publishing, Typed, Stored, Catalog
    <2>3. Ends'
      BY <1>1, <2>1, <2>2, EndsKept
    <2> QED
      BY <1>2, <1>3, <2>3
  <1>8. CASE Insert(o, s) \/ Withdrawn
    <2>1. UNCHANGED <<cat, shell>>
      BY <1>8 DEF Insert, Withdrawn
    <2>2. Ends'
      BY <1>1, <2>1, EndsKept
    <2> QED
      BY <1>2, <1>3, <2>2
  <1> QED
    BY <1>4, <1>5, <1>6, <1>7, <1>8

LEMMA ShownLost == Lost => Shown'
  BY DEF Lost, Shown, Ends, Cleanup, Apart

LEMMA ShownDiscard ==
  ASSUME Typed, Safe, Shown, NEW s \in Session,
         \/ BeginDiscard(s) \/ Wait(s) \/ Erase(s) \/ FinishDiscard(s)
  PROVE  Shown'
  <1> USE DEF Shown, registry, bounds
  <1>1. phase = "cleanup" => s \in todo
    BY CallAt DEF BeginDiscard, Wait, Erase, FinishDiscard, Removing, Typed, Safe, Progress
  <1>2. \A t \in Session : cat'.status[t] \in {cat.status[t], "none"}
    <2>1. cat' \in {cat, Marking(s), Finishing(s)}
      BY DEF BeginDiscard, Marking, Wait, Erase, FinishDiscard, Finishing, Write, WriteFails
    <2> QED
      BY <2>1 DEF Marking, Finishing, Typed, Stored, Catalog
  <1>3. ASSUME UNCHANGED <<pending, listing, starting, shell, phase>>, phase = "cleanup" => Cleanup' PROVE Shown'
    <2>1. Ends'
      BY <1>2, <1>3, EndsKept
    <2>2. Cleanup'
      BY <1>3 DEF Cleanup
    <2> QED
      BY <1>3, <2>1, <2>2 DEF Apart
  <1>4. ASSUME Fail PROVE Shown'
    <2>1. CASE call.kind = "resume"
      BY <1>4, <2>1, ShownLost DEF Fail
    <2>2. CASE call.kind # "resume"
      <3>1. UNCHANGED <<pending, registry, shell, phase, todo>>
        BY <1>4, <2>2 DEF Fail
      <3>2. call.kind # "idle"
        BY CallAt DEF BeginDiscard, Wait, Erase, FinishDiscard, Removing, Typed
      <3>3. phase = "up"
        BY <2>2, <3>2 DEF Safe, Progress
      <3> QED
        BY <1>3, <3>1, <3>3
    <2> QED
      BY <2>1, <2>2
  <1>5. CASE BeginDiscard(s)
    <2>1. CASE Write(Marking(s)) /\ UNCHANGED <<pending, listing, starting, stopping, shell, phase, todo>>
      <3>1. Discarding(cat') \subseteq Discarding(cat) \cup {s}
        BY <2>1 DEF Write, Marking, Discarding, Known, Typed, Stored, Catalog
      <3> QED
        BY <1>1, <1>3, <2>1, <3>1 DEF Cleanup
    <2> QED
      BY <1>4, <1>5, <2>1 DEF BeginDiscard, Marking
  <1>6. CASE Wait(s) \/ Erase(s)
    <2>1. CASE UNCHANGED <<pending, registry, shell, phase, todo>>
      <3>1. UNCHANGED cat
        BY <1>6 DEF Wait, Erase
      <3> QED
        BY <1>3, <2>1, <3>1 DEF Cleanup
    <2> QED
      BY <1>4, <1>6, <2>1 DEF Wait, Erase
  <1>7. CASE FinishDiscard(s)
    <2>1. CASE Write(Finishing(s)) /\ todo' = todo \ {s} /\ UNCHANGED <<pending, registry, shell, phase>>
      <3>1. Discarding(cat') \subseteq Discarding(cat) \ {s}
        BY <2>1 DEF Write, Finishing, Discarding, Known, Typed, Stored, Catalog
      <3> QED
        BY <1>3, <2>1, <3>1 DEF Cleanup
    <2> QED
      BY <1>4, <1>7, <2>1 DEF FinishDiscard, Finishing
  <1> QED
    BY <1>5, <1>6, <1>7

LEMMA ShownOwner ==
  ASSUME Typed, Safe, Shown, NEW s \in Session,
         \/ Checkpoint(s) \/ Exit(s) \/ RecordExit(s) \/ RetryExits \/ Unlist(s)
  PROVE  Shown'
  <1> USE DEF Shown, registry, bounds
  <1>1. UNCHANGED <<phase, todo>> /\ listing' \subseteq listing /\ starting' \subseteq starting
    BY DEF Checkpoint, Exit, RecordExit, RetryExits, Unlist
  <1>2. Apart'
    BY <1>1 DEF Apart
  <1>3. ASSUME NEW E \in SUBSET Session, WriteExits(E)
        PROVE  /\ \A t \in Session : cat'.status[t] \in {cat.status[t], "ended"}
               /\ pending' = E \/ \A t \in E : cat'.status[t] \in {"none", "ended"}
               /\ Discarding(cat') = Discarding(cat)
    <2>1. cat' \in {cat, Ended(cat, E)} /\ (pending' = E \/ cat' = Ended(cat, E))
      BY <1>3, WroteExits
    <2>2. cat \in Catalog
      BY DEF Typed, Stored
    <2>3. Discarding(Ended(cat, E)) = Discarding(cat)
      BY <2>2, EndedContent DEF Discarding
    <2> QED
      BY <2>1, <2>2, <2>3, EndedContent
  <1>4. CASE Checkpoint(s) \/ Exit(s) \/ Unlist(s)
    <2>1. /\ UNCHANGED <<cat, pending>>
          /\ \A t \in Session : /\ shell'[t] \in {"recorded", "gone"} => shell[t] \in {"recorded", "gone"}
                                /\ shell'[t] = "none" => shell[t] = "none"
      BY <1>4 DEF Checkpoint, Exit, Unlist, Typed, Served
    <2> QED
      BY <1>1, <1>2, <2>1 DEF Ends, Cleanup
  <1>5. ASSUME NEW E \in SUBSET Session, pending \subseteq E, WriteExits(E),
               \A t \in Session : /\ shell'[t] \in {"recorded", "gone"} => shell[t] \in {"recorded", "gone"} \/ t \in E
                                  /\ shell'[t] = "none" => shell[t] = "none"
        PROVE  Shown'
    <2>1. Cleanup'
      BY <1>1, <1>3, <1>5 DEF Cleanup
    <2>2. Ends'
      BY <1>1, <1>3, <1>5 DEF Ends
    <2> QED
      BY <1>2, <2>1, <2>2
  <1>6. CASE RecordExit(s)
    <2>1. pending \cup {s} \in SUBSET Session
      BY DEF Typed, Served
    <2>2. WriteExits(pending \cup {s}) /\ \A t \in Session : t # s => shell'[t] = shell[t]
      BY <1>6 DEF RecordExit, Typed, Served
    <2>3. shell'[s] = "recorded"
      BY <1>6 DEF RecordExit, Typed, Served
    <2> QED
      BY <1>5, <2>1, <2>2, <2>3
  <1>7. CASE RetryExits
    <2>1. pending \in SUBSET Session
      BY DEF Typed, Served
    <2> QED
      BY <1>5, <1>7, <2>1 DEF RetryExits
  <1> QED
    BY <1>4, <1>6, <1>7

LEMMA ShownServer ==
  ASSUME Typed, Safe, Shown, NEW s \in Session,
         Shutdown \/ StopIfIdle \/ Die \/ PowerLoss \/ Open \/ Serve \/ Resume(s)
  PROVE  Shown'
  <1> USE DEF Shown, registry, bounds
  <1>1. CASE Shutdown \/ StopIfIdle \/ Resume(s)
    <2>1. UNCHANGED <<cat, pending, listing, starting, shell, phase, todo>>
      BY <1>1 DEF Shutdown, StopIfIdle, Resume
    <2> QED
      BY <2>1 DEF Ends, Cleanup, Apart
  <1>2. CASE Die \/ PowerLoss
    BY <1>2, ShownLost DEF Die, PowerLoss
  <1>3. CASE Open
    <2>1. UNCHANGED <<pending, listing, starting, shell>> /\ phase = "down"
      BY <1>3 DEF Open
    <2>2. CASE Write(Ended(cat, Session)) /\ phase' = "cleanup" /\ todo' = Discarding(Ended(cat, Session))
      <3>1. \A t \in Session : cat'.status[t] \in {"none", "ended"}
        BY <2>2 DEF Write, Ended, Typed, Stored, Catalog
      <3> QED
        BY <2>1, <2>2, <3>1 DEF Ends, Cleanup, Apart, Write
    <2>3. CASE phase' = "down"
      BY <2>1, <2>3 DEF Ends, Cleanup, Apart
    <2> QED
      BY <1>3, <2>1, <2>2, <2>3 DEF Open
  <1>4. CASE Serve
    BY <1>4 DEF Serve, Ends, Cleanup, Apart
  <1> QED
    BY <1>1, <1>2, <1>3, <1>4

-----------------------------------------------------------------------------
(* The theorems *)

Inv == Typed /\ Durable /\ Safe /\ Shown

LEMMA InvInit == Init => Inv
  BY TypedInit, DurableInit, SafeInit, ShownInit DEF Inv

LEMMA RequestStep ==
  ASSUME Inv, NEW o \in Creation, NEW k \in Closing, NEW s \in Session, NEW d \in BOOLEAN,
         \/ CreateAgain(o) \/ Create(o) \/ Cancel(o) \/ Discard(s) \/ CloseAgain(k, s) \/ Close(k, s, d)
         \/ Prune(s)
  PROVE  Inv'
  <1>1. Typed'
    BY CreationTyped, RequestTyped DEF Inv
  <1>2. Durable'
    BY DurableQuiet, DurableCreateAgain, DurableCancel, DurableClose, DurableCloseAgain DEF Inv
  <1>3. Safe'
    BY SafeRequest DEF Inv
  <1>4. Shown'
    BY ShownRequest DEF Inv
  <1> QED
    BY <1>1, <1>2, <1>3, <1>4 DEF Inv

LEMMA OperateStep ==
  ASSUME Inv, NEW o \in Creation, NEW s \in Session,
         \/ Reserve(o, s) \/ Spawn(o, s) \/ FailCreation(o, s) \/ Publish(s) \/ Insert(o, s) \/ Withdrawn
         \/ BeginDiscard(s) \/ Wait(s) \/ Erase(s) \/ FinishDiscard(s)
  PROVE  Inv'
  <1>1. Typed'
    BY CreationTyped, DiscardTyped DEF Inv
  <1>2. Durable'
    BY DurableReserve, DurableSpawn, DurableWrites, DurableQuiet, DurableFinish DEF Inv, Safe
  <1>3. Safe'
    BY SafeCreation, SafeDiscard DEF Inv
  <1>4. Shown'
    BY ShownCreation, ShownDiscard DEF Inv
  <1> QED
    BY <1>1, <1>2, <1>3, <1>4 DEF Inv

LEMMA OwnerStep ==
  ASSUME Inv, NEW s \in Session,
         \/ Checkpoint(s) \/ Exit(s) \/ RecordExit(s) \/ RetryExits \/ Unlist(s)
  PROVE  Inv'
  <1>0. PICK o \in Creation : TRUE
    BY SessionCatalogAssumption
  <1>1. Typed'
    BY OwnerTyped DEF Inv
  <1>2. Durable'
    BY <1>0, DurableWrites, DurableQuiet DEF Inv
  <1>3. Safe'
    BY <1>0, SafeOwner DEF Inv
  <1>4. Shown'
    BY ShownOwner DEF Inv
  <1> QED
    BY <1>1, <1>2, <1>3, <1>4 DEF Inv

LEMMA ServerStep ==
  ASSUME Inv, NEW s \in Session,
         Shutdown \/ StopIfIdle \/ Die \/ PowerLoss \/ Open \/ Serve \/ Resume(s)
  PROVE  Inv'
  <1>0. PICK o \in Creation, k \in Closing : TRUE
    BY SessionCatalogAssumption
  <1>1. Typed'
    BY <1>0, ServerTyped, RequestTyped DEF Inv
  <1>2. Durable'
    BY <1>0, DurableWrites, DurableQuiet, DurablePowerLoss DEF Inv
  <1>3. Safe'
    BY <1>0, SafeServer DEF Inv
  <1>4. Shown'
    BY ShownServer DEF Inv
  <1> QED
    BY <1>1, <1>2, <1>3, <1>4 DEF Inv

LEMMA InvStep == Inv /\ [Next]_vars => Inv'
  <1> SUFFICES ASSUME Inv, [Next]_vars PROVE Inv'
    OBVIOUS
  <1>0. PICK o \in Creation, k \in Closing, s \in Session : TRUE
    BY SessionCatalogAssumption
  <1>1. CASE Request
    BY <1>0, <1>1, RequestStep DEF Request
  <1>2. CASE Operate
    BY <1>0, <1>2, OperateStep DEF Operate
  <1>3. CASE RetryExits \/ \E t \in Session : Checkpoint(t) \/ Exit(t) \/ Owner(t)
    BY <1>0, <1>3, OwnerStep DEF Owner
  <1>4. CASE Restart \/ Shutdown \/ StopIfIdle \/ Die \/ PowerLoss
    BY <1>0, <1>4, ServerStep DEF Restart
  <1>5. CASE UNCHANGED vars
    <2>1. UNCHANGED <<cat, older, pending, saved, listing, starting, stopping, told, shell, call, phase, todo,
                      faults, restarts, started, made, refused, kept, doomed, gone>>
      BY <1>5 DEF vars, registry, answers, bounds
    <2>2. Typed'
      BY <2>1, Same DEF Inv, Typed
    <2>3. Durable'
      BY <2>1, DurableSame DEF Inv, AnswersKept, CallKept
    <2>4. Safe'
      BY <2>1 DEF Inv, Safe, Reach, Progress, Removed, Active, Running, Known, Made
    <2>5. Shown'
      BY <2>1 DEF Inv, Shown, Ends, Cleanup, Apart
    <2> QED
      BY <2>2, <2>3, <2>4, <2>5 DEF Inv
  <1> QED
    BY <1>1, <1>2, <1>3, <1>4, <1>5 DEF Next

\* The inductive invariant holds throughout: what was answered is in every catalog that
\* may come back (Durable), shells are listed and removals proceed in order (Safe), and
\* the catalog shows ends and finishes what it found (Shown).
THEOREM Invariant == Spec => []Inv
  BY InvInit, InvStep, PTL DEF Spec

\* Every variable has its type, and no session is both listed and being started.
THEOREM TypeCorrect == Spec => []TypeOK
  <1>1. Inv => TypeOK
    BY DEF Inv, Typed, Stored, Served, Called, Counted, History, Shown, Apart, TypeOK, Catalog
  <1> QED
    BY <1>1, Invariant, PTL

LEMMA AtMostOne ==
  ASSUME NEW S, \A s, t \in S : s = t
  PROVE  Cardinality(S) <= 1
  <1>1. CASE S = {}
    BY <1>1, FS_EmptySet, SMT
  <1>2. CASE S # {}
    <2>1. PICK s \in S : S = {s}
      BY <1>2
    <2>2. Cardinality(S) = 1
      BY <2>1, FS_Singleton
    <2> QED
      BY <2>2
  <1> QED
    BY <1>1, <1>2

\* Whatever fails, is repeated or comes back after a power loss: one creation starts one
\* shell and is answered with one session, which the catalog keeps until something
\* removes it, and a close is decided once.
THEOREM AnswersAlwaysHold == Spec => []AnswersHold
  <1>1. ASSUME Inv PROVE AnswersHold
    <2>1. /\ \A o \in Creation, s, t \in Session :
               <<o, s>> \in cat.creations /\ <<o, t>> \in cat.creations => s = t
          /\ \A o \in Creation, s \in Session : <<o, s>> \in cat.creations => s \in Known(cat) \cup doomed
          /\ \A k \in Closing, s, t \in Session, d, e \in BOOLEAN :
               <<k, s, d>> \in cat.closes /\ <<k, t, e>> \in cat.closes => d = e
      BY <1>1 DEF Inv, Durable, Contents, Good, Decided
    <2>2. /\ \A o \in Creation : \A s \in started[o] : <<o, s>> \in cat.creations
          /\ made \subseteq cat.creations
          /\ \A k \in kept : \E s \in Session : <<k, s, FALSE>> \in cat.closes
      BY <1>1 DEF Inv, Durable, Contents, Good, Holds
    <2>3. OneSessionPerCreation
      <3> SUFFICES ASSUME NEW o \in Creation
                   PROVE  /\ Cardinality(started[o]) <= 1
                          /\ Cardinality({s \in Session : <<o, s>> \in made}) <= 1
        BY DEF OneSessionPerCreation
      <3>1. started[o] \subseteq Session
        BY <1>1 DEF Inv, Typed, History
      <3>2. \A s, t \in started[o] : s = t
        BY <2>1, <2>2, <3>1
      <3>3. \A s, t \in {u \in Session : <<o, u>> \in made} : s = t
        BY <2>1, <2>2
      <3> QED
        BY <3>2, <3>3, AtMostOne
    <2>4. AnsweredIsKept
      BY <2>1, <2>2 DEF AnsweredIsKept
    <2>5. CloseDecidedOnce
      <3> SUFFICES ASSUME call.kind = "close", NEW k \in call.op, k \in kept PROVE FALSE
        BY DEF CloseDecidedOnce
      <3>1. k \in Closing /\ \E s \in Session : s \in call.session
        BY <1>1 DEF Inv, Typed, Called, History
      <3>2. \E s \in Session : <<k, s, TRUE>> \in cat.closes
        BY <1>1, <3>1 DEF Inv, Durable, Contents, Good, Covers
      <3> QED
        BY <2>1, <2>2, <3>1, <3>2
    <2> QED
      BY <2>3, <2>4, <2>5 DEF AnswersHold
  <1> QED
    BY <1>1, Invariant, PTL

\* What was removed never runs, is never saved and is in no catalog again.
THEOREM RemovedForGood == Spec => []GoneForGood
  <1>1. ASSUME Inv PROVE GoneForGood
    <2>1. \A o \in refused : started[o] \subseteq gone
      BY <1>1 DEF Inv, Safe, Removed
    <2>2. gone \cap (listing \cup starting \cup saved) = {}
      BY <1>1 DEF Inv, Safe, Removed
    <2>3. \A s \in gone : cat.status[s] = "none"
      BY <1>1 DEF Inv, Durable, Contents, Good, Holds
    <2>4. Running \subseteq listing \cup starting
      BY <1>1 DEF Inv, Safe, Reach, Running, Active
    <2> QED
      BY <2>1, <2>2, <2>3, <2>4 DEF GoneForGood, Known
  <1> QED
    BY <1>1, Invariant, PTL

\* Every running shell can be reached, and what is shown as live runs or is about to be
\* recorded as ended.
THEOREM ShellsAlwaysListed == Spec => []ShellsListed
  <1>1. ASSUME Inv PROVE ShellsListed
    <2>1. NoOrphanShell
      BY <1>1 DEF Inv, Safe, Reach, Running, Active, NoOrphanShell
    <2>2. LiveIsLive
      BY <1>1 DEF Inv, Shown, Ends, LiveIsLive, Typed, Served
    <2> QED
      BY <2>1, <2>2 DEF ShellsListed
  <1> QED
    BY <1>1, Invariant, PTL

\* A server begins to serve only when no removal it found is left to do.
THEOREM StartsClean == Spec => CleanStart
  <1>1. Inv /\ [Next]_vars => [phase = "cleanup" /\ phase' = "up" => Discarding(cat) = {}]_vars
    <2> SUFFICES ASSUME Inv, Next, phase = "cleanup", phase' = "up" PROVE Discarding(cat) = {}
      OBVIOUS
    <2>1. Serve
      <3>1. ASSUME Request PROVE FALSE
        BY <3>1 DEF Request, Create, CreateAgain, Cancel, Discard, Prune, CloseAgain, Close, May
      <3>2. ASSUME Lost \/ phase' = phase PROVE FALSE
        BY <3>2 DEF Lost
      <3>3. ASSUME Operate PROVE FALSE
        BY <3>2, <3>3 DEF Operate, Reserve, Spawn, FailCreation, Insert, Publish, BeginDiscard, Wait, Erase,
                          FinishDiscard, Withdrawn, Fail
      <3>4. ASSUME RetryExits \/ \E s \in Session : Checkpoint(s) \/ Exit(s) \/ Owner(s) PROVE FALSE
        BY <3>2, <3>4 DEF RetryExits, Checkpoint, Exit, Owner, RecordExit, Unlist
      <3>5. ASSUME Shutdown \/ StopIfIdle \/ Die \/ PowerLoss PROVE FALSE
        BY <3>2, <3>5 DEF Shutdown, StopIfIdle, Die, PowerLoss
      <3>6. ASSUME Open \/ \E s \in Session : Resume(s) PROVE FALSE
        BY <3>2, <3>6 DEF Open, Resume
      <3> QED
        BY <3>1, <3>3, <3>4, <3>5, <3>6 DEF Next, Restart
    <2> QED
      BY <2>1 DEF Serve, Inv, Shown, Cleanup
  <1> QED
    BY <1>1, Invariant, PTL DEF Spec, CleanStart
====
