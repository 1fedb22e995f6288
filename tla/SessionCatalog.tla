----------------------------- MODULE SessionCatalog -----------------------------
(***************************************************************************)
(* The life of sessions: the registry that starts, lists and ends them     *)
(* (muxy-server/src/registry.rs) and the catalog that remembers them and   *)
(* the operations of the apps across failed writes, crashes and power      *)
(* losses (muxy-server/src/catalog/).                                      *)
(*                                                                         *)
(* One operation of an app runs at a time, under the operations lock, but  *)
(* in several steps: between them shells exit, owner threads record it,    *)
(* the server shuts down or dies.  The catalog in memory is the content    *)
(* its file names, because an update is published exactly when the new     *)
(* file was renamed into place; `older` holds the contents a power loss    *)
(* may still bring back because their folder was not synced since.         *)
(***************************************************************************)
EXTENDS Integers, FiniteSets

CONSTANTS
  Session,     \* session identities, drawn at random and never drawn twice
  Creation,    \* operation tokens of session creations
  Closing,     \* operation tokens of pane closes
  MaxFaults,   \* bound on failed writes and failed starts
  MaxRestarts  \* bound on deaths of the server

\* Identities are random 64-bit numbers and tokens are UUIDs, so there are some of each.
ASSUME SessionCatalogAssumption ==
  /\ MaxFaults \in Nat /\ MaxRestarts \in Nat
  /\ Session # {} /\ Creation # {} /\ Closing # {}

VARIABLES
  cat,       \* the catalog
  older,     \* catalogs that a power loss may bring back
  pending,   \* ended sessions whose end could not be written yet
  saved,     \* sessions with saved content in the archive
  listing,   \* sessions with a handle in the registry
  starting,  \* sessions reserved and not yet listed
  stopping,  \* the server takes no new sessions
  told,      \* sessions told to end or to stop
  shell,     \* each session's process and owner thread
  call,      \* the operation that holds the operations lock
  phase,     \* "down", "cleanup" while it starts, "up"
  todo,      \* discards that the starting server still has to finish
  faults, restarts,
  \* history
  started,   \* the sessions that a creation started a shell for
  made,      \* creations answered with a session
  refused,   \* creations whose cancellation was answered
  kept,      \* closes answered without ending the session
  doomed,    \* sessions some operation began to remove
  gone       \* sessions whose removal was answered or reported done

registry == <<listing, starting, stopping, told>>
answers  == <<made, refused, kept, gone>>
bounds   == <<faults, restarts>>
vars == <<cat, older, pending, saved, registry, shell, call, phase, todo, bounds,
          started, doomed, answers>>

-----------------------------------------------------------------------------
(* The catalog *)

Idle == [kind |-> "idle", op |-> {}, session |-> {}, at |-> "idle"]

Empty == [status |-> [s \in Session |-> "none"], discarding |-> {}, cancelled |-> {},
          creations |-> {}, failed |-> {}, closes |-> {}]

Made(o)   == {s \in Session : <<o, s>> \in cat.creations}
Known(c)  == {s \in Session : c.status[s] # "none"}

\* Sessions to be discarded by a server that starts, those of cancelled creations too.
Discarding(c) ==
  c.discarding \cup {s \in Known(c) : \E o \in c.cancelled : <<o, s>> \in c.creations}

Ended(c, ended) ==
  [c EXCEPT !.status = [s \in Session |-> IF s \in ended /\ c.status[s] # "none"
                                          THEN "ended" ELSE c.status[s]]]

\* The new catalog was renamed into place and its folder synced.
Write(new) == cat' = new /\ older' = {} /\ UNCHANGED faults

\* The write failed: nothing changed, or the rename happened and the sync failed.
WriteFails(new) ==
  /\ faults < MaxFaults /\ faults' = faults + 1
  /\ \/ UNCHANGED <<cat, older>>
     \/ cat' = new /\ older' = older \cup {cat}

\* ensure_durable
Sync    == older' = {} /\ UNCHANGED <<cat, faults>>
SyncFails == faults < MaxFaults /\ faults' = faults + 1 /\ UNCHANGED <<cat, older>>

-----------------------------------------------------------------------------
Init ==
  /\ cat = Empty /\ older = {} /\ pending = {} /\ saved = {}
  /\ listing = {} /\ starting = {} /\ stopping = FALSE /\ told = {}
  /\ shell = [s \in Session |-> "none"]
  /\ call = Idle /\ phase = "up" /\ todo = {} /\ faults = 0 /\ restarts = 0
  /\ started = [o \in Creation |-> {}]
  /\ made = {} /\ refused = {} /\ kept = {} /\ doomed = {} /\ gone = {}

May == phase = "up" /\ call = Idle

Step(at) == call' = [call EXCEPT !.at = at]

\* An error is answered; a server that is still starting gives up.
Lost ==
  /\ pending' = {} /\ listing' = {} /\ starting' = {} /\ stopping' = FALSE /\ told' = {}
  /\ shell' = [s \in Session |-> IF shell[s] = "none" THEN "none" ELSE "gone"]
  /\ call' = Idle /\ phase' = "down" /\ todo' = {}

Fail ==
  \/ call.kind # "resume" /\ call' = Idle /\ UNCHANGED <<pending, registry, shell, phase, todo>>
  \/ call.kind = "resume" /\ Lost

-----------------------------------------------------------------------------
(* Creating a session *)

\* create_launched finds the token in the catalog.
CreateAgain(o) ==
  /\ May /\ (o \in cat.cancelled \/ Made(o) # {})
  /\ \/ Sync /\ made' = made \cup (IF o \in cat.cancelled \cup cat.failed THEN {}
                                     ELSE {<<o, s>> : s \in Made(o)})
     \/ SyncFails /\ UNCHANGED made
  /\ UNCHANGED <<pending, saved, registry, shell, call, phase, todo, restarts, started, doomed,
                 refused, kept, gone>>

\* Identities no one has seen yet.
Fresh ==
  {s \in Session \ (starting \cup doomed) :
     /\ shell[s] = "none"
     /\ \A c \in older \cup {cat}, o \in Creation : <<o, s>> \notin c.creations}

\* reserve_start
Create(o) ==
  /\ May /\ o \notin cat.cancelled /\ Made(o) = {} /\ ~stopping
  /\ \E s \in Fresh :
       /\ starting' = starting \cup {s}
       /\ call' = [kind |-> "create", op |-> {o}, session |-> {s}, at |-> "reserve"]
  /\ UNCHANGED <<cat, older, pending, saved, listing, stopping, told, shell, phase, todo, bounds,
                 started, doomed, answers>>

\* Mutant: a creation goes on although its reservation may not be on disk.
ReserveUnsynced(o, s) ==
  LET new == [cat EXCEPT !.status[s] = "starting", !.creations = @ \cup {<<o, s>>}] IN
  /\ call.kind = "create" /\ call.at = "reserve" /\ call.op = {o} /\ call.session = {s}
  /\ Write(new) \/ WriteFails(new)
  /\ Step("spawn")
  /\ UNCHANGED <<pending, saved, registry, shell, phase, todo, restarts, started, doomed, answers>>

Reserve(o, s) ==
  LET new == [cat EXCEPT !.status[s] = "starting", !.creations = @ \cup {<<o, s>>}] IN
  /\ call.kind = "create" /\ call.at = "reserve" /\ call.op = {o} /\ call.session = {s}
  /\ \/ Write(new) /\ Step("spawn") /\ UNCHANGED starting
     \/ WriteFails(new) /\ starting' = starting \ {s} /\ call' = Idle
  /\ UNCHANGED <<pending, saved, listing, stopping, told, shell, phase, todo, restarts,
                 started, doomed, answers>>

Spawn(o, s) ==
  /\ call.at = "spawn" /\ call.op = {o} /\ call.session = {s}
  /\ \/ /\ shell' = [shell EXCEPT ![s] = "running"] /\ started' = [started EXCEPT ![o] = @ \cup {s}]
        /\ Step("publish") /\ UNCHANGED <<starting, faults>>
     \/ /\ faults < MaxFaults /\ faults' = faults + 1
        /\ starting' = starting \ {s} /\ Step("fail") /\ UNCHANGED <<shell, started>>
  /\ UNCHANGED <<cat, older, pending, saved, listing, stopping, told, phase, todo, restarts,
                 doomed, answers>>

\* fail_creation: the error is answered whether or not it could be recorded.
FailCreation(o, s) ==
  LET new == Ended([cat EXCEPT !.failed = @ \cup {o}], {s}) IN
  /\ call.at = "fail" /\ call.op = {o} /\ call.session = {s}
  /\ Write(new) \/ WriteFails(new)
  /\ call' = Idle
  /\ UNCHANGED <<pending, saved, registry, shell, phase, todo, restarts, started, doomed, answers>>

\* set_status(Live), unless the session ended meanwhile.
Publish(s) ==
  LET new == [cat EXCEPT !.status[s] = IF @ = "starting" THEN "live" ELSE @] IN
  /\ call.at = "publish" /\ call.session = {s}
  /\ \/ Write(new) /\ Step("insert")
     \/ WriteFails(new) /\ Step("withdraw")
  /\ UNCHANGED <<pending, saved, registry, shell, phase, todo, restarts, started, doomed, answers>>

\* Mutant: the reservation outlives the listing.
InsertReserved(o, s) ==
  /\ call.at \in {"insert", "withdraw"} /\ call.op = {o} /\ call.session = {s}
  /\ listing' = listing \cup ({s} \cap starting)
  /\ told' = told \cup (IF stopping \/ call.at = "withdraw" THEN {s} \cap starting ELSE {})
  /\ \/ call.at = "insert" /\ call' = Idle /\ made' = made \cup {<<o, s>>}
     \/ call.at = "withdraw" /\ Step("withdrawn") /\ UNCHANGED made
  /\ UNCHANGED <<cat, older, pending, saved, starting, stopping, shell, phase, todo, bounds,
                 started, doomed, refused, kept, gone>>

\* Mutant: a session that could not be published is not listed, so nobody ends it.
InsertPublished(o, s) ==
  /\ call.at \in {"insert", "withdraw"} /\ call.op = {o} /\ call.session = {s}
  /\ listing' = listing \cup (IF call.at = "insert" THEN {s} \cap starting ELSE {})
  /\ starting' = starting \ {s}
  /\ told' = told \cup (IF stopping THEN {s} \cap starting ELSE {})
  /\ \/ call.at = "insert" /\ call' = Idle /\ made' = made \cup {<<o, s>>}
     \/ call.at = "withdraw" /\ Step("withdrawn") /\ UNCHANGED made
  /\ UNCHANGED <<cat, older, pending, saved, stopping, shell, phase, todo, bounds, started, doomed,
                 refused, kept, gone>>

\* The session is listed, unless it already ended, and told to stop if the server stops.
Insert(o, s) ==
  /\ call.at \in {"insert", "withdraw"} /\ call.op = {o} /\ call.session = {s}
  /\ listing' = listing \cup ({s} \cap starting)
  /\ starting' = starting \ {s}
  /\ told' = told \cup (IF stopping \/ call.at = "withdraw" THEN {s} \cap starting ELSE {})
  /\ \/ call.at = "insert" /\ call' = Idle /\ made' = made \cup {<<o, s>>}
     \/ call.at = "withdraw" /\ Step("withdrawn") /\ UNCHANGED made
  /\ UNCHANGED <<cat, older, pending, saved, stopping, shell, phase, todo, bounds, started, doomed,
                 refused, kept, gone>>

\* The wait for a session that could not be published: it ends, or five seconds pass.
Withdrawn ==
  /\ call.at = "withdrawn" /\ call' = Idle
  /\ UNCHANGED <<cat, older, pending, saved, registry, shell, phase, todo, bounds, started, doomed,
                 answers>>

-----------------------------------------------------------------------------
(* Removing a session *)

Removal(kind, op, s) ==
  /\ call' = [kind |-> kind, op |-> op, session |-> {s}, at |-> "begin"]
  /\ doomed' = doomed \cup {s}

\* Mutant: the cancellation is not recorded when the creation is not known.
CancelKnown(o) ==
  LET new == [cat EXCEPT !.cancelled = @ \cup (IF Made(o) = {} THEN {} ELSE {o})] IN
  /\ May
  /\ \/ /\ Write(new)
        /\ \/ Made(o) = {} /\ refused' = refused \cup {o} /\ UNCHANGED <<call, doomed>>
           \/ \E s \in Made(o) : Removal("cancel", {o}, s) /\ UNCHANGED refused
     \/ /\ WriteFails(new) /\ doomed' = doomed \cup Made(o) /\ UNCHANGED <<call, refused>>
  /\ UNCHANGED <<pending, saved, registry, shell, phase, todo, restarts, started, made, kept, gone>>

\* cancel_creation
Cancel(o) ==
  LET new == [cat EXCEPT !.cancelled = @ \cup {o}] IN
  /\ May
  /\ \/ /\ Write(new)
        /\ \/ Made(o) = {} /\ refused' = refused \cup {o} /\ UNCHANGED <<call, doomed>>
           \/ \E s \in Made(o) : Removal("cancel", {o}, s) /\ UNCHANGED refused
     \/ /\ WriteFails(new) /\ doomed' = doomed \cup Made(o) /\ UNCHANGED <<call, refused>>
  /\ UNCHANGED <<pending, saved, registry, shell, phase, todo, restarts, started, made, kept, gone>>

\* A session an app has learnt of.
Named == {s \in Session : shell[s] # "none" \/ s \in Known(cat)}

\* DiscardSession
Discard(s) ==
  /\ May /\ s \in Named /\ Removal("discard", {}, s)
  /\ UNCHANGED <<cat, older, pending, saved, registry, shell, phase, todo, bounds, started, answers>>

\* close_session whose decision is recorded already.
CloseAgain(k, s) ==
  /\ May
  /\ \E discard \in BOOLEAN :
       /\ <<k, s, discard>> \in cat.closes
       /\ \/ Sync /\ discard /\ Removal("close", {k}, s) /\ UNCHANGED kept
          \/ Sync /\ ~discard /\ kept' = kept \cup {k} /\ UNCHANGED <<call, doomed>>
          \/ SyncFails /\ UNCHANGED <<call, doomed, kept>>
  /\ UNCHANGED <<pending, saved, registry, shell, phase, todo, restarts, started, made, refused, gone>>

\* close_session decides by what the other apps have open.
Close(k, s, discard) ==
  LET new == [cat EXCEPT !.closes = @ \cup {<<k, s, discard>>},
                         !.discarding = @ \cup (IF discard THEN {s} ELSE {})] IN
  /\ May /\ s \in Named /\ \A t \in Session, d \in BOOLEAN : <<k, t, d>> \notin cat.closes
  /\ \/ Write(new) /\ discard /\ Removal("close", {k}, s) /\ UNCHANGED kept
     \/ Write(new) /\ ~discard /\ kept' = kept \cup {k} /\ UNCHANGED <<call, doomed>>
     \/ /\ WriteFails(new) /\ doomed' = IF discard THEN doomed \cup {s} ELSE doomed
        /\ UNCHANGED <<call, kept>>
  /\ UNCHANGED <<pending, saved, registry, shell, phase, todo, restarts, started, made, refused, gone>>

\* discard_owned: the intent is recorded, then a live session is told to end.
BeginDiscard(s) ==
  LET new == [cat EXCEPT !.discarding = @ \cup {s}] IN
  /\ call.at = "begin" /\ call.session = {s}
  /\ \/ /\ Write(new) /\ told' = told \cup ({s} \cap listing)
        /\ Step(IF s \in listing THEN "wait" ELSE "erase")
        /\ UNCHANGED <<pending, listing, starting, stopping, shell, phase, todo>>
     \/ WriteFails(new) /\ Fail
  /\ UNCHANGED <<saved, restarts, started, doomed, answers>>

\* wait_ended gives up after five seconds.
Wait(s) ==
  /\ call.at = "wait" /\ call.session = {s}
  /\ \/ s \notin listing /\ Step("erase") /\ UNCHANGED <<pending, registry, shell, phase, todo>>
     \/ s \in listing /\ Fail
  /\ UNCHANGED <<cat, older, saved, bounds, started, doomed, answers>>

\* The archive removes the saved content, or fails to.
Erase(s) ==
  /\ call.at = "erase" /\ call.session = {s}
  /\ \/ /\ saved' = saved \ {s} /\ Step("finish")
        /\ UNCHANGED <<pending, registry, shell, phase, todo, faults>>
     \/ faults < MaxFaults /\ faults' = faults + 1 /\ Fail /\ UNCHANGED saved
  /\ UNCHANGED <<cat, older, restarts, started, doomed, answers>>

\* finish_discard
FinishDiscard(s) ==
  LET new == [cat EXCEPT !.status[s] = "none", !.discarding = @ \ {s}] IN
  /\ call.at = "finish" /\ call.session = {s}
  /\ \/ /\ Write(new) /\ call' = Idle /\ gone' = gone \cup {s} /\ todo' = todo \ {s}
        /\ refused' = IF call.kind = "cancel" THEN refused \cup call.op ELSE refused
        /\ UNCHANGED <<pending, registry, shell, phase>>
     \/ WriteFails(new) /\ Fail /\ UNCHANGED <<gone, refused>>
  /\ UNCHANGED <<saved, restarts, started, doomed, made, kept>>

\* The hourly removal of ended sessions.  Its list is read before the lock is taken,
\* so a session on it may have been removed since.
Prune(s) ==
  /\ May /\ s \notin listing \cup starting
  /\ \/ cat.status[s] = "ended"
     \/ cat.status[s] = "none" /\ shell[s] = "gone"
  /\ call' = [kind |-> "prune", op |-> {}, session |-> {s}, at |-> "erase"]
  /\ doomed' = doomed \cup {s}
  /\ UNCHANGED <<cat, older, pending, saved, registry, shell, phase, todo, bounds, started, answers>>

-----------------------------------------------------------------------------
(* The owner thread of a session *)

Checkpoint(s) ==
  /\ shell[s] = "running" /\ s \notin saved /\ saved' = saved \cup {s}
  /\ UNCHANGED <<cat, older, pending, registry, shell, call, phase, todo, bounds, started, doomed,
                 answers>>

\* The program ends by itself or because it was told to; its last checkpoint may fail.
Exit(s) ==
  /\ shell[s] = "running" /\ shell' = [shell EXCEPT ![s] = "exited"]
  /\ saved' \in {saved, saved \cup {s}}
  /\ UNCHANGED <<cat, older, pending, registry, call, phase, todo, bounds, started, doomed, answers>>

\* Mutant: an end that could not be written is forgotten.
WriteExitsOnce(ended) ==
  /\ Write(Ended(cat, ended)) \/ WriteFails(Ended(cat, ended))
  /\ pending' = {}

\* retry_exits writes the ends that are pending, unless another thread is at it or
\* a failed attempt was less than a second ago.
WriteExits(ended) ==
  \/ Write(Ended(cat, ended)) /\ pending' = {}
  \/ WriteFails(Ended(cat, ended)) /\ pending' = ended
  \/ UNCHANGED <<cat, older, faults>> /\ pending' = ended

\* record_exit
RecordExit(s) ==
  /\ shell[s] = "exited" /\ shell' = [shell EXCEPT ![s] = "recorded"]
  /\ WriteExits(pending \cup {s})
  /\ UNCHANGED <<saved, registry, call, phase, todo, restarts, started, doomed, answers>>

\* retry_until_written, or a listing of sessions that tries as well.
RetryExits ==
  /\ pending # {} /\ phase # "down" /\ WriteExits(pending)
  /\ UNCHANGED <<saved, registry, shell, call, phase, todo, restarts, started, doomed, answers>>

\* The end of the closure session_exit.
Unlist(s) ==
  /\ shell[s] = "recorded" /\ shell' = [shell EXCEPT ![s] = "gone"]
  /\ listing' = listing \ {s} /\ starting' = starting \ {s}
  /\ UNCHANGED <<cat, older, pending, saved, stopping, told, call, phase, todo, bounds, started,
                 doomed, answers>>

-----------------------------------------------------------------------------
(* The server *)

\* Registry::shutdown
Shutdown ==
  /\ phase = "up" /\ ~stopping /\ stopping' = TRUE /\ told' = told \cup listing
  /\ UNCHANGED <<cat, older, pending, saved, listing, starting, shell, call, phase, todo, bounds,
                 started, doomed, answers>>

StopIfIdle ==
  /\ phase = "up" /\ ~stopping /\ listing = {} /\ starting = {} /\ stopping' = TRUE
  /\ UNCHANGED <<cat, older, pending, saved, listing, starting, told, shell, call, phase, todo,
                 bounds, started, doomed, answers>>

\* wait_stopped returned.
Stopped == stopping /\ listing = {} /\ starting = {}

\* The server stops once no session is left, or is killed; operations are cut off.
Die ==
  /\ phase # "down" /\ restarts < MaxRestarts /\ restarts' = restarts + 1
  /\ Lost
  /\ UNCHANGED <<cat, older, saved, faults, started, doomed, answers>>

PowerLoss ==
  /\ phase # "down" /\ restarts < MaxRestarts /\ restarts' = restarts + 1
  /\ cat' \in older \cup {cat} /\ older' = {}
  /\ Lost
  /\ UNCHANGED <<saved, faults, started, doomed, answers>>

\* Catalog::open: no session survived, and what was being discarded still has to be.
Open ==
  LET new == Ended(cat, Session) IN
  /\ phase = "down"
  /\ \/ Write(new) /\ phase' = "cleanup" /\ todo' = Discarding(new)
     \/ WriteFails(new) /\ UNCHANGED <<phase, todo>>
  /\ UNCHANGED <<pending, saved, registry, shell, call, restarts, started, doomed, answers>>

\* resume_cleanup
Resume(s) ==
  /\ phase = "cleanup" /\ call = Idle /\ s \in todo /\ Removal("resume", {}, s)
  /\ UNCHANGED <<cat, older, pending, saved, registry, shell, phase, todo, bounds, started, answers>>

Serve ==
  /\ phase = "cleanup" /\ call = Idle /\ todo = {} /\ phase' = "up"
  /\ UNCHANGED <<cat, older, pending, saved, registry, shell, call, todo, bounds, started, doomed,
                 answers>>

-----------------------------------------------------------------------------
Request ==
  \/ \E o \in Creation : Create(o) \/ CreateAgain(o) \/ Cancel(o)
  \/ \E s \in Session : Discard(s) \/ Prune(s)
  \/ \E k \in Closing, s \in Session :
       \/ CloseAgain(k, s)
       \/ \E discard \in BOOLEAN : Close(k, s, discard)

Operate ==
  \/ \E o \in Creation, s \in Session :
       Reserve(o, s) \/ Spawn(o, s) \/ FailCreation(o, s) \/ Insert(o, s)
  \/ \E s \in Session : Publish(s) \/ BeginDiscard(s) \/ Wait(s) \/ Erase(s) \/ FinishDiscard(s)
  \/ Withdrawn

Owner(s) == RecordExit(s) \/ Unlist(s)

Restart == Open \/ Serve \/ \E s \in Session : Resume(s)

Next ==
  \/ Request \/ Operate \/ Restart \/ RetryExits
  \/ \E s \in Session : Checkpoint(s) \/ Exit(s) \/ Owner(s)
  \/ Shutdown \/ StopIfIdle \/ Die \/ PowerLoss

Spec == Init /\ [][Next]_vars

\* The operation under way and the owner threads run, a session that is told to end
\* ends, and ends that could not be written are retried.
Fairness ==
  /\ WF_vars(Operate)
  /\ \A s \in Session : WF_vars(Owner(s)) /\ WF_vars(s \in told /\ Exit(s))
  /\ WF_vars(RetryExits /\ pending' = {})

FairSpec == Spec /\ Fairness

-----------------------------------------------------------------------------
(* Properties *)

\* Type invariant.
TypeOK ==
  /\ cat.status \in [Session -> {"none", "starting", "live", "ended"}]
  /\ cat.discarding \subseteq Session /\ cat.cancelled \subseteq Creation
  /\ cat.creations \subseteq Creation \X Session /\ cat.failed \subseteq Creation
  /\ cat.closes \subseteq Closing \X Session \X BOOLEAN
  /\ UNION {pending, saved, listing, starting, told, todo, doomed, gone} \subseteq Session
  /\ listing \cap starting = {}
  /\ stopping \in BOOLEAN /\ phase \in {"down", "cleanup", "up"}
  /\ shell \in [Session -> {"none", "running", "exited", "recorded", "gone"}]
  /\ call.session \subseteq Session
  /\ faults \in 0..MaxFaults /\ restarts \in 0..MaxRestarts

\* However often an app repeats a creation, through errors, crashes and power losses,
\* it starts one shell and is answered with one session.
OneSessionPerCreation ==
  \A o \in Creation :
    /\ Cardinality(started[o]) <= 1
    /\ Cardinality({s \in Session : <<o, s>> \in made}) <= 1

\* A session an app was answered with stays in the catalog until something removes it.
AnsweredIsKept == \A o \in Creation, s \in Session : <<o, s>> \in made => s \in Known(cat) \cup doomed

\* Once a removal is answered, or a creation was cancelled, nothing of the session is
\* left or comes back: no shell, no saved content, no entry, even if its creation
\* is repeated late or power is lost.
Running == {s \in Session : shell[s] = "running"}

GoneForGood ==
  LET removed == gone \cup UNION {started[o] : o \in refused} IN
    removed \cap (Running \cup saved \cup Known(cat)) = {}

\* Every running shell can be reached: it is listed or about to be, and in the catalog.
NoOrphanShell == Running \subseteq Known(cat) \cap (listing \cup starting)

\* A session is shown as live only while it is, or until its end could be written.
LiveIsLive ==
  \A s \in Session : cat.status[s] = "live" /\ phase = "up" =>
    shell[s] \in {"running", "exited"} \/ s \in pending

\* A close that was answered without ending the session never ends it when repeated.
CloseDecidedOnce == call.kind = "close" => call.op \cap kept = {}

\* What an app was answered about its operations stays true: one session for a
\* creation, kept until it is removed, and one decision for a close.
AnswersHold == OneSessionPerCreation /\ AnsweredIsKept /\ CloseDecidedOnce

\* The catalog and the shells agree: every running shell is listed, and what is
\* listed as live runs or is about to be recorded as ended.
ShellsListed == NoOrphanShell /\ LiveIsLive

\* A server that serves apps has finished the removals it found when it started.
CleanStart == [][phase = "cleanup" /\ phase' = "up" => Discarding(cat) = {}]_vars

\* The end of a session is shown in the end, whatever write failed at first: ends are
\* kept in memory and retried.
EndIsShown == \A s \in Session : shell[s] = "gone" ~> cat.status[s] # "live" \/ phase = "down"

\* A server that stops gets rid of every session, those being created meanwhile too.
StopCompletes == stopping ~> Stopped \/ phase = "down"

\* Whatever write fails or is cut off, the server catches up with what it owes.
CatchesUp == CleanStart /\ EndIsShown /\ StopCompletes
=============================================================================
