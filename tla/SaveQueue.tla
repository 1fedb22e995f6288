------------------------------- MODULE SaveQueue -------------------------------
(***************************************************************************)
(* How saved terminal content reaches the disk (archive.rs).               *)
(*                                                                         *)
(* Session threads save their content every second while it changes and    *)
(* once more when they end; the registry discards the content of a session *)
(* that was closed.  Each submits a job to one queue with at most one job  *)
(* per session, the newest, and wakes one worker, which writes records by  *)
(* renaming a synced temporary file (muxy-core/src/fs.rs).  The last save  *)
(* and a discard wait for their answer.                                    *)
(*                                                                         *)
(* Contents are numbered in the order a session captured them; 0 is no     *)
(* record.  `record` is what the file system shows, `durable` what it      *)
(* shows after a power loss at worst.                                      *)
(*                                                                         *)
(* The names of its specification are the archive's, so that one module    *)
(* can extend this one and RemoteAccess, the server's other files.         *)
(***************************************************************************)
EXTENDS Integers

CONSTANTS
  Session,    \* session IDs; the worker takes the smallest first
  MaxSaves,   \* bound: contents a session captures
  MaxTries,   \* bound: discards of one session
  MaxCrashes  \* bound: kills of the server and power losses

ASSUME SaveQueueAssumption ==
  /\ Session \subseteq Nat
  /\ MaxSaves \in Nat /\ MaxTries \in Nat /\ MaxCrashes \in Nat

NoRecord == 0
Content == NoRecord .. MaxSaves

VARIABLES
  \* session threads and the registry
  stage,     \* "live", "saving" its last content, "ended", "discarding", "gone"
  version,   \* the newest content captured
  tries,     \* discards submitted
  waking,    \* submitters between queueing a job and waking the worker
  answer,    \* what the session's waiting submitter was told: "none", "ok", "error"
  \* the queue and its worker
  queue,     \* each session's job, if any
  token,     \* the wake-up channel holds a message
  worker,    \* "asleep", "awake", "exited"
  hand,      \* the job being done, if any
  connected, \* the archive is in use
  \* the disk
  record, durable,
  \* history
  promised,  \* the content a save that was answered with success held
  lapsed,    \* sessions discarded again before their removal was synced
  crashes

clientVars == <<stage, version, tries, answer, promised>>
workerVars == <<token, worker, hand, connected>>
diskVars == <<record, durable, lapsed>>
archiveVars == <<clientVars, waking, queue, workerVars, diskVars, crashes>>

Job == [op : {"save", "discard"}, content : Content, waited : BOOLEAN]

ArchiveInit ==
  /\ stage = [s \in Session |-> "live"] /\ version = [s \in Session |-> 0]
  /\ tries = [s \in Session |-> 0] /\ answer = [s \in Session |-> "none"]
  /\ waking = {} /\ queue = [s \in Session |-> {}]
  /\ token = FALSE /\ worker = "asleep" /\ hand = {} /\ connected = TRUE
  /\ record = [s \in Session |-> NoRecord] /\ durable = [s \in Session |-> NoRecord]
  /\ promised = [s \in Session |-> NoRecord] /\ lapsed = {} /\ crashes = 0

-----------------------------------------------------------------------------
(* Submitters *)

\* Mutant of Submit: the job that waits is kept.
SubmitFirst(s, op, content, waits) ==
  /\ queue' = [queue EXCEPT ![s] =
       IF @ = {} THEN {[op |-> op, content |-> content, waited |-> waits]}
       ELSE {[old EXCEPT !.waited = @ \/ waits] : old \in @}]
  /\ waking' = waking \cup {s}

\* Archive::submit, its first half: the job replaces the one that waited and
\* inherits those who wait for it.
Submit(s, op, content, waits) ==
  /\ queue' = [queue EXCEPT ![s] =
       {[op |-> op, content |-> content, waited |-> waits \/ \E old \in @ : old.waited]}]
  /\ waking' = waking \cup {s}

\* The second half: a wake-up that is already waiting is enough.
Wake(s) ==
  /\ s \in waking
  /\ waking' = waking \ {s}
  /\ token' = TRUE
  /\ UNCHANGED <<clientVars, queue, worker, hand, connected, diskVars, crashes>>

\* Owner::checkpoint of a running session.
Checkpoint(s) ==
  /\ stage[s] = "live" /\ s \notin waking /\ version[s] < MaxSaves
  /\ version' = [version EXCEPT ![s] = @ + 1]
  /\ Submit(s, "save", version'[s], FALSE)
  /\ UNCHANGED <<stage, tries, answer, promised, workerVars, diskVars, crashes>>

\* The last checkpoint of a session waits for its answer.
LastCheckpoint(s) ==
  /\ stage[s] = "live" /\ s \notin waking /\ version[s] < MaxSaves
  /\ stage' = [stage EXCEPT ![s] = "saving"]
  /\ version' = [version EXCEPT ![s] = @ + 1]
  /\ Submit(s, "save", version'[s], TRUE)
  /\ UNCHANGED <<tries, answer, promised, workerVars, diskVars, crashes>>

\* The terminal's last content cannot be captured.
LastCheckpointFails(s) ==
  /\ stage[s] = "live" /\ s \notin waking
  /\ stage' = [stage EXCEPT ![s] = "ended"]
  /\ UNCHANGED <<version, tries, answer, promised, waking, queue, workerVars, diskVars, crashes>>

\* Registry::discard_owned of a session that has ended; tried again after an error
\* or a restart.
Discard(s) ==
  /\ stage[s] = "ended" /\ connected /\ tries[s] < MaxTries
  /\ stage' = [stage EXCEPT ![s] = "discarding"]
  /\ tries' = [tries EXCEPT ![s] = @ + 1]
  /\ Submit(s, "discard", NoRecord, TRUE)
  /\ UNCHANGED <<version, answer, promised, workerVars, diskVars, crashes>>

\* A waiting submitter learns its answer; a discard that failed leaves the session.
Return(s) ==
  /\ s \notin waking /\ answer[s] # "none"
  /\ answer' = [answer EXCEPT ![s] = "none"]
  /\ stage' = [stage EXCEPT ![s] =
       IF @ = "discarding" /\ answer[s] = "ok" THEN "gone" ELSE "ended"]
  /\ promised' = [promised EXCEPT ![s] =
       IF stage[s] = "saving" /\ answer[s] = "ok" THEN version[s] ELSE @]
  /\ UNCHANGED <<version, tries, waking, queue, workerVars, diskVars, crashes>>

\* Disk::drop, once no session or request uses the archive: the wake-up channel
\* closes and the worker is awaited.
Disconnect ==
  /\ connected /\ waking = {}
  /\ \A s \in Session : stage[s] \in {"ended", "gone"}
  /\ connected' = FALSE
  /\ UNCHANGED <<clientVars, waking, queue, token, worker, hand, diskVars, crashes>>

-----------------------------------------------------------------------------
(* The worker: write_jobs *)

\* A channel that closed still delivers the wake-up it holds.
Receive ==
  /\ worker = "asleep"
  /\ \/ token /\ worker' = "awake" /\ token' = FALSE
     \/ ~token /\ ~connected /\ worker' = "exited" /\ UNCHANGED token
  /\ UNCHANGED <<clientVars, waking, queue, hand, connected, diskVars, crashes>>

Take(s) ==
  /\ worker = "awake" /\ hand = {} /\ queue[s] # {}
  /\ \A t \in Session : t < s => queue[t] = {}
  /\ hand' = {[session |-> s, job |-> j, did |-> "nothing"] : j \in queue[s]}
  /\ queue' = [queue EXCEPT ![s] = {}]
  /\ UNCHANGED <<clientVars, waking, token, worker, connected, diskVars, crashes>>

Sleep ==
  /\ worker = "awake" /\ hand = {} /\ \A s \in Session : queue[s] = {}
  /\ worker' = "asleep"
  /\ UNCHANGED <<clientVars, waking, queue, token, hand, connected, diskVars, crashes>>

\* One step of the job in hand, leaving it as `did`.
Doing(op, from, did) ==
  /\ \E h \in hand : h.job.op = op /\ h.did = from
  /\ hand' = {[h EXCEPT !.did = did] : h \in hand}
  /\ UNCHANGED <<clientVars, waking, queue, token, worker, connected, crashes>>

InHand == CHOOSE h \in hand : TRUE

\* Mutant of Rename: the directory is not synced.
RenameUnsynced ==
  /\ Doing("save", "nothing", "done")
  /\ record' = [record EXCEPT ![InHand.session] = InHand.job.content]
  /\ UNCHANGED <<durable, lapsed>>

\* fs::write_atomic_with up to the rename, which makes the new content visible.
\* Until then nothing of the record changes.
Rename ==
  /\ Doing("save", "nothing", "renamed")
  /\ record' = [record EXCEPT ![InHand.session] = InHand.job.content]
  /\ UNCHANGED <<durable, lapsed>>

\* discard_record up to the removal; a record that is not there needs none, and
\* no sync, even if its removal was not synced.
Remove ==
  /\ Doing("discard", "nothing", IF record[InHand.session] = NoRecord THEN "done" ELSE "renamed")
  /\ record' = [record EXCEPT ![InHand.session] = NoRecord]
  /\ lapsed' = lapsed \cup {s \in {InHand.session} : record[s] = NoRecord /\ durable[s] # NoRecord}
  /\ UNCHANGED durable

\* Syncing the directory makes every rename and removal in it durable.
Sync ==
  /\ \E op \in {"save", "discard"} : Doing(op, "renamed", "done")
  /\ durable' = record
  /\ UNCHANGED <<record, lapsed>>

\* Capturing, writing, renaming, removing or syncing fails.
Fail ==
  /\ \E op \in {"save", "discard"}, from \in {"nothing", "renamed"} : Doing(op, from, "failed")
  /\ UNCHANGED diskVars

\* Mutants of Complete: the answer is not told apart, or a failure is not answered.
CompleteRaw ==
  /\ \E h \in hand :
       /\ h.did \in {"done", "failed"}
       /\ answer' = [answer EXCEPT ![h.session] = IF h.job.waited THEN h.did ELSE @]
  /\ hand' = {}
  /\ UNCHANGED <<stage, version, tries, promised, waking, queue, token, worker, connected, diskVars,
                 crashes>>

CompleteOnlyDone ==
  /\ \E h \in hand :
       /\ h.did \in {"done", "failed"}
       /\ answer' = [answer EXCEPT ![h.session] = IF h.job.waited /\ h.did = "done" THEN "ok" ELSE @]
  /\ hand' = {}
  /\ UNCHANGED <<stage, version, tries, promised, waking, queue, token, worker, connected, diskVars,
                 crashes>>

Complete ==
  /\ \E h \in hand :
       /\ h.did \in {"done", "failed"}
       /\ answer' = [answer EXCEPT ![h.session] =
            IF ~h.job.waited THEN @ ELSE IF h.did = "done" THEN "ok" ELSE "error"]
  /\ hand' = {}
  /\ UNCHANGED <<stage, version, tries, promised, waking, queue, token, worker, connected, diskVars,
                 crashes>>

-----------------------------------------------------------------------------
(* The server is killed and starts again: sessions have ended, the queue and every
   answer are lost.  A power loss may also undo what was not synced. *)

Recover ==
  /\ crashes < MaxCrashes
  /\ crashes' = crashes + 1
  /\ stage' = [s \in Session |-> IF stage[s] = "gone" THEN "gone" ELSE "ended"]
  /\ answer' = [s \in Session |-> "none"]
  /\ waking' = {} /\ queue' = [s \in Session |-> {}]
  /\ token' = FALSE /\ worker' = "asleep" /\ hand' = {} /\ connected' = TRUE
  /\ UNCHANGED <<version, tries, promised>>

Kill == Recover /\ UNCHANGED diskVars

PowerLoss ==
  /\ Recover
  /\ record' \in {g \in [Session -> Content] : \A s \in Session : g[s] \in {record[s], durable[s]}}
  /\ durable' = record'
  /\ UNCHANGED lapsed

-----------------------------------------------------------------------------
Submitter ==
  \E s \in Session :
    \/ Wake(s) \/ Return(s)
    \/ Checkpoint(s) \/ LastCheckpoint(s) \/ LastCheckpointFails(s) \/ Discard(s)

Writer ==
  \/ Receive \/ Sleep \/ Rename \/ Remove \/ Sync \/ Fail \/ Complete
  \/ \E s \in Session : Take(s)

ArchiveNext == Submitter \/ Writer \/ Disconnect \/ Kill \/ PowerLoss

ArchiveSpec == ArchiveInit /\ [][ArchiveNext]_archiveVars

\* Threads that are not waiting go on.  Nothing makes a session save, end or be
\* discarded.
Fairness ==
  /\ WF_archiveVars(Writer)
  /\ \A s \in Session : WF_archiveVars(Wake(s)) /\ WF_archiveVars(Return(s))

FairSpec == ArchiveSpec /\ Fairness

-----------------------------------------------------------------------------
(* Properties *)

\* Type invariant.
ArchiveTypeOK ==
  /\ stage \in [Session -> {"live", "saving", "ended", "discarding", "gone"}]
  /\ version \in [Session -> Content] /\ tries \in [Session -> 0 .. MaxTries]
  /\ answer \in [Session -> {"none", "ok", "error"}]
  /\ waking \subseteq Session /\ queue \in [Session -> SUBSET Job]
  /\ token \in BOOLEAN /\ worker \in {"asleep", "awake", "exited"} /\ connected \in BOOLEAN
  /\ hand \subseteq [session : Session, job : Job, did : {"nothing", "renamed", "done", "failed"}]
  /\ record \in [Session -> Content] /\ durable \in [Session -> Content]
  /\ promised \in [Session -> Content] /\ lapsed \subseteq Session
  /\ crashes \in 0 .. MaxCrashes

\* A session's answer belongs to what it asked: its save is answered once its own
\* content, and not an older save of its own, is on disk.
AnswerIsForLatest ==
  \A s \in Session :
    stage[s] = "saving" /\ answer[s] = "ok" => durable[s] = version[s] /\ record[s] = version[s]

\* The last content of a session that ended well survives restarts and power loss
\* until the session is discarded.
SavedContentSurvives ==
  \A s \in Session :
    promised[s] # NoRecord /\ tries[s] = 0 => record[s] = promised[s] /\ durable[s] = promised[s]

\* Discarded content does not come back, whichever saves were queued or under way,
\* unless it was discarded again before its removal was synced.
DiscardedStaysGone ==
  \A s \in Session :
    stage[s] = "gone" /\ s \notin lapsed =>
      record[s] = NoRecord /\ durable[s] = NoRecord /\ queue[s] = {}

\* What the disk holds is what was answered, whatever fails or is cut off.
DiskHoldsAnswers == SavedContentSurvives /\ DiscardedStaysGone

\* Whoever waits for the worker is answered.
EveryoneAnswered ==
  \A s \in Session : stage[s] \in {"saving", "discarding"} ~> stage[s] \in {"ended", "gone"}
=============================================================================
