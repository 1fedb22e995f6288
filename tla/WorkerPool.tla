------------------------------- MODULE WorkerPool -------------------------------
(***************************************************************************)
(* The pool that runs blocking work off the connection readers             *)
(* (muxy-core/src/worker.rs): a bounded queue, threads that are started    *)
(* when work arrives and that stop after idling, and threads that are      *)
(* replaced when a job panics.  A pool of one thread runs its jobs in      *)
(* order, which the requests of a connection depend on.                    *)
(*                                                                         *)
(* Every step below is one critical section of the pool's mutex, except    *)
(* those of a job and of the clock.                                        *)
(***************************************************************************)
EXTENDS Integers, Sequences, FiniteSets

CONSTANTS
  Job,       \* the jobs offered, each once
  Thread,    \* as many as the pool may have; a name is free again once its thread ends
  Capacity   \* jobs that may wait

ASSUME WorkerPoolAssumption ==
  /\ IsFiniteSet(Thread) /\ Thread # {}
  /\ Capacity \in Nat \ {0}

VARIABLES
  queue,     \* jobs that wait
  live,      \* the counter of threads
  idle,      \* the counter of threads inside wait_timeout
  closed,    \* the last handle of the pool is gone
  stage,     \* what each thread does; "none" is no thread
  doing,     \* the job of each running thread
  fate,      \* what became of each job
  accepted   \* history: the jobs accepted, in order

vars == <<queue, live, idle, closed, stage, doing, fate, accepted>>

Stages == {"none", "ready", "running", "unwinding", "waiting", "notified", "expired"}
Fates  == {"new", "refused", "queued", "running", "done", "panicked", "dropped"}

In(stages) == {t \in Thread : stage[t] \in stages}

Init ==
  /\ queue = <<>> /\ live = 0 /\ idle = 0 /\ closed = FALSE
  /\ stage = [t \in Thread |-> "none"] /\ doing = [t \in Thread |-> {}]
  /\ fate = [j \in Job |-> "new"] /\ accepted = <<>>

-----------------------------------------------------------------------------
(* The callers *)

\* Mutant of NotifyOne: nobody is woken.
NotifyNone == {stage}

\* notify_one wakes one thread that waits, if any does.
NotifyOne == IF In({"waiting"}) = {} THEN {stage}
             ELSE {[stage EXCEPT ![t] = "notified"] : t \in In({"waiting"})}

Refuse(j) ==
  /\ fate' = [fate EXCEPT ![j] = "refused"]
  /\ UNCHANGED <<queue, live, idle, stage, accepted>>

\* Mutant of Accept: the newest job comes first.
AcceptFirst(j) ==
  /\ fate' = [fate EXCEPT ![j] = "queued"]
  /\ queue' = <<j>> \o queue
  /\ accepted' = Append(accepted, j)
  /\ UNCHANGED idle

Accept(j) ==
  /\ fate' = [fate EXCEPT ![j] = "queued"]
  /\ queue' = Append(queue, j)
  /\ accepted' = Append(accepted, j)
  /\ UNCHANGED idle

NeedsThread == Len(queue) + 1 > idle /\ live < Cardinality(Thread)

\* try_spawn with room in the queue; starting a thread may fail.
TrySpawn(j) ==
  /\ ~closed /\ fate[j] = "new"
  /\ \/ Len(queue) >= Capacity /\ Refuse(j)
     \/ /\ Len(queue) < Capacity /\ ~NeedsThread
        /\ Accept(j) /\ stage' \in NotifyOne /\ UNCHANGED live
     \/ /\ Len(queue) < Capacity /\ NeedsThread
        /\ \/ /\ Accept(j)
              /\ \E woken \in NotifyOne, t \in In({"none"}) : stage' = [woken EXCEPT ![t] = "ready"]
              /\ live' = live + 1
           \/ live # 0 /\ Accept(j) /\ stage' \in NotifyOne /\ UNCHANGED live
           \/ live = 0 /\ Refuse(j)
  /\ UNCHANGED <<closed, doing>>

\* The last handle is dropped: queued jobs still run.
Close ==
  /\ ~closed
  /\ closed' = TRUE
  /\ stage' = [t \in Thread |-> IF stage[t] = "waiting" THEN "notified" ELSE stage[t]]
  /\ UNCHANGED <<queue, live, idle, doing, fate, accepted>>

-----------------------------------------------------------------------------
(* The threads *)

\* One pass of `work` with the lock, `spare` being the other idle threads.
Look(t, spare) ==
  /\ UNCHANGED <<closed, accepted>>
  /\ \/ /\ queue # <<>>
        /\ queue' = Tail(queue)
        /\ stage' = [stage EXCEPT ![t] = "running"]
        /\ doing' = [doing EXCEPT ![t] = {Head(queue)}]
        /\ fate' = [fate EXCEPT ![Head(queue)] = "running"]
        /\ idle' = spare
        /\ UNCHANGED live
     \/ /\ queue = <<>> /\ closed
        /\ stage' = [stage EXCEPT ![t] = "none"]
        /\ live' = live - 1 /\ idle' = spare
        /\ UNCHANGED <<queue, doing, fate>>
     \/ /\ queue = <<>> /\ ~closed
        /\ stage' = [stage EXCEPT ![t] = "waiting"]
        /\ idle' = spare + 1
        /\ UNCHANGED <<queue, live, doing, fate>>

\* Mutant of Begin: a thread that did not wait is taken out of the idle ones.
BeginIdle(t) == stage[t] = "ready" /\ Look(t, idle - 1)

\* A thread that just started, or finished a job.
Begin(t) == stage[t] = "ready" /\ Look(t, idle)

Resume(t) == stage[t] = "notified" /\ Look(t, idle - 1)

\* A thread whose wait timed out stops, unless a job was queued meanwhile.
Expire(t) ==
  /\ stage[t] = "expired"
  /\ \/ queue # <<>> /\ Look(t, idle - 1)
     \/ /\ queue = <<>>
        /\ stage' = [stage EXCEPT ![t] = "none"]
        /\ live' = live - 1 /\ idle' = idle - 1
        /\ UNCHANGED <<queue, closed, doing, fate, accepted>>

\* Ten idle seconds passed, or the thread woke for no reason.
TimeOut(t) ==
  /\ stage[t] = "waiting"
  /\ \E woken \in {"expired", "notified"} : stage' = [stage EXCEPT ![t] = woken]
  /\ UNCHANGED <<queue, live, idle, closed, doing, fate, accepted>>

End(t, next, result) ==
  /\ stage[t] = "running"
  /\ stage' = [stage EXCEPT ![t] = next]
  /\ doing' = [doing EXCEPT ![t] = {}]
  /\ fate' = [j \in Job |-> IF j \in doing[t] THEN result ELSE fate[j]]
  /\ UNCHANGED <<queue, live, idle, closed, accepted>>

Finish(t) == End(t, "ready", "done")
Panic(t)  == End(t, "unwinding", "panicked")

\* Mutant of Unwind: nobody takes the thread's place.
UnwindAlone(t) ==
  /\ stage[t] = "unwinding"
  /\ stage' = [stage EXCEPT ![t] = "none"]
  /\ live' = live - 1
  /\ UNCHANGED <<queue, fate, idle, closed, doing, accepted>>

\* Unwind::drop: the thread is gone; another takes its place if jobs wait, and if
\* none can be started and none is left the jobs are dropped.
Unwind(t) ==
  /\ stage[t] = "unwinding"
  /\ \/ /\ queue # <<>>
        /\ stage' = [stage EXCEPT ![t] = "ready"]
        /\ UNCHANGED <<queue, live, fate>>
     \/ /\ queue = <<>> \/ live # 1
        /\ stage' = [stage EXCEPT ![t] = "none"]
        /\ live' = live - 1
        /\ UNCHANGED <<queue, fate>>
     \/ /\ queue # <<>> /\ live = 1
        /\ stage' = [stage EXCEPT ![t] = "none"]
        /\ live' = live - 1
        /\ fate' = [j \in Job |-> IF fate[j] = "queued" THEN "dropped" ELSE fate[j]]
        /\ queue' = <<>>
  /\ UNCHANGED <<idle, closed, doing, accepted>>

-----------------------------------------------------------------------------
Caller == Close \/ \E j \in Job : TrySpawn(j)

Worker(t) ==
  \/ Begin(t) \/ Resume(t) \/ Expire(t) \/ Unwind(t)
  \/ Finish(t) \/ Panic(t)

Next == Caller \/ \E t \in Thread : Worker(t) \/ TimeOut(t)

Spec == Init /\ [][Next]_vars

\* Every thread runs and every job returns or panics in the end; nobody has to
\* submit work or to let go of the pool, and no wait has to time out.
Fairness == \A t \in Thread : WF_vars(Worker(t))

FairSpec == Spec /\ Fairness

-----------------------------------------------------------------------------
(* Properties *)

\* Type invariant.
TypeOK ==
  /\ queue \in Seq(Job) /\ accepted \in Seq(Job) /\ closed \in BOOLEAN
  /\ live \in Nat /\ idle \in Nat
  /\ stage \in [Thread -> Stages] /\ doing \in [Thread -> SUBSET Job]
  /\ fate \in [Job -> Fates]

Living == In(Stages \ {"none"})
Idle   == In({"waiting", "notified", "expired"})
Awake  == In({"ready", "notified", "expired"})

\* The counters on which starting and stopping threads is decided are right at
\* every release of the lock, panics and failed starts included.
Counted == live = Cardinality(Living) /\ idle = Cardinality(Idle)

\* No wake-up is lost: while a thread sleeps, every queued job has an awake thread
\* of its own about to look at the queue.
NoLostWakeup == In({"waiting"}) # {} => Len(queue) <= Cardinality(Awake)

\* Queued work always has a thread that will look at the queue, though threads stop
\* by themselves, panic and fail to start.
NoJobStranded == queue # <<>> => Awake \cup In({"running", "unwinding"}) # {}

\* "A one-thread pool runs its jobs in order" (worker.rs): a job starts only while
\* fewer earlier jobs than there may be threads are unfinished, and none of them
\* still waits, even if others panicked or their threads stopped.  With one thread,
\* every earlier job is over.
Unfinished(k) == {i \in 1..(k - 1) : fate[accepted[i]] \in {"queued", "running"}}

RunsInOrder ==
  \A k \in DOMAIN accepted :
    fate[accepted[k]] \in {"running", "done", "panicked"} =>
      /\ Cardinality(Unfinished(k)) < Cardinality(Thread)
      /\ \A i \in Unfinished(k) : fate[accepted[i]] # "queued"

\* Every accepted job ends, or is dropped because no thread can be had.
EveryJobEnds == \A j \in Job : fate[j] = "queued" ~> fate[j] \in {"done", "panicked", "dropped"}
=============================================================================
