---------------------------- MODULE WorkerPoolProofs ----------------------------
(***************************************************************************)
(* Safety of the worker pool, for any number of threads and jobs and any   *)
(* capacity.                                                               *)
(*                                                                         *)
(* The argument counts threads by stage.  A step of the pool moves at most *)
(* one or two threads from one stage to another, so Move says how each     *)
(* count changes, and what remains of every step is arithmetic over the    *)
(* counts, the counters of the code and the length of the queue.           *)
(*                                                                         *)
(* The order of the jobs rests on three more facts: the queue is the end   *)
(* of the list of accepted jobs, every job that runs has a thread of its   *)
(* own, and the property itself, as jobs that started long ago stay in     *)
(* order because nothing that is over comes back.                          *)
(***************************************************************************)
EXTENDS WorkerPool, FiniteSetTheorems, TLAPS

Of(f, S) == {t \in Thread : f[t] \in S}
Count(f, S) == Cardinality(Of(f, S))

LivingStages == Stages \ {"none"}
IdleStages   == {"waiting", "notified", "expired"}
AwakeStages  == {"ready", "notified", "expired"}

One(x, S) == IF x \in S THEN 1 ELSE 0

\* The inductive invariant: queued work has a thread, and if a thread sleeps then
\* as many threads as there are queued jobs are about to look.
Balanced(f, n, threads, spare) ==
  /\ threads = Count(f, LivingStages)
  /\ spare = Count(f, IdleStages)
  /\ Count(f, {"waiting"}) > 0 => n <= Count(f, AwakeStages)
  /\ n > 0 => threads > 0

PoolInv == TypeOK /\ Balanced(stage, Len(queue), live, idle)

-----------------------------------------------------------------------------
LEMMA CountType ==
  ASSUME NEW f, NEW S
  PROVE  /\ IsFiniteSet(Of(f, S))
         /\ Count(f, S) \in Nat
         /\ Count(f, S) = 0 <=> Of(f, S) = {}
  BY FS_Subset, FS_CardinalityType, FS_EmptySet, WorkerPoolAssumption DEF Of, Count

LEMMA CountIsMonotone ==
  ASSUME NEW f, NEW S, NEW T, S \subseteq T
  PROVE  Count(f, S) <= Count(f, T)
  <1>1. Of(f, S) \in SUBSET Of(f, T)
    BY DEF Of
  <1> QED
    BY <1>1, CountType, FS_Subset DEF Count

LEMMA Recount ==
  ASSUME NEW f \in [Thread -> Stages], NEW t \in Thread, NEW x \in Stages, NEW S
  PROVE  Count([f EXCEPT ![t] = x], S) = Count(f, S) + One(x, S) - One(f[t], S)
  <1> DEFINE g == [f EXCEPT ![t] = x]
             C == Of(f, S) \ {t}
  <1>1. IsFiniteSet(Of(f, S)) /\ Count(f, S) \in Nat
    BY CountType
  <1>2. IsFiniteSet(C) /\ Cardinality(C) = Count(f, S) - One(f[t], S)
    <2>1. t \in Of(f, S) <=> f[t] \in S
      BY DEF Of
    <2> QED
      BY <1>1, <2>1, FS_RemoveElement DEF Count, One
  <1>3. /\ x \in S => Of(g, S) = C \cup {t}
        /\ x \notin S => Of(g, S) = C
    BY DEF Of
  <1>4. Cardinality(Of(g, S)) = Cardinality(C) + One(x, S)
    <2>1. t \notin C
      OBVIOUS
    <2>2. Cardinality(C) \in Nat
      BY <1>2, FS_CardinalityType
    <2>3. Cardinality(C \cup {t}) = Cardinality(C) + 1
      BY <1>2, <2>1, <2>2, FS_AddElement
    <2>4. CASE x \in S
      <3>1. One(x, S) = 1
        BY <2>4 DEF One
      <3> QED
        BY <1>3, <2>3, <2>4, <3>1
    <2>5. CASE x \notin S
      <3>1. One(x, S) = 0
        BY <2>5 DEF One
      <3> HIDE DEF C
      <3> QED
        BY <1>3, <2>2, <2>5, <3>1
    <2> QED
      BY <2>4, <2>5
  <1> QED
    BY <1>1, <1>2, <1>4 DEF Count, One

\* The counts of the invariant that a thread in each stage adds to.
LEMMA Ones ==
  /\ One("none", LivingStages) = 0 /\ One("none", IdleStages) = 0
  /\ One("none", AwakeStages) = 0 /\ One("none", {"waiting"}) = 0
  /\ One("ready", LivingStages) = 1 /\ One("ready", IdleStages) = 0
  /\ One("ready", AwakeStages) = 1 /\ One("ready", {"waiting"}) = 0
  /\ One("running", LivingStages) = 1 /\ One("running", IdleStages) = 0
  /\ One("running", AwakeStages) = 0 /\ One("running", {"waiting"}) = 0
  /\ One("unwinding", LivingStages) = 1 /\ One("unwinding", IdleStages) = 0
  /\ One("unwinding", AwakeStages) = 0 /\ One("unwinding", {"waiting"}) = 0
  /\ One("waiting", LivingStages) = 1 /\ One("waiting", IdleStages) = 1
  /\ One("waiting", AwakeStages) = 0 /\ One("waiting", {"waiting"}) = 1
  /\ One("notified", LivingStages) = 1 /\ One("notified", IdleStages) = 1
  /\ One("notified", AwakeStages) = 1 /\ One("notified", {"waiting"}) = 0
  /\ One("expired", LivingStages) = 1 /\ One("expired", IdleStages) = 1
  /\ One("expired", AwakeStages) = 1 /\ One("expired", {"waiting"}) = 0
  BY DEF One, LivingStages, IdleStages, AwakeStages, Stages

\* How the counts change when one thread goes from stage `old` to `x`.
Moved(f, g, old, x) ==
  /\ Count(g, LivingStages) = Count(f, LivingStages) + One(x, LivingStages) - One(old, LivingStages)
  /\ Count(g, IdleStages) = Count(f, IdleStages) + One(x, IdleStages) - One(old, IdleStages)
  /\ Count(g, AwakeStages) = Count(f, AwakeStages) + One(x, AwakeStages) - One(old, AwakeStages)
  /\ Count(g, {"waiting"}) = Count(f, {"waiting"}) + One(x, {"waiting"}) - One(old, {"waiting"})

\* What moving one thread does to the four counts.
LEMMA Move ==
  ASSUME NEW f \in [Thread -> Stages], NEW t \in Thread, NEW x \in Stages,
         NEW g, g = [f EXCEPT ![t] = x]
  PROVE  Moved(f, g, f[t], x)
  <1>1. Count(g, LivingStages) = Count(f, LivingStages) + One(x, LivingStages) - One(f[t], LivingStages)
    BY Recount
  <1>2. Count(g, IdleStages) = Count(f, IdleStages) + One(x, IdleStages) - One(f[t], IdleStages)
    BY Recount
  <1>3. Count(g, AwakeStages) = Count(f, AwakeStages) + One(x, AwakeStages) - One(f[t], AwakeStages)
    BY Recount
  <1>4. Count(g, {"waiting"}) = Count(f, {"waiting"}) + One(x, {"waiting"}) - One(f[t], {"waiting"})
    BY Recount
  <1> QED
    BY <1>1, <1>2, <1>3, <1>4 DEF Moved

LEMMA Counts ==
  ASSUME NEW f
  PROVE  /\ Count(f, LivingStages) \in Nat /\ Count(f, IdleStages) \in Nat
         /\ Count(f, AwakeStages) \in Nat /\ Count(f, {"waiting"}) \in Nat
  BY CountType

\* A thread that moves makes the count of the stage it left positive.
LEMMA Present ==
  ASSUME NEW f, NEW t \in Thread, NEW S, f[t] \in S
  PROVE  Count(f, S) > 0
  <1>1. Of(f, S) # {}
    BY DEF Of
  <1> QED
    BY <1>1, CountType
-----------------------------------------------------------------------------
LEMMA PoolInit == Init => PoolInv
  <1> SUFFICES ASSUME Init PROVE PoolInv
    OBVIOUS
  <1>1. TypeOK
    <2>1. "none" \in Stages /\ "new" \in Fates
      BY DEF Stages, Fates
    <2>2. <<>> \in Seq(Job)
      OBVIOUS
    <2> QED
      BY <2>1, <2>2 DEF Init, TypeOK
  <1>2. /\ Of(stage, LivingStages) = {} /\ Of(stage, IdleStages) = {}
        /\ Of(stage, {"waiting"}) = {}
    BY DEF Init, Of, LivingStages, IdleStages
  <1>3. /\ Count(stage, LivingStages) = 0 /\ Count(stage, IdleStages) = 0
        /\ Count(stage, {"waiting"}) = 0
    BY <1>2, CountType
  <1>4. Balanced(stage, Len(queue), live, idle)
    BY <1>3 DEF Balanced, Init
  <1> QED
    BY <1>1, <1>4 DEF PoolInv

\* The counters of a pass with the lock, by the stage the thread comes from.
LEMMA LookKeepsCounts ==
  ASSUME PoolInv, NEW t \in Thread, stage[t] \in AwakeStages,
         NEW spare, spare = idle - One(stage[t], IdleStages), Look(t, spare)
  PROVE  PoolInv'
  <1>1. /\ stage \in [Thread -> Stages] /\ queue \in Seq(Job) /\ live \in Nat /\ idle \in Nat
        /\ doing \in [Thread -> SUBSET Job] /\ fate \in [Job -> Fates]
    BY DEF PoolInv, TypeOK
  <1>2. /\ live = Count(stage, LivingStages) /\ idle = Count(stage, IdleStages)
        /\ Count(stage, {"waiting"}) > 0 => Len(queue) <= Count(stage, AwakeStages)
        /\ Len(queue) > 0 => live > 0
    BY DEF PoolInv, Balanced
  <1>3. /\ One(stage[t], LivingStages) = 1 /\ One(stage[t], AwakeStages) = 1
        /\ One(stage[t], {"waiting"}) = 0 /\ One(stage[t], IdleStages) \in {0, 1}
    BY DEF AwakeStages, One, LivingStages, Stages
  <1>4. /\ Count(stage, LivingStages) \in Nat /\ Count(stage, IdleStages) \in Nat
        /\ Count(stage, AwakeStages) \in Nat /\ Count(stage, {"waiting"}) \in Nat
    BY Counts
  <1>5. /\ Count(stage', LivingStages) \in Nat /\ Count(stage', IdleStages) \in Nat
        /\ Count(stage', AwakeStages) \in Nat /\ Count(stage', {"waiting"}) \in Nat
    BY Counts
  <1>6. CASE /\ queue # <<>>
             /\ queue' = Tail(queue)
             /\ stage' = [stage EXCEPT ![t] = "running"]
             /\ doing' = [doing EXCEPT ![t] = {Head(queue)}]
             /\ fate' = [fate EXCEPT ![Head(queue)] = "running"]
             /\ idle' = spare
             /\ UNCHANGED <<live, closed, accepted>>
    <2>1. /\ queue' \in Seq(Job) /\ Len(queue') = Len(queue) - 1 /\ Len(queue) \in Nat
          /\ Len(queue) > 0 /\ Head(queue) \in Job
      BY <1>1, <1>6
    <2>2. "running" \in Stages /\ "running" \in Fates
      BY DEF Stages, Fates
    <2>0. Moved(stage, stage', stage[t], "running")
      BY <1>1, <1>6, <2>2, Move
    <2>3. /\ Count(stage', LivingStages) = Count(stage, LivingStages)
          /\ Count(stage', IdleStages) = Count(stage, IdleStages) - One(stage[t], IdleStages)
          /\ Count(stage', AwakeStages) = Count(stage, AwakeStages) - 1
          /\ Count(stage', {"waiting"}) = Count(stage, {"waiting"})
      BY <2>0, <1>3, <1>4, Ones DEF Moved
    <2>4. idle' = idle - One(stage[t], IdleStages) /\ live' = live
      BY <1>6
    <2>5. Balanced(stage, Len(queue), live, idle)'
      BY <1>2, <1>3, <1>4, <2>1, <2>3, <2>4 DEF Balanced
    <2>6. idle' \in Nat
      BY <1>5, <2>5 DEF Balanced
    <2>7. TypeOK'
      BY <1>1, <1>6, <2>1, <2>2, <2>6 DEF TypeOK, PoolInv
    <2> QED
      BY <2>5, <2>7 DEF PoolInv
  <1>7. CASE /\ queue = <<>> /\ closed
             /\ stage' = [stage EXCEPT ![t] = "none"]
             /\ live' = live - 1 /\ idle' = spare
             /\ UNCHANGED <<queue, doing, fate, closed, accepted>>
    <2>1. "none" \in Stages /\ Len(queue') = 0
      BY <1>7 DEF Stages
    <2>0. Moved(stage, stage', stage[t], "none")
      BY <1>1, <1>7, <2>1, Move
    <2>2. /\ Count(stage', LivingStages) = Count(stage, LivingStages) - 1
          /\ Count(stage', IdleStages) = Count(stage, IdleStages) - One(stage[t], IdleStages)
      BY <2>0, <1>3, <1>4, Ones DEF Moved
    <2>3. Balanced(stage, Len(queue), live, idle)'
      BY <1>2, <1>3, <1>4, <1>5, <1>7, <2>1, <2>2 DEF Balanced
    <2>4. idle' \in Nat /\ live' \in Nat
      BY <1>5, <2>3 DEF Balanced
    <2>5. TypeOK'
      BY <1>1, <1>7, <2>1, <2>4 DEF TypeOK, PoolInv
    <2> QED
      BY <2>3, <2>5 DEF PoolInv
  <1>8. CASE /\ queue = <<>> /\ ~closed
             /\ stage' = [stage EXCEPT ![t] = "waiting"]
             /\ idle' = spare + 1
             /\ UNCHANGED <<queue, live, doing, fate, closed, accepted>>
    <2>1. "waiting" \in Stages /\ Len(queue') = 0
      BY <1>8 DEF Stages
    <2>0. Moved(stage, stage', stage[t], "waiting")
      BY <1>1, <1>8, <2>1, Move
    <2>2. /\ Count(stage', LivingStages) = Count(stage, LivingStages)
          /\ Count(stage', IdleStages) = Count(stage, IdleStages) + 1 - One(stage[t], IdleStages)
      BY <2>0, <1>3, <1>4, Ones DEF Moved
    <2>3. Balanced(stage, Len(queue), live, idle)'
      BY <1>2, <1>3, <1>4, <1>5, <1>8, <2>1, <2>2 DEF Balanced
    <2>4. idle' \in Nat
      BY <1>5, <2>3 DEF Balanced
    <2>5. TypeOK'
      BY <1>1, <1>8, <2>1, <2>4 DEF TypeOK, PoolInv
    <2> QED
      BY <2>3, <2>5 DEF PoolInv
  <1> QED
    BY <1>6, <1>7, <1>8 DEF Look

\* What waking one of the waiting threads, if there is one, does to the counts.
LEMMA Wake ==
  ASSUME TypeOK, NEW woken \in NotifyOne
  PROVE  /\ woken \in [Thread -> Stages]
         /\ Count(woken, LivingStages) = Count(stage, LivingStages)
         /\ Count(woken, IdleStages) = Count(stage, IdleStages)
         /\ Count(woken, {"waiting"}) > 0 =>
              /\ Count(stage, {"waiting"}) > 0
              /\ Count(woken, AwakeStages) = Count(stage, AwakeStages) + 1
         /\ \A t \in Thread : stage[t] = "none" => woken[t] = "none"
  <1>1. stage \in [Thread -> Stages]
    BY DEF TypeOK
  <1>2. Of(stage, {"waiting"}) = In({"waiting"})
    BY DEF Of, In
  <1>3. CASE In({"waiting"}) = {}
    <2>1. woken = stage
      BY <1>3 DEF NotifyOne
    <2>2. Count(stage, {"waiting"}) = 0
      BY <1>2, <1>3, CountType
    <2> QED
      BY <1>1, <2>1, <2>2
  <1>4. CASE In({"waiting"}) # {}
    <2>1. PICK u \in In({"waiting"}) : woken = [stage EXCEPT ![u] = "notified"]
      BY <1>4 DEF NotifyOne
    <2>2. u \in Thread /\ stage[u] = "waiting" /\ "notified" \in Stages
      BY <2>1 DEF In, Stages
    <2>3. Moved(stage, woken, stage[u], "notified")
      BY <1>1, <2>1, <2>2, Move
    <2>4. One(stage[u], LivingStages) = 1 /\ One(stage[u], IdleStages) = 1 /\ One(stage[u], AwakeStages) = 0
      BY <2>2, Ones
    <2>5. /\ Count(stage, LivingStages) \in Nat /\ Count(stage, IdleStages) \in Nat
          /\ Count(stage, AwakeStages) \in Nat
      BY Counts
    <2>6. /\ Count(woken, LivingStages) = Count(stage, LivingStages)
          /\ Count(woken, IdleStages) = Count(stage, IdleStages)
          /\ Count(woken, AwakeStages) = Count(stage, AwakeStages) + 1
      BY <2>3, <2>4, <2>5, Ones DEF Moved
    <2>7. Count(stage, {"waiting"}) > 0
      BY <2>2, Present
    <2>8. /\ woken \in [Thread -> Stages]
          /\ \A t \in Thread : stage[t] = "none" => woken[t] = "none"
      BY <1>1, <2>1, <2>2
    <2> QED
      BY <2>6, <2>7, <2>8
  <1> QED
    BY <1>3, <1>4

LEMMA RefuseKeeps ==
  ASSUME PoolInv, NEW j \in Job, Refuse(j), UNCHANGED <<closed, doing>>
  PROVE  PoolInv'
  <1>1. Balanced(stage, Len(queue), live, idle)'
    BY DEF PoolInv, Balanced, Refuse
  <1>2. "refused" \in Fates
    BY DEF Fates
  <1>3. TypeOK'
    BY <1>2 DEF PoolInv, TypeOK, Refuse
  <1> QED
    BY <1>1, <1>3 DEF PoolInv

LEMMA AcceptKeepsTypes ==
  ASSUME PoolInv, NEW j \in Job, Accept(j), UNCHANGED <<closed, doing>>,
         stage' \in [Thread -> Stages], live' \in Nat
  PROVE  /\ TypeOK' /\ Len(queue') = Len(queue) + 1 /\ Len(queue) \in Nat /\ idle' = idle
  <1>1. "queued" \in Fates
    BY DEF Fates
  <1>2. /\ queue \in Seq(Job) /\ accepted \in Seq(Job) /\ fate \in [Job -> Fates]
    BY DEF PoolInv, TypeOK
  <1>3. /\ queue' \in Seq(Job) /\ accepted' \in Seq(Job) /\ Len(queue') = Len(queue) + 1
        /\ Len(queue) \in Nat /\ fate' \in [Job -> Fates]
    BY <1>1, <1>2 DEF Accept
  <1> QED
    BY <1>3 DEF PoolInv, TypeOK, Accept

\* A job is accepted without a new thread.
LEMMA AcceptKeeps ==
  ASSUME PoolInv, NEW j \in Job, Accept(j), stage' \in NotifyOne, UNCHANGED live,
         ~NeedsThread \/ live # 0, UNCHANGED <<closed, doing>>
  PROVE  PoolInv'
  <1>1. TypeOK /\ live \in Nat /\ idle \in Nat
    BY DEF PoolInv, TypeOK
  <1>2. /\ stage' \in [Thread -> Stages]
        /\ Count(stage', LivingStages) = Count(stage, LivingStages)
        /\ Count(stage', IdleStages) = Count(stage, IdleStages)
        /\ Count(stage', {"waiting"}) > 0 =>
             /\ Count(stage, {"waiting"}) > 0
             /\ Count(stage', AwakeStages) = Count(stage, AwakeStages) + 1
    BY <1>1, Wake
  <1>3. TypeOK' /\ Len(queue') = Len(queue) + 1 /\ Len(queue) \in Nat /\ idle' = idle
    BY <1>1, <1>2, AcceptKeepsTypes
  <1>4. /\ live = Count(stage, LivingStages) /\ idle = Count(stage, IdleStages)
        /\ Count(stage, {"waiting"}) > 0 => Len(queue) <= Count(stage, AwakeStages)
    BY DEF PoolInv, Balanced
  <1>5. live > 0
    <2>1. Cardinality(Thread) \in Nat /\ Cardinality(Thread) # 0
      BY WorkerPoolAssumption, FS_CardinalityType, FS_EmptySet
    <2>2. IdleStages \subseteq LivingStages
      BY DEF IdleStages, LivingStages, Stages
    <2>3. idle <= live
      BY <1>4, <2>2, CountIsMonotone
    <2> QED
      BY <1>1, <1>3, <2>1, <2>3 DEF NeedsThread
  <1>6. /\ Count(stage, AwakeStages) \in Nat /\ Count(stage', AwakeStages) \in Nat
        /\ Count(stage', {"waiting"}) \in Nat /\ Count(stage, {"waiting"}) \in Nat
    BY Counts
  <1>7. Balanced(stage, Len(queue), live, idle)'
    BY <1>1, <1>2, <1>3, <1>4, <1>5, <1>6 DEF Balanced
  <1> QED
    BY <1>3, <1>7 DEF PoolInv

\* A job is accepted and a thread is started for it.
LEMMA StartKeeps ==
  ASSUME PoolInv, NEW j \in Job, Accept(j), UNCHANGED <<closed, doing>>,
         NEW woken \in NotifyOne, NEW t \in In({"none"}),
         stage' = [woken EXCEPT ![t] = "ready"], live' = live + 1
  PROVE  PoolInv'
  <1>1. TypeOK /\ live \in Nat /\ idle \in Nat /\ t \in Thread /\ stage[t] = "none"
    BY DEF PoolInv, TypeOK, In
  <1>2. /\ woken \in [Thread -> Stages] /\ woken[t] = "none"
        /\ Count(woken, LivingStages) = Count(stage, LivingStages)
        /\ Count(woken, IdleStages) = Count(stage, IdleStages)
        /\ Count(woken, {"waiting"}) > 0 =>
             /\ Count(stage, {"waiting"}) > 0
             /\ Count(woken, AwakeStages) = Count(stage, AwakeStages) + 1
    BY <1>1, Wake
  <1>3. "ready" \in Stages
    BY DEF Stages
  <1>4. Moved(woken, stage', woken[t], "ready")
    <2>1. woken \in [Thread -> Stages]
      BY <1>2
    <2>2. t \in Thread
      BY <1>1
    <2>3. stage' = [woken EXCEPT ![t] = "ready"]
      OBVIOUS
    <2> DEFINE g == [woken EXCEPT ![t] = "ready"]
    <2>4. Moved(woken, g, woken[t], "ready")
      BY <2>1, <2>2, <1>3, Move
    <2> QED
      BY <2>3, <2>4
  <1>5. /\ One(woken[t], LivingStages) = 0 /\ One(woken[t], IdleStages) = 0
        /\ One(woken[t], AwakeStages) = 0 /\ One(woken[t], {"waiting"}) = 0
    BY <1>2, Ones
  <1>6. /\ Count(woken, LivingStages) \in Nat /\ Count(woken, IdleStages) \in Nat
        /\ Count(woken, AwakeStages) \in Nat /\ Count(woken, {"waiting"}) \in Nat
        /\ Count(stage, AwakeStages) \in Nat
    BY Counts
  <1>7. /\ Count(stage', LivingStages) = Count(stage, LivingStages) + 1
        /\ Count(stage', IdleStages) = Count(stage, IdleStages)
        /\ Count(stage', AwakeStages) = Count(woken, AwakeStages) + 1
        /\ Count(stage', {"waiting"}) = Count(woken, {"waiting"})
    BY <1>2, <1>4, <1>5, <1>6, Ones DEF Moved
  <1>8. stage' \in [Thread -> Stages] /\ live' \in Nat
    BY <1>1, <1>2, <1>3
  <1>9. TypeOK' /\ Len(queue') = Len(queue) + 1 /\ Len(queue) \in Nat /\ idle' = idle
    BY <1>8, AcceptKeepsTypes
  <1>10. /\ live = Count(stage, LivingStages) /\ idle = Count(stage, IdleStages)
         /\ Count(stage, {"waiting"}) > 0 => Len(queue) <= Count(stage, AwakeStages)
    BY DEF PoolInv, Balanced
  <1>11. Balanced(stage, Len(queue), live, idle)'
    BY <1>1, <1>2, <1>6, <1>7, <1>9, <1>10 DEF Balanced
  <1> QED
    BY <1>9, <1>11 DEF PoolInv

LEMMA TrySpawnKeeps ==
  ASSUME PoolInv, NEW j \in Job, TrySpawn(j)
  PROVE  PoolInv'
  <1>1. UNCHANGED <<closed, doing>>
    BY DEF TrySpawn
  <1>2. CASE Refuse(j)
    BY <1>1, <1>2, RefuseKeeps
  <1>3. CASE Accept(j) /\ stage' \in NotifyOne /\ UNCHANGED live /\ (~NeedsThread \/ live # 0)
    BY <1>1, <1>3, AcceptKeeps
  <1>4. CASE /\ Accept(j) /\ live' = live + 1
             /\ \E woken \in NotifyOne, t \in In({"none"}) : stage' = [woken EXCEPT ![t] = "ready"]
    BY <1>1, <1>4, StartKeeps
  <1> QED
    BY <1>2, <1>3, <1>4 DEF TrySpawn


LEMMA CloseKeeps == PoolInv /\ Close => PoolInv'
  <1> SUFFICES ASSUME PoolInv, Close PROVE PoolInv'
    OBVIOUS
  <1>1. TypeOK /\ stage \in [Thread -> Stages] /\ "notified" \in Stages
    BY DEF PoolInv, TypeOK, Stages
  <1>2. /\ stage' = [t \in Thread |-> IF stage[t] = "waiting" THEN "notified" ELSE stage[t]]
        /\ closed' = TRUE /\ UNCHANGED <<queue, live, idle, doing, fate, accepted>>
    BY DEF Close
  <1>3. TypeOK'
    BY <1>1, <1>2 DEF TypeOK
  <1>4. /\ Of(stage', LivingStages) = Of(stage, LivingStages)
        /\ Of(stage', IdleStages) = Of(stage, IdleStages)
        /\ Of(stage', {"waiting"}) = {}
    BY <1>1, <1>2 DEF Of, LivingStages, IdleStages, Stages
  <1>5. /\ Count(stage', LivingStages) = Count(stage, LivingStages)
        /\ Count(stage', IdleStages) = Count(stage, IdleStages)
        /\ Count(stage', {"waiting"}) = 0
    <2>1. Count(stage', {"waiting"}) = 0
      BY <1>4, CountType
    <2> QED
      BY <1>4, <2>1 DEF Count
  <1>6. Balanced(stage, Len(queue), live, idle)'
    BY <1>2, <1>5 DEF PoolInv, Balanced
  <1> QED
    BY <1>3, <1>6 DEF PoolInv

LEMMA BeginKeeps ==
  ASSUME PoolInv, NEW t \in Thread, Begin(t) \/ Resume(t)
  PROVE  PoolInv'
  <1>1. idle \in Nat
    BY DEF PoolInv, TypeOK
  <1>2. CASE Begin(t)
    <2>1. stage[t] = "ready" /\ stage[t] \in AwakeStages /\ Look(t, idle)
      BY <1>2 DEF Begin, AwakeStages
    <2>2. idle = idle - One(stage[t], IdleStages)
      BY <1>1, <2>1, Ones
    <2> QED
      BY <2>1, <2>2, LookKeepsCounts
  <1>3. CASE Resume(t)
    <2>1. stage[t] = "notified" /\ stage[t] \in AwakeStages /\ Look(t, idle - 1)
      BY <1>3 DEF Resume, AwakeStages
    <2>2. idle - 1 = idle - One(stage[t], IdleStages)
      BY <1>1, <2>1, Ones
    <2> QED
      BY <2>1, <2>2, LookKeepsCounts
  <1> QED
    BY <1>2, <1>3

\* A thread leaves a stage for another and the counters follow it: what is left
\* to show is arithmetic.
LEMMA ThreadMoves ==
  ASSUME PoolInv, NEW t \in Thread, NEW x \in Stages, stage' = [stage EXCEPT ![t] = x],
         queue' \in Seq(Job), Len(queue') <= Len(queue),
         live' = live + One(x, LivingStages) - One(stage[t], LivingStages),
         idle' = idle + One(x, IdleStages) - One(stage[t], IdleStages),
         One(x, {"waiting"}) = 0,
         One(x, AwakeStages) >= One(stage[t], AwakeStages) \/ queue' = <<>>,
         live' > 0 \/ queue' = <<>>,
         closed' = closed, accepted' = accepted,
         doing' \in [Thread -> SUBSET Job], fate' \in [Job -> Fates]
  PROVE  PoolInv'
  <1>1. /\ stage \in [Thread -> Stages] /\ live \in Nat /\ idle \in Nat
        /\ Len(queue) \in Nat /\ Len(queue') \in Nat /\ (queue' = <<>> => Len(queue') = 0)
    BY DEF PoolInv, TypeOK
  <1>2. /\ live = Count(stage, LivingStages) /\ idle = Count(stage, IdleStages)
        /\ Count(stage, {"waiting"}) > 0 => Len(queue) <= Count(stage, AwakeStages)
    BY DEF PoolInv, Balanced
  <1>3. Moved(stage, stage', stage[t], x)
    BY <1>1, Move, Zenon
  <1>4. /\ Count(stage, LivingStages) \in Nat /\ Count(stage, IdleStages) \in Nat
        /\ Count(stage, AwakeStages) \in Nat /\ Count(stage, {"waiting"}) \in Nat
    BY Counts
  <1>5. /\ Count(stage', LivingStages) \in Nat /\ Count(stage', IdleStages) \in Nat
        /\ Count(stage', AwakeStages) \in Nat /\ Count(stage', {"waiting"}) \in Nat
    BY Counts
  <1>6. /\ One(x, AwakeStages) \in {0, 1} /\ One(stage[t], AwakeStages) \in {0, 1}
        /\ One(stage[t], {"waiting"}) \in {0, 1}
    BY DEF One
  <1>7. live' = Count(stage', LivingStages) /\ idle' = Count(stage', IdleStages)
    BY <1>2, <1>3 DEF Moved
  <1>8. Count(stage', {"waiting"}) > 0 => Len(queue') <= Count(stage', AwakeStages)
    BY <1>1, <1>2, <1>3, <1>4, <1>5, <1>6 DEF Moved
  <1>9. Len(queue') > 0 => live' > 0
    BY <1>1
  <1>10. Balanced(stage, Len(queue), live, idle)'
    BY <1>7, <1>8, <1>9 DEF Balanced
  <1>11. TypeOK'
    <2>1. stage' \in [Thread -> Stages] /\ live' \in Nat /\ idle' \in Nat
      BY <1>1, <1>5, <1>7
    <2> QED
      BY <2>1 DEF PoolInv, TypeOK
  <1> QED
    BY <1>10, <1>11 DEF PoolInv


LEMMA ExpireKeeps ==
  ASSUME PoolInv, NEW t \in Thread, Expire(t)
  PROVE  PoolInv'
  <1>1. /\ stage[t] = "expired" /\ stage[t] \in AwakeStages
        /\ live \in Nat /\ idle \in Nat /\ queue \in Seq(Job)
        /\ doing \in [Thread -> SUBSET Job] /\ fate \in [Job -> Fates]
    BY DEF PoolInv, TypeOK, Expire, AwakeStages
  <1>2. CASE Look(t, idle - 1)
    <2>1. idle - 1 = idle - One(stage[t], IdleStages)
      BY <1>1, Ones
    <2> QED
      BY <1>1, <1>2, <2>1, LookKeepsCounts
  <1>3. CASE /\ queue = <<>>
             /\ stage' = [stage EXCEPT ![t] = "none"]
             /\ live' = live - 1 /\ idle' = idle - 1
             /\ UNCHANGED <<queue, closed, doing, fate, accepted>>
    <2>1. "none" \in Stages /\ Len(queue') <= Len(queue) /\ queue' \in Seq(Job)
      BY <1>1, <1>3 DEF Stages
    <2>2. /\ live' = live + One("none", LivingStages) - One(stage[t], LivingStages)
          /\ idle' = idle + One("none", IdleStages) - One(stage[t], IdleStages)
          /\ One("none", {"waiting"}) = 0
      BY <1>1, <1>3, Ones
    <2> QED
      BY <1>1, <1>3, <2>1, <2>2, ThreadMoves
  <1> QED
    BY <1>2, <1>3 DEF Expire

LEMMA TimeOutKeeps ==
  ASSUME PoolInv, NEW t \in Thread, TimeOut(t)
  PROVE  PoolInv'
  <1>1. PICK x \in {"expired", "notified"} : stage' = [stage EXCEPT ![t] = x]
    BY DEF TimeOut
  <1>2. /\ stage[t] = "waiting" /\ stage \in [Thread -> Stages]
        /\ live \in Nat /\ idle \in Nat /\ queue \in Seq(Job)
        /\ doing \in [Thread -> SUBSET Job] /\ fate \in [Job -> Fates]
        /\ UNCHANGED <<queue, live, idle, closed, doing, fate, accepted>>
    BY DEF PoolInv, TypeOK, TimeOut
  <1>3. x \in Stages /\ Len(queue') <= Len(queue)
    BY <1>2 DEF Stages
  <1>4. /\ One(x, LivingStages) = 1 /\ One(x, IdleStages) = 1 /\ One(x, AwakeStages) = 1
        /\ One(x, {"waiting"}) = 0
    BY DEF One, LivingStages, IdleStages, AwakeStages, Stages
  <1>5. /\ One(stage[t], LivingStages) = 1 /\ One(stage[t], IdleStages) = 1
        /\ One(stage[t], AwakeStages) = 0
    BY <1>2, Ones
  <1>6. live' > 0 \/ queue' = <<>>
    <2>1. live > 0 \/ Len(queue) = 0
      <3>1. Len(queue) > 0 => live > 0
        BY DEF PoolInv, Balanced
      <3> QED
        BY <1>2, <3>1
    <2> QED
      BY <1>2, <2>1
  <1> QED
    <2>1. /\ live' = live + One(x, LivingStages) - One(stage[t], LivingStages)
          /\ idle' = idle + One(x, IdleStages) - One(stage[t], IdleStages)
          /\ One(x, AwakeStages) >= One(stage[t], AwakeStages)
      BY <1>2, <1>4, <1>5
    <2>2. queue' \in Seq(Job) /\ doing' \in [Thread -> SUBSET Job] /\ fate' \in [Job -> Fates]
      BY <1>2
    <2> QED
      BY <1>1, <1>2, <1>3, <1>4, <1>6, <2>1, <2>2, ThreadMoves

LEMMA EndKeeps ==
  ASSUME PoolInv, NEW t \in Thread, Finish(t) \/ Panic(t)
  PROVE  PoolInv'
  <1>1. PICK x \in {"ready", "unwinding"}, r \in {"done", "panicked"} : End(t, x, r)
    BY DEF Finish, Panic
  <1>2. /\ stage[t] = "running" /\ stage' = [stage EXCEPT ![t] = x]
        /\ doing' = [doing EXCEPT ![t] = {}]
        /\ fate' = [j \in Job |-> IF j \in doing[t] THEN r ELSE fate[j]]
        /\ UNCHANGED <<queue, live, idle, closed, accepted>>
        /\ queue \in Seq(Job) /\ live \in Nat /\ idle \in Nat
        /\ doing \in [Thread -> SUBSET Job] /\ fate \in [Job -> Fates]
    BY <1>1 DEF PoolInv, TypeOK, End
  <1>3. x \in Stages /\ r \in Fates /\ Len(queue') <= Len(queue)
    BY <1>2 DEF Stages, Fates
  <1>4. doing' \in [Thread -> SUBSET Job] /\ fate' \in [Job -> Fates]
    BY <1>2, <1>3
  <1>5. /\ One(x, LivingStages) = 1 /\ One(x, IdleStages) = 0
        /\ One(x, AwakeStages) >= 0 /\ One(x, {"waiting"}) = 0
    BY DEF One, LivingStages, IdleStages, AwakeStages, Stages
  <1>6. /\ One(stage[t], LivingStages) = 1 /\ One(stage[t], IdleStages) = 0
        /\ One(stage[t], AwakeStages) = 0
    BY <1>2, Ones
  <1>7. live' > 0
    <2>1. Count(stage, LivingStages) > 0
      BY <1>2, Present DEF LivingStages, Stages
    <2> QED
      BY <1>2, <2>1 DEF PoolInv, Balanced
  <1> QED
    <2>1. /\ live' = live + One(x, LivingStages) - One(stage[t], LivingStages)
          /\ idle' = idle + One(x, IdleStages) - One(stage[t], IdleStages)
          /\ One(x, AwakeStages) >= One(stage[t], AwakeStages)
      BY <1>2, <1>5, <1>6
    <2>2. queue' \in Seq(Job)
      BY <1>2
    <2> QED
      BY <1>2, <1>3, <1>4, <1>5, <1>7, <2>1, <2>2, ThreadMoves

LEMMA UnwindKeeps ==
  ASSUME PoolInv, NEW t \in Thread, Unwind(t)
  PROVE  PoolInv'
  <1>1. /\ stage[t] = "unwinding" /\ UNCHANGED <<idle, closed, doing, accepted>>
        /\ queue \in Seq(Job) /\ live \in Nat /\ idle \in Nat
        /\ doing \in [Thread -> SUBSET Job] /\ fate \in [Job -> Fates]
    BY DEF PoolInv, TypeOK, Unwind
  <1>2. /\ One(stage[t], LivingStages) = 1 /\ One(stage[t], IdleStages) = 0
        /\ One(stage[t], AwakeStages) = 0
    BY <1>1, Ones
  <1>3. "ready" \in Stages /\ "none" \in Stages /\ "dropped" \in Fates
    BY DEF Stages, Fates
  <1>4. live > 0
    <2>1. Count(stage, LivingStages) > 0
      BY <1>1, Present DEF LivingStages, Stages
    <2> QED
      BY <2>1 DEF PoolInv, Balanced
  <1>5. CASE /\ stage' = [stage EXCEPT ![t] = "ready"]
             /\ UNCHANGED <<queue, live, fate>>
    <2>1. /\ live' = live + One("ready", LivingStages) - One(stage[t], LivingStages)
          /\ idle' = idle + One("ready", IdleStages) - One(stage[t], IdleStages)
          /\ One("ready", {"waiting"}) = 0
          /\ One("ready", AwakeStages) >= One(stage[t], AwakeStages)
      BY <1>1, <1>2, <1>5, Ones
    <2>2. Len(queue') <= Len(queue)
      BY <1>1, <1>5
    <2> QED
      BY <1>1, <1>3, <1>4, <1>5, <2>1, <2>2, ThreadMoves
  <1>6. CASE /\ queue' \in Seq(Job) /\ Len(queue') <= Len(queue)
             /\ queue' = <<>> \/ live # 1
             /\ stage' = [stage EXCEPT ![t] = "none"]
             /\ live' = live - 1 /\ fate' \in [Job -> Fates]
    <2>1. /\ live' = live + One("none", LivingStages) - One(stage[t], LivingStages)
          /\ idle' = idle + One("none", IdleStages) - One(stage[t], IdleStages)
          /\ One("none", {"waiting"}) = 0
          /\ One("none", AwakeStages) >= One(stage[t], AwakeStages)
      BY <1>1, <1>2, <1>6, Ones
    <2>2. live' > 0 \/ queue' = <<>>
      BY <1>1, <1>4, <1>6
    <2> QED
      BY <1>1, <1>3, <1>6, <2>1, <2>2, ThreadMoves
  <1>7. CASE /\ queue = <<>> \/ live # 1
             /\ stage' = [stage EXCEPT ![t] = "none"]
             /\ live' = live - 1
             /\ UNCHANGED <<queue, fate>>
    <2>1. Len(queue') <= Len(queue)
      BY <1>1, <1>7
    <2> QED
      BY <1>1, <1>6, <1>7, <2>1
  <1>8. CASE /\ stage' = [stage EXCEPT ![t] = "none"]
             /\ live' = live - 1
             /\ fate' = [j \in Job |-> IF fate[j] = "queued" THEN "dropped" ELSE fate[j]]
             /\ queue' = <<>>
    <2>1. queue' \in Seq(Job) /\ Len(queue') <= Len(queue) /\ fate' \in [Job -> Fates]
      BY <1>1, <1>3, <1>8
    <2> QED
      BY <1>6, <1>8, <2>1
  <1> QED
    BY <1>5, <1>7, <1>8 DEF Unwind

-----------------------------------------------------------------------------
LEMMA PoolNext == PoolInv /\ [Next]_vars => PoolInv'
  <1> SUFFICES ASSUME PoolInv, [Next]_vars PROVE PoolInv'
    OBVIOUS
  <1>1. CASE UNCHANGED vars
    BY <1>1 DEF PoolInv, TypeOK, Balanced, vars
  <1>2. CASE Close
    BY <1>2, CloseKeeps
  <1>3. ASSUME NEW j \in Job, TrySpawn(j) PROVE PoolInv'
    BY <1>3, TrySpawnKeeps
  <1>4. ASSUME NEW t \in Thread, Worker(t) \/ TimeOut(t) PROVE PoolInv'
    <2>1. CASE Begin(t) \/ Resume(t)
      BY <2>1, BeginKeeps
    <2>2. CASE Expire(t)
      BY <2>2, ExpireKeeps
    <2>3. CASE Unwind(t)
      BY <2>3, UnwindKeeps
    <2>4. CASE Finish(t) \/ Panic(t)
      BY <2>4, EndKeeps
    <2>5. CASE TimeOut(t)
      BY <2>5, TimeOutKeeps
    <2> QED
      BY <1>4, <2>1, <2>2, <2>3, <2>4, <2>5 DEF Worker
  <1> QED
    BY <1>1, <1>2, <1>3, <1>4 DEF Next, Caller

LEMMA PoolInvariant == Spec => []PoolInv
  BY PoolInit, PoolNext, PTL DEF Spec

\* The variables keep their types: in particular the code's unsigned counters
\* never go below zero.
THEOREM TypeCorrect == Spec => []TypeOK
  <1>1. PoolInv => TypeOK
    BY DEF PoolInv
  <1> QED
    BY PoolInvariant, <1>1, PTL

\* The counters of threads and of idle threads are right whenever the lock is free.
THEOREM CountersHold == Spec => []Counted
  <1>1. PoolInv => Counted
    <2>1. Of(stage, LivingStages) = Living /\ Of(stage, IdleStages) = Idle
      BY DEF Of, In, Living, Idle, LivingStages, IdleStages
    <2> QED
      BY <2>1 DEF PoolInv, Balanced, Counted, Count
  <1> QED
    BY PoolInvariant, <1>1, PTL

\* No wake-up is lost, for any number of threads and jobs.
THEOREM NoWakeupIsLost == Spec => []NoLostWakeup
  <1>1. ASSUME PoolInv PROVE NoLostWakeup
    <2>1. Of(stage, AwakeStages) = Awake /\ Of(stage, {"waiting"}) = In({"waiting"})
      BY DEF Of, In, Awake, AwakeStages
    <2>2. In({"waiting"}) # {} => Count(stage, {"waiting"}) > 0
      BY <2>1, CountType
    <2> QED
      BY <1>1, <2>1, <2>2 DEF PoolInv, Balanced, NoLostWakeup, Count
  <1> QED
    BY PoolInvariant, <1>1, PTL

\* Queued work always has a thread that will look at the queue.
THEOREM WorkIsNeverStranded == Spec => []NoJobStranded
  <1>1. ASSUME PoolInv PROVE NoJobStranded
    <2> SUFFICES ASSUME queue # <<>> PROVE Awake \cup In({"running", "unwinding"}) # {}
      BY DEF NoJobStranded
    <2>1. queue \in Seq(Job) /\ Len(queue) > 0 /\ stage \in [Thread -> Stages]
      BY <1>1 DEF PoolInv, TypeOK
    <2>2. Count(stage, LivingStages) > 0
      BY <1>1, <2>1 DEF PoolInv, Balanced
    <2>3. PICK t \in Thread : stage[t] \in LivingStages
      <3>1. Of(stage, LivingStages) # {}
        BY <2>2, CountType
      <3> QED
        BY <3>1 DEF Of
    <2>4. CASE stage[t] = "waiting"
      <3>1. Count(stage, {"waiting"}) > 0
        BY <2>4, Present
      <3>2. Len(queue) <= Count(stage, AwakeStages)
        BY <1>1, <3>1 DEF PoolInv, Balanced
      <3>3. Of(stage, AwakeStages) # {}
        BY <2>1, <3>2, CountType
      <3> QED
        BY <3>3 DEF Of, In, Awake, AwakeStages
    <2>5. CASE stage[t] # "waiting"
      BY <2>3, <2>5 DEF In, Awake, LivingStages, Stages
    <2> QED
      BY <2>4, <2>5
  <1> QED
    BY PoolInvariant, <1>1, PTL

-----------------------------------------------------------------------------
(* The order of the jobs *)

\* The jobs that a thread has taken from the queue, or that were dropped from it.
Taken == Len(accepted) - Len(queue)

\* The queue holds the jobs accepted last, and no job was accepted twice.
Queued ==
  /\ Taken >= 0
  /\ \A i \in 1..Len(queue) : queue[i] = accepted[Taken + i]
  /\ \A i, j \in 1..Len(accepted) : accepted[i] = accepted[j] => i = j
  /\ \A i \in 1..Len(accepted) :
       /\ fate[accepted[i]] \notin {"new", "refused"}
       /\ fate[accepted[i]] = "queued" <=> i > Taken

\* A job that runs has a thread of its own, and a thread runs one job.
Handed ==
  /\ \A t \in Thread :
       IF stage[t] = "running" THEN \E j \in Job : doing[t] = {j} /\ fate[j] = "running"
                               ELSE doing[t] = {}
  /\ \A t, u \in Thread : doing[t] \cap doing[u] # {} => t = u
  /\ \A j \in Job : fate[j] = "running" => \E t \in Thread : doing[t] = {j}

Orderly == Queued /\ Handed /\ RunsInOrder

Starts(j) == fate[j] \in {"running", "done", "panicked"}
Over(j)   == fate[j] \notin {"queued", "running"}

LEMMA Types ==
  ASSUME PoolInv
  PROVE  /\ stage \in [Thread -> Stages] /\ doing \in [Thread -> SUBSET Job] /\ fate \in [Job -> Fates]
         /\ queue \in Seq(Job) /\ Len(queue) \in Nat /\ DOMAIN queue = 1..Len(queue)
         /\ \A i \in 1..Len(queue) : queue[i] \in Job
         /\ accepted \in Seq(Job) /\ Len(accepted) \in Nat /\ DOMAIN accepted = 1..Len(accepted)
         /\ \A i \in 1..Len(accepted) : accepted[i] \in Job
  BY DEF PoolInv, TypeOK

LEMMA UnfinishedIsFinite ==
  ASSUME NEW k \in Nat
  PROVE  IsFiniteSet(Unfinished(k))
  <1>1. IsFiniteSet(1..(k - 1))
    BY FS_Interval
  <1>2. Unfinished(k) \subseteq 1..(k - 1)
    BY DEF Unfinished
  <1> QED
    BY <1>1, <1>2, FS_Subset

\* Jobs that have started stay in order if no job that is over or waits comes back.
LEMMA StartedStay ==
  ASSUME PoolInv, RunsInOrder, NEW k \in 1..Len(accepted), Starts(accepted[k]),
         \A i \in 1..k : /\ accepted'[i] = accepted[i]
                         /\ fate'[accepted[i]] \in {"queued", "running"} => fate[accepted[i]] \in {"queued", "running"}
                         /\ fate'[accepted[i]] = "queued" => fate[accepted[i]] = "queued"
  PROVE  /\ Cardinality(Unfinished(k)') < Cardinality(Thread)
         /\ \A i \in Unfinished(k)' : fate'[accepted'[i]] # "queued"
  <1>1. k \in Nat /\ k \in DOMAIN accepted
    BY Types
  <1>2. Unfinished(k)' \subseteq Unfinished(k)
    BY <1>1 DEF Unfinished
  <1>3. /\ Cardinality(Unfinished(k)) < Cardinality(Thread)
        /\ \A i \in Unfinished(k) : fate[accepted[i]] # "queued"
    BY <1>1 DEF RunsInOrder, Starts
  <1>4. /\ Cardinality(Unfinished(k)') <= Cardinality(Unfinished(k))
        /\ Cardinality(Unfinished(k)') \in Nat /\ Cardinality(Unfinished(k)) \in Nat
        /\ Cardinality(Thread) \in Nat
    BY <1>1, <1>2, UnfinishedIsFinite, FS_Subset, FS_CardinalityType, WorkerPoolAssumption
  <1>5. \A i \in Unfinished(k)' : i \in 1..k
    BY <1>1 DEF Unfinished
  <1> QED
    BY <1>2, <1>3, <1>4, <1>5

\* A step that leaves the jobs alone.
LEMMA QuietOrder ==
  ASSUME PoolInv, Orderly, UNCHANGED <<queue, accepted, doing, fate>>,
         \A t \in Thread : stage'[t] = "running" <=> stage[t] = "running"
  PROVE  Orderly'
  <1>1. Queued'
    BY DEF Orderly, Queued, Taken
  <1>2. Handed'
    BY DEF Orderly, Handed
  <1>3. RunsInOrder'
    BY DEF Orderly, RunsInOrder, Unfinished
  <1> QED
    BY <1>1, <1>2, <1>3 DEF Orderly

\* Waking a sleeper and starting a thread change no running thread.
LEMMA NotifyRuns ==
  ASSUME PoolInv, NEW woken \in NotifyOne
  PROVE  /\ woken \in [Thread -> Stages]
         /\ \A t \in Thread : woken[t] = "running" <=> stage[t] = "running"
         /\ \A t \in Thread : woken[t] = "none" <=> stage[t] = "none"
  <1>1. "notified" \in Stages
    BY DEF Stages
  <1> QED
    BY <1>1, Types DEF NotifyOne, In

LEMMA SpawnOrder ==
  ASSUME PoolInv, Orderly, NEW j \in Job, TrySpawn(j)
  PROVE  Orderly'
  <1>1. fate[j] = "new" /\ UNCHANGED doing
    BY DEF TrySpawn
  <1>2. \A t \in Thread : stage'[t] = "running" <=> stage[t] = "running"
    <2>1. stage' = stage \/ stage' \in NotifyOne
          \/ \E woken \in NotifyOne, t \in In({"none"}) : stage' = [woken EXCEPT ![t] = "ready"]
      BY DEF TrySpawn, Refuse
    <2>2. ASSUME NEW woken \in NotifyOne, NEW u \in In({"none"}), stage' = [woken EXCEPT ![u] = "ready"]
          PROVE  \A t \in Thread : stage'[t] = "running" <=> stage[t] = "running"
      BY <2>2, NotifyRuns DEF In
    <2> QED
      BY <2>1, <2>2, NotifyRuns
  <1>3. \A i \in 1..Len(accepted) : accepted[i] # j
    BY <1>1 DEF Orderly, Queued
  <1>4. Handed'
    <2>1. \A i \in Job : fate'[i] = "running" <=> fate[i] = "running"
      BY Types DEF TrySpawn, Refuse, Accept
    <2> QED
      BY <1>1, <1>2, <2>1 DEF Orderly, Handed
  <1>5. CASE Refuse(j)
    <2>1. \A i \in 1..Len(accepted) : fate'[accepted[i]] = fate[accepted[i]]
      BY <1>3, <1>5, Types DEF Refuse
    <2>2. UNCHANGED <<queue, accepted>>
      BY <1>5 DEF Refuse
    <2>3. Queued'
      BY <2>1, <2>2 DEF Orderly, Queued, Taken
    <2>4. RunsInOrder'
      <3> SUFFICES ASSUME NEW k \in 1..Len(accepted), Starts(accepted[k])
                   PROVE  /\ Cardinality(Unfinished(k)') < Cardinality(Thread)
                          /\ \A i \in Unfinished(k)' : fate'[accepted'[i]] # "queued"
        BY <2>1, <2>2, Types DEF RunsInOrder, Starts
      <3>1. \A i \in 1..k : i \in 1..Len(accepted)
        BY Types
      <3> QED
        BY <2>1, <2>2, <3>1, StartedStay DEF Orderly
    <2> QED
      BY <1>4, <2>3, <2>4 DEF Orderly
  <1>6. CASE Accept(j)
    <2>1. /\ Len(accepted') = Len(accepted) + 1 /\ Len(queue') = Len(queue) + 1
          /\ \A i \in 1..Len(accepted) : accepted'[i] = accepted[i]
          /\ \A i \in 1..Len(queue) : queue'[i] = queue[i]
          /\ accepted'[Len(accepted) + 1] = j /\ queue'[Len(queue) + 1] = j
          /\ DOMAIN accepted' = 1..(Len(accepted) + 1)
      BY <1>6, Types DEF Accept
    <2>2. fate'[j] = "queued" /\ \A i \in 1..Len(accepted) : fate'[accepted[i]] = fate[accepted[i]]
      BY <1>3, <1>6, Types DEF Accept
    <2>3. Queued'
      <3>1. Taken' = Taken /\ Taken \in Nat /\ Taken <= Len(accepted) /\ Taken = Len(accepted) - Len(queue)
        BY <2>1, Types DEF Orderly, Queued, Taken
      <3>2. \A i \in 1..Len(queue') : queue'[i] = accepted'[Taken' + i]
        <4> SUFFICES ASSUME NEW i \in 1..(Len(queue) + 1) PROVE queue'[i] = accepted'[Taken + i]
          BY <2>1, <3>1
        <4>1. CASE i = Len(queue) + 1
          BY <2>1, <3>1, <4>1, Types
        <4>2. CASE i # Len(queue) + 1
          <5>1. i \in 1..Len(queue) /\ Taken + i \in 1..Len(accepted)
            BY <3>1, <4>2, Types
          <5> QED
            BY <2>1, <5>1 DEF Orderly, Queued
        <4> QED
          BY <4>1, <4>2
      <3>3. \A i, l \in 1..Len(accepted') : accepted'[i] = accepted'[l] => i = l
        <4>1. \A i \in 1..Len(accepted') : i \in 1..Len(accepted) \/ i = Len(accepted) + 1
          BY <2>1, Types
        <4> QED
          BY <1>3, <2>1, <4>1 DEF Orderly, Queued
      <3>4. \A i \in 1..Len(accepted') : /\ fate'[accepted'[i]] \notin {"new", "refused"}
                                         /\ fate'[accepted'[i]] = "queued" <=> i > Taken'
        <4>1. \A i \in 1..Len(accepted') : i \in 1..Len(accepted) \/ i = Len(accepted) + 1
          BY <2>1, Types
        <4>2. Len(accepted) + 1 > Taken
          BY <3>1, Types
        <4> QED
          BY <2>1, <2>2, <3>1, <4>1, <4>2 DEF Orderly, Queued
      <3> QED
        BY <3>1, <3>2, <3>3, <3>4 DEF Queued
    <2>4. RunsInOrder'
      <3> SUFFICES ASSUME NEW k \in 1..Len(accepted), Starts(accepted[k])
                   PROVE  /\ Cardinality(Unfinished(k)') < Cardinality(Thread)
                          /\ \A i \in Unfinished(k)' : fate'[accepted'[i]] # "queued"
        <4>1. \A i \in DOMAIN accepted' : i \in 1..Len(accepted) \/ i = Len(accepted) + 1
          BY <2>1, Types
        <4> QED
          BY <2>1, <2>2, <4>1 DEF RunsInOrder, Starts
      <3>1. \A i \in 1..k : i \in 1..Len(accepted)
        BY Types
      <3> QED
        BY <2>1, <2>2, <3>1, StartedStay DEF Orderly
    <2> QED
      BY <1>4, <2>3, <2>4 DEF Orderly
  <1> QED
    BY <1>5, <1>6 DEF TrySpawn

\* Jobs that run at once have a thread each.
LEMMA ThreadEach ==
  ASSUME PoolInv, Orderly, NEW K, NEW t \in Thread, stage[t] # "running",
         \A i \in K : i \in 1..Len(accepted) /\ fate[accepted[i]] = "running"
  PROVE  Cardinality(K) < Cardinality(Thread)
  <1> DEFINE hand == [i \in K |-> CHOOSE u \in Thread : doing[u] = {accepted[i]}]
  <1>1. \A i \in K : hand[i] \in Thread \ {t} /\ doing[hand[i]] = {accepted[i]}
    <2> SUFFICES ASSUME NEW i \in K
                 PROVE  hand[i] \in Thread \ {t} /\ doing[hand[i]] = {accepted[i]}
      OBVIOUS
    <2>1. \E u \in Thread : doing[u] = {accepted[i]}
      BY Types DEF Orderly, Handed
    <2>2. hand[i] \in Thread /\ doing[hand[i]] = {accepted[i]}
      BY <2>1
    <2>3. doing[t] = {}
      BY DEF Orderly, Handed
    <2> QED
      BY <2>2, <2>3
  <1>2. \A i, l \in K : hand[i] = hand[l] => i = l
    <2> SUFFICES ASSUME NEW i \in K, NEW l \in K, hand[i] = hand[l] PROVE i = l
      OBVIOUS
    <2>1. accepted[i] = accepted[l]
      BY <1>1
    <2> QED
      BY <2>1 DEF Orderly, Queued
  <1>3. hand \in Injection(K, Thread \ {t})
    <2>1. hand \in [K -> Thread \ {t}]
      BY <1>1
    <2> HIDE DEF hand
    <2> QED
      BY <1>2, <2>1 DEF Injection, IsInjective
  <1>4. /\ IsFiniteSet(Thread \ {t}) /\ Cardinality(Thread \ {t}) = Cardinality(Thread) - 1
        /\ Cardinality(Thread) \in Nat
    BY FS_RemoveElement, FS_CardinalityType, WorkerPoolAssumption
  <1>5. IsFiniteSet(K) /\ Cardinality(K) <= Cardinality(Thread \ {t})
    BY <1>3, <1>4, FS_Injection
  <1>6. Cardinality(K) \in Nat
    BY <1>5, FS_CardinalityType
  <1> QED
    BY <1>4, <1>5, <1>6

\* A thread takes the job that waits longest: what is unfinished before it runs.
LEMMA TakeOrder ==
  ASSUME PoolInv, Orderly, NEW t \in Thread, stage[t] # "running", queue # <<>>,
         queue' = Tail(queue), stage' = [stage EXCEPT ![t] = "running"],
         doing' = [doing EXCEPT ![t] = {Head(queue)}],
         fate' = [fate EXCEPT ![Head(queue)] = "running"], UNCHANGED accepted
  PROVE  Orderly'
  <1>0. PICK j : j = Head(queue)
    OBVIOUS
  <1>1. /\ j \in Job /\ j = queue[1] /\ Len(queue) >= 1 /\ Len(queue') = Len(queue) - 1
        /\ \A i \in 1..(Len(queue) - 1) : queue'[i] = queue[i + 1]
    BY <1>0, Types
  <1>2. /\ Taken' = Taken + 1 /\ Taken \in Nat /\ Taken + 1 \in 1..Len(accepted)
        /\ Taken = Len(accepted) - Len(queue) /\ j = accepted[Taken + 1]
    <2>1. Taken \in Nat /\ Taken = Len(accepted) - Len(queue)
      BY Types DEF Orderly, Queued, Taken
    <2>2. Taken' = Taken + 1
      BY <1>1, Types DEF Taken
    <2> QED
      BY <1>1, <2>1, <2>2, Types DEF Orderly, Queued
  <1>3. /\ \A i \in Job : fate'[i] = IF i = j THEN "running" ELSE fate[i]
        /\ fate[j] = "queued"
    <2>1. Taken + 1 > Taken
      BY <1>2
    <2> QED
      BY <1>0, <1>1, <1>2, <2>1, Types DEF Orderly, Queued
  <1>4. \A i \in 1..Len(accepted) : accepted[i] = j <=> i = Taken + 1
    BY <1>2 DEF Orderly, Queued
  <1>5. Queued'
    <2>1. \A i \in 1..Len(queue') : queue'[i] = accepted[Taken' + i]
      <3> SUFFICES ASSUME NEW i \in 1..Len(queue') PROVE queue'[i] = accepted[Taken' + i]
        OBVIOUS
      <3>1. i + 1 \in 1..Len(queue) /\ i \in 1..(Len(queue) - 1) /\ Taken' + i = Taken + (i + 1)
        BY <1>1, <1>2, Types
      <3> QED
        BY <1>1, <3>1 DEF Orderly, Queued
    <2>2. \A i \in 1..Len(accepted) : /\ fate'[accepted[i]] \notin {"new", "refused"}
                                      /\ fate'[accepted[i]] = "queued" <=> i > Taken'
      <3> SUFFICES ASSUME NEW i \in 1..Len(accepted)
                   PROVE  /\ fate'[accepted[i]] \notin {"new", "refused"}
                          /\ fate'[accepted[i]] = "queued" <=> i > Taken'
        OBVIOUS
      <3>1. CASE i = Taken + 1
        BY <1>1, <1>2, <1>3, <3>1
      <3>2. CASE i # Taken + 1
        <4>1. fate'[accepted[i]] = fate[accepted[i]]
          BY <1>3, <1>4, <3>2, Types
        <4>2. i > Taken' <=> i > Taken
          <5>1. PICK n \in Nat : n = Taken /\ Taken' = n + 1 /\ i # n + 1
            BY <1>2, <3>2
          <5>2. i \in Nat
            BY Types
          <5> QED
            BY <5>1, <5>2
        <4> QED
          BY <4>1, <4>2 DEF Orderly, Queued
      <3> QED
        BY <3>1, <3>2
    <2>3. Taken' >= 0
      BY <1>2
    <2> QED
      BY <2>1, <2>2, <2>3 DEF Orderly, Queued
  <1>6. Handed'
    <2>1. \A u \in Thread : /\ doing'[u] = IF u = t THEN {j} ELSE doing[u]
                            /\ stage'[u] = IF u = t THEN "running" ELSE stage[u]
      BY <1>0, Types
    <2>2. \A i \in Job : fate'[i] = "running" => \E u \in Thread : doing'[u] = {i}
      <3> SUFFICES ASSUME NEW i \in Job, fate'[i] = "running" PROVE \E u \in Thread : doing'[u] = {i}
        OBVIOUS
      <3>1. CASE i = j
        BY <2>1, <3>1
      <3>2. CASE i # j
        <4>1. PICK u \in Thread : doing[u] = {i}
          BY <1>3, <3>2 DEF Orderly, Handed
        <4>2. u # t
          BY <4>1 DEF Orderly, Handed
        <4> QED
          BY <2>1, <4>1, <4>2
      <3> QED
        BY <3>1, <3>2
    <2>3. \A u \in Thread : IF stage'[u] = "running" THEN \E i \in Job : doing'[u] = {i} /\ fate'[i] = "running"
                                                     ELSE doing'[u] = {}
      <3> SUFFICES ASSUME NEW u \in Thread
                   PROVE  IF stage'[u] = "running" THEN \E i \in Job : doing'[u] = {i} /\ fate'[i] = "running"
                                                   ELSE doing'[u] = {}
        OBVIOUS
      <3>1. CASE u = t
        BY <1>1, <1>3, <2>1, <3>1
      <3>2. CASE u # t
        BY <1>3, <2>1, <3>2 DEF Orderly, Handed
      <3> QED
        BY <3>1, <3>2
    <2>4. \A u \in Thread : j \notin doing[u]
      BY <1>3 DEF Orderly, Handed
    <2>5. \A u, v \in Thread : doing'[u] \cap doing'[v] # {} => u = v
      BY <2>1, <2>4 DEF Orderly, Handed
    <2> QED
      BY <2>2, <2>3, <2>5 DEF Handed
  <1>7. RunsInOrder'
    <2> SUFFICES ASSUME NEW k \in 1..Len(accepted), fate'[accepted[k]] \in {"running", "done", "panicked"}
                 PROVE  /\ Cardinality(Unfinished(k)') < Cardinality(Thread)
                        /\ \A i \in Unfinished(k)' : fate'[accepted'[i]] # "queued"
      BY Types DEF RunsInOrder
    <2>1. \A i \in 1..k : i \in 1..Len(accepted)
      BY Types
    <2>2. CASE k # Taken + 1
      <3>1. Starts(accepted[k])
        BY <1>3, <1>4, <2>2, Types DEF Starts
      <3>2. \A i \in 1..k : /\ fate'[accepted[i]] \in {"queued", "running"} => fate[accepted[i]] \in {"queued", "running"}
                            /\ fate'[accepted[i]] = "queued" => fate[accepted[i]] = "queued"
        BY <1>3, <2>1, Types
      <3> QED
        BY <3>1, <3>2, StartedStay DEF Orderly
    <2>3. CASE k = Taken + 1
      <3>1. \A i \in Unfinished(k)' : i \in 1..Len(accepted) /\ i <= Taken /\ fate'[accepted[i]] \in {"queued", "running"}
        BY <1>2, <2>3 DEF Unfinished
      <3>2. \A i \in Unfinished(k)' : fate[accepted[i]] \in {"queued", "running"} /\ fate'[accepted[i]] = fate[accepted[i]]
        BY <1>2, <1>3, <1>4, <3>1, Types
      <3>3. \A i \in Unfinished(k)' : fate[accepted[i]] = "running"
        BY <1>2, <3>1, <3>2 DEF Orderly, Queued
      <3>4. Cardinality(Unfinished(k)') < Cardinality(Thread)
        <4>1. PICK K : K = Unfinished(k)'
          OBVIOUS
        <4>2. \A i \in K : i \in 1..Len(accepted) /\ fate[accepted[i]] = "running"
          BY <3>1, <3>3, <4>1
        <4> QED
          BY <4>1, <4>2, ThreadEach
      <3> QED
        BY <3>2, <3>3, <3>4
    <2> QED
      BY <2>2, <2>3
  <1> QED
    BY <1>5, <1>6, <1>7 DEF Orderly

LEMMA LookOrder ==
  ASSUME PoolInv, Orderly, NEW t \in Thread, stage[t] # "running", NEW spare, Look(t, spare)
  PROVE  Orderly'
  <1>1. CASE queue # <<>>
    BY <1>1, TakeOrder DEF Look
  <1>2. CASE queue = <<>>
    <2>1. PICK x \in {"none", "waiting"} : stage' = [stage EXCEPT ![t] = x] /\ UNCHANGED <<queue, accepted, doing, fate>>
      BY <1>2 DEF Look
    <2>2. \A u \in Thread : stage'[u] = "running" <=> stage[u] = "running"
      BY <2>1, Types
    <2> QED
      BY <2>1, <2>2, QuietOrder
  <1> QED
    BY <1>1, <1>2

\* Jobs that end, or are dropped, leave the others in order.
LEMMA EndOrder ==
  ASSUME PoolInv, Orderly, NEW t \in Thread, Finish(t) \/ Panic(t)
  PROVE  Orderly'
  <1>1. PICK x \in {"ready", "unwinding"}, r \in {"done", "panicked"} : End(t, x, r)
    BY DEF Finish, Panic
  <1>2. PICK j \in Job : doing[t] = {j} /\ fate[j] = "running"
    BY <1>1 DEF End, Orderly, Handed
  <1>3. /\ \A i \in Job : fate'[i] = IF i = j THEN r ELSE fate[i]
        /\ \A u \in Thread : /\ doing'[u] = IF u = t THEN {} ELSE doing[u]
                             /\ stage'[u] = IF u = t THEN x ELSE stage[u]
        /\ UNCHANGED <<queue, accepted>>
    BY <1>1, <1>2, Types DEF End
  <1>4. Queued'
    <2>1. \A i \in 1..Len(accepted) : /\ fate'[accepted[i]] \notin {"new", "refused"}
                                      /\ fate'[accepted[i]] = "queued" <=> fate[accepted[i]] = "queued"
      BY <1>2, <1>3, Types DEF Orderly, Queued
    <2> QED
      BY <1>3, <2>1 DEF Orderly, Queued, Taken
  <1>5. Handed'
    <2>1. \A u \in Thread : u # t => j \notin doing[u]
      BY <1>2 DEF Orderly, Handed
    <2>2. \A u \in Thread : IF stage'[u] = "running" THEN \E i \in Job : doing'[u] = {i} /\ fate'[i] = "running"
                                                     ELSE doing'[u] = {}
      BY <1>3, <2>1 DEF Orderly, Handed
    <2>3. \A i \in Job : fate'[i] = "running" => \E u \in Thread : doing'[u] = {i}
      BY <1>2, <1>3 DEF Orderly, Handed
    <2>4. \A u, v \in Thread : doing'[u] \cap doing'[v] # {} => u = v
      BY <1>3 DEF Orderly, Handed
    <2> QED
      BY <2>2, <2>3, <2>4 DEF Handed
  <1>6. RunsInOrder'
    <2> SUFFICES ASSUME NEW k \in 1..Len(accepted), fate'[accepted[k]] \in {"running", "done", "panicked"}
                 PROVE  /\ Cardinality(Unfinished(k)') < Cardinality(Thread)
                        /\ \A i \in Unfinished(k)' : fate'[accepted'[i]] # "queued"
      BY <1>3, Types DEF RunsInOrder
    <2>1. \A i \in 1..k : i \in 1..Len(accepted)
      BY Types
    <2>2. Starts(accepted[k])
      BY <1>2, <1>3, Types DEF Starts
    <2>3. \A i \in 1..k : /\ fate'[accepted[i]] \in {"queued", "running"} => fate[accepted[i]] \in {"queued", "running"}
                          /\ fate'[accepted[i]] = "queued" => fate[accepted[i]] = "queued"
      BY <1>2, <1>3, <2>1, Types
    <2> QED
      BY <1>3, <2>2, <2>3, StartedStay DEF Orderly
  <1> QED
    BY <1>4, <1>5, <1>6 DEF Orderly

\* Jobs dropped for want of a thread: nothing waits any more.
LEMMA DropOrder ==
  ASSUME PoolInv, Orderly, NEW t \in Thread, stage[t] = "unwinding", stage' = [stage EXCEPT ![t] = "none"],
         fate' = [j \in Job |-> IF fate[j] = "queued" THEN "dropped" ELSE fate[j]], queue' = <<>>,
         UNCHANGED <<accepted, doing>>
  PROVE  Orderly'
  <1>1. /\ \A j \in Job : fate'[j] = IF fate[j] = "queued" THEN "dropped" ELSE fate[j]
        /\ \A u \in Thread : stage'[u] = "running" <=> stage[u] = "running"
        /\ Len(queue') = 0
    BY Types
  <1>2. Queued'
    <2>1. Taken' = Len(accepted) /\ Len(accepted) \in Nat
      BY <1>1, Types DEF Taken
    <2>2. \A i \in 1..Len(accepted) : /\ fate'[accepted[i]] \notin {"new", "refused"}
                                      /\ fate'[accepted[i]] # "queued"
                                      /\ ~(i > Len(accepted))
      BY <1>1, <2>1, Types DEF Orderly, Queued
    <2> QED
      BY <1>1, <2>1, <2>2 DEF Orderly, Queued
  <1>3. Handed'
    BY <1>1 DEF Orderly, Handed
  <1>4. RunsInOrder'
    <2> SUFFICES ASSUME NEW k \in 1..Len(accepted), fate'[accepted[k]] \in {"running", "done", "panicked"}
                 PROVE  /\ Cardinality(Unfinished(k)') < Cardinality(Thread)
                        /\ \A i \in Unfinished(k)' : fate'[accepted'[i]] # "queued"
      BY Types DEF RunsInOrder
    <2>1. \A i \in 1..k : i \in 1..Len(accepted)
      BY Types
    <2>2. Starts(accepted[k])
      BY <1>1, Types DEF Starts
    <2>3. \A i \in 1..k : /\ fate'[accepted[i]] \in {"queued", "running"} => fate[accepted[i]] \in {"queued", "running"}
                          /\ fate'[accepted[i]] = "queued" => fate[accepted[i]] = "queued"
      BY <1>1, <2>1, Types
    <2> QED
      BY <2>2, <2>3, StartedStay DEF Orderly
  <1> QED
    BY <1>2, <1>3, <1>4 DEF Orderly

LEMMA OrderInit == Init => Orderly
  <1> SUFFICES ASSUME Init PROVE Orderly
    OBVIOUS
  <1>1. Len(accepted) = 0 /\ Len(queue) = 0 /\ DOMAIN accepted = {}
    BY DEF Init
  <1>2. Queued
    BY <1>1 DEF Queued, Taken
  <1>3. Handed
    BY DEF Init, Handed
  <1>4. RunsInOrder
    BY <1>1 DEF RunsInOrder
  <1> QED
    BY <1>2, <1>3, <1>4 DEF Orderly

LEMMA OrderNext == PoolInv /\ Orderly /\ [Next]_vars => Orderly'
  <1> SUFFICES ASSUME PoolInv, Orderly, [Next]_vars PROVE Orderly'
    OBVIOUS
  <1>1. CASE UNCHANGED vars
    BY <1>1, QuietOrder DEF vars
  <1>2. CASE Close
    <2>1. /\ UNCHANGED <<queue, accepted, doing, fate>>
          /\ \A t \in Thread : stage'[t] = "running" <=> stage[t] = "running"
      BY <1>2 DEF Close
    <2> QED
      BY <2>1, QuietOrder
  <1>3. CASE \E j \in Job : TrySpawn(j)
    BY <1>3, SpawnOrder
  <1>4. ASSUME NEW t \in Thread, stage[t] # "running", NEW x \in Stages \ {"running"},
               stage' = [stage EXCEPT ![t] = x], UNCHANGED <<queue, accepted, doing, fate>>
        PROVE  Orderly'
    <2>1. \A u \in Thread : stage'[u] = "running" <=> stage[u] = "running"
      BY <1>4, Types
    <2> QED
      BY <1>4, <2>1, QuietOrder
  <1>5. ASSUME NEW t \in Thread, Begin(t) \/ Resume(t) PROVE Orderly'
    BY <1>5, LookOrder DEF Begin, Resume
  <1>6. ASSUME NEW t \in Thread, Expire(t) PROVE Orderly'
    BY <1>4, <1>6, LookOrder DEF Expire, Stages
  <1>7. ASSUME NEW t \in Thread, TimeOut(t) PROVE Orderly'
    BY <1>4, <1>7 DEF TimeOut, Stages
  <1>8. ASSUME NEW t \in Thread, Finish(t) \/ Panic(t) PROVE Orderly'
    BY <1>8, EndOrder
  <1>9. ASSUME NEW t \in Thread, Unwind(t) PROVE Orderly'
    <2>1. CASE /\ queue # <<>> /\ live = 1 /\ stage' = [stage EXCEPT ![t] = "none"]
               /\ fate' = [j \in Job |-> IF fate[j] = "queued" THEN "dropped" ELSE fate[j]]
               /\ queue' = <<>>
      BY <1>9, <2>1, DropOrder DEF Unwind
    <2>2. CASE UNCHANGED <<queue, fate>> /\ stage' \in {[stage EXCEPT ![t] = x] : x \in {"ready", "none"}}
      BY <1>4, <1>9, <2>2 DEF Unwind, Stages
    <2> QED
      BY <1>9, <2>1, <2>2 DEF Unwind
  <1> QED
    BY <1>1, <1>2, <1>3, <1>5, <1>6, <1>7, <1>8, <1>9 DEF Next, Caller, Worker

\* Jobs run in the order they were accepted in: when a job starts, fewer earlier jobs than
\* the pool may have threads are unfinished, and none waits.
THEOREM JobsRunInOrder == Spec => []RunsInOrder
  <1>1. Spec => []Orderly
    BY PoolInvariant, OrderInit, OrderNext, PTL DEF Spec
  <1>2. Orderly => RunsInOrder
    BY DEF Orderly
  <1> QED
    BY <1>1, <1>2, PTL
=============================================================================
