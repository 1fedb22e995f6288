---------------------------- MODULE CommandsProofs ----------------------------
(***************************************************************************)
(* Safety of the commands that pages run, for any number of commands,      *)
(* connections and interruptions, and any limits.                          *)
(*                                                                         *)
(* The inductive invariant Inv has four parts beside the types.  Order: a  *)
(* command is sent on one connection, and its request, its thread and its  *)
(* processes follow one another.  Over: what is told as a result or as a   *)
(* cancellation is over.  Asked: whatever tells a command to stop was      *)
(* asked for by the page, or the call is no longer live, or its connection *)
(* is closed.  Held: a cancellation that came first waits for its command, *)
(* in the app or at the server, unless it is forgotten.                    *)
(***************************************************************************)
EXTENDS Commands, FiniteSetTheorems, TLAPS

Typed ==
  /\ page \in [Command -> {"new", "pending", "result", "cancelled", "error", "gone"}]
  /\ waiting \subseteq Command /\ tasks \subseteq Command /\ cancelled_jobs \subseteq Command
  /\ expired \subseteq Command /\ outdated \subseteq Command
  /\ jobs \subseteq tasks /\ Cardinality(jobs) <= Limit
  /\ next \in Command \cup {0} /\ latest \in Connection /\ client \in {0, latest}
  /\ answer \in [Command -> {"none", "result", "cancelled", "error"}]
  /\ home \in [Command -> Connection \cup {0}] /\ wire \subseteq Request
  /\ served \subseteq Connection
  /\ thread \in [Command -> {"none", "registered", "running", "stopping", "over"}]
  /\ flag \subseteq Command /\ alive \subseteq Command /\ helpers \subseteq Command
  /\ stopped \subseteq Command /\ asked \subseteq Command /\ early \subseteq Command
  /\ cancelled \in [Connection -> SUBSET Command] /\ reached \in [Connection -> SUBSET Command]
  /\ losses \in 0 .. MaxLosses /\ stops \in 0 .. MaxStops

\* A command is sent once, on one connection, after the user was asked; its request,
\* its thread and its processes follow one another.
Once(c) ==
  /\ home[c] # 0 => c <= next /\ home[c] <= latest
  /\ c \in waiting \/ page[c] = "new" => home[c] = 0
  /\ page[c] = "new" => c \notin waiting
  /\ home[c] = 0 => thread[c] = "none"
  /\ c \in alive \cup helpers => thread[c] \in {"running", "stopping"}

Sent(m) == m.k = "exec" => home[m.job] = m.to /\ thread[m.job] = "none"

Serving == client \in served \cup {0} /\ \A k \in served : k <= latest

Order == (\A c \in Command : Once(c)) /\ (\A m \in wire : Sent(m)) /\ Serving

\* The thread is over, or there never is one.
Done(c) == thread[c] = "over" \/ (home[c] = 0 /\ c \notin waiting /\ page[c] # "new")

Over == \A c \in Command : {page[c], answer[c]} \cap {"result", "cancelled"} # {} => Done(c)

\* The page cancelled the command, or is not there to be told.
Excused(c) == c \in asked \/ ~Live(c)

Asked ==
  /\ cancelled_jobs \subseteq asked
  /\ \A m \in wire : m.k = "cancel" => Excused(m.job)
  /\ \A k \in Connection : \A c \in cancelled[k] : Excused(c)
  /\ \A c \in flag \cup stopped : Excused(c) \/ home[c] \notin served \cup {0}
  /\ \A c \in Command : (answer[c] = "cancelled" => Excused(c)) /\ (page[c] = "cancelled" => c \in asked)

\* Where the cancellation of a command waits that was not sent yet, is on its way,
\* or is about to start; or why it is never started.
Waits(c) ==
  \/ home[c] = 0 /\ page[c] # "new" /\ (c \in waiting => c \in cancelled_jobs)
  \/ [k |-> "exec", job |-> c, to |-> home[c]] \in wire /\ c \in cancelled[home[c]]
  \/ thread[c] = "registered" /\ c \in flag
  \/ thread[c] \in {"running", "stopping", "over"}
  \/ home[c] # 0 /\ thread[c] = "none" /\ \A m \in wire : m.k = "exec" => m.job # c
  \/ home[c] \notin served \cup {0}

Held ==
  /\ \A k \in Connection : cancelled[k] \subseteq reached[k]
  /\ \A c \in early : Forgotten(c) \/ Waits(c)

Inv == Typed /\ Order /\ Over /\ Asked /\ Held

\* A subset of the commands is finite, and its subsets are no larger.
LEMMA Smaller ==
  ASSUME NEW S \in SUBSET Command, NEW T \in SUBSET S
  PROVE  /\ IsFiniteSet(S) /\ IsFiniteSet(T) /\ Cardinality(S) \in Nat /\ Cardinality(T) \in Nat
         /\ Cardinality(T) <= Cardinality(S)
  <1>1. IsFiniteSet(S)
    BY FS_Subset, CommandsAssumption
  <1> QED
    BY <1>1, FS_Subset, FS_CardinalityType

\* The messages that cancel commands are requests.
LEMMA CancellationsTyped ==
  ASSUME client \in {0, latest}, latest \in Connection, NEW S \in SUBSET Command
  PROVE  /\ Cancellations(S) \subseteq Request
         /\ \A m \in Cancellations(S) : m.k = "cancel" /\ m.job \in S /\ m.to = client
  <1>1. CASE client = 0
    BY <1>1 DEF Cancellations
  <1>2. CASE client = latest /\ client # 0
    BY <1>2 DEF Cancellations, Request
  <1> QED
    BY <1>1, <1>2

LEMMA TypedInit == Init => Typed
  <1> SUFFICES ASSUME Init PROVE Typed
    OBVIOUS
  <1>1. Cardinality({}) = 0
    BY FS_EmptySet
  <1>2. 1 \in Connection
    BY CommandsAssumption DEF Connection
  <1> QED
    BY <1>1, <1>2, CommandsAssumption DEF Init, Typed

\* Every action of the app keeps the types.
LEMMA TypedApp ==
  ASSUME Typed, \/ Tasks \/ Leave \/ StopTasks
                \/ \E c \in Command : Call(c) \/ Exec(c) \/ Cancel(c)
  PROVE  Typed'
  <1> USE CommandsAssumption DEF Typed
  <1>0. \A S \in SUBSET Command : Cancellations(S) \subseteq Request
    BY CancellationsTyped
  <1>1. ASSUME NEW c \in Command, Call(c) PROVE Typed'
    BY <1>1 DEF Call, app, link, server, processes, history, troubles
  <1>2. ASSUME NEW c \in Command, Deny(c) PROVE Typed'
    BY <1>2 DEF Deny, Settle, link, server, processes, history, troubles
  <1>3. ASSUME NEW c \in Command, Exec(c), Refuse(c) \/ (client # 0 /\ Withdraw(c)) PROVE Typed'
    BY <1>3 DEF Exec, Refuse, Withdraw, Settle, link, server, processes, history, troubles
  <1>4. ASSUME NEW c \in Command, Exec(c), client # 0 /\ Send(c) PROVE Typed'
    <2>1. Cardinality(jobs \cup {c}) <= Limit
      <3>1. IsFiniteSet(jobs) /\ Cardinality(jobs) \in Nat
        BY Smaller
      <3>2. Cardinality(jobs \cup {c}) = IF c \in jobs THEN Cardinality(jobs) ELSE Cardinality(jobs) + 1
        BY <3>1, FS_AddElement
      <3> HIDE DEF Typed
      <3> QED
        BY <1>4, <3>1, <3>2 DEF Send
    <2>2. [k |-> "exec", job |-> c, to |-> client] \in Request
      BY <1>4 DEF Request
    <2> QED
      BY <1>4, <2>1, <2>2 DEF Exec, Send, link, server, processes, history, troubles
  <1>5. ASSUME NEW c \in Command, Cancel(c) PROVE Typed'
    <2>1. Cancellations({c}) \subseteq Request
      BY <1>0
    <2>2. wire' \subseteq Request
      <3>1. wire' = wire \cup Cancellations({c}) \/ wire' = wire
        BY <1>5 DEF Cancel
      <3> QED
        BY <2>1, <3>1
    <2>3. cancelled_jobs' \subseteq Command /\ early' \subseteq Command /\ asked' \subseteq Command
      BY <1>5 DEF Cancel
    <2> QED
      BY <1>5, <2>2, <2>3 DEF Cancel, link, server, processes, troubles
  <1>6. ASSUME NEW c \in Command, Complete(c) PROVE Typed'
    <2>1. Cardinality(jobs \ {c}) <= Limit
      BY Smaller
    <2> QED
      BY <1>6, <2>1 DEF Complete, Settle, link, server, processes, history, troubles
  <1>7. CASE Prune
    <2>1. Cardinality({c \in jobs : ~Live(c)}) \in Nat /\ Cardinality(jobs \ {c \in jobs : ~Live(c)}) <= Limit
      BY Smaller
    <2> QED
      BY <1>0, <1>7, <2>1 DEF Prune, link, server, processes, history, troubles
  <1>8. CASE Leave
    BY <1>8 DEF Leave, Ending, Settle, UnderWay, link, server, processes, history, troubles
  <1>9. CASE StopTasks
    <2>1. Cardinality({}) = 0
      BY FS_EmptySet
    <2> QED
      BY <1>0, <1>9, <2>1 DEF StopTasks, Ending, Settle, UnderWay, link, server, processes, history, troubles
  <1> QED
    BY <1>1, <1>2, <1>3, <1>4, <1>5, <1>6, <1>7, <1>8, <1>9 DEF Tasks, Exec

\* So does every action of the connection, the server and the processes.
LEMMA TypedServer ==
  ASSUME Typed, \/ Lose \/ Renew \/ Connect \/ Threads \/ Reader
                \/ \E c \in Command : TimeOut(c) \/ StartHelper(c) \/ Exit(c)
  PROVE  Typed'
  <1> USE CommandsAssumption DEF Typed
  <1>1. CASE Lose \/ Renew
    <2>1. losses' \in 0 .. MaxLosses /\ stops' \in 0 .. MaxStops
      BY <1>1 DEF Lose, Renew, Losing
    <2>2. client' \in {0, latest'} /\ latest' \in Connection /\ served' \subseteq Connection
      BY <1>1 DEF Lose, Renew, Hangup, link
    <2>3. answer' \in [Command -> {"none", "result", "cancelled", "error"}]
      BY <1>1 DEF Lose, Renew, Hangup
    <2>4. expired' \subseteq Command /\ outdated' \subseteq Command
      BY <1>1 DEF Lose, Renew, UnderWay, app
    <2>5. UNCHANGED <<page, waiting, jobs, tasks, cancelled_jobs, next, home, wire, server, processes, history>>
      BY <1>1 DEF Lose, Renew, app
    <2> QED
      BY <2>1, <2>2, <2>3, <2>4, <2>5 DEF server, processes, history
  <1>2. CASE Connect
    <2>1. latest + 1 \in Connection
      BY <1>2 DEF Connect, Connection
    <2> QED
      BY <1>2, <2>1 DEF Connect, app, server, processes, history, troubles
  <1>3. ASSUME NEW k \in Connection, Close(k) PROVE Typed'
    BY <1>3 DEF Close, Active, app, processes, troubles
  <1>4. ASSUME NEW m \in wire, Receive(m) PROVE Typed'
    <2>1. m.job \in Command /\ m.to \in Connection
      BY DEF Request
    <2>2. CASE m.k = "exec"
      <3>1. answer' \in [Command -> {"none", "result", "cancelled", "error"}]
        BY <1>4, <2>1, <2>2 DEF Receive, Register, Reply
      <3>2. thread' \in [Command -> {"none", "registered", "running", "stopping", "over"}]
        BY <1>4, <2>1, <2>2 DEF Receive, Register
      <3>3. flag' \subseteq Command /\ cancelled' \in [Connection -> SUBSET Command]
        <4>1. flag' = flag \/ flag' = flag \cup {m.job}
          BY <1>4, <2>1, <2>2 DEF Receive, Register
        <4>2. \/ cancelled' = cancelled
              \/ cancelled' = [cancelled EXCEPT ![m.to] = cancelled[m.to] \ {m.job}]
          BY <1>4, <2>1, <2>2 DEF Receive, Register
        <4>3. cancelled[m.to] \ {m.job} \in SUBSET Command
          BY <2>1
        <4>4. flag' \subseteq Command
          BY <2>1, <4>1
        <4>5. cancelled' \in [Connection -> SUBSET Command]
          BY <2>1, <4>2, <4>3
        <4> QED
          BY <4>4, <4>5
      <3>4. wire' \subseteq Request
        BY <1>4 DEF Receive
      <3>5. UNCHANGED <<page, app, link, home, stopped, processes, asked, early, reached, troubles>>
        BY <1>4, <2>2 DEF Receive, Register
      <3> QED
        BY <3>1, <3>2, <3>3, <3>4, <3>5 DEF app, link, processes, troubles
    <2>3. CASE m.k # "exec"
      <3>1. flag' \subseteq Command /\ early' \subseteq Command
        BY <1>4, <2>1, <2>3 DEF Receive, CancelJob
      <3>2. Remember(cancelled[m.to] \cup {m.job}) \subseteq Command
        BY <2>1 DEF Remember
      <3>3. cancelled' \in [Connection -> SUBSET Command]
        <4>1. \/ cancelled' = cancelled
              \/ cancelled' = [cancelled EXCEPT ![m.to] = Remember(cancelled[m.to] \cup {m.job})]
          BY <1>4, <2>1, <2>3 DEF Receive, CancelJob
        <4> QED
          BY <2>1, <3>2, <4>1
      <3>4. reached' \in [Connection -> SUBSET Command]
        <4>1. \/ reached' = reached
              \/ reached' = [reached EXCEPT ![m.to] = reached[m.to] \cup {m.job}]
          BY <1>4, <2>1, <2>3 DEF Receive, CancelJob
        <4> QED
          BY <2>1, <4>1
      <3>5. wire' \subseteq Request
        BY <1>4 DEF Receive
      <3>6. UNCHANGED <<page, app, link, answer, home, thread, stopped, processes, asked, troubles>>
        BY <1>4, <2>3 DEF Receive, CancelJob
      <3> QED
        BY <3>1, <3>3, <3>4, <3>5, <3>6 DEF app, link, processes, troubles
    <2> QED
      BY <2>2, <2>3
  <1>5. ASSUME NEW c \in Command, Thread(c) PROVE Typed'
    <2>1. answer' \in [Command -> {"none", "result", "cancelled", "error"}]
      BY <1>5 DEF Thread, Launch, Check, Escalate, Finish, End, Reply
    <2>2. thread' \in [Command -> {"none", "registered", "running", "stopping", "over"}]
      BY <1>5 DEF Thread, Launch, Check, Escalate, Finish, End, server
    <2>3. flag' \subseteq Command /\ stopped' \subseteq Command /\ early' \subseteq Command
      BY <1>5 DEF Thread, Launch, Check, Escalate, Finish, End, server, history
    <2>4. alive' \subseteq Command /\ helpers' \subseteq Command
      BY <1>5 DEF Thread, Launch, Check, Escalate, Finish, processes
    <2>5. UNCHANGED <<page, app, link, home, wire, cancelled, asked, reached, troubles>>
      BY <1>5 DEF Thread, Launch, Check, Escalate, Finish, server, history
    <2> QED
      BY <2>1, <2>2, <2>3, <2>4, <2>5 DEF app, link, troubles
  <1>6. ASSUME NEW c \in Command, TimeOut(c) PROVE Typed'
    BY <1>6 DEF TimeOut, app, link, processes, history, troubles
  <1>7. ASSUME NEW c \in Command, StartHelper(c) \/ Exit(c) PROVE Typed'
    <2>1. alive' \subseteq Command /\ helpers' \subseteq Command
      BY <1>7 DEF StartHelper, Exit
    <2>2. UNCHANGED <<page, app, link, answer, home, wire, server, history, troubles>>
      BY <1>7 DEF StartHelper, Exit
    <2> QED
      BY <2>1, <2>2 DEF app, link, server, history, troubles
  <1> QED
    BY <1>1, <1>2, <1>3, <1>4, <1>5, <1>6, <1>7 DEF Threads, Reader

LEMMA TypedStep == ASSUME Typed, [Next]_vars PROVE Typed'
  <1>1. CASE UNCHANGED vars
    BY <1>1 DEF Typed, vars, app, link, server, processes, history, troubles
  <1> QED
    BY <1>1, TypedApp, TypedServer DEF Next

-----------------------------------------------------------------------------

\* What of a command's course no action of the page, of the prompt or of the
\* connection disturbs: it is not sent, started or stopped by them.
LEMMA OrderApp ==
  ASSUME Typed, Order, \/ Tasks \/ Leave \/ StopTasks
                       \/ \E c \in Command : Call(c) \/ Exec(c) \/ Cancel(c)
  PROVE  Order'
  <1> USE DEF Order, Once, Sent, Serving
  <1>0. \A S \in SUBSET Command : \A m \in Cancellations(S) : m.k = "cancel"
    BY CancellationsTyped DEF Typed
  <1>1. ASSUME NEW c \in Command, Call(c) PROVE Order'
    BY <1>1 DEF Typed, Call, link, server, processes
  <1>2. ASSUME NEW c \in Command, Deny(c) PROVE Order'
    BY <1>2 DEF Typed, Deny, Settle, link, server, processes
  <1>3. ASSUME NEW c \in Command, Exec(c), Refuse(c) \/ (client # 0 /\ Withdraw(c)) PROVE Order'
    BY <1>3 DEF Typed, Exec, Refuse, Withdraw, Settle, link, server, processes
  <1>4. ASSUME NEW c \in Command, Exec(c), client # 0 /\ Send(c) PROVE Order'
    <2>1. c \in Nat /\ next \in Nat /\ home[c] = 0 /\ thread[c] = "none" /\ c > next
      BY <1>4, CommandsAssumption DEF Typed, Exec, Send, Connection
    <2>2. next' = c /\ client = latest /\ home' = [home EXCEPT ![c] = client] /\ waiting' = waiting \ {c}
      BY <1>4 DEF Typed, Exec, Send
    <2>3. UNCHANGED <<page, latest, client, served, thread, alive, helpers>>
      BY <1>4 DEF Exec, Send, link, server, processes
    <2>4. ASSUME NEW d \in Command PROVE Once(d)'
      <3>1. CASE d = c
        BY <2>1, <2>2, <2>3, <3>1, <1>4 DEF Typed, Connection, Exec
      <3>2. CASE d # c
        <4>1. home'[d] = home[d] /\ (home[d] # 0 => d <= next')
          BY <2>1, <2>2, <3>2, CommandsAssumption DEF Typed
        <4> QED
          BY <2>2, <2>3, <3>2, <4>1
      <3> QED
        BY <3>1, <3>2
    <2>5. ASSUME NEW m \in wire', m.k = "exec" PROVE home'[m.job] = m.to /\ thread'[m.job] = "none"
      <3>1. CASE m \in wire
        <4>1. m.job \in Command /\ m.to # 0 /\ home[m.job] = m.to /\ thread[m.job] = "none"
          BY <2>5, <3>1 DEF Typed, Request, Connection
        <4> QED
          BY <2>1, <2>2, <2>3, <4>1 DEF Typed
      <3>2. CASE m = [k |-> "exec", job |-> c, to |-> client]
        BY <2>1, <2>2, <2>3, <3>2 DEF Typed
      <3> QED
        BY <1>4, <3>1, <3>2 DEF Exec, Send
    <2>6. Serving'
      BY <2>3
    <2> QED
      BY <2>4, <2>5, <2>6
  <1>5. ASSUME NEW c \in Command, Cancel(c) PROVE Order'
    <2>1. \A m \in wire' : m \in wire \/ m.k = "cancel"
      BY <1>0, <1>5 DEF Cancel
    <2> QED
      BY <1>5, <2>1 DEF Cancel, link, server, processes
  <1>6. ASSUME NEW c \in Command, Complete(c) PROVE Order'
    BY <1>6 DEF Typed, Complete, Settle, link, server, processes
  <1>7. CASE Prune
    <2>1. {c \in jobs : ~Live(c)} \subseteq Command
      BY DEF Typed
    <2>2. \A m \in wire' : m \in wire \/ m.k = "cancel"
      BY <1>0, <1>7, <2>1 DEF Prune
    <2> QED
      BY <1>7, <2>2 DEF Prune, link, server, processes
  <1>8. CASE Leave
    BY <1>8 DEF Typed, Leave, Settle, link, server, processes
  <1>9. CASE StopTasks
    <2>1. \A m \in wire' : m \in wire \/ m.k = "cancel"
      BY <1>0, <1>9 DEF Typed, StopTasks
    <2> QED
      BY <1>9, <2>1 DEF Typed, StopTasks, Settle, link, server, processes
  <1> QED
    BY <1>1, <1>2, <1>3, <1>4, <1>5, <1>6, <1>7, <1>8, <1>9 DEF Tasks, Exec

LEMMA OrderServer ==
  ASSUME Typed, Order, \/ Lose \/ Renew \/ Connect \/ Threads \/ Reader
                       \/ \E c \in Command : TimeOut(c) \/ StartHelper(c) \/ Exit(c)
  PROVE  Order'
  <1> USE DEF Order, Once, Sent, Serving
  <1>1. CASE Lose \/ Renew
    <2>1. client' \in served' \cup {0} /\ UNCHANGED <<latest, served>>
      BY <1>1 DEF Lose, Renew, Hangup, link
    <2>2. UNCHANGED <<page, waiting, next, home, wire, server, processes>>
      BY <1>1 DEF Lose, Renew, app
    <2> QED
      BY <2>1, <2>2 DEF server, processes
  <1>2. CASE Connect
    <2>1. latest \in Nat /\ \A k \in Connection \cup {0} : k \in Nat
      BY DEF Typed, Connection
    <2>2. latest' = latest + 1 /\ client' = latest + 1 /\ served' = served \cup {latest + 1}
      BY <1>2 DEF Connect
    <2>3. UNCHANGED <<page, waiting, next, home, wire, thread, alive, helpers>>
      BY <1>2 DEF Connect, app, server, processes
    <2>4. ASSUME NEW d \in Command PROVE home[d] <= latest => home[d] <= latest'
      <3>1. home[d] \in Nat
        BY <2>1 DEF Typed
      <3> QED
        BY <2>1, <2>2, <3>1
    <2>5. Serving'
      BY <2>1, <2>2 DEF Typed
    <2> QED
      BY <2>3, <2>4, <2>5
  <1>3. ASSUME NEW k \in Connection, Close(k) PROVE Order'
    BY <1>3 DEF Typed, Close, app, processes
  <1>4. ASSUME NEW m \in wire, Receive(m) PROVE Order'
    <2>1. m.job \in Command /\ m.to \in Connection /\ m.to # 0
      BY DEF Typed, Request, Connection
    <2>2. UNCHANGED <<page, waiting, next, latest, client, served, home, alive, helpers>>
      BY <1>4 DEF Receive, app, link, processes
    <2>3. CASE m.k = "exec"
      <3>1. \A n \in wire' : n \in wire /\ n # m
        BY <1>4 DEF Receive
      <3>2. \A n \in wire' : n.k = "exec" => n.job # m.job
        BY <2>3, <3>1 DEF Typed, Request
      <3>3. thread' = thread \/ thread' = [thread EXCEPT ![m.job] = "registered"]
        BY <1>4, <2>3 DEF Receive, Register
      <3>4. home[m.job] # 0 /\ thread[m.job] = "none"
        BY <2>1, <2>3
      <3>5. m.job \notin alive \cup helpers
        BY <2>1, <3>4
      <3>6. ASSUME NEW d \in Command PROVE Once(d)'
        BY <2>1, <2>2, <3>3, <3>4, <3>5 DEF Typed
      <3>7. ASSUME NEW n \in wire' PROVE Sent(n)'
        BY <2>2, <3>1, <3>2, <3>3 DEF Typed, Request
      <3> QED
        BY <2>2, <3>6, <3>7
    <2>4. CASE m.k # "exec"
      BY <1>4, <2>2, <2>4 DEF Receive, CancelJob
    <2> QED
      BY <2>3, <2>4
  <1>5. ASSUME NEW c \in Command, Thread(c) PROVE Order'
    <2>1. thread[c] # "none" /\ \A d \in Command \ {c} : thread'[d] = thread[d]
      BY <1>5 DEF Typed, Thread, Launch, Check, Escalate, Finish, End, server
    <2>2. thread'[c] # "none" /\ (c \in alive' \cup helpers' => thread'[c] \in {"running", "stopping"})
      BY <1>5 DEF Typed, Thread, Launch, Check, Escalate, Finish, End, server, processes
    <2>3. alive' \subseteq alive \cup {c} /\ helpers' \subseteq helpers
      BY <1>5 DEF Thread, Launch, Check, Escalate, Finish, processes
    <2>4. UNCHANGED <<page, waiting, next, latest, client, served, home, wire>>
      BY <1>5 DEF Thread, Launch, Check, Escalate, Finish, app, link
    <2>5. ASSUME NEW d \in Command PROVE Once(d)'
      BY <2>1, <2>2, <2>3, <2>4
    <2>6. ASSUME NEW m \in wire' PROVE Sent(m)'
      BY <2>1, <2>4 DEF Typed, Request
    <2> QED
      BY <2>4, <2>5, <2>6
  <1>6. ASSUME NEW c \in Command, TimeOut(c) PROVE Order'
    BY <1>6 DEF Typed, TimeOut, app, link, processes
  <1>7. ASSUME NEW c \in Command, StartHelper(c) \/ Exit(c) PROVE Order'
    BY <1>7 DEF StartHelper, Exit, app, link, server
  <1> QED
    BY <1>1, <1>2, <1>3, <1>4, <1>5, <1>6, <1>7 DEF Threads, Reader

LEMMA OrderStep == ASSUME Typed, Order, [Next]_vars PROVE Order'
  <1>1. CASE UNCHANGED vars
    BY <1>1 DEF Order, Once, Sent, Serving, vars, app, link, server, processes
  <1> QED
    BY <1>1, OrderApp, OrderServer DEF Next

-----------------------------------------------------------------------------

\* What is over stays over.
LEMMA DoneStays ==
  ASSUME Typed, Order, Next, NEW d \in Command, Done(d)
  PROVE  Done(d)'
  <1> USE DEF Done
  <1>1. ASSUME NEW c \in Command, \/ Call(c) \/ Deny(c) \/ Exec(c) \/ Cancel(c) \/ Complete(c)
                                  \/ TimeOut(c) \/ StartHelper(c) \/ Exit(c)
        PROVE  Done(d)'
    <2>1. thread[d] = "over" => thread'[d] = "over"
      BY <1>1 DEF Typed, Call, Deny, Exec, Cancel, Complete, TimeOut, StartHelper, Exit, server
    <2>2. CASE home[d] = 0 /\ d \notin waiting /\ page[d] # "new"
      <3>1. page'[d] # "new"
        BY <1>1, <2>2 DEF Typed, Call, Deny, Exec, Refuse, Withdraw, Send, Cancel, Complete, Settle,
                          TimeOut, StartHelper, Exit
      <3>2. d \notin waiting'
        BY <1>1, <2>2 DEF Call, Deny, Exec, Cancel, Complete, TimeOut, StartHelper, Exit, app
      <3>3. home'[d] = 0
        BY <1>1, <2>2 DEF Typed, Call, Deny, Exec, Refuse, Withdraw, Send, Cancel, Complete,
                          TimeOut, StartHelper, Exit
      <3> QED
        BY <3>1, <3>2, <3>3
    <2> QED
      BY <2>1, <2>2
  <1>2. CASE Prune \/ Leave \/ StopTasks
    BY <1>2 DEF Typed, Prune, Leave, StopTasks, Settle, server
  <1>3. CASE Lose \/ Renew \/ Connect
    BY <1>3 DEF Lose, Renew, Connect, app, server
  <1>4. ASSUME NEW c \in Command, Thread(c) PROVE Done(d)'
    <2>1. UNCHANGED <<page, waiting, home>>
      BY <1>4 DEF Thread, Launch, Check, Escalate, Finish, app
    <2>2. thread[d] = "over" => thread'[d] = "over"
      BY <1>4 DEF Typed, Thread, Launch, Check, Escalate, Finish, End, server
    <2> QED
      BY <2>1, <2>2
  <1>5. ASSUME NEW m \in wire, Receive(m) PROVE Done(d)'
    <2>1. UNCHANGED <<page, waiting, home>>
      BY <1>5 DEF Receive, app
    <2>2. m.k = "exec" => thread[m.job] = "none"
      BY DEF Order, Sent
    <2>3. thread[d] = "over" => thread'[d] = "over"
      BY <1>5, <2>2 DEF Typed, Receive, Register, CancelJob
    <2> QED
      BY <2>1, <2>3
  <1>6. ASSUME NEW k \in Connection, Close(k) PROVE Done(d)'
    BY <1>6 DEF Close, app
  <1> QED
    BY <1>1, <1>2, <1>3, <1>4, <1>5, <1>6 DEF Next, Threads, Tasks, Reader

Ended(body) == body \in {"result", "cancelled"}

\* Only a thread that is over, and a call that is withdrawn, is said to have ended.
LEMMA OverStep == ASSUME Typed, Order, Over, [Next]_vars PROVE Over'
  <1> SUFFICES ASSUME NEW d \in Command, Ended(page'[d]) \/ Ended(answer'[d]) PROVE Done(d)'
    BY DEF Over, Ended
  <1>0. Ended(page[d]) \/ Ended(answer[d]) => Done(d)
    BY DEF Over, Ended
  <1>1. CASE UNCHANGED vars
    BY <1>0, <1>1 DEF Done, vars, app, server
  <1>2. ASSUME Next, Ended(page[d]) \/ Ended(answer[d]) PROVE Done(d)'
    BY <1>0, <1>2, DoneStays
  <1> USE DEF Ended
  <1>3. ASSUME NEW c \in Command, \/ Call(c) \/ Deny(c) \/ Cancel(c) \/ Complete(c)
                                  \/ TimeOut(c) \/ StartHelper(c) \/ Exit(c)
        PROVE  Ended(page[d]) \/ Ended(answer[d])
    BY <1>3 DEF Typed, Call, Deny, Cancel, Complete, Settle, TimeOut, StartHelper, Exit
  <1>4. ASSUME NEW c \in Command, Exec(c) PROVE Ended(page[d]) \/ Ended(answer[d]) \/ Done(d)'
    <2>1. CASE ~Withdraw(c) \/ d # c
      BY <1>4, <2>1 DEF Typed, Exec, Refuse, Withdraw, Send, Settle
    <2>2. CASE Withdraw(c) /\ d = c
      <3>1. home[c] = 0 /\ page[c] # "new"
        BY <1>4 DEF Exec, Order, Once
      <3>2. home' = home /\ waiting' = waiting \ {c}
        BY <1>4, <2>2 DEF Exec, Withdraw
      <3>3. page'[c] # "new"
        BY <2>2, <3>1 DEF Typed, Withdraw, Settle
      <3> QED
        BY <2>2, <3>1, <3>2, <3>3 DEF Done
    <2> QED
      BY <2>1, <2>2
  <1>5. ASSUME Prune \/ Leave \/ StopTasks PROVE Ended(page[d]) \/ Ended(answer[d])
    BY <1>5 DEF Typed, Prune, Leave, StopTasks, Settle
  <1>6. ASSUME Lose \/ Renew \/ Connect PROVE Ended(page[d]) \/ Ended(answer[d])
    BY <1>6 DEF Typed, Lose, Renew, Connect, Hangup, link
  <1>7. ASSUME NEW c \in Command, Thread(c) PROVE Ended(page[d]) \/ Ended(answer[d]) \/ Done(d)'
    <2>1. page' = page
      BY <1>7 DEF Thread, Launch, Check, Escalate, Finish
    <2>2. answer'[d] = answer[d] \/ (d = c /\ thread'[c] = "over")
      BY <1>7 DEF Typed, Thread, Launch, Check, Escalate, Finish, End, Reply
    <2> QED
      BY <2>1, <2>2 DEF Done
  <1>8. ASSUME NEW m \in wire, Receive(m) PROVE Ended(page[d]) \/ Ended(answer[d])
    <2>1. page' = page
      BY <1>8 DEF Receive
    <2>2. answer'[d] = answer[d] \/ answer'[d] = "error"
      BY <1>8 DEF Typed, Receive, Register, CancelJob, Reply
    <2> QED
      BY <2>1, <2>2
  <1>9. ASSUME NEW k \in Connection, Close(k) PROVE Ended(page[d]) \/ Ended(answer[d])
    BY <1>9 DEF Close
  <1> QED
    BY <1>1, <1>2, <1>3, <1>4, <1>5, <1>6, <1>7, <1>8, <1>9 DEF Next, Threads, Tasks, Reader

-----------------------------------------------------------------------------

\* Nothing takes back that a command may be stopped, and no connection is opened twice.
LEMMA ExcusedStays ==
  ASSUME Typed, Order, Next, NEW c \in Command
  PROVE  /\ asked \subseteq asked' /\ (Excused(c) => Excused(c)')
         /\ home[c] # 0 => home'[c] = home[c]
         /\ home[c] # 0 /\ home[c] \notin served => home'[c] \notin served'
  <1>1. asked \subseteq asked' /\ expired \subseteq expired' /\ outdated \subseteq outdated'
    <2>1. CASE \E d \in Command : \/ Call(d) \/ Deny(d) \/ Exec(d) \/ Cancel(d) \/ Complete(d)
                                  \/ TimeOut(d) \/ StartHelper(d) \/ Exit(d)
      BY <2>1 DEF Call, Deny, Exec, Cancel, Complete, TimeOut, StartHelper, Exit, app, history
    <2>2. CASE Prune \/ Leave \/ StopTasks \/ Lose \/ Renew \/ Connect
      BY <2>2 DEF Prune, Leave, StopTasks, Lose, Renew, Connect, app, history
    <2>3. CASE Threads \/ Reader
      BY <2>3 DEF Threads, Thread, Launch, Check, Escalate, Finish, Reader, Receive, Close, app, history
    <2> QED
      BY <2>1, <2>2, <2>3 DEF Next, Tasks
  <1>2. home[c] # 0 => home'[c] = home[c]
    <2>1. ASSUME NEW d \in Command, Exec(d), home[c] # 0 PROVE home'[c] = home[c]
      BY <2>1 DEF Typed, Order, Once, Exec, Refuse, Withdraw, Send
    <2>2. CASE \E d \in Command : \/ Call(d) \/ Deny(d) \/ Cancel(d) \/ Complete(d)
                                  \/ TimeOut(d) \/ StartHelper(d) \/ Exit(d)
      BY <2>2 DEF Call, Deny, Cancel, Complete, TimeOut, StartHelper, Exit
    <2>3. CASE Prune \/ Leave \/ StopTasks \/ Lose \/ Renew \/ Connect
      BY <2>3 DEF Prune, Leave, StopTasks, Lose, Renew, Connect
    <2>4. CASE Threads \/ Reader
      BY <2>4 DEF Threads, Thread, Launch, Check, Escalate, Finish, Reader, Receive, Close
    <2> QED
      BY <2>1, <2>2, <2>3, <2>4 DEF Next, Tasks
  <1>3. served' \subseteq served \cup {latest + 1}
    <2>1. CASE \E d \in Command : \/ Call(d) \/ Deny(d) \/ Exec(d) \/ Cancel(d) \/ Complete(d)
                                  \/ TimeOut(d) \/ StartHelper(d) \/ Exit(d)
      BY <2>1 DEF Call, Deny, Exec, Cancel, Complete, TimeOut, StartHelper, Exit, link
    <2>2. CASE Prune \/ Leave \/ StopTasks \/ Lose \/ Renew \/ Connect
      BY <2>2 DEF Prune, Leave, StopTasks, Lose, Renew, Connect, Hangup, link
    <2>3. CASE Threads \/ Reader
      BY <2>3 DEF Threads, Thread, Launch, Check, Escalate, Finish, Reader, Receive, Close, link
    <2> QED
      BY <2>1, <2>2, <2>3 DEF Next, Tasks
  <1>4. home[c] # 0 => home[c] # latest + 1
    BY DEF Typed, Order, Once, Connection
  <1> QED
    BY <1>1, <1>2, <1>3, <1>4 DEF Excused, Live

\* The app cancels what its page cancelled and what is no longer live, only.
LEMMA AskedApp ==
  ASSUME Typed, Order, Asked, Next
  PROVE  /\ cancelled_jobs' \subseteq asked'
         /\ \A m \in wire' : m.k = "cancel" => Excused(m.job)'
  <1>0. \A c \in Command : (Excused(c) => Excused(c)') /\ asked \subseteq asked'
    BY ExcusedStays
  <1>1. \A m \in wire : m.k = "cancel" => Excused(m.job)'
    BY <1>0 DEF Typed, Request, Asked
  <1>2. cancelled_jobs \subseteq asked'
    BY <1>0, ExcusedStays DEF Typed, Asked
  <1>3. \A S \in SUBSET Command : \A m \in Cancellations(S) : m.k = "cancel" /\ m.job \in S
    BY CancellationsTyped DEF Typed
  <1>4. ASSUME NEW c \in Command, Cancel(c)
        PROVE  cancelled_jobs' \subseteq asked' /\ \A m \in wire' : m.k = "cancel" => Excused(m.job)'
    <2>1. asked' = asked \cup {c} /\ cancelled_jobs' \subseteq cancelled_jobs \cup {c}
      BY <1>4 DEF Cancel
    <2>2. \A m \in wire' : m \in wire \/ m.job = c
      BY <1>3, <1>4 DEF Cancel
    <2> QED
      BY <1>1, <1>2, <2>1, <2>2 DEF Excused
  <1>5. ASSUME NEW c \in Command, Exec(c)
        PROVE  cancelled_jobs' \subseteq asked' /\ \A m \in wire' : m.k = "cancel" => Excused(m.job)'
    <2>1. cancelled_jobs' \subseteq cancelled_jobs
      BY <1>5 DEF Exec, Refuse, Withdraw, Send
    <2>2. \A m \in wire' : m \in wire \/ m.k = "exec"
      BY <1>5 DEF Exec, Refuse, Withdraw, Send
    <2> QED
      BY <1>1, <1>2, <2>1, <2>2
  <1>6. ASSUME NEW c \in Command, \/ Call(c) \/ Deny(c) \/ Complete(c) \/ TimeOut(c)
                                  \/ StartHelper(c) \/ Exit(c)
        PROVE  cancelled_jobs' = cancelled_jobs /\ wire' = wire
    BY <1>6 DEF Call, Deny, Complete, TimeOut, StartHelper, Exit, app
  <1>7. CASE Prune
    <2>1. {c \in jobs : ~Live(c)} \in SUBSET Command /\ cancelled_jobs' = cancelled_jobs
      BY <1>7 DEF Typed, Prune
    <2>2. \A m \in wire' : m \in wire \/ m.job \in {c \in jobs : ~Live(c)}
      BY <1>3, <1>7, <2>1 DEF Prune
    <2>3. \A c \in {c \in jobs : ~Live(c)} : Excused(c)'
      BY <1>0 DEF Typed, Excused
    <2> QED
      BY <1>1, <1>2, <2>1, <2>2, <2>3
  <1>8. CASE StopTasks
    <2>1. cancelled_jobs' = {} /\ jobs \in SUBSET Command /\ jobs \subseteq expired'
      BY <1>8 DEF Typed, StopTasks, UnderWay
    <2>2. \A m \in wire' : m \in wire \/ m.job \in jobs
      BY <1>3, <1>8, <2>1 DEF StopTasks
    <2> QED
      BY <1>1, <2>1, <2>2 DEF Excused, Live
  <1>9. ASSUME Leave \/ Lose \/ Renew \/ Connect \/ Threads
        PROVE  cancelled_jobs' = cancelled_jobs /\ wire' = wire
    BY <1>9 DEF Leave, Lose, Renew, Connect, Threads, Thread, Launch, Check, Escalate, Finish, app
  <1>10. ASSUME Reader PROVE cancelled_jobs' = cancelled_jobs /\ wire' \subseteq wire
    BY <1>10 DEF Reader, Receive, Close, app
  <1> QED
    BY <1>1, <1>2, <1>4, <1>5, <1>6, <1>7, <1>8, <1>9, <1>10 DEF Next, Tasks

\* The server stops what it was told to stop, and what nobody is there to hear of.
LEMMA AskedServer ==
  ASSUME Typed, Order, Asked, Next
  PROVE  /\ \A k \in Connection : \A c \in cancelled'[k] : Excused(c)'
         /\ \A c \in flag' \cup stopped' : Excused(c)' \/ home'[c] \notin served' \cup {0}
  <1>1. \A k \in Connection : \A c \in cancelled[k] : Excused(c)'
    BY ExcusedStays DEF Typed, Asked
  <1>2. \A c \in flag \cup stopped : Excused(c)' \/ home'[c] \notin served' \cup {0}
    <2> SUFFICES ASSUME NEW c \in flag \cup stopped PROVE Excused(c)' \/ home'[c] \notin served' \cup {0}
      OBVIOUS
    <2>1. c \in Command
      BY DEF Typed
    <2> QED
      BY <2>1, ExcusedStays DEF Asked
  <1>3. ASSUME NEW m \in wire, Receive(m)
        PROVE  /\ \A k \in Connection : \A c \in cancelled'[k] : Excused(c)'
               /\ \A c \in flag' \cup stopped' : Excused(c)' \/ home'[c] \notin served' \cup {0}
    <2>1. m.job \in Command /\ m.to \in Connection /\ stopped' = stopped
      BY <1>3 DEF Typed, Request, Receive
    <2>2. CASE m.k = "exec"
      <3>1. \A k \in Connection : cancelled'[k] \subseteq cancelled[k]
        BY <1>3, <2>1, <2>2 DEF Typed, Receive, Register
      <3>2. flag' = flag \/ (flag' = flag \cup {m.job} /\ m.job \in cancelled[m.to])
        BY <1>3, <2>2 DEF Receive, Register
      <3> QED
        BY <1>1, <1>2, <2>1, <3>1, <3>2
    <2>3. CASE m.k # "exec"
      <3>1. Excused(m.job)'
        <4>1. Excused(m.job)
          BY <2>3 DEF Typed, Request, Asked
        <4> QED
          BY <2>1, <4>1, ExcusedStays
      <3>2. flag' \subseteq flag \cup {m.job}
        BY <1>3, <2>3 DEF Receive, CancelJob
      <3>3. \A k \in Connection : cancelled'[k] \subseteq cancelled[k] \cup {m.job}
        BY <1>3, <2>1, <2>3 DEF Typed, Receive, CancelJob, Remember
      <3> QED
        BY <1>1, <1>2, <2>1, <3>1, <3>2, <3>3
    <2> QED
      BY <2>2, <2>3
  <1>4. ASSUME NEW k \in Connection, Close(k)
        PROVE  /\ \A j \in Connection : \A c \in cancelled'[j] : Excused(c)'
               /\ \A c \in flag' \cup stopped' : Excused(c)' \/ home'[c] \notin served' \cup {0}
    <2>1. \A j \in Connection : cancelled'[j] \subseteq cancelled[j]
      BY <1>4 DEF Typed, Close
    <2>2. \A c \in Active(k) : home'[c] = k /\ k \notin served' \cup {0}
      BY <1>4 DEF Close, Active, Connection
    <2>3. flag' \cup stopped' = flag \cup stopped \cup Active(k)
      BY <1>4 DEF Close
    <2> QED
      BY <1>1, <1>2, <2>1, <2>2, <2>3
  <1>5. ASSUME NEW c \in Command, Thread(c)
        PROVE  /\ cancelled' = cancelled
               /\ \A d \in flag' \cup stopped' : Excused(d)' \/ home'[d] \notin served' \cup {0}
    <2>1. cancelled' = cancelled /\ flag' \subseteq flag /\ home' = home /\ served' = served
      BY <1>5 DEF Thread, Launch, Check, Escalate, Finish, End, server, link
    <2>2. stopped' \subseteq stopped \/ (stopped' = stopped \cup {c} /\ Stopped(c) /\ thread[c] = "running")
      BY <1>5 DEF Thread, Launch, Check, Escalate, Finish, End, server
    <2>3. Stopped(c) /\ thread[c] = "running" => c \in flag \/ home'[c] \notin served' \cup {0}
      BY <2>1 DEF Order, Once, Stopped
    <2> QED
      BY <1>2, <2>1, <2>2, <2>3
  <1>6. CASE UNCHANGED <<flag, stopped, cancelled>>
    BY <1>1, <1>2, <1>6
  <1>7. ASSUME NEW c \in Command, \/ Call(c) \/ Deny(c) \/ Exec(c) \/ Cancel(c) \/ Complete(c)
                                  \/ TimeOut(c) \/ StartHelper(c) \/ Exit(c)
        PROVE  UNCHANGED <<flag, stopped, cancelled>>
    BY <1>7 DEF Call, Deny, Exec, Cancel, Complete, TimeOut, StartHelper, Exit, server
  <1>8. ASSUME Prune \/ Leave \/ StopTasks \/ Lose \/ Renew \/ Connect
        PROVE  UNCHANGED <<flag, stopped, cancelled>>
    BY <1>8 DEF Prune, Leave, StopTasks, Lose, Renew, Connect, server
  <1> QED
    BY <1>1, <1>3, <1>4, <1>5, <1>6, <1>7, <1>8 DEF Next, Threads, Tasks, Reader

\* A page hears of a cancellation only if it asked for it.
LEMMA AskedPage ==
  ASSUME Typed, Order, Asked, Next, NEW d \in Command
  PROVE  (answer'[d] = "cancelled" => Excused(d)') /\ (page'[d] = "cancelled" => d \in asked')
  <1>0. (Excused(d) => Excused(d)') /\ asked \subseteq asked'
    BY ExcusedStays
  <1>1. (answer[d] = "cancelled" => Excused(d)') /\ (page[d] = "cancelled" => d \in asked')
    BY <1>0 DEF Asked
  <1>2. ASSUME NEW c \in Command, Exec(c)
        PROVE  (answer'[d] = "cancelled" => answer[d] = "cancelled") /\ (page'[d] = "cancelled" => d \in asked')
    <2>1. page'[d] = "cancelled" => page[d] = "cancelled" \/ (d = c /\ c \in cancelled_jobs)
      BY <1>2 DEF Typed, Exec, Refuse, Withdraw, Send, Settle
    <2> QED
      BY <1>0, <1>1, <1>2, <2>1 DEF Exec, Asked
  <1>3. ASSUME NEW c \in Command, Complete(c)
        PROVE  (answer'[d] = "cancelled" => answer[d] = "cancelled") /\ (page'[d] = "cancelled" => d \in asked')
    <2>1. page'[d] = "cancelled" => page[d] = "cancelled" \/ (Live(d) /\ answer[d] = "cancelled")
      BY <1>3 DEF Typed, Complete, Settle
    <2>2. Live(d) /\ answer[d] = "cancelled" => d \in asked
      BY DEF Asked, Excused
    <2>3. answer'[d] = "cancelled" => answer[d] = "cancelled"
      BY <1>3 DEF Typed, Complete
    <2> QED
      BY <1>0, <1>1, <2>1, <2>2, <2>3
  <1>4. ASSUME NEW c \in Command, Thread(c)
        PROVE  (answer'[d] = "cancelled" => Excused(d)') /\ page' = page
    <2>1. page' = page
      BY <1>4 DEF Thread, Launch, Check, Escalate, Finish
    <2>2. answer'[d] = "cancelled" =>
            answer[d] = "cancelled" \/ (d = c /\ home[c] = client /\ thread[c] # "none" /\ (Stopped(c) \/ c \in stopped))
      BY <1>4 DEF Typed, Thread, Launch, Check, Escalate, Finish, End, Reply
    <2>3. home[c] = client /\ thread[c] # "none" => home[c] \in served
      BY DEF Order, Once, Serving
    <2>4. home[c] \in served /\ (Stopped(c) \/ c \in stopped) => Excused(c)
      BY DEF Asked, Stopped
    <2> QED
      BY <1>0, <1>1, <2>1, <2>2, <2>3, <2>4
  <1>5. ASSUME NEW c \in Command, Call(c) \/ Deny(c) \/ Cancel(c) \/ TimeOut(c) \/ StartHelper(c) \/ Exit(c)
        PROVE  answer' = answer /\ (page'[d] = "cancelled" => page[d] = "cancelled")
    BY <1>5 DEF Typed, Call, Deny, Cancel, Settle, TimeOut, StartHelper, Exit
  <1>6. ASSUME Prune \/ Leave \/ StopTasks
        PROVE  answer' = answer /\ (page'[d] = "cancelled" => page[d] = "cancelled")
    BY <1>6 DEF Typed, Prune, Leave, StopTasks, Settle
  <1>7. ASSUME Lose \/ Renew \/ Connect
        PROVE  (answer'[d] = "cancelled" => answer[d] = "cancelled") /\ page' = page
    BY <1>7 DEF Typed, Lose, Renew, Connect, Hangup, link
  <1>8. ASSUME Reader
        PROVE  (answer'[d] = "cancelled" => answer[d] = "cancelled") /\ page' = page
    BY <1>8 DEF Typed, Reader, Receive, Register, CancelJob, Reply, Close
  <1> QED
    BY <1>1, <1>2, <1>3, <1>4, <1>5, <1>6, <1>7, <1>8 DEF Next, Threads, Tasks

LEMMA AskedStep == ASSUME Typed, Order, Asked, [Next]_vars PROVE Asked'
  <1>1. CASE UNCHANGED vars
    BY <1>1 DEF Asked, Excused, Live, vars, app, link, server, processes, history
  <1>2. CASE Next
    BY <1>2, AskedApp, AskedServer, AskedPage DEF Asked
  <1> QED
    BY <1>1, <1>2

-----------------------------------------------------------------------------

\* What is not remembered has as many later ones that are.
LEMMA RememberForgets ==
  ASSUME NEW S \in SUBSET Command, NEW d \in S, d \notin Remember(S)
  PROVE  Cardinality({e \in S : e > d}) >= Remembered
  <1>1. Cardinality(S) > Remembered /\ \A e \in S : ~(e < d)
    BY DEF Remember
  <1>2. S \ {d} = {e \in S : e > d}
    <2>1. d \in Nat /\ \A e \in S : e \in Nat
      BY CommandsAssumption
    <2>2. \A e \in S : e > d <=> e # d
      BY <1>1, <2>1
    <2> QED
      BY <2>2
  <1>3. IsFiniteSet(S) /\ Cardinality(S) \in Nat
    BY Smaller
  <1>4. Cardinality(S \ {d}) = Cardinality(S) - 1
    BY <1>3, FS_RemoveElement
  <1> QED
    BY <1>1, <1>2, <1>3, <1>4, CommandsAssumption

\* Cancellations that reached the server stay so as long as their connection is served.
LEMMA ReachedGrows ==
  ASSUME Typed, Next, NEW k \in Connection
  PROVE  reached[k] \subseteq reached'[k] \/ k \notin served'
  <1>1. CASE UNCHANGED reached
    BY <1>1
  <1>2. ASSUME NEW m \in wire, Receive(m) PROVE reached[k] \subseteq reached'[k]
    BY <1>2 DEF Typed, Request, Receive, Register, CancelJob
  <1>3. ASSUME NEW j \in Connection, Close(j) PROVE reached[k] \subseteq reached'[k] \/ k \notin served'
    BY <1>3 DEF Typed, Close
  <1>4. ASSUME NEW c \in Command, \/ Call(c) \/ Deny(c) \/ Exec(c) \/ Cancel(c) \/ Complete(c) \/ Thread(c)
                                  \/ TimeOut(c) \/ StartHelper(c) \/ Exit(c)
        PROVE  UNCHANGED reached
    BY <1>4 DEF Call, Deny, Exec, Cancel, Complete, Thread, Launch, Check, Escalate, Finish, TimeOut,
                StartHelper, Exit, history
  <1>5. ASSUME Prune \/ Leave \/ StopTasks \/ Lose \/ Renew \/ Connect PROVE UNCHANGED reached
    BY <1>5 DEF Prune, Leave, StopTasks, Lose, Renew, Connect, history
  <1> QED
    BY <1>1, <1>2, <1>3, <1>4, <1>5 DEF Next, Threads, Tasks, Reader

\* A forgotten cancellation stays forgotten.
LEMMA ForgottenStays ==
  ASSUME Typed, Order, Next, NEW d \in Command, Forgotten(d)
  PROVE  Forgotten(d)' \/ Waits(d)'
  <1>1. PICK k \in Connection : home[d] = k /\ Cardinality({e \in reached[k] : e > d}) >= Remembered
    BY DEF Forgotten
  <1>2. home'[d] = k /\ k # 0
    BY <1>1, ExcusedStays DEF Connection
  <1>3. CASE k \notin served'
    BY <1>2, <1>3 DEF Waits
  <1>4. CASE reached[k] \subseteq reached'[k]
    <2>1. reached'[k] \in SUBSET Command
      BY TypedStep DEF Typed
    <2>2. {e \in reached[k] : e > d} \in SUBSET {e \in reached'[k] : e > d}
      BY <1>4
    <2>3. {e \in reached'[k] : e > d} \in SUBSET Command
      BY <2>1
    <2>4. Cardinality({e \in reached[k] : e > d}) <= Cardinality({e \in reached'[k] : e > d})
      BY <2>2, <2>3, Smaller
    <2>5. Cardinality({e \in reached[k] : e > d}) \in Nat /\ Cardinality({e \in reached'[k] : e > d}) \in Nat
      BY <2>2, <2>3, Smaller
    <2>6. Cardinality({e \in reached'[k] : e > d}) >= Remembered
      BY <1>1, <2>4, <2>5, CommandsAssumption
    <2> QED
      BY <1>2, <2>6 DEF Forgotten
  <1> QED
    BY <1>3, <1>4, ReachedGrows

\* Nothing but its start takes a waiting cancellation away.
LEMMA WaitsApp ==
  ASSUME Typed, Order, NEW d \in Command, Waits(d),
         \/ Tasks \/ Leave \/ StopTasks \/ Lose \/ Renew \/ Connect
         \/ \E c \in Command : Call(c) \/ Exec(c) \/ Cancel(c) \/ TimeOut(c) \/ StartHelper(c) \/ Exit(c)
  PROVE  Waits(d)'
  <1> USE DEF Waits
  <1>1. flag' = flag /\ cancelled' = cancelled /\ wire \subseteq wire'
    BY DEF Tasks, Prune, Deny, Complete, Leave, StopTasks, Lose, Renew, Connect, Call, Exec, Refuse,
           Withdraw, Send, Cancel, TimeOut, StartHelper, Exit, server
  <1>2. thread'[d] = thread[d] \/ {thread[d], thread'[d]} \subseteq {"running", "stopping", "over"}
    BY DEF Typed, Tasks, Prune, Deny, Complete, Leave, StopTasks, Lose, Renew, Connect, Call, Exec, Refuse,
           Withdraw, Send, Cancel, TimeOut, StartHelper, Exit, server
  <1>3. Next /\ (home[d] # 0 => home'[d] = home[d])
           /\ (home[d] \notin served \cup {0} => home'[d] \notin served' \cup {0})
    <2>1. Next
      BY DEF Next, Tasks
    <2> QED
      BY <2>1, ExcusedStays
  <1>4. CASE home[d] = 0 /\ page[d] # "new" /\ (d \in waiting => d \in cancelled_jobs)
    <2>1. ASSUME NEW c \in Command, Exec(c)
          PROVE  home'[d] = 0 /\ page'[d] # "new" /\ (d \in waiting' => d \in cancelled_jobs')
      <3>1. waiting' = waiting \ {c} /\ cancelled_jobs \ {c} \subseteq cancelled_jobs'
        BY <2>1 DEF Exec, Refuse, Withdraw, Send
      <3>2. page'[d] # "new"
        BY <1>4, <2>1 DEF Typed, Exec, Refuse, Withdraw, Send, Settle
      <3>3. home'[d] = 0
        BY <1>4, <2>1 DEF Typed, Exec, Refuse, Withdraw, Send
      <3> QED
        BY <1>4, <3>1, <3>2, <3>3
    <2>2. ASSUME NEW c \in Command, \/ Call(c) \/ Deny(c) \/ Cancel(c) \/ Complete(c)
                                    \/ TimeOut(c) \/ StartHelper(c) \/ Exit(c)
          PROVE  home'[d] = 0 /\ page'[d] # "new" /\ (d \in waiting' => d \in cancelled_jobs')
      <3>1. home' = home /\ cancelled_jobs \subseteq cancelled_jobs'
        BY <2>2 DEF Call, Deny, Cancel, Complete, TimeOut, StartHelper, Exit, app
      <3>2. page'[d] # "new"
        BY <1>4, <2>2 DEF Typed, Call, Deny, Cancel, Complete, Settle, TimeOut, StartHelper, Exit
      <3>3. d \in waiting' => d \in waiting
        BY <1>4, <2>2 DEF Call, Deny, Cancel, Complete, TimeOut, StartHelper, Exit, app
      <3> QED
        BY <1>4, <3>1, <3>2, <3>3
    <2>3. ASSUME Prune \/ Leave \/ StopTasks \/ Lose \/ Renew \/ Connect
          PROVE  home'[d] = 0 /\ page'[d] # "new" /\ (d \in waiting' => d \in cancelled_jobs')
      BY <1>4, <2>3 DEF Typed, Prune, Leave, StopTasks, Lose, Renew, Connect, Settle, app
    <2> QED
      BY <2>1, <2>2, <2>3 DEF Tasks
  <1>5. CASE [k |-> "exec", job |-> d, to |-> home[d]] \in wire /\ d \in cancelled[home[d]]
    <2>1. home[d] \in Connection /\ home[d] # 0
      BY <1>5 DEF Typed, Request, Connection
    <2> QED
      BY <1>1, <1>3, <1>5, <2>1
  <1>6. CASE home[d] # 0 /\ thread[d] = "none" /\ \A m \in wire : m.k = "exec" => m.job # d
    <2>1. ASSUME NEW c \in Command, Exec(c), Send(c)
          PROVE  \A m \in wire' : m.k = "exec" => m.job # d
      <3>1. c > next /\ d <= next /\ d \in Nat /\ c \in Nat /\ next \in Nat
        BY <1>6, <2>1, CommandsAssumption DEF Typed, Order, Once, Send
      <3>2. c # d
        BY <3>1
      <3> QED
        BY <1>6, <2>1, <3>2 DEF Send
    <2>2. ASSUME NEW c \in Command, Exec(c), ~Send(c) PROVE wire' = wire
      BY <2>2 DEF Exec, Refuse, Withdraw
    <2>3. ASSUME NEW c \in Command, \/ Call(c) \/ Deny(c) \/ Complete(c) \/ TimeOut(c)
                                    \/ StartHelper(c) \/ Exit(c)
          PROVE  wire' = wire
      BY <2>3 DEF Call, Deny, Complete, TimeOut, StartHelper, Exit
    <2>4. \A S \in SUBSET Command : \A m \in Cancellations(S) : m.k = "cancel"
      BY CancellationsTyped DEF Typed
    <2>5. ASSUME NEW c \in Command, Cancel(c) PROVE \A m \in wire' : m \in wire \/ m.k = "cancel"
      BY <2>4, <2>5 DEF Cancel
    <2>6. ASSUME Prune PROVE \A m \in wire' : m \in wire \/ m.k = "cancel"
      <3>1. {c \in jobs : ~Live(c)} \in SUBSET Command
        BY DEF Typed
      <3> QED
        BY <2>4, <2>6, <3>1 DEF Prune
    <2>7. ASSUME StopTasks PROVE \A m \in wire' : m \in wire \/ m.k = "cancel"
      <3>1. jobs \in SUBSET Command
        BY DEF Typed
      <3> QED
        BY <2>4, <2>7, <3>1 DEF StopTasks
    <2>8. ASSUME Leave \/ Lose \/ Renew \/ Connect PROVE wire' = wire
      BY <2>8 DEF Leave, Lose, Renew, Connect
    <2>9. \A m \in wire' : m.k = "exec" => m.job # d
      BY <1>6, <2>1, <2>2, <2>3, <2>5, <2>6, <2>7, <2>8 DEF Tasks
    <2> QED
      BY <1>2, <1>3, <1>6, <2>9
  <1> QED
    BY <1>1, <1>2, <1>3, <1>4, <1>5, <1>6

LEMMA WaitsServer ==
  ASSUME Typed, Order, Held, NEW d \in early, Waits(d), Threads \/ Reader
  PROVE  Forgotten(d)' \/ Waits(d)' \/ d \notin early'
  <1>0. d \in Command
    BY DEF Typed
  <1>1. /\ home[d] # 0 => home'[d] = home[d]
        /\ home[d] \notin served \cup {0} => home'[d] \notin served' \cup {0}
    BY <1>0, ExcusedStays DEF Next
  <1>2. UNCHANGED <<page, waiting, cancelled_jobs, home>> /\ wire' \subseteq wire
    BY DEF Threads, Thread, Launch, Check, Escalate, Finish, Reader, Receive, Close, app
  <1>3. ASSUME NEW c \in Command, Thread(c) PROVE Waits(d)' \/ d \notin early'
    <2>1. UNCHANGED <<cancelled, wire, served>>
      BY <1>3 DEF Thread, Launch, Check, Escalate, Finish, link, server
    <2>2. c # d => thread'[d] = thread[d] /\ (d \in flag => d \in flag')
      BY <1>0, <1>3 DEF Typed, Thread, Launch, Check, Escalate, Finish, End, server
    <2>3. c = d => d \notin early' \/ thread'[d] \in {"running", "stopping", "over"}
      BY <1>0, <1>3 DEF Typed, Thread, Launch, Check, Escalate, Finish, End, server
    <2> QED
      BY <1>2, <2>1, <2>2, <2>3 DEF Waits
  <1>4. ASSUME NEW k \in Connection, Close(k) PROVE Waits(d)'
    <2>1. thread' = thread /\ flag \subseteq flag'
      BY <1>4 DEF Close
    <2>2. CASE home[d] = k
      BY <1>2, <1>4, <2>2 DEF Waits, Close, Connection
    <2>3. CASE home[d] # k
      <3>1. [k |-> "exec", job |-> d, to |-> home[d]] \in wire => [k |-> "exec", job |-> d, to |-> home[d]] \in wire'
        BY <1>4, <2>3 DEF Close
      <3>2. [k |-> "exec", job |-> d, to |-> home[d]] \in wire => home[d] \in Connection
        BY DEF Typed, Request
      <3>3. home[d] \in Connection => cancelled'[home[d]] = cancelled[home[d]]
        BY <1>4, <2>3 DEF Typed, Close
      <3> QED
        BY <1>1, <1>2, <2>1, <3>1, <3>2, <3>3 DEF Waits
    <2> QED
      BY <2>2, <2>3
  <1>5. ASSUME NEW m \in wire, Receive(m) PROVE Forgotten(d)' \/ Waits(d)'
    <2>0. m.job \in Command /\ m.to \in Connection /\ m.to # 0
      BY DEF Typed, Request, Connection
    <2>1. wire' = wire \ {m} /\ served' = served
      BY <1>5 DEF Receive, link
    <2>2. CASE m.k = "exec" /\ m.job = d
      <3>1. home[d] = m.to /\ thread[d] = "none"
        BY <2>2 DEF Order, Sent
      <3>2. \A n \in wire' : n.k = "exec" => n.job # d
        BY <2>1, <2>2 DEF Typed, Order, Sent, Request
      <3>3. CASE thread' = thread
        BY <1>2, <2>0, <3>1, <3>2, <3>3 DEF Waits
      <3>4. CASE thread' # thread
        <4>1. thread'[d] = "registered" /\ (d \in cancelled[m.to] => d \in flag')
          BY <1>0, <1>5, <2>2, <3>4 DEF Typed, Receive, Register
        <4>2. d \in cancelled[m.to] \/ home[d] \notin served \cup {0}
          BY <2>0, <2>2, <3>1 DEF Waits
        <4> QED
          BY <1>1, <4>1, <4>2 DEF Waits
      <3> QED
        BY <3>3, <3>4
    <2>3. CASE m.k = "exec" /\ m.job # d
      <3>1. thread'[d] = thread[d] /\ flag \subseteq flag'
        BY <1>0, <1>5, <2>0, <2>3 DEF Typed, Receive, Register
      <3>2. \A k \in Connection : d \in cancelled[k] => d \in cancelled'[k]
        BY <1>5, <2>0, <2>3 DEF Typed, Receive, Register
      <3>3. [k |-> "exec", job |-> d, to |-> home[d]] \in wire =>
              home[d] \in Connection /\ [k |-> "exec", job |-> d, to |-> home[d]] \in wire'
        BY <2>1, <2>3 DEF Typed, Request
      <3> QED
        BY <1>1, <1>2, <3>1, <3>2, <3>3 DEF Waits
    <2>4. CASE m.k # "exec"
      <3>1. thread' = thread /\ flag \subseteq flag'
        BY <1>5, <2>4 DEF Receive, CancelJob
      <3>2. [k |-> "exec", job |-> d, to |-> home[d]] \in wire =>
              home[d] \in Connection /\ [k |-> "exec", job |-> d, to |-> home[d]] \in wire'
        BY <2>1, <2>4 DEF Typed, Request
      <3>3. ASSUME home[d] \in Connection, d \in cancelled[home[d]], d \notin cancelled'[home[d]]
            PROVE  Forgotten(d)'
        <4> DEFINE S == cancelled[home[d]] \cup {m.job}
        <4>1. home[d] = m.to /\ cancelled'[home[d]] = Remember(S) /\ reached'[home[d]] = reached[home[d]] \cup {m.job}
          <5>1. /\ cancelled' = [cancelled EXCEPT ![m.to] = Remember(cancelled[m.to] \cup {m.job})]
                /\ reached' = [reached EXCEPT ![m.to] = reached[m.to] \cup {m.job}]
            BY <1>5, <2>4, <3>3 DEF Receive, CancelJob
          <5>2. home[d] = m.to
            BY <3>3, <5>1 DEF Typed
          <5> QED
            BY <2>0, <5>1, <5>2 DEF Typed
        <4>2. S \in SUBSET Command /\ d \in S /\ S \subseteq reached'[home[d]]
          BY <2>0, <3>3, <4>1 DEF Typed, Held
        <4>3. Cardinality({e \in S : e > d}) >= Remembered
          BY <3>3, <4>1, <4>2, RememberForgets
        <4>4. reached'[home[d]] \in SUBSET Command
          BY <2>0, <3>3, <4>1 DEF Typed
        <4> HIDE DEF S
        <4>5. {e \in S : e > d} \in SUBSET {e \in reached'[home[d]] : e > d}
          BY <4>2
        <4>6. {e \in reached'[home[d]] : e > d} \in SUBSET Command
          BY <4>4
        <4>7. /\ Cardinality({e \in S : e > d}) \in Nat /\ Cardinality({e \in reached'[home[d]] : e > d}) \in Nat
              /\ Cardinality({e \in S : e > d}) <= Cardinality({e \in reached'[home[d]] : e > d})
          BY <4>5, <4>6, Smaller
        <4>8. Cardinality({e \in reached'[home[d]] : e > d}) >= Remembered
          BY <4>3, <4>7, CommandsAssumption
        <4> QED
          BY <1>2, <3>3, <4>8 DEF Forgotten
      <3> QED
        BY <1>1, <1>2, <2>1, <3>1, <3>2, <3>3 DEF Waits
    <2> QED
      BY <2>2, <2>3, <2>4
  <1> QED
    BY <1>3, <1>4, <1>5 DEF Threads, Reader

\* A cancellation that comes first waits where its command will find it.
LEMMA EarlyWaits ==
  ASSUME Typed, Order, Held, Next, NEW d \in early', d \notin early
  PROVE  Forgotten(d)' \/ Waits(d)'
  <1>1. ASSUME NEW c \in Command, Cancel(c) PROVE Waits(d)'
    <2>1. d = c /\ c \in waiting /\ cancelled_jobs' = cancelled_jobs \cup {c} /\ home' = home /\ page' = page
      BY <1>1 DEF Cancel
    <2>2. home[d] = 0 /\ page[d] # "new"
      BY <1>1, <2>1 DEF Order, Once, Cancel
    <2> QED
      BY <2>1, <2>2 DEF Waits
  <1>2. ASSUME NEW m \in wire, Receive(m) PROVE Forgotten(d)' \/ Waits(d)'
    <2>1. m.k # "exec" /\ m.job = d /\ [k |-> "exec", job |-> d, to |-> m.to] \in wire
      BY <1>2 DEF Receive, Register, CancelJob
    <2>2. d \in Command /\ m.to \in Connection /\ home[d] = m.to
      BY <2>1 DEF Typed, Request, Order, Sent
    <2>3. [k |-> "exec", job |-> d, to |-> m.to] \in wire' /\ home' = home
      BY <1>2, <2>1 DEF Receive
    <2> DEFINE S == cancelled[m.to] \cup {d}
    <2>4. cancelled'[m.to] = Remember(S) /\ reached'[m.to] = reached[m.to] \cup {d}
      BY <1>2, <2>1, <2>2 DEF Typed, Receive, CancelJob
    <2>5. S \in SUBSET Command /\ d \in S /\ S \subseteq reached'[m.to] /\ reached'[m.to] \in SUBSET Command
      BY <2>2, <2>4 DEF Typed, Held
    <2>6. CASE d \in Remember(S)
      BY <2>2, <2>3, <2>4, <2>6 DEF Waits
    <2>7. CASE d \notin Remember(S)
      <3>1. Cardinality({e \in S : e > d}) >= Remembered
        BY <2>5, <2>7, RememberForgets
      <3> HIDE DEF S
      <3>2. {e \in S : e > d} \in SUBSET {e \in reached'[m.to] : e > d}
        BY <2>5
      <3>3. {e \in reached'[m.to] : e > d} \in SUBSET Command
        BY <2>5
      <3>4. /\ Cardinality({e \in S : e > d}) \in Nat /\ Cardinality({e \in reached'[m.to] : e > d}) \in Nat
            /\ Cardinality({e \in S : e > d}) <= Cardinality({e \in reached'[m.to] : e > d})
        BY <3>2, <3>3, Smaller
      <3>5. Cardinality({e \in reached'[m.to] : e > d}) >= Remembered
        BY <3>1, <3>4, CommandsAssumption
      <3> QED
        BY <2>2, <2>3, <3>5 DEF Forgotten
    <2> QED
      BY <2>6, <2>7
  <1>3. ASSUME NEW c \in Command, \/ Call(c) \/ Deny(c) \/ Exec(c) \/ Complete(c) \/ Thread(c)
                                  \/ TimeOut(c) \/ StartHelper(c) \/ Exit(c)
        PROVE  early' \subseteq early
    BY <1>3 DEF Call, Deny, Exec, Complete, Thread, Launch, Check, Escalate, Finish, TimeOut, StartHelper, Exit, history
  <1>4. ASSUME Prune \/ Leave \/ StopTasks \/ Lose \/ Renew \/ Connect \/ \E k \in Connection : Close(k)
        PROVE  early' \subseteq early
    BY <1>4 DEF Prune, Leave, StopTasks, Lose, Renew, Connect, Close, history
  <1> QED
    BY <1>1, <1>2, <1>3, <1>4 DEF Next, Threads, Tasks, Reader

LEMMA HeldStep == ASSUME Typed, Order, Held, [Next]_vars PROVE Held'
  <1>1. CASE UNCHANGED vars
    BY <1>1 DEF Held, Forgotten, Waits, vars, app, link, server, history
  <1>2. CASE Next
    <2>1. \A k \in Connection : cancelled'[k] \subseteq reached'[k]
      <3>1. ASSUME NEW m \in wire, Receive(m), NEW k \in Connection PROVE cancelled'[k] \subseteq reached'[k]
        BY <3>1 DEF Typed, Request, Held, Receive, Register, CancelJob, Remember
      <3>2. ASSUME NEW j \in Connection, Close(j), NEW k \in Connection PROVE cancelled'[k] \subseteq reached'[k]
        BY <3>2 DEF Typed, Held, Close
      <3>3. ASSUME NEW c \in Command, \/ Call(c) \/ Deny(c) \/ Exec(c) \/ Cancel(c) \/ Complete(c) \/ Thread(c)
                                      \/ TimeOut(c) \/ StartHelper(c) \/ Exit(c)
            PROVE  UNCHANGED <<cancelled, reached>>
        BY <3>3 DEF Call, Deny, Exec, Cancel, Complete, Thread, Launch, Check, Escalate, Finish, TimeOut,
                    StartHelper, Exit, server, history
      <3>4. ASSUME Prune \/ Leave \/ StopTasks \/ Lose \/ Renew \/ Connect PROVE UNCHANGED <<cancelled, reached>>
        BY <3>4 DEF Prune, Leave, StopTasks, Lose, Renew, Connect, server, history
      <3> QED
        BY <1>2, <3>1, <3>2, <3>3, <3>4 DEF Next, Threads, Tasks, Reader, Held
    <2>2. ASSUME NEW d \in early' PROVE Forgotten(d)' \/ Waits(d)'
      <3>1. CASE d \notin early
        BY <1>2, <3>1, EarlyWaits
      <3>2. CASE d \in early /\ Forgotten(d)
        BY <1>2, <3>2, ForgottenStays DEF Typed
      <3>3. CASE d \in early /\ Waits(d)
        BY <1>2, <3>3, WaitsApp, WaitsServer DEF Next, Typed
      <3> QED
        BY <3>1, <3>2, <3>3 DEF Held
    <2> QED
      BY <2>1, <2>2 DEF Held
  <1> QED
    BY <1>1, <1>2

-----------------------------------------------------------------------------

LEMMA InvInit == Init => Inv
  <1> SUFFICES ASSUME Init PROVE Inv
    OBVIOUS
  <1>1. Order
    BY CommandsAssumption DEF Init, Order, Once, Serving
  <1>2. Over /\ Asked /\ Held
    BY DEF Init, Over, Asked, Held
  <1> QED
    BY <1>1, <1>2, TypedInit DEF Inv

LEMMA InvStep == Inv /\ [Next]_vars => Inv'
  BY TypedStep, OrderStep, OverStep, AskedStep, HeldStep DEF Inv

\* The state keeps its types, and no more jobs than the limit are in the app's table
\* (extension_exec, calls.rs).
THEOREM TypeCorrect == Spec => []TypeOK
  <1>1. Typed => TypeOK
    BY DEF Typed, TypeOK
  <1> QED
    BY <1>1, TypedInit, TypedStep, PTL DEF Spec

\* A page that is told a result or a cancellation can rely on it: what a command left
\* in its group is killed before its thread answers (Running::wait, process.rs), and
\* only what was cancelled says so (cancelled, exec.rs).
THEOREM AnswersHold == Spec => []AnswersAreTrue
  <1>1. Inv => AnswersAreTrue
    <2> SUFFICES ASSUME Inv, NEW c \in Command PROVE /\ page[c] \in {"result", "cancelled"} => Quiet(c)
                                                     /\ page[c] = "cancelled" => c \in asked
      BY DEF AnswersAreTrue
    <2>1. Done(c) => Quiet(c)
      <3>1. Done(c) => thread[c] \in {"none", "over"}
        BY DEF Inv, Order, Once, Done
      <3>2. thread[c] \in {"none", "over"} => c \notin alive \cup helpers /\ thread[c] # "registered"
        BY DEF Inv, Order, Once
      <3>3. ASSUME Done(c), NEW m \in wire, m.k = "exec" PROVE m.job # c
        BY <3>3 DEF Inv, Typed, Request, Connection, Order, Sent, Done
      <3> QED
        BY <3>1, <3>2, <3>3 DEF Quiet
    <2> QED
      BY <2>1 DEF Inv, Over, Asked
  <1> QED
    BY <1>1, InvInit, InvStep, PTL DEF Spec

\* A cancellation that comes before its command holds, unless so many later ones came
\* first that it is forgotten (cancel and register, exec.rs; extension_exec, calls.rs).
THEOREM CancellationsHold == Spec => CancelHolds
  <1>1. Inv /\ [Next]_vars => [\A c \in (alive' \ alive) \cap early : Forgotten(c)]_vars
    <2> SUFFICES ASSUME Inv, Next, NEW c \in (alive' \ alive) \cap early PROVE Forgotten(c)
      OBVIOUS
    <2>1. Launch(c) /\ ~Stopped(c)
      <3>1. ASSUME NEW d \in Command, \/ Call(d) \/ Deny(d) \/ Exec(d) \/ Cancel(d) \/ Complete(d) \/ Check(d)
                                      \/ Escalate(d) \/ Finish(d) \/ TimeOut(d) \/ StartHelper(d) \/ Exit(d)
            PROVE  alive' \subseteq alive
        BY <3>1 DEF Call, Deny, Exec, Cancel, Complete, Check, Escalate, Finish, TimeOut, StartHelper, Exit, processes
      <3>2. ASSUME Prune \/ Leave \/ StopTasks \/ Lose \/ Renew \/ Connect \/ Reader PROVE alive' \subseteq alive
        BY <3>2 DEF Prune, Leave, StopTasks, Lose, Renew, Connect, Reader, Receive, Close, processes
      <3>3. PICK d \in Command : Launch(d)
        BY <3>1, <3>2 DEF Next, Threads, Thread, Tasks
      <3> QED
        BY <3>3 DEF Launch
    <2>2. thread[c] = "registered" /\ c \notin flag /\ home[c] \in served
      BY <2>1 DEF Launch, Stopped
    <2>3. c \in Command
      BY DEF Inv, Typed
    <2>4. ~Waits(c)
      BY <2>2, <2>3 DEF Waits, Inv, Order, Once, Sent
    <2> QED
      BY <2>4 DEF Inv, Held
  <1> QED
    BY <1>1, InvInit, InvStep, PTL DEF Spec, CancelHolds
=============================================================================
