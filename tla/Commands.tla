------------------------------- MODULE Commands -------------------------------
(***************************************************************************)
(* The commands that an extension's page runs on its project's server:     *)
(* the page's promises (extensions/bridge.js), the app's table of jobs     *)
(* (model/extensions), the requests between app and server, the server's   *)
(* jobs (exec.rs) and the processes they start (muxy-core process.rs).     *)
(*                                                                         *)
(* One extension and one project on another computer.  The consent prompt, *)
(* the page, the local server and the connection may each end while a      *)
(* command is asked about, sent, started, running or answered.  Requests   *)
(* are sent by tasks of their own, so a command and its cancellation may   *)
(* come in either order.                                                   *)
(*                                                                         *)
(* A command is named by its job number: the app counts upwards when it    *)
(* runs one.  The app's own limit of a request comes 10 s after the        *)
(* server's and is left out.                                               *)
(***************************************************************************)
EXTENDS Integers, FiniteSets

CONSTANTS
  Command,         \* job numbers
  Limit,           \* commands at once, for the app and for the server (32)
  Remembered,      \* cancellations the server keeps for commands yet to come (128)
  Kept,            \* cancellations the app keeps (128)
  MaxConnections,  \* bound: connections of the app
  Forking,         \* the commands that start other processes
  MaxLosses,       \* bound: connections lost or renewed
  MaxStops         \* bound: pages left and runtimes stopped

ASSUME CommandsAssumption ==
  /\ Command \subseteq Nat \ {0} /\ IsFiniteSet(Command)
  /\ Limit \in Nat \ {0} /\ Remembered \in Nat /\ Kept \in Nat
  /\ MaxConnections \in Nat \ {0} /\ MaxLosses \in Nat /\ MaxStops \in Nat

VARIABLES
  page,             \* the page's promise of each command
  waiting,          \* calls that wait for consent
  jobs, tasks,      \* the app's table of jobs, and the futures that wait for an answer
  cancelled_jobs,   \* cancellations of commands the app has no job of
  expired,          \* calls of an earlier page or runtime
  outdated,         \* calls of an earlier generation of the server
  next,             \* the highest job number used
  client, latest,   \* the connection the app has (0: none), and the latest it had
  answer,           \* what each future was resolved with
  home,             \* the connection each command was sent on (0: not sent)
  wire,             \* requests on their way to the server
  served,           \* connections the server still serves
  thread,           \* the server's thread of each command
  flag,             \* commands that were told to stop
  cancelled,        \* per connection: cancellations that came before their command
  alive, helpers,   \* processes: leaders of a group, and groups with others in it
  stopped,          \* commands that are stopped because they were cancelled
  asked,            \* history: cancellations the app took from the page
  early,            \* history: commands whose cancellation came before them
  reached,          \* history: per connection, cancellations that found no command
  losses, stops     \* the bounded ones so far

app    == <<waiting, jobs, tasks, cancelled_jobs, expired, outdated, next>>
link   == <<client, latest, served>>
server == <<thread, flag, cancelled, stopped>>
processes == <<alive, helpers>>
history == <<asked, early, reached>>
troubles == <<losses, stops>>
vars == <<page, app, link, answer, home, wire, server, processes, history, troubles>>

Connection == 1 .. MaxConnections
Request == [k : {"exec", "cancel"}, job : Command, to : Connection]

Init ==
  /\ page = [c \in Command |-> "new"]
  /\ waiting = {} /\ jobs = {} /\ tasks = {} /\ cancelled_jobs = {}
  /\ expired = {} /\ outdated = {} /\ next = 0
  /\ client = 1 /\ latest = 1 /\ served = {1}
  /\ answer = [c \in Command |-> "none"] /\ home = [c \in Command |-> 0] /\ wire = {}
  /\ thread = [c \in Command |-> "none"] /\ flag = {}
  /\ cancelled = [k \in Connection |-> {}] /\ stopped = {}
  /\ alive = {} /\ helpers = {}
  /\ asked = {} /\ early = {} /\ reached = [k \in Connection |-> {}]
  /\ losses = 0 /\ stops = 0

-----------------------------------------------------------------------------
(* The page and the app *)

\* The promises of the commands in `S` that are still pending settle with `how`.
Settle(S, how) == page' = [c \in Command |-> IF c \in S /\ page[c] = "pending" THEN how ELSE page[c]]

Live(c) == c \notin expired \cup outdated
UnderWay == waiting \cup tasks

\* Cancellations of `S` are sent on the connection there is.
Cancellations(S) == IF client = 0 THEN {} ELSE {[k |-> "cancel", job |-> c, to |-> client] : c \in S}

\* execAsync: the call comes to the app and waits for the user's consent.
Call(c) ==
  /\ page[c] = "new"
  /\ page' = [page EXCEPT ![c] = "pending"]
  /\ waiting' = waiting \cup {c}
  /\ UNCHANGED <<jobs, tasks, cancelled_jobs, expired, outdated, next, link, answer, home, wire,
                 server, processes, history, troubles>>

\* The user refuses, the prompt times out, or the call is no longer live.
Deny(c) ==
  /\ c \in waiting
  /\ waiting' = waiting \ {c}
  /\ Settle({c}, "error")
  /\ UNCHANGED <<jobs, tasks, cancelled_jobs, expired, outdated, next, link, answer, home, wire,
                 server, processes, history, troubles>>

\* A command that was cancelled while the user was asked is not run.
Withdraw(c) ==
  /\ c \in cancelled_jobs
  /\ cancelled_jobs' = cancelled_jobs \ {c}
  /\ Settle({c}, "cancelled")
  /\ UNCHANGED <<jobs, tasks, home, wire, next>>

Refuse(c) ==
  /\ client = 0 \/ (c \notin cancelled_jobs /\ Cardinality(jobs) >= Limit)
  /\ Settle({c}, "error")
  /\ UNCHANGED <<jobs, tasks, home, wire, next, cancelled_jobs>>

\* Mutant of Send: one command more than the limit is sent.
SendOneMore(c) ==
  /\ c \notin cancelled_jobs /\ Cardinality(jobs) <= Limit
  /\ c > next /\ next' = c
  /\ jobs' = jobs \cup {c} /\ tasks' = tasks \cup {c}
  /\ home' = [home EXCEPT ![c] = client]
  /\ wire' = wire \cup {[k |-> "exec", job |-> c, to |-> client]}
  /\ UNCHANGED <<page, cancelled_jobs>>

Send(c) ==
  /\ c \notin cancelled_jobs /\ Cardinality(jobs) < Limit
  /\ c > next /\ next' = c
  /\ jobs' = jobs \cup {c} /\ tasks' = tasks \cup {c}
  /\ home' = [home EXCEPT ![c] = client]
  /\ wire' = wire \cup {[k |-> "exec", job |-> c, to |-> client]}
  /\ UNCHANGED <<page, cancelled_jobs>>

\* The user consents while the call is live.
Exec(c) ==
  /\ c \in waiting /\ Live(c)
  /\ waiting' = waiting \ {c}
  /\ Refuse(c) \/ (client # 0 /\ (Withdraw(c) \/ Send(c)))
  /\ UNCHANGED <<expired, outdated, link, answer, server, processes, history, troubles>>

\* The page cancels a pending command.  Once more changes nothing.
Cancel(c) ==
  /\ page[c] = "pending" /\ c \notin asked
  /\ asked' = asked \cup {c}
  /\ IF c \in jobs /\ client # 0
     THEN /\ wire' = wire \cup Cancellations({c})
          /\ UNCHANGED <<cancelled_jobs, early>>
     ELSE /\ Cardinality(cancelled_jobs) < Kept
          /\ cancelled_jobs' = cancelled_jobs \cup {c}
          /\ early' = IF c \in waiting THEN early \cup {c} ELSE early
          /\ UNCHANGED wire
  /\ UNCHANGED <<page, waiting, jobs, tasks, expired, outdated, next, link, answer, home, server,
                 processes, reached, troubles>>

\* A future is resolved: the page is told, if the call is still live.
Complete(c) ==
  /\ c \in tasks /\ answer[c] # "none"
  /\ tasks' = tasks \ {c} /\ jobs' = jobs \ {c}
  /\ answer' = [answer EXCEPT ![c] = "none"]
  /\ IF Live(c) THEN Settle({c}, answer[c]) ELSE UNCHANGED page
  /\ UNCHANGED <<waiting, cancelled_jobs, expired, outdated, next, link, home, wire, server,
                 processes, history, troubles>>

\* Mutant of Prune: the jobs are forgotten and run on.
PruneSilently ==
  LET gone == {c \in jobs : ~Live(c)} IN
    /\ gone # {}
    /\ jobs' = jobs \ gone
    /\ UNCHANGED <<page, waiting, tasks, cancelled_jobs, expired, outdated, next, link, answer, home,
                   wire, server, processes, history, troubles>>

\* The jobs of calls that are no longer live are cancelled.
Prune ==
  LET gone == {c \in jobs : ~Live(c)} IN
    /\ gone # {}
    /\ jobs' = jobs \ gone
    /\ wire' = wire \cup Cancellations(gone)
    /\ UNCHANGED <<page, waiting, tasks, cancelled_jobs, expired, outdated, next, link, answer, home,
                   server, processes, history, troubles>>

Ending == stops < MaxStops /\ stops' = stops + 1 /\ UNCHANGED losses

\* The page closes or loads another document.
Leave ==
  /\ Ending
  /\ Settle(Command, "gone")
  /\ expired' = expired \cup UnderWay
  /\ UNCHANGED <<waiting, jobs, tasks, cancelled_jobs, outdated, next, link, answer, home, wire,
                 server, processes, history>>

\* The local server's connection ended or extensions were stopped: everything in
\* flight is, on every server.
StopTasks ==
  /\ Ending
  /\ Settle(waiting \cup jobs, "error")
  /\ waiting' = {} /\ jobs' = {} /\ cancelled_jobs' = {}
  /\ expired' = expired \cup UnderWay
  /\ wire' = wire \cup Cancellations(jobs)
  /\ UNCHANGED <<tasks, outdated, next, link, answer, home, server, processes, history>>

-----------------------------------------------------------------------------
(* The connection *)

Losing == losses < MaxLosses /\ losses' = losses + 1 /\ UNCHANGED stops

\* The app's end closes, and futures without an answer fail.
Hangup ==
  /\ client' = 0
  /\ answer' = [c \in Command |-> IF c \in tasks /\ answer[c] = "none" THEN "error" ELSE answer[c]]
  /\ UNCHANGED <<latest, served>>

Lose ==
  /\ Losing
  /\ client # 0 /\ Hangup
  /\ UNCHANGED <<page, app, home, wire, server, processes, history>>

\* The user reconnects the server, or its connection is renewed after a loss: the
\* calls of the earlier generation are outdated before their futures are heard.
Renew ==
  /\ Losing
  /\ IF client = 0 THEN UNCHANGED <<link, answer>> ELSE Hangup
  /\ outdated' = outdated \cup UnderWay
  /\ UNCHANGED <<page, waiting, jobs, tasks, cancelled_jobs, expired, next, home, wire, server,
                 processes, history>>

Connect ==
  /\ client = 0 /\ latest < MaxConnections
  /\ client' = latest + 1 /\ latest' = latest + 1 /\ served' = served \cup {latest + 1}
  /\ UNCHANGED <<page, app, answer, home, wire, server, processes, history, troubles>>

-----------------------------------------------------------------------------
(* The server *)

Active(k) == {c \in Command : home[c] = k /\ thread[c] \in {"registered", "running", "stopping"}}

\* The answer reaches the app while its connection lasts.
Reply(c, body) ==
  answer' = IF home[c] = client THEN [answer EXCEPT ![c] = body] ELSE answer

\* The server sees that a connection is closed and drops its jobs, which tells them
\* to stop.
Close(k) ==
  /\ k \in served /\ k # client
  /\ served' = served \ {k}
  /\ flag' = flag \cup Active(k)
  /\ cancelled' = [cancelled EXCEPT ![k] = {}] /\ reached' = [reached EXCEPT ![k] = {}]
  /\ wire' = {m \in wire : m.to # k}
  /\ UNCHANGED <<page, app, client, latest, answer, home, thread, stopped, processes, asked, early,
                 troubles>>

Register(c, k) ==
  /\ IF Cardinality(Active(k)) >= Limit
     THEN Reply(c, "error") /\ UNCHANGED <<thread, flag, cancelled>>
     ELSE /\ thread' = [thread EXCEPT ![c] = "registered"]
          /\ flag' = IF c \in cancelled[k] THEN flag \cup {c} ELSE flag
          /\ cancelled' = [cancelled EXCEPT ![k] = @ \ {c}]
          /\ UNCHANGED answer
  /\ UNCHANGED <<early, reached>>

\* Mutant of Remember: the one of the highest number goes.
RememberFirst(S) ==
  IF Cardinality(S) > Remembered THEN {c \in S : \E d \in S : c < d} ELSE S

\* At most so many cancellations are remembered: the one of the lowest number goes.
Remember(S) ==
  IF Cardinality(S) > Remembered THEN {c \in S : \E d \in S : d < c} ELSE S

CancelJob(c, k) ==
  /\ IF c \in Active(k)
     THEN flag' = flag \cup {c} /\ UNCHANGED <<cancelled, early, reached>>
     ELSE /\ cancelled' = [cancelled EXCEPT ![k] = Remember(@ \cup {c})]
          /\ reached' = [reached EXCEPT ![k] = @ \cup {c}]
          /\ early' = IF [k |-> "exec", job |-> c, to |-> k] \in wire THEN early \cup {c} ELSE early
          /\ UNCHANGED flag
  /\ UNCHANGED <<thread, answer>>

Receive(m) ==
  /\ m \in wire /\ m.to \in served
  /\ wire' = wire \ {m}
  /\ IF m.k = "exec" THEN Register(m.job, m.to) ELSE CancelJob(m.job, m.to)
  /\ UNCHANGED <<page, app, link, home, stopped, processes, asked, troubles>>

\* The thread forgets the command and answers.
End(c, body) ==
  /\ thread' = [thread EXCEPT ![c] = "over"]
  /\ flag' = flag \ {c} /\ stopped' = stopped \ {c}
  /\ Reply(c, body)

Stopped(c) == c \in flag \/ home[c] \notin served

\* The thread starts the command, unless it was told to stop or cannot.
Launch(c) ==
  /\ thread[c] = "registered"
  /\ \/ /\ Stopped(c)
        /\ End(c, "cancelled")
        /\ UNCHANGED alive
     \/ /\ ~Stopped(c)
        /\ End(c, "error")
        /\ UNCHANGED alive
     \/ /\ ~Stopped(c)
        /\ thread' = [thread EXCEPT ![c] = "running"]
        /\ alive' = alive \cup {c}
        /\ UNCHANGED <<answer, flag, stopped>>
  /\ early' = early \ {c}
  /\ UNCHANGED <<page, app, link, home, wire, cancelled, helpers, asked, reached, troubles>>

\* The waiting thread looks whether to stop, every 25 ms, and sends TERM.
Check(c) ==
  /\ thread[c] = "running" /\ Stopped(c)
  /\ thread' = [thread EXCEPT ![c] = "stopping"]
  /\ stopped' = stopped \cup {c}
  /\ UNCHANGED <<page, app, link, answer, home, wire, flag, cancelled, processes, history, troubles>>

\* The command's own time limit.
TimeOut(c) ==
  /\ thread[c] = "running" /\ ~Stopped(c)
  /\ thread' = [thread EXCEPT ![c] = "stopping"]
  /\ UNCHANGED <<page, app, link, answer, home, wire, flag, cancelled, stopped, processes, history,
                 troubles>>

\* KILL for the group, once the grace period is over.
Escalate(c) ==
  /\ thread[c] = "stopping" /\ c \in alive
  /\ alive' = alive \ {c} /\ helpers' = helpers \ {c}
  /\ UNCHANGED <<page, app, link, answer, home, wire, server, history, troubles>>

\* Mutant of Finish: what the command left in its group is not killed.
FinishAlone(c) ==
  /\ thread[c] \in {"running", "stopping"} /\ c \notin alive
  /\ End(c, IF c \in stopped THEN "cancelled" ELSE "result")
  /\ UNCHANGED <<page, app, link, home, wire, cancelled, processes, history, troubles>>

\* The thread sees that the command ended, kills what it left in its group, reads
\* what is left of its output and answers.
Finish(c) ==
  /\ thread[c] \in {"running", "stopping"} /\ c \notin alive
  /\ helpers' = helpers \ {c}
  /\ End(c, IF c \in stopped THEN "cancelled" ELSE "result")
  /\ UNCHANGED <<page, app, link, home, wire, cancelled, alive, history, troubles>>

-----------------------------------------------------------------------------
(* The processes *)

\* The command starts another process in its group.
StartHelper(c) ==
  /\ c \in Forking /\ c \in alive \ helpers
  /\ helpers' = helpers \cup {c}
  /\ UNCHANGED <<page, app, link, answer, home, wire, server, alive, history, troubles>>

\* The command ends, by itself or on TERM.
Exit(c) ==
  /\ c \in alive
  /\ alive' = alive \ {c}
  /\ UNCHANGED <<page, app, link, answer, home, wire, server, helpers, history, troubles>>

-----------------------------------------------------------------------------

Thread(c) == Launch(c) \/ Check(c) \/ Escalate(c) \/ Finish(c)

Threads == \E c \in Command : Thread(c)
Tasks   == Prune \/ \E c \in Command : Complete(c) \/ Deny(c)
Reader  == (\E m \in wire : Receive(m)) \/ \E k \in Connection : Close(k)

Next ==
  \/ \E c \in Command :
       Call(c) \/ Exec(c) \/ Cancel(c) \/ TimeOut(c) \/ StartHelper(c) \/ Exit(c)
  \/ Threads \/ Tasks \/ Reader
  \/ Leave \/ StopTasks \/ Lose \/ Renew \/ Connect

Spec == Init /\ [][Next]_vars

\* Threads, the app's tasks and the server's readers go on, and prompts expire; there
\* is an end to what each has to do, so none of it waits for ever.  Nothing makes a
\* command end by itself, and its own time limit is not counted on.
Fairness == WF_vars(Threads) /\ WF_vars(Tasks) /\ WF_vars(Reader)

FairSpec == Spec /\ Fairness

-----------------------------------------------------------------------------
(* Properties *)

\* Type invariant.
TypeOK ==
  /\ page \in [Command -> {"new", "pending", "result", "cancelled", "error", "gone"}]
  /\ UNION {waiting, jobs, tasks, cancelled_jobs, expired, outdated} \subseteq Command
  /\ jobs \subseteq tasks /\ Cardinality(jobs) <= Limit
  /\ next \in Command \cup {0} /\ latest \in Connection /\ client \in {0, latest}
  /\ answer \in [Command -> {"none", "result", "cancelled", "error"}]
  /\ home \in [Command -> Connection \cup {0}] /\ wire \subseteq Request
  /\ served \subseteq Connection
  /\ thread \in [Command -> {"none", "registered", "running", "stopping", "over"}]
  /\ UNION {flag, alive, helpers, stopped, asked, early} \subseteq Command
  /\ cancelled \in [Connection -> SUBSET Command] /\ reached \in [Connection -> SUBSET Command]
  /\ losses \in 0 .. MaxLosses /\ stops \in 0 .. MaxStops

\* The command has no process and gets none any more.
Quiet(c) ==
  /\ c \notin alive \cup helpers
  /\ thread[c] # "registered"
  /\ \A m \in wire : m.k = "exec" => m.job # c

\* So many later commands were cancelled first that the server may have forgotten
\* the cancellation of this one.
Forgotten(c) ==
  \E k \in Connection : home[c] = k /\ Cardinality({d \in reached[k] : d > c}) >= Remembered

\* A command whose cancellation came first, while the user was asked or to the server,
\* is never started, unless it is forgotten ("Cancellation may arrive before the
\* background sender transmits Exec", exec.rs).
CancelHolds == [][\A c \in (alive' \ alive) \cap early : Forgotten(c)]_vars

\* A page that is told a result, or that its command was cancelled, can rely on it:
\* nothing of the command runs or will run, and only what was cancelled says so.
AnswersAreTrue ==
  \A c \in Command :
    /\ page[c] \in {"result", "cancelled"} => Quiet(c)
    /\ page[c] = "cancelled" => c \in asked

Unwanted(c) == c \in asked \/ page[c] \notin {"new", "pending"}

\* A command and its promise end together, whatever happens to the connection, the
\* runtime and the messages.  In the end no command runs that its page cancelled, was
\* told the end of, or left behind; and no page waits for a command that does not
\* run, unless the connection was renewed meanwhile: that promise stays pending.
EndTogether ==
  <>[](\A c \in Command :
         /\ Unwanted(c) => Quiet(c) \/ Forgotten(c)
         /\ page[c] = "pending" /\ Quiet(c) => c \in outdated)
=============================================================================
