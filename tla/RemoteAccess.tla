----------------------------- MODULE RemoteAccess -----------------------------
(***************************************************************************)
(* Network access for paired devices: settings, pairing codes, revocation, *)
(* the listener and the admission of network connections                   *)
(* (muxy-server remote/mod.rs, remote/store.rs, remote_listener.rs,        *)
(* connection/mod.rs serve_remote, registry.rs).                           *)
(*                                                                         *)
(* Everything is decided under the lock of the state, saves included;      *)
(* steps between two locks of it are steps here.  A device is named by the *)
(* network connection that paired it.  The certificate, names, ports and   *)
(* the file's format are left out.  The listener and the status apps read  *)
(* change in one step.  A connection that is cut serves nobody from then   *)
(* on, although its thread ends a little later.                            *)
(***************************************************************************)
EXTENDS Integers, FiniteSets

CONSTANTS
  Admin,       \* connections of local apps that manage access, each opened once
  Net,         \* network connections, each opened once
  Slots,       \* MAX_UNAUTHENTICATED
  MaxDevices,  \* MAX_DEVICES
  MaxCodes,    \* bound: pairing codes offered
  MaxChanges,  \* bound: settings written and devices revoked
  MaxFailures, \* bound: saves that fail
  MaxRestarts, \* bound: kills of the server and power losses
  None

ASSUME RemoteAccessAssumption ==
  /\ IsFiniteSet(Net) /\ None \notin Admin \cup Net
  /\ Slots \in Nat \ {0} /\ MaxDevices \in Nat \ {0}
  /\ MaxCodes \in Nat /\ MaxChanges \in Nat /\ MaxFailures \in Nat /\ MaxRestarts \in Nat

VARIABLES
  mem, file, safe,   \* Stored: in memory, in the file, and the contents a power loss may leave of it
  offer,             \* the pairing code on offer
  listening, status, \* the listener, and what the apps are told of it
  lock,              \* who writes settings
  app, doing,        \* the admins' connections, and the request each is at
  net,               \* network connections: where they are and their device
  codes, shown,      \* codes offered so far, and those that reached an app
  creds,             \* devices that were told their credential
  paired,            \* history: <<code, device>>
  dropping, revoked, \* history: devices whose revocation was tried, and answered
  unsaved,           \* history: devices whose revocation was answered without a save
                     \* although a power loss may bring them back
  changes, failures, restarts \* counters of the bounds

bounds == <<changes, failures, restarts>>
history == <<paired, dropping, revoked, unsaved>>
stored == <<mem, file, safe>>
vars == <<stored, offer, listening, status, lock, app, doing, net, codes, shown, creds, history, bounds>>

Idle == [k |-> "idle"]

Init ==
  /\ mem = [on |-> FALSE, devices |-> {}] /\ file = mem /\ safe = {mem}
  /\ offer = None /\ listening = FALSE /\ status = "disabled" /\ lock = None
  /\ app = [a \in Admin |-> "new"] /\ doing = [a \in Admin |-> Idle]
  /\ net = [n \in Net |-> [st |-> "new", dev |-> None]]
  /\ codes = 0 /\ shown = {} /\ creds = {}
  /\ paired = {} /\ dropping = {} /\ revoked = {} /\ unsaved = {}
  /\ changes = 0 /\ failures = 0 /\ restarts = 0

\* store::save: it may fail before the file is renamed into place or before that
\* is durable; only a save that succeeds is taken into memory.
Saved(new) == mem' = new /\ file' = new /\ safe' = {new} /\ UNCHANGED failures

\* The file is as it was, or renamed and not synced.
WriteFails(new) ==
  /\ failures < MaxFailures /\ failures' = failures + 1
  /\ UNCHANGED <<file, safe>> \/ (file' = new /\ safe' = safe \cup {new})

SaveFails(new) == WriteFails(new) /\ UNCHANGED mem

Change == changes < MaxChanges /\ changes' = changes + 1

\* authorized
Authorized(d) == mem.on /\ d \in mem.devices

-----------------------------------------------------------------------------
(* Network connections *)

\* A connection is admitted while few others have yet to authenticate.
Accept(n) ==
  /\ listening /\ net[n].st = "new"
  /\ Cardinality({m \in Net : net[m].st \in {"waiting", "known", "registered"}}) < Slots
  /\ net' = [net EXCEPT ![n].st = "waiting"]
  /\ UNCHANGED <<stored, offer, listening, status, lock, app, doing, codes, shown, creds, history, bounds>>

Gone == [st |-> "closed", dev |-> None]
Known(n, d) == net' = [net EXCEPT ![n] = [st |-> "known", dev |-> d]]
Refuse(n) == net' = [net EXCEPT ![n] = Gone]

\* authenticate: the time is saved, and the device is let in even if that fails.
Authenticate(n, d) ==
  /\ net[n].st = "waiting" /\ d \in creds
  /\ IF Authorized(d) THEN Known(n, d) /\ (Saved(mem) \/ SaveFails(mem))
     ELSE Refuse(n) /\ UNCHANGED <<stored, failures>>
  /\ UNCHANGED <<offer, listening, status, lock, app, doing, codes, shown, creds, history, changes, restarts>>

\* Mutant of Paired: memory takes the device before it is saved.
PairedInMemory(n, c) ==
  LET new == [mem EXCEPT !.devices = @ \cup {n}] IN
  /\ mem' = new /\ offer' = None /\ Known(n, n) /\ paired' = paired \cup {<<c, n>>}
  /\ \/ Saved(new)
     \/ WriteFails(new)

\* A device is added; a failed save leaves the code on offer.
Paired(n, c) ==
  LET new == [mem EXCEPT !.devices = @ \cup {n}] IN
  \/ Saved(new) /\ offer' = None /\ Known(n, n) /\ paired' = paired \cup {<<c, n>>}
  \/ SaveFails(new) /\ Refuse(n) /\ UNCHANGED <<offer, paired>>

\* pair_at
Pair(n, c) ==
  /\ net[n].st = "waiting" /\ c \in shown
  /\ IF mem.on /\ offer # None /\ ~offer.old /\ offer.code = c /\ Cardinality(mem.devices) < MaxDevices
     THEN Paired(n, c)
     ELSE /\ offer' = IF mem.on /\ offer # None /\ offer.old THEN None ELSE offer
          /\ Refuse(n) /\ UNCHANGED <<stored, paired, failures>>
  /\ UNCHANGED <<listening, status, lock, app, doing, codes, shown, creds, dropping, revoked, unsaved, changes, restarts>>

\* serve_remote: the connection is registered before it is asked for once more
\* whether its device may come in, so that a revocation closes it or is seen.
Register(n) ==
  /\ net[n].st = "known" /\ net' = [net EXCEPT ![n].st = "registered"]
  /\ UNCHANGED <<stored, offer, listening, status, lock, app, doing, codes, shown, creds, history, bounds>>

\* Mutant of Check: a device that authenticated is not asked about again.
CheckBlind(n) ==
  /\ net[n].st = "registered" /\ net' = [net EXCEPT ![n].st = "open"]
  /\ creds' = creds \cup {net[n].dev}
  /\ UNCHANGED <<stored, offer, listening, status, lock, app, doing, codes, shown, history, bounds>>

\* authorized is asked after the registration.
Check(n) ==
  /\ net[n].st = "registered"
  /\ IF Authorized(net[n].dev)
     THEN net' = [net EXCEPT ![n].st = "open"] /\ creds' = creds \cup {net[n].dev}
     ELSE Refuse(n) /\ UNCHANGED creds
  /\ UNCHANGED <<stored, offer, listening, status, lock, app, doing, codes, shown, history, bounds>>

\* The peer leaves, or the time to authenticate is over.
Leave(n) ==
  /\ net[n].st \in {"waiting", "known", "registered", "open"} /\ Refuse(n)
  /\ UNCHANGED <<stored, offer, listening, status, lock, app, doing, codes, shown, creds, history, bounds>>

-----------------------------------------------------------------------------
(* Requests of local apps, one at a time on each connection *)

Ready(a) == app[a] = "open" /\ doing[a] = Idle
Do(a, request) == doing' = [doing EXCEPT ![a] = request]

Connect(a) ==
  /\ app[a] = "new" /\ app' = [app EXCEPT ![a] = "open"]
  /\ UNCHANGED <<stored, offer, listening, status, lock, doing, net, codes, shown, creds, history, bounds>>

\* Mutant of TakeWrites: settings are written by several apps at once.
TakeWritesShared(a) == UNCHANGED lock

\* The lock of the settings, held until the listener follows them.
TakeWrites(a) == lock = None /\ lock' = a

\* configure: turning access off also withdraws the code.
Configure(a, on) ==
  LET new == [mem EXCEPT !.on = on] IN
  /\ Ready(a) /\ Change
  /\ \/ /\ Saved(new) /\ TakeWrites(a)
        /\ offer' = IF on THEN offer ELSE None
        /\ Do(a, [k |-> "apply", on |-> on])
     \/ /\ lock = None /\ SaveFails(new) /\ UNCHANGED <<lock, offer, doing>>
  /\ UNCHANGED <<listening, status, app, net, codes, shown, creds, history, restarts>>

Cut(ns) == net' = [n \in Net |-> IF n \in ns /\ net[n].st # "new" THEN Gone ELSE net[n]]

\* apply and RemoteListener::apply: turning access off cuts all network
\* connections; a port that is taken leaves the listener stopped.
Apply(a) ==
  /\ doing[a].k = "apply" /\ lock' = None
  /\ \/ /\ doing[a].on /\ listening' = TRUE /\ status' = "listening" /\ UNCHANGED net /\ Do(a, Idle)
     \/ /\ doing[a].on /\ listening' = FALSE /\ status' = "failed" /\ UNCHANGED net /\ Do(a, Idle)
     \/ /\ ~doing[a].on /\ listening' = FALSE /\ status' = "disabled" /\ Cut(Net)
        /\ Do(a, [k |-> "close", dev |-> None])
  /\ UNCHANGED <<stored, offer, app, codes, shown, creds, history, bounds>>

\* revoke: a device that is paired is taken out of the file first.
Unpair(a, d) ==
  LET new == [mem EXCEPT !.devices = @ \ {d}] IN
  /\ d \in mem.devices
  /\ \/ /\ Saved(new) /\ Do(a, [k |-> "close", dev |-> d])
        /\ revoked' = revoked \ {d} /\ unsaved' = unsaved \ {d}
     \/ SaveFails(new) /\ UNCHANGED <<doing, revoked, unsaved>>

\* revoke: one that memory does not have needs no save, even if the file that
\* memory was read from was not synced.
AlreadyUnpaired(a, d) ==
  /\ d \in creds \ mem.devices /\ Do(a, [k |-> "close", dev |-> d])
  /\ unsaved' = IF \E s \in safe : d \in s.devices THEN unsaved \cup {d} ELSE unsaved
  /\ UNCHANGED <<stored, failures, revoked>>

Revoke(a, d) ==
  /\ Ready(a) /\ Change /\ dropping' = dropping \cup {d}
  /\ Unpair(a, d) \/ AlreadyUnpaired(a, d)
  /\ UNCHANGED <<offer, listening, status, lock, app, net, codes, shown, creds, paired, restarts>>

\* close_devices: one device's connections, or all; then the request is answered.
CloseDevices(a) ==
  /\ doing[a].k = "close" /\ Do(a, Idle)
  /\ Cut({n \in Net : net[n].st \in {"registered", "open"} /\ doing[a].dev \in {None, net[n].dev}})
  /\ revoked' = revoked \cup ({doing[a].dev} \ {None})
  /\ UNCHANGED <<stored, offer, listening, status, lock, app, codes, shown, creds, paired, dropping, unsaved, bounds>>

\* A request for a code is taken by the connection's worker.
AskForCode(a) ==
  /\ Ready(a) /\ codes < MaxCodes /\ Do(a, [k |-> "code"])
  /\ UNCHANGED <<stored, offer, listening, status, lock, app, net, codes, shown, creds, history, bounds>>

\* Mutant of StartPairing: it trusts the listener alone.
StartPairingLate(a) ==
  /\ doing[a].k = "code" /\ Do(a, Idle)
  /\ IF status = "listening" /\ Cardinality(mem.devices) < MaxDevices /\ codes < MaxCodes
     THEN /\ codes' = codes + 1
          /\ offer' = [code |-> codes + 1, owner |-> a, old |-> FALSE]
          /\ shown' = IF app[a] = "open" THEN shown \cup {codes + 1} ELSE shown
     ELSE UNCHANGED <<codes, offer, shown>>
  /\ UNCHANGED <<stored, listening, status, lock, app, net, creds, history, bounds>>

\* start_pairing: a new code replaces the one on offer, also if the app has gone meanwhile.
StartPairing(a) ==
  /\ doing[a].k = "code" /\ Do(a, Idle)
  /\ IF mem.on /\ status = "listening" /\ Cardinality(mem.devices) < MaxDevices /\ codes < MaxCodes
     THEN /\ codes' = codes + 1
          /\ offer' = [code |-> codes + 1, owner |-> a, old |-> FALSE]
          /\ shown' = IF app[a] = "open" THEN shown \cup {codes + 1} ELSE shown
     ELSE UNCHANGED <<codes, offer, shown>>
  /\ UNCHANGED <<stored, listening, status, lock, app, net, creds, history, bounds>>

CancelPairing(a) ==
  /\ Ready(a) /\ offer # None /\ offer' = None
  /\ UNCHANGED <<stored, listening, status, lock, app, doing, net, codes, shown, creds, history, bounds>>

\* The connection closes; then the code it asked for is released.
Close(a) ==
  /\ app[a] = "open" /\ app' = [app EXCEPT ![a] = "closed"]
  /\ UNCHANGED <<stored, offer, listening, status, lock, doing, net, codes, shown, creds, history, bounds>>

\* Mutant of ReleasePairing: only a code that is no longer good is released.
ReleasePairingOld(a) ==
  /\ app[a] = "closed" /\ app' = [app EXCEPT ![a] = "gone"]
  /\ offer' = IF offer # None /\ offer.owner = a /\ offer.old THEN None ELSE offer
  /\ UNCHANGED <<stored, listening, status, lock, doing, net, codes, shown, creds, history, bounds>>

\* release_pairing
ReleasePairing(a) ==
  /\ app[a] = "closed" /\ app' = [app EXCEPT ![a] = "gone"]
  /\ offer' = IF offer # None /\ offer.owner = a THEN None ELSE offer
  /\ UNCHANGED <<stored, listening, status, lock, doing, net, codes, shown, creds, history, bounds>>

\* The code's five minutes pass.
Age ==
  /\ offer # None /\ ~offer.old /\ offer' = [offer EXCEPT !.old = TRUE]
  /\ UNCHANGED <<stored, listening, status, lock, app, doing, net, codes, shown, creds, history, bounds>>

-----------------------------------------------------------------------------

\* The next server opens the file, which it only reads, and resumes.
Open ==
  /\ restarts < MaxRestarts /\ restarts' = restarts + 1 /\ mem' = file'
  /\ \/ mem'.on /\ listening' = TRUE /\ status' = "listening"
     \/ mem'.on /\ listening' = FALSE /\ status' = "failed"
     \/ ~mem'.on /\ listening' = FALSE /\ status' = "disabled"
  /\ offer' = None /\ lock' = None /\ Cut(Net)
  /\ app' = [a \in Admin |-> IF app[a] = "new" THEN "new" ELSE "gone"]
  /\ doing' = [a \in Admin |-> Idle]
  /\ UNCHANGED <<codes, shown, creds, history, changes, failures>>

\* A kill in the middle of a save is a save that fails, and then a kill.
ServerKilled == UNCHANGED <<file, safe>> /\ Open

\* Renames that were not synced may be undone.
PowerFails == file' \in safe /\ safe' = {file'} /\ Open

Request(a) ==
  \/ Connect(a) \/ \E on \in BOOLEAN : Configure(a, on)
  \/ Apply(a) \/ \E d \in Net : Revoke(a, d)
  \/ CloseDevices(a) \/ AskForCode(a) \/ StartPairing(a) \/ CancelPairing(a)
  \/ Close(a) \/ ReleasePairing(a)

Peer(n) ==
  \/ Accept(n) \/ \E d \in Net : Authenticate(n, d)
  \/ \E c \in 1..MaxCodes : Pair(n, c)
  \/ Register(n) \/ Check(n) \/ Leave(n)

Next == (\E a \in Admin : Request(a)) \/ (\E n \in Net : Peer(n)) \/ Age
        \/ ServerKilled \/ PowerFails

Spec == Init /\ [][Next]_vars

-----------------------------------------------------------------------------
(* Properties *)

StoredOK(s) == s.on \in BOOLEAN /\ s.devices \subseteq Net

\* What is stored anywhere, or may be after a power loss.
Copies == {mem, file} \cup safe

\* The state keeps its types; at most MaxDevices devices are paired, and a code is
\* on offer only while access is on.
TypeOK ==
  /\ \A s \in Copies : StoredOK(s)
  /\ Cardinality(mem.devices) <= MaxDevices
  /\ offer # None => mem.on /\ offer.code \in 1..codes
  /\ lock \in Admin \cup {None} /\ shown \subseteq 1..codes /\ creds \subseteq Net

\* Once a revocation is answered the device has no connection and never gets one
\* again, whatever was under way and whatever restarts the server.  Excluded are the
\* devices whose revocation was repeated after its sync had failed and the server
\* was killed: that is answered without a save, and a power loss can bring them back.
RevokedStaysOut ==
  \A d \in revoked \ unsaved : /\ \A s \in Copies : d \notin s.devices
                               /\ \A n \in Net : net[n].dev = d => net[n].st # "open"

\* A device that was told its credential stays paired, in memory and on disk, until
\* somebody revokes it, whatever saves fail and whatever restarts the server.
PairedUntilRevoked ==
  \A d \in creds \ dropping, s \in Copies : d \in s.devices

\* Whenever no settings are being written the listener follows them: access that is
\* off has no listener and no network connection, authenticated or not.
OffMeansOff ==
  lock = None => /\ listening = (status = "listening")
                 /\ ~mem.on => status = "disabled" /\ \A n \in Net : net[n].st \in {"new", "closed"}

\* A code pairs one device, and only while the app that shows it is connected and
\* no newer code was offered (server-model.md).
PairsOnce ==
  \A c \in 1..MaxCodes, n \in Net : <<c, n>> \in paired' \ paired =>
    /\ ~\E m \in Net : <<c, m>> \in paired
    /\ c = codes /\ app[offer.owner] # "gone"

CodeWorksOnce == [][PairsOnce]_vars
=============================================================================
