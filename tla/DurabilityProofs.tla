---------------------------- MODULE DurabilityProofs ----------------------------
(***************************************************************************)
(* What the server promises of what it keeps on disk: the devices that may *)
(* reach it over the network (RemoteAccess), and the saved content of its  *)
(* sessions (SaveQueue), for any number of apps, connections, devices,     *)
(* codes, sessions, saves, failures and crashes.                           *)
(*                                                                         *)
(* RemoteAccess.  The inductive invariant Inv has five parts beside the    *)
(* types.  Few: every stored state has room.  Following: a change of the   *)
(* settings holds the lock until the listener follows it.  Told: a device  *)
(* that was told its credential, or is about to be, is in memory and in    *)
(* every content a power loss may leave of the file, unless somebody tried *)
(* to revoke it.  Out: a device that is revoked, or whose connections are  *)
(* about to be closed, is in none of them and cannot be paired again,      *)
(* unless it was answered unsaved.  Offering: the code on offer is the     *)
(* newest, has paired nobody, and its app is connected if the code is      *)
(* known.                                                                  *)
(*                                                                         *)
(* SaveQueue.  Neither AnswerIsForLatest nor DiskHoldsAnswers is           *)
(* inductive: they say nothing of the jobs on their way.  SavesInv adds    *)
(* three parts.  Queued and Handed say of a job that waits or is being     *)
(* done for whom it carries an answer, how far it came on the disk, and    *)
(* that none is left of a session whose answer still counts; Settled says  *)
(* what follows from an answer that is on its way to its submitter.        *)
(***************************************************************************)
EXTENDS RemoteAccess, SaveQueue, FiniteSetTheorems, TLAPS

-----------------------------------------------------------------------------
(* Network access *)

StoredSet == [on : BOOLEAN, devices : SUBSET Net]
Offers == [code : Nat, owner : Admin, old : BOOLEAN]
Requests ==
  [k : {"idle", "code"}] \cup [k : {"apply"}, on : BOOLEAN] \cup [k : {"close"}, dev : Net \cup {None}]
Places == {"new", "waiting", "known", "registered", "open", "closed"}

Typed ==
  /\ mem \in StoredSet /\ file \in StoredSet /\ safe \subseteq StoredSet
  /\ offer \in Offers \cup {None}
  /\ listening \in BOOLEAN /\ status \in {"disabled", "listening", "failed"}
  /\ lock \in Admin \cup {None}
  /\ app \in [Admin -> {"new", "open", "closed", "gone"}]
  /\ doing \in [Admin -> Requests]
  /\ net \in [Net -> [st : Places, dev : Net \cup {None}]]
  /\ codes \in Nat /\ shown \subseteq 1..codes
  /\ creds \subseteq Net /\ dropping \subseteq Net /\ revoked \subseteq Net /\ unsaved \subseteq Net
  /\ paired \subseteq (1..codes) \X Net
  /\ offer # None => mem.on /\ offer.code \in 1..codes

\* The types hold at first.
LEMMA TypedInit == Init => Typed
  <1> SUFFICES ASSUME Init PROVE Typed
    OBVIOUS
  <1>1. mem \in StoredSet /\ file \in StoredSet /\ safe \subseteq StoredSet
    BY DEF Init, StoredSet
  <1>2. doing \in [Admin -> Requests] /\ app \in [Admin -> {"new", "open", "closed", "gone"}]
    BY DEF Init, Requests, Idle
  <1>3. net \in [Net -> [st : Places, dev : Net \cup {None}]]
    BY DEF Init, Places
  <1> QED
    BY <1>1, <1>2, <1>3 DEF Init, Typed

\* Every action keeps the types (all of remote/mod.rs and serve_remote).
LEMMA TypedStep == ASSUME Typed, [Next]_vars PROVE Typed'
  <1> USE RemoteAccessAssumption DEF Typed, StoredSet, Places
  <1>1. ASSUME NEW a \in Admin, Connect(a) PROVE Typed'
    BY <1>1 DEF Connect, stored, history, bounds
  <1>2. ASSUME NEW a \in Admin, NEW on \in BOOLEAN, Configure(a, on) PROVE Typed'
    <2> DEFINE new == [mem EXCEPT !.on = on]
    <2>1. new \in StoredSet /\ new.on = on /\ [k |-> "apply", on |-> on] \in Requests
      BY DEF Requests
    <2>2. CASE Saved(new) /\ TakeWrites(a) /\ offer' = (IF on THEN offer ELSE None)
               /\ Do(a, [k |-> "apply", on |-> on])
      <3>1. mem' = new /\ file' = new /\ safe' = {new} /\ lock' = a
        BY <2>2 DEF Saved, TakeWrites
      <3>2. doing' \in [Admin -> Requests]
        BY <2>1, <2>2 DEF Do
      <3>3. offer' \in Offers \cup {None} /\ (offer' # None => on /\ offer' = offer)
        BY <2>2
      <3> HIDE DEF new
      <3> QED
        BY <1>2, <2>1, <3>1, <3>2, <3>3 DEF Configure, history
    <2>3. CASE SaveFails(new) /\ UNCHANGED <<lock, offer, doing>>
      BY <1>2, <2>1, <2>3 DEF Configure, SaveFails, WriteFails, history
    <2> QED
      BY <1>2, <2>2, <2>3 DEF Configure
  <1>3. ASSUME NEW a \in Admin, Apply(a) PROVE Typed'
    <2>1. doing' \in [Admin -> Requests]
      BY <1>3 DEF Apply, Do, Idle, Requests
    <2>2. net' \in [Net -> [st : Places, dev : Net \cup {None}]]
      BY <1>3 DEF Apply, Cut, Gone
    <2>3. listening' \in BOOLEAN /\ status' \in {"disabled", "listening", "failed"} /\ lock' = None
      BY <1>3 DEF Apply
    <2> QED
      BY <1>3, <2>1, <2>2, <2>3 DEF Apply, stored, history, bounds
  <1>4. ASSUME NEW a \in Admin, NEW d \in Net, Revoke(a, d) PROVE Typed'
    BY <1>4 DEF Revoke, Unpair, AlreadyUnpaired, Saved, SaveFails, WriteFails, Do, Requests, Change, stored
  <1>5. ASSUME NEW a \in Admin, CloseDevices(a) PROVE Typed'
    BY <1>5 DEF CloseDevices, Do, Idle, Requests, Cut, Gone, stored, bounds
  <1>6. ASSUME NEW a \in Admin, AskForCode(a) PROVE Typed'
    BY <1>6 DEF AskForCode, Do, Requests, stored, history, bounds
  <1>7. ASSUME NEW a \in Admin, StartPairing(a) PROVE Typed'
    <2>1. doing' \in [Admin -> Requests]
      BY <1>7 DEF StartPairing, Do, Idle, Requests
    <2>2. [code |-> codes + 1, owner |-> a, old |-> FALSE] \in Offers
      BY DEF Offers
    <2>3. codes' \in {codes, codes + 1} /\ shown' \subseteq shown \cup {codes'}
          /\ (codes' = codes => shown' = shown)
      BY <1>7 DEF StartPairing
    <2>4. shown' \subseteq 1..codes' /\ (1..codes) \X Net \subseteq (1..codes') \X Net
      BY <2>3
    <2>5. \/ UNCHANGED <<offer, codes>>
          \/ mem.on /\ codes' = codes + 1 /\ offer' = [code |-> codes + 1, owner |-> a, old |-> FALSE]
      BY <1>7 DEF StartPairing
    <2>6. offer' \in Offers \cup {None} /\ (offer' # None => mem.on /\ offer'.code \in 1..codes')
      <3>1. CASE UNCHANGED <<offer, codes>>
        BY <3>1
      <3>2. CASE mem.on /\ codes' = codes + 1
                 /\ offer' = [code |-> codes + 1, owner |-> a, old |-> FALSE]
        <4>1. offer'.code = codes' /\ codes' \in 1..codes'
          BY <3>2
        <4> QED
          BY <2>2, <3>2, <4>1
      <3> QED
        BY <2>5, <3>1, <3>2
    <2> QED
      BY <1>7, <2>1, <2>3, <2>4, <2>6 DEF StartPairing, stored, history, bounds
  <1>8. ASSUME NEW a \in Admin, CancelPairing(a) PROVE Typed'
    BY <1>8 DEF CancelPairing, stored, history, bounds
  <1>9. ASSUME NEW a \in Admin, Close(a) \/ ReleasePairing(a) PROVE Typed'
    BY <1>9 DEF Close, ReleasePairing, stored, history, bounds
  <1>10. ASSUME NEW n \in Net, Accept(n) \/ Register(n) \/ Leave(n) PROVE Typed'
    BY <1>10 DEF Accept, Register, Leave, Refuse, Gone, stored, history, bounds
  <1>11. ASSUME NEW n \in Net, NEW d \in Net, Authenticate(n, d) PROVE Typed'
    BY <1>11 DEF Authenticate, Known, Refuse, Gone, Saved, SaveFails, WriteFails, stored, history
  <1>12. ASSUME NEW n \in Net, NEW c \in 1..MaxCodes, Pair(n, c) PROVE Typed'
    <2> DEFINE new == [mem EXCEPT !.devices = @ \cup {n}]
    <2>1. new \in StoredSet
      OBVIOUS
    <2>2. CASE Saved(new) /\ offer' = None /\ Known(n, n) /\ paired' = paired \cup {<<c, n>>}
      <3>1. c \in 1..codes /\ <<c, n>> \in (1..codes) \X Net
        BY <1>12 DEF Pair
      <3>2. mem' = new /\ file' = new /\ safe' = {new} /\ offer' = None /\ UNCHANGED <<codes, shown>>
        BY <1>12, <2>2 DEF Saved, Pair
      <3>3. net' \in [Net -> [st : Places, dev : Net \cup {None}]]
        BY <2>2 DEF Known
      <3> HIDE DEF new
      <3> QED
        BY <1>12, <2>1, <2>2, <3>1, <3>2, <3>3 DEF Pair
    <2>3. CASE SaveFails(new) /\ Refuse(n) /\ UNCHANGED <<offer, paired>>
      BY <1>12, <2>1, <2>3 DEF Pair, SaveFails, WriteFails, Refuse, Gone
    <2>4. CASE /\ offer' = IF mem.on /\ offer # None /\ offer.old THEN None ELSE offer
               /\ Refuse(n) /\ UNCHANGED <<stored, paired, failures>>
      BY <1>12, <2>4 DEF Pair, Refuse, Gone, stored
    <2> QED
      BY <1>12, <2>2, <2>3, <2>4 DEF Pair, Paired
  <1>13. ASSUME NEW n \in Net, Check(n) PROVE Typed'
    BY <1>13 DEF Check, Authorized, Refuse, Gone, stored, history, bounds
  <1>14. ASSUME Age PROVE Typed'
    BY <1>14 DEF Age, Offers, stored, history, bounds
  <1>15. ASSUME ServerKilled \/ PowerFails PROVE Typed'
    <2>1. mem' \in StoredSet /\ file' \in StoredSet /\ safe' \subseteq StoredSet
      BY <1>15 DEF ServerKilled, PowerFails, Open
    <2>2. doing' \in [Admin -> Requests]
      BY <1>15 DEF ServerKilled, PowerFails, Open, Idle, Requests
    <2>3. net' \in [Net -> [st : Places, dev : Net \cup {None}]]
      BY <1>15 DEF ServerKilled, PowerFails, Open, Cut, Gone
    <2>4. app' \in [Admin -> {"new", "open", "closed", "gone"}]
      BY <1>15 DEF ServerKilled, PowerFails, Open
    <2>5. listening' \in BOOLEAN /\ status' \in {"disabled", "listening", "failed"}
          /\ lock' = None /\ offer' = None
      BY <1>15 DEF ServerKilled, PowerFails, Open
    <2> QED
      BY <1>15, <2>1, <2>2, <2>3, <2>4, <2>5 DEF ServerKilled, PowerFails, Open, history
  <1>16. CASE UNCHANGED vars
    BY <1>16 DEF vars, stored, history, bounds
  <1> HIDE DEF Typed, StoredSet, Places
  <1>17. ASSUME NEW a \in Admin, Request(a) PROVE Typed'
    BY <1>1, <1>2, <1>3, <1>4, <1>5, <1>6, <1>7, <1>8, <1>9, <1>17 DEF Request
  <1>18. ASSUME NEW n \in Net, Peer(n) PROVE Typed'
    BY <1>10, <1>11, <1>12, <1>13, <1>18 DEF Peer
  <1> QED
    BY <1>14, <1>15, <1>16, <1>17, <1>18 DEF Next
-----------------------------------------------------------------------------
\* The listener follows the settings unless somebody holds their lock to apply them.
Following ==
  /\ listening <=> status = "listening"
  /\ lock = None /\ ~mem.on => status = "disabled" /\ \A n \in Net : net[n].st \in {"new", "closed"}
  /\ \A a \in Admin : doing[a].k = "apply" => lock = a /\ (doing[a].on <=> mem.on)

\* Configure takes the lock, Apply releases it with the listener set (configure).
LEMMA FollowingStep == ASSUME Typed, Typed', Following, [Next]_vars PROVE Following'
  <1> USE RemoteAccessAssumption DEF Typed, StoredSet, Requests, Places, Following
  <1>1. ASSUME NEW a \in Admin, Connect(a) \/ AskForCode(a) \/ CancelPairing(a) \/ Close(a) \/ ReleasePairing(a)
       PROVE  Following'
    BY <1>1 DEF Connect, AskForCode, CancelPairing, Close, ReleasePairing, Do, stored, history, bounds
  <1>2. ASSUME NEW a \in Admin, NEW on \in BOOLEAN, Configure(a, on) PROVE Following'
    BY <1>2 DEF Configure, Ready, Idle, Saved, SaveFails, WriteFails, TakeWrites, Do, history
  <1>3. ASSUME NEW a \in Admin, Apply(a) PROVE Following'
    <2>1. /\ lock' = None /\ UNCHANGED mem /\ lock = a /\ (doing[a].on <=> mem.on)
          /\ \A b \in Admin \ {a} : doing'[b] = doing[b] /\ doing[b].k # "apply"
          /\ doing'[a].k # "apply"
      BY <1>3 DEF Apply, Do, Idle, stored
    <2>2. CASE ~doing[a].on
      <3>1. listening' = FALSE /\ status' = "disabled" /\ Cut(Net)
        BY <1>3, <2>2 DEF Apply
      <3>2. \A n \in Net : net'[n].st \in {"new", "closed"}
        BY <3>1 DEF Cut, Gone
      <3> QED
        BY <2>1, <3>1, <3>2
    <2>3. CASE doing[a].on
      BY <1>3, <2>1, <2>3 DEF Apply
    <2> QED
      BY <2>2, <2>3
  <1>4. ASSUME NEW a \in Admin, NEW d \in Net, Revoke(a, d) PROVE Following'
    BY <1>4 DEF Revoke, Unpair, AlreadyUnpaired, Ready, Idle, Saved, SaveFails, WriteFails, Do, stored
  <1>5. ASSUME NEW a \in Admin, CloseDevices(a) PROVE Following'
    BY <1>5 DEF CloseDevices, Do, Idle, Cut, Gone, stored, bounds
  <1>6. ASSUME NEW a \in Admin, StartPairing(a) PROVE Following'
    BY <1>6 DEF StartPairing, Do, Idle, stored, history, bounds
  <1>7. ASSUME NEW n \in Net, Accept(n) \/ Register(n) \/ Leave(n) PROVE Following'
    BY <1>7 DEF Accept, Register, Leave, Refuse, Gone, stored, history, bounds
  <1>8. ASSUME NEW n \in Net, NEW d \in Net, Authenticate(n, d) PROVE Following'
    BY <1>8 DEF Authenticate, Authorized, Known, Refuse, Gone, Saved, SaveFails, WriteFails, stored, history
  <1>9. ASSUME NEW n \in Net, NEW c \in 1..MaxCodes, Pair(n, c) PROVE Following'
    BY <1>9 DEF Pair, Paired, Known, Refuse, Gone, Saved, SaveFails, WriteFails, stored
  <1>10. ASSUME NEW n \in Net, Check(n) PROVE Following'
    BY <1>10 DEF Check, Authorized, Refuse, Gone, stored, history, bounds
  <1>11. CASE Age
    BY <1>11 DEF Age, stored, history, bounds
  <1>12. CASE ServerKilled \/ PowerFails
    BY <1>12 DEF ServerKilled, PowerFails, Open, Cut, Gone, Idle, history
  <1>13. CASE UNCHANGED vars
    BY <1>13 DEF vars, stored, history, bounds
  <1> HIDE DEF Following
  <1>14. ASSUME NEW a \in Admin, Request(a) PROVE Following'
    BY <1>1, <1>2, <1>3, <1>4, <1>5, <1>6, <1>14 DEF Request
  <1>15. ASSUME NEW n \in Net, Peer(n) PROVE Following'
    BY <1>7, <1>8, <1>9, <1>10, <1>15 DEF Peer
  <1> QED
    BY <1>11, <1>12, <1>13, <1>14, <1>15 DEF Next

-----------------------------------------------------------------------------
\* Connections that have named a device; one that has not cannot be a device's name.
Used == {n \in Net : net[n].st \notin {"new", "waiting"}}

\* A device that was told its credential, or that a connection is about to be let in
\* for, is stored everywhere until somebody tries to revoke it; a power loss may leave
\* the file as it is.
Told ==
  /\ file \in safe
  /\ \A d \in creds \ dropping, s \in Copies : d \in s.devices
  /\ \A n \in Net, s \in Copies :
       net[n].st \in {"known", "registered"} /\ net[n].dev \notin dropping => net[n].dev \in s.devices
  /\ creds \subseteq Used /\ \A s \in Copies : s.devices \subseteq Used

\* A save that fails leaves memory alone, and the file holds what it held or what was
\* to be saved (save, pair_at, revoke).
LEMMA ToldStep == ASSUME Typed, Typed', Told, [Next]_vars PROVE Told'
  <1> USE RemoteAccessAssumption DEF Typed, StoredSet, Places, Told, Used, Copies
  <1>1. ASSUME NEW a \in Admin, Connect(a) \/ AskForCode(a) \/ CancelPairing(a) \/ Close(a) \/ ReleasePairing(a)
       PROVE  Told'
    BY <1>1 DEF Connect, AskForCode, CancelPairing, Close, ReleasePairing, Do, stored, history, bounds
  <1>2. ASSUME NEW a \in Admin, NEW on \in BOOLEAN, Configure(a, on) PROVE Told'
    BY <1>2 DEF Configure, Ready, Idle, Saved, SaveFails, WriteFails, TakeWrites, Do, history
  <1>3. ASSUME NEW a \in Admin, Apply(a) PROVE Told'
    BY <1>3 DEF Apply, Do, Idle, Cut, Gone, stored, history, bounds
  <1>4. ASSUME NEW a \in Admin, NEW d \in Net, Revoke(a, d) PROVE Told'
    BY <1>4 DEF Revoke, Unpair, AlreadyUnpaired, Ready, Idle, Saved, SaveFails, WriteFails, Do, stored
  <1>5. ASSUME NEW a \in Admin, CloseDevices(a) PROVE Told'
    BY <1>5 DEF CloseDevices, Do, Idle, Cut, Gone, stored, bounds
  <1>6. ASSUME NEW a \in Admin, StartPairing(a) PROVE Told'
    BY <1>6 DEF StartPairing, Do, Idle, stored, history, bounds
  <1>7. ASSUME NEW n \in Net, Accept(n) \/ Register(n) \/ Leave(n) PROVE Told'
    BY <1>7 DEF Accept, Register, Leave, Refuse, Gone, stored, history, bounds
  <1>8. ASSUME NEW n \in Net, NEW d \in Net, Authenticate(n, d) PROVE Told'
    BY <1>8 DEF Authenticate, Authorized, Known, Refuse, Gone, Saved, SaveFails, WriteFails, stored, history
  <1>9. ASSUME NEW n \in Net, NEW c \in 1..MaxCodes, Pair(n, c) PROVE Told'
    BY <1>9 DEF Pair, Paired, Known, Refuse, Gone, Saved, SaveFails, WriteFails, stored
  <1>10. ASSUME NEW n \in Net, Check(n) PROVE Told'
    BY <1>10 DEF Check, Authorized, Refuse, Gone, stored, history, bounds
  <1>11. CASE Age
    BY <1>11 DEF Age, stored, history, bounds
  <1>12. CASE ServerKilled \/ PowerFails
    BY <1>12 DEF ServerKilled, PowerFails, Open, Cut, Gone, Idle, history
  <1>13. CASE UNCHANGED vars
    BY <1>13 DEF vars, stored, history, bounds
  <1> HIDE DEF Told
  <1>14. ASSUME NEW a \in Admin, Request(a) PROVE Told'
    BY <1>1, <1>2, <1>3, <1>4, <1>5, <1>6, <1>14 DEF Request
  <1>15. ASSUME NEW n \in Net, Peer(n) PROVE Told'
    BY <1>7, <1>8, <1>9, <1>10, <1>15 DEF Peer
  <1> QED
    BY <1>11, <1>12, <1>13, <1>14, <1>15 DEF Next

-----------------------------------------------------------------------------
\* Devices that were taken out of the store and whose connections are to be closed.
Closing == {d \in Net : \E a \in Admin : doing[a].k = "close" /\ doing[a].dev = d}

\* Revoked devices are stored nowhere and have no connection, unless their revocation
\* was answered without a save that the disk still needed.
Out ==
  /\ revoked \cup Closing \subseteq Used
  /\ \A d \in (revoked \cup Closing) \ unsaved, s \in Copies : d \notin s.devices
  /\ \A n \in Net : net[n].dev \in revoked \ unsaved => net[n].st # "open"

\* A connection of a revoked device is closed by close_devices, or fails the check
\* that follows its registration (serve_remote).
LEMMA OutStep == ASSUME Typed, Typed', Told, Out, [Next]_vars PROVE Out'
  <1>0. ASSUME UNCHANGED <<revoked, unsaved>>, Closing' \subseteq Closing, Used \subseteq Used',
               \A s \in Copies' : \E c \in Copies : s.devices = c.devices,
               \A n \in Net : net'[n].st = "open" => net'[n] = net[n]
        PROVE  Out'
    BY <1>0 DEF Out
  <1> USE RemoteAccessAssumption DEF Typed, StoredSet, Requests, Places, Told, Used, Copies, Closing, Out
  <1>1. ASSUME NEW a \in Admin, Connect(a) \/ AskForCode(a) \/ CancelPairing(a) \/ Close(a) \/ ReleasePairing(a)
       PROVE  Out'
    BY <1>1 DEF Connect, AskForCode, CancelPairing, Close, ReleasePairing, Do, stored, history, bounds
  <1>2. ASSUME NEW a \in Admin, NEW on \in BOOLEAN, Configure(a, on) PROVE Out'
    <2>1. UNCHANGED <<revoked, unsaved, net, paired>>
      BY <1>2 DEF Configure, history
    <2>2. Closing' \subseteq Closing
      BY <1>2 DEF Configure, Do
    <2> DEFINE new == [mem EXCEPT !.on = on]
    <2>3. Copies' \subseteq Copies \cup {new}
      BY <1>2 DEF Configure, Saved, SaveFails, WriteFails
    <2>4. mem \in Copies /\ new.devices = mem.devices
      OBVIOUS
    <2>5. \A s \in Copies' : \E c \in Copies : s.devices = c.devices
      <3> HIDE DEF new, Copies
      <3> QED
        BY <2>3, <2>4
    <2>6. Used' = Used
      BY <2>1
    <2> HIDE DEF Copies, Closing, Used, Out
    <2> QED
      BY <1>0, <2>1, <2>2, <2>5, <2>6
  <1>3. ASSUME NEW a \in Admin, Apply(a) PROVE Out'
    <2>1. UNCHANGED <<mem, file, safe, revoked, unsaved>>
      BY <1>3 DEF Apply, stored, history
    <2>2. Closing' \subseteq Closing
      BY <1>3, RemoteAccessAssumption DEF Apply, Do, Idle
    <2>3. \A n \in Net : net'[n] = net[n] \/ (net[n].st # "new" /\ net'[n] = Gone)
      BY <1>3 DEF Apply, Cut
    <2>4. Used \subseteq Used' /\ \A n \in Net : net'[n].st = "open" => net'[n] = net[n]
      BY <2>3 DEF Gone
    <2>5. Copies' = Copies
      BY <2>1
    <2> HIDE DEF Copies, Closing, Used, Out
    <2> QED
      BY <1>0, <2>1, <2>2, <2>4, <2>5
  <1>4. ASSUME NEW a \in Admin, NEW d \in Net, Revoke(a, d) PROVE Out'
    BY <1>4 DEF Revoke, Unpair, AlreadyUnpaired, Ready, Idle, Saved, SaveFails, WriteFails, Do, stored
  <1>5. ASSUME NEW a \in Admin, CloseDevices(a) PROVE Out'
    BY <1>5 DEF CloseDevices, Do, Idle, Cut, Gone, stored, bounds
  <1>6. ASSUME NEW a \in Admin, StartPairing(a) PROVE Out'
    <2>1. UNCHANGED <<mem, file, safe, revoked, unsaved, net, paired>>
      BY <1>6 DEF StartPairing, stored, history
    <2>2. Closing' \subseteq Closing
      BY <1>6 DEF StartPairing, Do, Idle
    <2>3. Copies' = Copies /\ Used' = Used
      BY <2>1
    <2> HIDE DEF Copies, Closing, Used, Out
    <2> QED
      BY <1>0, <2>1, <2>2, <2>3
  <1>7. ASSUME NEW n \in Net, Accept(n) \/ Register(n) \/ Leave(n) PROVE Out'
    BY <1>7 DEF Accept, Register, Leave, Refuse, Gone, stored, history, bounds
  <1>8. ASSUME NEW n \in Net, NEW d \in Net, Authenticate(n, d) PROVE Out'
    BY <1>8 DEF Authenticate, Authorized, Known, Refuse, Gone, Saved, SaveFails, WriteFails, stored, history
  <1>9. ASSUME NEW n \in Net, NEW c \in 1..MaxCodes, Pair(n, c) PROVE Out'
    <2> DEFINE new == [mem EXCEPT !.devices = @ \cup {n}]
    <2>1. UNCHANGED <<doing, revoked, unsaved>>
      BY <1>9 DEF Pair
    <2>2. n \notin revoked \cup Closing
      BY <1>9 DEF Pair
    <2>3. Copies' \subseteq Copies \cup {new}
      BY <1>9 DEF Pair, Paired, Saved, SaveFails, WriteFails, stored
    <2>4. new.devices = mem.devices \cup {n} /\ mem \in Copies
      OBVIOUS
    <2>5. net' = [net EXCEPT ![n] = Gone] \/ net' = [net EXCEPT ![n] = [st |-> "known", dev |-> n]]
      BY <1>9 DEF Pair, Paired, Known, Refuse
    <2>6. Used \subseteq Used' /\ \A m \in Net : net'[m].st = "open" => net'[m] = net[m]
      BY <2>5 DEF Gone
    <2>7. \A s \in Copies', d \in (revoked \cup Closing) \ unsaved : d \notin s.devices
      <3> HIDE DEF new, Copies, Closing
      <3> QED
        BY <2>2, <2>3, <2>4
    <2>8. Closing' = Closing
      BY <2>1
    <2> HIDE DEF Copies, Closing, Used
    <2> QED
      BY <2>1, <2>6, <2>7, <2>8
  <1>10. ASSUME NEW n \in Net, Check(n) PROVE Out'
    <2>1. UNCHANGED <<mem, file, safe, revoked, unsaved, doing>>
      BY <1>10 DEF Check, stored, history
    <2>2. CASE Authorized(net[n].dev)
      <3>1. net' = [net EXCEPT ![n].st = "open"] /\ net[n].dev \in mem.devices
        BY <1>10, <2>2 DEF Check, Authorized
      <3>2. net[n].dev \notin revoked \ unsaved
        BY <3>1
      <3>3. /\ Used \subseteq Used'
            /\ \A m \in Net : net'[m].dev = net[m].dev
            /\ \A m \in Net \ {n} : net'[m] = net[m]
        BY <3>1
      <3> QED
        BY <2>1, <3>2, <3>3
    <2>3. CASE ~Authorized(net[n].dev)
      <3>1. net' = [net EXCEPT ![n] = Gone]
        BY <1>10, <2>3 DEF Check, Refuse
      <3>2. Used \subseteq Used' /\ \A m \in Net : net'[m].st = "open" => net'[m] = net[m]
        BY <3>1 DEF Gone
      <3> QED
        BY <2>1, <3>2
    <2> QED
      BY <2>2, <2>3
  <1>11. CASE Age
    BY <1>11 DEF Age, stored, history, bounds
  <1>12. CASE ServerKilled \/ PowerFails
    BY <1>12 DEF ServerKilled, PowerFails, Open, Cut, Gone, Idle, history
  <1>13. CASE UNCHANGED vars
    BY <1>13 DEF vars, stored, history, bounds
  <1> HIDE DEF Out
  <1>14. ASSUME NEW a \in Admin, Request(a) PROVE Out'
    BY <1>1, <1>2, <1>3, <1>4, <1>5, <1>6, <1>14 DEF Request
  <1>15. ASSUME NEW n \in Net, Peer(n) PROVE Out'
    BY <1>7, <1>8, <1>9, <1>10, <1>15 DEF Peer
  <1> QED
    BY <1>11, <1>12, <1>13, <1>14, <1>15 DEF Next

-----------------------------------------------------------------------------
\* The code on offer.
Offering ==
  offer # None => /\ offer.code = codes
                  /\ \A n \in Net : <<codes, n>> \notin paired
                  /\ codes \in shown => app[offer.owner] # "gone"

\* A code is withdrawn when it has paired, when its app leaves and when a newer one
\* is offered (pair_at, release_pairing, start_pairing).
LEMMA OfferingStep == ASSUME Typed, Typed', Offering, [Next]_vars PROVE Offering'
  <1> USE RemoteAccessAssumption DEF Typed, Offers, Offering
  <1>1. ASSUME NEW a \in Admin, Connect(a) \/ AskForCode(a) \/ CancelPairing(a) \/ Close(a) \/ ReleasePairing(a)
       PROVE  Offering'
    BY <1>1 DEF Connect, AskForCode, CancelPairing, Close, ReleasePairing, Do, stored, history, bounds
  <1>2. ASSUME NEW a \in Admin, NEW on \in BOOLEAN, Configure(a, on) PROVE Offering'
    BY <1>2 DEF Configure, Ready, Idle, Saved, SaveFails, WriteFails, TakeWrites, Do, history
  <1>3. ASSUME NEW a \in Admin, Apply(a) PROVE Offering'
    BY <1>3 DEF Apply, Do, Idle, Cut, Gone, stored, history, bounds
  <1>4. ASSUME NEW a \in Admin, NEW d \in Net, Revoke(a, d) PROVE Offering'
    BY <1>4 DEF Revoke, Unpair, AlreadyUnpaired, Ready, Idle, Saved, SaveFails, WriteFails, Do, stored
  <1>5. ASSUME NEW a \in Admin, CloseDevices(a) PROVE Offering'
    BY <1>5 DEF CloseDevices, Do, Idle, Cut, Gone, stored, bounds
  <1>6. ASSUME NEW a \in Admin, StartPairing(a) PROVE Offering'
    BY <1>6 DEF StartPairing, Do, Idle, stored, history, bounds
  <1>7. ASSUME NEW n \in Net, Accept(n) \/ Register(n) \/ Leave(n) PROVE Offering'
    BY <1>7 DEF Accept, Register, Leave, Refuse, Gone, stored, history, bounds
  <1>8. ASSUME NEW n \in Net, NEW d \in Net, Authenticate(n, d) PROVE Offering'
    BY <1>8 DEF Authenticate, Authorized, Known, Refuse, Gone, Saved, SaveFails, WriteFails, stored, history
  <1>9. ASSUME NEW n \in Net, NEW c \in 1..MaxCodes, Pair(n, c) PROVE Offering'
    BY <1>9 DEF Pair, Paired, Known, Refuse, Gone, Saved, SaveFails, WriteFails, stored
  <1>10. ASSUME NEW n \in Net, Check(n) PROVE Offering'
    BY <1>10 DEF Check, Authorized, Refuse, Gone, stored, history, bounds
  <1>11. CASE Age
    BY <1>11 DEF Age, stored, history, bounds
  <1>12. CASE ServerKilled \/ PowerFails
    BY <1>12 DEF ServerKilled, PowerFails, Open, Cut, Gone, Idle, history
  <1>13. CASE UNCHANGED vars
    BY <1>13 DEF vars, stored, history, bounds
  <1> HIDE DEF Offering
  <1>14. ASSUME NEW a \in Admin, Request(a) PROVE Offering'
    BY <1>1, <1>2, <1>3, <1>4, <1>5, <1>6, <1>14 DEF Request
  <1>15. ASSUME NEW n \in Net, Peer(n) PROVE Offering'
    BY <1>7, <1>8, <1>9, <1>10, <1>15 DEF Peer
  <1> QED
    BY <1>11, <1>12, <1>13, <1>14, <1>15 DEF Next

-----------------------------------------------------------------------------
\* A stored state within the limit of devices.
Limited(s) == IsFiniteSet(s.devices) /\ Cardinality(s.devices) <= MaxDevices

Few == \A s \in Copies : Limited(s)

\* What a save that was tried leaves is what was there or what was to be saved.
Leaves(new) == Copies' \subseteq Copies \cup {new}

\* Only pairing adds a device, after it counted them (pair_at).
LEMMA FewStep == ASSUME Typed, Few, [Next]_vars PROVE Few'
  <1>1. ASSUME NEW new, Limited(new), Leaves(new) PROVE Few'
    BY <1>1 DEF Few, Leaves
  <1>2. CASE Leaves(mem)
    BY <1>1, <1>2 DEF Few, Copies
  <1>3. ASSUME NEW a \in Admin, NEW on \in BOOLEAN, Configure(a, on) PROVE Few'
    <2>1. Limited([mem EXCEPT !.on = on])
      BY DEF Typed, StoredSet, Few, Limited, Copies
    <2> QED
      BY <1>1, <1>3, <2>1 DEF Configure, Saved, SaveFails, WriteFails, Leaves, Copies
  <1>4. ASSUME NEW a \in Admin, NEW d \in Net, Revoke(a, d) PROVE Few'
    <2> DEFINE new == [mem EXCEPT !.devices = @ \ {d}]
    <2>1. new.devices = mem.devices \ {d}
      BY DEF Typed, StoredSet
    <2>2. Limited(new)
      <3>1. IsFiniteSet(mem.devices) /\ Cardinality(mem.devices) <= MaxDevices /\ MaxDevices \in Nat
        BY RemoteAccessAssumption DEF Few, Limited, Copies
      <3>2. Cardinality(mem.devices) \in Nat /\ Cardinality(new.devices) \in Nat
            /\ IsFiniteSet(new.devices)
        <4>1. IsFiniteSet(mem.devices \ {d})
          BY <3>1, FS_RemoveElement
        <4> QED
          BY <2>1, <3>1, <4>1, FS_CardinalityType
      <3>3. Cardinality(new.devices) \in {Cardinality(mem.devices), Cardinality(mem.devices) - 1}
        BY <2>1, <3>1, FS_RemoveElement
      <3> HIDE DEF new
      <3> QED
        BY <3>1, <3>2, <3>3 DEF Limited
    <2>3. Leaves(mem) \/ Leaves(new)
      BY <1>4 DEF Revoke, Unpair, AlreadyUnpaired, Saved, SaveFails, WriteFails, Leaves, Copies, stored
    <2> QED
      BY <1>1, <1>2, <2>2, <2>3
  <1>5. ASSUME NEW n \in Net, NEW d \in Net, Authenticate(n, d) PROVE Leaves(mem)
    BY <1>5 DEF Authenticate, Saved, SaveFails, WriteFails, Leaves, Copies, stored
  <1>6. ASSUME NEW n \in Net, NEW c \in 1..MaxCodes, Pair(n, c) PROVE Few'
    <2> DEFINE new == [mem EXCEPT !.devices = @ \cup {n}]
    <2>1. new.devices = mem.devices \cup {n}
      BY DEF Typed, StoredSet
    <2>2. Cardinality(mem.devices) < MaxDevices => Limited(new)
      <3>1. IsFiniteSet(mem.devices) /\ Cardinality(mem.devices) <= MaxDevices /\ MaxDevices \in Nat
        BY RemoteAccessAssumption DEF Few, Limited, Copies
      <3>2. Cardinality(mem.devices) \in Nat /\ IsFiniteSet(new.devices)
        BY <2>1, <3>1, FS_AddElement, FS_CardinalityType
      <3>3. Cardinality(new.devices) \in {Cardinality(mem.devices), Cardinality(mem.devices) + 1}
        BY <2>1, <3>1, FS_AddElement
      <3> HIDE DEF new
      <3> QED
        BY <3>1, <3>2, <3>3 DEF Limited
    <2>3. Leaves(mem) \/ (Cardinality(mem.devices) < MaxDevices /\ Leaves(new))
      BY <1>6 DEF Pair, Paired, Saved, SaveFails, WriteFails, Leaves, Copies, stored
    <2> QED
      BY <1>1, <1>2, <2>2, <2>3
  <1>7. CASE ServerKilled \/ PowerFails
    BY <1>2, <1>7 DEF ServerKilled, PowerFails, Open, Leaves, Copies
  <1>8. ASSUME NEW a \in Admin, Request(a) PROVE Few'
    BY <1>2, <1>3, <1>4, <1>8 DEF Request, Connect, Apply, CloseDevices, AskForCode, StartPairing,
       CancelPairing, Close, ReleasePairing, Leaves, Copies, stored
  <1>9. ASSUME NEW n \in Net, Peer(n) PROVE Few'
    BY <1>2, <1>5, <1>6, <1>9 DEF Peer, Accept, Register, Check, Leave, Leaves, Copies, stored
  <1>10. CASE Age \/ UNCHANGED vars
    BY <1>2, <1>10 DEF Age, vars, stored, Leaves, Copies
  <1> QED
    BY <1>7, <1>8, <1>9, <1>10 DEF Next

-----------------------------------------------------------------------------
\* The inductive invariant.
Inv == Typed /\ Few /\ Following /\ Told /\ Out /\ Offering

\* The invariant holds when the first server starts.
LEMMA InvInit == Init => Inv
  <1> SUFFICES ASSUME Init PROVE Inv
    OBVIOUS
  <1>1. Typed
    BY TypedInit
  <1>2. Few
    <2>1. IsFiniteSet({}) /\ Cardinality({}) = 0
      BY FS_EmptySet
    <2>2. mem.devices = {} /\ \A s \in Copies : s = mem
      BY DEF Init, Copies
    <2>3. Limited(mem)
      BY <2>1, <2>2, RemoteAccessAssumption DEF Limited
    <2> QED
      BY <2>2, <2>3 DEF Few
  <1>3. Following /\ Told /\ Out /\ Offering
    BY DEF Init, Idle, Following, Told, Used, Copies, Closing, Out, Offering
  <1> QED
    BY <1>1, <1>2, <1>3 DEF Inv

\* Every step keeps the invariant.
LEMMA InvStep == ASSUME Inv, [Next]_vars PROVE Inv'
  <1>1. Typed'
    BY TypedStep DEF Inv
  <1> QED
    BY <1>1, FewStep, FollowingStep, ToldStep, OutStep, OfferingStep DEF Inv

\* The invariant holds in every state of every behaviour.
THEOREM Invariance == Spec => []Inv
  <1> QED
    BY InvInit, InvStep, PTL DEF Spec

\* The state keeps its types and at most MaxDevices devices are paired.
THEOREM TypeCorrect == Spec => []TypeOK
  <1>1. Inv => TypeOK
    BY DEF Inv, Typed, StoredSet, Few, Limited, Copies, TypeOK, StoredOK
  <1> QED
    BY <1>1, Invariance, PTL

\* A device whose revocation was answered has no connection and is never let in
\* again, whatever was under way and through kills and power losses, unless that
\* revocation repeated one that was not synced (revoke, save, serve_remote).
THEOREM RevokedDevicesStayOut == Spec => []RevokedStaysOut
  <1>1. Inv => RevokedStaysOut
    BY DEF Inv, Out, RevokedStaysOut
  <1> QED
    BY <1>1, Invariance, PTL

\* A device that was told its credential stays in memory and on disk until somebody
\* revokes it (pair_at, save, resume).
THEOREM PairedDevicesStayPaired == Spec => []PairedUntilRevoked
  <1>1. Inv => PairedUntilRevoked
    BY DEF Inv, Told, PairedUntilRevoked
  <1> QED
    BY <1>1, Invariance, PTL

\* While no settings are being written, access that is off has neither listener nor
\* network connection (configure, RemoteListener::apply).
THEOREM OffIsOff == Spec => []OffMeansOff
  <1>1. Inv => OffMeansOff
    BY DEF Inv, Typed, Following, OffMeansOff
  <1> QED
    BY <1>1, Invariance, PTL

\* A pairing code pairs one device, while its app is connected and no newer code was
\* offered (pair_at, release_pairing).
THEOREM CodesWorkOnce == Spec => CodeWorksOnce
  <1>1. ASSUME Inv, [Next]_vars PROVE [PairsOnce]_vars
    <2>1. UNCHANGED paired => PairsOnce
      BY DEF PairsOnce
    <2>2. ASSUME NEW n \in Net, NEW c \in 1..MaxCodes, Pair(n, c), paired' # paired PROVE PairsOnce
      <3>1. c \in shown /\ offer # None /\ offer.code = c /\ paired' = paired \cup {<<c, n>>}
        BY <2>2 DEF Pair, Paired
      <3>2. c = codes /\ app[offer.owner] # "gone" /\ \A m \in Net : <<c, m>> \notin paired
        BY <1>1, <3>1 DEF Inv, Offering
      <3> QED
        BY <3>1, <3>2 DEF PairsOnce
    <2>3. ASSUME NEW n \in Net, Peer(n), ~(\E c \in 1..MaxCodes : Pair(n, c)) PROVE UNCHANGED paired
      BY <2>3 DEF Peer, Accept, Authenticate, Register, Check, Leave, history
    <2>4. ASSUME NEW a \in Admin, Request(a) PROVE UNCHANGED paired
      BY <2>4 DEF Request, Connect, Configure, Apply, Revoke, Unpair, AlreadyUnpaired, CloseDevices, AskForCode,
         StartPairing, CancelPairing, Close, ReleasePairing, history
    <2>5. CASE Age \/ ServerKilled \/ PowerFails \/ UNCHANGED vars
      BY <2>1, <2>5 DEF Age, ServerKilled, PowerFails, Open, vars, history
    <2> QED
      BY <1>1, <2>1, <2>2, <2>3, <2>4, <2>5 DEF Next
  <1> QED
    BY <1>1, Invariance, PTL DEF Spec, CodeWorksOnce

-----------------------------------------------------------------------------
(* Saved content *)

\* Whose job this is, and whether somebody waits for it.
Owned(s, j) ==
  /\ answer[s] = "none" /\ stage[s] # "gone"
  /\ promised[s] # NoRecord => tries[s] > 0
  /\ j.op = "discard" => j.waited /\ j.content = NoRecord
  /\ j.waited =>
       \/ j.op = "save" /\ stage[s] = "saving" /\ j.content = version[s]
       \/ j.op = "discard" /\ stage[s] = "discarding"

Queued ==
  \A s \in Session :
    /\ \A i, j \in queue[s] : i = j
    /\ \A j \in queue[s] : Owned(s, j) /\ (~j.waited => stage[s] \in {"live", "ended"})

Handed ==
  /\ \A g, h \in hand : g = h
  /\ \A h \in hand :
       /\ Owned(h.session, h.job)
       /\ h.job.waited => queue[h.session] = {}
       /\ h.did \in {"renamed", "done"} => record[h.session] = h.job.content
       /\ h.did = "done" =>
            \/ durable[h.session] = h.job.content
            \/ h.job.op = "discard" /\ h.session \in lapsed

Settled ==
  \A s \in Session :
    /\ answer[s] # "none" => stage[s] \in {"saving", "discarding"}
    /\ stage[s] = "discarding" /\ answer[s] = "ok" =>
         record[s] = NoRecord /\ (durable[s] = NoRecord \/ s \in lapsed)
    /\ promised[s] # NoRecord => stage[s] \notin {"live", "saving"}

SavePromises == Queued /\ Handed /\ Settled /\ AnswerIsForLatest /\ DiskHoldsAnswers

SavesInv == ArchiveTypeOK /\ SavePromises

-----------------------------------------------------------------------------
HandRecord ==
  [session : Session, job : Job, did : {"nothing", "renamed", "done", "failed"}]

\* The invariant holds at first.
LEMMA SavesInvInit == ArchiveInit => SavesInv
  <1> SUFFICES ASSUME ArchiveInit PROVE SavesInv
    OBVIOUS
  <1>1. ArchiveTypeOK
    <2>1. /\ NoRecord \in Content /\ 0 \in Content
          /\ 0 \in 0 .. MaxTries /\ 0 \in 0 .. MaxCrashes
      BY SaveQueueAssumption DEF Content, NoRecord
    <2> QED
      BY <2>1 DEF ArchiveInit, ArchiveTypeOK
  <1> QED
    BY <1>1 DEF ArchiveInit, SavesInv, SavePromises, Queued, Handed, Settled, AnswerIsForLatest,
       DiskHoldsAnswers, SavedContentSurvives, DiscardedStaysGone, NoRecord

\* A step of the job in hand leaves that job, and no other, in hand.
LEMMA JobInHand ==
  ASSUME ArchiveTypeOK, Handed, NEW op, NEW from,
         NEW did \in {"nothing", "renamed", "done", "failed"}, Doing(op, from, did)
  PROVE  /\ InHand \in HandRecord /\ hand = {InHand}
         /\ InHand.job.op = op /\ InHand.did = from
         /\ hand' = {[InHand EXCEPT !.did = did]} /\ [InHand EXCEPT !.did = did] \in HandRecord
  <1>1. PICK h \in hand : h.job.op = op /\ h.did = from
    BY DEF Doing
  <1>2. InHand \in hand
    BY <1>1 DEF InHand
  <1>3. hand = {InHand} /\ InHand = h
    BY <1>1, <1>2 DEF Handed
  <1>4. InHand \in HandRecord
    BY <1>2 DEF ArchiveTypeOK, HandRecord
  <1>5. hand' = {[g EXCEPT !.did = did] : g \in hand}
    BY DEF Doing
  <1>6. hand' = {[InHand EXCEPT !.did = did]}
    BY <1>3, <1>5
  <1> QED
    BY <1>1, <1>3, <1>4, <1>6 DEF HandRecord

\* Submitting a job keeps the types (Archive::submit).
LEMMA SubmitTyped ==
  ASSUME ArchiveTypeOK, NEW s \in Session, NEW op \in {"save", "discard"}, NEW content \in Content,
         NEW waits \in BOOLEAN, Submit(s, op, content, waits)
  PROVE  queue' \in [Session -> SUBSET Job] /\ waking' \subseteq Session
  <1> DEFINE waited == waits \/ \E old \in queue[s] : old.waited
  <1>1. waited \in BOOLEAN
    BY DEF ArchiveTypeOK, Job
  <1>2. [op |-> op, content |-> content, waited |-> waited] \in Job
    BY <1>1 DEF Job
  <1>3. queue' = [queue EXCEPT ![s] = {[op |-> op, content |-> content, waited |-> waited]}]
    BY DEF Submit
  <1> QED
    BY <1>2, <1>3 DEF Submit, ArchiveTypeOK

\* Every action keeps the types, given the one job in hand (all of archive.rs).
LEMMA SavesTypedStep ==
  ASSUME ArchiveTypeOK, Handed, [ArchiveNext]_archiveVars
  PROVE  ArchiveTypeOK'
  <1>0. NoRecord \in Content
    BY SaveQueueAssumption DEF Content, NoRecord
  <1>1. ASSUME NEW s \in Session, Wake(s) \/ Return(s) \/ LastCheckpointFails(s)
        PROVE  ArchiveTypeOK'
    <2>1. CASE Wake(s) \/ LastCheckpointFails(s)
      BY <2>1 DEF ArchiveTypeOK, Wake, LastCheckpointFails, clientVars,
         workerVars, diskVars
    <2>2. CASE Return(s)
      <3>1. promised' \in [Session -> Content]
        BY <2>2 DEF ArchiveTypeOK, Return
      <3>2. stage' \in [Session -> {"live", "saving", "ended", "discarding", "gone"}]
        BY <2>2 DEF ArchiveTypeOK, Return
      <3> QED
        BY <2>2, <3>1, <3>2 DEF ArchiveTypeOK, Return, workerVars, diskVars
    <2> QED
      BY <1>1, <2>1, <2>2
  <1>2. ASSUME NEW s \in Session, Checkpoint(s) \/ LastCheckpoint(s) PROVE ArchiveTypeOK'
    <2>1. version' = [version EXCEPT ![s] = version[s] + 1] /\ version[s] < MaxSaves
      BY <1>2 DEF Checkpoint, LastCheckpoint
    <2>2. version \in [Session -> Content] /\ version[s] + 1 \in Content
      BY SaveQueueAssumption, <2>1 DEF ArchiveTypeOK, Content, NoRecord
    <2>3. version' \in [Session -> Content] /\ version'[s] = version[s] + 1
      BY <2>1, <2>2
    <2>4. queue' \in [Session -> SUBSET Job] /\ waking' \subseteq Session
      BY <1>2, <2>2, <2>3, SubmitTyped DEF Checkpoint, LastCheckpoint
    <2> QED
      BY <1>2, <2>3, <2>4 DEF ArchiveTypeOK, Checkpoint, LastCheckpoint, workerVars,
         diskVars
  <1>3. ASSUME NEW s \in Session, Discard(s) PROVE ArchiveTypeOK'
    <2>1. queue' \in [Session -> SUBSET Job] /\ waking' \subseteq Session
      BY <1>0, <1>3, SubmitTyped DEF Discard
    <2>2. tries[s] + 1 \in 0 .. MaxTries
      BY SaveQueueAssumption, <1>3 DEF Discard, ArchiveTypeOK
    <2> QED
      BY <1>3, <2>1, <2>2 DEF ArchiveTypeOK, Discard, workerVars, diskVars
  <1>4. CASE Disconnect \/ Receive \/ Sleep
    BY <1>4 DEF ArchiveTypeOK, Disconnect, Receive, Sleep, clientVars,
       diskVars
  <1>5. ASSUME NEW s \in Session, Take(s) PROVE ArchiveTypeOK'
    <2>1. hand' \subseteq HandRecord
      BY <1>5 DEF ArchiveTypeOK, Take, HandRecord
    <2> QED
      BY <1>5, <2>1 DEF ArchiveTypeOK, Take, HandRecord, clientVars, diskVars
  <1>6. ASSUME NEW op \in {"save", "discard"}, NEW from,
               NEW did \in {"nothing", "renamed", "done", "failed"}, Doing(op, from, did),
               record' \in [Session -> Content], durable' \in [Session -> Content],
               lapsed' \subseteq Session
        PROVE  ArchiveTypeOK'
    <2>1. hand' \subseteq HandRecord
      BY <1>6, JobInHand
    <2> QED
      BY <1>6, <2>1 DEF ArchiveTypeOK, Doing, HandRecord, clientVars
  <1>7. CASE Rename
    <2>1. InHand.job.content \in Content
      BY <1>7, JobInHand DEF Rename, HandRecord, Job
    <2> QED
      BY <1>6, <1>7, <2>1 DEF Rename, ArchiveTypeOK
  <1>8. CASE Remove
    <2>1. PICK did \in {"done", "renamed"} : Doing("discard", "nothing", did)
      BY <1>8 DEF Remove
    <2>2. InHand.session \in Session
      BY <2>1, JobInHand DEF HandRecord
    <2> QED
      BY <1>0, <1>6, <1>8, <2>1, <2>2 DEF Remove, ArchiveTypeOK
  <1>9. CASE Sync
    BY <1>6, <1>9 DEF Sync, ArchiveTypeOK
  <1>10. CASE Fail
    BY <1>6, <1>10 DEF Fail, ArchiveTypeOK, diskVars
  <1>11. CASE Complete
    BY <1>11 DEF Complete, ArchiveTypeOK, diskVars
  <1>12. CASE Kill \/ PowerLoss
    <2>1. Recover /\ record' \in [Session -> Content] /\ durable' \in [Session -> Content]
          /\ lapsed' \subseteq Session
      BY <1>12 DEF Kill, PowerLoss, ArchiveTypeOK, diskVars
    <2>2. crashes' \in 0 .. MaxCrashes
      BY SaveQueueAssumption, <2>1 DEF Recover, ArchiveTypeOK
    <2>3. stage' \in [Session -> {"live", "saving", "ended", "discarding", "gone"}]
          /\ answer' \in [Session -> {"none", "ok", "error"}]
          /\ queue' \in [Session -> SUBSET Job]
      BY <2>1 DEF Recover
    <2> QED
      BY <2>1, <2>2, <2>3 DEF Recover, ArchiveTypeOK
  <1>13. CASE UNCHANGED archiveVars
    BY <1>13 DEF ArchiveTypeOK, archiveVars, clientVars, workerVars, diskVars
  <1> QED
    BY <1>1, <1>2, <1>3, <1>4, <1>5, <1>7, <1>8, <1>9, <1>10, <1>11, <1>12, <1>13 DEF ArchiveNext,
       Submitter, Writer

\* The job that a submission replaces has nobody waiting for it (Archive::submit).
LEMMA SubmitFresh ==
  ASSUME SavesInv, NEW s \in Session, stage[s] \in {"live", "ended"}, NEW op, NEW content,
         NEW waits \in BOOLEAN, Submit(s, op, content, waits)
  PROVE  queue' = [queue EXCEPT ![s] = {[op |-> op, content |-> content, waited |-> waits]}]
  <1>1. \A old \in queue[s] : ~old.waited
    BY DEF SavesInv, SavePromises, ArchiveTypeOK, Queued, Owned, Job
  <1>2. (waits \/ \E old \in queue[s] : old.waited) = waits
    BY <1>1
  <1> QED
    BY <1>2 DEF Submit

\* Submitters keep the invariant: a job replaces another only while nobody waits.
LEMMA SubmitterStep ==
  ASSUME SavesInv, ArchiveTypeOK', NEW s \in Session,
         \/ Wake(s) \/ Return(s)
         \/ Checkpoint(s) \/ LastCheckpoint(s) \/ LastCheckpointFails(s) \/ Discard(s)
  PROVE  SavePromises'
  <1>0. ASSUME stage[s] \in {"live", "ended"}, NEW op, NEW content, NEW waits \in BOOLEAN,
               Submit(s, op, content, waits)
        PROVE  /\ queue' = [queue EXCEPT
                              ![s] = {[op |-> op, content |-> content, waited |-> waits]}]
               /\ queue'[s] = {[op |-> op, content |-> content, waited |-> waits]}
               /\ \A t \in Session \ {s} : queue'[t] = queue[t]
    BY <1>0, SubmitFresh DEF SavesInv, SavePromises, ArchiveTypeOK
  <1> USE DEF SavesInv, SavePromises, ArchiveTypeOK, AnswerIsForLatest, DiskHoldsAnswers,
  SavedContentSurvives,
              DiscardedStaysGone, NoRecord
  <1>1. CASE Wake(s)
    BY <1>1 DEF Wake, clientVars, diskVars, Queued, Handed, Settled, Owned
  <1>2. CASE Return(s)
    <2>1. Queued'
      BY <1>2 DEF Return, workerVars, diskVars, Queued, Handed, Settled, Owned,
         Job
    <2>2. Handed'
      BY <1>2 DEF Return, workerVars, diskVars, Queued, Handed, Settled, Owned,
         Job
    <2>3. Settled'
      BY <1>2 DEF Return, workerVars, diskVars, Queued, Handed, Settled, Owned,
         Job
    <2>4. AnswerIsForLatest' /\ DiskHoldsAnswers'
      BY <1>2 DEF Return, workerVars, diskVars, Queued, Handed, Settled, Owned,
         Job
    <2> QED
      BY <2>1, <2>2, <2>3, <2>4
  <1>3. CASE LastCheckpointFails(s)
    <2>1. Queued'
      BY <1>3 DEF LastCheckpointFails, workerVars, diskVars, Queued, Handed, Settled,
         Owned, Job
    <2>2. Handed'
      BY <1>3 DEF LastCheckpointFails, workerVars, diskVars, Queued, Handed, Settled,
         Owned, Job
    <2>3. Settled'
      BY <1>3 DEF LastCheckpointFails, workerVars, diskVars, Queued, Handed, Settled,
         Owned, Job
    <2>4. AnswerIsForLatest' /\ DiskHoldsAnswers'
      BY <1>3 DEF LastCheckpointFails, workerVars, diskVars, Queued, Handed, Settled,
         Owned, Job
    <2> QED
      BY <2>1, <2>2, <2>3, <2>4
  <1>4. CASE Checkpoint(s)
    <2>1. Queued'
      <3>1. /\ queue'[s] = {[op |-> "save", content |-> version'[s], waited |-> FALSE]}
            /\ \A t \in Session \ {s} : queue'[t] = queue[t]
        BY <1>0, <1>4 DEF Checkpoint
      <3> SUFFICES ASSUME NEW t \in Session, NEW i \in queue'[t], NEW j \in queue'[t]
                   PROVE  /\ i = j
                          /\ Owned(t, j)'
                          /\ ~j.waited => stage'[t] \in {"live", "ended"}
        BY DEF Queued
      <3>2. CASE t = s
        <4>1. i = j /\ j = [op |-> "save", content |-> version'[s], waited |-> FALSE]
          BY <3>1, <3>2
        <4>2. /\ answer'[s] = "none" /\ stage'[s] = "live"
              /\ promised'[s] # NoRecord => tries'[s] > 0
          BY <1>4 DEF Checkpoint, Settled
        <4> QED
          BY <3>2, <4>1, <4>2 DEF Owned
      <3>3. CASE t # s
        BY <1>4, <3>1, <3>3 DEF Checkpoint, workerVars, diskVars, Queued, Owned
      <3> QED
        BY <3>2, <3>3
    <2>2. Handed'
      BY <1>4 DEF Checkpoint, Submit, workerVars, diskVars, Queued, Handed,
         Settled, Owned, Job
    <2>3. Settled'
      BY <1>4 DEF Checkpoint, Submit, workerVars, diskVars, Queued, Handed,
         Settled, Owned, Job
    <2>4. AnswerIsForLatest' /\ DiskHoldsAnswers'
      BY <1>4 DEF Checkpoint, Submit, workerVars, diskVars, Queued, Handed,
         Settled, Owned, Job
    <2> QED
      BY <2>1, <2>2, <2>3, <2>4
  <1>5. CASE LastCheckpoint(s)
    <2>1. Queued'
      <3>1. /\ queue'[s] = {[op |-> "save", content |-> version'[s], waited |-> TRUE]}
            /\ \A t \in Session \ {s} : queue'[t] = queue[t]
        BY <1>0, <1>5 DEF LastCheckpoint
      <3> SUFFICES ASSUME NEW t \in Session, NEW i \in queue'[t], NEW j \in queue'[t]
                   PROVE  /\ i = j
                          /\ Owned(t, j)'
                          /\ ~j.waited => stage'[t] \in {"live", "ended"}
        BY DEF Queued
      <3>2. CASE t = s
        <4>1. i = j /\ j = [op |-> "save", content |-> version'[s], waited |-> TRUE]
          BY <3>1, <3>2
        <4>2. /\ answer'[s] = "none" /\ stage'[s] = "saving"
              /\ promised'[s] # NoRecord => tries'[s] > 0
          BY <1>5 DEF LastCheckpoint, Settled
        <4> QED
          BY <3>2, <4>1, <4>2 DEF Owned
      <3>3. CASE t # s
        BY <1>5, <3>1, <3>3 DEF LastCheckpoint, workerVars, diskVars, Queued, Owned
      <3> QED
        BY <3>2, <3>3
    <2>2. Handed'
      BY <1>5 DEF LastCheckpoint, Submit, workerVars, diskVars, Queued, Handed,
         Settled, Owned, Job
    <2>3. Settled'
      BY <1>5 DEF LastCheckpoint, Submit, workerVars, diskVars, Queued, Handed,
         Settled, Owned, Job
    <2>4. AnswerIsForLatest' /\ DiskHoldsAnswers'
      BY <1>5 DEF LastCheckpoint, Submit, workerVars, diskVars, Queued, Handed,
         Settled, Owned, Job
    <2> QED
      BY <2>1, <2>2, <2>3, <2>4
  <1>6. CASE Discard(s)
    <2>1. Queued'
      <3>1. /\ queue'[s] = {[op |-> "discard", content |-> NoRecord, waited |-> TRUE]}
            /\ \A t \in Session \ {s} : queue'[t] = queue[t]
        BY <1>0, <1>6 DEF Discard
      <3> SUFFICES ASSUME NEW t \in Session, NEW i \in queue'[t], NEW j \in queue'[t]
                   PROVE  /\ i = j
                          /\ Owned(t, j)'
                          /\ ~j.waited => stage'[t] \in {"live", "ended"}
        BY DEF Queued
      <3>2. CASE t = s
        <4>1. i = j /\ j = [op |-> "discard", content |-> NoRecord, waited |-> TRUE]
          BY <3>1, <3>2
        <4>2. /\ answer'[s] = "none" /\ stage'[s] = "discarding"
              /\ promised'[s] # NoRecord => tries'[s] > 0
          BY <1>6 DEF Discard, Settled
        <4> QED
          BY <3>2, <4>1, <4>2 DEF Owned
      <3>3. CASE t # s
        BY <1>6, <3>1, <3>3 DEF Discard, workerVars, diskVars, Queued, Owned
      <3> QED
        BY <3>2, <3>3
    <2>2. Handed'
      BY <1>6 DEF Discard, Submit, workerVars, diskVars, Queued, Handed, Settled,
         Owned, Job
    <2>3. Settled'
      BY <1>6 DEF Discard, Submit, workerVars, diskVars, Queued, Handed, Settled,
         Owned, Job
    <2>4. AnswerIsForLatest' /\ DiskHoldsAnswers'
      BY <1>6 DEF Discard, Submit, workerVars, diskVars, Queued, Handed, Settled,
         Owned, Job
    <2> QED
      BY <2>1, <2>2, <2>3, <2>4
  <1> QED
    BY <1>1, <1>2, <1>3, <1>4, <1>5, <1>6

\* The worker keeps the invariant: what it answers is on the disk.
LEMMA WriterStep == ASSUME SavesInv, ArchiveTypeOK', Writer PROVE SavePromises'
  <1> USE DEF SavesInv, SavePromises, ArchiveTypeOK, AnswerIsForLatest, DiskHoldsAnswers,
  SavedContentSurvives,
              DiscardedStaysGone
  <1>1. CASE Receive \/ Sleep
    BY <1>1 DEF Receive, Sleep, clientVars, diskVars, Queued, Handed, Settled,
       Owned
  <1>2. ASSUME NEW s \in Session, Take(s) PROVE SavePromises'
    <2>1. Queued'
      BY <1>2 DEF Take, clientVars, diskVars, Queued, Handed, Settled, Owned, Job
    <2>2. Handed'
      BY <1>2 DEF Take, clientVars, diskVars, Queued, Handed, Settled, Owned, Job
    <2>3. Settled'
      BY <1>2 DEF Take, clientVars, diskVars, Queued, Handed, Settled, Owned, Job
    <2>4. AnswerIsForLatest' /\ DiskHoldsAnswers'
      BY <1>2 DEF Take, clientVars, diskVars, Queued, Handed, Settled, Owned, Job
    <2> QED
      BY <2>1, <2>2, <2>3, <2>4
  <1>3. CASE Rename
    <2>1. InHand \in HandRecord /\ hand = {InHand} /\ InHand.job.op = "save"
          /\ hand' = {[InHand EXCEPT !.did = "renamed"]}
      BY <1>3, JobInHand DEF Rename
    <2> QED
      BY <1>3, <2>1 DEF Rename, Doing, HandRecord, clientVars, Queued, Handed, Settled,
         Owned
  <1>4. CASE Remove
    <2>1. PICK did \in {"done", "renamed"} :
            /\ Doing("discard", "nothing", did)
            /\ did = IF record[InHand.session] = NoRecord THEN "done" ELSE "renamed"
      BY <1>4 DEF Remove
    <2>2. InHand \in HandRecord /\ hand = {InHand} /\ InHand.job.op = "discard"
          /\ hand' = {[InHand EXCEPT !.did = did]}
      BY <2>1, JobInHand
    <2> QED
      BY <1>4, <2>1, <2>2 DEF Remove, Doing, HandRecord, clientVars, Queued, Handed,
         Settled, Owned
  <1>5. CASE Sync
    <2>1. PICK op \in {"save", "discard"} : Doing(op, "renamed", "done")
      BY <1>5 DEF Sync
    <2>2. InHand \in HandRecord /\ hand = {InHand} /\ InHand.did = "renamed"
          /\ hand' = {[InHand EXCEPT !.did = "done"]}
      BY <2>1, JobInHand
    <2> QED
      BY <1>5, <2>1, <2>2 DEF Sync, Doing, HandRecord, clientVars, Queued, Handed,
         Settled, Owned
  <1>6. CASE Fail
    <2>1. PICK op \in {"save", "discard"}, from \in {"nothing", "renamed"} :
            Doing(op, from, "failed")
      BY <1>6 DEF Fail
    <2>2. InHand \in HandRecord /\ hand = {InHand} /\ hand' = {[InHand EXCEPT !.did = "failed"]}
      BY <2>1, JobInHand
    <2> QED
      BY <1>6, <2>1, <2>2 DEF Fail, Doing, HandRecord, clientVars, diskVars,
         Queued, Handed, Settled, Owned
  <1>7. CASE Complete
    <2>1. Queued'
      BY <1>7 DEF Complete, diskVars, Queued, Handed, Settled, Owned, Job
    <2>2. Handed'
      BY <1>7 DEF Complete, diskVars, Queued, Handed, Settled, Owned, Job
    <2>3. Settled'
      BY <1>7 DEF Complete, diskVars, Queued, Handed, Settled, Owned, Job
    <2>4. AnswerIsForLatest' /\ DiskHoldsAnswers'
      BY <1>7 DEF Complete, diskVars, Queued, Handed, Settled, Owned, Job
    <2> QED
      BY <2>1, <2>2, <2>3, <2>4
  <1> QED
    BY <1>1, <1>2, <1>3, <1>4, <1>5, <1>6, <1>7 DEF Writer

\* A kill or a power loss keeps the invariant: what was answered is durable.
LEMMA RestartStep == ASSUME SavesInv, ArchiveTypeOK', Kill \/ PowerLoss PROVE SavePromises'
  <1> USE DEF SavesInv, SavePromises, ArchiveTypeOK, AnswerIsForLatest, DiskHoldsAnswers,
  SavedContentSurvives,
              DiscardedStaysGone
  <1>1. CASE Kill
    BY <1>1 DEF Kill, Recover, diskVars, Queued, Handed, Settled
  <1>2. CASE PowerLoss
    BY <1>2 DEF PowerLoss, Recover, Queued, Handed, Settled
  <1> QED
    BY <1>1, <1>2

\* The invariant holds in every state.
LEMMA SavesInvHolds == ArchiveSpec => []SavesInv
  <1>1. ASSUME SavesInv, [ArchiveNext]_archiveVars PROVE SavesInv'
    <2>1. ArchiveTypeOK'
      BY <1>1, SavesTypedStep DEF SavesInv, SavePromises
    <2>2. CASE Submitter
      BY <1>1, <2>1, <2>2, SubmitterStep DEF Submitter, SavesInv
    <2>3. CASE Writer
      BY <1>1, <2>1, <2>3, WriterStep DEF SavesInv
    <2>4. CASE Disconnect \/ UNCHANGED archiveVars
      BY <1>1, <2>1, <2>4 DEF Disconnect, archiveVars, clientVars, workerVars,
         diskVars, SavesInv, SavePromises, ArchiveTypeOK, Queued, Handed, Settled, Owned,
         AnswerIsForLatest, DiskHoldsAnswers, SavedContentSurvives,
         DiscardedStaysGone
    <2>5. CASE Kill \/ PowerLoss
      BY <1>1, <2>1, <2>5, RestartStep DEF SavesInv
    <2> QED
      BY <1>1, <2>2, <2>3, <2>4, <2>5 DEF ArchiveNext
  <1> QED
    BY <1>1, SavesInvInit, PTL DEF ArchiveSpec

-----------------------------------------------------------------------------
\* The archive's state keeps its types (archive.rs, fs.rs).
THEOREM SavesTypeCorrect == ArchiveSpec => []ArchiveTypeOK
  <1> QED
    BY SavesInvHolds, PTL DEF SavesInv, SavePromises

\* A session whose last save is answered with success has that very content on the
\* disk, synced, whichever older saves were queued, replaced or under way
\* (Archive::submit and write_jobs).
THEOREM AnswersAreForTheLatest == ArchiveSpec => []AnswerIsForLatest
  <1> QED
    BY SavesInvHolds, PTL DEF SavesInv, SavePromises

\* Saved content that was answered survives kills and power losses until it is
\* discarded, and discarded content does not come back, unless it was discarded
\* again before its removal was synced (write_atomic_with and discard_record).
THEOREM TheDiskKeepsItsAnswers == ArchiveSpec => []DiskHoldsAnswers
  <1> QED
    BY SavesInvHolds, PTL DEF SavesInv, SavePromises
=============================================================================
