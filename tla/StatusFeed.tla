----------------------------- MODULE StatusFeed -----------------------------
(***************************************************************************)
(* MQTTClient (mqtt_client.go): the shared PrinterStatus, the subscribers  *)
(* that receive copies of it, and the commands that read or write it.      *)
(*                                                                         *)
(* Several goroutines meet here: message handlers run by the mq library    *)
(* (Handlers), goroutines that subscribe, receive and cancel (Subs) and    *)
(* goroutines that issue commands (Callers).  They are ordered by one      *)
(* sync.RWMutex, m.mu.  A section under the write lock is one action, with *)
(* the guard NoReader: no goroutine is inside a read section.  The only    *)
(* long read section, the loop of broadcastStatus, is one action per       *)
(* channel operation.                                                      *)
(***************************************************************************)
EXTENDS Integers, Sequences

CONSTANTS
  Subs,         \* subscription ids (m.nextSubID never reuses one)
  Handlers,     \* concurrent invocations of onMessage
  Callers,      \* goroutines that call SetChamberLight or Set...Temperature
  Cap,          \* capacity of a subscriber's channel (16 in the code)
  Messages,     \* the reports the printer may publish
  MaxMsgs,      \* bound: reports delivered in a behaviour
  MaxCommands,  \* bound: commands issued in a behaviour
  SerialModel,  \* InferModelFromSerial(m.Serial), "" if it tells nothing
  Printer,      \* the model the printer really is
  BedCap,       \* max_bed_temp of printer_capabilities.json, by model
  ChamberCap,   \* max_chamber_temp, by model; 0 where has_chamber_heater is false
  Temps         \* the temperatures commands ask for

DefaultBedLimit == 100
Models == DOMAIN BedCap
NoModel == ""
Lights == {"on", "off"}

\* m.status: DeviceModel, BedTempLimit, the light of LightsReport ("none": it is empty), and
\* whether there is fan or chamber telemetry.
Status == [model : Models \cup {NoModel}, bed : Nat, light : Lights \cup {"none"}, fans : BOOLEAN]
Blank == [model |-> NoModel, bed |-> 0, light |-> "none", fans |-> FALSE]

\* What onMessage tells apart in a report.  print: no print section, one that
\* cannot be decoded, or one that can (a field of the wrong type is skipped, so
\* the rest is still "ok").  carries: the fields of the status that are in it, with
\* their values.  info: no info section, one that is not the get_version reply, or
\* that reply; ota is the project of its "ota" module, "" if there is none.
MessageType ==
  [print : {"none", "bad", "ok"}, carries : SUBSET {"model", "bed", "light", "fans"}, values : Status,
   info : {"none", "other", "get_version"}, ota : Models \cup {NoModel}]

ASSUME CapAssumption == Cap \in Nat \ {0}
ASSUME BoundAssumption == MaxMsgs \in Nat /\ MaxCommands \in Nat
ASSUME ModelAssumption ==
  /\ BedCap \in [Models -> Nat \ {0}]
  /\ ChamberCap \in [Models -> Nat]
  /\ {"C11", "C12"} \subseteq Models
  /\ NoModel \notin Models
  /\ SerialModel \in Models \cup {NoModel}
  /\ Printer \in Models
ASSUME MessageAssumption == Messages \subseteq MessageType
ASSUME TempAssumption == Temps \subseteq Int
\* The P1P and the P1S have the same limits in printer_capabilities.json.
ASSUME P1Assumption == /\ BedCap["C11"] = BedCap["C12"]
                       /\ ChamberCap["C11"] = ChamberCap["C12"]

VARIABLES
  status,       \* m.status: model, bed (BedTempLimit), light, fans
  version,      \* how often m.status has been written since NewMQTTClient (ghost)
  subscribers,  \* m.subscribers: the ids in the map
  chan,         \* the buffered snapshots of each subscriber's channel, by their versions
  chanState,    \* "none" (not made yet), "open" or "closed"
  seen,         \* version of the snapshot each subscriber received last (ghost)
  lossy,        \* the last broadcast found the subscriber's channel full (ghost)
  pc,           \* where each handler is in onMessage
  msg,          \* the report each handler works on
  snapshot,     \* the version that statusCopy of each handler's broadcastStatus is a clone of
  todo,         \* subscribers its loop has still to send to
  received,     \* reports delivered so far
  merged,       \* version of the last status a report produced (ghost)
  told,         \* the model a report or a get_version reply has told last, "" before (ghost)
  identified,   \* a get_version reply has told the model (ghost)
  honest,       \* all that was delivered is true of the printer (ghost)
  caller,       \* what each caller is doing
  issued,       \* commands issued so far
  panicked      \* a send on a closed channel happened

feedVars == <<status, version, subscribers, chan, chanState, seen, lossy>>
handlerVars == <<pc, msg, snapshot, todo, received, merged, told, identified, honest>>
callerVars == <<caller, issued>>
vars == <<feedVars, handlerVars, callerVars, panicked>>

CallerType == [op : {"idle", "setLight", "setHeat"}, light : Lights \cup {"none"},
               heater : {"bed", "chamber"}, temp : Int, known : BOOLEAN]
NoMessage == [print |-> "none", carries |-> {}, values |-> Blank, info |-> "none", ota |-> NoModel]

Places == {"idle", "merge", "castPrint", "sendPrint", "info", "castInfo", "sendInfo"}
Sending == {"sendPrint", "sendInfo"}

\* Mutant: the subscribers are copied under the lock and sent to outside it.
NoReader_SendsUnlocked == TRUE

\* m.mu can be taken for writing: no broadcast holds it for reading.
NoReader == \A h \in Handlers : pc[h] \notin Sending

-----------------------------------------------------------------------------
(* Pure parts. *)

\* GetPrinterCapabilities(model).MaxBedTemp or its default.
GetBedTempLimit(model) == IF model \in Models THEN BedCap[model] ELSE DefaultBedLimit

\* Mutant: any model is promoted.
Promoted_Any(s) ==
  IF s.fans \/ s.light # "none"
  THEN [s EXCEPT !.model = "C12", !.bed = GetBedTempLimit("C12")] ELSE s

\* A P1-series base that shows fan or light telemetry is taken for a P1S.
Promoted(s) ==
  IF s.model \in {NoModel, "C11"} /\ (s.fans \/ s.light # "none")
  THEN [s EXCEPT !.model = "C12", !.bed = GetBedTempLimit("C12")]
  ELSE s

\* Mutant: the section is decoded into a new status.
Merged_Fresh(s, m) ==
  [model |-> IF "model" \in m.carries THEN m.values.model ELSE s.model,
   bed   |-> IF "bed" \in m.carries THEN m.values.bed ELSE 0,
   light |-> IF "light" \in m.carries THEN m.values.light ELSE "none",
   fans  |-> "fans" \in m.carries /\ m.values.fans]

\* json.Unmarshal into the live status: what the section carries overwrites, model and limit
\* as well, each by itself; a field it lacks keeps its value.
Merged(s, m) ==
  [model |-> IF "model" \in m.carries THEN m.values.model ELSE s.model,
   bed   |-> IF "bed" \in m.carries THEN m.values.bed ELSE s.bed,
   light |-> IF "light" \in m.carries THEN m.values.light ELSE s.light,
   fans  |-> IF "fans" \in m.carries THEN m.values.fans ELSE s.fans]

\* The model a get_version reply tells: the serial first, then the OTA project.
ModelOf(m) == IF SerialModel # NoModel THEN SerialModel ELSE m.ota

Identified(s, model) ==
  IF model = NoModel THEN s ELSE [s EXCEPT !.model = model, !.bed = GetBedTempLimit(model)]

\* The limit Set...Temperature checks against; a chamber without heater has none.
TempLimit(s, heater) ==
  CASE heater = "bed" -> IF s.bed = 0 THEN DefaultBedLimit ELSE s.bed
    [] heater = "chamber" -> IF s.model \in Models THEN ChamberCap[s.model] ELSE 0

P1Models == {"C11", "C12"}

\* The models that are as good as the printer's own: the models of the P1 series have the
\* same limits, and the same OTA project.
OwnModels == IF Printer \in P1Models THEN P1Models ELSE {Printer}

\* What a report says of model and limit is true of the printer.
TrueOfPrinter(m) ==
  /\ "model" \in m.carries => m.values.model \in OwnModels
  /\ "bed" \in m.carries => m.values.bed = BedCap[Printer]
  /\ m.info = "get_version" /\ ModelOf(m) # NoModel => ModelOf(m) \in OwnModels

SetStatus(s) == status' = s /\ version' = version + 1

-----------------------------------------------------------------------------
Idle == [op |-> "idle", light |-> "none", heater |-> "bed", temp |-> 0, known |-> FALSE]

Init ==
  /\ status = Blank
  /\ version = 1
  /\ subscribers = {}
  /\ chan = [s \in Subs |-> <<>>]
  /\ chanState = [s \in Subs |-> "none"]
  /\ seen = [s \in Subs |-> 0]
  /\ lossy = [s \in Subs |-> FALSE]
  /\ pc = [h \in Handlers |-> "idle"]
  /\ msg = [h \in Handlers |-> NoMessage]
  /\ snapshot = [h \in Handlers |-> 1]
  /\ todo = [h \in Handlers |-> {}]
  /\ received = 0
  /\ merged = 1
  /\ told = NoModel
  /\ identified = FALSE
  /\ honest = TRUE
  /\ caller = [c \in Callers |-> Idle]
  /\ issued = 0
  /\ panicked = FALSE

-----------------------------------------------------------------------------
(* Subscriptions. *)

\* Subscribe: a fresh channel enters the map under the write lock.
Subscribe(s) ==
  /\ NoReader
  /\ chanState[s] = "none"
  /\ subscribers' = subscribers \cup {s}
  /\ chanState' = [chanState EXCEPT ![s] = "open"]
  /\ seen' = [seen EXCEPT ![s] = version]
  /\ UNCHANGED <<status, version, chan, lossy, handlerVars, callerVars, panicked>>

\* Mutant: the channel is closed without the write lock.
Unsubscribe_NoLock(s) ==
  /\ s \in subscribers
  /\ subscribers' = subscribers \ {s}
  /\ chanState' = [chanState EXCEPT ![s] = "closed"]
  /\ UNCHANGED <<status, version, chan, seen, lossy, handlerVars, callerVars, panicked>>

\* unsubscribe: leaves the map and closes the channel under the write lock.
Unsubscribe(s) ==
  /\ NoReader
  /\ s \in subscribers
  /\ subscribers' = subscribers \ {s}
  /\ chanState' = [chanState EXCEPT ![s] = "closed"]
  /\ UNCHANGED <<status, version, chan, seen, lossy, handlerVars, callerVars, panicked>>

\* The subscriber's own goroutine receives; it does not after its Cancel.
Receive(s) ==
  /\ chanState[s] = "open"
  /\ chan[s] # <<>>
  /\ seen' = [seen EXCEPT ![s] = Head(chan[s])]
  /\ chan' = [chan EXCEPT ![s] = Tail(@)]
  /\ UNCHANGED <<status, version, subscribers, chanState, lossy, handlerVars, callerVars, panicked>>

-----------------------------------------------------------------------------
(* onMessage. *)

\* The wrapper is decoded; a report with neither section changes nothing.
OnMessage(h) ==
  /\ pc[h] = "idle"
  /\ received < MaxMsgs
  /\ received' = received + 1
  /\ \E m \in Messages :
       /\ msg' = [msg EXCEPT ![h] = m]
       /\ honest' = (honest /\ TrueOfPrinter(m))
       /\ pc' = [pc EXCEPT ![h] = IF m.print # "none" THEN "merge"
                                  ELSE IF m.info # "none" THEN "info" ELSE "idle"]
  /\ UNCHANGED <<feedVars, snapshot, todo, merged, told, identified, callerVars, panicked>>

\* An undecodable print section ends the handler: its info section is not read.
MergeFails(h) ==
  /\ pc[h] = "merge"
  /\ NoReader
  /\ msg[h].print = "bad"
  /\ pc' = [pc EXCEPT ![h] = "idle"]
  /\ UNCHANGED <<feedVars, msg, snapshot, todo, received, merged, told, identified, honest,
                 callerVars, panicked>>

\* Mutant: a partly decoded print section is merged but not broadcast.
MergePrint_NoBroadcast(h) ==
  /\ pc[h] = "merge"
  /\ NoReader
  /\ msg[h].print = "ok"
  /\ SetStatus(Promoted(Merged(status, msg[h])))
  /\ merged' = version + 1
  /\ told' = IF "model" \in msg[h].carries THEN msg[h].values.model ELSE told
  /\ pc' = [pc EXCEPT ![h] = "idle"]
  /\ UNCHANGED <<subscribers, chan, chanState, seen, lossy, msg, snapshot, todo, received,
                 identified, honest, callerVars, panicked>>

\* The print section is merged and the model promoted under the write lock.
MergePrint(h) ==
  /\ pc[h] = "merge"
  /\ NoReader
  /\ msg[h].print = "ok"
  /\ SetStatus(Promoted(Merged(status, msg[h])))
  /\ merged' = version + 1
  /\ told' = IF "model" \in msg[h].carries THEN msg[h].values.model ELSE told
  /\ pc' = [pc EXCEPT ![h] = "castPrint"]
  /\ UNCHANGED <<subscribers, chan, chanState, seen, lossy, msg, snapshot, todo, received,
                 identified, honest, callerVars, panicked>>

\* processInfo: only the get_version reply touches the status.
ProcessInfo(h) ==
  /\ pc[h] = "info"
  /\ IF msg[h].info = "get_version"
     THEN /\ NoReader
          /\ SetStatus(Identified(status, ModelOf(msg[h])))
          /\ merged' = version + 1
          /\ told' = IF ModelOf(msg[h]) # NoModel THEN ModelOf(msg[h]) ELSE told
          /\ identified' = (identified \/ ModelOf(msg[h]) # NoModel)
     ELSE UNCHANGED <<status, version, merged, told, identified>>
  /\ pc' = [pc EXCEPT ![h] = "castInfo"]
  /\ UNCHANGED <<subscribers, chan, chanState, seen, lossy, msg, snapshot, todo, received,
                 honest, callerVars, panicked>>

-----------------------------------------------------------------------------
(* broadcastStatus. *)

\* RLock and Clone.
BroadcastBegin(h) ==
  /\ pc[h] \in {"castPrint", "castInfo"}
  /\ pc' = [pc EXCEPT ![h] = IF @ = "castPrint" THEN "sendPrint" ELSE "sendInfo"]
  /\ snapshot' = [snapshot EXCEPT ![h] = version]
  /\ todo' = [todo EXCEPT ![h] = subscribers]
  /\ UNCHANGED <<feedVars, msg, received, merged, told, identified, honest,
                 callerVars, panicked>>

\* One iteration of the loop: a send that never blocks, or a panic.
BroadcastSend(h, s) ==
  /\ pc[h] \in Sending
  /\ s \in todo[h]
  /\ todo' = [todo EXCEPT ![h] = @ \ {s}]
  /\ IF chanState[s] = "closed"
     THEN panicked' = TRUE /\ UNCHANGED <<chan, lossy>>
     ELSE /\ lossy' = [lossy EXCEPT ![s] = Len(chan[s]) = Cap]
          /\ chan' = [chan EXCEPT ![s] = IF Len(@) < Cap THEN Append(@, snapshot[h]) ELSE @]
          /\ UNCHANGED panicked
  /\ UNCHANGED <<status, version, subscribers, chanState, seen, pc, msg, snapshot, received,
                 merged, told, identified, honest, callerVars>>

\* RUnlock; after the print broadcast comes the info section, if any.
BroadcastEnd(h) ==
  /\ pc[h] \in Sending
  /\ todo[h] = {}
  /\ pc' = [pc EXCEPT ![h] = IF @ = "sendPrint" /\ msg[h].info # "none" THEN "info" ELSE "idle"]
  /\ UNCHANGED <<feedVars, msg, snapshot, todo, received, merged, told, identified, honest,
                 callerVars, panicked>>

-----------------------------------------------------------------------------
(* Commands. *)

\* SetChamberLight publishes first.  A failed publish returns with no effect,
\* so only the successful one is a step.
PublishLight(c) ==
  /\ caller[c].op = "idle"
  /\ issued < MaxCommands
  /\ issued' = issued + 1
  /\ \E l \in Lights : caller' = [caller EXCEPT ![c] = [Idle EXCEPT !.op = "setLight", !.light = l]]
  /\ UNCHANGED <<feedVars, handlerVars, panicked>>

\* Then it shows the new mode, under the write lock and without a broadcast.
SetLightMode(c) ==
  /\ caller[c].op = "setLight"
  /\ NoReader
  /\ SetStatus([status EXCEPT !.light = caller[c].light])
  /\ caller' = [caller EXCEPT ![c] = Idle]
  /\ UNCHANGED <<subscribers, chan, chanState, seen, lossy, handlerVars, issued, panicked>>

\* Set...Temperature reads its limit in a read section of its own and refuses a
\* temperature above it.  known (ghost): a get_version reply came before the check.
CheckTemperature(c) ==
  /\ caller[c].op = "idle"
  /\ issued < MaxCommands
  /\ issued' = issued + 1
  /\ \E t \in Temps, heater \in {"bed", "chamber"} :
       /\ heater = "chamber" => status.model \in Models /\ ChamberCap[status.model] > 0
       /\ t \in 0..TempLimit(status, heater)
       /\ caller' = [caller EXCEPT ![c] = [Idle EXCEPT !.op = "setHeat", !.heater = heater,
                                                       !.temp = t, !.known = identified]]
  /\ UNCHANGED <<feedVars, handlerVars, panicked>>

\* ... and sends the G-code afterwards, without looking at the limit again.
PublishTemperature(c) ==
  /\ caller[c].op = "setHeat"
  /\ caller' = [caller EXCEPT ![c] = Idle]
  /\ UNCHANGED <<feedVars, handlerVars, issued, panicked>>

-----------------------------------------------------------------------------
\* One onMessage goroutine runs on.
HandlerStep(h) ==
  \/ MergeFails(h)
  \/ MergePrint(h)
  \/ ProcessInfo(h)
  \/ BroadcastBegin(h)
  \/ \E s \in Subs : BroadcastSend(h, s)
  \/ BroadcastEnd(h)

Next ==
  \/ \E s \in Subs : Subscribe(s) \/ Unsubscribe(s) \/ Receive(s)
  \/ \E h \in Handlers : OnMessage(h) \/ HandlerStep(h)
  \/ \E c \in Callers : \/ PublishLight(c) \/ SetLightMode(c)
                        \/ CheckTemperature(c) \/ PublishTemperature(c)

Spec == Init /\ [][Next]_vars

\* A handler that runs keeps running (its sends never block, and a pending
\* writer keeps new readers out of a sync.RWMutex), and so does a subscriber
\* with something to read.  Nothing makes the printer send another report.
Fairness == /\ \A h \in Handlers : WF_vars(HandlerStep(h))
            /\ \A s \in Subs : WF_vars(Receive(s))

FairSpec == Spec /\ Fairness

-----------------------------------------------------------------------------
TypeOK ==
  /\ status \in Status
  /\ version \in Nat
  /\ subscribers \subseteq Subs
  /\ chan \in [Subs -> Seq(Nat)]
  /\ \A s \in Subs : Len(chan[s]) <= Cap
  /\ chanState \in [Subs -> {"none", "open", "closed"}]
  /\ seen \in [Subs -> Nat]
  /\ lossy \in [Subs -> BOOLEAN]
  /\ pc \in [Handlers -> Places]
  /\ msg \in [Handlers -> MessageType]
  /\ snapshot \in [Handlers -> Nat]
  /\ todo \in [Handlers -> SUBSET Subs]
  /\ received \in 0..MaxMsgs
  /\ merged \in Nat
  /\ told \in Models \cup {NoModel}
  /\ identified \in BOOLEAN
  /\ honest \in BOOLEAN
  /\ caller \in [Callers -> CallerType]
  /\ issued \in 0..MaxCommands
  /\ panicked \in BOOLEAN

\* A cancel that races with a broadcast never makes the broadcast send on the
\* closed channel, which would end the process (broadcastStatus, unsubscribe).
NeverPanics == ~panicked

\* What one subscriber receives never goes back in time, and never predates its
\* Subscribe, although handlers broadcast concurrently (broadcastStatus clones
\* under the lock it sends under).
NeverBackwards == [][\A s \in Subs : seen'[s] >= seen[s]]_seen

\* The status claims the model that a report or a get_version reply has told last, however
\* the sections of several handlers alternate, except that a P1P, and a printer that has
\* told nothing, may be taken for a P1S (processInfo against onMessage's promotion).
ModelIsLastTold ==
  status.model = told \/ (told \in {NoModel, "C11"} /\ status.model = "C12")

CapOf(heater, model) == IF heater = "bed" THEN BedCap[model] ELSE ChamberCap[model]

\* A temperature that was checked after a get_version reply has told the model is, until it is
\* sent, within the printer's own limit and within the limit that would be checked by now,
\* whatever is merged and promoted between check and publish; as long as the printer tells
\* no other model or limit than its own (SetBedTemperature, SetChamberTemperature).
KnownTemperatureSafe ==
  honest => \A c \in Callers : caller[c].op = "setHeat" /\ caller[c].known =>
    /\ caller[c].temp \in 0..CapOf(caller[c].heater, Printer)
    /\ caller[c].temp \in 0..TempLimit(status, caller[c].heater)

\* In the end a subscriber whose last update was not dropped has received a
\* snapshot that includes every report merged so far: no path through onMessage
\* merges without broadcasting afterwards.
EventuallyCurrent ==
  \A s \in Subs : <>[](s \in subscribers /\ ~lossy[s] => seen[s] >= merged)

=============================================================================
