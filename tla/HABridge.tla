------------------------------ MODULE HABridge ------------------------------
(***************************************************************************)
(* The Home Assistant bridge (homeassistant/bridge.go): one Bridge between *)
(* the PrinterStatus updates of a client and the topics of an MQTT broker. *)
(*                                                                         *)
(* Its event loop (Loop) turns every status into discovery configurations, *)
(* a state message and a few topics of their own; the file sync goroutine  *)
(* and the refresh_files callback (Syncers) publish the configurations     *)
(* again; the light callback and the connection callbacks publish too.     *)
(* The broker and the printer are external: the broker keeps the last      *)
(* retained message of a topic, and what is published while the bridge's   *)
(* connection is broken is refused where the code waits for it and is lost *)
(* where it does not.                                                      *)
(***************************************************************************)
EXTENDS Integers, Sequences

CONSTANTS
  Loop,          \* the goroutine of Start
  Syncers,       \* goroutines that run syncFiles: the hourly one and callbacks of refresh_files
  Hourly,        \* the hourly one
  Reports,       \* the statuses the printer's updates carry
  Models,        \* model codes
  Heated,        \* the models with has_chamber_heater
  Printers,      \* the printers there may be: [serial, model, reports, happens], with
                 \* serial what InferModelFromSerial(b.serial) tells, "" if nothing, model
                 \* the one get_version gives, reports the statuses it sends, and happens
                 \* what may happen to it and to its bridge
  FileLists,     \* the file lists the SD card may have; NoFiles is the empty one
  NoFiles,       \* the option list ["None"]
  FirstLists,    \* those it may have when the bridge starts
  FirstUp,       \* whether the printer is connected then: TRUE for the web server,
                 \* FALSE for the ha command, which connects it afterwards
  Delta,         \* the minimal change of a temperature that is published
  None,
  MaxInputs,     \* bound: light commands, changes of the printer's connection and
                 \* of its SD card, together
  MaxFaults      \* bound: breaks of the bridge's connection, restarts of Home
                 \* Assistant and stops of the bridge, together

Lights == {"ON", "OFF"}
Stages == {"RUNNING", "PAUSE", "IDLE"}
Happenings == {"light", "refresh", "card", "power", "break", "restart", "stop"}
Topics == {"light", "availability", "hms", "online", "ams"}
Publishers == {Loop} \cup Syncers

\* What the loop tells apart in a status: fans stands for fan and chamber telemetry.
Status == [model : Models \cup {""}, fans : BOOLEAN, temp : Nat, stage : Stages,
           light : Lights \cup {None}, hms : BOOLEAN, ams : BOOLEAN]
Payload == [temp : Nat, stage : Stages]
Names == Models \cup {"", "Printer"}

ASSUME ModelAssumption ==
  /\ {"C11", "C12"} \subseteq Models
  /\ {"", "Printer"} \cap Models = {}
  /\ Printers \subseteq [serial : Models \cup {""}, model : Models, reports : SUBSET Reports,
                         happens : SUBSET Happenings]
  /\ Heated \subseteq Models
ASSUME ReportAssumption == Reports \subseteq Status
ASSUME NoneAssumption ==
  /\ None \notin Lights
  /\ None \notin BOOLEAN
  /\ None \notin Payload
  /\ Loop \notin Syncers
  /\ Hourly \in Syncers
ASSUME FileAssumption == NoFiles \in FileLists /\ FirstLists \subseteq FileLists
ASSUME StartAssumption == FirstUp \subseteq BOOLEAN
ASSUME DeltaAssumption == Delta \in Nat \ {0}
ASSUME BoundAssumption == MaxInputs \in Nat /\ MaxFaults \in Nat

VARIABLES
  pc,           \* where each publisher is
  status,       \* the status the loop works on, None in its select
  model,        \* b.model (b.haModel and b.displayName are set with it)
  discoveryOk,  \* b.discoveryOk
  files,        \* b.files
  job,          \* what each publisher has read for its publishDiscovery
  entitiesOk,   \* b.entitiesOk, all AMS entities as one
  lastTemp,     \* b.lastPubNozzleTemp; None while hasLastPubState is false
  lastPayload,  \* b.lastStatePayload
  due,          \* 60 seconds have passed since b.lastStateTime
  lastAvail,    \* b.lastActionAvail
  lastLight,    \* b.lastLight
  pending,      \* the light state the loop has recorded and not published
  lastHMS,      \* b.lastHMSActive
  config,       \* broker: the retained configuration of each entity
  topic,        \* broker: light, availability, hms, online and ams as last seen there
  shown,        \* Home Assistant: the last state message it has received
  printer,      \* which of the Printers this one is
  card,         \* printer: the files on the SD card
  linked,       \* the bridge's connection: up, broken, or closed for good
  printerUp,    \* the printer's connection
  events,       \* connection callbacks that have not run yet
  callback,     \* the light callback: [at, light]
  cancelled,    \* the bridge's context
  inputs,       \* how many inputs there have been
  faults,       \* how many faults there have been
  lost,         \* topics whose last message did not arrive (ghost)
  mixed         \* topics two goroutines published at the same time (ghost)

brokerVars == <<config, topic, shown>>
loopVars == <<status, model, discoveryOk, entitiesOk, lastTemp, lastPayload, lastAvail, pending, lastHMS>>
envVars == <<printer, card, linked, printerUp, events, cancelled, inputs, faults>>
ghostVars == <<lost, mixed>>
vars == <<pc, job, files, lastLight, due, callback, brokerVars, loopVars, envVars, ghostVars>>

Entities == {"bed", "print_file", "chamber"}
\* The configurations a model gets, in order: the file selection, a limit, perhaps a heater.
EntitiesOf(name) ==
  <<"print_file", "bed">> \o (IF name \in Heated THEN <<"chamber">> ELSE <<>>)

\* A configuration: the device's model name and what the entity itself offers.
Config(e, j) == [device |-> j.device, offers |-> IF e = "print_file" THEN j.files ELSE j.model]

Connected == linked = "up"

\* A message nobody waits for: it reaches the broker or it is lost.
Publish(t, value) ==
  /\ topic' = IF Connected THEN [topic EXCEPT ![t] = value] ELSE topic
  /\ lost' = IF Connected THEN lost \ {t} ELSE lost \cup {t}

NoJob == [device |-> "", model |-> "", files |-> NoFiles, todo |-> <<>>]

Init ==
  /\ pc = [p \in Publishers |-> IF p = Loop THEN "start" ELSE "idle"]
  /\ status = None
  /\ model = ""
  /\ discoveryOk = FALSE
  /\ files = NoFiles
  /\ job = [p \in Publishers |-> NoJob]
  /\ entitiesOk = FALSE
  /\ lastTemp = None
  /\ lastPayload = None
  /\ due = TRUE
  /\ lastAvail = None
  /\ lastLight = None
  /\ pending = None
  /\ lastHMS = None
  /\ config = [e \in Entities |-> None]
  /\ topic = [t \in Topics |-> IF t = "online" THEN FALSE ELSE None]
  /\ shown = None
  /\ printer \in Printers
  /\ card \in FirstLists
  /\ linked = "up"
  /\ printerUp \in FirstUp
  /\ events = <<>>
  /\ callback = [at |-> "idle", light |-> "OFF"]
  /\ cancelled = FALSE
  /\ inputs = 0
  /\ faults = 0
  /\ lost = {}
  /\ mixed = {}

May(what) == what \in printer.happens

\* Bounded events.
Input(what) == May(what) /\ inputs < MaxInputs /\ inputs' = inputs + 1 /\ UNCHANGED faults
Fault(what) == May(what) /\ faults < MaxFaults /\ faults' = faults + 1 /\ UNCHANGED inputs

\* The loop is done with its status.
Selects == pc' = [pc EXCEPT ![Loop] = "select"] /\ status' = None

Goto(p, place) == pc' = [pc EXCEPT ![p] = place]
-----------------------------------------------------------------------------
(* The start and the event loop: which model, and whether to announce it. *)

\* Start has subscribed and asks whether the printer is connected ...
StartChecks ==
  /\ pc[Loop] = "start"
  /\ Goto(Loop, IF printerUp THEN "greet" ELSE "select")
  /\ UNCHANGED <<job, files, lastLight, due, callback, brokerVars, loopVars, envVars, ghostVars>>

\* ... and then publishes ON, whatever has happened in between.
StartGreets ==
  /\ pc[Loop] = "greet"
  /\ Publish("online", TRUE)
  /\ Goto(Loop, "select")
  /\ UNCHANGED <<job, files, lastLight, due, callback, config, shown, loopVars, envVars, mixed>>

HasTelemetry(s) == s.fans \/ s.light # None \/ s.temp > 0

\* The model of the status or the serial, promoted to P1S by fan or light telemetry.
Promoted(s) ==
  LET known == IF s.model = "" THEN printer.serial ELSE s.model
  IN IF known \in {"", "C11"} /\ (s.fans \/ s.light # None) THEN "C12" ELSE known

\* A P1S never becomes a P1P again.
NewModel(s) ==
  IF model = "C12" /\ Promoted(s) \in {"", "C11"} THEN model ELSE Promoted(s)

\* A P1-series base is not announced before telemetry tells which one it is.
Deferred(s) == ~discoveryOk /\ NewModel(s) \in {"", "C11"} /\ ~HasTelemetry(s)

Name(s) == IF NewModel(s) = "" THEN "Printer" ELSE NewModel(s)
Announce(s) == ~discoveryOk \/ (Name(s) # model /\ Name(s) # "Printer")

\* External: a status claims the printer's own model once get_version has told it, the
\* one it claimed before, or, before that, none or the C12 the MQTT client promotes to.
MayClaim(s) ==
  \/ s.model \in {printer.model, model}
  \/ s.model \in {"", "C12"} /\ model \in {"", "Printer", "C11"}

\* One status is taken from the subscription; b.model is set before it is announced.
ReceiveStatus ==
  /\ pc[Loop] = "select"
  /\ \E s \in printer.reports :
       /\ MayClaim(s) /\ ~Deferred(s)
       /\ status' = s
       /\ IF Announce(s)
          THEN /\ model' = Name(s)
               /\ job' = [job EXCEPT ![Loop].device = Name(s)]
               /\ Goto(Loop, "identify")
          ELSE Goto(Loop, "ams") /\ UNCHANGED <<model, job>>
  /\ UNCHANGED <<files, lastLight, due, callback, brokerVars, discoveryOk, entitiesOk, lastTemp,
                 lastPayload, lastAvail, pending, lastHMS, envVars, ghostVars>>

-----------------------------------------------------------------------------
(* publishDiscovery, by the loop or by syncFiles. *)

\* identity(), in a section of its own.
Identify(p) ==
  /\ pc[p] = "identify"
  /\ job' = [job EXCEPT ![p].model = model]
  /\ Goto(p, "files")
  /\ UNCHANGED <<files, lastLight, due, callback, brokerVars, loopVars, envVars, ghostVars>>

\* b.files, in the next one; then the configurations are made.
ReadFiles(p) ==
  /\ pc[p] = "files"
  /\ job' = [job EXCEPT ![p].files = files, ![p].todo = EntitiesOf(job[p].model)]
  /\ Goto(p, "publish")
  /\ UNCHANGED <<files, lastLight, due, callback, brokerVars, loopVars, envVars, ghostVars>>

\* One configuration is published, and waited for.
PublishEntity(p) ==
  /\ pc[p] = "publish"
  /\ Connected /\ ~cancelled
  /\ job[p].todo # <<>>
  /\ config' = [config EXCEPT ![Head(job[p].todo)] = Config(Head(job[p].todo), job[p])]
  /\ job' = [job EXCEPT ![p].todo = Tail(@)]
  /\ UNCHANGED <<pc, files, lastLight, due, callback, topic, shown, loopVars, envVars, ghostVars>>

\* Where the loop goes on, and where a syncer does.
AfterDiscovery(p, ok) == IF p # Loop THEN "idle" ELSE IF ok THEN "ams" ELSE "select"

\* A configuration cannot be published: the others are not tried, and b.model stays.
DiscoveryFails(p) ==
  /\ pc[p] = "publish"
  /\ job[p].todo # <<>>
  /\ ~Connected \/ cancelled
  /\ job' = [job EXCEPT ![p] = NoJob]
  /\ Goto(p, AfterDiscovery(p, discoveryOk))
  /\ status' = IF p = Loop /\ ~discoveryOk THEN None ELSE status
  /\ UNCHANGED <<files, lastLight, due, callback, brokerVars, model, discoveryOk, entitiesOk,
                 lastTemp, lastPayload, lastAvail, pending, lastHMS, envVars, ghostVars>>

DiscoveryEnds(p) ==
  /\ pc[p] = "publish"
  /\ job[p].todo = <<>>
  /\ discoveryOk' = (discoveryOk \/ p = Loop)
  /\ job' = [job EXCEPT ![p] = NoJob]
  /\ Goto(p, AfterDiscovery(p, TRUE))
  /\ UNCHANGED <<files, lastLight, due, callback, brokerVars, status, model, entitiesOk, lastTemp,
                 lastPayload, lastAvail, pending, lastHMS, envVars, ghostVars>>

-----------------------------------------------------------------------------
(* syncFiles. *)

\* GetFiles has listed the SD card; one that fails changes nothing.
ListFiles(p) ==
  /\ pc[p] = "idle"
  /\ ~cancelled
  /\ job' = [job EXCEPT ![p].files = card]
  /\ Goto(p, "listed")
  /\ UNCHANGED <<files, lastLight, due, callback, brokerVars, loopVars, envVars, ghostVars>>

\* The goroutine of Start does not list before discovery is out ...
SyncHourly == discoveryOk /\ ListFiles(Hourly)

\* ... but the refresh_files callback does, whenever the command comes.
RefreshFiles(p) == p # Hourly /\ May("refresh") /\ ListFiles(p)

\* Mutant: the options are published again only when the list has changed.
StoreFiles_IfChanged(p) ==
  /\ pc[p] = "listed"
  /\ files' = job[p].files
  /\ job' = [job EXCEPT ![p] = IF files' = files THEN NoJob ELSE [NoJob EXCEPT !.device = model]]
  /\ Goto(p, IF files' = files THEN "idle" ELSE "identify")
  /\ UNCHANGED <<lastLight, due, callback, brokerVars, loopVars, envVars, ghostVars>>

\* The list is stored and b.haModel read in one section.
StoreFiles(p) ==
  /\ pc[p] = "listed"
  /\ files' = job[p].files
  /\ job' = [job EXCEPT ![p] = [NoJob EXCEPT !.device = model]]
  /\ Goto(p, "identify")
  /\ UNCHANGED <<lastLight, due, callback, brokerVars, loopVars, envVars, ghostVars>>

-----------------------------------------------------------------------------
(* The state of the printer. *)

\* The AMS entities are recorded as announced whether or not the message arrives.
PublishAMSDiscovery ==
  /\ pc[Loop] = "ams"
  /\ Goto(Loop, "state")
  /\ IF status.ams /\ ~entitiesOk
     THEN entitiesOk' = TRUE /\ Publish("ams", TRUE)
     ELSE UNCHANGED <<entitiesOk, topic, lost>>
  /\ UNCHANGED <<job, files, lastLight, due, callback, config, shown, status, model, discoveryOk,
                 lastTemp, lastPayload, lastAvail, pending, lastHMS, envVars, mixed>>

Distance(a, b) == IF a < b THEN b - a ELSE a - b

\* filterHysteresisFloat: a small change shows the temperature published last.
Filtered(s) == IF lastTemp # None /\ Distance(s.temp, lastTemp) < Delta THEN lastTemp ELSE s.temp

PayloadOf(s) == [temp |-> Filtered(s), stage |-> s.stage]

\* The state message goes out when it differs from the last one, or after a minute.
MustPublish(s) == PayloadOf(s) # lastPayload \/ due

\* Mutant: the payload is recorded before it is known to have arrived.
PublishStateFails_Records ==
  /\ pc[Loop] = "state"
  /\ MustPublish(status)
  /\ ~Connected \/ cancelled
  /\ lastTemp' = Filtered(status)
  /\ lastPayload' = PayloadOf(status)
  /\ due' = FALSE
  /\ Selects
  /\ UNCHANGED <<job, files, lastLight, callback, brokerVars, model, discoveryOk,
                 entitiesOk, lastAvail, pending, lastHMS, envVars, ghostVars>>

\* It cannot be published: nothing else of this status is, but the filter has moved.
PublishStateFails ==
  /\ pc[Loop] = "state"
  /\ MustPublish(status)
  /\ ~Connected \/ cancelled
  /\ lastTemp' = Filtered(status)
  /\ Selects
  /\ UNCHANGED <<job, files, lastLight, due, callback, brokerVars, model, discoveryOk,
                 entitiesOk, lastPayload, lastAvail, pending, lastHMS, envVars, ghostVars>>

PublishState ==
  /\ pc[Loop] = "state"
  /\ MustPublish(status) => Connected /\ ~cancelled
  /\ lastTemp' = Filtered(status)
  /\ IF MustPublish(status)
     THEN shown' = PayloadOf(status) /\ lastPayload' = PayloadOf(status) /\ due' = FALSE
     ELSE UNCHANGED <<shown, lastPayload, due>>
  /\ Goto(Loop, "availability")
  /\ UNCHANGED <<job, files, lastLight, callback, config, topic, status, model, discoveryOk,
                 entitiesOk, lastAvail, pending, lastHMS, envVars, ghostVars>>

\* Which of pause, resume and stop the stage allows.
Available(stage) ==
  CASE stage = "RUNNING" -> {"pause", "stop"}
    [] stage = "PAUSE" -> {"resume", "stop"}
    [] OTHER -> {}

\* publishActionAvailability publishes and records what has changed; then
\* swapLastLight, if the status reports lights.
PublishAvailability ==
  /\ pc[Loop] = "availability"
  /\ Goto(Loop, "light")
  /\ lastAvail' = Available(status.stage)
  /\ IF lastAvail' # lastAvail THEN Publish("availability", lastAvail') ELSE UNCHANGED <<topic, lost>>
  /\ IF status.light \notin {None, lastLight}
     THEN lastLight' = status.light /\ pending' = status.light
     ELSE UNCHANGED <<lastLight, pending>>
  /\ UNCHANGED <<job, files, due, callback, config, shown, status, model, discoveryOk, entitiesOk,
                 lastTemp, lastPayload, lastHMS, envVars, mixed>>

\* The light and the HMS state, where they have changed.
PublishLightAndHMS ==
  LET changed == (IF pending # None THEN {"light"} ELSE {})
                 \cup (IF status.hms # lastHMS THEN {"hms"} ELSE {})
      sent == [topic EXCEPT !["light"] = IF pending # None THEN pending ELSE @, !["hms"] = status.hms]
  IN /\ pc[Loop] = "light"
     /\ Selects
     /\ pending' = None
     /\ lastHMS' = status.hms
     /\ topic' = IF Connected THEN [t \in Topics |-> IF t \in changed THEN sent[t] ELSE topic[t]] ELSE topic
     /\ lost' = IF Connected THEN lost \ changed ELSE lost \cup changed
     /\ mixed' = IF pending # None /\ callback.at = "swap" THEN mixed \cup {"light"} ELSE mixed
     /\ UNCHANGED <<job, files, lastLight, due, callback, config, shown, model, discoveryOk,
                    entitiesOk, lastTemp, lastPayload, lastAvail, envVars>>

-----------------------------------------------------------------------------
(* The light callback: the command is sent to the printer whether or not it
   succeeds, the new state is published, and only then recorded. *)
ReceiveLight ==
  /\ callback.at = "idle"
  /\ Connected
  /\ Input("light")
  /\ \E l \in Lights : callback' = [at |-> "publish", light |-> l]
  /\ UNCHANGED <<pc, job, files, lastLight, due, brokerVars, loopVars, printer, card, linked, printerUp,
                 events, cancelled, ghostVars>>

CallbackPublishes ==
  /\ callback.at = "publish"
  /\ Publish("light", callback.light)
  /\ mixed' = IF pending # None THEN mixed \cup {"light"} ELSE mixed
  /\ callback' = [callback EXCEPT !.at = "swap"]
  /\ UNCHANGED <<pc, job, files, lastLight, due, config, shown, loopVars, envVars>>

\* Mutant: the state the callback publishes is not recorded.
CallbackSwaps_Not ==
  /\ callback.at = "swap"
  /\ mixed' = IF pending # None THEN mixed \cup {"light"} ELSE mixed
  /\ callback' = [at |-> "idle", light |-> "OFF"]
  /\ UNCHANGED <<pc, job, files, lastLight, due, brokerVars, loopVars, envVars, lost>>

CallbackSwaps ==
  /\ callback.at = "swap"
  /\ lastLight' = callback.light
  /\ mixed' = IF pending # None THEN mixed \cup {"light"} ELSE mixed
  /\ callback' = [at |-> "idle", light |-> "OFF"]
  /\ UNCHANGED <<pc, job, files, due, brokerVars, loopVars, envVars, lost>>

-----------------------------------------------------------------------------
(* The online topic: the connection callbacks and Close. *)

\* One of the callbacks of SetConnectionHandlers, in the order of the events.
ConnectionCallback ==
  /\ events # <<>>
  /\ events' = Tail(events)
  /\ Publish("online", Head(events))
  /\ mixed' = IF pc[Loop] \in {"greet", "disconnect"} THEN mixed \cup {"online"} ELSE mixed
  /\ UNCHANGED <<pc, job, files, lastLight, due, callback, config, shown, loopVars, printer, card, linked,
                 printerUp, cancelled, inputs, faults>>

\* The loop sees the end of its context, and Close publishes OFF ...
CloseOffline ==
  /\ pc[Loop] = "select"
  /\ cancelled
  /\ Publish("online", FALSE)
  /\ Goto(Loop, "disconnect")
  /\ UNCHANGED <<job, files, lastLight, due, callback, config, shown, loopVars, envVars, mixed>>

\* ... and disconnects, which keeps the last will from being published.
CloseDisconnects ==
  /\ pc[Loop] = "disconnect"
  /\ linked' = "closed"
  /\ Goto(Loop, "ended")
  /\ UNCHANGED <<job, files, lastLight, due, callback, brokerVars, loopVars, printer, card, printerUp,
                 events, cancelled, inputs, faults, ghostVars>>

-----------------------------------------------------------------------------
(* The world around the bridge. *)

\* The printer's connection comes or goes, and a callback is due.
PrinterFlips ==
  /\ Input("power")
  /\ printerUp' = ~printerUp
  /\ events' = Append(events, printerUp')
  /\ UNCHANGED <<pc, job, files, lastLight, due, callback, brokerVars, loopVars, printer, card, linked,
                 cancelled, ghostVars>>

\* The bridge's connection breaks and the broker publishes its last will, OFF.
LinkBreaks ==
  /\ Connected
  /\ Fault("break")
  /\ linked' = "broken"
  /\ topic' = [topic EXCEPT !["online"] = FALSE]
  /\ lost' = lost \cup {"online"}
  /\ UNCHANGED <<pc, job, files, lastLight, due, callback, config, shown, loopVars, printer, card, printerUp,
                 events, cancelled, mixed>>

\* WithAutoReconnect: the library connects again; the bridge is not told.
LinkRestored ==
  /\ linked = "broken"
  /\ linked' = "up"
  /\ UNCHANGED <<pc, job, files, lastLight, due, callback, brokerVars, loopVars, printer, card, printerUp,
                 events, cancelled, inputs, faults, ghostVars>>

\* Home Assistant restarts: what was not retained is gone.
HARestarts ==
  /\ Fault("restart")
  /\ shown' = None
  /\ topic' = [topic EXCEPT !["hms"] = None]
  /\ lost' = lost \cup {"hms"}
  /\ UNCHANGED <<pc, job, files, lastLight, due, callback, config, loopVars, printer, card, linked, printerUp,
                 events, cancelled, mixed>>

CardChanges ==
  /\ Input("card")
  /\ \E l \in FileLists \ {card} : card' = l
  /\ UNCHANGED <<pc, job, files, lastLight, due, callback, brokerVars, loopVars, printer, linked,
                 printerUp, events, cancelled, ghostVars>>

MinutePasses ==
  /\ ~due
  /\ due' = TRUE
  /\ UNCHANGED <<pc, job, files, lastLight, callback, brokerVars, loopVars, envVars, ghostVars>>

\* The web server stops the bridge.
Cancel ==
  /\ ~cancelled
  /\ Fault("stop")
  /\ cancelled' = TRUE
  /\ UNCHANGED <<pc, job, files, lastLight, due, callback, brokerVars, loopVars, printer, card, linked,
                 printerUp, events, ghostVars>>

-----------------------------------------------------------------------------
DiscoveryStep(p) ==
  \/ Identify(p)
  \/ ReadFiles(p)
  \/ PublishEntity(p)
  \/ DiscoveryFails(p)
  \/ DiscoveryEnds(p)

LoopStep ==
  \/ StartChecks
  \/ StartGreets
  \/ ReceiveStatus
  \/ DiscoveryStep(Loop)
  \/ PublishAMSDiscovery
  \/ PublishStateFails
  \/ PublishState
  \/ PublishAvailability
  \/ PublishLightAndHMS
  \/ CloseOffline
  \/ CloseDisconnects

SyncStep(p) == (p = Hourly /\ SyncHourly) \/ StoreFiles(p) \/ DiscoveryStep(p)

CallbackStep == CallbackPublishes \/ CallbackSwaps

Next ==
  \/ LoopStep
  \/ \E p \in Syncers : SyncStep(p) \/ RefreshFiles(p)
  \/ ReceiveLight
  \/ CallbackStep
  \/ ConnectionCallback
  \/ PrinterFlips
  \/ LinkBreaks
  \/ LinkRestored
  \/ HARestarts
  \/ CardChanges
  \/ MinutePasses
  \/ Cancel

Spec == Init /\ [][Next]_vars

\* Goroutines go on running, the hourly sync lists the card again and again and does
\* not fail for ever, the library reconnects, time passes, and a printer that is
\* watched keeps sending updates. Nobody has to command a refresh.
Fairness ==
  /\ WF_vars(LoopStep)
  /\ \A p \in Syncers : WF_vars(SyncStep(p))
  /\ WF_vars(LinkRestored)
  /\ WF_vars(MinutePasses)

FairSpec == Spec /\ Fairness

-----------------------------------------------------------------------------
Places == {"start", "greet", "select", "identify", "files", "publish", "ams", "state",
           "availability", "light", "disconnect", "ended"}
SyncPlaces == {"idle", "listed", "identify", "files", "publish"}
JobType == [device : Names, model : Names, files : FileLists, todo : Seq(Entities)]

TypeOK ==
  /\ pc \in [Publishers -> Places \cup SyncPlaces]
  /\ \A p \in Publishers : pc[p] \in IF p = Loop THEN Places ELSE SyncPlaces
  /\ status \in Reports \cup {None}
  /\ model \in Names
  /\ discoveryOk \in BOOLEAN
  /\ files \in FileLists
  /\ job \in [Publishers -> JobType]
  /\ entitiesOk \in BOOLEAN
  /\ lastTemp \in Nat \cup {None}
  /\ lastPayload \in Payload \cup {None}
  /\ due \in BOOLEAN
  /\ lastAvail \in (SUBSET {"pause", "resume", "stop"}) \cup {None}
  /\ lastLight \in Lights \cup {None}
  /\ pending \in Lights \cup {None}
  /\ lastHMS \in BOOLEAN \cup {None}
  /\ config \in [Entities -> [device : Names, offers : Names \cup FileLists] \cup {None}]
  /\ DOMAIN topic = Topics
  /\ shown \in Payload \cup {None}
  /\ printer \in Printers
  /\ card \in FileLists
  /\ linked \in {"up", "broken", "closed"}
  /\ printerUp \in BOOLEAN
  /\ events \in Seq(BOOLEAN)
  /\ callback \in [at : {"idle", "publish", "swap"}, light : Lights]
  /\ cancelled \in BOOLEAN
  /\ inputs \in 0..MaxInputs
  /\ faults \in 0..MaxFaults
  /\ lost \subseteq Topics
  /\ mixed \subseteq Topics

\* However small changes add up and publishes fail, the temperature that Home
\* Assistant shows is less than Delta from the one of the last status that was
\* published, and its stage is that status's (publishState: the filter moves
\* before the publish, the payload is recorded after it).
ShownIsClose ==
  pc[Loop] \in {"availability", "light"} /\ shown # None =>
    Distance(shown.temp, status.temp) < Delta /\ shown.stage = status.stage

\* Between two statuses the topics that are only published on a change agree with what
\* the loop has recorded, and that with the stage of the last payload.
ChangesAgree ==
  pc[Loop] = "select" =>
    /\ "availability" \in lost \/ topic["availability"] = lastAvail
    /\ lastPayload # None => lastAvail = Available(lastPayload.stage)
    /\ "light" \in lost \cup mixed \/ callback.at = "swap" \/ topic["light"] = lastLight
    /\ "hms" \in lost \/ topic["hms"] = lastHMS
    /\ entitiesOk /\ "ams" \notin lost => topic["ams"] = TRUE

\* When no callback is due, online is the printer's connection, and OFF after Close.
OnlineAgrees ==
  events = <<>> /\ pc[Loop] \notin {"start", "greet"} /\ "online" \notin lost \cup mixed =>
    topic["online"] = (printerUp /\ pc[Loop] \notin {"disconnect", "ended"})

\* What Home Assistant sees on the topics that several goroutines publish, and that are
\* published on a change only, is what the bridge believes it sees there and what the
\* printer's connection is, unless the last message was lost, the last will has overwritten
\* it, or two goroutines met on the topic (publishActionAvailability, swapLastLight,
\* publishState, publishAMSDiscovery, Start, Close).
TopicsAgree == ChangesAgree /\ OnlineAgrees

Announced == \A i \in DOMAIN EntitiesOf(model) :
  config[EntitiesOf(model)[i]] =
    Config(EntitiesOf(model)[i], [device |-> model, model |-> model, files |-> card, todo |-> <<>>])

\* In the end Home Assistant has, and keeps, the configurations of the printer's
\* model and of the files on its card, and it shows a state, unless the bridge is
\* stopped: a failed announcement, a sync with a model read too early, two syncs
\* that store their lists in the wrong order and a restart of Home Assistant are
\* all repaired (Start, syncFiles, publishState).
Converges == <>[](cancelled \/ (Announced /\ shown # None))

=============================================================================
