--------------------------- MODULE PrinterControl ---------------------------
(***************************************************************************)
(* How the three front ends command a printer: the commands of MQTTClient  *)
(* (mqtt_client.go), and what calls them: the command line                 *)
(* (cmd/bambulan/main.go), the handlers of the web page (web.go) and the   *)
(* command callbacks of the Home Assistant bridge (bridge.go).             *)
(*                                                                         *)
(* One process at a time uses the printer: the MQTT client id is made of   *)
(* the serial number, so a second process would take over the connection   *)
(* of the first.  A process that ended may be followed by another.  What   *)
(* the printer answers is external, and it tells no model and no limit but *)
(* its own; the status its reports are merged into is reduced to what the  *)
(* front ends and the checks look at (StatusFeed has the locking).         *)
(***************************************************************************)
EXTENDS Filaments

CONSTANTS
  Caps,           \* nozzle, bed, chamber (0: no heater), aux, fan, by model
  Files, GcodeFiles, \* files one may print; those whose name ends in .gcode
  Cap,            \* capacity of a subscriber's channel (16 in the code)
  MaxSeconds,     \* bound: the clock
  Printers,       \* the printers one may have: model, ams
  Scripts,        \* bound: the tasks of the processes that follow one another, the
                  \* reports the printer sends unasked and the connections that break
  MaxCalls,       \* bound: commands a process issues
  Temps, Percents, Targets, Speeds, \* the numbers users ask for
  FilamentArgs    \* `ams filament`: type, id, setting, min, max, color, unit, slot

Models == DOMAIN Caps
DefaultCaps == [nozzle |-> 300, bed |-> 100, chamber |-> 0, aux |-> TRUE, fan |-> TRUE]
CapsType == [nozzle : Nat \ {0}, bed : Nat \ {0}, chamber : Nat, aux : BOOLEAN, fan : BOOLEAN]

TaskType == {"simple", "gcode", "filament", "print", "autoPrint", "dump", "serve"}

ASSUME CapsAssumption == /\ "" \notin Models
                         /\ \A m \in Models : Caps[m] \in CapsType
\* In printer_capabilities.json the P1P and the P1S differ in nothing that is here, and
\* neither heats its chamber.
ASSUME P1Assumption == /\ {"C11", "C12"} \subseteq Models
                       /\ Caps["C11"] = Caps["C12"] /\ Caps["C12"].chamber = 0
ASSUME BoundsAssumption ==
  /\ {MaxSeconds, MaxCalls} \subseteq Nat
  /\ Cap \in Nat \ {0}
ASSUME PrinterAssumption ==
  /\ Printers \subseteq [model : Models, ams : BOOLEAN]
  /\ Scripts \subseteq [tasks : Seq(TaskType), pushes : Nat, breaks : Nat]

VARIABLES
  clock,     \* time.Now().Unix(), counted from the first process
  process,   \* number, task, start time, calls made, tasks of the next ones
  seq,       \* m.seq
  link,      \* "down", "dialed" or "subscribed" (to the report topic)
  greet,     \* what onConnect's goroutine has still to request
  status,    \* m.status: model, limits of bed and nozzle, whether there is fan or light
             \* telemetry, id, result, command, ams; identified: a get_version reply has
             \* told this process the model (ghost)
  pageModel, \* the model web pages and the bridge work with
  channel,   \* the channel of the command's subscription
  pc,        \* where the process's command is
  awaited,   \* the sequence id the command waits for, 0 if none
  useAMS,    \* PrintStartCmd's useAMS
  profiles,  \* what LoadAll returned: {} or one outcome
  requests,  \* published, not yet handled by the printer
  reports,   \* published by the printer, not yet merged
  printer,   \* model, ams; ids of the process's requests it carried out or refused (external)
  used,      \* the sequence ids used so far, with their process (ghost)
  budget     \* pushes and breaks to come

clientVars == <<seq, link, greet, status, pageModel, channel>>
commandVars == <<pc, awaited, useAMS>>
wireVars == <<requests, reports, printer, used>>
vars == <<clock, process, clientVars, commandVars, wireVars, profiles, budget>>

Ended == {"success", "failed", "done"}
Blank == [model |-> "", bed |-> 0, nozzle |-> 0, telemetry |-> FALSE, id |-> 0, result |-> "",
          command |-> "", ams |-> FALSE, identified |-> FALSE]

-----------------------------------------------------------------------------
(* The commands of MQTTClient, as the payloads they publish: none if they    *)
(* refuse.  A float is given in tenths, and a line of G-code by its numbers. *)

Bit(b) == IF b THEN 1 ELSE 0
Publishes(section, command, names, nums) ==
  {[section |-> section, command |-> command, names |-> names, nums |-> nums]}
When(condition, payloads) == IF condition THEN payloads ELSE {}

KnownCaps(model) == IF model \in Models THEN Caps[model] ELSE DefaultCaps
Trays == (0..15) \cup {254}

DumpInfo == Publishes("pushing", "pushall", <<>>, <<>>)
GetVersion == Publishes("info", "get_version", <<>>, <<>>)
SendGCode(word, nums) == Publishes("print", "gcode_line", <<word>>, nums)
StartPrint(file, bed, options) ==
  Publishes("print", "project_file",
            <<IF file \in GcodeFiles THEN file ELSE "Metadata/plate_1.gcode", file, bed>>, options)
SetChamberLight(mode) == Publishes("system", "ledctrl", <<mode>>, <<>>)
PausePrint == Publishes("print", "pause", <<>>, <<>>)
ResumePrint == Publishes("print", "resume", <<>>, <<>>)
StopPrint == Publishes("print", "stop", <<>>, <<>>)
SetSpeedProfile(level) == Publishes("print", "print_speed", <<level>>, <<>>)
SetAMSFilament(a) ==
  Publishes("print", "ams_filament_setting", <<a.id, a.setting, a.color, a.type>>,
            <<a.unit, a.slot, a.slot, a.min, a.max>>)
UnloadFilament == Publishes("print", "unload_filament", <<>>, <<>>)
LoadFilament(target) ==
  When(target \in Trays, Publishes("print", "ams_change_filament", <<>>, <<target, 250, 250>>))
SendAMSControlCommand(param) ==
  When(param \in {"resume", "pause", "reset"}, Publishes("print", "ams_control", <<param>>, <<>>))
SetAMSUserSetting(unit) ==
  When(unit \in 0..3, Publishes("print", "ams_user_setting", <<>>, <<unit>>))
SetSpoolKFactor(tray, k) ==
  When(tray \in Trays /\ k >= 0, Publishes("print", "extrusion_cali_set", <<>>, <<tray>>))

PrintOptions == {"auto_recovery", "auto_switch_filament", "filament_tangle_detect", "sound_enable"}
SetPrintOption(option) ==
  When(option \in PrintOptions, Publishes("print", "print_option", <<option>>, <<>>))

SkipObjects(objects) == Publishes("print", "skip_objects", <<>>, objects)
SetBuildPlateMarkerDetector == Publishes("xcam", "xcam_control_set", <<>>, <<>>)
SetNozzleDetails(diameter, type) ==
  When(diameter \in {2, 4, 6, 8} /\ type \in {"hardened_steel", "stainless_steel"},
       Publishes("system", "set_accessories", <<type>>, <<diameter>>))

\* int(float64(percent) * 2.55): the product with the binary 2.55 falls short of 255.
FanValue(percent) == IF percent = 100 THEN 254 ELSE (255 * percent) \div 100
FanNumber == [part |-> 1, aux |-> 2, chamber |-> 3]
SetFanSpeed(fan, percent) ==
  LET v == FanValue(percent)
  IN When(percent \in 0..100 /\ (fan = "all" \/ fan \in DOMAIN FanNumber),
          SendGCode("M106", IF fan = "all" THEN <<1, v, 2, v, 3, v>> ELSE <<FanNumber[fan], v>>))

\* The limits are those of the status, or the defaults as long as it has none.
SetBedTemperature(temp) ==
  When(temp \in 0..OrElse(status.bed, DefaultCaps.bed), SendGCode("M140", <<temp>>))
SetNozzleTemperature(temp, tool) ==
  When(temp \in 0..OrElse(status.nozzle, DefaultCaps.nozzle),
       SendGCode("M104", IF tool > 0 THEN <<tool, temp>> ELSE <<temp>>))
SetChamberTemperature(temp) ==
  LET limit == KnownCaps(status.model).chamber
  IN When(limit > 0 /\ temp \in 0..limit, SendGCode("M191", <<temp>>))

-----------------------------------------------------------------------------
(* What a user of the command line can ask for, as the Run methods call it.  *)

OnOff == {TRUE, FALSE}
ChamberLightCmd == UNION {SetChamberLight(s) : s \in {"on", "off"}}
SpeedLevel == [silent |-> "1", standard |-> "2", sport |-> "3", ludicrous |-> "4"]
SpeedCmd == UNION {SetSpeedProfile(SpeedLevel[m]) : m \in DOMAIN SpeedLevel}
PrintSkipCmd == SkipObjects(<<1, 2>>)
ConfigOptionCmd == UNION {SetPrintOption(o) : o \in PrintOptions}
ConfigMarkerDetectorCmd == SetBuildPlateMarkerDetector
ConfigNozzleCmd == UNION {SetNozzleDetails(d, t) : d \in {4, 5}, t \in {"hardened_steel", "brass"}}
PrintPauseCmd == PausePrint
PrintResumeCmd == ResumePrint
PrintStopCmd == StopPrint
TempHeadCmd == UNION {SetNozzleTemperature(t, tool) : t \in Temps, tool \in {0, 1}}
TempBedCmd == UNION {SetBedTemperature(t) : t \in Temps}
TempChamberCmd == UNION {SetChamberTemperature(t) : t \in Temps}

\* One argument is a speed for all fans, two are a fan, of a known name, and its speed.
FanCmd == UNION {SetFanSpeed(fan, p) : fan \in {"part", "aux", "chamber", "all"}, p \in Percents}

AmsUnloadCmd == UnloadFilament
AmsLoadCmd == UNION {LoadFilament(t) : t \in Targets}
AmsControlCmd == UNION {SendAMSControlCommand(c) : c \in {"resume", "pause", "reset"}}
AmsUserSettingCmd == UNION {SetAMSUserSetting(u) : u \in Targets}
AmsKFactorCmd == UNION {SetSpoolKFactor(t, k) : t \in Targets, k \in {-1, 2}}

\* Without --use-ams the command looks for an AMS first; the file is uploaded or is there.
PrintStartCmd ==
  UNION {StartPrint(f, "auto", <<0, Bit(level), 0, 1, 0, Bit(ams)>>)
           : f \in Files, level \in OnOff,
             ams \in IF process.task = "print" THEN OnOff ELSE {useAMS = "yes"}}

SendGCodeCmd == SendGCode("G28", <<>>)

\* The arguments name both ids, so nothing is looked up and nothing is filled in.
AmsFilamentGiven == {a \in FilamentArgs : a.id # "" /\ a.setting # ""}

\* The profiles with a setting id that the other arguments leave.
Candidates(fils, a) ==
  {n \in Find(fils, a.type) : /\ Profiles[n].setting # ""
                        /\ a.setting \in {"", Profiles[n].setting}
                        /\ a.id \in {"", fils[n].id}}

\* What is looked up for them if exactly one profile is found.
AmsFilamentFound(fils) ==
  UNION {{[a EXCEPT !.id = fils[n].id, !.setting = Profiles[n].setting,
                    !.min = OrElse(@, OrElse(fils[n].tempMin, 190)),
                    !.max = OrElse(@, OrElse(fils[n].tempMax, 220)),
                    !.color = OrElseId(@, ColorOf(fils[n].id))]
            : n \in {n \in Names : Candidates(fils, a) = {n}}} : a \in FilamentArgs \ AmsFilamentGiven}

AmsFilamentCmd(args) == UNION {SetAMSFilament(a) : a \in args}

-----------------------------------------------------------------------------
(* What a request to the web page can ask for. *)

HandleFanControl ==
  LET caps == KnownCaps(pageModel)
  IN UNION {When(/\ fan = "chamber" => caps.fan
                 /\ fan = "aux" => caps.aux, SetFanSpeed(fan, p))
              : fan \in {"part", "aux", "chamber", "all", "unknown"}, p \in Percents}

HandleTempControl ==
  LET caps == KnownCaps(pageModel)
  IN UNION {   When(t <= caps.nozzle, SetNozzleTemperature(t, 0))
          \cup When(t <= caps.bed, SetBedTemperature(t))
          \cup When(caps.chamber > 0 /\ t <= caps.chamber, SetChamberTemperature(t)) : t \in Temps}

HandleAPIControl ==
  ChamberLightCmd \cup SpeedCmd \cup PausePrint \cup ResumePrint \cup StopPrint
    \cup HandleFanControl \cup HandleTempControl

\* The options come from the form.
HandleAPIPrint ==
  UNION {StartPrint(f, "cool_plate", <<Bit(t), 1, 0, 1, 0, Bit(ams)>>)
           : f \in Files, t \in OnOff, ams \in OnOff}

HandleAPIFilament == UnloadFilament \cup UNION {LoadFilament(t) : t \in Targets}

-----------------------------------------------------------------------------
(* What Home Assistant's command topics can ask for.  A number that cannot   *)
(* be parsed counts as 0.                                                    *)

AtMost(v, limit) == IF v > limit THEN limit ELSE v

\* Division in Go truncates towards 0.
Percent(level) == IF level < 0 THEN -((-level * 100) \div 15) ELSE (level * 100) \div 15

SpeedProfileSet == UNION {SetSpeedProfile(l) : l \in {"1", "2", "3", "4"}}
PrintFileSet == UNION {StartPrint(f, "textured_plate", <<0, 1, 0, 0, 0, 0>>) : f \in Files}
NozzleSet ==
  UNION {SetNozzleTemperature(AtMost(t, KnownCaps(pageModel).nozzle), 0) : t \in Temps \cup {0}}
BedSet == UNION {SetBedTemperature(AtMost(t, KnownCaps(pageModel).bed)) : t \in Temps \cup {0}}
ChamberSet ==
  LET limit == KnownCaps(pageModel).chamber
  IN When(limit > 0, UNION {SetChamberTemperature(AtMost(t, limit)) : t \in Temps \cup {0}})
FanSet(fan) == UNION {SetFanSpeed(fan, Percent(level)) : level \in Speeds \cup {0}}

HACommands ==
  ChamberLightCmd \cup PausePrint \cup ResumePrint \cup StopPrint \cup SpeedProfileSet
    \cup PrintFileSet \cup NozzleSet \cup BedSet \cup ChamberSet
    \cup FanSet("part") \cup FanSet("aux") \cup FanSet("chamber")

-----------------------------------------------------------------------------
(* The process and its connection. *)

Init ==
  /\ clock = 0
  /\ \E s \in Scripts :
       /\ process = [no |-> 0, task |-> "simple", start |-> 0, calls |-> 0, next |-> s.tasks]
       /\ budget = [pushes |-> s.pushes, breaks |-> s.breaks]
  /\ seq = 0
  /\ link = "down"
  /\ greet = <<>>
  /\ status = Blank
  /\ pageModel = ""
  /\ channel = <<>>
  /\ pc = "off"
  /\ awaited = 0
  /\ useAMS = "unknown"
  /\ profiles = {}
  /\ requests = <<>>
  /\ reports = <<>>
  /\ \E p \in Printers :
       printer = [model |-> p.model, ams |-> p.ams, carried |-> {}, refused |-> {}]
  /\ used = {}

Tick ==
  /\ clock < MaxSeconds
  /\ clock' = clock + 1
  /\ UNCHANGED <<process, clientVars, commandVars, wireVars, profiles, budget>>

\* NewMQTTClient: "Initialize sequence with timestamp to avoid collisions on restart".
FirstSequence == clock

\* main, NewMQTTClient and a Dial that succeeds; one that does not ends the process.
\* A process that subscribes does so before it dials.
StartProcess ==
  /\ pc = "off"
  /\ process.next # <<>>
  /\ process' = [no |-> process.no + 1, task |-> Head(process.next), start |-> clock, calls |-> 0,
                 next |-> Tail(process.next)]
  /\ printer' = [printer EXCEPT !.carried = {}, !.refused = {}]
  /\ seq' = FirstSequence
  /\ link' = "dialed"
  /\ greet' = <<>>
  /\ status' = Blank
  /\ pageModel' = ""
  /\ channel' = <<>>
  /\ pc' = "started"
  /\ awaited' = 0
  /\ useAMS' = "unknown"
  /\ profiles' = {}
  /\ UNCHANGED <<clock, requests, reports, used, budget>>

\* onConnect: subscribed to the report topic, its goroutine requests the basics.
OnConnect ==
  /\ link = "dialed"
  /\ link' = "subscribed"
  /\ greet' = <<GetVersion, DumpInfo>>
  /\ UNCHANGED <<clock, process, seq, status, pageModel, channel, commandVars, wireVars,
                 profiles, budget>>

\* The connection breaks with what is on its way; the mq library dials again.
ConnectionLost ==
  /\ link = "subscribed"
  /\ budget.breaks > 0
  /\ budget' = [budget EXCEPT !.breaks = @ - 1]
  /\ link' = "down"
  /\ requests' \in {<<>>, requests}
  /\ reports' = <<>>
  /\ UNCHANGED <<clock, process, seq, greet, status, pageModel, channel, commandVars, printer, used,
                 profiles>>

Reconnect ==
  /\ link = "down"
  /\ pc # "off"
  /\ link' = "dialed"
  /\ UNCHANGED <<clock, process, seq, greet, status, pageModel, channel, commandVars, wireVars,
                 profiles, budget>>

\* getNextSequenceID and Publish of one payload; without a connection it is lost.  When
\* SetChamberLight has published, the status shows the light.  known (ghost): the client
\* had been told the model when it checked.
Publish(payload) ==
  /\ seq' = seq + 1
  /\ requests' = IF link = "down" THEN requests
                 ELSE Append(requests, [no |-> process.no, id |-> seq + 1, payload |-> payload,
                                        known |-> status.identified])
  /\ used' = used \cup {<<process.no, seq + 1>>}
  /\ status' = IF link # "down" /\ payload.command = "ledctrl"
               THEN [status EXCEPT !.telemetry = TRUE] ELSE status

Greet ==
  /\ pc \notin Ended
  /\ greet # <<>>
  /\ greet' = Tail(greet)
  /\ \E p \in Head(greet) : Publish(p)
  /\ UNCHANGED <<clock, process, link, pageModel, channel, commandVars, reports, printer,
                 profiles, budget>>

\* client.Stop and the end of the process.
EndProcess ==
  /\ pc \in Ended
  /\ pc' = "off"
  /\ link' = "down"
  /\ greet' = <<>>
  /\ reports' = <<>>
  /\ requests' \in {<<>>, requests}
  /\ UNCHANGED <<clock, process, seq, status, pageModel, channel, awaited, useAMS, printer, used,
                 profiles, budget>>

-----------------------------------------------------------------------------
(* Commands.  The command line sleeps for a second before it issues one.     *)

Slept == clock > process.start
WaitsFor == {"gcode", "filament"}

\* A command that does not wait for the answer has been sent, or not, and ends.
SimpleCmd ==
     PrintSkipCmd \cup PrintPauseCmd \cup PrintResumeCmd \cup PrintStopCmd \cup ChamberLightCmd
  \cup SpeedCmd \cup ConfigOptionCmd \cup ConfigMarkerDetectorCmd \cup ConfigNozzleCmd
  \cup TempHeadCmd \cup TempBedCmd \cup TempChamberCmd \cup FanCmd \cup AmsUnloadCmd
  \cup AmsLoadCmd \cup AmsControlCmd \cup AmsUserSettingCmd \cup AmsKFactorCmd

\* The payload goes out; the process then waits for its answer or has done.
Issue(payloads, next) ==
  /\ \E p \in payloads : Publish(p)
  /\ pc' = next
  /\ awaited' = IF next = "waiting" THEN seq + 1 ELSE 0
  /\ UNCHANGED <<clock, process, link, greet, pageModel, channel, useAMS, reports, printer,
                 profiles, budget>>

RunSimple ==
  /\ process.task = "simple" /\ pc = "started" /\ Slept
  /\ Issue(SimpleCmd, "done")

\* Neither uploading nor its failure touches what is modelled here.
RunPrint ==
  /\ \/ process.task = "print" /\ pc = "started"
     \/ process.task = "autoPrint" /\ pc = "detected"
  /\ Slept
  /\ Issue(PrintStartCmd, "done")

RunGCode ==
  /\ process.task = "gcode" /\ pc = "started" /\ Slept
  /\ Issue(SendGCodeCmd, "waiting")

RunFilament ==
  /\ process.task = "filament" /\ pc = "started" /\ Slept
  /\ profiles = {}
  /\ Issue(AmsFilamentCmd(AmsFilamentGiven), "waiting")

\* LoadAll, when an id is missing.
LoadProfiles ==
  /\ process.task = "filament" /\ pc = "started" /\ Slept
  /\ profiles = {}
  /\ \E fils \in Outcomes : profiles' = {fils}
  /\ UNCHANGED <<clock, process, clientVars, commandVars, wireVars, budget>>

\* A color was given or found, and the user agrees with what was found.
RunFilamentFound ==
  /\ process.task = "filament" /\ pc = "started"
  /\ \E fils \in profiles :
       Issue(AmsFilamentCmd({a \in AmsFilamentFound(fils) : a.color # ""}), "waiting")

\* The DumpInfo command asks at once and waits for any update.
RunDump ==
  /\ process.task = "dump" /\ pc = "started"
  /\ Issue(DumpInfo, "dumping")

\* Nothing, or nothing usable, came in time; a failed or refused command ends the same way.
GiveUp ==
  /\ pc \in {"waiting", "dumping", "started"}
  /\ pc = "started" => process.task \notin {"autoPrint", "serve"}
  /\ pc' = "done"
  /\ UNCHANGED <<clock, process, clientVars, awaited, useAMS, wireVars, profiles, budget>>

\* The serving processes end when they are interrupted.
Interrupt ==
  /\ process.task = "serve" /\ pc = "started"
  /\ pc' = "done"
  /\ UNCHANGED <<clock, process, clientVars, awaited, useAMS, wireVars, profiles, budget>>

\* Mutant: whatever answer comes next is taken for the one awaited.
Answers_Any(s) == s.id # 0

\* SendGCodeCmd and AmsFilamentCmd recognise the answer by its sequence id.
Answers(s) == s.id = awaited

AwaitAnswer ==
  /\ pc = "waiting"
  /\ channel # <<>>
  /\ channel' = Tail(channel)
  /\ pc' = IF ~Answers(Head(channel)) THEN pc
           ELSE IF Head(channel).result = "success" THEN "success" ELSE "failed"
  /\ UNCHANGED <<clock, process, seq, link, greet, status, pageModel, awaited, useAMS, wireVars,
                 profiles, budget>>

AwaitDump ==
  /\ pc = "dumping"
  /\ channel # <<>>
  /\ channel' = Tail(channel)
  /\ pc' = "done"
  /\ UNCHANGED <<clock, process, seq, link, greet, status, pageModel, awaited, useAMS, wireVars,
                 profiles, budget>>

\* Mutant: the answer to pushall ends the search before its AMS is looked at.
Detected_PushallFirst(s) ==
  IF s.command = "pushall" THEN "no" ELSE IF s.ams THEN "yes" ELSE "unknown"

\* What PrintStartCmd concludes from an update.
Detected(s) == IF s.ams THEN "yes" ELSE IF s.command = "pushall" THEN "no" ELSE "unknown"

\* Its waitLoop; once it knows, the subscription is cancelled.
DetectAMS ==
  /\ process.task = "autoPrint" /\ pc = "started"
  /\ channel # <<>>
  /\ useAMS' = Detected(Head(channel))
  /\ pc' = IF useAMS' = "unknown" THEN pc ELSE "detected"
  /\ channel' = IF useAMS' = "unknown" THEN Tail(channel) ELSE <<>>
  /\ UNCHANGED <<clock, process, seq, link, greet, status, pageModel, awaited, wireVars, budget,
                 profiles>>

DetectTimeout ==
  /\ process.task = "autoPrint" /\ pc = "started"
  /\ useAMS' = "timeout"
  /\ pc' = "detected"
  /\ channel' = <<>>
  /\ UNCHANGED <<clock, process, seq, link, greet, status, pageModel, awaited, wireVars, budget,
                 profiles>>

\* A handler of the web page or a callback of the bridge.
Serve ==
  /\ process.task = "serve" /\ pc = "started"
  /\ process.calls < MaxCalls
  /\ process' = [process EXCEPT !.calls = @ + 1]
  /\ \E p \in HandleAPIControl \cup HandleAPIPrint \cup HandleAPIFilament \cup HACommands : Publish(p)
  /\ UNCHANGED <<clock, link, greet, pageModel, channel, commandVars, reports, printer,
                 profiles, budget>>

\* The page and the bridge look at the status when they are sent it, not when they command.
PageSees ==
  /\ process.task = "serve"
  /\ pageModel' = status.model
  /\ UNCHANGED <<clock, process, seq, link, greet, status, channel, commandVars, wireVars, budget,
                 profiles>>

-----------------------------------------------------------------------------
(* The printer (external) and its reports. *)

OtherId == -1 \* of the printer's own reports and of other programs' requests
Silent == [section |-> "print", model |-> None, bed |-> 0, nozzle |-> 0, telemetry |-> FALSE,
           id |-> 0, result |-> None, command |-> None, ams |-> FALSE]

\* A P1S may tell the OTA project of a P1P, and what is taken for either is as good.
OwnModels == IF printer.model \in {"C11", "C12"} THEN {"C11", "C12"} ELSE {printer.model}

\* A whole report, with lights and fans, and one with the answer to a request.
FullReport(id) ==
  {[Silent EXCEPT !.id = i, !.command = c, !.ams = printer.ams, !.telemetry = TRUE]
     : i \in {id, OtherId}, c \in {"pushall", "push_status"}}
ResultReport(id, result, command) ==
  [Silent EXCEPT !.id = id, !.result = result, !.command = command]

\* The model a get_version reply tells, or none; a report may tell the model or the limits.
VersionReport == {[Silent EXCEPT !.section = "info", !.model = m] : m \in OwnModels \cup {""}}
ModelReport == {[Silent EXCEPT !.model = m] : m \in OwnModels}
LimitsReport == [Silent EXCEPT !.bed = Caps[printer.model].bed, !.nozzle = Caps[printer.model].nozzle]

Answer(r, result) ==
  CASE r.payload.command = "get_version" -> {<<v>> : v \in VersionReport}
    [] r.payload.command = "pushall" -> {<<f>> : f \in FullReport(r.id)}
    [] r.payload.section = "print" -> {<<ResultReport(r.id, result, r.payload.command)>>}
    [] OTHER -> {<<>>} \* answered in a section that the client does not decode

Delivered(report) == reports' = IF link = "subscribed" THEN reports \o report ELSE reports

Own(r) == IF r.no = process.no THEN {r.id} ELSE {}

\* It handles its requests in turn, and carries out or refuses each.
PrinterHandles ==
  /\ requests # <<>>
  /\ requests' = Tail(requests)
  /\ LET r == Head(requests)
     IN \/ /\ printer' = [printer EXCEPT !.carried = @ \cup Own(r)]
           /\ \E report \in Answer(r, "success") : Delivered(report)
        \/ /\ r.payload.section \notin {"info", "pushing"}
           /\ printer' = [printer EXCEPT !.refused = @ \cup Own(r)]
           /\ \E report \in Answer(r, "fail") : Delivered(report)
  /\ UNCHANGED <<clock, process, clientVars, commandVars, used, profiles, budget>>

\* It reports changes, and other programs' answers go to the same topic.
PrinterPushes ==
  /\ link = "subscribed"
  /\ budget.pushes > 0
  /\ budget' = [budget EXCEPT !.pushes = @ - 1]
  /\ \E report \in FullReport(OtherId)
        \cup {ResultReport(OtherId, res, "gcode_line") : res \in {"success", "fail"}}
        \cup ModelReport \cup {LimitsReport, ResultReport(0, None, "push_status")} :
          Delivered(<<report>>)
  /\ UNCHANGED <<clock, process, clientVars, commandVars, requests, printer, used, profiles>>

\* The command holds a subscription; PrintStartCmd cancels its own once it has detected.
Listening == \/ process.task \in WaitsFor \cup {"dump"}
             \/ process.task = "autoPrint" /\ pc = "started"

\* json.Unmarshal into the status: a field the report lacks keeps its value, and telemetry
\* that was there stays.
Merged(s, r) ==
  [model |-> OrElseId(r.model, s.model), bed |-> OrElse(r.bed, s.bed),
   nozzle |-> OrElse(r.nozzle, s.nozzle), telemetry |-> s.telemetry \/ r.telemetry,
   id |-> OrElse(r.id, s.id), result |-> OrElseId(r.result, s.result),
   command |-> OrElseId(r.command, s.command), ams |-> s.ams \/ r.ams,
   identified |-> s.identified]

WithModel(s, model) ==
  [s EXCEPT !.model = model, !.bed = KnownCaps(model).bed, !.nozzle = KnownCaps(model).nozzle]

\* Mutant: any model is promoted.
Promoted_Any(s) == IF s.telemetry THEN WithModel(s, "C12") ELSE s

\* A printer that shows fan or light telemetry is taken for a P1S until it tells its model.
Promoted(s) == IF s.model \in {"", "C11"} /\ s.telemetry THEN WithModel(s, "C12") ELSE s

\* processInfo.
Identified(s, model) ==
  IF model = "" THEN s ELSE [WithModel(s, model) EXCEPT !.identified = TRUE]

Updated(s, r) == IF r.section = "info" THEN Identified(s, r.model) ELSE Promoted(Merged(s, r))

\* What the commands look at of a clone of the status.
Clone(s) == [id |-> s.id, result |-> s.result, command |-> s.command, ams |-> s.ams]

\* onMessage merges a report and sends the whole status on; a full channel drops it.
\* Handlers run concurrently, so the reports are merged in any order.  What still comes
\* before client.Stop, when the command has ended, nobody looks at.
OnMessage ==
  /\ pc \notin Ended
  /\ \E i \in DOMAIN reports :
         /\ reports' = [j \in 1..(Len(reports) - 1) |-> reports[IF j < i THEN j ELSE j + 1]]
         /\ status' = Updated(status, reports[i])
         /\ channel' = IF Listening /\ Len(channel) < Cap THEN Append(channel, Clone(status')) ELSE channel
         /\ UNCHANGED <<clock, process, seq, link, greet, pageModel, commandVars, requests, printer,
                        used, profiles, budget>>

-----------------------------------------------------------------------------
Next ==
  \/ Tick
  \/ StartProcess \/ OnConnect \/ ConnectionLost \/ Reconnect \/ Greet \/ EndProcess
  \/ RunSimple \/ RunPrint \/ RunGCode \/ RunFilament \/ LoadProfiles \/ RunFilamentFound \/ RunDump
  \/ GiveUp \/ Interrupt \/ AwaitAnswer \/ AwaitDump \/ DetectAMS \/ DetectTimeout
  \/ Serve \/ PageSees
  \/ PrinterHandles \/ PrinterPushes \/ OnMessage

Spec == Init /\ [][Next]_vars

-----------------------------------------------------------------------------
\* Two processes have used the sequence id.
Reused(id) == \E u, v \in used : u[2] = id /\ v[2] = id /\ u # v

\* What SendGCodeCmd and AmsFilamentCmd tell the user is what became of their own
\* request, although the answers of other programs, and late ones to an earlier process,
\* arrive on the same topic, reports are merged out of order and updates are dropped; but
\* it takes a sequence id that no other process has used (getNextSequenceID).
AnswerIsOwn ==
  ~Reused(awaited) =>
    /\ pc = "success" => awaited \in printer.carried
    /\ pc = "failed" => awaited \in printer.refused

\* PrintStartCmd starts a print with the AMS only if the printer has one, and without it
\* only if it has none or was not heard of in time.
AMSDetected ==
  /\ useAMS = "yes" => printer.ams
  /\ useAMS = "no" => ~printer.ams

TempOf(r) == r.payload.nums[Len(r.payload.nums)]
Heats(r, code) == r.payload.command = "gcode_line" /\ r.payload.names = <<code>>

\* The models whose limits the client may have checked a request with.
TakenFor(r) == IF r.known THEN {printer.model} ELSE {"", "C12", printer.model}

\* Whichever front end asks, and however old the model it checked with, no temperature
\* beyond the printer's own limits is on the wire once a get_version reply has told the
\* client the model, and none beyond the defaults or the limits of a P1S, for which the
\* printer may be taken, before; and nothing ever heats a chamber that has no heater
\* (SetBedTemperature and the others against onMessage's promotion and its merging of
\* limits, handleTempControl and the callbacks of the bridge).
WithinLimits ==
  \A i \in DOMAIN requests :
    LET r == requests[i]
        caps == Caps[printer.model]
    IN /\ Heats(r, "M140") => \E m \in TakenFor(r) : TempOf(r) \in 0..KnownCaps(m).bed
       /\ Heats(r, "M104") => \E m \in TakenFor(r) : TempOf(r) \in 0..KnownCaps(m).nozzle
       /\ Heats(r, "M191") => caps.chamber > 0 /\ TempOf(r) \in 0..caps.chamber

\* Whatever order LoadAll walked its map in and whatever it had memoised by then, the
\* profiles the command chooses from inherit from the nearest ancestor (LoadAll, resolve).
ResolvedIsNearest == \A fils \in profiles : \A n \in Names : IsNearest(fils, n)
=============================================================================
