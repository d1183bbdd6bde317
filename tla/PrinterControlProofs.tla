------------------------ MODULE PrinterControlProofs ------------------------
(***************************************************************************)
(* Proofs about PrinterControl, for any printers, files, profiles, numbers *)
(* and scripts: what a command tells the user became of its own request,   *)
(* the AMS it finds is there, no temperature is beyond the limits, and the *)
(* profiles LoadAll resolves in any order inherit what their files say.    *)
(***************************************************************************)
EXTENDS PrinterControl, SequenceTheorems, FiniteSetTheorems, WellFoundedInduction, TLAPS

-----------------------------------------------------------------------------
(* The inductive invariant. *)

ProcessType == [no : Nat, task : TaskType, start : Nat, calls : Nat, next : Seq(TaskType)]
PrinterType == [model : Models, ams : BOOLEAN, carried : SUBSET Nat, refused : SUBSET Nat]

StatusFields == {"model", "bed", "nozzle", "telemetry", "id", "result", "command", "ams", "identified"}

TypeInv ==
  /\ clock \in Nat /\ seq \in Nat
  /\ process \in ProcessType
  /\ printer \in PrinterType
  /\ greet \in Seq({GetVersion, DumpInfo})
  /\ used \subseteq Nat \X Nat
  /\ DOMAIN status = StatusFields

\* No process has used an id beyond its counter, and none was there after this one.
UsedInv == \A u \in used : u[1] <= process.no /\ (u[1] = process.no => u[2] <= seq)

\* A command waits for the answer to a request of its own, or has had it.
Claimed == pc \in {"waiting", "success", "failed"}
ClaimInv == Claimed => awaited \in Nat \ {0} /\ awaited <= seq /\ <<process.no, awaited>> \in used

\* What may be published: every answer to a request of the section "print" is decoded, and
\* every temperature is within the limits of a model the client may take the printer for.
Taken(known) == IF known THEN {printer.model} ELSE {"", "C12", printer.model}
Limited(p, known) ==
  LET temp == p.nums[Len(p.nums)]
      caps == Caps[printer.model]
  IN p.command = "gcode_line" =>
       /\ p.names = <<"M140">> => \E m \in Taken(known) : temp \in 0..KnownCaps(m).bed
       /\ p.names = <<"M104">> => \E m \in Taken(known) : temp \in 0..KnownCaps(m).nozzle
       /\ p.names = <<"M191">> => caps.chamber > 0 /\ temp \in 0..caps.chamber
Decoded(p) == p.section = "print" => p.command \notin {"pushall", "get_version"}
Sound(p) == Decoded(p) /\ Limited(p, status.identified)

\* A request on the wire; the one whose answer is awaited is one that is answered with a result.
GoodRequest(r) ==
  /\ r.id \in Nat \ {0} /\ r.no \in Nat /\ <<r.no, r.id>> \in used
  /\ Decoded(r.payload) /\ Limited(r.payload, r.known)
  /\ Claimed /\ r.no = process.no /\ r.id = awaited => r.payload.section = "print"

\* What a report, or a status merged from some, says: of the printer, and of the request
\* that is awaited, unless its id was used by another process.
GoodReport(r) ==
  /\ r.id \in Int /\ r.ams \in BOOLEAN
  /\ r.ams => printer.ams
  /\ r.command = "pushall" => r.ams = printer.ams
  /\ r.id = 0 => r.result = None
  /\ r.id \notin {0, OtherId} => \E u \in used : u[2] = r.id
  /\ Claimed /\ r.id = awaited /\ ~Reused(awaited) =>
       /\ r.result # None
       /\ IF r.result = "success" THEN awaited \in printer.carried ELSE awaited \in printer.refused

\* What the client takes the printer for: what it has told, or a P1S.
Believes(s) ==
  LET own == Caps[printer.model]
  IN /\ s.model \in {"", "C12"} \cup OwnModels
     /\ s.bed \in {0, Caps["C12"].bed, own.bed} /\ s.nozzle \in {0, Caps["C12"].nozzle, own.nozzle}
     /\ s.identified \in BOOLEAN
     /\ s.identified => s.model \in OwnModels /\ s.bed = own.bed /\ s.nozzle = own.nozzle

\* A report tells the printer's own model and limits, or none.
TellsOwn(r) ==
  /\ r.model \in {None} \cup OwnModels
  /\ r.bed \in {0, Caps[printer.model].bed}
  /\ r.nozzle \in {0, Caps[printer.model].nozzle}
OwnReports(s) == \E S : s \in Seq(S) /\ \A r \in S : TellsOwn(r)

BeliefInv == Believes(status) /\ OwnReports(reports)

HeatingWords == {"M140", "M104", "M191"}

-----------------------------------------------------------------------------
(* What the commands publish. *)

LEMMA OwnModelsAre ==
  ASSUME TypeInv
  PROVE  /\ "C12" \in Models /\ printer.model \in Models /\ OwnModels \subseteq Models
         /\ \A m \in OwnModels : Caps[m] = Caps[printer.model]
         /\ "" \notin Models
BY CapsAssumption, P1Assumption DEF TypeInv, PrinterType, OwnModels

LEMMA KnownCapsAre ==
  ASSUME TypeInv
  PROVE  /\ KnownCaps("") = DefaultCaps /\ KnownCaps("C12") = Caps["C12"]
         /\ \A m \in OwnModels : KnownCaps(m) = Caps[printer.model]
         /\ KnownCaps(printer.model) = Caps[printer.model]
         /\ DefaultCaps.nozzle = 300 /\ DefaultCaps.bed = 100 /\ DefaultCaps.chamber = 0
         /\ Caps["C12"] \in CapsType /\ Caps["C12"].chamber = 0
         /\ Caps[printer.model] \in CapsType
<1>1. DefaultCaps.nozzle = 300 /\ DefaultCaps.bed = 100 /\ DefaultCaps.chamber = 0
  BY DEF DefaultCaps
<1> QED BY <1>1, OwnModelsAre, CapsAssumption, P1Assumption DEF KnownCaps

\* A payload that is no G-code, and none of the two requests the client makes by itself.
LEMMA PublishesSound ==
  ASSUME NEW section, NEW command, NEW names, NEW nums,
         command \notin {"gcode_line", "pushall", "get_version"},
         NEW p \in Publishes(section, command, names, nums)
  PROVE  Sound(p) /\ p.section = section
BY DEF Publishes, Sound, Decoded, Limited

\* G-code that heats nothing.
LEMMA GCodeSound ==
  ASSUME NEW word, word \notin HeatingWords, NEW nums, NEW p \in SendGCode(word, nums)
  PROVE  Sound(p) /\ p.section = "print"
<1>1. p = [section |-> "print", command |-> "gcode_line", names |-> <<word>>, nums |-> nums]
  BY DEF SendGCode, Publishes
<1>2. \A code \in HeatingWords : <<word>> # <<code>>
  OBVIOUS
<1> QED BY <1>1, <1>2 DEF Sound, Decoded, Limited, HeatingWords

LEMMA ListsSound ==
  \A p \in GetVersion \cup DumpInfo : Sound(p)
BY DEF GetVersion, DumpInfo, Publishes, Sound, Decoded, Limited

\* The client checks with the limits it has, which are those of a model it takes the printer for.
LEMMA LimitsAreTaken ==
  ASSUME TypeInv, Believes(status)
  PROVE  /\ \E m \in Taken(status.identified) : OrElse(status.bed, DefaultCaps.bed) = KnownCaps(m).bed
         /\ \E m \in Taken(status.identified) :
              OrElse(status.nozzle, DefaultCaps.nozzle) = KnownCaps(m).nozzle
         /\ KnownCaps(status.model).chamber \in {0, Caps[printer.model].chamber}
<1> DEFINE own == Caps[printer.model]
<1>1. own.bed \in Nat \ {0} /\ own.nozzle \in Nat \ {0}
  BY KnownCapsAre DEF CapsType
<1>2. CASE status.identified
  <2>1. status.bed = own.bed /\ status.nozzle = own.nozzle /\ Taken(status.identified) = {printer.model}
        /\ status.model \in OwnModels
    BY <1>2 DEF Believes, Taken
  <2>2. OrElse(status.bed, DefaultCaps.bed) = own.bed /\ OrElse(status.nozzle, DefaultCaps.nozzle) = own.nozzle
    BY <1>1, <2>1 DEF OrElse
  <2>3. KnownCaps(printer.model) = own /\ KnownCaps(status.model) = own
    BY <2>1, KnownCapsAre
  <2> QED BY <2>1, <2>2, <2>3
<1>3. CASE ~status.identified
  <2>1. Taken(status.identified) = {"", "C12", printer.model}
    BY <1>3 DEF Taken
  <2>2. /\ status.bed \in {0, Caps["C12"].bed, own.bed} /\ status.nozzle \in {0, Caps["C12"].nozzle, own.nozzle}
        /\ status.model \in {"", "C12"} \cup OwnModels
    BY DEF Believes
  <2>3. OrElse(status.bed, DefaultCaps.bed) \in {DefaultCaps.bed, Caps["C12"].bed, own.bed}
    BY <2>2 DEF OrElse
  <2>4. OrElse(status.nozzle, DefaultCaps.nozzle) \in {DefaultCaps.nozzle, Caps["C12"].nozzle, own.nozzle}
    BY <2>2 DEF OrElse
  <2>5. KnownCaps("") = DefaultCaps /\ KnownCaps("C12") = Caps["C12"] /\ KnownCaps(printer.model) = own
    BY KnownCapsAre
  <2>6. KnownCaps(status.model).chamber \in {0, own.chamber}
    BY <2>2, KnownCapsAre
  <2> QED BY <2>1, <2>3, <2>4, <2>5, <2>6
<1> QED BY <1>2, <1>3

LEMMA HeatSound ==
  ASSUME TypeInv, Believes(status), NEW temp, NEW tool
  PROVE  /\ \A p \in SetBedTemperature(temp) : Sound(p)
         /\ \A p \in SetNozzleTemperature(temp, tool) : Sound(p)
         /\ \A p \in SetChamberTemperature(temp) : Sound(p)
<1>w. <<"M140">> # <<"M104">> /\ <<"M140">> # <<"M191">> /\ <<"M104">> # <<"M191">>
  OBVIOUS
<1>n. <<temp>>[Len(<<temp>>)] = temp /\ <<tool, temp>>[Len(<<tool, temp>>)] = temp
  OBVIOUS
<1>1. \A p \in SetBedTemperature(temp) : Sound(p)
  <2> SUFFICES ASSUME NEW p \in SetBedTemperature(temp) PROVE Sound(p)
    OBVIOUS
  <2>1. /\ temp \in 0..OrElse(status.bed, DefaultCaps.bed)
        /\ p = [section |-> "print", command |-> "gcode_line", names |-> <<"M140">>, nums |-> <<temp>>]
    BY DEF SetBedTemperature, When, SendGCode, Publishes
  <2>2. \E m \in Taken(status.identified) : temp \in 0..KnownCaps(m).bed
    BY <2>1, LimitsAreTaken
  <2> QED BY <2>1, <2>2, <1>w, <1>n DEF Sound, Decoded, Limited
<1>2. \A p \in SetNozzleTemperature(temp, tool) : Sound(p)
  <2> SUFFICES ASSUME NEW p \in SetNozzleTemperature(temp, tool) PROVE Sound(p)
    OBVIOUS
  <2>1. /\ temp \in 0..OrElse(status.nozzle, DefaultCaps.nozzle)
        /\ p.command = "gcode_line" /\ p.section = "print" /\ p.names = <<"M104">>
        /\ p.nums \in {<<temp>>, <<tool, temp>>}
    <3> DEFINE nums == IF tool > 0 THEN <<tool, temp>> ELSE <<temp>>
    <3>1. temp \in 0..OrElse(status.nozzle, DefaultCaps.nozzle) /\ p \in SendGCode("M104", nums)
      BY DEF SetNozzleTemperature, When
    <3>2. nums \in {<<temp>>, <<tool, temp>>}
      OBVIOUS
    <3> HIDE DEF nums
    <3>3. p = [section |-> "print", command |-> "gcode_line", names |-> <<"M104">>, nums |-> nums]
      BY <3>1 DEF SendGCode, Publishes
    <3> QED BY <3>1, <3>2, <3>3
  <2>3. p.nums[Len(p.nums)] = temp
    BY <2>1, <1>n
  <2>2. \E m \in Taken(status.identified) : temp \in 0..KnownCaps(m).nozzle
    BY <2>1, LimitsAreTaken
  <2> QED BY <2>1, <2>2, <2>3, <1>w DEF Sound, Decoded, Limited
<1>3. \A p \in SetChamberTemperature(temp) : Sound(p)
  <2> SUFFICES ASSUME NEW p \in SetChamberTemperature(temp) PROVE Sound(p)
    OBVIOUS
  <2>1. /\ KnownCaps(status.model).chamber > 0
        /\ temp \in 0..KnownCaps(status.model).chamber
        /\ p = [section |-> "print", command |-> "gcode_line", names |-> <<"M191">>, nums |-> <<temp>>]
    BY DEF SetChamberTemperature, When, SendGCode, Publishes
  <2>2. KnownCaps(status.model).chamber = Caps[printer.model].chamber
    BY <2>1, LimitsAreTaken
  <2>3. Caps[printer.model].chamber > 0 /\ temp \in 0..Caps[printer.model].chamber
    BY <2>1, <2>2
  <2> QED BY <2>1, <2>3, <1>w, <1>n DEF Sound, Decoded, Limited
<1> QED BY <1>1, <1>2, <1>3

\* The other commands of the client.
LEMMA StartPrintSound ==
  ASSUME NEW file, NEW bed, NEW options
  PROVE  \A p \in StartPrint(file, bed, options) : Sound(p)
BY PublishesSound DEF StartPrint

LEMMA FanSound ==
  ASSUME NEW fan, NEW percent
  PROVE  \A p \in SetFanSpeed(fan, percent) : Sound(p)
BY GCodeSound DEF SetFanSpeed, When, HeatingWords

LEMMA PlainSound ==
  /\ \A x : \A p \in SetChamberLight(x) : Sound(p)
  /\ \A p \in PausePrint \cup ResumePrint \cup StopPrint \cup UnloadFilament : Sound(p)
  /\ \A x : \A p \in SetSpeedProfile(x) : Sound(p)
  /\ \A x : \A p \in LoadFilament(x) : Sound(p)
  /\ \A x : \A p \in SendAMSControlCommand(x) : Sound(p)
  /\ \A x : \A p \in SetAMSUserSetting(x) : Sound(p)
  /\ \A x, y : \A p \in SetSpoolKFactor(x, y) : Sound(p)
  /\ \A x : \A p \in SetPrintOption(x) : Sound(p)
  /\ \A x : \A p \in SkipObjects(x) : Sound(p)
  /\ \A p \in SetBuildPlateMarkerDetector : Sound(p)
  /\ \A x, y : \A p \in SetNozzleDetails(x, y) : Sound(p)
<1>1. \A x : \A p \in SetChamberLight(x) : Sound(p)
  BY PublishesSound DEF SetChamberLight
<1>2. \A p \in PausePrint \cup ResumePrint \cup StopPrint \cup UnloadFilament : Sound(p)
  BY PublishesSound DEF PausePrint, ResumePrint, StopPrint, UnloadFilament
<1>3. \A x : \A p \in SetSpeedProfile(x) : Sound(p)
  BY PublishesSound DEF SetSpeedProfile
<1>4. \A x : \A p \in LoadFilament(x) : Sound(p)
  BY PublishesSound DEF LoadFilament, When
<1>5. \A x : \A p \in SendAMSControlCommand(x) : Sound(p)
  BY PublishesSound DEF SendAMSControlCommand, When
<1>6. \A x : \A p \in SetAMSUserSetting(x) : Sound(p)
  BY PublishesSound DEF SetAMSUserSetting, When
<1>7. \A x, y : \A p \in SetSpoolKFactor(x, y) : Sound(p)
  BY PublishesSound DEF SetSpoolKFactor, When
<1>8. \A x : \A p \in SetPrintOption(x) : Sound(p)
  BY PublishesSound DEF SetPrintOption, When
<1>9. \A x : \A p \in SkipObjects(x) : Sound(p)
  BY PublishesSound DEF SkipObjects
<1>10. \A p \in SetBuildPlateMarkerDetector : Sound(p)
  BY PublishesSound DEF SetBuildPlateMarkerDetector
<1>11. \A x, y : \A p \in SetNozzleDetails(x, y) : Sound(p)
  BY PublishesSound DEF SetNozzleDetails, When
<1> QED BY <1>1, <1>2, <1>3, <1>4, <1>5, <1>6, <1>7, <1>8, <1>9, <1>10, <1>11

\* What a user of the command line asks for.
LEMMA SimpleCmdSound ==
  ASSUME TypeInv, Believes(status)
  PROVE  \A p \in SimpleCmd : Sound(p)
<1>1. \A p \in PrintSkipCmd \cup ChamberLightCmd \cup SpeedCmd : Sound(p)
  BY PlainSound DEF PrintSkipCmd, ChamberLightCmd, SpeedCmd
<1>2. \A p \in PrintPauseCmd \cup PrintResumeCmd \cup PrintStopCmd \cup AmsUnloadCmd : Sound(p)
  BY PlainSound DEF PrintPauseCmd, PrintResumeCmd, PrintStopCmd, AmsUnloadCmd
<1>3. \A p \in ConfigOptionCmd \cup ConfigMarkerDetectorCmd \cup ConfigNozzleCmd : Sound(p)
  BY PlainSound DEF ConfigOptionCmd, ConfigMarkerDetectorCmd, ConfigNozzleCmd
<1>4. \A p \in TempHeadCmd \cup TempBedCmd \cup TempChamberCmd : Sound(p)
  BY HeatSound DEF TempHeadCmd, TempBedCmd, TempChamberCmd
<1>5. \A p \in FanCmd : Sound(p)
  BY FanSound DEF FanCmd
<1>6. \A p \in AmsLoadCmd \cup AmsControlCmd : Sound(p)
  BY PlainSound DEF AmsLoadCmd, AmsControlCmd
<1>7. \A p \in AmsUserSettingCmd \cup AmsKFactorCmd : Sound(p)
  BY PlainSound DEF AmsUserSettingCmd, AmsKFactorCmd
<1> QED BY <1>1, <1>2, <1>3, <1>4, <1>5, <1>6, <1>7 DEF SimpleCmd

LEMMA PrintStartSound == \A p \in PrintStartCmd : Sound(p)
<1> DEFINE Started(f, level, ams) == StartPrint(f, "auto", <<0, Bit(level), 0, 1, 0, Bit(ams)>>)
           Ams == IF process.task = "print" THEN OnOff ELSE {useAMS = "yes"}
<1>1. \A f, level, ams : \A p \in Started(f, level, ams) : Sound(p)
  BY StartPrintSound
<1>2. PrintStartCmd = UNION {Started(f, level, ams) : f \in Files, level \in OnOff, ams \in Ams}
  BY DEF PrintStartCmd
<1> HIDE DEF Started, Ams
<1> QED BY <1>1, <1>2

\* Whoever waits for an answer has asked in the section "print".
LEMMA SendGCodeSound == \A p \in SendGCodeCmd : Sound(p) /\ p.section = "print"
<1>1. "G28" \notin HeatingWords
  BY DEF HeatingWords
<1> QED BY <1>1, GCodeSound DEF SendGCodeCmd

LEMMA FilamentSound ==
  ASSUME NEW args
  PROVE  \A p \in AmsFilamentCmd(args) : Sound(p) /\ p.section = "print"
<1>1. \A a : \A p \in SetAMSFilament(a) : Sound(p) /\ p.section = "print"
  BY PublishesSound DEF SetAMSFilament
<1> QED BY <1>1 DEF AmsFilamentCmd

LEMMA PagePrintSound == \A p \in HandleAPIPrint : Sound(p)
<1> DEFINE Started(f, t, ams) == StartPrint(f, "cool_plate", <<Bit(t), 1, 0, 1, 0, Bit(ams)>>)
<1>1. \A f, t, ams : \A p \in Started(f, t, ams) : Sound(p)
  BY StartPrintSound
<1>2. HandleAPIPrint = UNION {Started(f, t, ams) : f \in Files, t \in OnOff, ams \in OnOff}
  BY DEF HandleAPIPrint
<1> HIDE DEF Started
<1> QED BY <1>1, <1>2

LEMMA FileSetSound == \A p \in PrintFileSet : Sound(p)
<1> DEFINE Started(f) == StartPrint(f, "textured_plate", <<0, 1, 0, 0, 0, 0>>)
<1>1. \A f : \A p \in Started(f) : Sound(p)
  BY StartPrintSound
<1>2. PrintFileSet = UNION {Started(f) : f \in Files}
  BY DEF PrintFileSet
<1> HIDE DEF Started
<1> QED BY <1>1, <1>2

\* What the web page and Home Assistant ask for, whatever model they believe in.
LEMMA ServeSound ==
  ASSUME TypeInv, Believes(status)
  PROVE  \A p \in HandleAPIControl \cup HandleAPIPrint \cup HandleAPIFilament \cup HACommands : Sound(p)
<1>1. \A p \in ChamberLightCmd \cup SpeedCmd \cup PausePrint \cup ResumePrint \cup StopPrint : Sound(p)
  BY PlainSound DEF ChamberLightCmd, SpeedCmd
<1>2. \A p \in HandleFanControl : Sound(p)
  BY FanSound DEF HandleFanControl, When
<1>3. \A p \in HandleTempControl : Sound(p)
  <2> DEFINE caps == KnownCaps(pageModel)
             Asked(t) == When(t <= caps.nozzle, SetNozzleTemperature(t, 0))
                         \cup When(t <= caps.bed, SetBedTemperature(t))
                         \cup When(caps.chamber > 0 /\ t <= caps.chamber, SetChamberTemperature(t))
  <2>1. \A t : Asked(t) \subseteq SetNozzleTemperature(t, 0) \cup SetBedTemperature(t) \cup SetChamberTemperature(t)
    BY DEF When
  <2>2. \A t : \A p \in Asked(t) : Sound(p)
    BY <2>1, HeatSound
  <2>3. HandleTempControl = UNION {Asked(t) : t \in Temps}
    BY DEF HandleTempControl
  <2> HIDE DEF Asked
  <2> QED BY <2>2, <2>3
<1>4. \A p \in HandleAPIPrint \cup PrintFileSet : Sound(p)
  BY PagePrintSound, FileSetSound
<1>5. \A p \in HandleAPIFilament : Sound(p)
  BY PlainSound DEF HandleAPIFilament
<1>6. \A p \in SpeedProfileSet : Sound(p)
  BY PlainSound DEF SpeedProfileSet
<1>7. \A p \in NozzleSet \cup BedSet \cup ChamberSet : Sound(p)
  <2>1. \A p \in NozzleSet : Sound(p)
    BY HeatSound DEF NozzleSet
  <2>2. \A p \in BedSet : Sound(p)
    BY HeatSound DEF BedSet
  <2>3. \A p \in ChamberSet : Sound(p)
    BY HeatSound DEF ChamberSet, When
  <2> QED BY <2>1, <2>2, <2>3
<1>8. \A fan : \A p \in FanSet(fan) : Sound(p)
  BY FanSound DEF FanSet
<1>9. \A p \in HandleAPIControl : Sound(p)
  BY <1>1, <1>2, <1>3 DEF HandleAPIControl
<1>10. \A p \in HACommands : Sound(p)
  BY <1>1, <1>4, <1>6, <1>7, <1>8 DEF HACommands
<1> QED BY <1>4, <1>5, <1>9, <1>10

-----------------------------------------------------------------------------
GoodRequests(s) == \E S : s \in Seq(S) /\ \A r \in S : GoodRequest(r)
GoodReports(s) == \E S : s \in Seq(S) /\ \A r \in S : GoodReport(r)

StatusInv == GoodReport(Clone(status)) /\ GoodReports(channel) /\ GoodReports(reports)

Inv ==
  /\ TypeInv /\ UsedInv /\ ClaimInv
  /\ GoodRequests(requests) /\ StatusInv
  /\ AnswerIsOwn /\ AMSDetected

(* Sequences. *)

LEMMA SeqGrows ==
  ASSUME NEW S, NEW T, S \subseteq T, NEW s \in Seq(S)
  PROVE  s \in Seq(T)
OBVIOUS

LEMMA SeqAppend ==
  ASSUME NEW S, NEW s \in Seq(S), NEW e
  PROVE  Append(s, e) \in Seq(S \cup {e})
<1>1. s \in Seq(S \cup {e})
  BY SeqGrows
<1> QED BY <1>1

LEMMA SeqConcat ==
  ASSUME NEW S, NEW s \in Seq(S), NEW T, NEW t \in Seq(T)
  PROVE  s \o t \in Seq(S \cup T)
<1>1. s \in Seq(S \cup T) /\ t \in Seq(S \cup T)
  BY SeqGrows
<1> QED BY <1>1, ConcatProperties

LEMMA SeqTail ==
  ASSUME NEW S, NEW s \in Seq(S), s # <<>>
  PROVE  Tail(s) \in Seq(S) /\ Head(s) \in S
OBVIOUS

LEMMA SeqRemove ==
  ASSUME NEW S, NEW s \in Seq(S), NEW i \in DOMAIN s
  PROVE  /\ [j \in 1..(Len(s) - 1) |-> s[IF j < i THEN j ELSE j + 1]] \in Seq(S)
         /\ s[i] \in S
<1>1. Len(s) \in Nat /\ i \in 1..Len(s) /\ \A j \in 1..Len(s) : s[j] \in S
  OBVIOUS
<1>2. \A j \in 1..(Len(s) - 1) : s[IF j < i THEN j ELSE j + 1] \in S
  BY <1>1
<1>3. Len(s) - 1 \in Nat
  BY <1>1
<1>4. [j \in 1..(Len(s) - 1) |-> s[IF j < i THEN j ELSE j + 1]] \in [1..(Len(s) - 1) -> S]
  BY <1>2
<1>5. [1..(Len(s) - 1) -> S] \subseteq Seq(S)
  BY <1>3
<1> QED BY <1>1, <1>4, <1>5

-----------------------------------------------------------------------------
(* What stays good. *)

\* A step after which no command waits, or the same one still does.
Calm ==
  /\ used \subseteq used'
  /\ printer'.model = printer.model /\ printer'.ams = printer.ams
  /\ Claimed' => /\ Claimed /\ awaited' = awaited /\ process'.no = process.no
                 /\ printer.carried \subseteq printer'.carried
                 /\ printer.refused \subseteq printer'.refused

\* A step after which a command waits for the answer to its request.
Asks ==
  /\ UNCHANGED <<process, printer>>
  /\ used' = used \cup {<<process.no, seq + 1>>}
  /\ awaited' = seq + 1

LEMMA ReusedStays ==
  ASSUME used \subseteq used', NEW id, Reused(id)
  PROVE  Reused(id)'
BY DEF Reused

LEMMA LimitedStays ==
  ASSUME printer'.model = printer.model, NEW p, NEW known, Limited(p, known)
  PROVE  Limited(p, known)'
BY DEF Limited, Taken, KnownCaps

LEMMA RequestStays ==
  ASSUME TypeInv, UsedInv, Calm \/ Asks, NEW r, GoodRequest(r)
  PROVE  GoodRequest(r)'
<1>1. Decoded(r.payload) /\ Limited(r.payload, r.known)'
  BY LimitedStays DEF GoodRequest, Calm, Asks
<1>2. <<r.no, r.id>> \in used'
  BY DEF GoodRequest, Calm, Asks
<1>3. CASE Calm
  BY <1>1, <1>2, <1>3 DEF GoodRequest, Calm
<1>4. CASE Asks
  <2>1. r.no = process.no => r.id <= seq
    BY DEF UsedInv, GoodRequest
  <2>2. ~(r.no = process'.no /\ r.id = awaited')
    BY <1>4, <2>1 DEF Asks, TypeInv, GoodRequest
  <2> QED BY <1>1, <1>2, <2>2 DEF GoodRequest
<1> QED BY <1>3, <1>4

LEMMA NextIsNew ==
  ASSUME NEW n \in Nat
  PROVE  n + 1 \in Nat \ {0} /\ n + 1 \notin {0, OtherId}
BY DEF OtherId

LEMMA ReportStays ==
  ASSUME TypeInv, UsedInv, Calm \/ Asks, NEW r, GoodReport(r)
  PROVE  GoodReport(r)'
<1>0. used \subseteq used' /\ printer'.model = printer.model /\ printer'.ams = printer.ams
  BY DEF Calm, Asks
<1>1. /\ r.id \in Int /\ r.ams \in BOOLEAN
      /\ r.ams => printer'.ams
      /\ r.command = "pushall" => r.ams = printer'.ams
      /\ r.id = 0 => r.result = None
      /\ r.id \notin {0, OtherId} => \E u \in used' : u[2] = r.id
  BY <1>0 DEF GoodReport
<1>2. ASSUME Claimed', r.id = awaited', ~Reused(awaited)'
      PROVE  /\ r.result # None
             /\ IF r.result = "success" THEN awaited' \in printer'.carried ELSE awaited' \in printer'.refused
  <2>1. CASE Calm
    <3>1. Claimed /\ awaited' = awaited
      BY <1>2, <2>1 DEF Calm
    <3>2. ~Reused(awaited)
      BY <1>0, <1>2, <3>1, ReusedStays DEF Reused
    <3> QED BY <1>2, <2>1, <3>1, <3>2 DEF Calm, GoodReport
  <2>2. CASE Asks
    <3>1. r.id = seq + 1 /\ awaited' = seq + 1 /\ seq \in Nat
      BY <1>2, <2>2 DEF Asks, TypeInv
    <3>0. seq + 1 \notin {0, OtherId}
      BY <3>1, NextIsNew
    <3>2. PICK u \in used : u[2] = r.id
      BY <3>0, <3>1 DEF GoodReport
    <3>3. u[1] # process.no
      BY <3>1, <3>2 DEF UsedInv
    <3>4. <<process.no, seq + 1>> \in used' /\ u \in used'
      BY <2>2 DEF Asks
    <3>5. u # <<process.no, seq + 1>>
      BY <3>3
    <3>6. <<process.no, seq + 1>>[2] = seq + 1
      OBVIOUS
    <3>7. Reused(awaited)'
      BY <3>1, <3>2, <3>4, <3>5, <3>6 DEF Reused
    <3> QED BY <1>2, <3>7
  <2> QED BY <2>1, <2>2
<1> QED BY <1>1, <1>2 DEF GoodReport

LEMMA RequestsStay ==
  ASSUME TypeInv, UsedInv, Calm \/ Asks, GoodRequests(requests), requests' \in {requests, <<>>}
  PROVE  GoodRequests(requests)'
<1>1. PICK S : requests \in Seq(S) /\ \A r \in S : GoodRequest(r)
  BY DEF GoodRequests
<1>2. requests' \in Seq(S)
  BY <1>1, EmptySeq
<1>3. \A r \in S : GoodRequest(r)'
  BY <1>1, RequestStays
<1> QED BY <1>2, <1>3 DEF GoodRequests

\* Reports on their way and statuses in the channel are only taken away.
Shrinks(new, old) == new = old \/ new = <<>> \/ (old # <<>> /\ new = Tail(old))

LEMMA ReportsStay ==
  ASSUME TypeInv, UsedInv, Calm \/ Asks, NEW s, GoodReports(s), NEW t, Shrinks(t, s)
  PROVE  \E S : t \in Seq(S) /\ \A r \in S : GoodReport(r)'
<1>1. PICK S : s \in Seq(S) /\ \A r \in S : GoodReport(r)
  BY DEF GoodReports
<1>2. t \in Seq(S)
  <2>1. CASE t = s \/ t = <<>>
    BY <1>1, <2>1, EmptySeq
  <2>2. CASE s # <<>> /\ t = Tail(s)
    BY <1>1, <2>2, SeqTail
  <2> QED BY <2>1, <2>2 DEF Shrinks
<1>3. \A r \in S : GoodReport(r)'
  BY <1>1, ReportStays
<1> QED BY <1>2, <1>3

LEMMA StatusStays ==
  ASSUME TypeInv, UsedInv, Calm \/ Asks, StatusInv, Clone(status)' = Clone(status),
         Shrinks(channel', channel), Shrinks(reports', reports)
  PROVE  StatusInv'
<1>1. GoodReport(Clone(status))'
  <2>1. GoodReport(Clone(status))
    BY DEF StatusInv
  <2>2. ASSUME NEW s, s = Clone(status) PROVE GoodReport(s)'
    BY <2>1, <2>2, ReportStays
  <2>3. PICK s : s = Clone(status)
    OBVIOUS
  <2>4. s = Clone(status)'
    BY <2>3
  <2> QED BY <2>2, <2>3, <2>4 DEF GoodReport
<1>2. GoodReports(channel)'
  BY ReportsStay DEF StatusInv, GoodReports
<1>3. GoodReports(reports)'
  BY ReportsStay DEF StatusInv, GoodReports
<1> QED BY <1>1, <1>2, <1>3 DEF StatusInv

-----------------------------------------------------------------------------
(* The steps. *)

\* A step that publishes nothing and brings nothing new to anyone who waits.
Rests ==
  /\ UNCHANGED <<process, seq, status, printer, used>>
  /\ clock' \in Nat
  /\ greet' \in Seq({GetVersion, DumpInfo})
  /\ requests' \in {requests, <<>>}
  /\ Shrinks(channel', channel) /\ Shrinks(reports', reports)
  /\ Claimed' => pc' = pc /\ awaited' = awaited
  /\ useAMS' \in {useAMS, "timeout", "unknown"}

RestsSteps ==
  \/ Tick \/ OnConnect \/ ConnectionLost \/ Reconnect \/ EndProcess \/ LoadProfiles \/ GiveUp
  \/ Interrupt \/ AwaitDump \/ DetectTimeout \/ PageSees \/ UNCHANGED vars

LEMMA ShrinksSame == \A s : Shrinks(s, s) /\ Shrinks(<<>>, s)
BY DEF Shrinks

LEMMA StepsRest ==
  ASSUME TypeInv, RestsSteps
  PROVE  Rests
<1> USE ShrinksSame
<1>t. clock \in Nat /\ greet \in Seq({GetVersion, DumpInfo})
  BY DEF TypeInv
<1>1. CASE Tick
  <2>1. clock' \in Nat
    BY <1>1, <1>t DEF Tick
  <2> QED BY <1>1, <2>1, <1>t DEF Tick, Rests, clientVars, commandVars, wireVars
<1>2. CASE OnConnect
  <2>1. <<GetVersion, DumpInfo>> \in Seq({GetVersion, DumpInfo})
    OBVIOUS
  <2> QED BY <1>2, <2>1, <1>t DEF OnConnect, Rests, commandVars, wireVars
<1>3. CASE ConnectionLost
  BY <1>3, <1>t DEF ConnectionLost, Rests, commandVars
<1>4. CASE Reconnect
  BY <1>4, <1>t DEF Reconnect, Rests, commandVars, wireVars
<1>5. CASE EndProcess
  <2>1. <<>> \in Seq({GetVersion, DumpInfo}) /\ ~Claimed'
    BY <1>5 DEF EndProcess, Claimed
  <2> QED BY <1>5, <2>1, <1>t DEF EndProcess, Rests
<1>6. CASE LoadProfiles
  BY <1>6, <1>t DEF LoadProfiles, Rests, clientVars, commandVars, wireVars
<1>7. CASE GiveUp \/ Interrupt
  <2>1. ~Claimed'
    BY <1>7 DEF GiveUp, Interrupt, Claimed
  <2> QED BY <1>7, <2>1, <1>t DEF GiveUp, Interrupt, Rests, clientVars, wireVars
<1>8. CASE AwaitDump
  <2>1. ~Claimed' /\ Shrinks(channel', channel)
    BY <1>8 DEF AwaitDump, Claimed, Shrinks
  <2> QED BY <1>8, <2>1, <1>t DEF AwaitDump, Rests, wireVars
<1>9. CASE DetectTimeout
  <2>1. ~Claimed'
    BY <1>9 DEF DetectTimeout, Claimed
  <2> QED BY <1>9, <2>1, <1>t DEF DetectTimeout, Rests, wireVars
<1>10. CASE PageSees
  BY <1>10, <1>t DEF PageSees, Rests, commandVars, wireVars
<1>11. CASE UNCHANGED vars
  BY <1>11, <1>t DEF vars, Rests, clientVars, commandVars, wireVars
<1> QED BY <1>1, <1>2, <1>3, <1>4, <1>5, <1>6, <1>7, <1>8, <1>9, <1>10, <1>11 DEF RestsSteps

LEMMA RestsInv ==
  ASSUME Inv, Rests
  PROVE  Inv'
<1>0. TypeInv /\ UsedInv /\ ClaimInv /\ GoodRequests(requests) /\ StatusInv /\ AnswerIsOwn /\ AMSDetected
  BY DEF Inv
<1>1. TypeInv'
  BY <1>0 DEF Rests, TypeInv
<1>2. UsedInv'
  BY <1>0 DEF Rests, UsedInv
<1>3. Claimed' => Claimed /\ awaited' = awaited /\ pc' = pc
  BY DEF Rests, Claimed
<1>4. ClaimInv'
  BY <1>0, <1>3 DEF Rests, ClaimInv
<1>5. Calm
  BY <1>3 DEF Rests, Calm
<1>6. GoodRequests(requests)'
  BY <1>0, <1>5, RequestsStay DEF Rests
<1>7. StatusInv'
  BY <1>0, <1>5, StatusStays DEF Rests
<1>8. AnswerIsOwn'
  <2>1. pc' \in {"success", "failed"} => pc' = pc /\ awaited' = awaited
    BY <1>3 DEF Claimed
  <2>2. printer' = printer /\ used' = used
    BY DEF Rests
  <2>3. CASE pc' \in {"success", "failed"}
    BY <1>0, <2>1, <2>2, <2>3 DEF AnswerIsOwn, Reused
  <2>4. CASE pc' \notin {"success", "failed"}
    BY <2>4 DEF AnswerIsOwn
  <2> QED BY <2>3, <2>4
<1>9. AMSDetected'
  BY <1>0 DEF Rests, AMSDetected
<1> QED BY <1>1, <1>2, <1>4, <1>6, <1>7, <1>8, <1>9 DEF Inv

LEMMA StartProcessInv ==
  ASSUME Inv, StartProcess
  PROVE  Inv'
<1>0. TypeInv /\ UsedInv /\ GoodRequests(requests) /\ StatusInv
  BY DEF Inv
<1>1. process \in ProcessType /\ process.no \in Nat /\ process.next \in Seq(TaskType) /\ process.next # <<>>
  BY <1>0 DEF TypeInv, ProcessType, StartProcess
<1>2. process' \in ProcessType /\ process'.no = process.no + 1
  <2>1. Head(process.next) \in TaskType /\ Tail(process.next) \in Seq(TaskType)
    BY <1>1, SeqTail
  <2>2. clock \in Nat
    BY <1>0 DEF TypeInv
  <2>3. process' = [no |-> process.no + 1, task |-> Head(process.next), start |-> clock, calls |-> 0,
                    next |-> Tail(process.next)]
    BY DEF StartProcess
  <2>4. process.no + 1 \in Nat
    BY <1>1
  <2> QED BY <2>1, <2>2, <2>3, <2>4 DEF ProcessType
<1>3. printer' \in PrinterType /\ printer'.model = printer.model /\ printer'.ams = printer.ams
  <2>1. printer \in PrinterType /\ printer' = [printer EXCEPT !.carried = {}, !.refused = {}]
    BY <1>0 DEF TypeInv, StartProcess
  <2> QED BY <2>1 DEF PrinterType
<1>4. <<>> \in Seq({GetVersion, DumpInfo})
  OBVIOUS
<1>5. TypeInv'
  <2>1. DOMAIN status' = StatusFields
    BY DEF StartProcess, Blank, StatusFields
  <2> QED BY <1>0, <1>2, <1>3, <1>4, <2>1 DEF StartProcess, TypeInv, FirstSequence
<1>6. UsedInv'
  <2>1. ASSUME NEW u \in used PROVE u[1] <= process'.no /\ u[1] # process'.no
    <3>1. u[1] \in Nat /\ u[1] <= process.no
      BY <1>0 DEF TypeInv, UsedInv
    <3> QED BY <3>1, <1>1, <1>2
  <2>2. used' = used
    BY DEF StartProcess
  <2> QED BY <2>1, <2>2 DEF UsedInv
<1>7. ~Claimed'
  BY DEF StartProcess, Claimed
<1>8. Calm
  BY <1>3, <1>7 DEF Calm, StartProcess
<1>9. GoodRequests(requests)'
  BY <1>0, <1>8, RequestsStay DEF StartProcess
<1>10. StatusInv'
  <2>1. GoodReport(Clone(status))'
    <3>1. Clone(status').id = 0 /\ Clone(status').result = None /\ Clone(status').command = None
      BY DEF StartProcess, Blank, Clone, None
    <3>2. Clone(status').ams = FALSE
      BY DEF StartProcess, Blank, Clone
    <3>3. 0 \in Int
      OBVIOUS
    <3> QED BY <1>7, <3>1, <3>2, <3>3, Zenon DEF GoodReport, None
  <2>2. GoodReports(channel)'
    BY <1>0, <1>8, ReportsStay, ShrinksSame DEF StatusInv, GoodReports, StartProcess
  <2>3. GoodReports(reports)'
    BY <1>0, <1>8, ReportsStay, ShrinksSame DEF StatusInv, GoodReports, StartProcess
  <2> QED BY <2>1, <2>2, <2>3 DEF StatusInv
<1>11. AnswerIsOwn' /\ AMSDetected'
  BY DEF StartProcess, AnswerIsOwn, AMSDetected
<1> QED BY <1>5, <1>6, <1>7, <1>9, <1>10, <1>11 DEF Inv, ClaimInv

\* The answer that ends a command is what became of its own request.
LEMMA AwaitAnswerInv ==
  ASSUME Inv, AwaitAnswer
  PROVE  Inv'
<1>0. TypeInv /\ UsedInv /\ ClaimInv /\ GoodRequests(requests) /\ StatusInv /\ AMSDetected
  BY DEF Inv
<1>1. /\ pc = "waiting" /\ pc' \in {"waiting", "success", "failed"} /\ awaited' = awaited
      /\ UNCHANGED <<clock, process, seq, greet, status, useAMS, requests, reports, printer, used>>
      /\ channel # <<>> /\ channel' = Tail(channel)
  BY DEF AwaitAnswer, wireVars
<1>2. Calm /\ Claimed
  BY <1>1 DEF Calm, Claimed
<1>3. TypeInv' /\ UsedInv' /\ ClaimInv' /\ AMSDetected'
  BY <1>0, <1>1, <1>2 DEF TypeInv, UsedInv, ClaimInv, AMSDetected
<1>4. GoodRequests(requests)'
  BY <1>0, <1>1, <1>2, RequestsStay
<1>5. Shrinks(channel', channel) /\ Shrinks(reports', reports)
  BY <1>1 DEF Shrinks
<1>6. StatusInv'
  BY <1>0, <1>1, <1>2, <1>5, StatusStays
<1>7. GoodReport(Head(channel))
  <2>1. PICK S : channel \in Seq(S) /\ \A r \in S : GoodReport(r)
    BY <1>0 DEF StatusInv, GoodReports
  <2> QED BY <1>1, <2>1, SeqTail
<1>8. ASSUME ~Reused(awaited)', pc' # "waiting" PROVE AnswerIsOwn'
  <2> DEFINE s == Head(channel)
  <2>1. Answers(s) /\ pc' = IF s.result = "success" THEN "success" ELSE "failed"
    BY <1>8 DEF AwaitAnswer
  <2>2. s.id = awaited /\ ~Reused(awaited)
    BY <1>1, <1>8, <2>1 DEF Answers, Reused
  <2>3. IF s.result = "success" THEN awaited \in printer.carried ELSE awaited \in printer.refused
    BY <1>2, <1>7, <2>2 DEF GoodReport
  <2> HIDE DEF s
  <2> QED BY <1>1, <2>1, <2>3 DEF AnswerIsOwn
<1>9. AnswerIsOwn'
  BY <1>1, <1>8 DEF AnswerIsOwn
<1> QED BY <1>3, <1>4, <1>6, <1>9 DEF Inv

\* An update tells of an AMS only if the printer has one, and the answer to pushall if it has.
LEMMA DetectAMSInv ==
  ASSUME Inv, DetectAMS
  PROVE  Inv'
<1>0. TypeInv /\ UsedInv /\ GoodRequests(requests) /\ StatusInv
  BY DEF Inv
<1>1. /\ pc = "started" /\ channel # <<>> /\ useAMS' = Detected(Head(channel))
      /\ pc' \in {"started", "detected"} /\ channel' \in {Tail(channel), <<>>}
      /\ UNCHANGED <<clock, process, seq, greet, status, requests, reports, printer, used>>
  BY DEF DetectAMS, wireVars
<1>2. Calm /\ ~Claimed'
  BY <1>1 DEF Calm, Claimed
<1>3. TypeInv' /\ UsedInv' /\ ClaimInv'
  BY <1>0, <1>1, <1>2 DEF TypeInv, UsedInv, ClaimInv
<1>4. GoodRequests(requests)'
  BY <1>0, <1>1, <1>2, RequestsStay
<1>5. Shrinks(channel', channel) /\ Shrinks(reports', reports)
  BY <1>1 DEF Shrinks
<1>6. StatusInv'
  BY <1>0, <1>1, <1>2, <1>5, StatusStays
<1>7. GoodReport(Head(channel))
  <2>1. PICK S : channel \in Seq(S) /\ \A r \in S : GoodReport(r)
    BY <1>0 DEF StatusInv, GoodReports
  <2> QED BY <1>1, <2>1, SeqTail
<1>8. AMSDetected'
  BY <1>1, <1>7 DEF GoodReport, Detected, AMSDetected
<1>9. AnswerIsOwn'
  BY <1>1 DEF AnswerIsOwn
<1> QED BY <1>3, <1>4, <1>6, <1>8, <1>9 DEF Inv

\* A payload goes out; a command that waits for its answer has asked in the section "print".
Sends(p) ==
  /\ Publish(p) /\ Sound(p)
  /\ process' \in ProcessType /\ process'.no = process.no
  /\ UNCHANGED <<clock, channel, printer, reports, useAMS>>
  /\ greet' \in Seq({GetVersion, DumpInfo})
  /\ \/ Claimed' => pc' = pc /\ awaited' = awaited
     \/ pc' = "waiting" /\ process' = process /\ awaited' = seq + 1 /\ p.section = "print"

LEMMA SendsInv ==
  ASSUME Inv, NEW p, Sends(p)
  PROVE  Inv'
<1>0. /\ TypeInv /\ UsedInv /\ ClaimInv /\ GoodRequests(requests) /\ StatusInv /\ AnswerIsOwn /\ AMSDetected
      /\ seq \in Nat /\ process.no \in Nat
  BY DEF Inv, TypeInv, ProcessType
<1>p. seq' = seq + 1 /\ used' = used \cup {<<process.no, seq + 1>>}
  BY DEF Sends, Publish
<1>n. process'.no = process.no
  BY DEF Sends
<1>1. TypeInv'
  <2>1. used' \subseteq Nat \X Nat /\ seq' \in Nat
    BY <1>0, <1>p DEF TypeInv
  <2>2. DOMAIN status' = StatusFields
    BY <1>0 DEF Sends, Publish, TypeInv
  <2> QED BY <1>0, <2>1, <2>2 DEF Sends, TypeInv
<1>2. UsedInv'
  <2>1. ASSUME NEW u \in used' PROVE u[1] <= process.no /\ (u[1] = process.no => u[2] <= seq + 1)
    <3>1. CASE u \in used
      <4>1. u \in Nat \X Nat /\ u[1] <= process.no /\ (u[1] = process.no => u[2] <= seq)
        BY <1>0, <3>1 DEF TypeInv, UsedInv
      <4> QED BY <1>0, <4>1
    <3>2. CASE u = <<process.no, seq + 1>>
      BY <1>0, <3>2
    <3> QED BY <1>p, <3>1, <3>2
  <2> QED BY <1>p, <1>n, <2>1 DEF UsedInv
<1>3. Calm \/ Asks
  <2>1. CASE Claimed' => pc' = pc /\ awaited' = awaited
    BY <1>n, <1>p, <2>1 DEF Calm, Sends, Claimed
  <2>2. CASE pc' = "waiting" /\ process' = process /\ awaited' = seq + 1
    BY <1>p, <2>2 DEF Asks, Sends
  <2> QED BY <2>1, <2>2 DEF Sends
<1>4. ClaimInv'
  <2>1. CASE Claimed' => pc' = pc /\ awaited' = awaited
    <3>1. ASSUME Claimed' PROVE awaited \in Nat \ {0} /\ awaited <= seq + 1 /\ <<process.no, awaited>> \in used'
      <4>1. Claimed
        BY <2>1, <3>1 DEF Claimed
      <4>2. awaited \in Nat \ {0} /\ awaited <= seq /\ <<process.no, awaited>> \in used
        BY <1>0, <4>1 DEF ClaimInv
      <4> QED BY <1>0, <1>p, <4>2
    <3> QED BY <1>n, <1>p, <2>1, <3>1 DEF ClaimInv
  <2>2. CASE pc' = "waiting" /\ process' = process /\ awaited' = seq + 1
    <3>1. seq + 1 \in Nat \ {0} /\ seq + 1 <= seq + 1
      BY <1>0
    <3> QED BY <1>p, <2>2, <3>1 DEF ClaimInv
  <2> QED BY <2>1, <2>2 DEF Sends
<1>5. GoodRequests(requests)'
  <2>1. PICK S : requests \in Seq(S) /\ \A r \in S : GoodRequest(r)
    BY <1>0 DEF GoodRequests
  <2>2. \A r \in S : GoodRequest(r)'
    BY <1>0, <1>3, <2>1, RequestStays
  <2>0. PICK new : new = [no |-> process.no, id |-> seq + 1, payload |-> p, known |-> status.identified]
    OBVIOUS
  <2>3. GoodRequest(new)'
    <3>1. new.no = process.no /\ new.id = seq + 1 /\ new.payload = p /\ new.known = status.identified
      BY <2>0
    <3>2. new.id \in Nat \ {0} /\ new.no \in Nat /\ <<new.no, new.id>> \in used'
      BY <1>0, <1>p, <3>1, NextIsNew
    <3>3. Decoded(p) /\ Limited(p, new.known)'
      BY <3>1, LimitedStays DEF Sends, Sound
    <3>4. ASSUME Claimed', new.no = process'.no, new.id = awaited' PROVE p.section = "print"
      <4>1. CASE Claimed' => pc' = pc /\ awaited' = awaited
        <5>1. Claimed /\ awaited = seq + 1
          BY <3>1, <3>4, <4>1 DEF Claimed
        <5>2. awaited <= seq
          BY <1>0, <5>1 DEF ClaimInv
        <5> QED BY <1>0, <5>1, <5>2
      <4> QED BY <4>1 DEF Sends
    <3> QED BY <3>1, <3>2, <3>3, <3>4 DEF GoodRequest
  <2>4. requests' \in Seq(S \cup {new})
    <3>1. requests' \in {requests, Append(requests, new)}
      BY <2>0 DEF Sends, Publish
    <3>2. requests \in Seq(S \cup {new}) /\ Append(requests, new) \in Seq(S \cup {new})
      BY <2>1, SeqAppend, SeqGrows
    <3> QED BY <3>1, <3>2
  <2>5. \A r \in S \cup {new} : GoodRequest(r)'
    BY <2>2, <2>3
  <2> QED BY <2>4, <2>5 DEF GoodRequests
<1>6. StatusInv'
  <2>1. Clone(status)' = Clone(status)
    BY <1>0 DEF Sends, Publish, Clone, TypeInv, StatusFields
  <2> QED BY <1>0, <1>3, <2>1, StatusStays, ShrinksSame DEF Sends
<1>7. AnswerIsOwn'
  <2>1. CASE pc' \in {"success", "failed"}
    <3>1. pc' = pc /\ awaited' = awaited /\ printer' = printer
      BY <2>1 DEF Sends, Claimed
    <3>2. ~Reused(awaited)' => ~Reused(awaited)
      BY <1>p, <3>1 DEF Reused
    <3> QED BY <1>0, <3>1, <3>2 DEF AnswerIsOwn
  <2>2. CASE pc' \notin {"success", "failed"}
    BY <2>2 DEF AnswerIsOwn
  <2> QED BY <2>1, <2>2
<1>8. AMSDetected'
  BY <1>0 DEF Sends, AMSDetected
<1> QED BY <1>1, <1>2, <1>4, <1>5, <1>6, <1>7, <1>8 DEF Inv

\* The steps that publish.
SendsSteps ==
  Greet \/ Serve \/ RunSimple \/ RunPrint \/ RunGCode \/ RunFilament \/ RunFilamentFound \/ RunDump

LEMMA IssueSends ==
  ASSUME Inv, NEW payloads, NEW next, Issue(payloads, next), next \in {"done", "dumping", "waiting"},
         \A p \in payloads : Sound(p) /\ (next = "waiting" => p.section = "print")
  PROVE  \E p : Sends(p)
<1>1. PICK p \in payloads : Publish(p)
  BY DEF Issue
<1>2. /\ UNCHANGED <<clock, process, greet, channel, useAMS, reports, printer>>
      /\ pc' = next /\ awaited' = IF next = "waiting" THEN seq + 1 ELSE 0
  BY DEF Issue
<1>3. process \in ProcessType /\ greet \in Seq({GetVersion, DumpInfo})
  BY DEF Inv, TypeInv
<1>4. Claimed' => pc' = "waiting"
  BY <1>2 DEF Claimed
<1> QED BY <1>1, <1>2, <1>3, <1>4 DEF Sends

LEMMA StepsSend ==
  ASSUME Inv, BeliefInv, SendsSteps
  PROVE  \E p : Sends(p)
<1>0. TypeInv /\ Believes(status)
  BY DEF Inv, BeliefInv
<1>1. CASE Greet
  <2>1. greet \in Seq({GetVersion, DumpInfo}) /\ greet # <<>> /\ process \in ProcessType
    BY <1>0, <1>1 DEF Greet, TypeInv
  <2>2. Head(greet) \in {GetVersion, DumpInfo} /\ Tail(greet) \in Seq({GetVersion, DumpInfo})
    BY <2>1, SeqTail
  <2>3. PICK p \in Head(greet) : Publish(p)
    BY <1>1 DEF Greet
  <2>4. Sound(p)
    BY <2>2, <2>3, ListsSound
  <2>5. Claimed' => pc' = pc /\ awaited' = awaited
    BY <1>1 DEF Greet, commandVars
  <2> QED BY <1>1, <2>1, <2>2, <2>3, <2>4, <2>5 DEF Greet, Sends, commandVars
<1>2. CASE Serve
  <2>1. PICK p \in HandleAPIControl \cup HandleAPIPrint \cup HandleAPIFilament \cup HACommands : Publish(p)
    BY <1>2 DEF Serve
  <2>2. Sound(p)
    BY <1>0, <2>1, ServeSound
  <2>3. process' \in ProcessType /\ process'.no = process.no
    <3>1. process \in ProcessType /\ process' = [process EXCEPT !.calls = process.calls + 1]
      BY <1>0, <1>2 DEF Serve, TypeInv
    <3> QED BY <3>1 DEF ProcessType
  <2>4. greet' \in Seq({GetVersion, DumpInfo})
    BY <1>0, <1>2 DEF Serve, TypeInv
  <2> QED BY <1>2, <2>1, <2>2, <2>3, <2>4 DEF Serve, Sends, commandVars
<1>3. CASE RunSimple
  BY <1>0, <1>3, SimpleCmdSound, IssueSends DEF RunSimple
<1>4. CASE RunPrint
  BY <1>4, PrintStartSound, IssueSends DEF RunPrint
<1>5. CASE RunGCode
  BY <1>5, SendGCodeSound, IssueSends DEF RunGCode
<1>6. CASE RunFilament
  BY <1>6, FilamentSound, IssueSends DEF RunFilament
<1>7. CASE RunFilamentFound
  <2>1. PICK args : Issue(AmsFilamentCmd(args), "waiting")
    BY <1>7 DEF RunFilamentFound
  <2> QED BY <2>1, FilamentSound, IssueSends
<1>8. CASE RunDump
  BY <1>8, ListsSound, IssueSends DEF RunDump
<1> QED BY <1>1, <1>2, <1>3, <1>4, <1>5, <1>6, <1>7, <1>8 DEF SendsSteps

-----------------------------------------------------------------------------
(* What the printer does, and what becomes of its reports. *)

\* The awaited request has the id to itself, unless another process used it too.
LEMMA AwaitedIsOwn ==
  ASSUME ClaimInv, NEW r, GoodRequest(r), Claimed, r.id = awaited, ~Reused(awaited)
  PROVE  r.no = process.no /\ r.payload.section = "print" /\ r.payload.command \notin {"pushall", "get_version"}
<1>1. <<process.no, awaited>> \in used /\ <<r.no, awaited>> \in used
  BY DEF ClaimInv, GoodRequest
<1>2. \A n : <<n, awaited>>[2] = awaited
  OBVIOUS
<1>3. <<process.no, awaited>> = <<r.no, awaited>>
  BY <1>1, <1>2 DEF Reused
<1>4. r.no = process.no
  BY <1>3
<1> QED BY <1>4 DEF GoodRequest, Decoded

\* The fields of a report.
LEMMA ResultReportFields ==
  ASSUME NEW id, NEW result, NEW command
  PROVE  /\ ResultReport(id, result, command).id = id
         /\ ResultReport(id, result, command).result = result
         /\ ResultReport(id, result, command).command = command
         /\ ResultReport(id, result, command).model = None
         /\ ResultReport(id, result, command).bed = 0
         /\ ResultReport(id, result, command).nozzle = 0
BY DEF ResultReport, Silent

LEMMA ResultReportNoAMS ==
  ASSUME NEW id, NEW result, NEW command
  PROVE  ResultReport(id, result, command).ams = FALSE
BY DEF ResultReport, Silent

\* One that answers nobody.
LEMMA TellingFields ==
  ASSUME NEW x \in VersionReport \cup ModelReport \cup {LimitsReport}
  PROVE  /\ x.id = 0 /\ x.result = None /\ x.command = None /\ x.ams = FALSE
         /\ x.model \in OwnModels \cup {None}
         /\ x.bed \in {0, Caps[printer.model].bed} /\ x.nozzle \in {0, Caps[printer.model].nozzle}
<1>1. CASE x \in VersionReport
  BY <1>1 DEF VersionReport, Silent, None
<1>2. CASE x \in ModelReport
  BY <1>2 DEF ModelReport, Silent
<1>3. CASE x = LimitsReport
  BY <1>3 DEF LimitsReport, Silent
<1> QED BY <1>1, <1>2, <1>3

LEMMA FullReportFields ==
  ASSUME NEW id, NEW x \in FullReport(id)
  PROVE  /\ x.id \in {id, OtherId} /\ x.result = None
         /\ x.command \in {"pushall", "push_status"} /\ x.ams = printer.ams
         /\ x.model = None /\ x.bed = 0 /\ x.nozzle = 0
<1>1. PICK i \in {id, OtherId}, c \in {"pushall", "push_status"} :
        x = [Silent EXCEPT !.id = i, !.command = c, !.ams = printer.ams, !.telemetry = TRUE]
  BY DEF FullReport
<1> QED BY <1>1 DEF Silent

\* What a request is answered with.
LEMMA AnswerIs ==
  ASSUME NEW r, Decoded(r.payload), NEW result, NEW report \in Answer(r, result)
  PROVE  \/ report = <<>>
         \/ /\ r.payload.command = "get_version"
            /\ \E x \in VersionReport : report = <<x>>
         \/ /\ r.payload.command = "pushall"
            /\ \E x \in FullReport(r.id) : report = <<x>>
         \/ /\ r.payload.section = "print" /\ r.payload.command \notin {"get_version", "pushall"}
            /\ report = <<ResultReport(r.id, result, r.payload.command)>>
<1> DEFINE version == {<<v>> : v \in VersionReport}
           print == <<ResultReport(r.id, result, r.payload.command)>>
           full == {<<f>> : f \in FullReport(r.id)}
<1>2. /\ \A y \in full : \E x \in FullReport(r.id) : y = <<x>>
      /\ \A y \in version : \E x \in VersionReport : y = <<x>>
  OBVIOUS
<1>1. Answer(r, result) = CASE r.payload.command = "get_version" -> version
                            [] r.payload.command = "pushall" -> full
                            [] r.payload.section = "print" -> {print}
                            [] OTHER -> {<<>>}
  BY DEF Answer
<1>s. r.payload.section = "print" => r.payload.command \notin {"pushall", "get_version"}
  BY DEF Decoded
<1> HIDE DEF version, print, full
<1>3. CASE r.payload.command = "get_version"
  <2>1. report \in version
    BY <1>1, <1>s, <1>3
  <2> QED BY <1>2, <1>3, <2>1
<1>4. CASE r.payload.command = "pushall"
  BY <1>1, <1>s, <1>2, <1>4
<1>5. CASE r.payload.command \notin {"get_version", "pushall"} /\ r.payload.section = "print"
  <2>1. report = print
    BY <1>1, <1>5
  <2> QED BY <1>5, <2>1 DEF print
<1>6. CASE r.payload.command \notin {"get_version", "pushall"} /\ r.payload.section # "print"
  BY <1>1, <1>6
<1> QED BY <1>3, <1>4, <1>5, <1>6

LEMMA OtherIsNone ==
  /\ OtherId \in Int /\ 0 \in Int /\ OtherId # 0
  /\ \A n \in Nat \ {0} : n # OtherId /\ n # 0 /\ n \in Int
BY DEF OtherId

\* A report of the printer's state, which answers nobody who waits.
LEMMA FullReportGood ==
  ASSUME TypeInv, ClaimInv, Calm, NEW x,
         NEW id \in Int, x.id = id, id \notin {0, OtherId} => \E u \in used : u[2] = id,
         Claimed /\ ~Reused(awaited) => awaited # id,
         x.ams \in BOOLEAN, x.ams => printer.ams,
         x.command = "pushall" => x.ams = printer.ams, id = 0 => x.result = None
  PROVE  GoodReport(x)'
<1>1. ~(Claimed' /\ x.id = awaited' /\ ~Reused(awaited)')
  <2> SUFFICES ASSUME Claimed', x.id = awaited', ~Reused(awaited)' PROVE FALSE
    OBVIOUS
  <2>1. Claimed /\ awaited' = awaited
    BY DEF Calm
  <2>2. ~Reused(awaited)
    BY <2>1 DEF Calm, Reused
  <2> QED BY <2>1, <2>2
<1>2. used \subseteq used' /\ printer'.model = printer.model /\ printer'.ams = printer.ams
  BY DEF Calm
<1> QED BY <1>1, <1>2 DEF GoodReport

\* A request handled with a result.
Handled(r, result) ==
  /\ result \in {"success", "fail"}
  /\ result = "success" => Own(r) \subseteq printer'.carried
  /\ result = "fail" => Own(r) \subseteq printer'.refused

LEMMA AnswerGood ==
  ASSUME TypeInv, ClaimInv, Calm, NEW r, GoodRequest(r), NEW result, Handled(r, result),
         NEW report \in Answer(r, result)
  PROVE  report = <<>> \/ \E x : report = <<x>> /\ GoodReport(x)'
<1>0. r.id \in Nat \ {0} /\ <<r.no, r.id>> \in used /\ Decoded(r.payload)
  BY DEF GoodRequest
<1>1. ASSUME NEW x \in VersionReport PROVE GoodReport(x)'
  <2>1. x.id = 0 /\ x.result = None /\ x.command = None /\ x.ams = FALSE
    BY <1>1, TellingFields
  <2>3. Claimed => awaited # 0
    BY DEF ClaimInv
  <2> QED BY <2>1, <2>3, FullReportGood, OtherIsNone DEF None
<1>2. ASSUME NEW x \in FullReport(r.id), r.payload.command = "pushall" PROVE GoodReport(x)'
  <2>1. /\ x.id \in {r.id, OtherId} /\ x.result = None
        /\ x.command \in {"pushall", "push_status"} /\ x.ams = printer.ams
    BY <1>2, FullReportFields
  <2>2. printer.ams \in BOOLEAN /\ x.id \in Int
    BY <1>0, <2>1, OtherIsNone DEF TypeInv, PrinterType
  <2>3. Claimed /\ ~Reused(awaited) => awaited # x.id
    <3>1. Claimed => awaited # OtherId
      BY OtherIsNone DEF ClaimInv
    <3>2. Claimed /\ ~Reused(awaited) => awaited # r.id
      BY <1>2, AwaitedIsOwn
    <3> QED BY <2>1, <3>1, <3>2
  <2>4. x.id \notin {0, OtherId} => \E u \in used : u[2] = x.id
    <3>1. <<r.no, r.id>>[2] = r.id
      OBVIOUS
    <3> QED BY <1>0, <2>1, <3>1
  <2> QED BY <2>1, <2>2, <2>3, <2>4, FullReportGood
<1>3. ASSUME NEW x, x = ResultReport(r.id, result, r.payload.command),
             r.payload.command # "pushall"
      PROVE  GoodReport(x)'
  <2>1. x.id = r.id /\ x.result = result /\ x.command # "pushall"
    BY <1>3, ResultReportFields
  <2>2. x.ams = FALSE
    BY <1>3, ResultReportNoAMS
  <2>3. x.id \in Int /\ x.id # 0 /\ \E u \in used' : u[2] = x.id
    <3>1. <<r.no, r.id>>[2] = r.id
      OBVIOUS
    <3>2. <<r.no, r.id>> \in used'
      BY <1>0 DEF Calm
    <3> QED BY <1>0, <2>1, <3>1, <3>2, OtherIsNone
  <2>4. ASSUME Claimed', x.id = awaited', ~Reused(awaited)'
        PROVE  /\ x.result # None
               /\ IF x.result = "success" THEN awaited' \in printer'.carried ELSE awaited' \in printer'.refused
    <3>1. Claimed /\ awaited' = awaited
      BY <2>4 DEF Calm
    <3>2. ~Reused(awaited)
      BY <2>4, <3>1, ReusedStays DEF Calm, Reused
    <3>3. r.no = process.no
      BY <2>1, <2>4, <3>1, <3>2, AwaitedIsOwn
    <3>4. r.id \in Own(r)
      BY <3>3 DEF Own
    <3>5. result \in {"success", "fail"}
      BY DEF Handled
    <3>6. result = "success" => r.id \in printer'.carried
      BY <3>4 DEF Handled
    <3>7. result = "fail" => r.id \in printer'.refused
      BY <3>4 DEF Handled
    <3> QED BY <2>1, <2>4, <3>5, <3>6, <3>7 DEF None
  <2> QED BY <2>1, <2>2, <2>3, <2>4 DEF GoodReport
<1> QED BY <1>0, <1>1, <1>2, <1>3, AnswerIs

\* A report that is good joins those that are.
LEMMA DeliveredStays ==
  ASSUME TypeInv, UsedInv, Calm, StatusInv, status' = status, channel' = channel,
         NEW report, Delivered(report), report = <<>> \/ \E x : report = <<x>> /\ GoodReport(x)'
  PROVE  StatusInv'
<1>1. PICK S : reports \in Seq(S) /\ \A r \in S : GoodReport(r)
  BY DEF StatusInv, GoodReports
<1>2. PICK T : report \in Seq(T) /\ \A x \in T : GoodReport(x)'
  <2> DEFINE Those(T) == report \in Seq(T) /\ \A x \in T : GoodReport(x)'
  <2>1. CASE report = <<>>
    <3>1. report \in Seq({})
      BY <2>1, EmptySeq
    <3>2. Those({})
      BY <3>1
    <3> QED BY <3>2
  <2>2. ASSUME NEW x, report = <<x>>, GoodReport(x)' PROVE \E T : Those(T)
    <3>1. Those({x})
      BY <2>2
    <3> QED BY <3>1
  <2> QED BY <2>1, <2>2
<1>3. reports' \in Seq(S \cup T)
  <2>1. reports \in Seq(S \cup T) /\ reports \o report \in Seq(S \cup T)
    BY <1>1, <1>2, SeqConcat, SeqGrows
  <2> QED BY <2>1 DEF Delivered
<1>4. \A x \in S \cup T : GoodReport(x)'
  BY <1>1, <1>2, ReportStays
<1>5. GoodReports(reports)'
  BY <1>3, <1>4 DEF GoodReports
<1>6. \E U : reports \in Seq(U) /\ \A r \in U : GoodReport(r)
  BY <1>1
<1>7. GoodReport(Clone(status))'
  <2>1. PICK s : s = Clone(status)
    OBVIOUS
  <2>2. GoodReport(s)'
    BY <2>1, ReportStays DEF StatusInv
  <2> QED BY <2>1, <2>2 DEF GoodReport
<1>8. GoodReports(channel)'
  BY ReportsStay, ShrinksSame DEF StatusInv, GoodReports
<1> QED BY <1>5, <1>7, <1>8 DEF StatusInv

LEMMA PrinterHandlesInv ==
  ASSUME Inv, PrinterHandles
  PROVE  Inv'
<1>0. TypeInv /\ UsedInv /\ ClaimInv /\ GoodRequests(requests) /\ StatusInv /\ AnswerIsOwn /\ AMSDetected
      /\ printer \in PrinterType
  BY DEF Inv, TypeInv
<1>1. /\ UNCHANGED <<clock, process, seq, greet, status, channel, pc, awaited, useAMS, used>>
      /\ requests # <<>> /\ requests' = Tail(requests)
  BY DEF PrinterHandles, clientVars, commandVars
<1>2. PICK S : requests \in Seq(S) /\ \A r \in S : GoodRequest(r)
  BY <1>0 DEF GoodRequests
<1>3. PICK r : r = Head(requests)
  OBVIOUS
<1>4. GoodRequest(r) /\ requests' \in Seq(S)
  BY <1>1, <1>2, <1>3, SeqTail
<1>5. Own(r) \subseteq Nat
  BY <1>4 DEF Own, GoodRequest
<1>6. PICK result \in {"success", "fail"} :
        /\ \E report \in Answer(r, result) : Delivered(report)
        /\ printer' = IF result = "success" THEN [printer EXCEPT !.carried = printer.carried \cup Own(r)]
                      ELSE [printer EXCEPT !.refused = printer.refused \cup Own(r)]
  BY <1>3 DEF PrinterHandles
<1>7. /\ printer' \in PrinterType
      /\ printer'.model = printer.model /\ printer'.ams = printer.ams
      /\ printer.carried \subseteq printer'.carried /\ printer.refused \subseteq printer'.refused
      /\ Handled(r, result)
  <2>1. CASE result = "success"
    <3>1. printer' = [printer EXCEPT !.carried = printer.carried \cup Own(r)]
      BY <1>6, <2>1
    <3> QED BY <1>0, <1>5, <2>1, <3>1 DEF PrinterType, Handled
  <2>2. CASE result = "fail"
    <3>1. printer' = [printer EXCEPT !.refused = printer.refused \cup Own(r)]
      BY <1>6, <2>2
    <3> QED BY <1>0, <1>5, <2>2, <3>1 DEF PrinterType, Handled
  <2> QED BY <2>1, <2>2
<1>8. Calm
  BY <1>1, <1>7 DEF Calm, Claimed
<1>9. TypeInv' /\ UsedInv' /\ ClaimInv'
  <2>1. TypeInv' /\ UsedInv'
    BY <1>0, <1>1, <1>7 DEF TypeInv, UsedInv
  <2>2. ClaimInv'
    BY <1>0, <1>1 DEF ClaimInv, Claimed
  <2> QED BY <2>1, <2>2
<1>10. GoodRequests(requests)'
  <2>1. \A q \in S : GoodRequest(q)'
    BY <1>0, <1>2, <1>8, RequestStays
  <2> QED BY <1>4, <2>1 DEF GoodRequests
<1>11. StatusInv'
  <2>1. PICK report \in Answer(r, result) : Delivered(report)
    BY <1>6
  <2>2. report = <<>> \/ \E x : report = <<x>> /\ GoodReport(x)'
    BY <1>0, <1>4, <1>7, <1>8, <2>1, AnswerGood
  <2> QED BY <1>0, <1>1, <1>8, <2>1, <2>2, DeliveredStays
<1>12. AnswerIsOwn'
  <2>1. Reused(awaited)' <=> Reused(awaited)
    BY <1>1 DEF Reused
  <2> QED BY <1>0, <1>1, <1>7, <2>1 DEF AnswerIsOwn
<1>13. AMSDetected'
  BY <1>0, <1>1, <1>7 DEF AMSDetected
<1> QED BY <1>9, <1>10, <1>11, <1>12, <1>13 DEF Inv

\* The printer's own reports, and other programs' answers, carry no id of a client's.
Pushes ==
  FullReport(OtherId)
    \cup {ResultReport(OtherId, res, "gcode_line") : res \in {"success", "fail"}}
    \cup ModelReport \cup {LimitsReport, ResultReport(0, None, "push_status")}

LEMMA PushGood ==
  ASSUME TypeInv, ClaimInv, Calm, NEW x \in Pushes
  PROVE  GoodReport(x)'
<1>0. printer.ams \in BOOLEAN /\ (Claimed => awaited # 0 /\ awaited # OtherId)
  BY OtherIsNone DEF TypeInv, PrinterType, ClaimInv
<1>1. CASE x \in FullReport(OtherId)
  <2>1. /\ x.id = OtherId /\ x.result = None /\ x.ams = printer.ams
    BY <1>1, FullReportFields
  <2> QED BY <1>0, <2>1, FullReportGood, OtherIsNone
<1>2. CASE \E res \in {"success", "fail"} : x = ResultReport(OtherId, res, "gcode_line")
  <2>1. x.id = OtherId /\ x.command # "pushall"
    BY <1>2, ResultReportFields
  <2>2. x.ams = FALSE
    BY <1>2, ResultReportNoAMS
  <2> QED BY <1>0, <2>1, <2>2, FullReportGood, OtherIsNone
<1>3. CASE x \in ModelReport \cup {LimitsReport}
  <2>1. x.id = 0 /\ x.command # "pushall" /\ x.result = None /\ x.ams = FALSE
    BY <1>3, TellingFields DEF None
  <2> QED BY <1>0, <2>1, FullReportGood, OtherIsNone
<1>4. CASE x = ResultReport(0, None, "push_status")
  <2>1. x.id = 0 /\ x.command # "pushall" /\ x.result = None
    BY <1>4, ResultReportFields
  <2>2. x.ams = FALSE
    BY <1>4, ResultReportNoAMS
  <2> QED BY <1>0, <2>1, <2>2, FullReportGood, OtherIsNone DEF None
<1> QED BY <1>1, <1>2, <1>3, <1>4 DEF Pushes

LEMMA PrinterPushesInv ==
  ASSUME Inv, PrinterPushes
  PROVE  Inv'
<1>0. TypeInv /\ UsedInv /\ ClaimInv /\ GoodRequests(requests) /\ StatusInv /\ AnswerIsOwn /\ AMSDetected
  BY DEF Inv
<1>1. UNCHANGED <<clock, process, seq, greet, status, channel, pc, awaited, useAMS, used, requests, printer>>
  BY DEF PrinterPushes, clientVars, commandVars
<1>2. PICK x \in Pushes : Delivered(<<x>>)
  BY DEF PrinterPushes, Pushes
<1>3. Calm
  BY <1>1 DEF Calm, Claimed
<1>4. TypeInv' /\ UsedInv' /\ AMSDetected'
  BY <1>0, <1>1 DEF TypeInv, UsedInv, AMSDetected
<1>5. ClaimInv'
  BY <1>0, <1>1 DEF ClaimInv, Claimed
<1>6. GoodRequests(requests)'
  BY <1>0, <1>1, <1>3, RequestsStay
<1>7. StatusInv'
  <2>1. GoodReport(x)'
    BY <1>0, <1>2, <1>3, PushGood
  <2>2. \E y : <<x>> = <<y>> /\ GoodReport(y)'
    BY <2>1
  <2> QED BY <1>0, <1>1, <1>2, <1>3, <2>2, DeliveredStays
<1>8. AnswerIsOwn'
  BY <1>0, <1>1 DEF AnswerIsOwn, Reused
<1> QED BY <1>4, <1>5, <1>6, <1>7, <1>8 DEF Inv

\* What two good reports say together is good: the later answer has the later id.
LEMMA MergedGood ==
  ASSUME ClaimInv, NEW s, GoodReport(s), NEW r, GoodReport(r), NEW m,
         m.id = OrElse(r.id, s.id), m.result = OrElseId(r.result, s.result),
         m.command = OrElseId(r.command, s.command), m.ams = (s.ams \/ r.ams)
  PROVE  GoodReport(m)
<1>1. /\ m.id = OrElse(r.id, s.id)
      /\ m.result = OrElseId(r.result, s.result) /\ m.command = OrElseId(r.command, s.command)
  OBVIOUS
<1>2. m.ams = (s.ams \/ r.ams)
  OBVIOUS
<1>3. m.id \in Int
  BY <1>1 DEF GoodReport, OrElse, OrElseId
<1>4. m.ams \in BOOLEAN /\ (m.ams => printer.ams)
  BY <1>2 DEF GoodReport
<1>5. m.command = "pushall" => m.ams = printer.ams
  <2> SUFFICES ASSUME m.command = "pushall" PROVE m.ams = printer.ams
    OBVIOUS
  <2>1. s.ams = printer.ams \/ r.ams = printer.ams
    BY <1>1 DEF GoodReport, OrElseId
  <2> QED BY <1>2, <2>1 DEF GoodReport
<1>6. m.id = 0 => m.result = None
  BY <1>1 DEF GoodReport, OrElse, OrElseId
<1>7. m.id \notin {0, OtherId} => \E u \in used : u[2] = m.id
  BY <1>1 DEF GoodReport, OrElse
<1>8. ASSUME Claimed, m.id = awaited, ~Reused(awaited)
      PROVE  /\ m.result # None
             /\ IF m.result = "success" THEN awaited \in printer.carried ELSE awaited \in printer.refused
  <2>0. awaited # 0
    BY <1>8 DEF ClaimInv
  <2>1. CASE r.id = awaited
    BY <1>1, <1>8, <2>1 DEF GoodReport, OrElseId, None
  <2>2. CASE r.id # awaited
    <3>1. r.id = 0 /\ s.id = awaited
      BY <1>1, <1>8, <2>0, <2>2 DEF OrElse
    <3>2. m.result = s.result
      BY <1>1, <3>1 DEF GoodReport, OrElseId, None
    <3> QED BY <1>8, <3>1, <3>2 DEF GoodReport
  <2> QED BY <2>1, <2>2
<1> QED BY <1>3, <1>4, <1>5, <1>6, <1>7, <1>8 DEF GoodReport

\* What an update leaves of a status: a model and limits are none of the fields a command looks at.
LEMMA UpdatedIs ==
  ASSUME NEW s, DOMAIN s = StatusFields, NEW r
  PROVE  /\ DOMAIN Updated(s, r) = StatusFields
         /\ r.section = "info" => Clone(Updated(s, r)) = Clone(s)
         /\ r.section # "info" => Clone(Updated(s, r)) = Clone(Merged(s, r))
<1>1. ASSUME NEW t, DOMAIN t = StatusFields, NEW model
      PROVE  DOMAIN WithModel(t, model) = StatusFields /\ Clone(WithModel(t, model)) = Clone(t)
  BY <1>1 DEF WithModel, Clone, StatusFields
<1>2. ASSUME NEW t, DOMAIN t = StatusFields
      PROVE  /\ DOMAIN [t EXCEPT !.identified = TRUE] = StatusFields
             /\ Clone([t EXCEPT !.identified = TRUE]) = Clone(t)
  BY <1>2 DEF Clone, StatusFields
<1>3. DOMAIN Merged(s, r) = StatusFields
  BY DEF Merged, StatusFields
<1>4. CASE r.section = "info"
  <2>1. Updated(s, r) \in {s, [WithModel(s, r.model) EXCEPT !.identified = TRUE]}
    BY <1>4 DEF Updated, Identified
  <2> QED BY <1>1, <1>2, <1>4, <2>1
<1>5. CASE r.section # "info"
  <2>1. Updated(s, r) \in {Merged(s, r), WithModel(Merged(s, r), "C12")}
    BY <1>5 DEF Updated, Promoted
  <2> QED BY <1>1, <1>3, <1>5, <2>1
<1> QED BY <1>4, <1>5

LEMMA UpdatedGood ==
  ASSUME ClaimInv, NEW s, DOMAIN s = StatusFields, GoodReport(Clone(s)), NEW r, GoodReport(r)
  PROVE  GoodReport(Clone(Updated(s, r)))
<1>1. CASE r.section = "info"
  <2>1. Clone(Updated(s, r)) = Clone(s)
    BY <1>1, UpdatedIs
  <2> QED BY <2>1
<1>2. CASE r.section # "info"
  <2>1. Clone(Updated(s, r)) = Clone(Merged(s, r))
    BY <1>2, UpdatedIs
  <2>2. PICK old, new : old = Clone(s) /\ new = Clone(Merged(s, r))
    OBVIOUS
  <2>3. /\ new.id = OrElse(r.id, old.id) /\ new.result = OrElseId(r.result, old.result)
        /\ new.command = OrElseId(r.command, old.command) /\ new.ams = (old.ams \/ r.ams)
    BY <2>2 DEF Clone, Merged
  <2>4. GoodReport(old)
    BY <2>2
  <2>5. GoodReport(new)
    BY <2>3, <2>4, MergedGood
  <2> QED BY <2>1, <2>2, <2>5
<1> QED BY <1>1, <1>2

LEMMA OnMessageInv ==
  ASSUME Inv, OnMessage
  PROVE  Inv'
<1>0. TypeInv /\ UsedInv /\ ClaimInv /\ GoodRequests(requests) /\ StatusInv /\ AnswerIsOwn /\ AMSDetected
  BY DEF Inv
<1>1. PICK i \in DOMAIN reports :
        /\ reports' = [j \in 1..(Len(reports) - 1) |-> reports[IF j < i THEN j ELSE j + 1]]
        /\ status' = Updated(status, reports[i])
        /\ channel' \in {channel, Append(channel, Clone(status'))}
  BY DEF OnMessage
<1>2. UNCHANGED <<clock, process, seq, greet, pc, awaited, useAMS, requests, printer, used>>
  BY DEF OnMessage, commandVars
<1>3. Calm
  BY <1>2 DEF Calm, Claimed
<1>4. TypeInv' /\ UsedInv' /\ AMSDetected'
  <2>1. DOMAIN status' = StatusFields
    BY <1>0, <1>1, UpdatedIs DEF TypeInv
  <2> QED BY <1>0, <1>2, <2>1 DEF TypeInv, UsedInv, AMSDetected
<1>5. ClaimInv'
  BY <1>0, <1>2 DEF ClaimInv, Claimed
<1>6. GoodRequests(requests)'
  BY <1>0, <1>2, <1>3, RequestsStay
<1>7. StatusInv'
  <2>1. PICK S : reports \in Seq(S) /\ \A r \in S : GoodReport(r)
    BY <1>0 DEF StatusInv, GoodReports
  <2>2. reports' \in Seq(S) /\ reports[i] \in S
    BY <1>1, <2>1, SeqRemove
  <2>3. PICK m : m = Clone(Updated(status, reports[i]))
    OBVIOUS
  <2>4. GoodReport(Clone(status)) /\ GoodReport(reports[i]) /\ DOMAIN status = StatusFields
    BY <1>0, <2>1, <2>2 DEF StatusInv, TypeInv
  <2>5. GoodReport(m)
    BY <1>0, <2>3, <2>4, UpdatedGood
  <2>6. GoodReport(m)' /\ \A r \in S : GoodReport(r)'
    BY <1>0, <1>3, <2>1, <2>5, ReportStays
  <2>7. m = Clone(status')
    BY <1>1, <2>3
  <2>8. GoodReport(Clone(status))'
    BY <2>6, <2>7 DEF GoodReport
  <2>9. GoodReports(reports)'
    BY <2>2, <2>6 DEF GoodReports
  <2>10. GoodReports(channel)'
    <3>1. PICK T : channel \in Seq(T) /\ \A r \in T : GoodReport(r)
      BY <1>0 DEF StatusInv, GoodReports
    <3>2. channel' \in Seq(T \cup {m})
      <4>1. channel \in Seq(T \cup {m}) /\ Append(channel, m) \in Seq(T \cup {m})
        BY <3>1, SeqAppend, SeqGrows
      <4> QED BY <1>1, <2>7, <4>1
    <3>3. \A r \in T \cup {m} : GoodReport(r)'
      BY <1>0, <1>3, <2>6, <3>1, ReportStays
    <3> QED BY <3>2, <3>3 DEF GoodReports
  <2> QED BY <2>8, <2>9, <2>10 DEF StatusInv
<1>8. AnswerIsOwn'
  BY <1>0, <1>2 DEF AnswerIsOwn, Reused
<1> QED BY <1>4, <1>5, <1>6, <1>7, <1>8 DEF Inv

-----------------------------------------------------------------------------
(* The theorems. *)

LEMMA InvInit ==
  ASSUME Init
  PROVE  Inv
<1>1. PICK s \in Scripts :
        process = [no |-> 0, task |-> "simple", start |-> 0, calls |-> 0, next |-> s.tasks]
  BY DEF Init
<1>2. process \in ProcessType /\ process.no = 0
  <2>1. s.tasks \in Seq(TaskType)
    BY PrinterAssumption
  <2>2. "simple" \in TaskType
    BY DEF TaskType
  <2> QED BY <1>1, <2>1, <2>2 DEF ProcessType
<1>3. PICK p \in Printers : printer = [model |-> p.model, ams |-> p.ams, carried |-> {}, refused |-> {}]
  BY DEF Init
<1>4. printer \in PrinterType
  <2>1. p.model \in Models /\ p.ams \in BOOLEAN
    BY PrinterAssumption
  <2> QED BY <1>3, <2>1 DEF PrinterType
<1>5. /\ clock = 0 /\ seq = 0 /\ greet = <<>> /\ status = Blank /\ channel = <<>> /\ pc = "off"
      /\ useAMS = "unknown" /\ requests = <<>> /\ reports = <<>> /\ used = {}
  BY DEF Init
<1>6. TypeInv
  <2>1. <<>> \in Seq({GetVersion, DumpInfo}) /\ 0 \in Nat /\ {} \subseteq Nat \X Nat
    BY EmptySeq
  <2>2. DOMAIN status = StatusFields
    BY <1>5 DEF Blank, StatusFields
  <2> QED BY <1>2, <1>4, <1>5, <2>1, <2>2 DEF TypeInv
<1>7. UsedInv
  BY <1>5 DEF UsedInv
<1>8. ~Claimed
  BY <1>5 DEF Claimed
<1>9. GoodRequests(requests) /\ GoodReports(channel) /\ GoodReports(reports)
  <2>1. <<>> \in Seq({})
    BY EmptySeq
  <2> DEFINE Asked(S) == <<>> \in Seq(S) /\ \A r \in S : GoodRequest(r)
             Told(S) == <<>> \in Seq(S) /\ \A r \in S : GoodReport(r)
  <2>2. Asked({}) /\ Told({})
    BY <2>1
  <2>3. (\E S : Asked(S)) /\ (\E S : Told(S))
    <3> HIDE DEF Asked, Told
    <3> QED BY <2>2
  <2>4. GoodRequests(<<>>) /\ GoodReports(<<>>)
    BY <2>3 DEF GoodRequests, GoodReports
  <2> QED BY <1>5, <2>4
<1>10. GoodReport(Clone(status))
  <2>1. Clone(status).id = 0 /\ Clone(status).result = None /\ Clone(status).command = None
    BY <1>5 DEF Blank, Clone, None
  <2>2. Clone(status).ams = FALSE
    BY <1>5 DEF Blank, Clone
  <2>3. 0 \in Int
    OBVIOUS
  <2> QED BY <1>8, <2>1, <2>2, <2>3, Zenon DEF GoodReport, None
<1>11. AnswerIsOwn /\ AMSDetected
  BY <1>5 DEF AnswerIsOwn, AMSDetected
<1> QED BY <1>6, <1>7, <1>8, <1>9, <1>10, <1>11 DEF Inv, ClaimInv, StatusInv

LEMMA InvNext ==
  ASSUME Inv, BeliefInv, [Next]_vars
  PROVE  Inv'
<1>1. CASE RestsSteps
  BY <1>1, StepsRest, RestsInv DEF Inv
<1>2. CASE SendsSteps
  BY <1>2, StepsSend, SendsInv
<1>3. CASE StartProcess
  BY <1>3, StartProcessInv
<1>4. CASE AwaitAnswer
  BY <1>4, AwaitAnswerInv
<1>5. CASE DetectAMS
  BY <1>5, DetectAMSInv
<1>6. CASE PrinterHandles
  BY <1>6, PrinterHandlesInv
<1>7. CASE PrinterPushes
  BY <1>7, PrinterPushesInv
<1>8. CASE OnMessage
  BY <1>8, OnMessageInv
<1> QED BY <1>1, <1>2, <1>3, <1>4, <1>5, <1>6, <1>7, <1>8 DEF Next, RestsSteps, SendsSteps

\* What the client believes, and what is on its way to it.
LEMMA BelievesStays ==
  ASSUME printer'.model = printer.model, NEW s, Believes(s)
  PROVE  Believes(s)'
BY DEF Believes, OwnModels

LEMMA TellsOwnStays ==
  ASSUME printer'.model = printer.model, NEW r, TellsOwn(r)
  PROVE  TellsOwn(r)'
BY DEF TellsOwn, OwnModels

\* A report that tells the printer's own model and limits, or none, changes no belief for the worse.
LEMMA UpdatedBelieves ==
  ASSUME TypeInv, NEW s, DOMAIN s = StatusFields, Believes(s), NEW r, TellsOwn(r)
  PROVE  Believes(Updated(s, r))
<1> DEFINE own == Caps[printer.model]
<1>0. /\ KnownCaps("C12") = Caps["C12"] /\ \A m \in OwnModels : KnownCaps(m) = own
      /\ own.bed \in Nat \ {0} /\ own.nozzle \in Nat \ {0}
      /\ "C12" \in OwnModels => Caps["C12"] = own
      /\ "C11" \in OwnModels => "C12" \in OwnModels
      /\ "" \notin OwnModels
  <2>1. own \in CapsType
    BY KnownCapsAre
  <2>2. own.bed \in Nat \ {0} /\ own.nozzle \in Nat \ {0}
    BY <2>1 DEF CapsType
  <2>3. "C11" \in OwnModels => "C12" \in OwnModels
    BY DEF OwnModels
  <2>4. "" \notin OwnModels /\ \A m \in OwnModels : Caps[m] = own
    BY OwnModelsAre
  <2>5. KnownCaps("C12") = Caps["C12"] /\ \A m \in OwnModels : KnownCaps(m) = own
    BY KnownCapsAre
  <2> QED BY <2>2, <2>3, <2>4, <2>5
<1>w. ASSUME NEW t, DOMAIN t = StatusFields, NEW model
      PROVE  /\ WithModel(t, model).model = model /\ WithModel(t, model).bed = KnownCaps(model).bed
             /\ WithModel(t, model).nozzle = KnownCaps(model).nozzle
             /\ WithModel(t, model).identified = t.identified
             /\ DOMAIN WithModel(t, model) = StatusFields
  BY <1>w DEF WithModel, StatusFields
<1>1. CASE r.section = "info" /\ r.model # ""
  <2>1. PICK u : u = WithModel(s, r.model)
    OBVIOUS
  <2>2. /\ u.model = r.model /\ u.bed = KnownCaps(r.model).bed /\ u.nozzle = KnownCaps(r.model).nozzle
        /\ DOMAIN u = StatusFields
    BY <1>w, <2>1
  <2>3. PICK v : v = [u EXCEPT !.identified = TRUE]
    OBVIOUS
  <2>4. /\ v.model = u.model /\ v.bed = u.bed /\ v.nozzle = u.nozzle
        /\ v.identified = TRUE
    BY <2>2, <2>3 DEF StatusFields
  <2>5. r.model \in OwnModels
    BY <1>1 DEF TellsOwn, None
  <2>6. Believes(v)
    BY <1>0, <2>2, <2>4, <2>5 DEF Believes
  <2>7. Updated(s, r) = v
    BY <1>1, <2>1, <2>3 DEF Updated, Identified
  <2> QED BY <2>6, <2>7
<1>2. CASE r.section = "info" /\ r.model = ""
  <2>1. Updated(s, r) = s
    BY <1>2 DEF Updated, Identified
  <2> QED BY <2>1
<1>3. CASE r.section # "info"
  <2>1. PICK m : m = Merged(s, r)
    OBVIOUS
  <2>2. /\ m.model = OrElseId(r.model, s.model) /\ m.bed = OrElse(r.bed, s.bed)
        /\ m.nozzle = OrElse(r.nozzle, s.nozzle) /\ m.identified = s.identified
        /\ DOMAIN m = StatusFields
    BY <2>1 DEF Merged, StatusFields
  <2>3. m.model \in {r.model, s.model} /\ (m.model = s.model \/ r.model # "")
    BY <2>2 DEF OrElseId, None
  <2>4. m.bed \in {s.bed, own.bed} /\ m.nozzle \in {s.nozzle, own.nozzle}
    BY <2>2 DEF OrElse, TellsOwn
  <2>5. m.model = s.model \/ m.model \in OwnModels
    BY <2>3 DEF TellsOwn, None
  <2>6. Believes(m)
    BY <2>2, <2>4, <2>5 DEF Believes
  <2>7. CASE m.model \in {"", "C11"} /\ m.telemetry
    <3>1. PICK v : v = WithModel(m, "C12")
      OBVIOUS
    <3>2. /\ v.model = "C12" /\ v.bed = KnownCaps("C12").bed /\ v.nozzle = KnownCaps("C12").nozzle
      BY <1>w, <2>2, <3>1
    <3>6. v.identified = m.identified
      BY <1>w, <2>2, <3>1
    <3>3. m.identified => "C12" \in OwnModels
      BY <1>0, <2>6, <2>7 DEF Believes
    <3>4. Believes(v)
      BY <1>0, <2>6, <3>2, <3>3, <3>6 DEF Believes
    <3>5. Updated(s, r) = v
      BY <1>3, <2>1, <2>7, <3>1 DEF Updated, Promoted
    <3> QED BY <3>4, <3>5
  <2>8. CASE ~(m.model \in {"", "C11"} /\ m.telemetry)
    <3>1. Updated(s, r) = m
      BY <1>3, <2>1, <2>8 DEF Updated, Promoted
    <3> QED BY <2>6, <3>1
  <2> QED BY <2>7, <2>8
<1> QED BY <1>1, <1>2, <1>3

\* What the printer answers and reports tells its own model and limits.
LEMMA AnswerTellsOwn ==
  ASSUME NEW r, GoodRequest(r), NEW result, NEW report \in Answer(r, result)
  PROVE  report = <<>> \/ \E x : report = <<x>> /\ TellsOwn(x)
<1>1. Decoded(r.payload)
  BY DEF GoodRequest
<1>2. \A x \in VersionReport \cup FullReport(r.id) : TellsOwn(x)
  BY TellingFields, FullReportFields DEF TellsOwn
<1>3. \A command : TellsOwn(ResultReport(r.id, result, command))
  BY ResultReportFields DEF TellsOwn
<1> QED BY <1>1, <1>2, <1>3, AnswerIs

LEMMA PushTellsOwn == \A x \in Pushes : TellsOwn(x)
<1>1. \A x \in FullReport(OtherId) \cup ModelReport \cup {LimitsReport} : TellsOwn(x)
  BY TellingFields, FullReportFields DEF TellsOwn
<1>2. \A id, result, command : TellsOwn(ResultReport(id, result, command))
  BY ResultReportFields DEF TellsOwn
<1> QED BY <1>1, <1>2 DEF Pushes

LEMMA OwnReportsStay ==
  ASSUME printer'.model = printer.model, NEW s, OwnReports(s), NEW t, Shrinks(t, s)
  PROVE  \E S : t \in Seq(S) /\ \A r \in S : TellsOwn(r)'
<1>1. PICK S : s \in Seq(S) /\ \A r \in S : TellsOwn(r)
  BY DEF OwnReports
<1>2. t \in Seq(S)
  <2>1. CASE t = s \/ t = <<>>
    BY <1>1, <2>1, EmptySeq
  <2>2. CASE s # <<>> /\ t = Tail(s)
    BY <1>1, <2>2, SeqTail
  <2> QED BY <2>1, <2>2 DEF Shrinks
<1>3. \A r \in S : TellsOwn(r)'
  BY <1>1, TellsOwnStays
<1> QED BY <1>2, <1>3

LEMMA OwnDelivered ==
  ASSUME printer'.model = printer.model, OwnReports(reports), NEW report, Delivered(report),
         report = <<>> \/ \E x : report = <<x>> /\ TellsOwn(x)
  PROVE  OwnReports(reports)'
<1>1. PICK S : reports \in Seq(S) /\ \A r \in S : TellsOwn(r)
  BY DEF OwnReports
<1>2. CASE report = <<>>
  <2>1. reports' \in Seq(S)
    BY <1>1, <1>2 DEF Delivered
  <2>2. \A r \in S : TellsOwn(r)'
    BY <1>1, TellsOwnStays
  <2> QED BY <2>1, <2>2 DEF OwnReports
<1>3. ASSUME NEW x, report = <<x>>, TellsOwn(x) PROVE OwnReports(reports)'
  <2>1. <<x>> \in Seq({x})
    OBVIOUS
  <2>2. reports' \in Seq(S \cup {x})
    <3>1. reports \in Seq(S \cup {x}) /\ reports \o <<x>> \in Seq(S \cup {x})
      BY <1>1, <2>1, SeqConcat, SeqGrows
    <3> QED BY <1>3, <3>1 DEF Delivered
  <2>3. \A r \in S \cup {x} : TellsOwn(r)'
    BY <1>1, <1>3, TellsOwnStays
  <2> QED BY <2>2, <2>3 DEF OwnReports
<1> QED BY <1>2, <1>3

LEMMA BeliefInvNext ==
  ASSUME Inv, BeliefInv, [Next]_vars
  PROVE  BeliefInv'
<1>0. TypeInv /\ Believes(status) /\ OwnReports(reports) /\ DOMAIN status = StatusFields
  BY DEF Inv, BeliefInv, TypeInv
<1>1. CASE printer'.model = printer.model /\ status' = status /\ Shrinks(reports', reports)
  <2>1. Believes(status)'
    <3>1. PICK s : s = status
      OBVIOUS
    <3>2. Believes(s)'
      BY <1>0, <1>1, <3>1, BelievesStays
    <3>3. status' = s
      BY <1>1, <3>1
    <3> QED BY <3>2, <3>3 DEF Believes
  <2> QED BY <1>0, <1>1, <2>1, OwnReportsStay DEF BeliefInv, OwnReports
<1>2. CASE RestsSteps
  <2>1. Rests
    BY <1>0, <1>2, StepsRest
  <2> QED BY <1>1, <2>1 DEF Rests
<1>3. CASE SendsSteps
  <2>1. PICK p : Sends(p)
    BY <1>3, StepsSend
  <2>2. printer' = printer /\ reports' = reports
    BY <2>1 DEF Sends
  <2>3. status' \in {status, [status EXCEPT !.telemetry = TRUE]}
    BY <2>1 DEF Sends, Publish
  <2>4. /\ status'.model = status.model /\ status'.bed = status.bed /\ status'.nozzle = status.nozzle
        /\ status'.identified = status.identified
    BY <1>0, <2>3 DEF StatusFields
  <2>5. Believes(status)'
    BY <1>0, <2>2, <2>4 DEF Believes, OwnModels
  <2>6. OwnReports(reports)'
    BY <1>0, <2>2, OwnReportsStay, ShrinksSame DEF OwnReports
  <2> QED BY <2>5, <2>6 DEF BeliefInv
<1>4. CASE StartProcess
  <2>1. printer'.model = printer.model
    BY <1>0, <1>4 DEF StartProcess, TypeInv, PrinterType
  <2>2. reports' = reports
    BY <1>4 DEF StartProcess
  <2>3. /\ status'.model = "" /\ status'.bed = 0 /\ status'.nozzle = 0
    BY <1>4 DEF StartProcess, Blank
  <2>4. status'.identified = FALSE
    BY <1>4 DEF StartProcess, Blank
  <2>5. Believes(status)'
    BY <2>3, <2>4 DEF Believes
  <2> QED BY <1>0, <2>1, <2>2, <2>5, OwnReportsStay, ShrinksSame DEF BeliefInv, OwnReports
<1>5. CASE AwaitAnswer \/ DetectAMS
  BY <1>1, <1>5, ShrinksSame DEF AwaitAnswer, DetectAMS, wireVars
<1>6. CASE PrinterHandles
  <2>1. PICK S : requests \in Seq(S) /\ \A r \in S : GoodRequest(r)
    BY DEF Inv, GoodRequests
  <2>2. GoodRequest(Head(requests)) /\ status' = status
    BY <1>6, <2>1, SeqTail DEF PrinterHandles, clientVars
  <2>r. PICK result \in {"success", "fail"} : \E report \in Answer(Head(requests), result) : Delivered(report)
    BY <1>6 DEF PrinterHandles
  <2>3. PICK report \in Answer(Head(requests), result) : Delivered(report)
    BY <2>r
  <2>4. report = <<>> \/ \E x : report = <<x>> /\ TellsOwn(x)
    BY <2>2, AnswerTellsOwn
  <2>5. printer'.model = printer.model
    BY <1>0, <1>6 DEF PrinterHandles, TypeInv, PrinterType
  <2>6. OwnReports(reports)'
    BY <1>0, <2>3, <2>4, <2>5, OwnDelivered
  <2>7. Believes(status)'
    BY <1>0, <2>2, <2>5 DEF Believes, OwnModels
  <2> QED BY <2>6, <2>7 DEF BeliefInv
<1>7. CASE PrinterPushes
  <2>1. PICK x \in Pushes : Delivered(<<x>>)
    BY <1>7 DEF PrinterPushes, Pushes
  <2>2. printer' = printer /\ status' = status
    BY <1>7 DEF PrinterPushes, clientVars
  <2>3. \E y : <<x>> = <<y>> /\ TellsOwn(y)
    BY PushTellsOwn
  <2>4. OwnReports(reports)'
    BY <1>0, <2>1, <2>2, <2>3, OwnDelivered
  <2>5. Believes(status)'
    BY <1>0, <2>2 DEF Believes, OwnModels
  <2> QED BY <2>4, <2>5 DEF BeliefInv
<1>8. CASE OnMessage
  <2>1. PICK i \in DOMAIN reports :
          /\ reports' = [j \in 1..(Len(reports) - 1) |-> reports[IF j < i THEN j ELSE j + 1]]
          /\ status' = Updated(status, reports[i])
    BY <1>8 DEF OnMessage
  <2>2. printer' = printer
    BY <1>8 DEF OnMessage
  <2>3. PICK S : reports \in Seq(S) /\ \A r \in S : TellsOwn(r)
    BY <1>0 DEF OwnReports
  <2>4. reports' \in Seq(S) /\ TellsOwn(reports[i])
    BY <2>1, <2>3, SeqRemove
  <2>5. \A r \in S : TellsOwn(r)'
    BY <2>2, <2>3, TellsOwnStays
  <2>6. PICK s : s = Updated(status, reports[i])
    OBVIOUS
  <2>7. Believes(s)
    BY <1>0, <2>4, <2>6, UpdatedBelieves
  <2>8. Believes(s)'
    BY <2>2, <2>7, BelievesStays
  <2>9. Believes(status)'
    BY <2>1, <2>6, <2>8 DEF Believes
  <2> QED BY <2>4, <2>5, <2>9 DEF BeliefInv, OwnReports
<1> QED BY <1>2, <1>3, <1>4, <1>5, <1>6, <1>7, <1>8 DEF Next, RestsSteps, SendsSteps

LEMMA BeliefInvInit ==
  ASSUME Init
  PROVE  BeliefInv
<1>1. status = Blank /\ reports = <<>>
  BY DEF Init
<1>2. Believes(status)
  <2>1. status.model = "" /\ status.bed = 0 /\ status.nozzle = 0
    BY <1>1 DEF Blank
  <2>2. status.identified = FALSE
    BY <1>1 DEF Blank
  <2> QED BY <2>1, <2>2 DEF Believes
<1>3. OwnReports(reports)
  <2>1. <<>> \in Seq({}) /\ \A r \in {} : TellsOwn(r)
    BY EmptySeq
  <2> QED BY <1>1, <2>1 DEF OwnReports
<1> QED BY <1>2, <1>3 DEF BeliefInv

LEMMA InvCorrect == Spec => [](Inv /\ BeliefInv)
<1>1. Init => Inv /\ BeliefInv
  BY InvInit, BeliefInvInit
<1>2. (Inv /\ BeliefInv) /\ [Next]_vars => (Inv /\ BeliefInv)'
  BY InvNext, BeliefInvNext
<1> QED BY <1>1, <1>2, PTL DEF Spec

\* What a command tells its user became of its request is what became of it (SendGCodeCmd,
\* AmsFilamentCmd), for any printers, programs and numbers.
THEOREM AnswerIsOwnCorrect == Spec => []AnswerIsOwn
<1>1. Inv => AnswerIsOwn
  BY DEF Inv
<1> QED BY <1>1, InvCorrect, PTL

\* A print is started with the AMS only if the printer has one, and without it only if it
\* has none or was not heard of in time (PrintStartCmd's waitLoop).
THEOREM AMSDetectedCorrect == Spec => []AMSDetected
<1>1. Inv => AMSDetected
  BY DEF Inv
<1> QED BY <1>1, InvCorrect, PTL

\* Once the client has been told the model, no front end asks for a temperature beyond the
\* printer's own limits, and before for none beyond the defaults and those of a P1S; a
\* chamber is heated only within its limit (SetBedTemperature, SetNozzleTemperature,
\* SetChamberTemperature), for any table of capabilities in which a P1P and a P1S agree.
THEOREM WithinLimitsCorrect == Spec => []WithinLimits
<1>1. ASSUME Inv PROVE WithinLimits
  <2>1. PICK S : requests \in Seq(S) /\ \A r \in S : GoodRequest(r)
    BY <1>1 DEF Inv, GoodRequests
  <2>2. ASSUME NEW i \in DOMAIN requests, NEW r, r = requests[i]
        PROVE  Limited(r.payload, r.known)
    <3>1. r \in S
      BY <2>1, <2>2
    <3> QED BY <2>1, <3>1 DEF GoodRequest
  <2>3. ASSUME NEW i \in DOMAIN requests, NEW r, r = requests[i]
        PROVE  LET caps == Caps[printer.model]
               IN /\ Heats(r, "M140") => \E m \in TakenFor(r) : TempOf(r) \in 0..KnownCaps(m).bed
                  /\ Heats(r, "M104") => \E m \in TakenFor(r) : TempOf(r) \in 0..KnownCaps(m).nozzle
                  /\ Heats(r, "M191") => caps.chamber > 0 /\ TempOf(r) \in 0..caps.chamber
    <3>1. TakenFor(r) = Taken(r.known)
      BY DEF TakenFor, Taken
    <3> QED BY <2>2, <2>3, <3>1 DEF Limited, Heats, TempOf
  <2> QED BY <2>3 DEF WithinLimits
<1>2. Inv => WithinLimits
  BY <1>1
<1> QED BY <1>2, InvCorrect, PTL

-----------------------------------------------------------------------------
(* The profiles the command chooses from: induction over chains, and over what LoadAll did. *)

LEMMA LeastNatural ==
  ASSUME NEW T \in SUBSET Nat, NEW n \in T
  PROVE  \E x \in T : \A y \in T : x <= y
<1> DEFINE R == {ss \in Nat \X Nat : ss[1] < ss[2]}
<1>1. IsWellFoundedOn(R, Nat)
  BY NatLessThanWellFounded DEF OpToRel
<1>2. \A x, y \in Nat : <<y, x>> \notin R => x <= y
  OBVIOUS
<1>3. T \subseteq Nat /\ T # {}
  OBVIOUS
<1> HIDE DEF R
<1>4. PICK x \in T : \A y \in T : ~(<<y, x>> \in R)
  BY <1>1, <1>3, WFMin, Zenon
<1> QED BY <1>2, <1>3, <1>4

\* What holds at 0 and is handed on holds up to N.
LEMMA Upwards ==
  ASSUME NEW N \in Nat, NEW T, 0 \in T, \A n \in 0..N : n \in T /\ n < N => n + 1 \in T
  PROVE  \A n \in 0..N : n \in T
<1> DEFINE U == {n \in 0..N : n \notin T}
<1> SUFFICES ASSUME NEW m \in U PROVE FALSE
  OBVIOUS
<1>1. U \in SUBSET Nat
  OBVIOUS
<1>2. PICK x \in U : \A y \in U : x <= y
  <2> HIDE DEF U
  <2> QED BY <1>1, LeastNatural
<1>3. x - 1 \in 0..N /\ x - 1 \notin U /\ x - 1 < N /\ x \notin T
  BY <1>2
<1> QED BY <1>3

\* Values that follow one another.
Follow(f, N, S, start, step) ==
  f \in [0..N -> S] /\ f[0] = start /\ \A d \in 1..N : f[d] = step[d][f[d - 1]]

LEMMA Iterates ==
  ASSUME NEW N \in Nat, NEW S, NEW start \in S, NEW step \in [1..N -> [S -> S]]
  PROVE  \E f : Follow(f, N, S, start, step)
<1> DEFINE Known(q, f) == f \in [0..q -> S] /\ f[0] = start /\ \A d \in 1..q : f[d] = step[d][f[d - 1]]
           T == {q \in 0..N : \E f : Known(q, f)}
<1>1. 0 \in T
  <2> DEFINE f == [d \in 0..0 |-> start]
  <2>1. Known(0, f)
    OBVIOUS
  <2>2. \E g : Known(0, g)
    BY <2>1
  <2> QED BY <2>2
<1>2. ASSUME NEW q \in 0..N, q \in T, q < N PROVE q + 1 \in T
  <2>1. PICK f : Known(q, f)
    BY <1>2
  <2> DEFINE v == step[q + 1][f[q]]
             g == [d \in 0..(q + 1) |-> IF d = q + 1 THEN v ELSE f[d]]
  <2>2. v \in S
    BY <1>2, <2>1
  <2>3. g \in [0..(q + 1) -> S] /\ g[0] = start
    BY <1>2, <2>1, <2>2
  <2>4. ASSUME NEW d \in 1..(q + 1) PROVE g[d] = step[d][g[d - 1]]
    <3>1. CASE d = q + 1
      <4>1. g[d - 1] = f[q] /\ g[d] = v
        BY <3>1
      <4> QED BY <3>1, <4>1
    <3>2. CASE d \in 1..q
      <4>1. g[d - 1] = f[d - 1] /\ g[d] = f[d]
        BY <3>2
      <4> QED BY <2>1, <3>2, <4>1
    <3> QED BY <3>1, <3>2
  <2>5. \E h : Known(q + 1, h)
    <3> HIDE DEF g
    <3> QED BY <2>3, <2>4
  <2>6. q + 1 \in 0..N
    BY <1>2
  <2> HIDE DEF Known
  <2> QED BY <2>5, <2>6
<1>3. N \in T
  <2>1. N \in 0..N
    OBVIOUS
  <2> HIDE DEF T
  <2> QED BY <1>1, <1>2, <2>1, Upwards
<1> QED BY <1>3 DEF Follow

-----------------------------------------------------------------------------
LEMMA FirstSetIs ==
  ASSUME NEW N \in Nat, NEW s, DOMAIN s = 1..N
  PROVE  \/ FirstSet(s) = 0 /\ \A i \in 1..N : s[i] = 0
         \/ \E i \in 1..N : s[i] # 0 /\ FirstSet(s) = s[i] /\ \A j \in 1..(i - 1) : s[j] = 0
<1>1. CASE \A i \in 1..N : s[i] = 0
  BY <1>1 DEF FirstSet
<1>2. CASE \E i \in 1..N : s[i] # 0
  <2> DEFINE T == {i \in 1..N : s[i] # 0}
  <2>1. T \in SUBSET Nat /\ \E i : i \in T
    BY <1>2
  <2>2. PICK x \in T : \A y \in T : x <= y
    <3> HIDE DEF T
    <3> QED BY <2>1, LeastNatural
  <2> DEFINE First(i) == s[i] # 0 /\ \A j \in 1..(i - 1) : s[j] = 0
             c == CHOOSE i \in 1..N : First(i)
  <2>3. First(x)
    BY <2>2
  <2>4. c \in 1..N /\ First(c)
    <3> HIDE DEF First
    <3> QED BY <2>2, <2>3
  <2>5. FirstSet(s) = s[c]
    BY <1>2 DEF FirstSet
  <2> HIDE DEF c
  <2> QED BY <2>4, <2>5
<1> QED BY <1>1, <1>2

LEMMA FirstSetType ==
  ASSUME NEW s \in Seq(Nat)
  PROVE  FirstSet(s) \in Nat
<1>1. Len(s) \in Nat /\ DOMAIN s = 1..Len(s) /\ \A i \in 1..Len(s) : s[i] \in Nat
  OBVIOUS
<1> QED BY <1>1, FirstSetIs

\* What comes first, or else what is first after it.
LEMMA FirstSetNext ==
  ASSUME NEW N \in Nat \ {0}, NEW s, NEW t, DOMAIN s = 1..N, DOMAIN t = 1..N,
         \A i \in 1..(N - 1) : s[i + 1] = t[i], t[N] = 0
  PROVE  FirstSet(s) = OrElse(s[1], FirstSet(t))
<1>1. CASE s[1] # 0
  <2>1. PICK i \in 1..N : s[i] # 0 /\ FirstSet(s) = s[i] /\ \A j \in 1..(i - 1) : s[j] = 0
    <3>1. 1 \in 1..N
      OBVIOUS
    <3> QED BY <1>1, <3>1, FirstSetIs
  <2>2. i = 1
    BY <1>1, <2>1
  <2> QED BY <1>1, <2>1, <2>2 DEF OrElse
<1>2. CASE s[1] = 0
  <2>1. CASE \A i \in 1..N : s[i] = 0
    <3>1. \A i \in 1..N : t[i] = 0
      <4>1. \A i \in 1..N : i = N \/ (i \in 1..(N - 1) /\ i + 1 \in 1..N)
        OBVIOUS
      <4> QED BY <2>1, <4>1
    <3>2. FirstSet(s) = 0 /\ FirstSet(t) = 0
      BY <2>1, <3>1, FirstSetIs
    <3> QED BY <1>2, <3>2 DEF OrElse
  <2>2. ASSUME NEW i \in 1..N, s[i] # 0, FirstSet(s) = s[i], \A j \in 1..(i - 1) : s[j] = 0
        PROVE  FirstSet(t) = s[i]
    <3>1. i - 1 \in 1..(N - 1) /\ (i - 1) + 1 = i
      BY <1>2, <2>2
    <3>2. t[i - 1] = s[i]
      BY <3>1
    <3>3. PICK k \in 1..N : t[k] # 0 /\ FirstSet(t) = t[k] /\ \A j \in 1..(k - 1) : t[j] = 0
      <4>1. i - 1 \in 1..N /\ t[i - 1] # 0
        BY <2>2, <3>1, <3>2
      <4>2. N \in Nat
        OBVIOUS
      <4>3. \/ FirstSet(t) = 0 /\ \A j \in 1..N : t[j] = 0
            \/ \E j \in 1..N : t[j] # 0 /\ FirstSet(t) = t[j] /\ \A h \in 1..(j - 1) : t[h] = 0
        BY <4>2, FirstSetIs
      <4> QED BY <4>1, <4>3
    <3>4. k <= i - 1
      BY <2>2, <3>1, <3>2, <3>3
    <3>5. k \in 1..(N - 1) /\ s[k + 1] = t[k] /\ k + 1 \in 1..N
      BY <3>1, <3>3, <3>4
    <3>6. ~(k + 1 \in 1..(i - 1))
      BY <2>2, <3>3, <3>5
    <3>7. k = i - 1
      BY <3>1, <3>3, <3>4, <3>6
    <3> QED BY <3>2, <3>3, <3>7
  <2>3. \/ \A i \in 1..N : s[i] = 0
        \/ \E i \in 1..N : s[i] # 0 /\ FirstSet(s) = s[i] /\ \A j \in 1..(i - 1) : s[j] = 0
    BY FirstSetIs
  <2> QED BY <1>2, <2>1, <2>2, <2>3 DEF OrElse
<1> QED BY <1>1, <1>2

-----------------------------------------------------------------------------
(* Where a profile inherits from. *)

LEMMA DepthIs == MaxDepth \in Nat
BY DepthAssumption

NamesOrNone == Names \cup {None}

LEMMA ParentIs == Parent(None) = None /\ \A m \in NamesOrNone : Parent(m) \in NamesOrNone
BY DEF Parent, NamesOrNone

\* A chain that follows Parent as long as go says so.
Climbs(f, n, go) ==
  /\ f \in [0..(MaxDepth + 1) -> NamesOrNone]
  /\ f[0] = n
  /\ \A d \in 0..MaxDepth : f[d + 1] = IF f[d] \in go THEN Parent(f[d]) ELSE None

LEMMA Climbing ==
  ASSUME NEW n \in Names, NEW go
  PROVE  \E f : Climbs(f, n, go)
<1> DEFINE S == NamesOrNone
           N == MaxDepth + 1
           step == [i \in 1..N |-> [m \in S |-> IF m \in go THEN Parent(m) ELSE None]]
<1>1. N \in Nat /\ MaxDepth \in Nat
  BY DepthIs
<1>2. n \in S /\ None \in S
  BY DEF NamesOrNone
<1>3. step \in [1..N -> [S -> S]]
  BY <1>2, ParentIs
<1>4. \A i \in 1..N : \A m \in S : step[i][m] = IF m \in go THEN Parent(m) ELSE None
  OBVIOUS
<1> HIDE DEF step, S
<1>5. PICK f : Follow(f, N, S, n, step)
  <2>1. N \in Nat /\ n \in S
    BY <1>1, <1>2
  <2> HIDE DEF N
  <2> QED BY <1>3, <2>1, Iterates
<1>6. ASSUME NEW d \in 0..MaxDepth PROVE f[d + 1] = IF f[d] \in go THEN Parent(f[d]) ELSE None
  <2>1. d + 1 \in 1..N /\ (d + 1) - 1 = d /\ d \in 0..N
    BY <1>1
  <2>2. f[d + 1] = step[d + 1][f[d]]
    BY <1>5, <2>1 DEF Follow
  <2>3. f[d] \in S
    BY <1>5, <2>1 DEF Follow
  <2> QED BY <1>4, <2>1, <2>2, <2>3
<1> QED BY <1>5, <1>6 DEF S, Follow, Climbs

LEMMA AncestorIs ==
  ASSUME NEW n \in Names
  PROVE  /\ Ancestor(n) \in [0..(MaxDepth + 1) -> NamesOrNone]
         /\ Ancestor(n)[0] = n
         /\ \A d \in 0..MaxDepth : Ancestor(n)[d + 1] = Parent(Ancestor(n)[d])
<1> DEFINE Is(f) == f = [d \in 0..(MaxDepth + 1) |-> IF d = 0 THEN n ELSE Parent(f[d - 1])]
<1>1. Ancestor(n) = CHOOSE f : Is(f)
  BY DEF Ancestor
<1>2. \E f : Is(f)
  <2>0. PICK f : Climbs(f, n, NamesOrNone)
    BY Climbing
  <2>1. /\ f \in [0..(MaxDepth + 1) -> NamesOrNone] /\ f[0] = n
        /\ \A d \in 0..MaxDepth : f[d + 1] = IF f[d] \in NamesOrNone THEN Parent(f[d]) ELSE None
    BY <2>0 DEF Climbs
  <2>2. ASSUME NEW d \in 0..(MaxDepth + 1)
        PROVE  f[d] = IF d = 0 THEN n ELSE Parent(f[d - 1])
    <3>1. CASE d = 0
      BY <2>1, <3>1
    <3>2. CASE d # 0
      <4>1. d - 1 \in 0..MaxDepth /\ (d - 1) + 1 = d /\ d - 1 \in 0..(MaxDepth + 1)
        BY <3>2, DepthIs
      <4>2. f[d] = Parent(f[d - 1])
        <5>1. f[d - 1] \in NamesOrNone
          BY <2>1, <4>1
        <5>2. f[(d - 1) + 1] = IF f[d - 1] \in NamesOrNone THEN Parent(f[d - 1]) ELSE None
          BY <2>1, <4>1
        <5> QED BY <4>1, <5>1, <5>2
      <4> QED BY <3>2, <4>2
    <3> QED BY <3>1, <3>2
  <2>3. f = [d \in 0..(MaxDepth + 1) |-> f[d]]
    BY <2>1
  <2>4. Is(f)
    BY <2>2, <2>3
  <2> HIDE DEF Is
  <2> QED BY <2>4
<1> DEFINE a == Ancestor(n)
<1>3. Is(a)
  <2> HIDE DEF Is
  <2> QED BY <1>1, <1>2
<1> HIDE DEF a
<1>4. a[0] = n
  BY <1>3, DepthIs
<1>5. ASSUME NEW d \in 0..MaxDepth PROVE a[d + 1] = Parent(a[d])
  <2>1. d + 1 \in 0..(MaxDepth + 1) /\ d + 1 # 0 /\ (d + 1) - 1 = d
    BY DepthIs
  <2> QED BY <1>3, <2>1
<1>6. \A d \in 0..(MaxDepth + 1) : a[d] \in NamesOrNone
  <2> DEFINE T == {d \in Nat : a[d] \in NamesOrNone}
  <2>1. 0 \in T
    BY <1>4 DEF NamesOrNone
  <2>2. \A d \in 0..(MaxDepth + 1) : d \in T /\ d < MaxDepth + 1 => d + 1 \in T
    BY <1>5, ParentIs, DepthIs
  <2>3. MaxDepth + 1 \in Nat
    BY DepthIs
  <2>4. \A d \in 0..(MaxDepth + 1) : d \in T
    <3> HIDE DEF T
    <3> QED BY <2>1, <2>2, <2>3, Upwards
  <2> QED BY <2>4
<1>7. a = [d \in 0..(MaxDepth + 1) |-> a[d]]
  <2> DEFINE e == [d \in 0..(MaxDepth + 1) |-> IF d = 0 THEN n ELSE Parent(a[d - 1])]
  <2>1. a = e
    BY <1>3
  <2>2. e = [d \in 0..(MaxDepth + 1) |-> e[d]]
    OBVIOUS
  <2> HIDE DEF e
  <2> QED BY <2>1, <2>2
<1>8. a \in [0..(MaxDepth + 1) -> NamesOrNone]
  BY <1>6, <1>7
<1> QED BY <1>4, <1>5, <1>8 DEF a

\* The ancestors of a profile are those of its parent, one further on.
LEMMA AncestorOfParent ==
  ASSUME NEW n \in Names, Parent(n) # None
  PROVE  /\ Parent(n) \in Names
         /\ \A d \in 0..MaxDepth : Ancestor(n)[d + 1] = Ancestor(Parent(n))[d]
<1> DEFINE p == Parent(n)
           a == Ancestor(n)
           b == Ancestor(p)
<1>1. p \in Names
  BY ParentIs DEF NamesOrNone
<1>2. a[0] = n /\ \A d \in 0..MaxDepth : a[d + 1] = Parent(a[d])
  BY AncestorIs
<1>3. b[0] = p /\ \A d \in 0..MaxDepth : b[d + 1] = Parent(b[d])
  BY <1>1, AncestorIs
<1> HIDE DEF a, b
<1> DEFINE T == {d \in Nat : a[d + 1] = b[d]}
<1>4. 0 \in T
  <2>1. a[0 + 1] = Parent(a[0])
    BY <1>2, DepthIs
  <2> QED BY <1>2, <1>3, <2>1
<1>5. \A d \in 0..MaxDepth : d \in T /\ d < MaxDepth => d + 1 \in T
  <2> SUFFICES ASSUME NEW d \in 0..MaxDepth, d \in T, d < MaxDepth PROVE d + 1 \in T
    OBVIOUS
  <2>1. d + 1 \in 0..MaxDepth /\ d + 1 \in Nat
    BY DepthIs
  <2>2. a[(d + 1) + 1] = Parent(a[d + 1]) /\ b[d + 1] = Parent(b[d])
    BY <1>2, <1>3, <2>1
  <2> QED BY <2>1, <2>2
<1>6. \A d \in 0..MaxDepth : d \in T
  <2> HIDE DEF T
  <2> QED BY <1>4, <1>5, DepthIs, Upwards
<1> QED BY <1>1, <1>6 DEF a, b, p

\* The profiles whose chain of ancestors ends before the limit.
Grounded == {n \in Names : Ancestor(n)[MaxDepth + 1] = None}

LEMMA ParentGrounded ==
  ASSUME NEW n \in Grounded, Parent(n) # None
  PROVE  Parent(n) \in Grounded /\ Ancestor(Parent(n))[MaxDepth] = None
<1>1. MaxDepth \in 0..MaxDepth
  BY DepthIs
<1>2. n \in Names /\ Ancestor(n)[MaxDepth + 1] = None
  BY DEF Grounded
<1>3. Parent(n) \in Names /\ Ancestor(Parent(n))[MaxDepth] = None
  BY <1>1, <1>2, AncestorOfParent
<1>4. Ancestor(Parent(n))[MaxDepth + 1] = None
  BY <1>1, <1>3, AncestorIs, ParentIs
<1> QED BY <1>3, <1>4 DEF Grounded

-----------------------------------------------------------------------------
(* The four values a profile inherits. *)

Fields == {"rangeMin", "rangeMax", "targetMin", "bed"}

OwnOf(k, m) ==
  CASE k = "rangeMin" -> OwnLow(m)
    [] k = "rangeMax" -> OwnHigh(m)
    [] k = "targetMin" -> OwnTarget(m)
    [] k = "bed" -> OwnBed(m)

Chain(k, n) == [i \in 1..(MaxDepth + 2) |-> IF Ancestor(n)[i - 1] = None THEN 0 ELSE OwnOf(k, Ancestor(n)[i - 1])]
Near(k, n) == FirstSet(Chain(k, n))

LEMMA NearestIsNear ==
  \A n : /\ Nearest(n, OwnLow) = Near("rangeMin", n)
         /\ Nearest(n, OwnHigh) = Near("rangeMax", n)
         /\ Nearest(n, OwnTarget) = Near("targetMin", n)
         /\ Nearest(n, OwnBed) = Near("bed", n)
<1> SUFFICES ASSUME NEW n
             PROVE  /\ Nearest(n, OwnLow) = Near("rangeMin", n)
                    /\ Nearest(n, OwnHigh) = Near("rangeMax", n)
                    /\ Nearest(n, OwnTarget) = Near("targetMin", n)
                    /\ Nearest(n, OwnBed) = Near("bed", n)
  OBVIOUS
<1>1. \A m : /\ OwnOf("rangeMin", m) = OwnLow(m) /\ OwnOf("rangeMax", m) = OwnHigh(m)
             /\ OwnOf("targetMin", m) = OwnTarget(m) /\ OwnOf("bed", m) = OwnBed(m)
  BY DEF OwnOf
<1>2. Nearest(n, OwnLow) = Near("rangeMin", n)
  <2>1. Chain("rangeMin", n) = [i \in 1..(MaxDepth + 2) |-> IF Ancestor(n)[i - 1] = None THEN 0 ELSE OwnLow(Ancestor(n)[i - 1])]
    BY <1>1 DEF Chain
  <2> QED BY <2>1 DEF Nearest, Near
<1>3. Nearest(n, OwnHigh) = Near("rangeMax", n)
  <2>1. Chain("rangeMax", n) = [i \in 1..(MaxDepth + 2) |-> IF Ancestor(n)[i - 1] = None THEN 0 ELSE OwnHigh(Ancestor(n)[i - 1])]
    BY <1>1 DEF Chain
  <2> QED BY <2>1 DEF Nearest, Near
<1>4. Nearest(n, OwnTarget) = Near("targetMin", n)
  <2>1. Chain("targetMin", n) = [i \in 1..(MaxDepth + 2) |-> IF Ancestor(n)[i - 1] = None THEN 0 ELSE OwnTarget(Ancestor(n)[i - 1])]
    BY <1>1 DEF Chain
  <2> QED BY <2>1 DEF Nearest, Near
<1>5. Nearest(n, OwnBed) = Near("bed", n)
  <2>1. Chain("bed", n) = [i \in 1..(MaxDepth + 2) |-> IF Ancestor(n)[i - 1] = None THEN 0 ELSE OwnBed(Ancestor(n)[i - 1])]
    BY <1>1 DEF Chain
  <2> QED BY <2>1 DEF Nearest, Near
<1> QED BY <1>2, <1>3, <1>4, <1>5

LEMMA OwnType ==
  ASSUME NEW k \in Fields, NEW m \in Names
  PROVE  OwnOf(k, m) \in Nat
<1>1. Profiles[m] \in FileType
  BY ProfileAssumption
<1>2. /\ Profiles[m].low \in Nat /\ Profiles[m].target \in Nat
      /\ Profiles[m].high \in Seq(Nat) /\ Profiles[m].plates \in Seq(Nat)
  BY <1>1 DEF FileType
<1>3. FirstSet(Profiles[m].high) \in Nat /\ FirstSet(Profiles[m].plates) \in Nat
  BY <1>2, FirstSetType
<1> QED BY <1>2, <1>3 DEF Fields, OwnOf, OwnLow, OwnHigh, OwnTarget, OwnBed

\* What is nearest to a profile is its own value, or else what is nearest to its parent.
LEMMA NearIs ==
  ASSUME NEW k \in Fields, NEW n \in Grounded
  PROVE  Near(k, n) = OrElse(OwnOf(k, n), IF Parent(n) = None THEN 0 ELSE Near(k, Parent(n)))
<1> DEFINE N == MaxDepth + 2
           s == Chain(k, n)
           a == Ancestor(n)
<1>1. n \in Names /\ n # None /\ a[MaxDepth + 1] = None
  BY NamesAssumption DEF Grounded
<1>2. N \in Nat \ {0} /\ MaxDepth \in Nat /\ 1 \in 1..N
  BY DepthIs
<1>3. a[0] = n /\ \A d \in 0..MaxDepth : a[d + 1] = Parent(a[d])
  BY <1>1, AncestorIs
<1>4. DOMAIN s = 1..N /\ s[1] = OwnOf(k, n)
  BY <1>1, <1>2, <1>3 DEF Chain
<1>5. CASE Parent(n) = None
  <2> DEFINE T == {d \in Nat : a[d + 1] = None}
  <2>1. 0 \in T
    BY <1>2, <1>3, <1>5
  <2>2. \A d \in 0..MaxDepth : d \in T /\ d < MaxDepth => d + 1 \in T
    <3> SUFFICES ASSUME NEW d \in 0..MaxDepth, a[d + 1] = None, d < MaxDepth PROVE a[(d + 1) + 1] = None
      BY <1>2
    <3>1. d + 1 \in 0..MaxDepth
      BY <1>2
    <3> QED BY <1>3, <3>1, ParentIs
  <2>3. \A d \in 0..MaxDepth : a[d + 1] = None
    <3>1. \A d \in 0..MaxDepth : d \in T
      <4> HIDE DEF T
      <4> QED BY <1>2, <2>1, <2>2, Upwards
    <3> QED BY <3>1
  <2>4. \A i \in 2..N : s[i] = 0
    <3> SUFFICES ASSUME NEW i \in 2..N PROVE s[i] = 0
      OBVIOUS
    <3>1. i - 2 \in 0..MaxDepth /\ (i - 2) + 1 = i - 1 /\ i \in 1..N
      BY <1>2
    <3>2. a[i - 1] = None
      BY <2>3, <3>1
    <3> QED BY <3>1, <3>2 DEF Chain
  <2>5. FirstSet(s) = s[1]
    <3> HIDE DEF s, N
    <3>1. \/ FirstSet(s) = 0 /\ \A i \in 1..N : s[i] = 0
          \/ \E i \in 1..N : s[i] # 0 /\ FirstSet(s) = s[i] /\ \A j \in 1..(i - 1) : s[j] = 0
      BY <1>2, <1>4, FirstSetIs
    <3>2. \A i \in 1..N : i = 1 \/ i \in 2..N
      BY <1>2
    <3> QED BY <1>2, <2>4, <3>1, <3>2
  <2> QED BY <1>4, <1>5, <2>5 DEF Near, OrElse
<1>6. CASE Parent(n) # None
  <2> DEFINE p == Parent(n)
             t == Chain(k, p)
             b == Ancestor(p)
  <2>1. p \in Names /\ \A d \in 0..MaxDepth : a[d + 1] = b[d]
    BY <1>1, <1>6, AncestorOfParent
  <2>2. b[MaxDepth + 1] = None
    BY <1>6, ParentGrounded DEF Grounded
  <2>3. DOMAIN t = 1..N /\ t[N] = 0
    <3>1. N \in 1..N /\ N - 1 = MaxDepth + 1
      BY <1>2
    <3> QED BY <2>2, <3>1 DEF Chain
  <2>4. ASSUME NEW i \in 1..(N - 1) PROVE s[i + 1] = t[i]
    <3>1. i - 1 \in 0..MaxDepth /\ (i - 1) + 1 = i /\ (i + 1) - 1 = i /\ i \in 1..N /\ i + 1 \in 1..N
      BY <1>2
    <3>2. a[i] = b[i - 1]
      BY <2>1, <3>1
    <3> QED BY <3>1, <3>2 DEF Chain
  <2>5. FirstSet(s) = OrElse(s[1], FirstSet(t))
    <3> HIDE DEF s, t, N
    <3> QED BY <1>2, <1>4, <2>3, <2>4, FirstSetNext
  <2> QED BY <1>4, <1>6, <2>5 DEF Near
<1> QED BY <1>5, <1>6

-----------------------------------------------------------------------------
(* What one call of resolve does. *)

AllType == [Names -> Filament]

LEMMA ParseType ==
  ASSUME NEW m \in Names, NEW f \in Filament
  PROVE  ParseValues(f, m) \in Filament
<1>1. Profiles[m] \in FileType
  BY ProfileAssumption
<1>2. /\ Profiles[m].low \in Nat /\ Profiles[m].target \in Nat
      /\ Profiles[m].high \in Seq(Nat) /\ Profiles[m].plates \in Seq(Nat)
  BY <1>1 DEF FileType
<1>3. FirstSet(Profiles[m].high) \in Nat /\ FirstSet(Profiles[m].plates) \in Nat
  BY <1>2, FirstSetType
<1> QED BY <1>2, <1>3 DEF ParseValues, Filament, OrElse

LEMMA InheritedType ==
  ASSUME NEW f \in Filament, NEW g \in Filament
  PROVE  Inherited(f, g) \in Filament
BY DEF Inherited, Filament, OrElse, OrElseId

LEMMA VisitedIs ==
  ASSUME NEW all, NEW n \in Names
  PROVE  /\ Visited(all, n) \in [0..(MaxDepth + 1) -> NamesOrNone]
         /\ Visited(all, n)[0] = n
         /\ \A d \in 0..MaxDepth :
              LET child == Visited(all, n)[d]
              IN Visited(all, n)[d + 1] =
                   IF child = None \/ Complete(ParseValues(all[child], child)) THEN None ELSE Parent(child)
<1> DEFINE Goes(m) == IF m = None \/ Complete(ParseValues(all[m], m)) THEN None ELSE Parent(m)
           Is(f) == f = [d \in 0..(MaxDepth + 1) |-> IF d = 0 THEN n ELSE Goes(f[d - 1])]
<1>1. Visited(all, n) = CHOOSE f : Is(f)
  BY DEF Visited
<1>2. \A m \in NamesOrNone : Goes(m) \in NamesOrNone
  BY ParentIs DEF NamesOrNone
<1>3. \E f : Is(f)
  <2> DEFINE go == {m \in Names : ~Complete(ParseValues(all[m], m))}
  <2>1. \A m \in NamesOrNone : Goes(m) = IF m \in go THEN Parent(m) ELSE None
    BY NamesAssumption DEF NamesOrNone
  <2> HIDE DEF Goes, go
  <2>0. PICK f : Climbs(f, n, go)
    BY Climbing
  <2>2. /\ f \in [0..(MaxDepth + 1) -> NamesOrNone] /\ f[0] = n
        /\ \A d \in 0..MaxDepth : f[d + 1] = IF f[d] \in go THEN Parent(f[d]) ELSE None
    BY <2>0 DEF Climbs
  <2>3. ASSUME NEW d \in 0..(MaxDepth + 1) PROVE f[d] = IF d = 0 THEN n ELSE Goes(f[d - 1])
    <3>1. CASE d = 0
      BY <2>2, <3>1
    <3>2. CASE d # 0
      <4>1. d - 1 \in 0..MaxDepth /\ (d - 1) + 1 = d /\ d - 1 \in 0..(MaxDepth + 1)
        BY <3>2, DepthIs
      <4>2. f[d - 1] \in NamesOrNone
        BY <2>2, <4>1
      <4>3. f[(d - 1) + 1] = IF f[d - 1] \in go THEN Parent(f[d - 1]) ELSE None
        BY <2>2, <4>1
      <4> QED BY <2>1, <3>2, <4>1, <4>2, <4>3
    <3> QED BY <3>1, <3>2
  <2>4. f = [d \in 0..(MaxDepth + 1) |-> f[d]]
    BY <2>2
  <2>5. Is(f)
    BY <2>3, <2>4
  <2> HIDE DEF Is
  <2> QED BY <2>5
<1> DEFINE a == Visited(all, n)
<1>4. Is(a)
  <2> HIDE DEF Is
  <2> QED BY <1>1, <1>3
<1> HIDE DEF a, Goes
<1>5. a[0] = n
  BY <1>4, DepthIs
<1>6. ASSUME NEW d \in 0..MaxDepth PROVE a[d + 1] = Goes(a[d])
  <2>1. d + 1 \in 0..(MaxDepth + 1) /\ d + 1 # 0 /\ (d + 1) - 1 = d
    BY DepthIs
  <2> QED BY <1>4, <2>1
<1>7. \A d \in 0..(MaxDepth + 1) : a[d] \in NamesOrNone
  <2> DEFINE T == {d \in Nat : a[d] \in NamesOrNone}
  <2>1. 0 \in T
    BY <1>5 DEF NamesOrNone
  <2>2. \A d \in 0..(MaxDepth + 1) : d \in T /\ d < MaxDepth + 1 => d + 1 \in T
    BY <1>2, <1>6, DepthIs
  <2>3. MaxDepth + 1 \in Nat
    BY DepthIs
  <2>4. \A d \in 0..(MaxDepth + 1) : d \in T
    <3> HIDE DEF T
    <3> QED BY <2>1, <2>2, <2>3, Upwards
  <2> QED BY <2>4
<1>8. a = [d \in 0..(MaxDepth + 1) |-> a[d]]
  <2> DEFINE e == [d \in 0..(MaxDepth + 1) |-> IF d = 0 THEN n ELSE Goes(a[d - 1])]
  <2>1. a = e
    BY <1>4
  <2>2. e = [d \in 0..(MaxDepth + 1) |-> e[d]]
    OBVIOUS
  <2> HIDE DEF e
  <2> QED BY <2>1, <2>2
<1>9. a \in [0..(MaxDepth + 1) -> NamesOrNone]
  BY <1>7, <1>8
<1> QED BY <1>5, <1>6, <1>9 DEF a, Goes

\* resolve visits ancestors, and all of them unless it has all it needs.
LEMMA VisitedWithin ==
  ASSUME NEW all, NEW n \in Names
  PROVE  \A d \in 0..(MaxDepth + 1) : Visited(all, n)[d] \in {None, Ancestor(n)[d]}
<1> DEFINE v == Visited(all, n)
           a == Ancestor(n)
           T == {d \in Nat : v[d] \in {None, a[d]}}
<1>1. v[0] = n /\ \A d \in 0..MaxDepth : v[d + 1] \in {None, Parent(v[d])}
  BY VisitedIs
<1>2. a[0] = n /\ \A d \in 0..MaxDepth : a[d + 1] = Parent(a[d])
  BY AncestorIs
<1> HIDE DEF v, a
<1>3. 0 \in T
  BY <1>1, <1>2
<1>4. \A d \in 0..(MaxDepth + 1) : d \in T /\ d < MaxDepth + 1 => d + 1 \in T
  <2> SUFFICES ASSUME NEW d \in 0..(MaxDepth + 1), v[d] \in {None, a[d]}, d < MaxDepth + 1
               PROVE  d + 1 \in Nat /\ v[d + 1] \in {None, a[d + 1]}
    OBVIOUS
  <2>1. d \in 0..MaxDepth
    BY DepthIs
  <2> QED BY <1>1, <1>2, <2>1, ParentIs
<1>5. MaxDepth + 1 \in Nat
  BY DepthIs
<1>6. \A d \in 0..(MaxDepth + 1) : d \in T
  <2> HIDE DEF T
  <2> QED BY <1>3, <1>4, <1>5, Upwards
<1> QED BY <1>6 DEF v, a

ParsedAll(all, n) ==
  [m \in Names |-> IF \E d \in 0..MaxDepth : Visited(all, n)[d] = m
                   THEN ParseValues(all[m], m) ELSE all[m]]

\* Coming back from the parent at d + 1 to the profile at d.
BackStep(all, n, d, c) ==
  IF Visited(all, n)[d] = None THEN ParsedAll(all, n)
  ELSE IF Visited(all, n)[d + 1] = None THEN c
  ELSE [c EXCEPT ![Visited(all, n)[d]] = Inherited(@, c[Visited(all, n)[d + 1]])]

LEMMA ParsedType ==
  ASSUME NEW all \in AllType, NEW n \in Names
  PROVE  ParsedAll(all, n) \in AllType
BY ParseType DEF ParsedAll, AllType

LEMMA BackType ==
  ASSUME NEW all \in AllType, NEW n \in Names, NEW d \in 0..MaxDepth, NEW c \in AllType
  PROVE  BackStep(all, n, d, c) \in AllType
<1> DEFINE at == Visited(all, n)
<1>1. at[d] \in NamesOrNone /\ at[d + 1] \in NamesOrNone
  <2>1. d \in 0..(MaxDepth + 1) /\ d + 1 \in 0..(MaxDepth + 1)
    BY DepthIs
  <2>2. at \in [0..(MaxDepth + 1) -> NamesOrNone]
    BY VisitedIs
  <2> QED BY <2>1, <2>2
<1>2. ParsedAll(all, n) \in AllType
  BY ParsedType
<1>3. BackStep(all, n, d, c) = IF at[d] = None THEN ParsedAll(all, n)
                               ELSE IF at[d + 1] = None THEN c
                               ELSE [c EXCEPT ![at[d]] = Inherited(c[at[d]], c[at[d + 1]])]
  BY DEF BackStep
<1> HIDE DEF at
<1>4. at[d] # None /\ at[d + 1] # None => Inherited(c[at[d]], c[at[d + 1]]) \in Filament
  BY <1>1, InheritedType DEF AllType, NamesOrNone
<1> QED BY <1>1, <1>2, <1>3, <1>4 DEF AllType

\* Coming back to the profile that was asked for.
Back(b, all, n) ==
  /\ b \in [0..(MaxDepth + 1) -> AllType]
  /\ b[MaxDepth + 1] = ParsedAll(all, n)
  /\ \A d \in 0..MaxDepth : b[d] = BackStep(all, n, d, b[d + 1])

LEMMA BackExists ==
  ASSUME NEW all \in AllType, NEW n \in Names
  PROVE  \E b : Back(b, all, n)
<1> DEFINE N == MaxDepth + 1
           step == [i \in 1..N |-> [c \in AllType |-> BackStep(all, n, N - i, c)]]
           start == ParsedAll(all, n)
<1>1. N \in Nat /\ start \in AllType
  BY DepthIs, ParsedType
<1>2. step \in [1..N -> [AllType -> AllType]]
  <2> SUFFICES ASSUME NEW i \in 1..N, NEW c \in AllType PROVE BackStep(all, n, N - i, c) \in AllType
    OBVIOUS
  <2>1. N - i \in 0..MaxDepth
    BY DepthIs
  <2> QED BY <2>1, BackType
<1>3. PICK f : Follow(f, N, AllType, start, step)
  <2> HIDE DEF N, step, start
  <2> QED BY <1>1, <1>2, Iterates
<1>4. f \in [0..N -> AllType] /\ f[0] = start /\ \A i \in 1..N : f[i] = BackStep(all, n, N - i, f[i - 1])
  <2>1. f \in [0..N -> AllType] /\ f[0] = start /\ \A i \in 1..N : f[i] = step[i][f[i - 1]]
    BY <1>3 DEF Follow
  <2>2. \A i \in 1..N : i - 1 \in 0..N
    BY <1>1
  <2> HIDE DEF N, start
  <2> QED BY <2>1, <2>2
<1> DEFINE b == [d \in 0..N |-> f[N - d]]
<1>5. b \in [0..N -> AllType] /\ b[N] = start
  <2>1. N \in 0..N /\ N - N = 0 /\ \A d \in 0..N : N - d \in 0..N
    BY <1>1
  <2> QED BY <1>4, <2>1
<1>6. ASSUME NEW d \in 0..MaxDepth PROVE b[d] = BackStep(all, n, d, b[d + 1])
  <2>1. N - d \in 1..N /\ N - (N - d) = d /\ (N - d) - 1 = N - (d + 1) /\ d \in 0..N /\ d + 1 \in 0..N
    BY DepthIs
  <2> QED BY <1>4, <2>1
<1> HIDE DEF b
<1>7. Back(b, all, n)
  BY <1>5, <1>6 DEF Back
<1> QED BY <1>7

LEMMA ResolveIs ==
  ASSUME NEW all \in AllType, NEW n \in Names
  PROVE  \E b : Back(b, all, n) /\ Resolve(all, n) = b[0]
<1> DEFINE at == Visited(all, n)
           N == MaxDepth + 1
           Body(f, d) ==
             IF d = MaxDepth + 1 \/ at[d] = None THEN ParsedAll(all, n)
             ELSE IF at[d + 1] = None THEN f[d + 1]
             ELSE [f[d + 1] EXCEPT ![at[d]] = Inherited(@, f[d + 1][at[d + 1]])]
           Is(f) == f = [d \in 0..(MaxDepth + 1) |-> Body(f, d)]
           b == CHOOSE f : Is(f)
<1>1. Resolve(all, n) = b[0]
  BY DEF Resolve, ParsedAll
<1>2. \A f : \A d \in 0..MaxDepth : Body(f, d) = BackStep(all, n, d, f[d + 1])
  <2>1. \A d \in 0..MaxDepth : d # MaxDepth + 1
    BY DepthIs
  <2> QED BY <2>1 DEF BackStep
<1>3. \A f : Body(f, N) = ParsedAll(all, n)
  OBVIOUS
<1> HIDE DEF Body
<1>4. \E f : Is(f)
  <2>1. PICK f : Back(f, all, n)
    BY BackExists
  <2>2. ASSUME NEW d \in 0..(MaxDepth + 1) PROVE f[d] = Body(f, d)
    <3>1. d = N \/ d \in 0..MaxDepth
      BY DepthIs
    <3> QED BY <1>2, <1>3, <2>1, <3>1 DEF Back
  <2>3. f = [d \in 0..(MaxDepth + 1) |-> f[d]]
    BY <2>1 DEF Back
  <2>4. Is(f)
    BY <2>2, <2>3
  <2> HIDE DEF Is
  <2> QED BY <2>4
<1>5. Is(b)
  <2> HIDE DEF Is
  <2> QED BY <1>4
<1> HIDE DEF b
<1>6. b[N] = ParsedAll(all, n)
  <2>1. N \in 0..N
    BY DepthIs
  <2> QED BY <1>3, <1>5, <2>1
<1>7. ASSUME NEW d \in 0..MaxDepth PROVE b[d] = BackStep(all, n, d, b[d + 1])
  <2>1. d \in 0..N
    BY DepthIs
  <2> QED BY <1>2, <1>5, <2>1
<1>8. \A d \in 0..N : b[d] \in AllType
  <2> DEFINE T == {i \in Nat : b[N - i] \in AllType}
  <2>1. N \in Nat
    BY DepthIs
  <2>2. 0 \in T
    BY <1>6, <2>1, ParsedType
  <2>3. \A i \in 0..N : i \in T /\ i < N => i + 1 \in T
    <3> SUFFICES ASSUME NEW i \in 0..N, b[N - i] \in AllType, i < N PROVE b[N - (i + 1)] \in AllType
      OBVIOUS
    <3>1. N - (i + 1) \in 0..MaxDepth /\ (N - (i + 1)) + 1 = N - i
      BY DepthIs
    <3>2. b[N - (i + 1)] = BackStep(all, n, N - (i + 1), b[N - i])
      BY <1>7, <3>1
    <3> QED BY <3>1, <3>2, BackType
  <2>4. \A i \in 0..N : i \in T
    <3> HIDE DEF T, N
    <3> QED BY <2>1, <2>2, <2>3, Upwards
  <2>5. ASSUME NEW d \in 0..N PROVE b[d] \in AllType
    <3>1. N - d \in 0..N /\ N - (N - d) = d
      BY <2>1
    <3>2. N - d \in T
      BY <2>4, <3>1
    <3> QED BY <3>1, <3>2
  <2> QED BY <2>5
<1>9. b \in [0..N -> AllType]
  <2> DEFINE e == [d \in 0..(MaxDepth + 1) |-> Body(b, d)]
  <2>1. b = e
    BY <1>5
  <2>2. e = [d \in 0..(MaxDepth + 1) |-> e[d]]
    OBVIOUS
  <2> HIDE DEF e
  <2> QED BY <1>8, <2>1, <2>2
<1>10. Back(b, all, n)
  BY <1>6, <1>7, <1>9 DEF Back
<1> QED BY <1>1, <1>10

-----------------------------------------------------------------------------
(* What the values of a profile may be. *)

LEMMA ParseIs ==
  ASSUME NEW f \in Filament, NEW m \in Names
  PROVE  /\ \A k \in Fields : ParseValues(f, m)[k] = OrElse(f[k], OwnOf(k, m))
         /\ ParseValues(f, m).tempMin = f.tempMin /\ ParseValues(f, m).tempMax = f.tempMax
BY DEF Fields, ParseValues, OwnOf, OwnLow, OwnHigh, OwnTarget, OwnBed, Filament

LEMMA InheritIs ==
  ASSUME NEW f \in Filament, NEW g \in Filament
  PROVE  /\ \A k \in Fields : Inherited(f, g)[k] = OrElse(f[k], g[k])
         /\ Inherited(f, g).tempMin = f.tempMin /\ Inherited(f, g).tempMax = f.tempMax
BY DEF Fields, Inherited, Filament

\* A value is that of the nearest ancestor, or not known yet.
Partial(f, m) == \A k \in Fields : f[k] \in {0, Near(k, m)}

\* The profile's own values were parsed.
HasOwn(f, m) == \A k \in Fields : f[k] = 0 => OwnOf(k, m) = 0

\* All values that matter are known: the target only where there is no range.
Full(f, m) ==
  /\ \A k \in {"rangeMin", "rangeMax", "bed"} : f[k] = Near(k, m)
  /\ f["rangeMin"] = 0 => f["targetMin"] = Near("targetMin", m)

LEMMA ParsePartial ==
  ASSUME NEW m \in Grounded, NEW f \in Filament, Partial(f, m)
  PROVE  Partial(ParseValues(f, m), m)
<1> SUFFICES ASSUME NEW k \in Fields PROVE ParseValues(f, m)[k] \in {0, Near(k, m)}
  BY DEF Partial
<1>1. m \in Names
  BY DEF Grounded
<1>2. ParseValues(f, m)[k] = OrElse(f[k], OwnOf(k, m))
  BY <1>1, ParseIs
<1>3. Near(k, m) = OrElse(OwnOf(k, m), IF Parent(m) = None THEN 0 ELSE Near(k, Parent(m)))
  BY NearIs
<1>4. f[k] \in {0, Near(k, m)}
  BY DEF Partial
<1> QED BY <1>2, <1>3, <1>4 DEF OrElse

LEMMA ParseHasOwn ==
  ASSUME NEW m \in Names, NEW f \in Filament
  PROVE  HasOwn(ParseValues(f, m), m)
BY ParseIs DEF HasOwn, OrElse

LEMMA InheritPartial ==
  ASSUME NEW m \in Grounded, Parent(m) # None, NEW f \in Filament, NEW g \in Filament,
         Partial(f, m), HasOwn(f, m), Partial(g, Parent(m))
  PROVE  Partial(Inherited(f, g), m)
<1> SUFFICES ASSUME NEW k \in Fields PROVE Inherited(f, g)[k] \in {0, Near(k, m)}
  BY DEF Partial
<1>1. Inherited(f, g)[k] = OrElse(f[k], g[k])
  BY InheritIs
<1>2. Near(k, m) = OrElse(OwnOf(k, m), Near(k, Parent(m)))
  BY NearIs
<1>3. f[k] \in {0, Near(k, m)} /\ g[k] \in {0, Near(k, Parent(m))} /\ (f[k] = 0 => OwnOf(k, m) = 0)
  BY DEF Partial, HasOwn
<1> QED BY <1>1, <1>2, <1>3 DEF OrElse

LEMMA InheritFull ==
  ASSUME NEW m \in Grounded, Parent(m) # None, NEW f \in Filament, NEW g \in Filament,
         Partial(f, m), HasOwn(f, m), Full(g, Parent(m))
  PROVE  Full(Inherited(f, g), m)
<1>1. \A k \in Fields : Inherited(f, g)[k] = OrElse(f[k], g[k])
  BY InheritIs
<1>2. \A k \in Fields : Near(k, m) = OrElse(OwnOf(k, m), Near(k, Parent(m)))
  BY NearIs
<1>3. \A k \in Fields : f[k] \in {0, Near(k, m)} /\ (f[k] = 0 => OwnOf(k, m) = 0)
  BY DEF Partial, HasOwn
<1>4. \A k \in Fields : g[k] = Near(k, Parent(m)) => Inherited(f, g)[k] = Near(k, m)
  BY <1>1, <1>2, <1>3 DEF OrElse
<1>5. \A k \in Fields : Inherited(f, g)[k] = 0 => g[k] = 0
  BY <1>1 DEF OrElse
<1>6. "rangeMin" \in Fields /\ "rangeMax" \in Fields /\ "bed" \in Fields /\ "targetMin" \in Fields
  BY DEF Fields
<1> QED BY <1>4, <1>5, <1>6 DEF Full

\* At the end of the chain a profile has its own values only.
LEMMA LastFull ==
  ASSUME NEW m \in Grounded, Parent(m) = None, NEW f \in Filament, Partial(f, m), HasOwn(f, m)
  PROVE  Full(f, m)
<1>1. \A k \in Fields : Near(k, m) = OrElse(OwnOf(k, m), 0)
  BY NearIs
<1>2. \A k \in Fields : f[k] \in {0, Near(k, m)} /\ (f[k] = 0 => OwnOf(k, m) = 0)
  BY DEF Partial, HasOwn
<1>3. \A k \in Fields : f[k] = Near(k, m)
  BY <1>1, <1>2 DEF OrElse
<1> QED BY <1>3 DEF Full, Fields

LEMMA CompleteFull ==
  ASSUME NEW m \in Grounded, NEW f \in Filament, Partial(f, m), Complete(f)
  PROVE  Full(f, m)
<1>1. f["rangeMin"] > 0 /\ f["rangeMax"] > 0 /\ f["bed"] > 0
  BY DEF Complete
<1>2. \A k \in Fields : f[k] \in {0, Near(k, m)}
  BY DEF Partial
<1> QED BY <1>1, <1>2 DEF Full, Fields

-----------------------------------------------------------------------------
(* What resolve leaves. *)

\* Every known value is that of the nearest ancestor.
AllSound(all) == \A m \in Grounded : Partial(all[m], m)

\* No value that was known is lost, and the temperatures are left alone.
Later(all, new) ==
  \A m \in Names : /\ new[m].tempMin = all[m].tempMin /\ new[m].tempMax = all[m].tempMax
                   /\ \A k \in Fields : new[m][k] = 0 => all[m][k] = 0

\* The profiles visited by resolve(n) have what their files say.
Owned(all, n, c) ==
  \A e \in 0..MaxDepth : Visited(all, n)[e] # None => HasOwn(c[Visited(all, n)[e]], Visited(all, n)[e])

Good(all, n, c) == c \in AllType /\ AllSound(c) /\ Later(all, c) /\ Owned(all, n, c)

LEMMA GroundedNames == Grounded \subseteq Names
BY DEF Grounded

LEMMA VisitedNext ==
  ASSUME NEW all, NEW n \in Names, NEW d \in 0..MaxDepth
  PROVE  /\ Visited(all, n)[d] \in NamesOrNone /\ Visited(all, n)[d + 1] \in NamesOrNone
         /\ Visited(all, n)[d] # None /\ Visited(all, n)[d + 1] # None =>
              Visited(all, n)[d + 1] = Parent(Visited(all, n)[d])
<1>1. d \in 0..(MaxDepth + 1) /\ d + 1 \in 0..(MaxDepth + 1)
  BY DepthIs
<1>2. Visited(all, n) \in [0..(MaxDepth + 1) -> NamesOrNone]
  BY VisitedIs
<1>3. Visited(all, n)[d + 1] \in {None, Parent(Visited(all, n)[d])}
  BY VisitedIs
<1> QED BY <1>1, <1>2, <1>3

LEMMA GoodParsed ==
  ASSUME NEW all \in AllType, AllSound(all), NEW n \in Names
  PROVE  Good(all, n, ParsedAll(all, n))
<1> DEFINE c == ParsedAll(all, n)
<1>1. c \in AllType
  BY ParsedType
<1>2. \A m \in Names : c[m] \in {all[m], ParseValues(all[m], m)} /\ all[m] \in Filament
  BY DEF ParsedAll, AllType
<1>3. \A e \in 0..MaxDepth : Visited(all, n)[e] # None =>
        Visited(all, n)[e] \in Names /\ c[Visited(all, n)[e]] = ParseValues(all[Visited(all, n)[e]], Visited(all, n)[e])
  BY VisitedNext DEF ParsedAll, NamesOrNone
<1> HIDE DEF c
<1>4. AllSound(c)
  <2> SUFFICES ASSUME NEW m \in Grounded PROVE Partial(c[m], m)
    BY DEF AllSound
  <2> QED BY <1>2, GroundedNames, ParsePartial DEF AllSound
<1>5. Later(all, c)
  <2> SUFFICES ASSUME NEW m \in Names
               PROVE  /\ c[m].tempMin = all[m].tempMin /\ c[m].tempMax = all[m].tempMax
                      /\ \A k \in Fields : c[m][k] = 0 => all[m][k] = 0
    BY DEF Later
  <2> QED BY <1>2, ParseIs DEF OrElse
<1>6. Owned(all, n, c)
  <2> SUFFICES ASSUME NEW e \in 0..MaxDepth, Visited(all, n)[e] # None
               PROVE  HasOwn(c[Visited(all, n)[e]], Visited(all, n)[e])
    BY DEF Owned
  <2> DEFINE m == Visited(all, n)[e]
  <2>1. m \in Names /\ c[m] = ParseValues(all[m], m) /\ all[m] \in Filament
    BY <1>2, <1>3
  <2> HIDE DEF m
  <2>2. HasOwn(c[m], m)
    BY <2>1, ParseHasOwn
  <2> QED BY <2>2 DEF m
<1> QED BY <1>1, <1>4, <1>5, <1>6 DEF Good, c

LEMMA GoodStep ==
  ASSUME NEW all \in AllType, AllSound(all), NEW n \in Names, NEW d \in 0..MaxDepth, NEW c, Good(all, n, c)
  PROVE  Good(all, n, BackStep(all, n, d, c))
<1> DEFINE at == Visited(all, n)
           p == at[d]
           q == at[d + 1]
<1>0. /\ BackStep(all, n, d, c) = IF p = None THEN ParsedAll(all, n) ELSE IF q = None THEN c
                                  ELSE [c EXCEPT ![p] = Inherited(c[p], c[q])]
      /\ p \in NamesOrNone /\ q \in NamesOrNone /\ (p # None /\ q # None => q = Parent(p))
      /\ c \in AllType /\ AllSound(c) /\ Later(all, c) /\ Owned(all, n, c)
      /\ p # None => HasOwn(c[p], p)
  BY VisitedNext DEF BackStep, Good, Owned
<1>1. CASE p = None \/ q = None
  BY <1>0, <1>1, GoodParsed
<1>2. CASE p # None /\ q # None
  <2> DEFINE e == [c EXCEPT ![p] = Inherited(c[p], c[q])]
  <2>1. p \in Names /\ q \in Names /\ c[p] \in Filament /\ c[q] \in Filament
    BY <1>0, <1>2 DEF NamesOrNone, AllType
  <2>2. Inherited(c[p], c[q]) \in Filament
    BY <2>1, InheritedType
  <2>3. e \in AllType /\ e[p] = Inherited(c[p], c[q]) /\ \A m \in Names : m # p => e[m] = c[m]
    BY <1>0, <2>1, <2>2 DEF AllType
  <2>4. \A k \in Fields : e[p][k] = OrElse(c[p][k], c[q][k])
    BY <2>1, <2>3, InheritIs
  <2>5. e[p].tempMin = c[p].tempMin /\ e[p].tempMax = c[p].tempMax
    BY <2>1, <2>3, InheritIs
  <2>6. BackStep(all, n, d, c) = e
    BY <1>0, <1>2
  <2>7. AllSound(e)
    <3> SUFFICES ASSUME NEW m \in Grounded PROVE Partial(e[m], m)
      BY DEF AllSound
    <3>1. CASE m # p
      BY <1>0, <2>3, <3>1, GroundedNames DEF AllSound
    <3>2. CASE m = p
      <4>1. Parent(p) # None /\ p \in Grounded /\ q = Parent(p) /\ q \in Grounded
        BY <1>0, <1>2, <3>2, ParentGrounded
      <4>2. Partial(c[p], p) /\ Partial(c[q], Parent(p)) /\ HasOwn(c[p], p)
        BY <1>0, <1>2, <4>1 DEF AllSound
      <4> HIDE DEF p, q, e
      <4>3. Partial(Inherited(c[p], c[q]), p)
        BY <2>1, <4>1, <4>2, InheritPartial
      <4> QED BY <2>3, <3>2, <4>3
    <3> QED BY <3>1, <3>2
  <2> HIDE DEF p, q, e
  <2>8. Later(all, e)
    <3> SUFFICES ASSUME NEW m \in Names
                 PROVE  /\ e[m].tempMin = all[m].tempMin /\ e[m].tempMax = all[m].tempMax
                        /\ \A k \in Fields : e[m][k] = 0 => all[m][k] = 0
      BY DEF Later
    <3>1. /\ c[m].tempMin = all[m].tempMin /\ c[m].tempMax = all[m].tempMax
          /\ \A k \in Fields : c[m][k] = 0 => all[m][k] = 0
      BY <1>0 DEF Later
    <3> QED BY <2>3, <2>4, <2>5, <3>1 DEF OrElse
  <2>9. \A m \in Names : HasOwn(c[m], m) => HasOwn(e[m], m)
    <3> SUFFICES ASSUME NEW m \in Names, HasOwn(c[m], m), NEW k \in Fields, e[m][k] = 0
                 PROVE  OwnOf(k, m) = 0
      BY DEF HasOwn
    <3>1. c[m][k] = 0
      BY <2>3, <2>4 DEF OrElse
    <3> QED BY <3>1 DEF HasOwn
  <2>10. Owned(all, n, e)
    <3> SUFFICES ASSUME NEW i \in 0..MaxDepth, at[i] # None PROVE HasOwn(e[at[i]], at[i])
      BY DEF Owned
    <3>1. at[i] \in Names /\ HasOwn(c[at[i]], at[i])
      BY <1>0, VisitedNext DEF NamesOrNone, Owned
    <3> HIDE DEF at
    <3> QED BY <2>9, <3>1
  <2> QED BY <2>3, <2>6, <2>7, <2>8, <2>10 DEF Good
<1> QED BY <1>1, <1>2

LEMMA VisitedGrounded ==
  ASSUME NEW all, NEW n \in Grounded
  PROVE  /\ \A d \in 0..(MaxDepth + 1) : Visited(all, n)[d] \in Grounded \cup {None}
         /\ Visited(all, n)[MaxDepth + 1] = None
<1> DEFINE v == Visited(all, n)
           T == {d \in Nat : v[d] \in Grounded \cup {None}}
<1>1. n \in Names /\ Ancestor(n)[MaxDepth + 1] = None /\ MaxDepth + 1 \in 0..(MaxDepth + 1) /\ MaxDepth + 1 \in Nat
  BY DepthIs DEF Grounded
<1>2. v[MaxDepth + 1] = None
  BY <1>1, VisitedWithin
<1>3. 0 \in T
  BY <1>1, VisitedIs
<1>4. \A d \in 0..(MaxDepth + 1) : d \in T /\ d < MaxDepth + 1 => d + 1 \in T
  <2> SUFFICES ASSUME NEW d \in 0..(MaxDepth + 1), v[d] \in Grounded \cup {None}, d < MaxDepth + 1
               PROVE  d + 1 \in Nat /\ v[d + 1] \in Grounded \cup {None}
    OBVIOUS
  <2>1. d \in 0..MaxDepth
    BY DepthIs
  <2>2. v[d + 1] \in {None, Parent(v[d])}
    BY <1>1, <2>1, VisitedIs
  <2> HIDE DEF v
  <2>3. v[d] = None => v[d + 1] = None
    BY <2>2, ParentIs
  <2>4. v[d] \in Grounded /\ Parent(v[d]) # None => Parent(v[d]) \in Grounded
    BY ParentGrounded
  <2> QED BY <2>2, <2>3, <2>4
<1>5. \A d \in 0..(MaxDepth + 1) : d \in T
  <2> HIDE DEF T
  <2> QED BY <1>1, <1>3, <1>4, Upwards
<1> QED BY <1>2, <1>5

LEMMA Downwards ==
  ASSUME NEW N \in Nat, NEW T, N \in T, \A n \in 0..(N - 1) : n + 1 \in T => n \in T
  PROVE  \A n \in 0..N : n \in T
<1> DEFINE U == {i \in Nat : N - i \in T}
<1>1. 0 \in U
  OBVIOUS
<1>2. \A i \in 0..N : i \in U /\ i < N => i + 1 \in U
  <2> SUFFICES ASSUME NEW i \in 0..N, N - i \in T, i < N PROVE N - (i + 1) \in T
    OBVIOUS
  <2>1. N - (i + 1) \in 0..(N - 1) /\ (N - (i + 1)) + 1 = N - i
    OBVIOUS
  <2> QED BY <2>1
<1>3. \A i \in 0..N : i \in U
  <2> HIDE DEF U
  <2> QED BY <1>1, <1>2, Upwards
<1>4. ASSUME NEW n \in 0..N PROVE n \in T
  <2>1. N - n \in 0..N /\ N - (N - n) = n
    OBVIOUS
  <2> QED BY <1>3, <2>1
<1> QED BY <1>4

LEMMA BackGood ==
  ASSUME NEW all \in AllType, AllSound(all), NEW n \in Names, NEW b, Back(b, all, n)
  PROVE  \A d \in 0..(MaxDepth + 1) : Good(all, n, b[d])
<1> DEFINE N == MaxDepth + 1
           T == {d \in Nat : Good(all, n, b[d])}
<1>1. N \in Nat /\ N - 1 = MaxDepth /\ \A d \in 0..MaxDepth : d \in Nat
  BY DepthIs
<1>2. N \in T
  BY <1>1, GoodParsed DEF Back
<1>3. \A d \in 0..(N - 1) : d + 1 \in T => d \in T
  <2> SUFFICES ASSUME NEW d \in 0..MaxDepth, Good(all, n, b[d + 1]) PROVE Good(all, n, b[d])
    BY <1>1
  <2>1. b[d] = BackStep(all, n, d, b[d + 1])
    BY DEF Back
  <2> QED BY <2>1, GoodStep
<1>4. \A d \in 0..N : d \in T
  <2> HIDE DEF T, N
  <2> QED BY <1>1, <1>2, <1>3, Downwards
<1> QED BY <1>4

LEMMA BackFull ==
  ASSUME NEW all \in AllType, AllSound(all), NEW n \in Grounded, NEW b, Back(b, all, n)
  PROVE  Full(b[0][n], n)
<1> DEFINE N == MaxDepth + 1
           at == Visited(all, n)
           T == {d \in Nat : at[d] # None => Full(b[d][at[d]], at[d])}
<1>0. n \in Names /\ n # None
  BY GroundedNames, NamesAssumption
<1>1. N \in Nat /\ N - 1 = MaxDepth /\ (\A d \in 0..MaxDepth : d \in 0..N /\ d + 1 \in 0..N) /\ 0 \in 0..N
  BY DepthIs
<1>2. at[0] = n /\ at[N] = None /\ \A d \in 0..N : at[d] \in Grounded \cup {None}
  BY <1>0, VisitedIs, VisitedGrounded
<1>3. \A d \in 0..MaxDepth : at[d + 1] = IF at[d] = None \/ Complete(ParseValues(all[at[d]], at[d]))
                                         THEN None ELSE Parent(at[d])
  BY <1>0, VisitedIs
<1>4. \A d \in 0..MaxDepth : b[d] = BackStep(all, n, d, b[d + 1])
  BY DEF Back
<1>5. b[N] = ParsedAll(all, n)
  BY DEF Back
<1>6. \A d \in 0..N : Good(all, n, b[d])
  BY <1>0, BackGood
<1> HIDE DEF N
<1>7. N \in T
  BY <1>1, <1>2
<1>8. ASSUME NEW d \in 0..MaxDepth, d + 1 \in T, at[d] # None
      PROVE  Full(b[d][at[d]], at[d])
  <2> DEFINE p == at[d]
             q == at[d + 1]
             c == b[d + 1]
  <2>1. d \in 0..N /\ d + 1 \in 0..N
    BY <1>1
  <2>2. p \in Grounded /\ p \in Names /\ p # None
    BY <1>2, <1>8, <2>1, GroundedNames
  <2>3. c \in AllType /\ Partial(c[p], p) /\ HasOwn(c[p], p) /\ c[p] \in Filament
    BY <1>6, <1>8, <2>1, <2>2 DEF Good, AllSound, Owned, AllType
  <2>4. CASE q = None
    <3>1. b[d] = c
      BY <1>4, <1>8, <2>4 DEF BackStep
    <3>2. Complete(ParseValues(all[p], p)) \/ Parent(p) = None
      BY <1>3, <1>8, <2>4
    <3>3. c = ParsedAll(all, n)
      <4>1. CASE d + 1 = N
        BY <1>5, <4>1
      <4>2. CASE d + 1 # N
        <5>1. d + 1 \in 0..MaxDepth
          BY <1>1, <2>1, <4>2
        <5>2. b[d + 1] = BackStep(all, n, d + 1, b[(d + 1) + 1])
          BY <1>4, <5>1
        <5> QED BY <2>4, <5>2 DEF BackStep
      <4> QED BY <4>1, <4>2
    <3>4. c[p] = ParseValues(all[p], p)
      BY <2>2, <3>3 DEF ParsedAll
    <3> HIDE DEF p, q, c
    <3>5. Parent(p) = None => Full(c[p], p)
      BY <2>2, <2>3, LastFull
    <3>6. Complete(c[p]) => Full(c[p], p)
      BY <2>2, <2>3, CompleteFull
    <3>7. Full(c[p], p)
      BY <3>2, <3>4, <3>5, <3>6
    <3> QED BY <3>1, <3>7 DEF p
  <2>5. CASE q # None
    <3>1. q = Parent(p) /\ q \in Grounded
      BY <1>2, <1>3, <1>8, <2>1, <2>5
    <3>2. Full(c[q], q)
      BY <1>8, <2>5
    <3>3. b[d] = [c EXCEPT ![p] = Inherited(c[p], c[q])]
      BY <1>4, <2>2, <2>5 DEF BackStep
    <3>4. c[q] \in Filament
      BY <2>3, <3>1, GroundedNames DEF AllType
    <3> HIDE DEF p, q, c
    <3>5. Full(Inherited(c[p], c[q]), p)
      BY <2>2, <2>3, <2>5, <3>1, <3>2, <3>4, InheritFull
    <3>6. b[d][p] = Inherited(c[p], c[q])
      BY <2>2, <2>3, <3>3 DEF AllType
    <3> QED BY <3>5, <3>6 DEF p
  <2> QED BY <2>4, <2>5
<1>9. \A d \in 0..(N - 1) : d + 1 \in T => d \in T
  BY <1>1, <1>8
<1>10. \A d \in 0..N : d \in T
  <2> HIDE DEF T
  <2> QED BY <1>1, <1>7, <1>9, Downwards
<1> QED BY <1>0, <1>1, <1>2, <1>10

LEMMA Resolved ==
  ASSUME NEW all \in AllType, AllSound(all), NEW n \in Names
  PROVE  /\ Resolve(all, n) \in AllType /\ AllSound(Resolve(all, n)) /\ Later(all, Resolve(all, n))
         /\ n \in Grounded => Full(Resolve(all, n)[n], n)
<1>1. PICK b : Back(b, all, n) /\ Resolve(all, n) = b[0]
  BY ResolveIs
<1>2. 0 \in 0..(MaxDepth + 1)
  BY DepthIs
<1>3. Good(all, n, b[0])
  BY <1>1, <1>2, BackGood
<1>4. n \in Grounded => Full(b[0][n], n)
  BY <1>1, BackFull
<1> QED BY <1>1, <1>3, <1>4 DEF Good

-----------------------------------------------------------------------------
(* What LoadAll leaves. *)

\* The profiles in done were visited, and no other.
Right(done, all) ==
  /\ all \in AllType
  /\ AllSound(all)
  /\ \A m \in Names \ done : all[m].tempMin = 0 /\ all[m].tempMax = 0
  /\ \A m \in done \cap Grounded :
       /\ all[m].tempMin = OrElse(Near("rangeMin", m), Near("targetMin", m))
       /\ all[m].tempMax = Near("rangeMax", m)
       /\ all[m].bed = Near("bed", m)

LEMMA FinalizedIs ==
  ASSUME NEW f \in Filament
  PROVE  /\ Finalized(f) \in Filament
         /\ \A k \in Fields : Finalized(f)[k] = f[k]
         /\ f.tempMin = 0 => Finalized(f).tempMin = OrElse(f.rangeMin, f.targetMin)
         /\ f.tempMax = 0 => Finalized(f).tempMax = f.rangeMax
BY DEF Finalized, Filament, OrElse, Fields

LEMMA LoadedRight == Right({}, [n \in Names |-> Loaded(n)])
<1>1. ASSUME NEW n \in Names
      PROVE  /\ Loaded(n) \in Filament /\ \A k \in Fields : Loaded(n)[k] = 0
             /\ Loaded(n).tempMin = 0 /\ Loaded(n).tempMax = 0
  <2>1. Profiles[n].id \in STRING
    BY ProfileAssumption DEF FileType
  <2> QED BY <2>1 DEF Loaded, Filament, Fields
<1> QED BY <1>1, GroundedNames DEF Right, AllType, AllSound, Partial

LEMMA VisitRight ==
  ASSUME NEW done \in SUBSET Names, NEW n \in Names \ done, NEW all, Right(done, all)
  PROVE  Right(done \cup {n}, Visit(all, n))
<1> DEFINE r == Resolve(all, n)
           v == Visit(all, n)
<1>1. /\ all \in AllType /\ AllSound(all)
      /\ \A m \in Names \ done : all[m].tempMin = 0 /\ all[m].tempMax = 0
      /\ \A m \in done \cap Grounded :
           /\ all[m].tempMin = OrElse(Near("rangeMin", m), Near("targetMin", m))
           /\ all[m].tempMax = Near("rangeMax", m)
           /\ all[m].bed = Near("bed", m)
  BY DEF Right
<1>2. r \in AllType /\ AllSound(r) /\ Later(all, r) /\ (n \in Grounded => Full(r[n], n))
  BY <1>1, Resolved
<1>3. v = [r EXCEPT ![n] = Finalized(r[n])]
  BY DEF Visit
<1> HIDE DEF r, v
<1>4. r[n] \in Filament /\ n \in Names
  BY <1>2 DEF AllType
<1>5. v \in AllType /\ v[n] = Finalized(r[n]) /\ \A m \in Names : m # n => v[m] = r[m]
  BY <1>2, <1>3, <1>4, FinalizedIs DEF AllType
<1>6. \A m \in Names : \A k \in Fields : v[m][k] = r[m][k]
  BY <1>4, <1>5, FinalizedIs
<1>7. AllSound(v)
  BY <1>2, <1>6, GroundedNames DEF AllSound, Partial
<1>8. \A m \in Names : r[m].tempMin = all[m].tempMin /\ r[m].tempMax = all[m].tempMax
  BY <1>2 DEF Later
<1>9. ASSUME NEW m \in Names \ (done \cup {n}) PROVE v[m].tempMin = 0 /\ v[m].tempMax = 0
  BY <1>1, <1>5, <1>8
<1>10. ASSUME NEW m \in (done \cup {n}) \cap Grounded
       PROVE  /\ v[m].tempMin = OrElse(Near("rangeMin", m), Near("targetMin", m))
              /\ v[m].tempMax = Near("rangeMax", m)
              /\ v[m].bed = Near("bed", m)
  <2>0. "bed" \in Fields
    BY DEF Fields
  <2>1. CASE m = n
    <3>1. /\ r[n]["rangeMin"] = Near("rangeMin", n) /\ r[n]["rangeMax"] = Near("rangeMax", n)
          /\ r[n]["bed"] = Near("bed", n)
          /\ r[n]["rangeMin"] = 0 => r[n]["targetMin"] = Near("targetMin", n)
      BY <1>2, <2>1 DEF Full
    <3>2. r[n].tempMin = 0 /\ r[n].tempMax = 0
      BY <1>1, <1>8
    <3>3. v[n].tempMin = OrElse(r[n].rangeMin, r[n].targetMin) /\ v[n].tempMax = r[n].rangeMax
      BY <1>4, <1>5, <3>2, FinalizedIs
    <3>4. v[n].bed = r[n].bed
      BY <1>4, <1>6, <2>0
    <3> QED BY <2>1, <3>1, <3>3, <3>4 DEF OrElse
  <2>2. CASE m # n
    <3>1. m \in done /\ m \in Grounded /\ m \in Names
      BY <2>2, GroundedNames
    <3>2. v[m] = r[m] /\ r[m].tempMin = all[m].tempMin /\ r[m].tempMax = all[m].tempMax
      BY <1>5, <1>8, <2>2, <3>1
    <3>3. r[m]["bed"] \in {0, Near("bed", m)} /\ (r[m]["bed"] = 0 => all[m]["bed"] = 0)
      BY <1>2, <2>0, <3>1 DEF AllSound, Partial, Later
    <3>4. all[m].bed = Near("bed", m)
      BY <1>1, <3>1
    <3>5. r[m].bed = Near("bed", m)
      BY <3>3, <3>4
    <3> QED BY <1>1, <3>1, <3>2, <3>5
  <2> QED BY <2>1, <2>2
<1> QED BY <1>5, <1>7, <1>9, <1>10 DEF Right, v

LEMMA RightIsNearest ==
  ASSUME NEW all, Right(Names, all), NEW n \in Names
  PROVE  IsNearest(all, n)
<1> SUFFICES ASSUME Ancestor(n)[MaxDepth + 1] = None
             PROVE  /\ all[n].tempMin = OrElse(Nearest(n, OwnLow), Nearest(n, OwnTarget))
                    /\ all[n].tempMax = Nearest(n, OwnHigh)
                    /\ all[n].bed = Nearest(n, OwnBed)
  BY DEF IsNearest
<1>1. n \in Names \cap Grounded
  BY DEF Grounded
<1>2. /\ all[n].tempMin = OrElse(Near("rangeMin", n), Near("targetMin", n))
      /\ all[n].tempMax = Near("rangeMax", n)
      /\ all[n].bed = Near("bed", n)
  BY <1>1 DEF Right
<1>3. /\ Nearest(n, OwnLow) = Near("rangeMin", n) /\ Nearest(n, OwnHigh) = Near("rangeMax", n)
      /\ Nearest(n, OwnTarget) = Near("targetMin", n) /\ Nearest(n, OwnBed) = Near("bed", n)
  BY NearestIsNear
<1> QED BY <1>2, <1>3

-----------------------------------------------------------------------------
(* The outcomes of LoadAll, by the names that were visited. *)

AfterStep(after, done) ==
  IF done = {} THEN {[n \in Names |-> Loaded(n)]}
  ELSE UNION {{Visit(all, n) : all \in after[done \ {n}]} : n \in done}

\* The sets of at most k names.
Level(k) == {done \in SUBSET Names : Cardinality(done) <= k}

After(f, k) == f = [done \in Level(k) |-> AfterStep(f, done)]

LEMMA LevelIs ==
  /\ Cardinality(Names) \in Nat
  /\ Level(Cardinality(Names)) = SUBSET Names
  /\ Level(0) = {{}}
  /\ \A k \in Nat : Level(k) \subseteq Level(k + 1)
  /\ \A k \in Nat : \A done \in Level(k + 1) : \A n \in done : done \ {n} \in Level(k)
<1>1. IsFiniteSet(Names)
  BY NamesAssumption
<1>2. \A done \in SUBSET Names : IsFiniteSet(done) /\ Cardinality(done) \in Nat
                                 /\ Cardinality(done) <= Cardinality(Names)
  BY <1>1, FS_Subset, FS_CardinalityType
<1>3. Cardinality(Names) \in Nat
  BY <1>1, FS_CardinalityType
<1>4. Level(0) = {{}}
  <2>1. Cardinality({}) = 0
    BY FS_EmptySet
  <2>2. \A done \in SUBSET Names : Cardinality(done) <= 0 => done = {}
    BY <1>2, FS_EmptySet
  <2> QED BY <2>1, <2>2 DEF Level
<1>5. ASSUME NEW k \in Nat, NEW done \in Level(k + 1), NEW n \in done PROVE done \ {n} \in Level(k)
  <2>1. done \in SUBSET Names /\ Cardinality(done) <= k + 1
    BY DEF Level
  <2>2. IsFiniteSet(done)
    BY <1>2, <2>1
  <2>3. Cardinality(done \ {n}) = Cardinality(done) - 1
    BY <2>2, FS_RemoveElement
  <2>4. Cardinality(done) \in Nat
    BY <1>2, <2>1
  <2> QED BY <2>1, <2>3, <2>4 DEF Level
<1> QED BY <1>2, <1>3, <1>4, <1>5 DEF Level

LEMMA SameStep ==
  ASSUME NEW f, NEW g, NEW done, \A n \in done : f[done \ {n}] = g[done \ {n}]
  PROVE  AfterStep(f, done) = AfterStep(g, done)
<1>1. {{Visit(all, n) : all \in f[done \ {n}]} : n \in done} = {{Visit(all, n) : all \in g[done \ {n}]} : n \in done}
  OBVIOUS
<1> QED BY <1>1 DEF AfterStep

LEMMA AfterExists == \E f : After(f, Cardinality(Names))
<1> DEFINE N == Cardinality(Names)
           T == {k \in Nat : \E f : After(f, k)}
<1>1. N \in Nat
  BY LevelIs
<1>2. 0 \in T
  <2> DEFINE f == [done \in Level(0) |-> {[n \in Names |-> Loaded(n)]}]
  <2>1. \A done \in Level(0) : AfterStep(f, done) = {[n \in Names |-> Loaded(n)]}
    BY LevelIs DEF AfterStep
  <2>2. After(f, 0)
    <3> DEFINE h == [done \in Level(0) |-> AfterStep(f, done)]
    <3>1. f = h
      BY <2>1
    <3> QED BY <3>1 DEF After
  <2> HIDE DEF f
  <2> QED BY <2>2
<1>3. ASSUME NEW k \in Nat, k \in T PROVE k + 1 \in T
  <2>1. PICK f : After(f, k)
    BY <1>3
  <2> DEFINE g == [done \in Level(k + 1) |-> IF done \in Level(k) THEN f[done] ELSE AfterStep(f, done)]
  <2>2. \A done \in Level(k) : g[done] = f[done] /\ f[done] = AfterStep(f, done)
    BY <2>1, LevelIs DEF After
  <2>3. \A done \in Level(k + 1) : g[done] = AfterStep(f, done)
    BY <2>2
  <2>4. \A done \in Level(k + 1) : AfterStep(f, done) = AfterStep(g, done)
    <3> SUFFICES ASSUME NEW done \in Level(k + 1) PROVE AfterStep(f, done) = AfterStep(g, done)
      OBVIOUS
    <3>1. \A n \in done : f[done \ {n}] = g[done \ {n}]
      BY <2>2, LevelIs
    <3> HIDE DEF g
    <3> QED BY <3>1, SameStep
  <2>5. g = [done \in Level(k + 1) |-> g[done]]
    OBVIOUS
  <2> HIDE DEF g
  <2>6. After(g, k + 1)
    BY <2>3, <2>4, <2>5 DEF After
  <2> QED BY <2>6
<1>4. \A k \in 0..N : k \in T
  <2>1. \A k \in 0..N : k \in T /\ k < N => k + 1 \in T
    BY <1>3
  <2> HIDE DEF T, N
  <2> QED BY <1>1, <1>2, <2>1, Upwards
<1> QED BY <1>1, <1>4

LEMMA OutcomesAre == \E f : After(f, Cardinality(Names)) /\ Outcomes = f[Names]
<1> DEFINE Is(f) == f = [done \in SUBSET Names |->
                           IF done = {} THEN {[n \in Names |-> Loaded(n)]}
                           ELSE UNION {{Visit(all, n) : all \in f[done \ {n}]} : n \in done}]
           a == CHOOSE f : Is(f)
<1>1. Outcomes = a[Names]
  BY DEF Outcomes
<1>2. \A f : Is(f) <=> After(f, Cardinality(Names))
  BY LevelIs DEF After, AfterStep
<1>3. \E f : Is(f)
  <2> HIDE DEF Is
  <2> QED BY <1>2, AfterExists
<1>4. Is(a)
  <2> HIDE DEF Is
  <2> QED BY <1>3
<1> HIDE DEF a, Is
<1> QED BY <1>1, <1>2, <1>4

LEMMA OutcomesRight == \A fils \in Outcomes : Right(Names, fils)
<1> DEFINE N == Cardinality(Names)
<1>1. PICK f : After(f, N) /\ Outcomes = f[Names]
  BY OutcomesAre
<1> DEFINE T == {k \in Nat : \A done \in Level(k) : \A all \in f[done] : Right(done, all)}
<1>2. N \in Nat /\ Names \in Level(N)
  BY LevelIs
<1>3. \A k \in 0..N : Level(k) \subseteq SUBSET Names
  BY DEF Level
<1>4. \A done \in SUBSET Names : f[done] = AfterStep(f, done)
  <2>1. Level(N) = SUBSET Names
    BY LevelIs
  <2> HIDE DEF N
  <2> QED BY <1>1, <2>1 DEF After
<1> HIDE DEF N
<1>5. 0 \in T
  <2> DEFINE start == [n \in Names |-> Loaded(n)]
  <2>1. f[{}] = {start}
    BY <1>4 DEF AfterStep
  <2>2. Right({}, start)
    BY LoadedRight
  <2>3. Level(0) = {{}}
    BY LevelIs
  <2> HIDE DEF start
  <2>4. ASSUME NEW done \in Level(0), NEW all \in f[done] PROVE Right(done, all)
    <3>1. done = {}
      BY <2>3
    <3>2. all \in {start}
      BY <2>1, <3>1
    <3> QED BY <2>2, <3>1, <3>2
  <2> QED BY <2>4
<1>6. ASSUME NEW k \in 0..N, k \in T, k < N PROVE k + 1 \in T
  <2> SUFFICES ASSUME NEW done \in Level(k + 1), NEW new \in f[done] PROVE Right(done, new)
    BY <1>6
  <2>1. done \in SUBSET Names
    BY DEF Level
  <2>2. CASE done = {}
    BY <1>4, <2>1, <2>2, LoadedRight DEF AfterStep
  <2>3. CASE done # {}
    <3> DEFINE From(n) == {Visit(all, n) : all \in f[done \ {n}]}
    <3>0. f[done] = UNION {From(n) : n \in done}
      BY <1>4, <2>1, <2>3 DEF AfterStep
    <3>1. PICK n \in done : new \in From(n)
      <4> HIDE DEF From
      <4> QED BY <3>0
    <3>2. PICK all \in f[done \ {n}] : new = Visit(all, n)
      BY <3>1
    <3>3. done \ {n} \in Level(k)
      BY LevelIs
    <3>4. Right(done \ {n}, all)
      BY <1>6, <3>2, <3>3
    <3>5. done \ {n} \in SUBSET Names /\ n \in Names \ (done \ {n}) /\ (done \ {n}) \cup {n} = done
      BY <2>1
    <3>6. Right((done \ {n}) \cup {n}, Visit(all, n))
      BY <3>4, <3>5, VisitRight
    <3> QED BY <3>2, <3>5, <3>6
  <2> QED BY <2>2, <2>3
<1>7. \A k \in 0..N : k \in T
  <2> HIDE DEF T
  <2> QED BY <1>2, <1>5, <1>6, Upwards
<1>8. N \in T
  BY <1>2, <1>7
<1> QED BY <1>1, <1>2, <1>8

LEMMA OutcomesNearest == \A fils \in Outcomes : \A n \in Names : IsNearest(fils, n)
BY OutcomesRight, RightIsNearest

-----------------------------------------------------------------------------
\* Whatever the order in which LoadAll takes the profiles out of its map, a profile `ams
\* filament` chooses from has the temperatures of its nearest ancestors (LoadAll, resolve),
\* for any files, chains and cycles of them, and any limit of the depth.
THEOREM ResolvedIsNearestCorrect == Spec => []ResolvedIsNearest
<1> DEFINE Loads == profiles \subseteq Outcomes
<1>1. Init => Loads
  BY DEF Init
<1>2. Loads /\ [Next]_vars => Loads'
  <2> SUFFICES ASSUME Loads, [Next]_vars PROVE Loads'
    OBVIOUS
  <2>1. CASE StartProcess
    BY <2>1 DEF StartProcess
  <2>2. CASE LoadProfiles
    BY <2>2 DEF LoadProfiles
  <2>3. CASE UNCHANGED profiles
    BY <2>3
  <2>4. ASSUME Next, ~StartProcess, ~LoadProfiles PROVE UNCHANGED profiles
    <3> USE DEF clientVars, commandVars, wireVars
    <3>1. CASE Tick \/ OnConnect \/ ConnectionLost \/ Reconnect \/ Greet \/ EndProcess
      BY <3>1 DEF Tick, OnConnect, ConnectionLost, Reconnect, Greet, EndProcess
    <3>2. CASE RunSimple \/ RunPrint \/ RunGCode \/ RunFilament \/ RunFilamentFound \/ RunDump
      BY <3>2 DEF RunSimple, RunPrint, RunGCode, RunFilament, RunFilamentFound, RunDump, Issue
    <3>3. CASE GiveUp \/ Interrupt \/ AwaitAnswer \/ AwaitDump \/ DetectAMS \/ DetectTimeout
      BY <3>3 DEF GiveUp, Interrupt, AwaitAnswer, AwaitDump, DetectAMS, DetectTimeout
    <3>4. CASE Serve \/ PageSees \/ PrinterHandles \/ PrinterPushes \/ OnMessage
      BY <3>4 DEF Serve, PageSees, PrinterHandles, PrinterPushes, OnMessage
    <3> QED BY <2>4, <3>1, <3>2, <3>3, <3>4 DEF Next
  <2>5. UNCHANGED vars => UNCHANGED profiles
    BY DEF vars
  <2> QED BY <2>1, <2>2, <2>3, <2>4, <2>5
<1>3. Loads => ResolvedIsNearest
  BY OutcomesNearest DEF ResolvedIsNearest
<1> QED BY <1>1, <1>2, <1>3, PTL DEF Spec
=============================================================================
