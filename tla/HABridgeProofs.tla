--------------------------- MODULE HABridgeProofs ---------------------------
(***************************************************************************)
(* Proofs about HABridge, for any models, reports, file lists and number   *)
(* of syncers: the type invariant, that what Home Assistant shows is close *)
(* to the last status that was published, and that every topic agrees with *)
(* what the bridge has recorded.                                           *)
(***************************************************************************)
EXTENDS HABridge, TLAPS, SequenceTheorems

\* Where the loop works on a status.
Working == {"identify", "files", "publish", "ams", "state", "availability", "light"}

\* There it has one.
HasStatus == pc[Loop] \in Working => status \in Reports

TypeInv == TypeOK /\ HasStatus

-----------------------------------------------------------------------------
(* Types. *)

LEMMA PublishersDistinct ==
  /\ Loop \in Publishers
  /\ \A p \in Syncers : p \in Publishers /\ p # Loop
BY NoneAssumption DEF Publishers

LEMMA ReportType ==
  ASSUME NEW s \in Reports
  PROVE  /\ s.model \in Models \cup {""}
         /\ s.fans \in BOOLEAN /\ s.hms \in BOOLEAN /\ s.ams \in BOOLEAN
         /\ s.temp \in Nat
         /\ s.stage \in Stages
         /\ s.light \in Lights \cup {None}
BY ReportAssumption DEF Status

\* The model of a status has a name.
LEMMA NameType ==
  ASSUME TypeOK, NEW s \in Reports
  PROVE  Name(s) \in Names
<1>0. printer.serial \in Models \cup {""}
  BY ModelAssumption DEF TypeOK
<1>1. s.model \in Models \cup {""}
  BY ReportType
<1>2. Promoted(s) \in Models \cup {""}
  BY <1>0, <1>1, ModelAssumption DEF Promoted
<1>3. NewModel(s) \in Names
  BY <1>2 DEF NewModel, TypeOK, Names
<1> QED BY <1>3 DEF Name, Names

\* Where a publisher goes, the others stay.
LEMMA GotoType ==
  ASSUME TypeOK, NEW p \in Publishers, NEW place, Goto(p, place)
  PROVE  /\ pc'[p] = place
         /\ \A q \in Publishers : q # p => pc'[q] = pc[q]
         /\ DOMAIN pc' = Publishers
BY DEF TypeOK, Goto

LEMMA GotoPlaces ==
  ASSUME TypeOK, NEW p \in Publishers, NEW place, Goto(p, place),
         place \in IF p = Loop THEN Places ELSE SyncPlaces
  PROVE  /\ pc' \in [Publishers -> Places \cup SyncPlaces]
         /\ \A q \in Publishers : pc'[q] \in IF q = Loop THEN Places ELSE SyncPlaces
<1>1. pc \in [Publishers -> Places \cup SyncPlaces]
  BY DEF TypeOK
<1>2. place \in Places \cup SyncPlaces
  OBVIOUS
<1>3. pc' \in [Publishers -> Places \cup SyncPlaces]
  BY <1>1, <1>2 DEF Goto
<1>4. \A q \in Publishers : pc'[q] = IF q = p THEN place ELSE pc[q]
  BY <1>1 DEF Goto
<1> QED BY <1>3, <1>4 DEF TypeOK

LEMMA EntitiesType ==
  ASSUME NEW name
  PROVE  EntitiesOf(name) \in Seq(Entities)
<1>1. <<"print_file", "bed">> \in Seq(Entities) /\ <<"chamber">> \in Seq(Entities) /\ <<>> \in Seq(Entities)
  BY DEF Entities
<1> QED BY <1>1, ConcatProperties DEF EntitiesOf

LEMMA NoJobType == NoJob \in JobType
BY FileAssumption DEF NoJob, JobType, Names

\* One publisher's job is replaced.
LEMMA JobUpdate ==
  ASSUME TypeOK, NEW p \in Publishers, NEW j \in JobType
  PROVE  [job EXCEPT ![p] = j] \in [Publishers -> JobType]
BY DEF TypeOK

LEMMA DeviceType ==
  ASSUME TypeOK, NEW p \in Publishers, NEW name \in Names
  PROVE  [job[p] EXCEPT !.device = name] \in JobType
<1>1. job[p] \in JobType
  BY DEF TypeOK
<1> QED BY <1>1 DEF JobType

LEMMA TypeInit == Init => TypeOK
<1> SUFFICES ASSUME Init PROVE TypeOK
  OBVIOUS
<1>1. /\ pc = [p \in Publishers |-> IF p = Loop THEN "start" ELSE "idle"]
      /\ job = [p \in Publishers |-> NoJob]
      /\ config = [e \in Entities |-> None]
      /\ topic = [t \in Topics |-> IF t = "online" THEN FALSE ELSE None]
      /\ callback = [at |-> "idle", light |-> "OFF"]
      /\ card \in FirstLists /\ files = NoFiles /\ printerUp \in FirstUp
  BY DEF Init
<1>2. /\ status \in Reports \cup {None} /\ discoveryOk \in BOOLEAN /\ entitiesOk \in BOOLEAN
      /\ lastTemp \in Nat \cup {None} /\ lastPayload \in Payload \cup {None} /\ due \in BOOLEAN
      /\ lastAvail \in (SUBSET {"pause", "resume", "stop"}) \cup {None}
      /\ lastLight \in Lights \cup {None} /\ pending \in Lights \cup {None}
      /\ lastHMS \in BOOLEAN \cup {None} /\ shown \in Payload \cup {None}
      /\ linked \in {"up", "broken", "closed"} /\ cancelled \in BOOLEAN
      /\ lost \subseteq Topics /\ mixed \subseteq Topics
  <2>1. /\ status = None /\ ~discoveryOk /\ ~entitiesOk /\ lastTemp = None /\ lastPayload = None /\ due
        /\ lastAvail = None /\ lastLight = None /\ pending = None /\ lastHMS = None /\ shown = None
        /\ linked = "up" /\ ~cancelled /\ lost = {} /\ mixed = {}
        /\ {discoveryOk, entitiesOk, due, cancelled} \subseteq BOOLEAN
    BY DEF Init
  <2> QED BY <2>1
<1>3. /\ pc \in [Publishers -> Places \cup SyncPlaces]
      /\ \A p \in Publishers : pc[p] \in IF p = Loop THEN Places ELSE SyncPlaces
  BY <1>1 DEF Places, SyncPlaces
<1>4. job \in [Publishers -> JobType]
  BY <1>1, NoJobType
<1>5. inputs \in 0..MaxInputs /\ faults \in 0..MaxFaults
  <2>1. inputs = 0 /\ faults = 0
    BY DEF Init
  <2> QED BY <2>1, BoundAssumption
<1>6. card \in FileLists /\ files \in FileLists /\ printerUp \in BOOLEAN /\ printer \in Printers
  BY <1>1, FileAssumption, StartAssumption DEF Init
<1>7. model \in Names /\ events \in Seq(BOOLEAN)
  <2>1. model = "" /\ events = <<>>
    BY DEF Init
  <2>2. <<>> \in Seq(BOOLEAN)
    OBVIOUS
  <2> QED BY <2>1, <2>2 DEF Names
<1>8. config \in [Entities -> [device : Names, offers : Names \cup FileLists] \cup {None}]
  BY <1>1
<1>9. DOMAIN topic = Topics /\ callback \in [at : {"idle", "publish", "swap"}, light : Lights]
  BY <1>1 DEF Lights
<1> QED BY <1>2, <1>3, <1>4, <1>5, <1>6, <1>7, <1>8, <1>9 DEF TypeOK

\* A message nobody waits for.
LEMMA PublishType ==
  ASSUME TypeOK, NEW t \in Topics, NEW value, Publish(t, value)
  PROVE  /\ DOMAIN topic' = Topics
         /\ lost' \subseteq Topics
         /\ \A u \in Topics \ {t} : topic'[u] = topic[u] /\ (u \in lost' <=> u \in lost)
         /\ t \in lost' \/ topic'[t] = value
BY DEF TypeOK, Publish

LEMMA FilteredType ==
  ASSUME TypeOK, NEW s \in Reports
  PROVE  /\ Filtered(s) \in Nat
         /\ PayloadOf(s) \in Payload
         /\ PayloadOf(s) # None
         /\ PayloadOf(s).stage = s.stage
         /\ Distance(PayloadOf(s).temp, s.temp) < Delta
<1>1. s.temp \in Nat /\ s.stage \in Stages
  BY ReportType
<1>2. lastTemp \in Nat \cup {None}
  BY DEF TypeOK
<1>3. Filtered(s) \in Nat
  BY <1>1, <1>2 DEF Filtered
<1>4. PayloadOf(s) \in Payload
  BY <1>1, <1>3 DEF PayloadOf, Payload
<1>5. Delta \in Nat /\ Delta > 0
  BY DeltaAssumption
<1>6. Distance(Filtered(s), s.temp) < Delta
  <2>1. CASE Filtered(s) = s.temp
    BY <1>1, <1>5, <2>1 DEF Distance
  <2>2. CASE lastTemp # None /\ Distance(s.temp, lastTemp) < Delta /\ Filtered(s) = lastTemp
    BY <1>1, <1>2, <1>5, <2>2 DEF Distance
  <2> QED BY <2>1, <2>2 DEF Filtered
<1>7. PayloadOf(s).temp = Filtered(s) /\ PayloadOf(s).stage = s.stage
  BY DEF PayloadOf
<1>8. Distance(PayloadOf(s).temp, s.temp) < Delta
  BY <1>6, <1>7
<1> QED BY <1>3, <1>4, <1>7, <1>8, NoneAssumption

-----------------------------------------------------------------------------
\* The steps of the event loop that are not those of a discovery.
OwnStep ==
  \/ StartChecks \/ StartGreets \/ ReceiveStatus \/ PublishAMSDiscovery
  \/ PublishStateFails \/ PublishState \/ PublishAvailability \/ PublishLightAndHMS
  \/ CloseOffline \/ CloseDisconnects

LEMMA TypeLoop ==
  ASSUME TypeOK, HasStatus, OwnStep
  PROVE  TypeOK' /\ HasStatus'
<1> USE PublishersDistinct
<1>p. /\ {"select", "greet", "identify", "ams", "state", "availability", "light", "disconnect", "ended"}
           \subseteq Places
      /\ Topics = {"light", "availability", "hms", "online", "ams"}
  BY DEF Places, Topics
<1>w. \A place \in {"ams", "state", "availability", "light"} : place \in Working
  BY DEF Working
<1>u. \A place \in {"start", "greet", "select", "disconnect", "ended"} : place \notin Working
  BY DEF Working
<1> DEFINE PcOK == /\ pc' \in [Publishers -> Places \cup SyncPlaces]
                   /\ \A q \in Publishers : pc'[q] \in IF q = Loop THEN Places ELSE SyncPlaces
<1>1. CASE StartChecks
  <2>1. PcOK
    BY <1>1, <1>p, GotoPlaces DEF StartChecks
  <2>2. pc'[Loop] \notin Working
    BY <1>1, <1>u, GotoType DEF StartChecks
  <2> QED BY <1>1, <2>1, <2>2 DEF StartChecks, HasStatus, TypeOK, brokerVars, loopVars, envVars, ghostVars
<1>2. CASE StartGreets
  <2>1. PcOK
    BY <1>2, <1>p, GotoPlaces DEF StartGreets
  <2>2. DOMAIN topic' = Topics /\ lost' \subseteq Topics
    BY <1>2, <1>p, PublishType DEF StartGreets
  <2>3. pc'[Loop] \notin Working
    BY <1>2, <1>u, GotoType DEF StartGreets
  <2> QED BY <1>2, <2>1, <2>2, <2>3 DEF StartGreets, HasStatus, TypeOK, loopVars, envVars
<1>3. CASE ReceiveStatus
  <2>1. PICK s \in Reports :
          /\ status' = s
          /\ IF Announce(s)
             THEN /\ model' = Name(s)
                  /\ job' = [job EXCEPT ![Loop].device = Name(s)]
                  /\ Goto(Loop, "identify")
             ELSE Goto(Loop, "ams") /\ UNCHANGED <<model, job>>
    <3>1. printer.reports \subseteq Reports
      BY ModelAssumption DEF TypeOK
    <3> QED BY <1>3, <3>1 DEF ReceiveStatus
  <2>2. PcOK
    BY <2>1, <1>p, GotoPlaces
  <2>3. Name(s) \in Names
    BY NameType
  <2>4. job' \in [Publishers -> JobType] /\ model' \in Names
    <3>1. CASE Announce(s)
      <4>1. /\ model' = Name(s)
            /\ job' = [job EXCEPT ![Loop] = [job[Loop] EXCEPT !.device = Name(s)]]
        BY <2>1, <3>1
      <4> QED BY <4>1, <2>3, DeviceType, JobUpdate
    <3>2. CASE ~Announce(s)
      BY <2>1, <3>2 DEF TypeOK
    <3> QED BY <3>1, <3>2
  <2> QED BY <1>3, <2>1, <2>2, <2>4 DEF ReceiveStatus, HasStatus, TypeOK, brokerVars, envVars, ghostVars
<1>4. CASE PublishAMSDiscovery
  <2>1. PcOK
    BY <1>4, <1>p, GotoPlaces DEF PublishAMSDiscovery
  <2>2. DOMAIN topic' = Topics /\ lost' \subseteq Topics /\ entitiesOk' \in BOOLEAN
    <3>1. CASE status.ams /\ ~entitiesOk
      BY <1>4, <1>p, <3>1, PublishType DEF PublishAMSDiscovery
    <3>2. CASE ~(status.ams /\ ~entitiesOk)
      BY <1>4, <3>2 DEF PublishAMSDiscovery, TypeOK
    <3> QED BY <3>1, <3>2
  <2>3. status \in Reports
    BY <1>4, <1>w DEF PublishAMSDiscovery, HasStatus
  <2> QED BY <1>4, <2>1, <2>2, <2>3 DEF PublishAMSDiscovery, HasStatus, TypeOK, envVars
<1>5. CASE PublishStateFails
  <2>1. PcOK /\ pc'[Loop] \notin Working
    BY <1>5, <1>p, <1>u, GotoPlaces, GotoType DEF PublishStateFails, Selects, Goto
  <2>2. status \in Reports
    BY <1>5, <1>w DEF PublishStateFails, HasStatus
  <2>3. lastTemp' \in Nat
    BY <1>5, <2>2, FilteredType DEF PublishStateFails
  <2> QED BY <1>5, <2>1, <2>3 DEF PublishStateFails, HasStatus, TypeOK, brokerVars, envVars, ghostVars, Selects
<1>6. CASE PublishState
  <2>1. PcOK
    BY <1>6, <1>p, GotoPlaces DEF PublishState
  <2>2. status \in Reports
    BY <1>6, <1>w DEF PublishState, HasStatus
  <2>3. lastTemp' \in Nat
    BY <1>6, <2>2, FilteredType DEF PublishState
  <2>4. shown' \in Payload \cup {None} /\ lastPayload' \in Payload \cup {None} /\ due' \in BOOLEAN
    BY <1>6, <2>2, FilteredType DEF PublishState, TypeOK
  <2> QED BY <1>6, <2>1, <2>2, <2>3, <2>4 DEF PublishState, HasStatus, TypeOK, envVars, ghostVars
<1>7. CASE PublishAvailability
  <2>1. PcOK
    BY <1>7, <1>p, GotoPlaces DEF PublishAvailability
  <2>2. status \in Reports
    BY <1>7, <1>w DEF PublishAvailability, HasStatus
  <2>3. lastAvail' \in SUBSET {"pause", "resume", "stop"}
    BY <1>7 DEF PublishAvailability, Available
  <2>4. DOMAIN topic' = Topics /\ lost' \subseteq Topics
    <3>1. CASE lastAvail' # lastAvail
      BY <1>7, <1>p, <3>1, PublishType DEF PublishAvailability
    <3>2. CASE lastAvail' = lastAvail
      BY <1>7, <3>2 DEF PublishAvailability, TypeOK
    <3> QED BY <3>1, <3>2
  <2>5. lastLight' \in Lights \cup {None} /\ pending' \in Lights \cup {None}
    BY <1>7, <2>2, ReportType DEF PublishAvailability, TypeOK
  <2> QED BY <1>7, <2>1, <2>2, <2>3, <2>4, <2>5 DEF PublishAvailability, HasStatus, TypeOK, envVars
<1>8. CASE PublishLightAndHMS
  <2>1. PcOK /\ pc'[Loop] \notin Working
    BY <1>8, <1>p, <1>u, GotoPlaces, GotoType DEF PublishLightAndHMS, Selects, Goto
  <2>2. status \in Reports
    BY <1>8, <1>w DEF PublishLightAndHMS, HasStatus
  <2>3. lastHMS' \in BOOLEAN
    BY <1>8, <2>2, ReportType DEF PublishLightAndHMS
  <2>4. DOMAIN topic' = Topics
    BY <1>8 DEF PublishLightAndHMS, TypeOK
  <2>5. lost' \subseteq Topics /\ mixed' \subseteq Topics
    BY <1>8, <1>p DEF PublishLightAndHMS, TypeOK
  <2> QED BY <1>8, <2>1, <2>3, <2>4, <2>5 DEF PublishLightAndHMS, HasStatus, TypeOK, envVars, Selects
<1>9. CASE CloseOffline
  <2>1. PcOK
    BY <1>9, <1>p, GotoPlaces DEF CloseOffline
  <2>2. DOMAIN topic' = Topics /\ lost' \subseteq Topics
    BY <1>9, <1>p, PublishType DEF CloseOffline
  <2>3. pc'[Loop] \notin Working
    BY <1>9, <1>u, GotoType DEF CloseOffline
  <2> QED BY <1>9, <2>1, <2>2, <2>3 DEF CloseOffline, HasStatus, TypeOK, loopVars, envVars
<1>10. CASE CloseDisconnects
  <2>1. PcOK
    BY <1>10, <1>p, GotoPlaces DEF CloseDisconnects
  <2>2. pc'[Loop] \notin Working
    BY <1>10, <1>u, GotoType DEF CloseDisconnects
  <2> QED BY <1>10, <2>1, <2>2 DEF CloseDisconnects, HasStatus, TypeOK, brokerVars, loopVars, ghostVars
<1> QED BY <1>1, <1>2, <1>3, <1>4, <1>5, <1>6, <1>7, <1>8, <1>9, <1>10 DEF OwnStep

-----------------------------------------------------------------------------
\* A publisher in the middle of a discovery is where both kinds of places agree.
LEMMA DiscoveryPlaces ==
  ASSUME NEW p \in Publishers
  PROVE  {"identify", "files", "publish", AfterDiscovery(p, TRUE), AfterDiscovery(p, FALSE)}
           \subseteq IF p = Loop THEN Places ELSE SyncPlaces
BY DEF Places, SyncPlaces, AfterDiscovery

\* A discovery that ends takes the loop to "ams" or back to its select.
LEMMA HasStatusStays ==
  ASSUME HasStatus, NEW p \in Publishers, TypeOK, pc[p] \in Working, UNCHANGED status,
         NEW place, Goto(p, place)
  PROVE  HasStatus'
<1>1. CASE p = Loop
  BY <1>1 DEF HasStatus
<1>2. CASE p # Loop
  <2>1. pc'[Loop] = pc[Loop]
    BY <1>2, GotoType, PublishersDistinct
  <2> QED BY <2>1 DEF HasStatus
<1> QED BY <1>1, <1>2

LEMMA TypeDiscovery ==
  ASSUME TypeOK, HasStatus, NEW p \in Publishers, DiscoveryStep(p)
  PROVE  TypeOK' /\ HasStatus'
<1> DEFINE PcOK == /\ pc' \in [Publishers -> Places \cup SyncPlaces]
                   /\ \A q \in Publishers : pc'[q] \in IF q = Loop THEN Places ELSE SyncPlaces
<1>j. job[p] \in JobType
  BY DEF TypeOK
<1>w. {"identify", "files", "publish"} \subseteq Working
  BY DEF Working
<1>1. CASE Identify(p)
  <2>1. PcOK
    BY <1>1, DiscoveryPlaces, GotoPlaces DEF Identify
  <2>2. HasStatus'
    BY <1>1, <1>w, HasStatusStays DEF Identify, loopVars
  <2>3. job' \in [Publishers -> JobType]
    <3>1. job' = [job EXCEPT ![p] = [job[p] EXCEPT !.model = model]]
      BY <1>1 DEF Identify
    <3>2. [job[p] EXCEPT !.model = model] \in JobType
      BY <1>j DEF TypeOK, JobType
    <3> QED BY <3>1, <3>2, JobUpdate
  <2> QED BY <1>1, <2>1, <2>2, <2>3 DEF Identify, TypeOK, brokerVars, loopVars, envVars, ghostVars
<1>2. CASE ReadFiles(p)
  <2>1. PcOK
    BY <1>2, DiscoveryPlaces, GotoPlaces DEF ReadFiles
  <2>2. HasStatus'
    BY <1>2, <1>w, HasStatusStays DEF ReadFiles, loopVars
  <2>3. job' \in [Publishers -> JobType]
    <3>1. job' = [job EXCEPT ![p] = [job[p] EXCEPT !.files = files, !.todo = EntitiesOf(job[p].model)]]
      BY <1>2 DEF ReadFiles, TypeOK
    <3>2. EntitiesOf(job[p].model) \in Seq(Entities)
      BY EntitiesType
    <3>3. [job[p] EXCEPT !.files = files, !.todo = EntitiesOf(job[p].model)] \in JobType
      BY <1>j, <3>2 DEF TypeOK, JobType
    <3> QED BY <3>1, <3>3, JobUpdate
  <2> QED BY <1>2, <2>1, <2>2, <2>3 DEF ReadFiles, TypeOK, brokerVars, loopVars, envVars, ghostVars
<1>3. CASE PublishEntity(p)
  <2>1. job[p].todo \in Seq(Entities) /\ job[p].todo # <<>>
    BY <1>3, <1>j DEF PublishEntity, JobType
  <2>2. Head(job[p].todo) \in Entities /\ Tail(job[p].todo) \in Seq(Entities)
    BY <2>1
  <2>3. job' \in [Publishers -> JobType]
    <3>1. job' = [job EXCEPT ![p] = [job[p] EXCEPT !.todo = Tail(job[p].todo)]]
      BY <1>3 DEF PublishEntity
    <3>2. [job[p] EXCEPT !.todo = Tail(job[p].todo)] \in JobType
      BY <1>j, <2>2 DEF JobType
    <3> QED BY <3>1, <3>2, JobUpdate
  <2>4. config' \in [Entities -> [device : Names, offers : Names \cup FileLists] \cup {None}]
    <3>1. Config(Head(job[p].todo), job[p]) \in [device : Names, offers : Names \cup FileLists]
      BY <1>j DEF Config, JobType
    <3> QED BY <1>3, <2>2, <3>1 DEF PublishEntity, TypeOK
  <2> QED BY <1>3, <2>3, <2>4 DEF PublishEntity, HasStatus, TypeOK, loopVars, envVars, ghostVars
<1>4. CASE DiscoveryFails(p)
  <2>1. PcOK
    <3>1. AfterDiscovery(p, discoveryOk) \in IF p = Loop THEN Places ELSE SyncPlaces
      BY DEF AfterDiscovery, Places, SyncPlaces
    <3> QED BY <1>4, <3>1, GotoPlaces DEF DiscoveryFails
  <2>2. job' \in [Publishers -> JobType]
    BY <1>4, NoJobType, JobUpdate DEF DiscoveryFails
  <2>3. status' \in Reports \cup {None} /\ HasStatus'
    <3>1. CASE p = Loop /\ ~discoveryOk
      <4>1. pc'[Loop] = "select"
        BY <1>4, <3>1, GotoType DEF DiscoveryFails, AfterDiscovery
      <4> QED BY <1>4, <3>1, <4>1 DEF DiscoveryFails, HasStatus, Working
    <3>2. CASE ~(p = Loop /\ ~discoveryOk)
      <4>1. UNCHANGED status
        BY <1>4, <3>2 DEF DiscoveryFails
      <4> QED BY <1>4, <4>1, <1>w, HasStatusStays DEF DiscoveryFails, TypeOK
    <3> QED BY <3>1, <3>2
  <2> QED BY <1>4, <2>1, <2>2, <2>3 DEF DiscoveryFails, TypeOK, brokerVars, envVars, ghostVars
<1>5. CASE DiscoveryEnds(p)
  <2>1. PcOK
    BY <1>5, DiscoveryPlaces, GotoPlaces DEF DiscoveryEnds
  <2>2. HasStatus'
    BY <1>5, <1>w, HasStatusStays DEF DiscoveryEnds
  <2>3. job' \in [Publishers -> JobType]
    BY <1>5, NoJobType, JobUpdate DEF DiscoveryEnds
  <2>4. discoveryOk' \in BOOLEAN
    BY <1>5 DEF DiscoveryEnds
  <2> QED BY <1>5, <2>1, <2>2, <2>3, <2>4 DEF DiscoveryEnds, TypeOK, brokerVars, envVars, ghostVars
<1> QED BY <1>1, <1>2, <1>3, <1>4, <1>5 DEF DiscoveryStep

LEMMA TypeSync ==
  ASSUME TypeOK, HasStatus, NEW p \in Syncers, ListFiles(p) \/ StoreFiles(p)
  PROVE  TypeOK' /\ HasStatus'
<1> USE PublishersDistinct
<1> DEFINE PcOK == /\ pc' \in [Publishers -> Places \cup SyncPlaces]
                   /\ \A q \in Publishers : pc'[q] \in IF q = Loop THEN Places ELSE SyncPlaces
<1>p. {"listed", "identify"} \subseteq SyncPlaces
  BY DEF SyncPlaces
<1>j. job[p] \in JobType
  BY DEF TypeOK
<1>1. CASE ListFiles(p)
  <2>1. PcOK
    BY <1>1, <1>p, GotoPlaces DEF ListFiles
  <2>2. pc'[Loop] = pc[Loop]
    BY <1>1, GotoType DEF ListFiles
  <2>3. job' \in [Publishers -> JobType]
    <3>1. job' = [job EXCEPT ![p] = [job[p] EXCEPT !.files = card]]
      BY <1>1 DEF ListFiles
    <3>2. [job[p] EXCEPT !.files = card] \in JobType
      BY <1>j DEF TypeOK, JobType
    <3> QED BY <3>1, <3>2, JobUpdate
  <2> QED BY <1>1, <2>1, <2>2, <2>3 DEF ListFiles, HasStatus, TypeOK, brokerVars, loopVars, envVars, ghostVars
<1>2. CASE StoreFiles(p)
  <2>1. PcOK
    BY <1>2, <1>p, GotoPlaces DEF StoreFiles
  <2>2. pc'[Loop] = pc[Loop]
    BY <1>2, GotoType DEF StoreFiles
  <2>3. job' \in [Publishers -> JobType]
    <3>1. [NoJob EXCEPT !.device = model] \in JobType
      BY NoJobType DEF TypeOK, JobType
    <3> QED BY <1>2, <3>1, JobUpdate DEF StoreFiles
  <2>4. files' \in FileLists
    BY <1>2, <1>j DEF StoreFiles, JobType
  <2> QED BY <1>2, <2>1, <2>2, <2>3, <2>4 DEF StoreFiles, HasStatus, TypeOK, brokerVars, loopVars, envVars, ghostVars
<1> QED BY <1>1, <1>2

\* The steps of the light callback, the connection callbacks and the world.
OtherStep ==
  \/ ReceiveLight \/ CallbackPublishes \/ CallbackSwaps \/ ConnectionCallback
  \/ PrinterFlips \/ LinkBreaks \/ LinkRestored \/ HARestarts \/ CardChanges
  \/ MinutePasses \/ Cancel

LEMMA TypeOther ==
  ASSUME TypeOK, OtherStep
  PROVE  TypeOK' /\ UNCHANGED <<pc, status>>
<1>t. Topics = {"light", "availability", "hms", "online", "ams"}
  BY DEF Topics
<1>b. /\ MaxInputs \in Nat /\ MaxFaults \in Nat
      /\ inputs \in 0..MaxInputs /\ faults \in 0..MaxFaults
  BY BoundAssumption DEF TypeOK
<1>c. callback \in [at : {"idle", "publish", "swap"}, light : Lights]
  BY DEF TypeOK
<1>1. CASE ReceiveLight
  <2>1. callback' \in [at : {"idle", "publish", "swap"}, light : Lights]
    BY <1>1 DEF ReceiveLight
  <2>2. inputs' \in 0..MaxInputs /\ faults' = faults
    BY <1>1, <1>b DEF ReceiveLight, Input
  <2> QED BY <1>1, <2>1, <2>2 DEF ReceiveLight, TypeOK, brokerVars, loopVars, ghostVars
<1>2. CASE CallbackPublishes
  <2>1. DOMAIN topic' = Topics /\ lost' \subseteq Topics
    BY <1>2, <1>t, PublishType DEF CallbackPublishes
  <2>2. callback' \in [at : {"idle", "publish", "swap"}, light : Lights]
    BY <1>2, <1>c DEF CallbackPublishes
  <2>3. mixed' \subseteq Topics
    BY <1>2, <1>t DEF CallbackPublishes, TypeOK
  <2> QED BY <1>2, <2>1, <2>2, <2>3 DEF CallbackPublishes, TypeOK, loopVars, envVars
<1>3. CASE CallbackSwaps
  <2>1. lastLight' \in Lights
    BY <1>3, <1>c DEF CallbackSwaps
  <2>2. callback' \in [at : {"idle", "publish", "swap"}, light : Lights]
    BY <1>3 DEF CallbackSwaps, Lights
  <2>3. mixed' \subseteq Topics
    BY <1>3, <1>t DEF CallbackSwaps, TypeOK
  <2> QED BY <1>3, <2>1, <2>2, <2>3 DEF CallbackSwaps, TypeOK, brokerVars, loopVars, envVars
<1>4. CASE ConnectionCallback
  <2>1. events' \in Seq(BOOLEAN)
    BY <1>4 DEF ConnectionCallback, TypeOK
  <2>2. DOMAIN topic' = Topics /\ lost' \subseteq Topics
    BY <1>4, <1>t, PublishType DEF ConnectionCallback
  <2>3. mixed' \subseteq Topics
    BY <1>4, <1>t DEF ConnectionCallback, TypeOK
  <2> QED BY <1>4, <2>1, <2>2, <2>3 DEF ConnectionCallback, TypeOK, loopVars
<1>5. CASE PrinterFlips
  <2>1. printerUp' \in BOOLEAN /\ events' \in Seq(BOOLEAN)
    <3>1. printerUp' \in BOOLEAN
      BY <1>5 DEF PrinterFlips
    <3>2. events \in Seq(BOOLEAN) /\ events' = Append(events, printerUp')
      BY <1>5 DEF PrinterFlips, TypeOK
    <3> QED BY <3>1, <3>2
  <2>2. inputs' \in 0..MaxInputs /\ faults' = faults
    BY <1>5, <1>b DEF PrinterFlips, Input
  <2> QED BY <1>5, <2>1, <2>2 DEF PrinterFlips, TypeOK, brokerVars, loopVars, ghostVars
<1>6. CASE LinkBreaks
  <2>1. DOMAIN topic' = Topics /\ lost' \subseteq Topics
    BY <1>6, <1>t DEF LinkBreaks, TypeOK
  <2>2. faults' \in 0..MaxFaults /\ inputs' = inputs
    BY <1>6, <1>b DEF LinkBreaks, Fault
  <2> QED BY <1>6, <2>1, <2>2 DEF LinkBreaks, TypeOK, loopVars
<1>7. CASE LinkRestored
  BY <1>7 DEF LinkRestored, TypeOK, brokerVars, loopVars, ghostVars
<1>8. CASE HARestarts
  <2>1. DOMAIN topic' = Topics /\ lost' \subseteq Topics
    BY <1>8, <1>t DEF HARestarts, TypeOK
  <2>2. faults' \in 0..MaxFaults /\ inputs' = inputs
    BY <1>8, <1>b DEF HARestarts, Fault
  <2> QED BY <1>8, <2>1, <2>2 DEF HARestarts, TypeOK, loopVars
<1>9. CASE CardChanges
  <2>1. card' \in FileLists
    BY <1>9 DEF CardChanges
  <2>2. inputs' \in 0..MaxInputs /\ faults' = faults
    BY <1>9, <1>b DEF CardChanges, Input
  <2> QED BY <1>9, <2>1, <2>2 DEF CardChanges, TypeOK, brokerVars, loopVars, ghostVars
<1>10. CASE MinutePasses
  BY <1>10 DEF MinutePasses, TypeOK, brokerVars, loopVars, envVars, ghostVars
<1>11. CASE Cancel
  <2>1. faults' \in 0..MaxFaults /\ inputs' = inputs
    BY <1>11, <1>b DEF Cancel, Fault
  <2>2. cancelled' \in BOOLEAN
    BY <1>11 DEF Cancel
  <2> QED BY <1>11, <2>1, <2>2 DEF Cancel, TypeOK, brokerVars, loopVars, ghostVars
<1> QED BY <1>1, <1>2, <1>3, <1>4, <1>5, <1>6, <1>7, <1>8, <1>9, <1>10, <1>11 DEF OtherStep

\* Every step is one of the four kinds.
LEMMA StepKinds ==
  ASSUME Next
  PROVE  \/ OwnStep
         \/ \E p \in Publishers : DiscoveryStep(p)
         \/ \E p \in Syncers : ListFiles(p) \/ StoreFiles(p)
         \/ OtherStep
<1>1. /\ Hourly \in Syncers
      /\ \A p \in Syncers : p \in Publishers
      /\ Loop \in Publishers
  BY PublishersDistinct, NoneAssumption
<1>2. CASE \E p \in Syncers : SyncStep(p) \/ RefreshFiles(p)
  BY <1>1, <1>2 DEF SyncStep, SyncHourly, RefreshFiles
<1>3. CASE LoopStep
  BY <1>1, <1>3 DEF LoopStep, OwnStep
<1> QED BY <1>2, <1>3 DEF Next, CallbackStep, OtherStep

LEMMA TypeStutter ==
  ASSUME TypeOK, HasStatus, UNCHANGED vars
  PROVE  TypeOK' /\ HasStatus'
BY DEF TypeOK, HasStatus, vars, brokerVars, loopVars, envVars, ghostVars

LEMMA TypeStep ==
  ASSUME TypeInv, [Next]_vars
  PROVE  TypeInv'
<1>0. TypeOK /\ HasStatus
  BY DEF TypeInv
<1>1. CASE Next
  <2>1. CASE OtherStep
    <3>1. TypeOK' /\ UNCHANGED <<pc, status>>
      BY <1>0, <2>1, TypeOther
    <3> QED BY <1>0, <3>1 DEF TypeInv, HasStatus
  <2>2. CASE OwnStep
    BY <1>0, <2>2, TypeLoop DEF TypeInv
  <2>3. CASE \E p \in Publishers : DiscoveryStep(p)
    BY <1>0, <2>3, TypeDiscovery DEF TypeInv
  <2>4. CASE \E p \in Syncers : ListFiles(p) \/ StoreFiles(p)
    BY <1>0, <2>4, TypeSync DEF TypeInv
  <2> QED BY <1>1, <2>1, <2>2, <2>3, <2>4, StepKinds
<1>2. CASE UNCHANGED vars
  BY <1>0, <1>2, TypeStutter DEF TypeInv
<1> QED BY <1>1, <1>2

LEMMA HasStatusInit == Init => HasStatus
<1>1. Init => pc = [p \in Publishers |-> IF p = Loop THEN "start" ELSE "idle"]
  BY DEF Init
<1> QED BY <1>1, PublishersDistinct DEF HasStatus, Working

LEMMA TypeInvariant == Spec => []TypeInv
<1>1. Init => TypeInv
  BY TypeInit, HasStatusInit DEF TypeInv
<1>2. TypeInv /\ [Next]_vars => TypeInv'
  BY TypeStep
<1> QED BY <1>1, <1>2, PTL DEF Spec

\* Every variable keeps its type, for any models, reports and number of syncers: a
\* discovery never announces a name or a file list that is none.
THEOREM TypeCorrect == Spec => []TypeOK
<1>1. TypeInv => TypeOK
  BY DEF TypeInv
<1> QED BY <1>1, TypeInvariant, PTL

-----------------------------------------------------------------------------
(* What the steps that publish no topic leave alone. *)

seen == <<topic, lost, mixed, shown, lastPayload, lastAvail, lastLight, pending, lastHMS, entitiesOk,
          callback, events, printerUp, linked>>

Announcing == {"identify", "files", "publish"}

\* Nothing is shown, and the loop stays where it is or goes on with a discovery.
Quiet ==
  /\ UNCHANGED seen
  /\ \/ pc'[Loop] = pc[Loop] /\ status' = status
     \/ pc[Loop] \in Announcing /\ pc'[Loop] \in Announcing \cup {"ams", "select"}

LEMMA DiscoveryQuiet ==
  ASSUME TypeOK, NEW p \in Publishers, DiscoveryStep(p)
  PROVE  Quiet
<1> USE PublishersDistinct
<1>1. UNCHANGED seen
  BY DEF seen, DiscoveryStep, Identify, ReadFiles, PublishEntity, DiscoveryFails, DiscoveryEnds, brokerVars,
         loopVars, envVars, ghostVars
<1>2. CASE p = Loop
  <2>1. CASE PublishEntity(p)
    BY <2>1 DEF PublishEntity, loopVars, Quiet, seen, envVars, ghostVars
  <2>2. CASE Identify(p)
    BY <1>1, <1>2, <2>2, GotoType DEF Identify, Quiet, Announcing
  <2>3. CASE ReadFiles(p)
    BY <1>1, <1>2, <2>3, GotoType DEF ReadFiles, Quiet, Announcing
  <2>4. CASE DiscoveryFails(p)
    BY <1>1, <1>2, <2>4, GotoType DEF DiscoveryFails, AfterDiscovery, Quiet, Announcing
  <2>5. CASE DiscoveryEnds(p)
    BY <1>1, <1>2, <2>5, GotoType DEF DiscoveryEnds, AfterDiscovery, Quiet, Announcing
  <2> QED BY <2>1, <2>2, <2>3, <2>4, <2>5 DEF DiscoveryStep
<1>3. CASE p # Loop
  <2>1. status' = status
    BY <1>3 DEF DiscoveryStep, Identify, ReadFiles, PublishEntity, DiscoveryFails, DiscoveryEnds, loopVars
  <2>2. pc' = pc \/ \E place : Goto(p, place)
    BY DEF DiscoveryStep, Identify, ReadFiles, PublishEntity, DiscoveryFails, DiscoveryEnds
  <2>3. pc'[Loop] = pc[Loop]
    BY <1>3, <2>2, GotoType
  <2> QED BY <1>1, <2>1, <2>3 DEF Quiet
<1> QED BY <1>2, <1>3

LEMMA SyncQuiet ==
  ASSUME TypeOK, NEW p \in Syncers, ListFiles(p) \/ StoreFiles(p)
  PROVE  Quiet
<1> USE PublishersDistinct
<1>1. UNCHANGED seen /\ status' = status
  BY DEF seen, ListFiles, StoreFiles, brokerVars, loopVars, envVars, ghostVars
<1>2. \E place : Goto(p, place)
  BY DEF ListFiles, StoreFiles
<1>3. pc'[Loop] = pc[Loop]
  BY <1>2, GotoType
<1> QED BY <1>1, <1>3 DEF Quiet

LEMMA WorldQuiet ==
  ASSUME CardChanges \/ MinutePasses \/ Cancel \/ UNCHANGED vars
  PROVE  Quiet
<1>1. UNCHANGED seen /\ pc' = pc /\ status' = status
  <2>1. CASE CardChanges
    BY <2>1 DEF CardChanges, seen, brokerVars, loopVars, ghostVars
  <2>2. CASE MinutePasses
    BY <2>2 DEF MinutePasses, seen, brokerVars, loopVars, envVars, ghostVars
  <2>3. CASE Cancel
    BY <2>3 DEF Cancel, seen, brokerVars, loopVars, ghostVars
  <2>4. CASE UNCHANGED vars
    BY <2>4 DEF vars, seen, brokerVars, loopVars, envVars, ghostVars
  <2> QED BY <2>1, <2>2, <2>3, <2>4
<1> QED BY <1>1 DEF Quiet

\* The steps that publish something or record it, or change the connections.
LoudStep ==
  \/ ReceiveLight \/ CallbackPublishes \/ CallbackSwaps \/ ConnectionCallback
  \/ PrinterFlips \/ LinkBreaks \/ LinkRestored \/ HARestarts

LEMMA LoudOrQuiet ==
  ASSUME TypeOK, [Next]_vars
  PROVE  OwnStep \/ LoudStep \/ Quiet
<1>1. CASE OtherStep
  BY <1>1, WorldQuiet DEF OtherStep, LoudStep
<1>2. CASE \E p \in Publishers : DiscoveryStep(p)
  BY <1>2, DiscoveryQuiet
<1>3. CASE \E p \in Syncers : ListFiles(p) \/ StoreFiles(p)
  BY <1>3, SyncQuiet
<1>4. CASE UNCHANGED vars
  BY <1>4, WorldQuiet
<1> QED BY <1>1, <1>2, <1>3, <1>4, StepKinds

\* Where each step of the loop starts and ends.
LEMMA OwnPlaces ==
  ASSUME TypeOK
  PROVE  /\ StartChecks => pc[Loop] = "start" /\ pc'[Loop] = IF printerUp THEN "greet" ELSE "select"
         /\ StartGreets => pc[Loop] = "greet" /\ pc'[Loop] = "select"
         /\ ReceiveStatus => pc[Loop] = "select" /\ pc'[Loop] \in {"identify", "ams"}
         /\ PublishAMSDiscovery => pc[Loop] = "ams" /\ pc'[Loop] = "state"
         /\ PublishStateFails => pc[Loop] = "state" /\ pc'[Loop] = "select"
         /\ PublishState => pc[Loop] = "state" /\ pc'[Loop] = "availability"
         /\ PublishAvailability => pc[Loop] = "availability" /\ pc'[Loop] = "light"
         /\ PublishLightAndHMS => pc[Loop] = "light" /\ pc'[Loop] = "select"
         /\ CloseOffline => pc[Loop] = "select" /\ pc'[Loop] = "disconnect"
         /\ CloseDisconnects => pc[Loop] = "disconnect" /\ pc'[Loop] = "ended"
<1> USE PublishersDistinct, GotoType
<1>1. StartChecks => pc[Loop] = "start" /\ pc'[Loop] = IF printerUp THEN "greet" ELSE "select"
  BY DEF StartChecks
<1>2. StartGreets => pc[Loop] = "greet" /\ pc'[Loop] = "select"
  BY DEF StartGreets
<1>3. ReceiveStatus => pc[Loop] = "select" /\ pc'[Loop] \in {"identify", "ams"}
  BY DEF ReceiveStatus
<1>4. PublishAMSDiscovery => pc[Loop] = "ams" /\ pc'[Loop] = "state"
  BY DEF PublishAMSDiscovery
<1>5. PublishStateFails => pc[Loop] = "state" /\ pc'[Loop] = "select"
  BY DEF PublishStateFails, Selects, Goto
<1>6. PublishState => pc[Loop] = "state" /\ pc'[Loop] = "availability"
  BY DEF PublishState
<1>7. PublishAvailability => pc[Loop] = "availability" /\ pc'[Loop] = "light"
  BY DEF PublishAvailability
<1>8. PublishLightAndHMS => pc[Loop] = "light" /\ pc'[Loop] = "select"
  BY DEF PublishLightAndHMS, Selects, Goto
<1>9. CloseOffline => pc[Loop] = "select" /\ pc'[Loop] = "disconnect"
  BY DEF CloseOffline
<1>10. CloseDisconnects => pc[Loop] = "disconnect" /\ pc'[Loop] = "ended"
  BY DEF CloseDisconnects
<1> QED BY <1>1, <1>2, <1>3, <1>4, <1>5, <1>6, <1>7, <1>8, <1>9, <1>10

LEMMA LoudPlaces ==
  ASSUME LoudStep
  PROVE  pc' = pc /\ status' = status
BY DEF LoudStep, ReceiveLight, CallbackPublishes, CallbackSwaps, ConnectionCallback, PrinterFlips,
       LinkBreaks, LinkRestored, HARestarts, loopVars

-----------------------------------------------------------------------------
(* The inductive invariant, one part for each thing that is shown. *)

\* While a status is being published its payload is the last one, and what Home
\* Assistant shows, if it shows anything, is the last payload.
ShownInv ==
  /\ shown # None => shown = lastPayload
  /\ pc[Loop] \in {"availability", "light"} =>
       /\ lastPayload # None
       /\ lastPayload.stage = status.stage
       /\ Distance(lastPayload.temp, status.temp) < Delta

\* The actions that are available lag behind the payload only before they are published.
AvailabilityInv ==
  /\ "availability" \in lost \/ topic["availability"] = lastAvail
  /\ pc[Loop] # "availability" /\ lastPayload # None => lastAvail = Available(lastPayload.stage)

\* The light is the recorded one, except between a recording and its publish in the
\* loop and between a publish and its recording in the callback.
LightInv ==
  /\ pending # None => pc[Loop] = "light"
  /\ \/ "light" \in mixed
     \/ pending # None /\ (callback.at # "swap" => lastLight = pending)
     \/ pending = None /\ "light" \in lost
     \/ pending = None /\ topic["light"] = IF callback.at = "swap" THEN callback.light ELSE lastLight

HMSInv ==
  /\ "hms" \in lost \/ topic["hms"] = lastHMS
  /\ entitiesOk /\ "ams" \notin lost => topic["ams"] = TRUE

\* The last callback that is due tells how the printer's connection is.
EventsInv == events # <<>> => events[Len(events)] = printerUp

\* When none is due the topic tells it, or Start will.
OnlineInv ==
  /\ pc[Loop] = "ended" => linked = "closed"
  /\ "online" \in mixed \/
     CASE pc[Loop] = "start" ->
            events = <<>> /\ ~printerUp => "online" \in lost \/ topic["online"] = FALSE
       [] pc[Loop] = "greet" -> events = <<>> => printerUp
       [] pc[Loop] \in {"disconnect", "ended"} -> "online" \in lost \/ topic["online"] = FALSE
       [] OTHER -> events = <<>> => "online" \in lost \/ topic["online"] = printerUp

Inv == TypeInv /\ ShownInv /\ AvailabilityInv /\ LightInv /\ HMSInv /\ EventsInv /\ OnlineInv

-----------------------------------------------------------------------------
LEMMA ShownStep ==
  ASSUME TypeInv, ShownInv, [Next]_vars
  PROVE  ShownInv'
<1>0. TypeOK /\ HasStatus
  BY DEF TypeInv
<1> USE OwnPlaces, <1>0
<1>1. CASE PublishState
  <2>1. pc[Loop] = "state" /\ pc'[Loop] = "availability"
    BY <1>1
  <2>2. status \in Reports /\ status' = status
    BY <1>1, <2>1 DEF HasStatus, Working, PublishState
  <2>3. lastPayload' = PayloadOf(status)
    BY <1>1 DEF PublishState, MustPublish
  <2>4. lastPayload' # None /\ lastPayload'.stage = status.stage
        /\ Distance(lastPayload'.temp, status.temp) < Delta
    BY <2>2, <2>3, FilteredType
  <2>5. shown' # None => shown' = lastPayload'
    BY <1>1 DEF PublishState, ShownInv
  <2> QED BY <2>2, <2>4, <2>5 DEF ShownInv, Distance
<1>2. CASE PublishAvailability
  BY <1>2 DEF PublishAvailability, ShownInv, Distance
<1>3. CASE OwnStep /\ ~PublishState /\ ~PublishAvailability
  <2>1. UNCHANGED <<shown, lastPayload>>
    BY <1>3 DEF OwnStep, StartChecks, StartGreets, ReceiveStatus, PublishAMSDiscovery, PublishStateFails,
                PublishLightAndHMS, CloseOffline, CloseDisconnects, brokerVars, loopVars
  <2>2. pc'[Loop] \notin {"availability", "light"}
    BY <1>3 DEF OwnStep
  <2> QED BY <2>1, <2>2 DEF ShownInv
<1>4. CASE LoudStep
  <2>1. pc' = pc /\ status' = status
    BY <1>4, LoudPlaces
  <2>2. lastPayload' = lastPayload /\ (shown' = shown \/ shown' = None)
    BY <1>4 DEF LoudStep, ReceiveLight, CallbackPublishes, CallbackSwaps, ConnectionCallback, PrinterFlips,
                LinkBreaks, LinkRestored, HARestarts, brokerVars, loopVars
  <2> QED BY <2>1, <2>2 DEF ShownInv, Distance
<1>5. CASE Quiet
  BY <1>5 DEF Quiet, seen, Announcing, ShownInv, Distance
<1> QED BY <1>1, <1>2, <1>3, <1>4, <1>5, LoudOrQuiet

LEMMA TopicNames == Topics = {"light", "availability", "hms", "online", "ams"}
BY DEF Topics

\* Topics none of whose messages a step publishes.
Kept(t) == topic'[t] = topic[t] /\ (t \in lost' <=> t \in lost)

\* Only its own steps change a topic.
LEMMA LoudTopics ==
  ASSUME TypeOK, LoudStep
  PROVE  /\ Kept("availability") /\ Kept("ams")
         /\ ~HARestarts => Kept("hms")
         /\ ~CallbackPublishes => Kept("light")
<1> USE TopicNames
<1>1. CASE CallbackPublishes
  BY <1>1, PublishType DEF CallbackPublishes, Kept
<1>2. CASE ConnectionCallback
  BY <1>2, PublishType DEF ConnectionCallback, Kept
<1>3. CASE LinkBreaks
  BY <1>3 DEF LinkBreaks, Kept, TypeOK
<1>4. CASE HARestarts
  BY <1>4 DEF HARestarts, Kept, TypeOK
<1>5. CASE ReceiveLight \/ CallbackSwaps \/ PrinterFlips \/ LinkRestored
  BY <1>5 DEF ReceiveLight, CallbackSwaps, PrinterFlips, LinkRestored, Kept, brokerVars, ghostVars
<1> QED BY <1>1, <1>2, <1>3, <1>4, <1>5 DEF LoudStep

LEMMA AvailabilityStep ==
  ASSUME TypeInv, ShownInv, AvailabilityInv, [Next]_vars
  PROVE  AvailabilityInv'
<1>0. TypeOK
  BY DEF TypeInv
<1> USE OwnPlaces, TopicNames, <1>0
<1>1. CASE PublishAvailability
  <2>1. "availability" \in lost' \/ topic'["availability"] = lastAvail'
    BY <1>1, PublishType DEF PublishAvailability, AvailabilityInv
  <2>2. lastAvail' = Available(lastPayload'.stage)
    BY <1>1 DEF PublishAvailability, ShownInv
  <2> QED BY <2>1, <2>2 DEF AvailabilityInv, Available
<1>2. CASE PublishState
  BY <1>2 DEF PublishState, AvailabilityInv, ghostVars
<1>3. CASE OwnStep /\ ~PublishAvailability /\ ~PublishState
  <2>1. UNCHANGED <<lastPayload, lastAvail>>
    BY <1>3 DEF OwnStep, StartChecks, StartGreets, ReceiveStatus, PublishAMSDiscovery, PublishStateFails,
                PublishLightAndHMS, CloseOffline, CloseDisconnects, brokerVars, loopVars
  <2>2. pc[Loop] # "availability" /\ pc'[Loop] # "availability"
    BY <1>3 DEF OwnStep
  <2>3. Kept("availability")
    <3>1. CASE StartGreets
      BY <3>1, PublishType DEF StartGreets, Kept
    <3>2. CASE CloseOffline
      BY <3>2, PublishType DEF CloseOffline, Kept
    <3>3. CASE PublishAMSDiscovery
      BY <3>3, PublishType DEF PublishAMSDiscovery, Kept
    <3>4. CASE PublishLightAndHMS
      BY <3>4 DEF PublishLightAndHMS, Kept, TypeOK
    <3>5. CASE StartChecks \/ ReceiveStatus \/ PublishStateFails \/ CloseDisconnects
      BY <3>5 DEF StartChecks, ReceiveStatus, PublishStateFails, CloseDisconnects, Kept, brokerVars, ghostVars
    <3> QED BY <1>3, <3>1, <3>2, <3>3, <3>4, <3>5 DEF OwnStep
  <2> QED BY <2>1, <2>2, <2>3 DEF AvailabilityInv, Available, Kept
<1>4. CASE LoudStep
  <2>1. pc' = pc /\ UNCHANGED <<lastPayload, lastAvail>>
    BY <1>4 DEF LoudStep, ReceiveLight, CallbackPublishes, CallbackSwaps, ConnectionCallback, PrinterFlips,
                LinkBreaks, LinkRestored, HARestarts, loopVars
  <2> QED BY <1>4, <2>1, LoudTopics DEF AvailabilityInv, Available, Kept
<1>5. CASE Quiet
  BY <1>5 DEF Quiet, seen, Announcing, AvailabilityInv, Available
<1> QED BY <1>1, <1>2, <1>3, <1>4, <1>5, LoudOrQuiet

LEMMA HMSStep ==
  ASSUME TypeInv, HMSInv, [Next]_vars
  PROVE  HMSInv'
<1>0. TypeOK
  BY DEF TypeInv
<1> USE TopicNames, <1>0
<1>1. CASE PublishLightAndHMS
  BY <1>1 DEF PublishLightAndHMS, HMSInv, TypeOK
<1>2. CASE PublishAMSDiscovery
  BY <1>2, PublishType DEF PublishAMSDiscovery, HMSInv
<1>3. CASE OwnStep /\ ~PublishLightAndHMS /\ ~PublishAMSDiscovery
  <2>1. UNCHANGED <<lastHMS, entitiesOk>>
    BY <1>3 DEF OwnStep, StartChecks, StartGreets, ReceiveStatus, PublishStateFails, PublishState,
                PublishAvailability, CloseOffline, CloseDisconnects, loopVars
  <2>2. Kept("hms") /\ Kept("ams")
    <3>1. CASE StartGreets
      BY <3>1, PublishType DEF StartGreets, Kept
    <3>2. CASE CloseOffline
      BY <3>2, PublishType DEF CloseOffline, Kept
    <3>3. CASE PublishAvailability
      BY <3>3, PublishType DEF PublishAvailability, Kept
    <3>4. CASE StartChecks \/ ReceiveStatus \/ PublishStateFails \/ PublishState \/ CloseDisconnects
      BY <3>4 DEF StartChecks, ReceiveStatus, PublishStateFails, PublishState, CloseDisconnects, Kept,
                  brokerVars, ghostVars
    <3> QED BY <1>3, <3>1, <3>2, <3>3, <3>4 DEF OwnStep
  <2> QED BY <2>1, <2>2 DEF HMSInv, Kept
<1>4. CASE LoudStep
  <2>1. UNCHANGED <<lastHMS, entitiesOk>>
    BY <1>4 DEF LoudStep, ReceiveLight, CallbackPublishes, CallbackSwaps, ConnectionCallback, PrinterFlips,
                LinkBreaks, LinkRestored, HARestarts, loopVars
  <2>2. HARestarts => "hms" \in lost'
    BY DEF HARestarts
  <2> QED BY <1>4, <2>1, <2>2, LoudTopics DEF HMSInv, Kept
<1>5. CASE Quiet
  BY <1>5 DEF Quiet, seen, HMSInv
<1> QED BY <1>1, <1>2, <1>3, <1>4, <1>5, LoudOrQuiet

LEMMA LightStep ==
  ASSUME TypeInv, LightInv, [Next]_vars
  PROVE  LightInv'
<1>0. TypeOK /\ HasStatus
  BY DEF TypeInv
<1> USE OwnPlaces, TopicNames, <1>0
<1>1. CASE PublishAvailability
  <2>1. pc'[Loop] = "light" /\ pending = None /\ Kept("light")
    <3>1. pc'[Loop] = "light" /\ pending = None
      BY <1>1 DEF LightInv
    <3>2. Kept("light")
      BY <1>1, PublishType DEF PublishAvailability, Kept
    <3> QED BY <3>1, <3>2
  <2>2. callback' = callback /\ mixed' = mixed
    BY <1>1 DEF PublishAvailability
  <2>3. CASE status.light \notin {None, lastLight}
    BY <1>1, <2>1, <2>2, <2>3 DEF PublishAvailability, LightInv
  <2>4. CASE status.light \in {None, lastLight}
    <3>1. lastLight' = lastLight /\ pending' = pending
      BY <1>1, <2>4 DEF PublishAvailability
    <3> QED BY <2>1, <2>2, <3>1 DEF LightInv, Kept
  <2> QED BY <2>3, <2>4
<1>2. CASE PublishLightAndHMS
  <2>1. pending' = None /\ callback' = callback /\ lastLight' = lastLight
    BY <1>2 DEF PublishLightAndHMS
  <2>2. CASE pending = None
    <3>1. Kept("light") /\ mixed' = mixed
      BY <1>2, <2>2 DEF PublishLightAndHMS, Kept, TypeOK
    <3> QED BY <2>1, <2>2, <3>1 DEF LightInv, Kept
  <2>3. CASE pending # None
    <3>1. "light" \in lost' \/ topic'["light"] = pending
      BY <1>2, <2>3 DEF PublishLightAndHMS, TypeOK
    <3>2. mixed' = IF callback.at = "swap" THEN mixed \cup {"light"} ELSE mixed
      BY <1>2, <2>3 DEF PublishLightAndHMS
    <3> QED BY <2>1, <2>3, <3>1, <3>2 DEF LightInv
  <2> QED BY <2>2, <2>3
<1>3. CASE OwnStep /\ ~PublishAvailability /\ ~PublishLightAndHMS
  <2>1. UNCHANGED <<pending, lastLight, callback, mixed>>
    BY <1>3 DEF OwnStep, StartChecks, StartGreets, ReceiveStatus, PublishAMSDiscovery, PublishStateFails,
                PublishState, CloseOffline, CloseDisconnects, loopVars, ghostVars
  <2>2. pc[Loop] # "light"
    BY <1>3 DEF OwnStep
  <2>3. Kept("light")
    <3>1. CASE StartGreets
      BY <3>1, PublishType DEF StartGreets, Kept
    <3>2. CASE CloseOffline
      BY <3>2, PublishType DEF CloseOffline, Kept
    <3>3. CASE PublishAMSDiscovery
      BY <3>3, PublishType DEF PublishAMSDiscovery, Kept
    <3>4. CASE StartChecks \/ ReceiveStatus \/ PublishStateFails \/ PublishState \/ CloseDisconnects
      BY <3>4 DEF StartChecks, ReceiveStatus, PublishStateFails, PublishState, CloseDisconnects, Kept,
                  brokerVars, ghostVars
    <3> QED BY <1>3, <3>1, <3>2, <3>3, <3>4 DEF OwnStep
  <2> QED BY <2>1, <2>2, <2>3 DEF LightInv, Kept
<1>4. CASE LoudStep
  <2>0. pc' = pc /\ pending' = pending
    BY <1>4 DEF LoudStep, ReceiveLight, CallbackPublishes, CallbackSwaps, ConnectionCallback, PrinterFlips,
                LinkBreaks, LinkRestored, HARestarts, loopVars
  <2>c. callback \in [at : {"idle", "publish", "swap"}, light : Lights]
    BY DEF TypeOK
  <2>1. CASE CallbackPublishes
    <3>1. callback'.at = "swap" /\ callback'.light = callback.light
      BY <2>1, <2>c DEF CallbackPublishes
    <3>2. "light" \in lost' \/ topic'["light"] = callback.light
      BY <2>1, PublishType DEF CallbackPublishes
    <3>3. mixed' = IF pending # None THEN mixed \cup {"light"} ELSE mixed
      BY <2>1 DEF CallbackPublishes
    <3> QED BY <2>0, <3>1, <3>2, <3>3 DEF LightInv
  <2>2. CASE CallbackSwaps
    <3>1. callback.at = "swap" /\ callback'.at = "idle" /\ lastLight' = callback.light
      BY <2>2 DEF CallbackSwaps
    <3>2. mixed' = IF pending # None THEN mixed \cup {"light"} ELSE mixed
      BY <2>2 DEF CallbackSwaps
    <3>3. Kept("light")
      BY <2>2 DEF CallbackSwaps, Kept, brokerVars
    <3> QED BY <2>0, <3>1, <3>2, <3>3 DEF LightInv, Kept
  <2>3. CASE ~CallbackPublishes /\ ~CallbackSwaps
    <3>1. Kept("light")
      BY <1>4, <2>3, LoudTopics
    <3>2. lastLight' = lastLight /\ ("light" \in mixed => "light" \in mixed')
      BY <1>4, <2>3 DEF LoudStep, ReceiveLight, ConnectionCallback, PrinterFlips, LinkBreaks, LinkRestored,
                        HARestarts, ghostVars
    <3>3. callback' = callback \/ (callback.at = "idle" /\ callback'.at = "publish")
      BY <1>4, <2>3 DEF LoudStep, ReceiveLight, ConnectionCallback, PrinterFlips, LinkBreaks, LinkRestored,
                        HARestarts
    <3> QED BY <2>0, <3>1, <3>2, <3>3 DEF LightInv, Kept
  <2> QED BY <2>1, <2>2, <2>3
<1>5. CASE Quiet
  BY <1>5 DEF Quiet, seen, Announcing, LightInv
<1> QED BY <1>1, <1>2, <1>3, <1>4, <1>5, LoudOrQuiet

LEMMA EventsStep ==
  ASSUME TypeInv, EventsInv, [Next]_vars
  PROVE  EventsInv'
<1>0. TypeOK /\ events \in Seq(BOOLEAN)
  BY DEF TypeInv, TypeOK
<1>1. CASE ConnectionCallback
  <2>1. events # <<>> /\ events' = Tail(events) /\ printerUp' = printerUp
    BY <1>1 DEF ConnectionCallback
  <2>2. events' # <<>> => events'[Len(events')] = events[Len(events)]
    BY <1>0, <2>1
  <2> QED BY <2>1, <2>2 DEF EventsInv
<1>2. CASE PrinterFlips
  <2>1. events' = Append(events, printerUp')
    BY <1>2 DEF PrinterFlips
  <2>2. Len(events') = Len(events) + 1 /\ events'[Len(events) + 1] = printerUp'
    BY <1>0, <2>1
  <2> QED BY <2>2 DEF EventsInv
<1>3. CASE OwnStep \/ (LoudStep /\ ~ConnectionCallback /\ ~PrinterFlips) \/ Quiet
  <2>1. UNCHANGED <<events, printerUp>>
    BY <1>3 DEF OwnStep, StartChecks, StartGreets, ReceiveStatus, PublishAMSDiscovery, PublishStateFails,
                PublishState, PublishAvailability, PublishLightAndHMS, CloseOffline, CloseDisconnects,
                LoudStep, ReceiveLight, CallbackPublishes, CallbackSwaps, LinkBreaks, LinkRestored, HARestarts,
                Quiet, seen, envVars
  <2> QED BY <2>1 DEF EventsInv
<1> QED BY <1>0, <1>1, <1>2, <1>3, LoudOrQuiet

LEMMA OnlineStep ==
  ASSUME TypeInv, EventsInv, OnlineInv, [Next]_vars
  PROVE  OnlineInv'
<1>0. TypeOK /\ events \in Seq(BOOLEAN) /\ printerUp \in BOOLEAN /\ linked \in {"up", "broken", "closed"}
  BY DEF TypeInv, TypeOK
<1> USE OwnPlaces, TopicNames, <1>0
<1>1. CASE OwnStep
  <2>1. UNCHANGED <<events, printerUp>> /\ (~CloseDisconnects => linked' = linked)
    BY <1>1 DEF OwnStep, StartChecks, StartGreets, ReceiveStatus, PublishAMSDiscovery, PublishStateFails,
                PublishState, PublishAvailability, PublishLightAndHMS, CloseOffline, CloseDisconnects, envVars
  <2>2. "online" \in mixed => "online" \in mixed'
    BY <1>1 DEF OwnStep, StartChecks, StartGreets, ReceiveStatus, PublishAMSDiscovery, PublishStateFails,
                PublishState, PublishAvailability, PublishLightAndHMS, CloseOffline, CloseDisconnects, ghostVars
  <2>3. ~StartGreets /\ ~CloseOffline => Kept("online")
    <3>1. CASE PublishAMSDiscovery
      BY <3>1, PublishType DEF PublishAMSDiscovery, Kept
    <3>2. CASE PublishAvailability
      BY <3>2, PublishType DEF PublishAvailability, Kept
    <3>3. CASE PublishLightAndHMS
      BY <3>3 DEF PublishLightAndHMS, Kept, TypeOK
    <3>4. CASE StartChecks \/ ReceiveStatus \/ PublishStateFails \/ PublishState \/ CloseDisconnects
      BY <3>4 DEF StartChecks, ReceiveStatus, PublishStateFails, PublishState, CloseDisconnects, Kept,
                  brokerVars, ghostVars
    <3> QED BY <1>1, <3>1, <3>2, <3>3, <3>4 DEF OwnStep
  <2>4. CASE StartChecks
    BY <2>1, <2>2, <2>3, <2>4 DEF OnlineInv, Kept
  <2>5. CASE StartGreets
    <3>1. "online" \in lost' \/ topic'["online"] = TRUE
      BY <2>5, PublishType DEF StartGreets
    <3> QED BY <2>1, <2>2, <2>5, <3>1 DEF OnlineInv
  <2>6. CASE CloseOffline
    <3>1. "online" \in lost' \/ topic'["online"] = FALSE
      BY <2>6, PublishType DEF CloseOffline
    <3> QED BY <2>1, <2>2, <2>6, <3>1 DEF OnlineInv
  <2>7. CASE CloseDisconnects
    <3>1. linked' = "closed"
      BY <2>7 DEF CloseDisconnects
    <3> QED BY <2>1, <2>2, <2>3, <2>7, <3>1 DEF OnlineInv, Kept
  <2>8. CASE ~StartChecks /\ ~StartGreets /\ ~CloseOffline /\ ~CloseDisconnects
    <3>1. /\ pc[Loop] \notin {"start", "greet", "disconnect", "ended"}
          /\ pc'[Loop] \notin {"start", "greet", "disconnect", "ended"}
      BY <1>1, <2>8 DEF OwnStep
    <3> QED BY <2>1, <2>2, <2>3, <2>8, <3>1 DEF OnlineInv, Kept
  <2> QED BY <2>4, <2>5, <2>6, <2>7, <2>8
<1>2. CASE LoudStep
  <2>0. pc' = pc
    BY <1>2, LoudPlaces
  <2>1. CASE ConnectionCallback
    <3>1. /\ events # <<>> /\ events' = Tail(events)
          /\ UNCHANGED <<printerUp, linked>>
          /\ mixed' = IF pc[Loop] \in {"greet", "disconnect"} THEN mixed \cup {"online"} ELSE mixed
      BY <2>1 DEF ConnectionCallback
    <3>2. events' = <<>> => Head(events) = printerUp
      <4>1. events[Len(events)] = printerUp
        BY <3>1 DEF EventsInv
      <4>2. Len(Tail(events)) = Len(events) - 1 /\ Head(events) = events[1]
        BY <3>1, HeadTailProperties
      <4>3. events' = <<>> => Len(events) = 1
        <5>1. SUFFICES ASSUME Tail(events) = <<>> PROVE Len(events) = 1
          BY <3>1
        <5>2. Len(Tail(events)) = 0
          BY <5>1, EmptySeq
        <5>3. Len(events) \in Nat
          OBVIOUS
        <5> QED BY <4>2, <5>2, <5>3
      <4> QED BY <4>1, <4>2, <4>3
    <3>3. "online" \in lost' \/ topic'["online"] = Head(events)
      BY <2>1, PublishType DEF ConnectionCallback
    <3>4. CASE pc[Loop] \in {"greet", "disconnect"}
      BY <2>0, <3>1, <3>4 DEF OnlineInv
    <3>5. CASE pc[Loop] = "ended"
      <4>1. linked = "closed"
        BY <3>5 DEF OnlineInv
      <4>2. "online" \in lost'
        BY <2>1, <4>1 DEF ConnectionCallback, Publish, Connected
      <4> QED BY <2>0, <3>1, <3>5, <4>1, <4>2 DEF OnlineInv
    <3>6. CASE pc[Loop] \notin {"greet", "disconnect", "ended"}
      BY <2>0, <3>1, <3>2, <3>3, <3>6 DEF OnlineInv
    <3> QED BY <3>4, <3>5, <3>6
  <2>2. CASE PrinterFlips
    <3>1. events' = Append(events, printerUp')
      BY <2>2 DEF PrinterFlips
    <3>2. events' # <<>>
      <4>1. Len(events') = Len(events) + 1
        BY <3>1
      <4>2. Len(events) \in Nat
        OBVIOUS
      <4> QED BY <4>1, <4>2
    <3>3. Kept("online") /\ UNCHANGED <<mixed, linked>>
      BY <2>2 DEF PrinterFlips, Kept, brokerVars, ghostVars
    <3> QED BY <2>0, <3>2, <3>3 DEF OnlineInv, Kept
  <2>3. CASE LinkBreaks
    <3>1. "online" \in lost' /\ linked # "closed"
      BY <2>3 DEF LinkBreaks, Connected
    <3>2. UNCHANGED <<mixed, events, printerUp>>
      BY <2>3 DEF LinkBreaks
    <3> QED BY <2>0, <3>1, <3>2 DEF OnlineInv
  <2>4. CASE LinkRestored
    <3>1. Kept("online") /\ UNCHANGED <<mixed, events, printerUp>> /\ linked # "closed"
      BY <2>4 DEF LinkRestored, Kept, brokerVars, ghostVars
    <3> QED BY <2>0, <3>1 DEF OnlineInv, Kept
  <2>5. CASE ReceiveLight \/ CallbackPublishes \/ CallbackSwaps \/ HARestarts
    <3>1. UNCHANGED <<events, printerUp, linked>> /\ ("online" \in mixed => "online" \in mixed')
      BY <2>5 DEF ReceiveLight, CallbackPublishes, CallbackSwaps, HARestarts, envVars, ghostVars
    <3>2. Kept("online")
      <4>1. CASE CallbackPublishes
        BY <4>1, PublishType DEF CallbackPublishes, Kept
      <4>2. CASE HARestarts
        BY <4>2 DEF HARestarts, Kept, TypeOK
      <4>3. CASE ReceiveLight \/ CallbackSwaps
        BY <4>3 DEF ReceiveLight, CallbackSwaps, Kept, brokerVars, ghostVars
      <4> QED BY <2>5, <4>1, <4>2, <4>3
    <3> QED BY <2>0, <3>1, <3>2 DEF OnlineInv, Kept
  <2> QED BY <1>2, <2>1, <2>2, <2>3, <2>4, <2>5 DEF LoudStep
<1>3. CASE Quiet
  BY <1>3 DEF Quiet, seen, Announcing, OnlineInv
<1> QED BY <1>1, <1>2, <1>3, LoudOrQuiet

LEMMA InvInit == Init => Inv
<1> SUFFICES ASSUME Init PROVE Inv
  OBVIOUS
<1>1. /\ pc = [p \in Publishers |-> IF p = Loop THEN "start" ELSE "idle"]
      /\ topic = [t \in Topics |-> IF t = "online" THEN FALSE ELSE None]
  BY DEF Init
<1>2. /\ shown = None /\ lastPayload = None /\ lastAvail = None /\ lastLight = None /\ pending = None
      /\ lastHMS = None /\ entitiesOk = FALSE /\ events = <<>> /\ callback.at = "idle" /\ lost = {} /\ mixed = {}
  BY DEF Init
<1>3. pc[Loop] = "start"
  BY <1>1, PublishersDistinct
<1>4. /\ topic["light"] = None /\ topic["availability"] = None /\ topic["hms"] = None
      /\ topic["online"] = FALSE
  BY <1>1, TopicNames
<1>5. TypeInv
  BY TypeInit, HasStatusInit DEF TypeInv
<1>6. ShownInv /\ AvailabilityInv /\ LightInv /\ HMSInv /\ EventsInv
  BY <1>2, <1>3, <1>4 DEF ShownInv, AvailabilityInv, LightInv, HMSInv, EventsInv
<1>7. OnlineInv
  BY <1>2, <1>3, <1>4 DEF OnlineInv
<1> QED BY <1>5, <1>6, <1>7 DEF Inv

LEMMA Invariant == Spec => []Inv
<1>1. Init => Inv
  BY InvInit
<1>2. Inv /\ [Next]_vars => Inv'
  BY TypeStep, ShownStep, AvailabilityStep, LightStep, HMSStep, EventsStep, OnlineStep DEF Inv
<1> QED BY <1>1, <1>2, PTL DEF Spec

\* However small changes add up and however often a publish fails, what Home
\* Assistant shows is less than Delta from the last status that was published,
\* for any temperatures and any Delta (publishState, filterHysteresisFloat).
THEOREM ShownIsCloseCorrect == Spec => []ShownIsClose
<1>1. Inv => ShownIsClose
  BY DEF Inv, ShownInv, ShownIsClose
<1> QED BY <1>1, Invariant, PTL

\* Every topic that is published on a change only agrees with what the bridge has
\* recorded, and online with the printer's connection, for any number of syncers,
\* inputs and faults (publishActionAvailability, swapLastLight, Start, Close).
THEOREM TopicsAgreeCorrect == Spec => []TopicsAgree
<1>1. Inv => ChangesAgree
  BY DEF Inv, AvailabilityInv, LightInv, HMSInv, ChangesAgree
<1>2. Inv => OnlineAgrees
  BY DEF Inv, TypeInv, TypeOK, OnlineInv, OnlineAgrees
<1>3. Inv => TopicsAgree
  BY <1>1, <1>2 DEF TopicsAgree
<1> QED BY <1>3, Invariant, PTL
=============================================================================
