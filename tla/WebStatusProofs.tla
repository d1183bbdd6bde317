-------------------------- MODULE WebStatusProofs ---------------------------
(***************************************************************************)
(* Proofs about WebStatus, for any number of pages, fetches, files and     *)
(* statuses: the type invariant, that pages follow what they are sent,     *)
(* that a shown download is one of a fetch that has not ended, and that    *)
(* the fetches implement FetchBudget.                                      *)
(***************************************************************************)
EXTENDS WebStatus, TLAPS, SequenceTheorems

Working == {"download", "copy", "parse", "failed", "end"}
Unfinished == {"download", "copy", "parse", "failed"}

\* What the fetches keep to: one that is past its check owns the flag of its file ...
Owned == \A f \in Fetchers : fetcher[f].at \in Working => Job(f) \in fetching

\* ... alone ...
Alone == \A f, g \in Fetchers :
  f # g /\ fetcher[f].at \in Working /\ fetcher[g].at \in Working => Job(f) # Job(g)

\* ... and has not used up the failures of the file; ...
Below == \A f \in Fetchers : fetcher[f].at \in Unfinished => failed[Job(f)] < MaxRetries

\* ... and a download that is shown is a candidate of one of them.
ShownBy(f) == fetcher[f].at \in Working /\ \E i \in 1..fetcher[f].try : download = Candidates[Job(f)][i]

Shown == download # None => \E f \in Fetchers : ShownBy(f)

FetchInv == Owned /\ Alone /\ Below /\ Shown

-----------------------------------------------------------------------------
(* Types. *)

LEMMA StatusSent ==
  ASSUME TypeOK, NEW i \in 1..Len(Sends)
  PROVE  Sends[i] \in Status
<1>1. scenario \in [sends : Seq(Status), pages : SUBSET Streams, uploads : Nat]
  BY ScenarioAssumption DEF TypeOK
<1>2. scenario.sends \in Seq(Status)
  BY <1>1
<1> QED BY <1>2 DEF Sends

LEMMA CandidatesType ==
  ASSUME NEW j \in Jobs
  PROVE  /\ Candidates[j] \in Seq(Names)
         /\ Len(Candidates[j]) \in Nat /\ Len(Candidates[j]) > 0
         /\ DOMAIN Candidates[j] = 1..Len(Candidates[j])
<1>1. Candidates[j] \in Seq(Names) /\ Len(Candidates[j]) > 0
  BY JobAssumption
<1> QED BY <1>1, LenProperties

LEMMA FoundType ==
  ASSUME TypeOK, NEW names
  PROVE  Found(names) \in Names \cup {None}
<1>1. status.job \in Jobs \cup {None}
  BY DEF TypeOK, Status
<1> QED BY <1>1, JobAssumption DEF Found

\* A payload has the keys of a status.
LEMMA PayloadType ==
  ASSUME TypeOK
  PROVE  IsPayload(Payload)
<1>1. status.keys \subseteq Keys
  BY DEF TypeOK, Status
<1>2. DOMAIN Payload = Always \cup status.keys
  BY DEF Payload, PayloadOf
<1> QED BY <1>1, <1>2 DEF IsPayload

\* Building a payload keeps what it touches well-typed.
LEMMA BuildType ==
  ASSUME TypeOK, Build
  PROVE  /\ previous' \in Actives \cup Terminals \cup {""}
         /\ current' \in Names \cup {None}
         /\ cache' \subseteq Names
         /\ fetcher' \in [Fetchers -> FetchType]
         /\ \A f \in Fetchers : fetcher'[f].at # "idle" =>
              /\ fetcher'[f].job \in Jobs
              /\ fetcher'[f].try \in DOMAIN Candidates[fetcher'[f].job]
<1>1. previous' \in Actives \cup Terminals \cup {""}
  BY DEF TypeOK, Build, Status
<1>2. cache' \subseteq Names
  BY DEF TypeOK, Build, Cache1
<1>3. Found(Cache1) \in Names \cup {None}
  BY FoundType
<1>4. current' \in Names \cup {None}
  BY <1>3 DEF TypeOK, Build, Current1, Current2
<1>5. /\ fetcher' \in [Fetchers -> FetchType]
      /\ \A f \in Fetchers : fetcher'[f].at # "idle" =>
           /\ fetcher'[f].job \in Jobs
           /\ fetcher'[f].try \in DOMAIN Candidates[fetcher'[f].job]
  <2>1. CASE ~(MustFetch /\ Idle # {})
    BY <2>1 DEF Build, Spawn, TypeOK
  <2>2. CASE MustFetch /\ Idle # {}
    <3>1. status.job \in Jobs
      BY <2>2 DEF MustFetch, TypeOK, Status
    <3>2. 1 \in DOMAIN Candidates[status.job]
      BY <3>1, CandidatesType
    <3>3. PICK f \in Idle :
            fetcher' = [fetcher EXCEPT ![f] = [at |-> "check", job |-> status.job, try |-> 1]]
      BY <2>2 DEF Build, Spawn
    <3>4. [at |-> "check", job |-> status.job, try |-> 1] \in FetchType
      BY <3>1 DEF FetchType
    <3>5. f \in Fetchers /\ fetcher \in [Fetchers -> FetchType]
      BY DEF Idle, TypeOK
    <3>6. fetcher' \in [Fetchers -> FetchType]
      BY <3>3, <3>4, <3>5
    <3>7. \A g \in Fetchers : fetcher'[g] = IF g = f THEN [at |-> "check", job |-> status.job, try |-> 1]
                                            ELSE fetcher[g]
      BY <3>3, <3>5
    <3>8. \A g \in Fetchers \ {f} : fetcher'[g] = fetcher[g]
      BY <3>7
    <3>9. fetcher'[f].job = status.job /\ fetcher'[f].try = 1
      BY <3>5, <3>7
    <3> QED BY <3>1, <3>2, <3>6, <3>8, <3>9 DEF TypeOK
  <2> QED BY <2>1, <2>2
<1> QED BY <1>1, <1>2, <1>4, <1>5

\* A fetch that goes on keeps its job; place is where it is then.
LEMMA StepType ==
  ASSUME TypeOK, NEW f \in Fetchers, fetcher[f].at # "idle",
         NEW place \in {"download", "copy", "parse", "failed", "end"}, Step(f, place)
  PROVE  /\ fetcher' \in [Fetchers -> FetchType]
         /\ \A g \in Fetchers : fetcher'[g].at # "idle" =>
              /\ fetcher'[g].job \in Jobs
              /\ fetcher'[g].try \in DOMAIN Candidates[fetcher'[g].job]
<1>1. /\ fetcher \in [Fetchers -> FetchType]
      /\ \A g \in Fetchers : fetcher[g].at # "idle" =>
           fetcher[g].job \in Jobs /\ fetcher[g].try \in DOMAIN Candidates[fetcher[g].job]
  BY DEF TypeOK
<1>2. \A g \in Fetchers : fetcher'[g] = IF g = f THEN [fetcher[f] EXCEPT !.at = place] ELSE fetcher[g]
  BY <1>1 DEF Step
<1>3. fetcher' \in [Fetchers -> FetchType]
  BY <1>1 DEF Step, FetchType
<1>4. fetcher'[f].job = fetcher[f].job /\ fetcher'[f].try = fetcher[f].try
  BY <1>1, <1>2 DEF FetchType
<1> QED BY <1>1, <1>2, <1>3, <1>4

\* The next candidate of a job is one of its candidates.
LEMMA NextCandidateType ==
  ASSUME TypeOK, NEW f \in Fetchers, fetcher[f].at # "idle", NextCandidate(f)
  PROVE  /\ fetcher' \in [Fetchers -> FetchType]
         /\ \A g \in Fetchers : fetcher'[g].at # "idle" =>
              /\ fetcher'[g].job \in Jobs
              /\ fetcher'[g].try \in DOMAIN Candidates[fetcher'[g].job]
<1>1. CASE ~(fetcher[f].try < Len(Candidates[Job(f)]))
  BY <1>1, StepType DEF NextCandidate
<1>2. CASE fetcher[f].try < Len(Candidates[Job(f)])
  <2>1. /\ fetcher \in [Fetchers -> FetchType]
        /\ \A g \in Fetchers : fetcher[g].at # "idle" =>
             fetcher[g].job \in Jobs /\ fetcher[g].try \in DOMAIN Candidates[fetcher[g].job]
    BY DEF TypeOK
  <2> DEFINE next == [at |-> "download", job |-> Job(f), try |-> fetcher[f].try + 1]
  <2>2. next \in FetchType /\ next.job = Job(f) /\ next.try = fetcher[f].try + 1
    <3>1. Job(f) \in Jobs /\ fetcher[f].try \in Nat
      BY <2>1, JobAssumption DEF FetchType, Job
    <3> QED BY <3>1 DEF FetchType
  <2>3. fetcher' = [fetcher EXCEPT ![f] = next]
    BY <1>2 DEF NextCandidate
  <2>4. fetcher' \in [Fetchers -> FetchType]
    BY <2>1, <2>2, <2>3
  <2>5. \A g \in Fetchers : fetcher'[g] = IF g = f THEN next ELSE fetcher[g]
    BY <2>1, <2>3
  <2>6. fetcher[f].try + 1 \in DOMAIN Candidates[Job(f)]
    <3>1. Job(f) \in Jobs /\ fetcher[f].try \in DOMAIN Candidates[Job(f)]
      BY <2>1 DEF Job
    <3> QED BY <1>2, <3>1, CandidatesType
  <2> HIDE DEF next
  <2> QED BY <2>1, <2>2, <2>4, <2>5, <2>6 DEF Job
<1> QED BY <1>1, <1>2

\* What TypeOK says of the scenario's statuses.
LEMMA SendsType ==
  ASSUME scenario \in Scenarios
  PROVE  /\ Sends \in Seq(Status) /\ Len(Sends) \in Nat /\ Len(Sends) > 0
         /\ DOMAIN Sends = 1..Len(Sends)
         /\ scenario.pages \subseteq Streams /\ scenario.uploads \in Nat
<1>1. scenario \in [sends : Seq(Status), pages : SUBSET Streams, uploads : Nat]
  BY ScenarioAssumption
<1>2. Sends \in Seq(Status) /\ scenario.pages \subseteq Streams /\ scenario.uploads \in Nat
  BY <1>1 DEF Sends
<1>3. Len(Sends) > 0
  BY ScenarioAssumption DEF Sends
<1> QED BY <1>2, <1>3, LenProperties

LEMMA TypeInit == ASSUME Init PROVE TypeOK
<1>0. /\ scenario \in Scenarios /\ sent = 1 /\ status = Sends[1] /\ uploads = 0 /\ closes = 0
      /\ taken = [s \in Streams |-> 0]
  BY DEF Init
<1>1. /\ Sends \in Seq(Status) /\ Len(Sends) \in Nat /\ Len(Sends) > 0
      /\ 1 \in DOMAIN Sends /\ scenario.uploads \in Nat
  BY <1>0, SendsType
<1>2. status \in Status /\ sent \in 1..Len(Sends)
  BY <1>0, <1>1
<1>3. fetcher \in [Fetchers -> FetchType] /\ \A f \in Fetchers : fetcher[f].at = "idle"
  BY DEF Init, NoFetch, FetchType
<1>4. taken \in [Streams -> 0..Len(Sends)]
  BY <1>0, <1>1
<1>5. /\ stream \in [Streams -> {"closed", "hydrate", "wait", "build"}]
      /\ \A s \in Streams : stream[s] = "closed"
  BY DEF Init
<1>6. uploads \in 0..scenario.uploads /\ closes \in 0..MaxCloses
  BY <1>0, <1>1, BoundAssumption
<1>7. previous \in Actives \cup Terminals \cup {""} /\ current \in Names \cup {None} /\ cache \subseteq Names
  BY DEF Init
<1>8. /\ fetching \subseteq Jobs /\ failed \in [Jobs -> Nat]
      /\ download \in Names \cup {None}
  BY DEF Init
<1>9. scenario \in Scenarios /\ DOMAIN lastMap = Streams /\ DOMAIN page = Streams
  BY DEF Init
<1> QED BY <1>2, <1>3, <1>4, <1>5, <1>6, <1>7, <1>8, <1>9 DEF TypeOK

\* What a fetch leaves alone, and what of it must be shown to stay well-typed.
LEMMA FetchType1 ==
  ASSUME TypeOK, UNCHANGED <<scenario, sent, status, previous, pageVars, uploads>>,
         current' \in Names \cup {None}, cache' \subseteq Names, fetching' \subseteq Jobs,
         failed' \in [Jobs -> Nat], download' \in Names \cup {None},
         fetcher' \in [Fetchers -> FetchType],
         \A g \in Fetchers : fetcher'[g].at # "idle" =>
              /\ fetcher'[g].job \in Jobs
              /\ fetcher'[g].try \in DOMAIN Candidates[fetcher'[g].job]
  PROVE  TypeOK'
BY DEF TypeOK, pageVars, Sends

\* A fetch that has ended.
LEMMA NoFetchType ==
  ASSUME TypeOK, NEW f \in Fetchers, fetcher' = [fetcher EXCEPT ![f] = NoFetch]
  PROVE  /\ fetcher' \in [Fetchers -> FetchType]
         /\ \A g \in Fetchers : fetcher'[g].at # "idle" =>
              /\ fetcher'[g].job \in Jobs
              /\ fetcher'[g].try \in DOMAIN Candidates[fetcher'[g].job]
<1>1. NoFetch \in FetchType /\ NoFetch.at = "idle"
  BY DEF NoFetch, FetchType
<1>2. \A g \in Fetchers : fetcher'[g] = IF g = f THEN NoFetch ELSE fetcher[g]
  BY DEF TypeOK
<1>3. fetcher' \in [Fetchers -> FetchType]
  BY <1>1 DEF TypeOK
<1>4. \A g \in Fetchers \ {f} : fetcher'[g] = fetcher[g]
  BY <1>2
<1>5. fetcher'[f].at = "idle"
  BY <1>1, <1>2
<1> QED BY <1>3, <1>4, <1>5 DEF TypeOK

LEMMA FetchStepType == ASSUME TypeOK, NEW f \in Fetchers, FetchStep(f) PROVE TypeOK'
<1>0. /\ fetcher[f] \in FetchType
      /\ fetcher[f].at # "idle" => Job(f) \in Jobs /\ fetcher[f].try \in DOMAIN Candidates[Job(f)]
  BY DEF TypeOK, Job
<1>1. fetcher[f].at # "idle" => Name(f) \in Names
  <2>1. ASSUME fetcher[f].at # "idle" PROVE Candidates[Job(f)] \in Seq(Names)
    BY <2>1, <1>0, CandidatesType
  <2> QED BY <2>1, <1>0 DEF Name
<1>2. CASE StartFetch(f)
  <2>1. fetcher[f].at # "idle" /\ fetching' \subseteq Jobs
    BY <1>0, <1>2 DEF StartFetch, TypeOK
  <2>2. CASE Job(f) \in fetching \/ failed[Job(f)] >= MaxRetries
    BY <1>2, <2>1, <2>2, NoFetchType, FetchType1 DEF StartFetch, sessionVars, TypeOK
  <2>3. CASE ~(Job(f) \in fetching \/ failed[Job(f)] >= MaxRetries)
    BY <1>2, <2>1, <2>3, StepType, FetchType1 DEF StartFetch, sessionVars, TypeOK
  <2> QED BY <2>2, <2>3
<1>3. CASE DownloadBegins(f)
  BY <1>1, <1>3, StepType, FetchType1 DEF DownloadBegins, sessionVars, TypeOK
<1>4. CASE DownloadFails(f)
  BY <1>4, NextCandidateType, FetchType1 DEF DownloadFails, sessionVars, fetchVars, TypeOK
<1>5. CASE CopyFails(f)
  BY <1>5, NextCandidateType, FetchType1 DEF CopyFails, sessionVars, TypeOK
<1>6. CASE CopyEnds(f)
  BY <1>6, StepType, FetchType1 DEF CopyEnds, sessionVars, TypeOK
<1>7. CASE CountFailure(f)
  <2>1. failed' \in [Jobs -> Nat]
    <3>1. failed' = [failed EXCEPT ![Job(f)] = @ + 1] /\ failed \in [Jobs -> Nat] /\ Job(f) \in Jobs
      BY <1>0, <1>7 DEF CountFailure, TypeOK
    <3> QED BY <3>1
  <2> QED BY <1>7, <2>1, StepType, FetchType1 DEF CountFailure, sessionVars, TypeOK
<1>8. CASE ParseFails(f)
  BY <1>8, StepType, FetchType1 DEF ParseFails, sessionVars, fetchVars, TypeOK
<1>9. CASE UpdateMetadata(f)
  <2>1. Job(f) \in Names /\ Name(f) \in Names
    BY <1>0, <1>1, <1>9, JobAssumption DEF UpdateMetadata
  <2> QED BY <1>9, <2>1, StepType, FetchType1 DEF UpdateMetadata, fetchVars, TypeOK
<1>10. CASE EndFetch(f)
  BY <1>10, NoFetchType, FetchType1 DEF EndFetch, sessionVars, TypeOK
<1> QED BY <1>2, <1>3, <1>4, <1>5, <1>6, <1>7, <1>8, <1>9, <1>10 DEF FetchStep

LEMMA TypeStep == ASSUME TypeOK, [Next]_vars PROVE TypeOK'
<1>0. /\ Sends \in Seq(Status) /\ Len(Sends) \in Nat /\ Len(Sends) > 0
      /\ DOMAIN Sends = 1..Len(Sends) /\ scenario.uploads \in Nat
  BY SendsType DEF TypeOK
<1>1. CASE UNCHANGED vars
  BY <1>1 DEF TypeOK, vars, sessionVars, fetchVars, pageVars, Sends
<1>2. ASSUME NEW s \in Streams, Open(s) PROVE TypeOK'
  <2>1. stream' \in [Streams -> {"closed", "hydrate", "wait", "build"}]
    BY <1>2 DEF Open, TypeOK
  <2>2. taken' \in [Streams -> 0..Len(Sends)]
    <3>1. taken' = [taken EXCEPT ![s] = sent] /\ taken \in [Streams -> 0..Len(Sends)] /\ sent \in 1..Len(Sends)
      BY <1>2 DEF Open, TypeOK
    <3> QED BY <1>0, <3>1
  <2>3. \A t \in Streams : stream'[t] \in {"wait", "build"} => IsPayload(lastMap'[t])
    BY <1>2 DEF Open, TypeOK
  <2> QED BY <1>2, <2>1, <2>2, <2>3 DEF Open, TypeOK, sessionVars, fetchVars, Sends
<1>3. ASSUME NEW s \in Streams, Hydrate(s) PROVE TypeOK'
  <2>1. stream' \in [Streams -> {"closed", "hydrate", "wait", "build"}]
    BY <1>3 DEF Hydrate, TypeOK
  <2>2. \A t \in Streams : stream'[t] \in {"wait", "build"} => IsPayload(lastMap'[t])
    BY <1>3, PayloadType DEF Hydrate, TypeOK
  <2> QED BY <1>3, <2>1, <2>2, BuildType DEF Hydrate, Build, TypeOK, fetchVars, Sends
<1>4. ASSUME NEW s \in Streams, TakeUpdate(s) PROVE TypeOK'
  <2>0. /\ taken \in [Streams -> 0..Len(Sends)] /\ sent \in 1..Len(Sends) /\ taken[s] < sent
        /\ taken' = [taken EXCEPT ![s] = taken[s] + 1]
    BY <1>4 DEF TakeUpdate, TypeOK
  <2>1. taken[s] + 1 \in 1..Len(Sends)
    BY <1>0, <2>0
  <2>2. status' \in Status
    BY <1>4, <2>1, StatusSent DEF TakeUpdate
  <2>3. taken' \in [Streams -> 0..Len(Sends)]
    <3>1. 1..Len(Sends) \subseteq 0..Len(Sends)
      BY <1>0
    <3> QED BY <2>0, <2>1, <3>1
  <2>4. stream' \in [Streams -> {"closed", "hydrate", "wait", "build"}]
    BY <1>4 DEF TakeUpdate, TypeOK
  <2>5. \A t \in Streams : stream'[t] \in {"wait", "build"} => IsPayload(lastMap'[t])
    BY <1>4 DEF TakeUpdate, TypeOK
  <2> QED BY <1>4, <2>2, <2>3, <2>4, <2>5 DEF TakeUpdate, TypeOK, fetchVars, Sends
<1>5. ASSUME NEW s \in Streams, SendDelta(s) PROVE TypeOK'
  <2>1. stream' \in [Streams -> {"closed", "hydrate", "wait", "build"}]
    BY <1>5 DEF SendDelta, TypeOK
  <2>2. IsPayload(lastMap[s])
    BY <1>5 DEF SendDelta, TypeOK
  <2>3. lastMap' \in {lastMap, [lastMap EXCEPT ![s] = Payload]}
    BY <1>5 DEF SendDelta
  <2>4. DOMAIN lastMap' = Streams /\ DOMAIN page' = Streams
    BY <1>5 DEF SendDelta, TypeOK
  <2>5. \A t \in Streams : stream'[t] \in {"wait", "build"} => IsPayload(lastMap'[t])
    BY <1>5, <2>2, <2>3, PayloadType DEF SendDelta, TypeOK
  <2> QED BY <1>5, <2>1, <2>4, <2>5, BuildType DEF SendDelta, Build, TypeOK, fetchVars, Sends
<1>6. ASSUME NEW s \in Streams, Close(s) PROVE TypeOK'
  <2>1. stream' \in [Streams -> {"closed", "hydrate", "wait", "build"}]
    BY <1>6 DEF Close, TypeOK
  <2>2. \A t \in Streams : stream'[t] \in {"wait", "build"} => IsPayload(lastMap'[t])
    BY <1>6 DEF Close, TypeOK
  <2>3. closes' \in 0..MaxCloses
    <3>1. closes' = closes + 1 /\ closes < MaxCloses /\ closes \in 0..MaxCloses
      BY <1>6 DEF Close, TypeOK
    <3> QED BY <3>1, BoundAssumption
  <2> QED BY <1>6, <2>1, <2>2, <2>3 DEF Close, TypeOK, sessionVars, fetchVars, Sends
<1>7. CASE Poll
  BY <1>7, BuildType DEF Poll, Build, TypeOK, fetchVars, pageVars, Sends
<1>8. ASSUME NEW f \in Fetchers, FetchStep(f) PROVE TypeOK'
  BY <1>8, FetchStepType
<1>9. ASSUME NEW n \in Names, ProcessUploaded3MF(n) PROVE TypeOK'
  <2>1. uploads' \in 0..scenario.uploads
    <3>1. /\ uploads' = uploads + 1 /\ uploads < scenario.uploads /\ uploads \in 0..scenario.uploads
          /\ scenario' = scenario
      BY <1>9 DEF ProcessUploaded3MF, TypeOK
    <3> QED BY <1>0, <3>1
  <2> QED BY <1>9, <2>1 DEF ProcessUploaded3MF, TypeOK, fetchVars, pageVars, Sends
<1>10. CASE Broadcast
  <2>1. sent' \in 1..Len(Sends)
    <3>1. sent' = sent + 1 /\ sent < Len(Sends) /\ sent \in 1..Len(Sends)
      BY <1>10 DEF Broadcast, TypeOK
    <3> QED BY <1>0, <3>1
  <2> QED BY <1>10, <2>1 DEF Broadcast, TypeOK, sessionVars, fetchVars, pageVars, Sends
<1> QED
  BY <1>1, <1>2, <1>3, <1>4, <1>5, <1>6, <1>7, <1>8, <1>9, <1>10 DEF Next, StreamStep

\* Every variable stays within its type (WebStatus.TypeOK), whatever the printer sends.
THEOREM TypeCorrect == Spec => []TypeOK
BY TypeInit, TypeStep, PTL DEF Spec

-----------------------------------------------------------------------------
(* The fetches. *)

\* What the steps of a fetch do to the fetches.
LEMMA StepEffect ==
  ASSUME TypeOK, NEW f \in Fetchers, NEW place, Step(f, place)
  PROVE  /\ fetcher'[f].at = place /\ fetcher'[f].job = fetcher[f].job /\ fetcher'[f].try = fetcher[f].try
         /\ \A g \in Fetchers \ {f} : fetcher'[g] = fetcher[g]
<1>1. fetcher \in [Fetchers -> FetchType]
  BY DEF TypeOK
<1>2. \A g \in Fetchers : fetcher'[g] = IF g = f THEN [fetcher[f] EXCEPT !.at = place] ELSE fetcher[g]
  BY <1>1 DEF Step
<1>3. fetcher'[f] = [fetcher[f] EXCEPT !.at = place] /\ fetcher[f] \in FetchType
  BY <1>1, <1>2
<1>4. fetcher'[f].at = place /\ fetcher'[f].job = fetcher[f].job /\ fetcher'[f].try = fetcher[f].try
  BY <1>3 DEF FetchType
<1> QED BY <1>2, <1>4

LEMMA NextEffect ==
  ASSUME TypeOK, NEW f \in Fetchers, NextCandidate(f)
  PROVE  /\ fetcher'[f].at \in {"download", "failed"} /\ fetcher'[f].job = fetcher[f].job
         /\ fetcher'[f].try \in {fetcher[f].try, fetcher[f].try + 1}
         /\ \A g \in Fetchers \ {f} : fetcher'[g] = fetcher[g]
<1>1. CASE fetcher[f].try < Len(Candidates[Job(f)])
  <2>1. \A g \in Fetchers : fetcher'[g] =
          IF g = f THEN [at |-> "download", job |-> Job(f), try |-> fetcher[f].try + 1] ELSE fetcher[g]
    BY <1>1 DEF NextCandidate, TypeOK
  <2> QED BY <2>1 DEF Job
<1>2. CASE ~(fetcher[f].try < Len(Candidates[Job(f)]))
  BY <1>2, StepEffect DEF NextCandidate
<1> QED BY <1>1, <1>2

LEMMA NoFetchEffect ==
  ASSUME TypeOK, NEW f \in Fetchers, fetcher' = [fetcher EXCEPT ![f] = NoFetch]
  PROVE  /\ fetcher'[f].at = "idle"
         /\ \A g \in Fetchers \ {f} : fetcher'[g] = fetcher[g]
BY DEF TypeOK, NoFetch

\* A build starts fetches only, and those are not past their check.
LEMMA BuildEffect ==
  ASSUME TypeOK, Build
  PROVE  /\ \A f \in Fetchers : fetcher'[f] = fetcher[f] \/ (fetcher[f].at = "idle" /\ fetcher'[f].at = "check")
         /\ UNCHANGED fetchVars
<1>1. CASE fetcher' = fetcher
  BY <1>1 DEF Build
<1>2. CASE \E f \in Idle : fetcher' = [fetcher EXCEPT ![f] = [at |-> "check", job |-> status.job, try |-> 1]]
  <2>1. PICK f \in Idle : fetcher' = [fetcher EXCEPT ![f] = [at |-> "check", job |-> status.job, try |-> 1]]
    BY <1>2
  <2>2. \A g \in Fetchers : fetcher'[g] =
          IF g = f THEN [at |-> "check", job |-> status.job, try |-> 1] ELSE fetcher[g]
    BY <2>1 DEF TypeOK
  <2>3. fetcher[f].at = "idle"
    BY DEF Idle
  <2> QED BY <2>2, <2>3 DEF Build
<1> QED BY <1>1, <1>2 DEF Build, Spawn

\* A shown download stays one of a running fetch while the fetches go on with their files.
LEMMA ShownKept ==
  ASSUME TypeOK, Shown, UNCHANGED download,
         \A g \in Fetchers : fetcher[g].at \in Working =>
           /\ fetcher'[g].at \in Working /\ fetcher'[g].job = fetcher[g].job
           /\ fetcher'[g].try \in {fetcher[g].try, fetcher[g].try + 1}
  PROVE  Shown'
<1>1. SUFFICES ASSUME download # None PROVE \E f \in Fetchers : ShownBy(f)'
  BY DEF Shown
<1>2. PICK f \in Fetchers : ShownBy(f)
  BY <1>1 DEF Shown
<1>3. PICK i \in 1..fetcher[f].try : download = Candidates[Job(f)][i]
  BY <1>2 DEF ShownBy
<1>4. fetcher[f].try \in Nat
  BY DEF TypeOK, FetchType
<1>5. i \in 1..fetcher'[f].try
  BY <1>2, <1>4 DEF ShownBy
<1> QED BY <1>2, <1>3, <1>5 DEF ShownBy, Job

LEMMA BuildFetchInv == ASSUME TypeOK, FetchInv, Build PROVE FetchInv'
<1>1. \A f \in Fetchers : fetcher'[f].at \in Working => fetcher'[f] = fetcher[f]
  BY BuildEffect DEF Working
<1>2. \A f \in Fetchers : fetcher'[f].at \in Unfinished => fetcher'[f] = fetcher[f]
  BY BuildEffect DEF Unfinished
<1>3. UNCHANGED <<fetching, failed, download>>
  BY BuildEffect DEF fetchVars
<1>4. Owned'
  BY <1>1, <1>3 DEF FetchInv, Owned, Job
<1>5. Alone'
  BY <1>1 DEF FetchInv, Alone, Job
<1>6. Below'
  BY <1>2, <1>3 DEF FetchInv, Below, Job
<1>7. Shown'
  <2>1. \A f \in Fetchers : fetcher[f].at \in Working => fetcher'[f] = fetcher[f]
    BY BuildEffect DEF Working
  <2> QED BY <1>3, <2>1, ShownKept DEF FetchInv
<1> QED BY <1>4, <1>5, <1>6, <1>7 DEF FetchInv

\* A fetch that goes on with its file and does not touch the flags.
LEMMA GoesOn ==
  ASSUME TypeOK, FetchInv, NEW f \in Fetchers, fetcher[f].at \in Working,
         fetcher'[f].at \in Working, fetcher'[f].job = fetcher[f].job,
         fetcher'[f].at \in Unfinished => fetcher[f].at \in Unfinished,
         \A g \in Fetchers \ {f} : fetcher'[g] = fetcher[g], UNCHANGED <<fetching, failed>>
  PROVE  Owned' /\ Alone' /\ Below'
<1>1. Owned'
  BY DEF FetchInv, Owned, Job
<1>2. Alone'
  BY DEF FetchInv, Alone, Job
<1>3. Below'
  BY DEF FetchInv, Below, Job
<1> QED BY <1>1, <1>2, <1>3

LEMMA FetchStepInv == ASSUME TypeOK, FetchInv, NEW f \in Fetchers, FetchStep(f) PROVE FetchInv'
<1>0. /\ fetcher[f].at # "idle" => Job(f) \in Jobs
      /\ failed \in [Jobs -> Nat] /\ fetching \subseteq Jobs
  BY DEF TypeOK, Job
<1>1. CASE StartFetch(f)
  <2>1. UNCHANGED <<failed, download>> /\ fetcher[f].at = "check"
    BY <1>1 DEF StartFetch
  <2>2. CASE Job(f) \in fetching \/ failed[Job(f)] >= MaxRetries
    <3>1. fetching' = fetching /\ fetcher'[f].at = "idle" /\ \A g \in Fetchers \ {f} : fetcher'[g] = fetcher[g]
      BY <1>1, <2>2, NoFetchEffect DEF StartFetch
    <3>2. Owned'
      BY <3>1 DEF FetchInv, Owned, Job, Working
    <3>3. Alone'
      BY <3>1 DEF FetchInv, Alone, Job, Working
    <3>4. Below'
      BY <2>1, <3>1 DEF FetchInv, Below, Job, Unfinished
    <3>5. Shown'
      BY <2>1, <3>1, ShownKept DEF FetchInv, Working
    <3> QED BY <3>2, <3>3, <3>4, <3>5 DEF FetchInv
  <2>3. CASE ~(Job(f) \in fetching \/ failed[Job(f)] >= MaxRetries)
    <3>1. /\ fetching' = fetching \cup {Job(f)} /\ fetcher'[f].at = "download" /\ fetcher'[f].job = fetcher[f].job
          /\ \A g \in Fetchers \ {f} : fetcher'[g] = fetcher[g]
      BY <1>1, <2>3, StepEffect DEF StartFetch
    <3>2. failed[Job(f)] < MaxRetries
      <4>1. failed[Job(f)] \in Nat /\ MaxRetries \in Nat
        BY <1>0, <2>1, BoundAssumption
      <4> QED BY <2>3, <4>1
    <3>3. Owned'
      BY <3>1 DEF FetchInv, Owned, Job
    <3>4. \A g \in Fetchers \ {f} : fetcher[g].at \in Working => Job(g) # Job(f)
      BY <2>3 DEF FetchInv, Owned
    <3>5. Alone'
      BY <3>1, <3>4 DEF FetchInv, Alone, Job
    <3>6. Below'
      BY <2>1, <3>1, <3>2 DEF FetchInv, Below, Job
    <3>7. Shown'
      BY <2>1, <3>1, ShownKept DEF FetchInv, Working
    <3> QED BY <3>3, <3>5, <3>6, <3>7 DEF FetchInv
  <2> QED BY <2>2, <2>3
<1>2. CASE DownloadBegins(f)
  <2>1. /\ fetcher[f].at = "download" /\ fetcher'[f].at = "copy" /\ fetcher'[f].job = fetcher[f].job
        /\ \A g \in Fetchers \ {f} : fetcher'[g] = fetcher[g]
        /\ UNCHANGED <<fetching, failed>> /\ fetcher'[f].try = fetcher[f].try /\ download' = Name(f)
    BY <1>2, StepEffect DEF DownloadBegins
  <2>2. Owned' /\ Alone' /\ Below'
    BY <2>1, GoesOn DEF Working, Unfinished
  <2>3. fetcher[f].try \in 1..fetcher'[f].try
    <3>1. Job(f) \in Jobs /\ fetcher[f].try \in DOMAIN Candidates[Job(f)] /\ fetcher[f].try \in Nat
      BY <1>0, <2>1 DEF TypeOK, FetchType, Job
    <3> QED BY <2>1, <3>1, CandidatesType
  <2>4. ShownBy(f)'
    BY <2>1, <2>3 DEF ShownBy, Name, Job, Working
  <2> QED BY <2>2, <2>4 DEF FetchInv, Shown
<1>3. CASE DownloadFails(f)
  <2>1. /\ fetcher[f].at = "download" /\ fetcher'[f].at \in {"download", "failed"}
        /\ fetcher'[f].job = fetcher[f].job /\ \A g \in Fetchers \ {f} : fetcher'[g] = fetcher[g]
        /\ fetcher'[f].try \in {fetcher[f].try, fetcher[f].try + 1}
        /\ UNCHANGED <<fetching, failed, download>>
    BY <1>3, NextEffect DEF DownloadFails, fetchVars
  <2>2. Owned' /\ Alone' /\ Below'
    BY <2>1, GoesOn DEF Working, Unfinished
  <2>3. Shown'
    BY <2>1, ShownKept DEF FetchInv, Working
  <2> QED BY <2>2, <2>3 DEF FetchInv
<1>4. CASE CopyFails(f)
  <2>1. /\ fetcher[f].at = "copy" /\ fetcher'[f].at \in {"download", "failed"}
        /\ fetcher'[f].job = fetcher[f].job /\ \A g \in Fetchers \ {f} : fetcher'[g] = fetcher[g]
        /\ fetcher'[f].try \in {fetcher[f].try, fetcher[f].try + 1}
        /\ UNCHANGED <<fetching, failed, download>>
    BY <1>4, NextEffect DEF CopyFails
  <2>2. Owned' /\ Alone' /\ Below'
    BY <2>1, GoesOn DEF Working, Unfinished
  <2>3. Shown'
    BY <2>1, ShownKept DEF FetchInv, Working
  <2> QED BY <2>2, <2>3 DEF FetchInv
<1>5. CASE CopyEnds(f)
  <2>1. /\ fetcher[f].at = "copy" /\ fetcher'[f].at = "parse"
        /\ fetcher'[f].job = fetcher[f].job /\ \A g \in Fetchers \ {f} : fetcher'[g] = fetcher[g]
        /\ fetcher'[f].try \in {fetcher[f].try, fetcher[f].try + 1}
        /\ UNCHANGED <<fetching, failed, download>>
    BY <1>5, StepEffect DEF CopyEnds
  <2>2. Owned' /\ Alone' /\ Below'
    BY <2>1, GoesOn DEF Working, Unfinished
  <2>3. Shown'
    BY <2>1, ShownKept DEF FetchInv, Working
  <2> QED BY <2>2, <2>3 DEF FetchInv
<1>6. CASE CountFailure(f)
  <2>1. /\ fetcher[f].at = "failed" /\ fetcher'[f].at = "end" /\ fetcher'[f].job = fetcher[f].job
        /\ \A g \in Fetchers \ {f} : fetcher'[g] = fetcher[g]
        /\ UNCHANGED <<fetching, download>> /\ fetcher'[f].try = fetcher[f].try
        /\ \A j \in Jobs \ {Job(f)} : failed'[j] = failed[j]
    BY <1>0, <1>6, StepEffect DEF CountFailure
  <2>2. Owned'
    BY <2>1 DEF FetchInv, Owned, Job, Working
  <2>3. Alone'
    BY <2>1 DEF FetchInv, Alone, Job, Working
  <2>4. \A g \in Fetchers \ {f} : fetcher[g].at \in Unfinished => Job(g) # Job(f) /\ Job(g) \in Jobs
    BY <2>1 DEF FetchInv, Alone, Working, Unfinished, TypeOK, Job
  <2>5. Below'
    BY <2>1, <2>4 DEF FetchInv, Below, Job, Unfinished
  <2>6. Shown'
    BY <2>1, ShownKept DEF FetchInv, Working
  <2> QED BY <2>2, <2>3, <2>5, <2>6 DEF FetchInv
<1>7. CASE ParseFails(f) \/ UpdateMetadata(f)
  <2>1. /\ fetcher[f].at = "parse" /\ fetcher'[f].at = "end"
        /\ fetcher'[f].job = fetcher[f].job /\ \A g \in Fetchers \ {f} : fetcher'[g] = fetcher[g]
        /\ fetcher'[f].try \in {fetcher[f].try, fetcher[f].try + 1}
        /\ UNCHANGED <<fetching, failed, download>>
    BY <1>7, StepEffect DEF ParseFails, UpdateMetadata, fetchVars
  <2>2. Owned' /\ Alone' /\ Below'
    BY <2>1, GoesOn DEF Working, Unfinished
  <2>3. Shown'
    BY <2>1, ShownKept DEF FetchInv, Working
  <2> QED BY <2>2, <2>3 DEF FetchInv
<1>8. CASE EndFetch(f)
  <2>1. /\ fetcher[f].at = "end" /\ fetcher'[f].at = "idle" /\ \A g \in Fetchers \ {f} : fetcher'[g] = fetcher[g]
        /\ fetching' = fetching \ {Job(f)} /\ download' = None /\ UNCHANGED failed
    BY <1>8, NoFetchEffect DEF EndFetch
  <2>2. \A g \in Fetchers \ {f} : fetcher[g].at \in Working => Job(g) # Job(f)
    BY <2>1 DEF FetchInv, Alone, Working
  <2>3. Owned'
    BY <2>1, <2>2 DEF FetchInv, Owned, Job, Working
  <2>4. Alone'
    BY <2>1 DEF FetchInv, Alone, Job, Working
  <2>5. Below'
    BY <2>1 DEF FetchInv, Below, Job, Unfinished
  <2>6. Shown'
    BY <2>1 DEF Shown
  <2> QED BY <2>3, <2>4, <2>5, <2>6 DEF FetchInv
<1> QED BY <1>1, <1>2, <1>3, <1>4, <1>5, <1>6, <1>7, <1>8 DEF FetchStep

LEMMA FetchInvInit == ASSUME Init PROVE FetchInv
<1>1. \A f \in Fetchers : fetcher[f].at = "idle"
  BY DEF Init, NoFetch
<1>2. download = None
  BY DEF Init
<1> QED BY <1>1, <1>2 DEF FetchInv, Owned, Alone, Below, Shown, Working, Unfinished

LEMMA FetchInvNext == ASSUME TypeOK, FetchInv, [Next]_vars PROVE FetchInv'
<1>1. ASSUME UNCHANGED <<fetcher, fetchVars>> PROVE FetchInv'
  BY <1>1 DEF FetchInv, Owned, Alone, Below, Shown, ShownBy, Job, fetchVars
<1>2. CASE UNCHANGED vars
  BY <1>1, <1>2 DEF vars
<1>3. ASSUME NEW s \in Streams, Open(s) \/ StreamStep(s) \/ Close(s) PROVE FetchInv'
  BY <1>1, <1>3, BuildFetchInv DEF Open, StreamStep, Hydrate, TakeUpdate, SendDelta, Close
<1>4. CASE Poll
  BY <1>4, BuildFetchInv DEF Poll
<1>5. ASSUME NEW f \in Fetchers, FetchStep(f) PROVE FetchInv'
  BY <1>5, FetchStepInv
<1>6. ASSUME NEW n \in Names, ProcessUploaded3MF(n) PROVE FetchInv'
  BY <1>1, <1>6 DEF ProcessUploaded3MF
<1>7. CASE Broadcast
  BY <1>1, <1>7 DEF Broadcast
<1> QED BY <1>2, <1>3, <1>4, <1>5, <1>6, <1>7 DEF Next

\* What is said of the fetches holds whatever the pages, the printer and its files do.
THEOREM FetchesCorrect == Spec => []FetchInv
BY TypeInit, TypeStep, FetchInvInit, FetchInvNext, PTL DEF Spec

\* A download that is shown is a candidate of a fetch that has not ended, whatever other
\* fetches show or reset meanwhile (fetchMetadataAsync, downloadToTemp).
THEOREM DownloadCorrect == Spec => []DownloadShownWhileFetching
<1>1. FetchInv => DownloadShownWhileFetching
  BY DEF FetchInv, Shown, ShownBy, DownloadShownWhileFetching, Working
<1> QED BY <1>1, FetchesCorrect, PTL

LEMMA BudgetStep ==
  ASSUME TypeOK, FetchInv, [Next]_vars
  PROVE  [Budget!Next]_Budget!vars
<1>1. ASSUME UNCHANGED <<fetching, failed>> PROVE UNCHANGED Budget!vars
  BY <1>1 DEF Budget!vars
<1>2. CASE UNCHANGED vars
  BY <1>1, <1>2 DEF vars, fetchVars
<1>3. ASSUME NEW s \in Streams, Open(s) \/ StreamStep(s) \/ Close(s) PROVE UNCHANGED Budget!vars
  BY <1>1, <1>3 DEF Open, StreamStep, Hydrate, TakeUpdate, SendDelta, Close, Build, fetchVars
<1>4. CASE Poll
  BY <1>1, <1>4 DEF Poll, Build, fetchVars
<1>5. ASSUME NEW f \in Fetchers, FetchStep(f) PROVE [Budget!Next]_Budget!vars
  <2>0. fetcher[f].at # "idle" => Job(f) \in Jobs
    BY DEF TypeOK, Job
  <2>1. CASE StartFetch(f)
    <3>1. CASE Job(f) \in fetching \/ failed[Job(f)] >= MaxRetries
      BY <1>1, <2>1, <3>1 DEF StartFetch
    <3>2. CASE ~(Job(f) \in fetching \/ failed[Job(f)] >= MaxRetries)
      <4>1. /\ Job(f) \in Jobs /\ Job(f) \notin fetching
            /\ fetching' = fetching \cup {Job(f)} /\ failed' = failed
        BY <2>0, <2>1, <3>2 DEF StartFetch
      <4>2. failed[Job(f)] \in Nat /\ MaxRetries \in Nat
        BY <4>1, BoundAssumption DEF TypeOK
      <4>3. failed[Job(f)] < MaxRetries
        BY <3>2, <4>2
      <4>4. Budget!Begin(Job(f))
        BY <4>1, <4>3 DEF Budget!Begin
      <4> QED BY <4>1, <4>4 DEF Budget!Next
    <3> QED BY <3>1, <3>2
  <2>2. CASE CountFailure(f)
    <3>1. /\ fetcher[f].at = "failed" /\ fetching' = fetching
          /\ failed' = [failed EXCEPT ![Job(f)] = @ + 1]
      BY <2>2 DEF CountFailure
    <3>2. Job(f) \in Jobs /\ Job(f) \in fetching /\ failed[Job(f)] < MaxRetries
      BY <2>0, <3>1 DEF FetchInv, Owned, Below, Working, Unfinished
    <3>3. Budget!Fail(Job(f))
      BY <3>1, <3>2 DEF Budget!Fail
    <3> QED BY <3>2, <3>3 DEF Budget!Next
  <2>3. CASE EndFetch(f)
    <3>1. fetcher[f].at = "end" /\ fetching' = fetching \ {Job(f)} /\ failed' = failed
      BY <2>3 DEF EndFetch
    <3>2. Job(f) \in Jobs /\ Job(f) \in fetching
      BY <2>0, <3>1 DEF FetchInv, Owned, Working
    <3>3. Budget!End(Job(f))
      BY <3>1, <3>2 DEF Budget!End
    <3> QED BY <3>2, <3>3 DEF Budget!Next
  <2>4. CASE \/ DownloadBegins(f) \/ DownloadFails(f) \/ CopyFails(f) \/ CopyEnds(f)
             \/ ParseFails(f) \/ UpdateMetadata(f)
    BY <1>1, <2>4 DEF DownloadBegins, DownloadFails, CopyFails, CopyEnds, ParseFails, UpdateMetadata, fetchVars
  <2> QED BY <1>5, <2>1, <2>2, <2>3, <2>4 DEF FetchStep
<1>6. ASSUME NEW n \in Names, ProcessUploaded3MF(n) PROVE UNCHANGED Budget!vars
  BY <1>1, <1>6 DEF ProcessUploaded3MF, fetchVars
<1>7. CASE Broadcast
  BY <1>1, <1>7 DEF Broadcast, fetchVars
<1> QED BY <1>2, <1>3, <1>4, <1>5, <1>6, <1>7 DEF Next

\* The fetches of the web session implement FetchBudget: one of a file at a time, every
\* failure counted once, none begun after MaxRetries failures (fetchMetadataAsync).
THEOREM BudgetKept == Spec => FetchesWithinBudget
<1>1. Init => Budget!Init
  BY DEF Init, Budget!Init
<1> QED
  BY <1>1, TypeInit, TypeStep, FetchInvInit, FetchInvNext, BudgetStep, PTL
  DEF Spec, FetchesWithinBudget, Budget!Spec

-----------------------------------------------------------------------------
(* The pages. *)

\* A page that merges the changes of what it shows, shows the new payload.
LEMMA MergeOfDelta ==
  ASSUME NEW shown, NEW old, NEW new, NEW merged,
         DOMAIN old \subseteq DOMAIN shown, \A k \in DOMAIN old : shown[k] = old[k],
         merged = MergeDeep(shown, ComputeDelta(old, new))
  PROVE  DOMAIN new \subseteq DOMAIN merged /\ \A k \in DOMAIN new : merged[k] = new[k]
<1> DEFINE changed == {k \in DOMAIN new : k \notin DOMAIN old \/ old[k] # new[k]}
<1>1. ComputeDelta(old, new) = [k \in changed |-> new[k]]
  BY DEF ComputeDelta
<1>2. DOMAIN merged = DOMAIN shown \cup changed
  BY <1>1 DEF MergeDeep
<1>3. \A k \in DOMAIN merged : merged[k] = IF k \in changed THEN new[k] ELSE shown[k]
  BY <1>1, <1>2 DEF MergeDeep
<1>4. \A k \in DOMAIN new : k \in changed \/ (k \in DOMAIN old /\ old[k] = new[k])
  OBVIOUS
<1> QED BY <1>2, <1>3, <1>4

\* A page that merges a whole payload shows it.
LEMMA MergeOfAll ==
  ASSUME NEW shown, NEW new, NEW merged, merged = MergeDeep(shown, new)
  PROVE  DOMAIN new \subseteq DOMAIN merged /\ \A k \in DOMAIN new : merged[k] = new[k]
BY DEF MergeDeep

\* One page is written, the others stay as they are.
LEMMA PagesFollowOther ==
  ASSUME TypeOK, PagesFollow, NEW s \in Streams,
         \A t \in Streams \ {s} : stream'[t] = stream[t] /\ lastMap'[t] = lastMap[t] /\ page'[t] = page[t],
         stream'[s] \in {"wait", "build"} =>
           /\ DOMAIN lastMap'[s] \subseteq DOMAIN page'[s]
           /\ \A k \in DOMAIN lastMap'[s] : page'[s][k] = lastMap'[s][k]
  PROVE  PagesFollow'
BY DEF PagesFollow

LEMMA PagesFollowStep == ASSUME TypeOK, PagesFollow, [Next]_vars PROVE PagesFollow'
<1>1. ASSUME UNCHANGED <<stream, lastMap, page>> PROVE PagesFollow'
  BY <1>1 DEF PagesFollow
<1>2. CASE UNCHANGED vars
  BY <1>1, <1>2 DEF vars, pageVars
<1>3. ASSUME NEW s \in Streams, Open(s) PROVE PagesFollow'
  BY <1>3, PagesFollowOther DEF Open, TypeOK
<1>4. ASSUME NEW s \in Streams, Hydrate(s) PROVE PagesFollow'
  <2>1. page'[s] = MergeDeep(page[s], Payload) /\ lastMap'[s] = Payload
    BY <1>4 DEF Hydrate, TypeOK
  <2>2. DOMAIN lastMap'[s] \subseteq DOMAIN page'[s] /\ \A k \in DOMAIN lastMap'[s] : page'[s][k] = lastMap'[s][k]
    BY <2>1, MergeOfAll
  <2> QED BY <1>4, <2>2, PagesFollowOther DEF Hydrate, TypeOK
<1>5. ASSUME NEW s \in Streams, TakeUpdate(s) PROVE PagesFollow'
  BY <1>5 DEF TakeUpdate, TypeOK, PagesFollow
<1>6. ASSUME NEW s \in Streams, SendDelta(s) PROVE PagesFollow'
  <2>1. /\ DOMAIN lastMap[s] \subseteq DOMAIN page[s] /\ \A k \in DOMAIN lastMap[s] : page[s][k] = lastMap[s][k]
        /\ stream' = [stream EXCEPT ![s] = "wait"]
    BY <1>6 DEF SendDelta, PagesFollow
  <2>2. CASE UNCHANGED <<lastMap, page>>
    BY <2>1, <2>2, PagesFollowOther DEF TypeOK
  <2>3. CASE /\ lastMap' = [lastMap EXCEPT ![s] = Payload]
             /\ page' = [page EXCEPT ![s] = MergeDeep(@, ComputeDelta(lastMap[s], Payload))]
    <3>1. lastMap'[s] = Payload /\ page'[s] = MergeDeep(page[s], ComputeDelta(lastMap[s], Payload))
      BY <2>3 DEF TypeOK
    <3>2. DOMAIN lastMap'[s] \subseteq DOMAIN page'[s] /\ \A k \in DOMAIN lastMap'[s] : page'[s][k] = lastMap'[s][k]
      BY <2>1, <3>1, MergeOfDelta
    <3> QED BY <2>1, <2>3, <3>2, PagesFollowOther DEF TypeOK
  <2> QED BY <1>6, <2>2, <2>3 DEF SendDelta
<1>7. ASSUME NEW s \in Streams, Close(s) PROVE PagesFollow'
  BY <1>7, PagesFollowOther DEF Close, TypeOK
<1>8. CASE Poll
  BY <1>1, <1>8 DEF Poll, pageVars
<1>9. ASSUME NEW f \in Fetchers, FetchStep(f) PROVE PagesFollow'
  BY <1>1, <1>9 DEF FetchStep, StartFetch, DownloadBegins, DownloadFails, CopyFails, CopyEnds, CountFailure,
                    ParseFails, UpdateMetadata, EndFetch, pageVars
<1>10. ASSUME NEW n \in Names, ProcessUploaded3MF(n) PROVE PagesFollow'
  BY <1>1, <1>10 DEF ProcessUploaded3MF, pageVars
<1>11. CASE Broadcast
  BY <1>1, <1>11 DEF Broadcast, pageVars
<1> QED
  BY <1>2, <1>3, <1>4, <1>5, <1>6, <1>7, <1>8, <1>9, <1>10, <1>11 DEF Next, StreamStep

\* What a page shows of the payload it was sent last is that payload, although it was only
\* ever sent differences (computeDelta against the page's mergeDeep).
THEOREM PagesAlwaysFollow == Spec => []PagesFollow
<1>1. Init => PagesFollow
  BY DEF Init, PagesFollow
<1> QED BY <1>1, TypeInit, TypeStep, PagesFollowStep, PTL DEF Spec
=============================================================================
