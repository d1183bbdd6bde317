----------------------------- MODULE WebStatus ------------------------------
(***************************************************************************)
(* What the pages of one web session are shown (cmd/bambulan/web.go): the  *)
(* event streams of handleAPIEvents store every update of the printer in   *)
(* session.Status, build a payload and send the page what has changed; the *)
(* metadata of the printed file are downloaded by goroutines of their own  *)
(* and kept in a cache that is cleared when a print ends.                  *)
(*                                                                         *)
(* A section under session.Mu is one action.  A payload is built in one    *)
(* section and then only touched by its own stream, so building and        *)
(* sending it are one action.  A download has a connection of its own, so  *)
(* those of several fetches go on side by side.  The printer, its files    *)
(* and the page's mergeDeep are external.                                  *)
(***************************************************************************)
EXTENDS Integers, Sequences, FiniteSets

CONSTANTS
  Streams,       \* open pages of the session (handleAPIEvents)
  Fetchers,      \* goroutines of fetchMetadataAsync; bound: no more than these at a time
  Jobs,          \* what the printer may report as the name of the printed file: names that
                 \* end in .3mf or have no extension, others are never fetched
  Names,         \* the names of files
  Candidates,    \* metadataCandidates(job), a sequence of names
  Sanitized,     \* the job's name without its leading "_", None if it has none
  Scenarios,     \* bound: what the printer sends, which pages are open, how many files are uploaded
  Keys,          \* the keys of a status that are left out when empty
  MaxRetries,    \* failed downloads after which a file is not tried again (3)
  MaxCloses,     \* bound: how often pages go away
  None

Actives == {"RUNNING", "PAUSE", "PREPARE"}
Terminals == {"FINISH", "FAILED", "IDLE"}

\* What is told apart in a status: its number, the state, the job
\* and the omitempty keys it has.
Status == [ver : Nat, state : Actives \cup Terminals \cup {""}, job : Jobs \cup {None}, keys : SUBSET Keys]

ASSUME JobAssumption ==
  /\ Candidates \in [Jobs -> Seq(Names)]
  /\ \A j \in Jobs : Len(Candidates[j]) > 0
  /\ Sanitized \in [Jobs -> Names \cup {None}]
  /\ Jobs \subseteq Names
ASSUME NoneAssumption == None \notin Names
ASSUME ScenarioAssumption ==
  /\ Scenarios \subseteq [sends : Seq(Status), pages : SUBSET Streams, uploads : Nat]
  /\ \A c \in Scenarios : Len(c.sends) > 0 /\ \A i \in DOMAIN c.sends : c.sends[i].ver = i
ASSUME BoundAssumption == MaxRetries \in Nat \ {0} /\ MaxCloses \in Nat

VARIABLES
  scenario,    \* of the Scenarios; its first status is there at the login
  sent,        \* how many of them have been broadcast
  status,      \* session.Status
  previous,    \* session.PreviousGcodeState
  current,     \* session.CurrentMetadataFilename; None: CurrentMetadata is nil
  cache,       \* session.MetadataCache: the names with an entry
  fetching,    \* session.Fetching
  failed,      \* session.FailedFetches
  download,    \* session.MetadataDownloadStatus: the file shown, None if Downloading is false
  stream,      \* where each handleAPIEvents is
  taken,       \* the last update each has taken from its subscription
  lastMap,     \* the payload each has sent last, None before the first
  page,        \* what each page shows
  fetcher,     \* each goroutine: where it is, its job, the candidate it tries
  uploads,     \* files uploaded so far
  closes       \* pages that have gone away so far

sessionVars == <<status, previous, current, cache>>
fetchVars == <<fetching, failed, download>>
pageVars == <<stream, taken, lastMap, page, closes>>
vars == <<scenario, sent, sessionVars, fetchVars, pageVars, fetcher, uploads>>

-----------------------------------------------------------------------------
(* Payloads: functions from the keys that are present to their values. *)

\* The keys under the file's control: always present, null where there is nothing.
Always == {"print", "metadata", "download"}

PayloadOf(s, md, dl) ==
  [k \in Always \cup s.keys |->
    CASE k = "print" -> <<s.ver>>
      [] k = "metadata" -> <<md>>
      [] k = "download" -> <<dl>>
      [] OTHER -> <<s.ver>>]

\* Mutant: only keys that are new or were there before and differ in the old map's favour.
ComputeDelta_NewKeysLost(old, new) ==
  [k \in {k \in DOMAIN new : k \in DOMAIN old /\ old[k] # new[k]} |-> new[k]]

\* computeDelta: what is new or has changed; what has gone is not mentioned.
ComputeDelta(old, new) ==
  [k \in {k \in DOMAIN new : k \notin DOMAIN old \/ old[k] # new[k]} |-> new[k]]

\* mergeDeep in the page.
MergeDeep(shown, delta) ==
  [k \in DOMAIN shown \cup DOMAIN delta |-> IF k \in DOMAIN delta THEN delta[k] ELSE shown[k]]

NoPage == [k \in {} |-> None]

-----------------------------------------------------------------------------
Sends == scenario.sends

NoFetch == [at |-> "idle", job |-> None, try |-> 0]

Init ==
  /\ scenario \in Scenarios
  /\ sent = 1
  /\ status = Sends[1]
  /\ previous = ""
  /\ current = None
  /\ cache = {}
  /\ fetching = {}
  /\ failed = [j \in Jobs |-> 0]
  /\ download = None
  /\ stream = [s \in Streams |-> "closed"]
  /\ taken = [s \in Streams |-> 0]
  /\ lastMap = [s \in Streams |-> None]
  /\ page = [s \in Streams |-> NoPage]
  /\ fetcher = [f \in Fetchers |-> NoFetch]
  /\ uploads = 0
  /\ closes = 0

-----------------------------------------------------------------------------
(* buildStatusPayload. *)

\* A print has just ended.
Ended == previous \in Actives /\ status.state \in Terminals

Cache1 == IF Ended THEN cache \ {current} ELSE cache
Current1 == IF Ended THEN None ELSE current

\* The cached name for the active file: the sanitized one first, then the exact one.
Found(names) ==
  IF status.job = None THEN None
  ELSE IF Sanitized[status.job] \in names THEN Sanitized[status.job]
  ELSE IF status.job \in names THEN status.job ELSE None

Active == status.state \in Actives

\* The metadata that are shown from now on.
Current2 ==
  IF (Active \/ Current1 = None) /\ Found(Cache1) # None THEN Found(Cache1) ELSE Current1

\* A file that is printed and not cached is fetched.
MustFetch == Active /\ status.job # None /\ Found(Cache1) = None

Idle == {f \in Fetchers : fetcher[f].at = "idle"}

\* go fetchMetadataAsync.
Spawn ==
  IF MustFetch /\ Idle # {}
  THEN \E f \in Idle : fetcher' = [fetcher EXCEPT ![f] = [at |-> "check", job |-> status.job, try |-> 1]]
  ELSE UNCHANGED fetcher

Payload == PayloadOf(status, Current2, download)

Build ==
  /\ previous' = status.state
  /\ cache' = Cache1
  /\ current' = Current2
  /\ Spawn
  /\ UNCHANGED <<scenario, sent, status, fetchVars, uploads>>

-----------------------------------------------------------------------------
(* handleAPIEvents and handleAPIStatus. *)

\* The page opens its event stream: the subscription begins with the next update.
Open(s) ==
  /\ s \in scenario.pages
  /\ stream[s] = "closed"
  /\ stream' = [stream EXCEPT ![s] = "hydrate"]
  /\ taken' = [taken EXCEPT ![s] = sent]
  /\ UNCHANGED <<scenario, sent, sessionVars, fetchVars, lastMap, page, closes, fetcher, uploads>>

\* The first payload is sent whole.
Hydrate(s) ==
  /\ stream[s] = "hydrate"
  /\ Build
  /\ stream' = [stream EXCEPT ![s] = "wait"]
  /\ lastMap' = [lastMap EXCEPT ![s] = Payload]
  /\ page' = [page EXCEPT ![s] = MergeDeep(@, Payload)]
  /\ UNCHANGED <<taken, closes>>

\* The next update is stored in the session ...
TakeUpdate(s) ==
  /\ stream[s] = "wait"
  /\ taken[s] < sent
  /\ taken' = [taken EXCEPT ![s] = @ + 1]
  /\ status' = Sends[taken[s] + 1]
  /\ stream' = [stream EXCEPT ![s] = "build"]
  /\ UNCHANGED <<scenario, sent, previous, current, cache, fetchVars, lastMap, page, closes,
                 fetcher, uploads>>

\* Mutant: the payload is remembered only by its changes.
SendDelta_KeepsDelta(s) ==
  /\ stream[s] = "build"
  /\ Build
  /\ stream' = [stream EXCEPT ![s] = "wait"]
  /\ page' = [page EXCEPT ![s] = MergeDeep(@, ComputeDelta(lastMap[s], Payload))]
  /\ UNCHANGED <<taken, lastMap, closes>>

\* ... and, in another section, the payload is built from what is in the session
\* by then; the page gets the changes, if there are any.
SendDelta(s) ==
  /\ stream[s] = "build"
  /\ Build
  /\ stream' = [stream EXCEPT ![s] = "wait"]
  /\ LET delta == ComputeDelta(lastMap[s], Payload)
     IN IF DOMAIN delta = {} THEN UNCHANGED <<lastMap, page>>
        ELSE /\ lastMap' = [lastMap EXCEPT ![s] = Payload]
             /\ page' = [page EXCEPT ![s] = MergeDeep(@, delta)]
  /\ UNCHANGED <<taken, closes>>

\* The page goes away, and shows what it did until it comes back.
Close(s) ==
  /\ stream[s] \in {"hydrate", "wait"}
  /\ closes < MaxCloses
  /\ closes' = closes + 1
  /\ stream' = [stream EXCEPT ![s] = "closed"]
  /\ lastMap' = [lastMap EXCEPT ![s] = None]
  /\ UNCHANGED <<scenario, sent, sessionVars, fetchVars, taken, page, fetcher, uploads>>

\* handleAPIStatus: the whole payload is built for a page whose event stream has failed;
\* it stores no update, so such a page is told what a stream has stored, or the login.
Poll ==
  /\ Build
  /\ UNCHANGED pageVars

-----------------------------------------------------------------------------
(* fetchMetadataAsync. *)

Step(f, place) == fetcher' = [fetcher EXCEPT ![f].at = place]
Job(f) == fetcher[f].job
Name(f) == Candidates[Job(f)][fetcher[f].try]

\* Mutant: the flag is not looked at.
StartFetch_NoFlag(f) ==
  /\ fetcher[f].at = "check"
  /\ IF failed[Job(f)] >= MaxRetries
     THEN fetcher' = [fetcher EXCEPT ![f] = NoFetch] /\ UNCHANGED fetching
     ELSE Step(f, "download") /\ fetching' = fetching \cup {Job(f)}
  /\ UNCHANGED <<scenario, sent, sessionVars, failed, download, pageVars, uploads>>

\* One fetch of a file at a time, and none after MaxRetries failures.
StartFetch(f) ==
  /\ fetcher[f].at = "check"
  /\ IF Job(f) \in fetching \/ failed[Job(f)] >= MaxRetries
     THEN fetcher' = [fetcher EXCEPT ![f] = NoFetch] /\ UNCHANGED fetching
     ELSE Step(f, "download") /\ fetching' = fetching \cup {Job(f)}
  /\ UNCHANGED <<scenario, sent, sessionVars, failed, download, pageVars, uploads>>

\* A candidate that cannot be downloaded: the next one, or the fetch has failed.
NextCandidate(f) ==
  IF fetcher[f].try < Len(Candidates[Job(f)])
  THEN fetcher' = [fetcher EXCEPT ![f] = [at |-> "download", job |-> Job(f), try |-> fetcher[f].try + 1]]
  ELSE Step(f, "failed")

\* File.Download has dialled a connection for this download alone; the page is shown the
\* candidate, in the place of whatever another fetch has put there.
DownloadBegins(f) ==
  /\ fetcher[f].at = "download"
  /\ download' = Name(f)
  /\ Step(f, "copy")
  /\ UNCHANGED <<scenario, sent, sessionVars, fetching, failed, pageVars, uploads>>

\* There is no such file, or the context has ended.
DownloadFails(f) ==
  /\ fetcher[f].at = "download"
  /\ NextCandidate(f)
  /\ UNCHANGED <<scenario, sent, sessionVars, fetchVars, pageVars, uploads>>

CopyFails(f) ==
  /\ fetcher[f].at = "copy"
  /\ NextCandidate(f)
  /\ UNCHANGED <<scenario, sent, sessionVars, fetching, failed, download, pageVars, uploads>>

CopyEnds(f) ==
  /\ fetcher[f].at = "copy"
  /\ Step(f, "parse")
  /\ UNCHANGED <<scenario, sent, sessionVars, fetching, failed, download, pageVars, uploads>>

CountFailure(f) ==
  /\ fetcher[f].at = "failed"
  /\ failed' = [failed EXCEPT ![Job(f)] = @ + 1]
  /\ Step(f, "end")
  /\ UNCHANGED <<scenario, sent, sessionVars, fetching, download, pageVars, uploads>>

\* A file that is not a 3MF: nothing is counted.
ParseFails(f) ==
  /\ fetcher[f].at = "parse"
  /\ Step(f, "end")
  /\ UNCHANGED <<scenario, sent, sessionVars, fetchVars, pageVars, uploads>>

\* updateSessionMetadata: cached under both names, shown if the job is still the same.
UpdateMetadata(f) ==
  /\ fetcher[f].at = "parse"
  /\ cache' = cache \cup {Job(f), Name(f)}
  /\ current' = IF status.job = Job(f) THEN Name(f) ELSE current
  /\ Step(f, "end")
  /\ UNCHANGED <<scenario, sent, status, previous, fetchVars, pageVars, uploads>>

\* Mutant: the shown download is left to the next one.
EndFetch_KeepsShown(f) ==
  /\ fetcher[f].at = "end"
  /\ fetching' = fetching \ {Job(f)}
  /\ fetcher' = [fetcher EXCEPT ![f] = NoFetch]
  /\ UNCHANGED <<scenario, sent, sessionVars, failed, download, pageVars, uploads>>

\* The deferred function: the flag and the shown download, whoever's it is by now.
EndFetch(f) ==
  /\ fetcher[f].at = "end"
  /\ fetching' = fetching \ {Job(f)}
  /\ download' = None
  /\ fetcher' = [fetcher EXCEPT ![f] = NoFetch]
  /\ UNCHANGED <<scenario, sent, sessionVars, failed, pageVars, uploads>>

\* processUploaded3MF: an uploaded file's metadata are cached and shown at once.
ProcessUploaded3MF(n) ==
  /\ uploads < scenario.uploads
  /\ uploads' = uploads + 1
  /\ cache' = cache \cup {n}
  /\ current' = n
  /\ UNCHANGED <<scenario, sent, status, previous, fetchVars, pageVars, fetcher>>

\* External: the printer sends its next status to every subscription.
Broadcast ==
  /\ sent < Len(Sends)
  /\ sent' = sent + 1
  /\ UNCHANGED <<scenario, sessionVars, fetchVars, pageVars, fetcher, uploads>>

-----------------------------------------------------------------------------
StreamStep(s) == Hydrate(s) \/ TakeUpdate(s) \/ SendDelta(s)

FetchStep(f) ==
  \/ StartFetch(f)
  \/ DownloadBegins(f)
  \/ DownloadFails(f)
  \/ CopyFails(f)
  \/ CopyEnds(f)
  \/ CountFailure(f)
  \/ ParseFails(f)
  \/ UpdateMetadata(f)
  \/ EndFetch(f)

Next ==
  \/ \E s \in Streams : Open(s) \/ StreamStep(s) \/ Close(s)
  \/ Poll
  \/ \E f \in Fetchers : FetchStep(f)
  \/ \E n \in Names : ProcessUploaded3MF(n)
  \/ Broadcast

Spec == Init /\ [][Next]_vars

\* Handlers and fetches go on running (a download ends within the two minutes of
\* its context).
Fairness ==
  /\ \A s \in Streams : WF_vars(StreamStep(s))
  /\ \A f \in Fetchers : WF_vars(FetchStep(f))

FairSpec == Spec /\ Fairness

-----------------------------------------------------------------------------
IsPayload(m) ==
  /\ Always \subseteq DOMAIN m
  /\ DOMAIN m \subseteq Always \cup Keys

FetchType == [at : {"idle", "check", "download", "copy", "parse", "failed", "end"},
              job : Jobs \cup {None}, try : Nat]

TypeOK ==
  /\ scenario \in Scenarios
  /\ sent \in 1..Len(Sends)
  /\ status \in Status
  /\ previous \in Actives \cup Terminals \cup {""}
  /\ current \in Names \cup {None}
  /\ cache \subseteq Names
  /\ fetching \subseteq Jobs
  /\ failed \in [Jobs -> Nat]
  /\ download \in Names \cup {None}
  /\ stream \in [Streams -> {"closed", "hydrate", "wait", "build"}]
  /\ taken \in [Streams -> 0..Len(Sends)]
  /\ DOMAIN lastMap = Streams /\ DOMAIN page = Streams
  /\ \A s \in Streams : stream[s] \in {"wait", "build"} => IsPayload(lastMap[s])
  /\ fetcher \in [Fetchers -> FetchType]
  /\ \A f \in Fetchers : fetcher[f].at # "idle" => fetcher[f].job \in Jobs
                          /\ fetcher[f].try \in DOMAIN Candidates[fetcher[f].job]
  /\ uploads \in 0..scenario.uploads
  /\ closes \in 0..MaxCloses

\* What a page shows of the payload it was sent last is that payload, key by key,
\* although it was only ever sent differences, and differences of differences
\* were skipped (computeDelta, lastMap against the page's mergeDeep).  A key
\* that has gone from the payload since stays on the page.
PagesFollow ==
  \A s \in Streams : stream[s] \in {"wait", "build"} =>
    /\ DOMAIN lastMap[s] \subseteq DOMAIN page[s]
    /\ \A k \in DOMAIN lastMap[s] : page[s][k] = lastMap[s][k]

Budget == INSTANCE FetchBudget WITH Max <- MaxRetries, running <- fetching, failures <- failed

\* However many pages ask for a file at once and whatever becomes of its candidates, the
\* fetches implement FetchBudget: one at a time, every failure counted once, none after
\* MaxRetries failures (fetchMetadataAsync: Fetching, FailedFetches).
FetchesWithinBudget == Budget!Spec

\* A download that is shown is one of a fetch that has not ended: a candidate it downloads or
\* has tried, although several fetches write the one display, each without looking at the
\* others, and each resets it at its end (fetchMetadataAsync, downloadToTemp).
DownloadShownWhileFetching ==
  download # None =>
    \E f \in Fetchers :
      /\ fetcher[f].at \in {"download", "copy", "parse", "failed", "end"}
      /\ \E i \in 1..fetcher[f].try : download = Candidates[Job(f)][i]

\* If a page was open before the printer's last status was sent, and none is ever
\* closed, one of the pages shows that status in the end: the streams store their
\* updates into session.Status in any order and build from what another may have
\* stored, but the last one to store the last update builds from it (handleAPIEvents).
SomePageCurrent ==
  <>(sent < Len(Sends) /\ \E s \in Streams : stream[s] # "closed") =>
    <>[](sent = Len(Sends) /\ closes = 0 =>
           \E s \in Streams : page[s] # NoPage /\ page[s]["print"] = <<sent>>)

=============================================================================
