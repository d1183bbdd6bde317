# TLA+ verification of BambuLAN

BambuLAN is a Go library, a command line, a web interface and a Home Assistant
bridge for Bambu Lab printers in LAN mode. This directory holds TLA+ modules that
model the parts of it where goroutines, callbacks, connections and caches meet,
the TLC configurations that check them on small instances, and TLAPS proofs of
their safety properties for every value of the constants.

`PROJECT.json` lists the components, the runs, the mutants, the source lines every
definition stands for, the findings, the hazards and the theorems.

    tlc -workers 2 -config MCSessionPool_pool.cfg MCSessionPool     # one run
    tlapm SessionPoolProofs.tla                                     # one proof module

## 1. Inventory

| Component | Source | State | Operations | What is hard | What makes it correct |
|---|---|---|---|---|---|
| MQTT client | `mqtt_client.go` | the shared `PrinterStatus`, the map of subscriber channels, one RWMutex | `onMessage` (merge, promote, `processInfo`, broadcast), `Subscribe`, `Cancel`, commands | handlers, subscribers and callers run concurrently; bounded channels; four sources for the model (serial, `get_version`, a report, telemetry), and a report may carry limits of its own | no send on a closed channel, updates in order and eventually current, the model told last, safe temperatures |
| Capabilities | `capabilities.go`, `printer_capabilities.json` | tables, loaded once | lookup by model, alias, serial prefix | none (pure) | the limits of a model |
| Client facade | `client.go` | three sub-clients | `Start`, `Stop`, `Subscribe` | `Stop` waits for the broker and for the file client's lock | stops everything it started |
| Camera client | `camera_client.go` | `streaming`, `stopChan`; the read buffer | `StartStream`, `StopStream`, `streamLoop`, `CaptureFrame`, `extractFrames` | a stopped goroutine outlives its stream; markers split across reads | no double close, every stream can be stopped, whole frames, bounded memory |
| Web: sessions and pool | `cmd/bambulan/web.go` | `Sessions` under `Mu`; `ActiveClients`, `ActiveBridges` under `ClientsMu` | login, restore, logout, evict, expire, `getClient`, bridges | two locks, dials that hold one, checks and uses in different critical sections | the pool is what runs, nobody gets a connection of another code, nothing leaks, nobody waits forever |
| Web: camera handler | `web.go` `handleCamera` | `stopped`, `writeMu` | serve, stop | callbacks after the handler returned; several viewers of one printer | no late write, a viewer is served until it hangs up |
| Web: status and metadata | `web.go` `buildStatusPayload`, `handleAPIEvents`, `fetchMetadataAsync` | `session.Status`, metadata cache, fetch flags and counters, progress | server-sent events with differences, polling, asynchronous fetches with retries | several event loops and fetches share a session; keys that disappear | a page shows what it was sent and one page ends up current, retries are bounded |
| Web: files, print, control | `web.go` | upload progress | one or two printer calls each | progress callbacks after a cancelled upload; a model that is older than the printer's | paths stay where they belong, limits hold |
| File client | `file_client.go` | the shared FTPS connection under `mu` | `withContext` around every operation, `Close`, atomic download; walks over remote trees | a cancelled call's function goes on in the background; the tree changes during a walk | one user per connection, nothing partial becomes visible, success means all of it and nothing else |
| Home Assistant bridge | `homeassistant/bridge.go` | last published values, model, light, files | event loop, file sync, command and connection callbacks, `Close`, last will | callbacks against the event loop, reconnects, failed publishes | what Home Assistant shows is what the bridge believes it shows, and in the end what the printer is |
| Printer commands | `mqtt_client.go`, called from `main.go`, `web.go`, `bridge.go` | the sequence number | some thirty commands, some of which are waited for | recognising an answer in merged, reordered, possibly dropped updates; restarts | an answer is that of the command, an AMS is not overlooked, no limit is exceeded |
| Filament profiles | `internal/filament` | a map of profiles | `LoadAll`, `resolve`, `Find`, `LoadColors` | memoised inheritance in random order, cycles | the result does not depend on the order |
| 3MF reader, HMS codes, generator, templates | `internal/bambu3mf`, `internal/hms`, `cmd/gen-capabilities`, `templates` | none | parsing, lookup, rendering | sequential | not modelled |

How they interact: the mq library calls `onMessage` in goroutines of its own; a
report is merged into the status and a clone of it is sent to every subscriber.
Subscribers are the event streams of the web server (one per open page), the Home
Assistant bridge (one per pooled client) and waiting commands. The web server's
sessions share one `bambulan.Client` per printer serial, kept in the pool; the
last session to go stops it. The camera handler and the file handlers use the same
shared client from any number of requests.

## 2. Modules

| Module | Models | Extended by |
|---|---|---|
| `StatusFeed` | status, reports, subscriptions, light and temperature commands of `MQTTClient` | `MCStatusFeed`, `StatusFeedProofs` |
| `SessionPool` | sessions, pooled clients and bridges of the web server, with both locks | `MCSessionPool`, `SessionPoolProofs` |
| `CameraStream` | the stream of `CameraClient` and the handler `handleCamera` | `MCCameraStream`, `CameraProofs` |
| `FrameScan` | `extractFrames` in the read loop | `MCFrameScan`, `CameraProofs` |
| `FileConn` | the connection, the calls and the streams of `FileClient`, the local file and the upload status | `MCFileConn`, `FileConnProofs` |
| `RemoteFiles` | removing, downloading and changing remote trees, one FTP command at a time | `MCRemoteFiles`, `RemoteFilesProofs` |
| `HABridge` | the Home Assistant bridge between the status updates and the topics of a broker | `MCHABridge`, `HABridgeProofs` |
| `WebStatus` | what the pages of a session are shown, and the metadata downloads behind it | `MCWebStatus`, `WebStatusProofs` |
| `FetchBudget` | the abstract specification of those downloads, which `WebStatus` implements | instantiated by `WebStatus` |
| `PrinterControl` | all commands of the three front ends, answers, AMS detection, processes that follow one another | `MCPrinterControl`, `PrinterControlProofs` |
| `Filaments` | profiles and their inheritance, as sets of outcomes | `PrinterControl` |

`PrinterControl` composes the command line, the web handlers and the callbacks of the
bridge with the printer's connection, and extends `Filaments` for `ams filament`.
`WebStatus`, `HABridge` and `StatusFeed` meet at a subscription: `StatusFeed` shows
that what comes out of one is in order, with updates missing; the other two take any
status (`HABridge`) or a prefix of the printer's in order (`WebStatus`). `RemoteFiles`
takes from `FileConn` that a client does one thing at a time.

Each model names its bounds as constants (`MaxMsgs`, `MaxCommands`, `MaxTime`,
`MaxStops`, and the finite sets of ids); no bound is hidden in an action. A
definition called `X_Something` next to `X` is a mutant of it: `X` with a bug
that is plausible there. Every property of every passing run is violated under at
least one mutant (`PROJECT.json`, `mutants`), so none of them holds idly.

### StatusFeed

A critical section under `m.mu.Lock()` is one action. Its guard `NoReader` says that
no goroutine is in a long read section. The only long read section is the loop of
`broadcastStatus`, which is three actions: `BroadcastBegin` (RLock and clone),
`BroadcastSend` once for each subscriber, `BroadcastEnd`. `onMessage` is a
sequence of places (`pc`): merge the print section or fail, broadcast, process the
info section, broadcast. A report is a record of what `onMessage` tells apart. `Merged` is
`json.Unmarshal` into the live status: what the print section `carries` overwrites the field of the status, its
model and its bed limit as well, each by itself; what it lacks stays. `Promoted` comes after it in the same section. A
channel holds the versions of the statuses that were cloned into it, since all that its readers are shown here is how old they are.
`SetChamberLight` publishes and then writes; the temperature commands check and
then publish, each in two actions, with anything in between.

`version`, `seen`, `lossy`, `merged`, `told`, `identified`, `honest` and `known` are ghosts: nothing
the program does depends on them. `told` is the model that a report or a `get_version` reply has told last, and `honest` says that
nothing delivered so far claims a model or a limit that is not the printer's own; a printer that does may be heated
as it says, and `KnownTemperatureSafe` does not speak of it. `Models` and the tables `BedCap` and `ChamberCap` stand for
`GetPrinterCapabilities`; a model the table file does not know is a model whose
entries are the defaults. Abstracted: all other fields of the status, the nozzle limit
(the code of the bed limit again), JSON, and the library that delivers the reports.

### SessionPool

`clients` holds every `bambulan.Client` ever made and what became of it. `getClient`
keeps `ClientsMu` while it dials, so it is two actions: one that decides
(`RejectCode`, `ReuseClient`, `ReplaceClient`, `FreshClient`) and one that ends the dial
(`DialFails`, `DialSucceeds`). `stopClientLocked` takes time too: it begins by cancelling the bridge (`StopBegun`), then
`Client.Stop` waits with `ClientsMu` held, first for the broker (`Disconnected`, which has no deadline) and then in `File.Close`
for the file client's lock (`CloseFile`, while no file operation is `busy`), and only then the pool's entry goes. So it is two actions
wherever it is called: `StopOldHost` and `FreshClient` for another host, `StopReplaced` and `Replaced` for a replacement that has
connected, and `StopBegins` and `StopEnds` in `removeSessionLocked`, which runs with `Mu` held and waits for `ClientsMu` after
`Remove`. `TransferBegins` and `TransferEnds` are the file operations of handlers and of the bridge, which
go on during a stop. Whether a client that exists is connected is open at every login, so both
branches for a different access code are always possible. The bridge goroutine first dials the Home
Assistant broker without looking at its context, then runs until it is cancelled.
Time is a counter; `lastSeen` is compared with it as in the code.

### CameraStream

A stream goroutine is named by the `stopChan` it was made with, which is what
`streamLoop`'s deferred function compares. It looks at the channel only in `Select`,
once per read. A viewer is a call of `handleCamera`; its `onImage` takes `writeMu`
and looks at `stopped` (`Emit`), and writes (`Written`).

### FrameScan

Bytes are the four that occur in the markers and one for all others. An iteration of
the loop of `extractFrames` is an action, one for each way it can end. Every way to
cut the stream into reads is a behaviour.

### FileConn

A call dials at most one connection, so a connection has the name of the call that
dialled it. A call has three goroutines: its caller (`pc`: the lock, `getConn`, the
select of `withContext`), the function it runs or the copy loop of `Download` (`fn`),
and the background Quit of a cancelled call (`quit`). `Abandon` is the cancelled branch
of the select: it drops `f.client`, unlocks and returns while `fn` goes on. The
function of `DownloadFile` is one action for each step that can fail; a listing, a
deletion or an upload is a single step (`WorkEnds`), before which an upload may call
back (`Progress`). `file` is the one local path that all downloads write, `shown` the
`UploadStatus` of one session, which every upload handler uses. The ftp library is
external: commands succeed on an open connection only, and fail at any time.
Abstracted: contents, paths, sizes and the entries of a listing. A second session has
an `UploadStatus` of its own, which is a second instance of the same variable.

### RemoteFiles

A path is a sequence of names and the storage a function from paths to files, directories
and links. An operation keeps a stack of directories with what is left to do in each
(`op`), as the recursion of `removeAll` and `DownloadDirectory` does, and one FTP command
is one action, so that the printer and the other user come in between. The server, with
what it makes of links and of odd names, is external. `Cleaning` is the fold that `path.Clean`
and `filepath.Clean` are, with and without a root. The trees, calls, odd entries and
written files are constants of which only their shape is assumed (`GoodTree`: all there is on the way
to a path are directories). `kept` records, for `DownloadIsComplete` only, the files that were
there all the time since a client was called; no guard reads it.

### HABridge

One action for each step between which something else can happen: `ReceiveStatus` decides on
the model, `Identify` and `ReadFiles` are the two sections that `publishDiscovery` reads
under, `PublishEntity` is one retained configuration, then the state, the availability and the
light with the HMS flag. A publish that is waited for fails when the connection is broken; one that is
not is lost (`Publish`). Ten published numbers are one temperature here, since every one
of them goes through the same filter. The configurations keep the device's model, what depends on the model
and the file list, which are read at three different moments. There are several syncers: the goroutine of `Start`, whose
first listing waits for the discovery (`SyncHourly`), and the callbacks of `refresh_files`, which wait for nothing
(`RefreshFiles`). They list the card, store the list and announce side by side, each with the model it read when it stored. `printer` says what is
watched: what its serial tells, its true model, the statuses it may send and what happens in the behaviour. What a status
claims is external (`MayClaim`): the printer's model, or the one before, or before either nothing or a P1S. `lost` and `mixed` are ghosts.

### WebStatus and FetchBudget

Each section under `session.Mu` is one action. `buildStatusPayload` is `Build`, taken by an event stream's
first payload, its later ones and by polling. A payload is a function from the keys that are
present; `ComputeDelta` and the page's `MergeDeep` are functions on those. A goroutine of
`fetchMetadataAsync` walks through its candidates, each downloaded over a connection of its own (`File.Download` dials one so that
it need not take the file client's lock), so any number of them run side by side and write the one display `download`. `StartFetch` decides in its own section, as the code does at the beginning of
`fetchMetadataAsync`, so two pages can ask for one file.

### PrinterControl and Filaments

A command is the set of payloads it may publish, empty when it refuses: `SetFanSpeed("part", 30)`.
A front end's operator is the set of what its users can make it publish, so a `Run` method reads as it does in
`main.go`. `process` is the running process; what the next one inherits is the clock, what is still on the
way and the printer. The status is reduced to model, limits, telemetry, sequence id, result, command and AMS (and the ghost
`identified`). `Updated` is what one report does to it: `Merged` overwrites what the report carries, model and limits as well, `Promoted` takes
a printer without a model, or a P1P, that shows telemetry for a P1S, and `Identified` is `processInfo`. A printer tells only
its own model (P1P and P1S are one, as in `StatusFeed`) and its own limits, in any of its reports or in none. `Filaments` gives
the set of all outcomes of `LoadAll`, one for each order in which the map may be walked.

## 3. Runs

| Run | Asks |
|---|---|
| `feed` | an X1E whose serial tells nothing, which tells its model by `get_version` or in a report that carries its bed limit too, and once claims to be a P1P; two handlers, one subscriber with a channel of one, one command: no panic, nothing goes backwards, the model is the one told last, a temperature checked for a printer that told the truth is still within its limits when it is sent, a subscriber that is not lossy ends up current |
| `pool_safety` | two requests, one printer with two hosts and two codes, three clients, two sessions, bridges, expiry, stops that wait |
| `pool_limit` | two requests, two printers, two hosts, up to two file operations at a time and a table of one: the limit holds through eviction, and every call returns, unless a `Disconnect` or a file operation lasts for ever |
| `pool_race` (violation) | "stops its printer client if no other session uses it" |
| `camera_streams` | three viewers, two streams, one `Client.Stop`: safety, and a stopped stream ends |
| `camera_served` (violation) | a viewer is served until it disconnects |
| `frame_scan` | 432 streams of up to 24 bytes, `maxFrameSize` 9, reads of up to 3 bytes |
| `file_calls` | two calls, each of any kind, cancelled and failing anywhere: safety, the lock comes back, nothing remains |
| `remote_files` | a page and a command on seven paths with a link between two directories, three kinds of listings, one file that the printer writes |
| `ha_bridge` | five printers: a P1S whose serial says P1P with three statuses a degree apart, a delta of two and every input and fault (light, printer, card, broken connection, restart of Home Assistant, stop); the same P1S and an H2D with a chamber heater, which tell their models late, the H2D after it was taken for a P1S, while announcements fail and the card changes; and two H2Ds, the second of which cannot be announced at first, whose file list is refreshed by a user during the hourly sync, around a change of the model and of the card. One input and one fault each |
| `web_status` | two pages and a key that comes and goes; or one page, polling, two fetches, two jobs, an upload, with one failure allowed |
| `commands` | nine scripts of one or two processes, two printers, every command at and beyond its limits, a channel of one, one unasked report (a model, limits, telemetry, a foreign result) or one broken connection; 9.5 million states, the largest run |

Why the bounds are enough: the hazards are pairs (a cancel and a broadcast, a login and
a logout, a late goroutine and the next stream, a lost message and the next status, a renaming and a removal),
and each instance has room for two of everything that meets, and a third where a third could be overtaken. A
channel of capacity 1 is full after one send, as one of 16 is after sixteen.
`maxFrameSize` 9 and the pieces of `MCInputs` give frames that fit, that are dropped and that
reach the limit exactly. `MaxRetries` 1 in `web_status` is enough to meet the limit with two fetches, and
`MaxDepth` 2 in `commands` has chains that fit, that do not, and one that goes in a circle. In
`ha_bridge` a single fault at any moment shows every publish failing or lost once; a second one starts from
states the first has left and the loop has already repaired or recorded. Two syncers are enough to list in one order and store in the
other, and two models to announce with an older one; each printer takes one of these apart from the others, since together they
only add interleavings of what is independent. The theorems below do not depend on any of
these bounds.

`CHECK_DEADLOCK FALSE` is set throughout: the environments are finite (so many reports,
logins, streams), and a system at rest is not a deadlock. That nobody
waits forever is stated as liveness instead.

Symmetry is used only in runs without a liveness property, over ids that no
definition tells apart.

### Fairness

- `StatusFeed`: a handler that runs keeps running, since its sends never block and a
  waiting writer keeps new readers out of a `sync.RWMutex`; a subscriber keeps receiving.
  Nothing makes the printer report again.
- `SessionPool`: a dial ends (`WithConnectTimeout(5s)`), and a goroutine that waits for a
  `sync.Mutex` gets it, since Go's mutexes hand over to a waiter that starves: strong
  fairness of each goroutine's next step (`Step`). Logins and the ticker are not fair. Nothing is
  assumed of `Disconnect`, which is called without a deadline, and of file operations, which nobody need cancel: `EveryCallReturns` names
  them in its premise `PrinterAnswers`. That is a limit of the code: one transfer that hangs keeps `Mu` and `ClientsMu` taken
  as soon as its client is stopped.
- `CameraStream`: dials and reads have deadlines. The server has no write timeout
  (`web.go` 286), so a write to a viewer is only fair once the viewer has hung up.

- `FileConn`: `Noop`, `Dial` and `Login` have a timeout of ten seconds, and a select whose
  context is done goes on. The function and the Quit of a cancelled call are *not*
  fair in `FairSpec`, so `LockIsReleased` holds though they hang. `NothingRemains` states what it
  needs itself: `TimeoutsFire`, the timeouts of the ftp library. It assumes that the content
  of an upload can be read without waiting, which is so for the file of a web form, and
  that the user of a stream closes its reader, as `Download` demands.
- `HABridge`: goroutines go on, the mq library reconnects (`WithAutoReconnect`), minutes pass, and a printer
  that is watched keeps reporting: weak fairness of the loop,
  of a sync once it runs and of the hourly one's next listing, of `LinkRestored` and of `MinutePasses`. Faults, inputs and
  `refresh_files` are not fair.
- `WebStatus`: handlers and fetches go on (a fetch has a context of two minutes). Nothing makes a page open, or the
  printer send.

### Findings

Two comments of the code are contradicted by what it does, and each has a run with a
counterexample (`PROJECT.json`, `findings`): a new session that is given a client that was just
stopped, and a viewer that stops another viewer's stream.

### Observations

Seen while modelling, without a run of their own:

- `mqtt_client.go` 184: "They will get the next one" holds only if the printer reports again.
- `mqtt_client.go` 243: a report's `device_model`, `bed_temp_limit` and `nozzle_temp_limit` overwrite what `get_version` has set, each by
  itself, and the temperature commands check against them; hence the premise `honest` of `KnownTemperatureSafe`.
- `client.go` 62-64 and `web.go` 431: a stop waits without a deadline, with `ClientsMu` held and in a removal `Mu`.
- `mqtt_client.go` 257-264 and 972: `processInfo` sets a promoted P1S back to P1P on every `get_version`; the branch
  that should keep it is dead, since `prevModel` is read after the merge.
- `mqtt_client.go` 74: a sequence that starts at the time in seconds collides with that of a process that started in the same
  second, or that has sent more than one command per second; hence the premise of `AnswerIsOwn`.
- `mqtt_client.go` 832: a fan speed of 100 percent is sent as 254, since 2.55 is not a binary number.
- `file_client.go` 123: "fn finishing late is harmless", but a cancelled download may still rename its
  file over a later one.
- `camera_client.go` 35: the comment on `maxFrameSize` ("each read rescans") is older than `scanned`.
- `web.go` 601: the status is a "Shared Status pointer" no more; updates are copies, and only an open event stream stores
  them (892). A page that only polls sees the status of the login.
- `web.go` 1487, 1502-1513: a file that cannot be parsed does not count as a failure; `FailedFetches` is never
  reset; a finished print removes one of the two cache entries its file has (701 and 1812).
- `web.go` 808: a key that leaves the status is not mentioned in a difference and stays on the page.
- `bridge.go` 78: after the broker has published the last will and the connection is back nobody publishes ON.
- `bridge.go` 392: the light is published as switched when the command has failed.
- `bridge.go` 853: `hms_error_active` is not retained and only published on a change, so Home Assistant does not know it after a restart.
- `main.go` 981: `DumpInfoCmd` prints the first update, which may be partial.
- `main.go` 1395-1407: the fallbacks 190 and 220 may give a minimum above the maximum; with both ids given the temperatures
  are sent as 0.
- `bridge.go` 466-497: a number that cannot be parsed counts as 0, so a heater is switched off.

## 4. Proofs

All theorems are checked by TLAPS, for every value of the constants that satisfies the
named ASSUMEs of the module (TLC evaluates them on every run).

**StatusFeedProofs.** `NoSendOnClosed` and `ReceivedInOrder` rest on one fact about the
lock, `LoopHoldsLock`: while a handler is in the loop of `broadcastStatus`,
what it has still to send to is in the map, its snapshot is the current version, and the map
holds open channels only (`MapIsOpen`). Writers need `NoReader`, so they cannot change
it. `Ordered` adds that every channel is sorted, not older than what its reader has
seen. `ModelIsLastTold` is inductive by itself: a merge that carries no model leaves the one told last, and a promotion only changes
none and P1P. `KnownTemperatureSafe` rests on `OwnInv`: as long as the printer is honest, so is
every report in the hands of a handler, and from the first `get_version` reply on the status shows the printer's own limits (`Own`),
which `MergeKeepsOwn` and `ReplyIsOwn` preserve through merges, promotions and further replies in any order; so what was checked then
stays within what would be checked now. It needs the assumption that P1P and P1S have the same limits, which is a fact of
`printer_capabilities.json`. Without `honest` it would be false: a report's `bed_temp_limit` is believed.

**SessionPoolProofs.** `PoolIsTheRunning`, `BridgesFollowPool` are inductive only as `PoolInv`: who owns a
client that is dialed or about to enter the pool (`HoldsOwn`: each has a client of its own, of the
serial and the code it was asked for), and how pool, bridges and clients agree (`Consistent`), given the clients on their way in (`In`)
and the serials whose client is being stopped (`Gone`). Each part of `getClient` and of a stop has its lemma about `Consistent`;
`Quiet`, `Busy` and `Aside` say how the goroutine that takes, holds or gives back `ClientsMu` changes `In` and `Gone`, which no other one can. `SessionsKnowTheirCode` needs that a
request's client has the request's code (`HandedOut`). `NoIdleConnection` needs that a removal in progress
still knows its serial, and that a request with a client keeps it until its session is
stored. `SessionLimit` counts: an insertion follows an eviction under the same
hold of `Mu` (`MadeStay`, `LimitInv`), with the cardinality facts of FiniteSetTheorems.

**CameraProofs.** The stream: `StreamInv` (`CloseIsSafe` and `CanBeStopped` together are inductive); `HandlerInv`
adds to `QuietAfterStop` that a handler past `waiting` has set `stopped` under `writeMu`.
The scan: `SearchedClean` says that the part of an unfinished frame that was searched
holds no end marker, except for one that begins at its last byte, which is why the
search backs up by one. `SearchPaid` is a credit argument: what was searched
is paid for by the bytes read and one per read. `StreamIsCutIntoItsFrames` compares the scan with the frames
of the whole stream, a recursive function of it. Its invariant looks forward: however the stream
goes on, its frames are those emitted and then those that begin in the buffer (`FramesAhead`), and no
frame is complete in the buffer between two reads (`NoneComplete`). That such a function has its recursive
equation, and what holds for every position, is shown from the position of a least counterexample, since the induction
theorems of the library cannot be applied.

**FileConnProofs.** `NoConnectionLost` and `OneUserPerConnection` rest on `ConnInv`: `f.client` changes only in
the hands of the holder of `f.mu` (`Holder`), a connection is nobody's until it is logged
in to and a stream's is its own (`Ownership`), and a function that was abandoned has a
connection that is not `f.client` any more, so the next call cannot get it (`Apart`).
`WholeInv` and `EofInv` add what is about to be renamed, and what is about to end a stream.

**WebStatusProofs.** `FetchInv` gives every fetch past its check its own flag (`StartFetch` tests and sets it in one section) and so makes
`failed` move only below the limit: `BudgetKept` maps every step to a step of `FetchBudget` or to none, and
`DownloadCorrect` adds who shows a download: of a fetch that works, one of the candidates it has got to (`ShownBy`), whatever the others have put there before. `PagesAlwaysFollow` needs that a stream that
has sent something has a payload with all keys of `Always`; `MergeDeep` of a difference then restores it key by key.

**HABridgeProofs.** `ShownIsClose` is inductive with `ShownInv`: what is shown, if anything, is the payload that was recorded last, also
while a publish fails. `TopicsAgree` needs to know of each topic the moments at which topic and record may differ:
`AvailabilityInv`, `LightInv` (the callback publishes and then records, the loop records and then publishes), `HMSInv` and
`OnlineInv`, which with `EventsInv` says that the last connection callback that is due tells how the connection is.

**PrinterControlProofs.** `GoodReport` says of every report, of the status merged from any of them in any order, and of every
copy in the channel: an id that is awaited and that nobody else used comes with the result of that request
(`MergedGood` needs that a report without an id has no result), and an AMS is that of the printer.
`UsedInv` keeps the ids of a process below its counter, so an answer that is already there when a command asks belongs to another
request. Every payload of every front end is `Sound`: once `get_version` has told the model, within the limits of the printer itself; before,
within the defaults, those of a P1S, or the printer's own, since that is what the client may take it for by then
(`BeliefInv`: what the status shows, and what every report under way tells; `HeatSound`). The chamber's limit is always the printer's own, since a
P1S has no heater.
`ResolvedIsNearest` is about a calculation. `Grounded` are the profiles whose chain ends within the limit. On the way back
from an ancestor (`Back`, by downward induction over the depth) each profile of the chain has its own values, no known value
is lost, and every known value is that of the nearest ancestor (`Good`), so that the profile asked for has all that
matter (`BackFull`: its chain ended, or it was complete). `Right` says what is so after any set of profiles was visited, and
`OutcomesRight` extends it one visit at a time, by induction over the number of names; the recursive
functions of `Filaments` are shown to exist first (`VisitedIs`, `ResolveIs`, `OutcomesAre`). It needs that a directory has
finitely many profiles and none without a name, which `LoadAll` skips (`NamesAssumption`).

**RemoteFilesProofs.** First paths: `Below` is an order in which what is above one path is a chain, joining
and `Beyond` undo one another, and cleaning gives plain paths and keeps them (`CleanType`, `CleanPlain`).
Then trees: every change of the storage keeps `GoodTree` (`GoodPut`, `GoodWithout`, `GoodMoved`), so a path that exists, or
that has something below it, has no link on the way (`NoLinkAbove`). On these rest
- `SavesOnlyBelow`: `WalkInv`, every frame of a download is saved below the directory that was named;
- `RemovedMeansGone`: `BottomInv`, the last frame of a removal is that of the path asked for, and a frame is only popped
  when its path is gone;
- `DownloadIsComplete`: `CompleteInv`, each kept file is saved, or below an entry that is still to do in some frame
  that leads to it; that its directory was listed at another time than the file was there is what `kept` settles;
- `RemovesOnlyBelow`: `ClearInv`, from the path asked for to that of any frame there is no link but one that is yet to be
  deleted, because `RemoveTry` deletes a link before anything is listed. With that `FollowedBelow`: where the server
  follows links above both, it follows them to places that are below one another. This theorem has two premises, and both are
  limits of the code: `NamesAreListed`, the server lists names without separators (`removeAll` joins what it is
  given, unlike `DownloadDirectory`), and `NoLinkMovedIn`, nobody moves a link to where a removal is
  at work (between the failed DELE and LIST it would be followed). That the printer or another client renames, removes or writes
  anything else there is not excluded.

Only model-checked: liveness (`EventuallyCurrent`, `EveryCallReturns`, `StoppedStreamEnds`,
`LockIsReleased`, `NothingRemains`, `Converges`, `SomePageCurrent`), which TLAPS
does not prove. Every invariant and every other action property of the passing runs is also proved.

## 5. What is left

1. Abstract specifications of the older modules (a mailbox that loses but never reorders for `StatusFeed`, a
   reference-counted resource for `SessionPool`), as `FetchBudget` is for `WebStatus`.
2. Two bridges of one printer on one broker: the one of a replaced client ends after the new one has started.

Not modelled: 3MF parsing, HMS texts, the capability generator, the templates, cookie encryption, flag parsing, the fields of
discovery configurations, the camera frames the bridge publishes, the login rate limit and CSRF tokens, `StatusCmd`,
`SysInfoCmd` and `CaptureCmd`: sequential code without state between calls, or printing.
