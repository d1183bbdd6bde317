---------------------------- MODULE SessionPool ----------------------------
(***************************************************************************)
(* The web server's sessions and its pool of printer clients               *)
(* (cmd/bambulan/web.go): Sessions under Mu; ActiveClients and             *)
(* ActiveBridges, both keyed by the printer's serial, under ClientsMu.     *)
(*                                                                         *)
(* HTTP requests log in (handleLogin and tryRestoreSession run the same    *)
(* getClient ... addSession) or log out, and the goroutine of Start        *)
(* expires idle sessions.  Mu is taken before ClientsMu.  getClient keeps  *)
(* ClientsMu while it dials the printer, so a dial is two actions, and     *)
(* between getClient and addSession a request holds neither lock.  A stop  *)
(* of a client takes time too, with ClientsMu held, and Mu in a removal:   *)
(* Client.Stop waits for the broker to disconnect and then, in File.Close, *)
(* for the lock that a running file operation holds.                       *)
(***************************************************************************)
EXTENDS Integers, FiniteSets

CONSTANTS
  Requests,     \* goroutines of the HTTP server
  Expirer,      \* the ticker goroutine of WebServer.Start
  Serials,      \* printers (the key of both pools)
  Hosts, Codes, \* what a login form or an auth cookie may carry
  ClientIds,    \* bambulan.Client objects; bounds the dials of a behaviour
  SessionIds,   \* session ids
  MaxSessions,  \* maxSessions, 256 in the code
  IdleTimeout,  \* sessionIdleTimeout, in ticks
  MaxTime,      \* bound: ticks of the clock
  MaxTransfers, \* bound: file operations under way at a time
  Bridging,     \* s.MQTTBroker is set
  None          \* no client, no process

Procs == Requests \cup {Expirer}

ASSUME ProcAssumption == Expirer \notin Requests /\ None \notin Procs
ASSUME InputAssumption == Serials # {} /\ Hosts # {} /\ Codes # {}
ASSUME ClientAssumption == None \notin ClientIds
ASSUME BoundAssumption == /\ MaxSessions \in Nat \ {0}
                          /\ IdleTimeout \in Nat /\ MaxTime \in Nat /\ MaxTransfers \in Nat
                          /\ Bridging \in BOOLEAN

VARIABLES
  clients,       \* every client ever made: serial, host, code, state, bridge, file lock
  pool,          \* s.ActiveClients
  bridges,       \* s.ActiveBridges: the client whose bridge the entry cancels
  sessions,      \* s.Sessions: the client of each session (None: no such session)
  sessionCode,   \* the access code the session's user presented (ghost)
  lastSeen,      \* session.lastSeen
  mu, clientsMu, \* holders of s.Mu (for writing) and s.ClientsMu
  job,           \* what each goroutine is doing
  toScan,        \* sessions the range loop of expireSessions has still to visit
  now            \* the clock

poolVars == <<clients, pool, bridges>>
sessionVars == <<sessions, sessionCode, lastSeen>>
vars == <<poolVars, sessionVars, mu, clientsMu, job, toScan, now>>

Stopping == {"disconnecting", "closing"}
ClientStates == {"unused", "dialing", "running", "stopped"} \cup Stopping
BridgeStates == {"none", "dialing", "running", "ended"}
Dialing == {"dialNew", "dialReplace"}
UnderClientsMu == Dialing \cup {"rehost", "replace"}
Removal == {"evict", "logout", "expire"}
UnderMu == Removal \cup {"insert", "release", "scan"}
WithClient == {"have", "evict", "insert"}
Steps == {"idle", "get", "have"} \cup UnderClientsMu \cup UnderMu

Client == [serial : Serials, host : Hosts, code : Codes, state : ClientStates,
           bridge : BridgeStates, cancelled : BOOLEAN,
           busy : BOOLEAN]  \* a file operation holds File.mu
Job == [pc : Steps, serial : Serials, host : Hosts, code : Codes,
        client : ClientIds \cup {None}, seen : 0..MaxTime, doomed : Serials]

Live(sid) == sessions[sid] # None
LiveSessions == {sid \in SessionIds : Live(sid)}
SerialOf(sid) == clients[sessions[sid]].serial

SomeSerial == CHOOSE s \in Serials : TRUE
SomeHost == CHOOSE h \in Hosts : TRUE
SomeCode == CHOOSE c \in Codes : TRUE
IdleJob == [pc |-> "idle", serial |-> SomeSerial, host |-> SomeHost, code |-> SomeCode,
            client |-> None, seen |-> 0, doomed |-> SomeSerial]
NewClient == [serial |-> SomeSerial, host |-> SomeHost, code |-> SomeCode, state |-> "unused",
              bridge |-> "none", cancelled |-> FALSE, busy |-> FALSE]

Goto(p, step) == job' = [job EXCEPT ![p].pc = step]
Finish(p) == job' = [job EXCEPT ![p] = IdleJob]

-----------------------------------------------------------------------------
Init ==
  /\ clients = [c \in ClientIds |-> NewClient]
  /\ pool = [s \in Serials |-> None]
  /\ bridges = [s \in Serials |-> None]
  /\ sessions = [sid \in SessionIds |-> None]
  /\ sessionCode = [sid \in SessionIds |-> SomeCode]
  /\ lastSeen = [sid \in SessionIds |-> 0]
  /\ mu = None
  /\ clientsMu = None
  /\ job = [p \in Procs |-> IdleJob]
  /\ toScan = {}
  /\ now = 0

-----------------------------------------------------------------------------
(* getClient. *)

\* Mutant: the bridge is not cancelled.
StopBegun_LeavesBridge(s) ==
  [c \in ClientIds |-> [clients[c] EXCEPT !.state = IF c = pool[s] THEN "disconnecting" ELSE @]]

\* stopClientLocked: the clients once the bridge for s is cancelled and Client.Stop
\* of the pool's client for s waits in Disconnect.
StopBegun(s) ==
  [c \in ClientIds |->
     [clients[c] EXCEPT !.cancelled = @ \/ c = bridges[s],
                        !.state = IF c = pool[s] THEN "disconnecting" ELSE @]]

\* Client.Stop has returned, or there was nothing to stop.
StopDone(s) == pool[s] # None => clients[pool[s]].state = "stopped"

\* A login form, or an auth cookie with no session behind it, is taken up, while
\* there is a client left for the request to dial (a bound of the model).
Login(r) ==
  /\ job[r].pc = "idle"
  /\ Cardinality({q \in Requests : job[q].pc \in {"get", "rehost"}}) < Cardinality({c \in ClientIds : clients[c].state = "unused"})
  /\ \E s \in Serials, h \in Hosts, c \in Codes :
       job' = [job EXCEPT ![r] = [IdleJob EXCEPT !.pc = "get", !.serial = s, !.host = h, !.code = c]]
  /\ UNCHANGED <<poolVars, sessionVars, mu, clientsMu, toScan, now>>

\* Mutant: the access code is not compared.
CodeDiffers_Never(r) == FALSE

Pooled(r) == pool[job[r].serial]
CodeDiffers(r) == Pooled(r) # None /\ clients[Pooled(r)].code # job[r].code
HostDiffers(r) == Pooled(r) # None /\ clients[Pooled(r)].host # job[r].host
InGetClient(r) == job[r].pc = "get" /\ clientsMu = None

\* Another code, and the pooled client is connected (which may be so or not).
RejectCode(r) ==
  /\ InGetClient(r)
  /\ CodeDiffers(r)
  /\ Finish(r)
  /\ UNCHANGED <<poolVars, sessionVars, mu, clientsMu, toScan, now>>

\* The same code and host: the pooled client is shared.
ReuseClient(r) ==
  /\ InGetClient(r)
  /\ Pooled(r) # None /\ ~CodeDiffers(r) /\ ~HostDiffers(r)
  /\ job' = [job EXCEPT ![r].pc = "have", ![r].client = Pooled(r), ![r].seen = now]
  /\ UNCHANGED <<poolVars, sessionVars, mu, clientsMu, toScan, now>>

\* bambulan.NewClient and the start of its Start, with ClientsMu held.
Dial(r, step) ==
  \E c \in ClientIds :
    /\ clients[c].state = "unused"
    /\ clients' = [clients EXCEPT ![c].serial = job[r].serial, ![c].host = job[r].host,
                                  ![c].code = job[r].code, ![c].state = "dialing"]
    /\ job' = [job EXCEPT ![r].pc = step, ![r].client = c]
    /\ clientsMu' = r

\* Another code, and the pooled client is not connected: it keeps running for now.
ReplaceClient(r) ==
  /\ InGetClient(r)
  /\ CodeDiffers(r)
  /\ Dial(r, "dialReplace")
  /\ UNCHANGED <<pool, bridges, sessionVars, mu, toScan, now>>

\* The pooled client is for another host: it is stopped before the dial.
StopOldHost(r) ==
  /\ InGetClient(r)
  /\ ~CodeDiffers(r) /\ HostDiffers(r)
  /\ clients' = StopBegun(job[r].serial)
  /\ bridges' = [bridges EXCEPT ![job[r].serial] = None]
  /\ clientsMu' = r
  /\ Goto(r, "rehost")
  /\ UNCHANGED <<pool, sessionVars, mu, toScan, now>>

\* No pooled client, or no longer one.
FreshClient(r) ==
  /\ \/ InGetClient(r) /\ Pooled(r) = None
     \/ job[r].pc = "rehost" /\ StopDone(job[r].serial)
  /\ Dial(r, "dialNew")
  /\ pool' = [pool EXCEPT ![job[r].serial] = None]
  /\ UNCHANGED <<bridges, sessionVars, mu, toScan, now>>

\* Mutant: an early return forgets to unlock.
DialFails_KeepsLock(r) ==
  /\ job[r].pc \in Dialing
  /\ clients' = [clients EXCEPT ![job[r].client].state = "stopped"]
  /\ Finish(r)
  /\ UNCHANGED <<pool, bridges, sessionVars, mu, clientsMu, toScan, now>>

DialFails(r) ==
  /\ job[r].pc \in Dialing
  /\ clients' = [clients EXCEPT ![job[r].client].state = "stopped"]
  /\ Finish(r)
  /\ clientsMu' = None
  /\ UNCHANGED <<pool, bridges, sessionVars, mu, toScan, now>>

\* r's client enters the pool, with a bridge if one is configured.
EnterPool(r) ==
  LET c == job[r].client
      s == job[r].serial
  IN /\ clients' = [clients EXCEPT ![c].state = "running",
                                   ![c].bridge = IF Bridging THEN "dialing" ELSE "none"]
     /\ pool' = [pool EXCEPT ![s] = c]
     /\ bridges' = [bridges EXCEPT ![s] = IF Bridging THEN c ELSE None]
     /\ job' = [job EXCEPT ![r].pc = "have", ![r].seen = now]
     /\ clientsMu' = None
     /\ UNCHANGED <<sessionVars, mu, toScan, now>>

\* Mutant: a client whose replacement connects is overwritten, not stopped.
DialSucceeds_Overwrites(r) == job[r].pc \in Dialing /\ EnterPool(r)

DialSucceeds(r) == job[r].pc = "dialNew" /\ EnterPool(r)

\* The replacement is connected: the client it replaces is stopped,
StopReplaced(r) ==
  /\ job[r].pc = "dialReplace"
  /\ clients' = [StopBegun(job[r].serial) EXCEPT ![job[r].client].state = "running"]
  /\ bridges' = [bridges EXCEPT ![job[r].serial] = None]
  /\ Goto(r, "replace")
  /\ UNCHANGED <<pool, sessionVars, mu, clientsMu, toScan, now>>

\* and only then does the replacement take its place.
Replaced(r) == job[r].pc = "replace" /\ StopDone(job[r].serial) /\ EnterPool(r)

-----------------------------------------------------------------------------
(* addSession, removeSessionLocked and their callers. *)

\* Mutant: the scan for other users still finds the session that is removed.
Remove_CountsItself(p, sid, stop, next) ==
  /\ sessions' = [sessions EXCEPT ![sid] = None]
  /\ job' = [job EXCEPT ![p].pc = IF \E other \in LiveSessions : SerialOf(other) = SerialOf(sid)
                                  THEN next ELSE stop,
                        ![p].doomed = SerialOf(sid)]
  /\ sessionCode' = [sessionCode EXCEPT ![sid] = SomeCode]
  /\ lastSeen' = [lastSeen EXCEPT ![sid] = 0]

\* removeSessionLocked up to the stop: p goes to `next` when another session has
\* the same serial, and to `stop`, to wait for ClientsMu, when none has.
Remove(p, sid, stop, next) ==
  /\ sessions' = [sessions EXCEPT ![sid] = None]
  /\ job' = [job EXCEPT ![p].pc = IF \E other \in LiveSessions \ {sid} : SerialOf(other) = SerialOf(sid)
                                  THEN next ELSE stop,
                        ![p].doomed = SerialOf(sid)]
  /\ sessionCode' = [sessionCode EXCEPT ![sid] = SomeCode]
  /\ lastSeen' = [lastSeen EXCEPT ![sid] = 0]

Store(r, sid) ==
  /\ sessions' = [sessions EXCEPT ![sid] = job[r].client]
  /\ sessionCode' = [sessionCode EXCEPT ![sid] = job[r].code]
  /\ lastSeen' = [lastSeen EXCEPT ![sid] = job[r].seen]

\* Mutant: the limit is off by one.
AddSession_OneMore(r) ==
  /\ job[r].pc = "have"
  /\ mu = None
  /\ Cardinality(LiveSessions) <= MaxSessions
  /\ \E sid \in SessionIds \ LiveSessions : Store(r, sid)
  /\ Finish(r)
  /\ UNCHANGED <<poolVars, mu, clientsMu, toScan, now>>

\* addSession below the limit.
AddSession(r) ==
  /\ job[r].pc = "have"
  /\ mu = None
  /\ Cardinality(LiveSessions) < MaxSessions
  /\ \E sid \in SessionIds \ LiveSessions : Store(r, sid)
  /\ Finish(r)
  /\ UNCHANGED <<poolVars, mu, clientsMu, toScan, now>>

\* addSession at the limit: a least recently seen session goes first.
Evict(r) ==
  /\ job[r].pc = "have"
  /\ mu = None
  /\ Cardinality(LiveSessions) >= MaxSessions
  /\ mu' = r
  /\ \E sid \in LiveSessions :
       /\ \A other \in LiveSessions : lastSeen[sid] <= lastSeen[other]
       /\ Remove(r, sid, "evict", "insert")
  /\ UNCHANGED <<poolVars, clientsMu, toScan, now>>

Insert(r) ==
  /\ job[r].pc = "insert"
  /\ \E sid \in SessionIds \ LiveSessions : Store(r, sid)
  /\ Finish(r)
  /\ mu' = None
  /\ UNCHANGED <<poolVars, clientsMu, toScan, now>>

Logout(r) ==
  /\ job[r].pc = "idle"
  /\ mu = None
  /\ mu' = r
  /\ \E sid \in LiveSessions : Remove(r, sid, "logout", "release")
  /\ UNCHANGED <<poolVars, clientsMu, toScan, now>>

\* stopClientLocked, called with Mu held; when it returns, the caller goes on.
StopBegins(p) ==
  /\ job[p].pc \in Removal
  /\ clientsMu = None
  /\ clientsMu' = p
  /\ clients' = StopBegun(job[p].doomed)
  /\ bridges' = [bridges EXCEPT ![job[p].doomed] = None]
  /\ UNCHANGED <<pool, sessionVars, mu, job, toScan, now>>

StopEnds(p) ==
  /\ job[p].pc \in Removal
  /\ clientsMu = p
  /\ StopDone(job[p].doomed)
  /\ pool' = [pool EXCEPT ![job[p].doomed] = None]
  /\ clientsMu' = None
  /\ Goto(p, CASE job[p].pc = "evict" -> "insert"
               [] job[p].pc = "logout" -> "release"
               [] job[p].pc = "expire" -> "scan")
  /\ UNCHANGED <<clients, bridges, sessionVars, mu, toScan, now>>

Release(p) ==
  /\ job[p].pc = "release"
  /\ Finish(p)
  /\ mu' = None
  /\ UNCHANGED <<poolVars, sessionVars, clientsMu, toScan, now>>

\* expireSessions: one pass over the map with Mu held.
ExpireBegin ==
  /\ job[Expirer].pc = "idle"
  /\ mu = None
  /\ mu' = Expirer
  /\ toScan' = LiveSessions
  /\ Goto(Expirer, "scan")
  /\ UNCHANGED <<poolVars, sessionVars, clientsMu, now>>

Idle(sid) == lastSeen[sid] < now - IdleTimeout

ExpireOne ==
  /\ job[Expirer].pc = "scan"
  /\ \E sid \in toScan :
       /\ toScan' = toScan \ {sid}
       /\ IF Idle(sid) THEN Remove(Expirer, sid, "expire", "scan")
                       ELSE UNCHANGED <<sessionVars, job>>
  /\ UNCHANGED <<poolVars, mu, clientsMu, now>>

ExpireEnd ==
  /\ job[Expirer].pc = "scan"
  /\ toScan = {}
  /\ Goto(Expirer, "release")
  /\ UNCHANGED <<poolVars, sessionVars, mu, clientsMu, toScan, now>>

\* getSession finds the session under the read lock and touches it.
Touch(sid) ==
  /\ mu = None
  /\ Live(sid)
  /\ lastSeen' = [lastSeen EXCEPT ![sid] = now]
  /\ UNCHANGED <<poolVars, sessions, sessionCode, mu, clientsMu, job, toScan, now>>

Tick ==
  /\ now < MaxTime
  /\ now' = now + 1
  /\ UNCHANGED <<poolVars, sessionVars, mu, clientsMu, job, toScan>>

-----------------------------------------------------------------------------
(* The goroutine of startBridgeLocked. *)

\* NewBridge dials the Home Assistant broker; it does not look at bridgeCtx.
BridgeDials(c) ==
  /\ clients[c].bridge = "dialing"
  /\ \E b \in {"running", "ended"} : clients' = [clients EXCEPT ![c].bridge = b]
  /\ UNCHANGED <<pool, bridges, sessionVars, mu, clientsMu, job, toScan, now>>

\* bridge.Start returns once bridgeCtx is cancelled, and the bridge closes.
BridgeEnds(c) ==
  /\ clients[c].bridge = "running"
  /\ clients[c].cancelled
  /\ clients' = [clients EXCEPT ![c].bridge = "ended"]
  /\ UNCHANGED <<pool, bridges, sessionVars, mu, clientsMu, job, toScan, now>>

-----------------------------------------------------------------------------
(* Client.Stop, in the goroutine that holds ClientsMu, and the file operations *)
(* it waits for.                                                               *)

SetState(c, from, to) ==
  /\ clients[c].state = from
  /\ clients' = [clients EXCEPT ![c].state = to]
  /\ UNCHANGED <<pool, bridges, sessionVars, mu, clientsMu, job, toScan, now>>

\* MQTT.Stop: Disconnect, which has no deadline, returns; StopStream waits for nobody.
Disconnected(c) == SetState(c, "disconnecting", "closing")

\* File.Close gets the lock and closes the connection.
CloseFile(c) == ~clients[c].busy /\ SetState(c, "closing", "stopped")

SetBusy(c, b) ==
  /\ clients[c].busy = ~b
  /\ clients' = [clients EXCEPT ![c].busy = b]
  /\ UNCHANGED <<pool, bridges, sessionVars, mu, clientsMu, job, toScan, now>>

\* A handler or the bridge runs withContext: also one that took the client from its
\* session before the stop.  (On a stopped client nobody waits for the lock.)
TransferBegins(c) ==
  /\ clients[c].state \in {"running"} \cup Stopping
  /\ Cardinality({d \in ClientIds : clients[d].busy}) < MaxTransfers
  /\ SetBusy(c, TRUE)

TransferEnds(c) == SetBusy(c, FALSE)

-----------------------------------------------------------------------------
GetClient(r) ==
  \/ RejectCode(r) \/ ReuseClient(r) \/ ReplaceClient(r) \/ StopOldHost(r) \/ FreshClient(r)

Next ==
  \/ \E r \in Requests :
       \/ Login(r) \/ GetClient(r)
       \/ DialFails(r) \/ DialSucceeds(r) \/ StopReplaced(r) \/ Replaced(r)
       \/ AddSession(r) \/ Evict(r) \/ Insert(r) \/ Logout(r)
  \/ \E p \in Procs : StopBegins(p) \/ StopEnds(p) \/ Release(p)
  \/ ExpireBegin \/ ExpireOne \/ ExpireEnd
  \/ \E sid \in SessionIds : Touch(sid)
  \/ \E c \in ClientIds :
       \/ BridgeDials(c) \/ BridgeEnds(c)
       \/ Disconnected(c) \/ CloseFile(c) \/ TransferBegins(c) \/ TransferEnds(c)
  \/ Tick

Spec == Init /\ [][Next]_vars

\* The next step of a call, or of an expiry pass, that has begun.
Step(p) ==
  \/ /\ p \in Requests
     /\ \/ GetClient(p)
        \/ DialFails(p) \/ DialSucceeds(p) \/ StopReplaced(p) \/ Replaced(p)
        \/ AddSession(p) \/ Evict(p) \/ Insert(p)
  \/ p = Expirer /\ (ExpireOne \/ ExpireEnd)
  \/ StopBegins(p) \/ StopEnds(p) \/ Release(p)
  \/ clientsMu = p /\ \E c \in ClientIds : CloseFile(c)

\* A dial ends by itself (ConnectTimeout), and Go's mutexes hand the lock to a
\* goroutine that has waited long enough, so nobody waits for one forever that is
\* given back again and again.  Nothing is assumed of Disconnect and of transfers.
Fairness == \A p \in Procs : SF_vars(Step(p))

FairSpec == Spec /\ Fairness

-----------------------------------------------------------------------------
\* The type invariant, with the part of the type of a lock that TLA+ leaves out:
\* it is held exactly by the goroutine in the section it protects, which for a
\* removal begins when stopClientLocked does.
TypeOK ==
  /\ clients \in [ClientIds -> Client]
  /\ pool \in [Serials -> ClientIds \cup {None}]
  /\ bridges \in [Serials -> ClientIds \cup {None}]
  /\ sessions \in [SessionIds -> ClientIds \cup {None}]
  /\ sessionCode \in [SessionIds -> Codes]
  /\ lastSeen \in [SessionIds -> 0..MaxTime]
  /\ mu \in Procs \cup {None}
  /\ clientsMu \in Procs \cup {None}
  /\ job \in [Procs -> Job]
  /\ toScan \subseteq SessionIds
  /\ now \in 0..MaxTime
  /\ \A p \in Procs : /\ mu = p <=> job[p].pc \in UnderMu
                      /\ job[p].pc \in UnderClientsMu => clientsMu = p
                      /\ clientsMu = p => job[p].pc \in UnderClientsMu \cup Removal

\* A printer connection runs only while it is pooled under its serial, or about to
\* be, and the pool keeps a client that does not run only while its stop is under
\* way: getClient, whatever dial fails and whichever replacement it makes, neither
\* leaves a dead client in the pool nor a connection nobody can stop any more.
Entering(c) == \E r \in Requests : job[r].pc = "replace" /\ job[r].client = c
BeingStopped(s) == \E p \in Procs : /\ clientsMu = p
                                    /\ \/ job[p].pc \in {"rehost", "replace"} /\ job[p].serial = s
                                       \/ job[p].pc \in Removal /\ job[p].doomed = s

PoolIsTheRunning ==
  /\ \A c \in ClientIds :
       clients[c].state = "running" => pool[clients[c].serial] = c \/ Entering(c)
  /\ \A s \in Serials :
       pool[s] # None => /\ clients[pool[s]].serial = s
                         /\ clients[pool[s]].state = "running" \/ BeingStopped(s)

\* A bridge that has not been cancelled serves the pooled client of its serial, and
\* can still be cancelled (startBridgeLocked, stopClientLocked).
BridgesFollowPool ==
  \A c \in ClientIds :
    clients[c].bridge \in {"dialing", "running"} /\ ~clients[c].cancelled =>
      /\ pool[clients[c].serial] = c
      /\ bridges[clients[c].serial] = c

\* No session works through a client that was opened with another access code than
\* the one its user gave (getClient's comparison, across reuse and replacement).
SessionsKnowTheirCode ==
  \A sid \in SessionIds : Live(sid) => clients[sessions[sid]].code = sessionCode[sid]

\* A pooled client has a session that will release it, or a request on its way to
\* make one, or a removal on its way to stop it: no connection is kept for nobody.
Creating(s) == \E r \in Requests : /\ job[r].pc \in WithClient
                                   /\ clients[job[r].client].serial = s
Removing(s) == \E p \in Procs : job[p].pc \in Removal /\ job[p].doomed = s

NoIdleConnection ==
  \A s \in Serials : pool[s] # None =>
    (\E sid \in LiveSessions : SerialOf(sid) = s) \/ Creating(s) \/ Removing(s)

\* The table never holds more than maxSessions, however many logins meet at the
\* limit (addSession).
SessionLimit == Cardinality(LiveSessions) <= MaxSessions

\* As long as no Disconnect and no file operation lasts for ever, every login,
\* restore and logout returns, and so does every expiry pass: nobody waits for ever
\* on Mu, on ClientsMu, or on a dial or a Client.Stop that holds them.
PrinterAnswers == \A c \in ClientIds : /\ []<>(clients[c].state # "disconnecting")
                                      /\ []<>~clients[c].busy

EveryCallReturns ==
  PrinterAnswers => \A p \in Procs : job[p].pc # "idle" ~> job[p].pc = "idle"

\* removeSessionLocked "deletes a session and stops its printer client if no other
\* session uses it": a session never sits on a stopped client.
SessionClientRuns == \A sid \in SessionIds : Live(sid) => clients[sessions[sid]].state = "running"

=============================================================================
