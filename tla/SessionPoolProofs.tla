------------------------- MODULE SessionPoolProofs -------------------------
(***************************************************************************)
(* Proofs about SessionPool, for any number of requests, printers,         *)
(* clients and sessions.                                                   *)
(***************************************************************************)
EXTENDS SessionPool, FiniteSetTheorems, TLAPS

\* The clients on their way into the pool, and the serials whose client is being
\* stopped, when the jobs are j and m holds ClientsMu.
In(j) == {c \in ClientIds : \E r \in Requests : j[r].pc = "replace" /\ j[r].client = c}
Gone(j, m) ==
  {s \in Serials : \E p \in Procs : /\ m = p
                                    /\ \/ j[p].pc \in {"rehost", "replace"} /\ j[p].serial = s
                                       \/ j[p].pc \in Removal /\ j[p].doomed = s}

\* The pools and the clients, as they are (cl, po, br) at some point of an action:
\* a pooled client has the serial it is pooled under, and runs unless its stop has
\* begun, when it has lost its bridge; every client that runs is pooled or on its
\* way in; a client has no bridge before it is pooled, nor at all where none is
\* configured; a bridge nobody cancelled is that of a pooled client.
Serving(client) == client.bridge \in {"dialing", "running"} /\ ~client.cancelled
Leaving == Stopping \cup {"stopped"}

Consistent(cl, po, br, in, gone) ==
  /\ \A s \in Serials : po[s] # None =>
       /\ po[s] \in ClientIds /\ cl[po[s]].serial = s
       /\ cl[po[s]].state \in IF s \in gone THEN Leaving ELSE {"running"}
  /\ \A s \in Serials : br[s] = IF Bridging /\ s \notin gone THEN po[s] ELSE None
  /\ \A c \in ClientIds :
       /\ cl[c].state = "running" => c \in in \/ po[cl[c].serial] = c
       /\ cl[c].state \in {"unused", "dialing"} \/ ~Bridging \/ c \in in => cl[c].bridge = "none"
       /\ c \in in => cl[c].state = "running" /\ po[cl[c].serial] # c
       /\ Serving(cl[c]) => po[cl[c].serial] = c /\ cl[c].serial \notin gone

\* A request that dials or replaces a client holds one in that state, made from its form.
HoldsOwn ==
  \A r \in Requests :
    /\ job[r].pc \in Dialing \cup {"replace"} =>
         /\ job[r].client \in ClientIds
         /\ clients[job[r].client].state = IF job[r].pc = "replace" THEN "running" ELSE "dialing"
         /\ clients[job[r].client].serial = job[r].serial
         /\ clients[job[r].client].code = job[r].code
    /\ job[r].pc = "dialNew" => pool[job[r].serial] = None

\* Clients that were handed out, to a request or to a session, were made, and with
\* the code they were asked for.
Made(client) == client.state \in {"running"} \cup Leaving

HandedOut ==
  /\ \A r \in Requests : job[r].pc \in WithClient =>
       /\ job[r].client \in ClientIds
       /\ Made(clients[job[r].client])
       /\ clients[job[r].client].code = job[r].code
  /\ \A sid \in SessionIds : Live(sid) =>
       /\ Made(clients[sessions[sid]])
       /\ clients[sessions[sid]].code = sessionCode[sid]

\* The expirer is never in a login.
ExpirerOnlyExpires == job[Expirer].pc \in {"idle", "scan", "expire", "release"}

\* The sessions expireSessions has still to visit are in the map: it holds Mu.
ScanLive == /\ toScan \subseteq LiveSessions
            /\ toScan # {} => job[Expirer].pc \in {"scan", "expire"}

PoolInv == Consistent(clients, pool, bridges, In(job), Gone(job, clientsMu)) /\ HoldsOwn

\* addSession makes room before it inserts.
LimitInv ==
  /\ IsFiniteSet(LiveSessions)
  /\ Cardinality(LiveSessions) <= MaxSessions
  /\ \A r \in Requests : job[r].pc \in {"evict", "insert"} => Cardinality(LiveSessions) < MaxSessions

-----------------------------------------------------------------------------
LEMMA IdleType == IdleJob \in Job /\ NewClient \in Client /\ SomeCode \in Codes
<1>1. SomeSerial \in Serials /\ SomeHost \in Hosts /\ SomeCode \in Codes
  BY InputAssumption DEF SomeSerial, SomeHost, SomeCode
<1>2. IdleJob \in Job
  BY <1>1, BoundAssumption DEF IdleJob, Job, Steps
<1>3. NewClient \in Client
  BY <1>1 DEF NewClient, Client, ClientStates, BridgeStates
<1> QED BY <1>1, <1>2, <1>3

LEMMA InitType == Init => TypeOK
<1> SUFFICES ASSUME Init PROVE TypeOK
  OBVIOUS
<1>1. /\ clients \in [ClientIds -> Client]
      /\ job \in [Procs -> Job]
      /\ sessionCode \in [SessionIds -> Codes]
  BY IdleType DEF Init
<1>2. lastSeen \in [SessionIds -> 0..MaxTime] /\ now \in 0..MaxTime
  BY BoundAssumption DEF Init
<1>3. \A p \in Procs : job[p].pc = "idle"
  BY DEF Init, IdleJob
<1>4. \A p \in Procs : /\ mu = p <=> job[p].pc \in UnderMu
                       /\ job[p].pc \in UnderClientsMu => clientsMu = p
                       /\ clientsMu = p => job[p].pc \in UnderClientsMu \cup Removal
  BY <1>3, ProcAssumption DEF Init, UnderMu, UnderClientsMu, Removal, Dialing
<1> QED BY <1>1, <1>2, <1>4 DEF Init, TypeOK

\* The beginning of stopClientLocked keeps the type of the clients.
LEMMA StopBegunType ==
  ASSUME TypeOK, NEW s \in Serials
  PROVE  StopBegun(s) \in [ClientIds -> Client]
<1> SUFFICES ASSUME NEW c \in ClientIds
             PROVE  [clients[c] EXCEPT !.cancelled = @ \/ c = bridges[s],
                                       !.state = IF c = pool[s] THEN "disconnecting" ELSE @] \in Client
  BY DEF StopBegun
<1>1. clients[c] \in Client
  BY DEF TypeOK
<1> QED BY <1>1 DEF Client, ClientStates, Stopping

\* A request that begins to dial.
LEMMA DialType ==
  ASSUME TypeOK, NEW r \in Requests, NEW step \in Dialing, Dial(r, step)
  PROVE  /\ clients' \in [ClientIds -> Client]
         /\ job' \in [Procs -> Job]
         /\ clientsMu' = r
         /\ \A p \in Procs : job'[p].pc = IF p = r THEN step ELSE job[p].pc
<1>1. PICK c \in ClientIds :
        /\ clients' = [clients EXCEPT ![c].serial = job[r].serial, ![c].host = job[r].host,
                                      ![c].code = job[r].code, ![c].state = "dialing"]
        /\ job' = [job EXCEPT ![r].pc = step, ![r].client = c]
        /\ clientsMu' = r
  BY DEF Dial
<1>2. r \in Procs /\ job[r] \in Job /\ clients[c] \in Client
  BY DEF Procs, TypeOK
<1>3. job[r].serial \in Serials /\ job[r].host \in Hosts /\ job[r].code \in Codes
  BY <1>2 DEF Job
<1>4. clients'[c] \in Client /\ clients' \in [ClientIds -> Client]
  BY <1>1, <1>2, <1>3 DEF Client, ClientStates, TypeOK
<1>5. job' \in [Procs -> Job]
  BY <1>1, <1>2 DEF TypeOK, Job, Steps, UnderClientsMu, Dialing
<1>6. \A p \in Procs : job'[p].pc = IF p = r THEN step ELSE job[p].pc
  BY <1>1, <1>2 DEF TypeOK, Job
<1> QED BY <1>1, <1>4, <1>5, <1>6

\* A request whose client enters the pool.
LEMMA EnterType ==
  ASSUME TypeOK, NEW r \in Requests, EnterPool(r)
  PROVE  /\ clients' \in [ClientIds -> Client]
         /\ pool' \in [Serials -> ClientIds \cup {None}]
         /\ bridges' \in [Serials -> ClientIds \cup {None}]
         /\ job' \in [Procs -> Job]
         /\ \A q \in Procs : job'[q].pc = IF q = r THEN "have" ELSE job[q].pc
<1> DEFINE c == job[r].client
           s == job[r].serial
<1>0. r \in Procs
  BY DEF Procs
<1>1. s \in Serials /\ c \in ClientIds \cup {None}
  BY <1>0 DEF TypeOK, Job
<1>2. clients' = [clients EXCEPT ![c].state = "running",
                                 ![c].bridge = IF Bridging THEN "dialing" ELSE "none"]
  BY DEF EnterPool
<1>2a. clients \in [ClientIds -> Client]
  BY DEF TypeOK
<1>3. clients' \in [ClientIds -> Client]
  <2> HIDE DEF c
  <2>1. CASE c \in ClientIds
    <3>1. [clients[c] EXCEPT !.state = "running", !.bridge = IF Bridging THEN "dialing" ELSE "none"] \in Client
      BY <1>2a, <2>1 DEF Client, ClientStates, BridgeStates
    <3> QED BY <1>2, <1>2a, <2>1, <3>1
  <2>2. CASE c \notin ClientIds
    BY <1>2, <1>2a, <2>2
  <2> QED BY <2>1, <2>2
<1>4. job' \in [Procs -> Job] /\ \A q \in Procs : job'[q].pc = IF q = r THEN "have" ELSE job[q].pc
  <2>1. job' = [job EXCEPT ![r].pc = "have", ![r].seen = now]
    BY DEF EnterPool
  <2>2. job \in [Procs -> Job] /\ now \in 0..MaxTime
    BY DEF TypeOK
  <2>3. [job[r] EXCEPT !.pc = "have", !.seen = now] \in Job
    BY <1>0, <2>2 DEF Job, Steps
  <2>4. job' = [job EXCEPT ![r] = [job[r] EXCEPT !.pc = "have", !.seen = now]]
    BY <2>1
  <2> QED BY <1>0, <2>2, <2>3, <2>4 DEF Job
<1>5. bridges' = [bridges EXCEPT ![s] = IF Bridging THEN c ELSE None] /\ pool' = [pool EXCEPT ![s] = c]
  BY DEF EnterPool
<1>6. pool' \in [Serials -> ClientIds \cup {None}] /\ bridges' \in [Serials -> ClientIds \cup {None}]
  <2> HIDE DEF c, s
  <2> QED BY <1>1, <1>5 DEF TypeOK
<1> QED BY <1>3, <1>4, <1>6

\* How the steps that every action is made of change the jobs.
LEMMA GotoType ==
  ASSUME TypeOK, NEW p \in Procs, NEW step \in Steps, Goto(p, step)
  PROVE  /\ job' \in [Procs -> Job]
         /\ \A q \in Procs : job'[q].pc = IF q = p THEN step ELSE job[q].pc
BY DEF TypeOK, Goto, Job

LEMMA FinishType ==
  ASSUME TypeOK, NEW p \in Procs, Finish(p)
  PROVE  /\ job' \in [Procs -> Job]
         /\ \A q \in Procs : job'[q].pc = IF q = p THEN "idle" ELSE job[q].pc
<1>1. IdleJob.pc = "idle"
  BY DEF IdleJob
<1> QED BY <1>1, IdleType DEF TypeOK, Finish

LEMMA RemoveType ==
  ASSUME TypeOK, NEW p \in Procs, NEW sid \in LiveSessions, NEW stop \in Steps, NEW next \in Steps,
         Remove(p, sid, stop, next)
  PROVE  /\ job' \in [Procs -> Job]
         /\ job'[p].pc \in {stop, next}
         /\ \A q \in Procs \ {p} : job'[q] = job[q]
         /\ sessions' \in [SessionIds -> ClientIds \cup {None}]
         /\ sessionCode' \in [SessionIds -> Codes]
         /\ lastSeen' \in [SessionIds -> 0..MaxTime]
<1>1. SerialOf(sid) \in Serials
  BY DEF TypeOK, SerialOf, LiveSessions, Live, Client
<1>2. /\ job' \in [Procs -> Job]
      /\ job'[p].pc \in {stop, next}
      /\ \A q \in Procs \ {p} : job'[q] = job[q]
  <2>1. PICK step \in {stop, next} : job' = [job EXCEPT ![p].pc = step, ![p].doomed = SerialOf(sid)]
    BY DEF Remove
  <2>2. job[p] \in Job /\ step \in Steps
    BY DEF TypeOK
  <2>3. job'[p] \in Job /\ job'[p].pc = step
    BY <1>1, <2>1, <2>2 DEF TypeOK, Job
  <2> QED BY <2>1, <2>3 DEF TypeOK
<1>3. 0 \in 0..MaxTime
  BY BoundAssumption
<1> QED BY <1>2, <1>3, IdleType DEF TypeOK, Remove

LEMMA StoreType ==
  ASSUME TypeOK, NEW r \in Requests, NEW sid \in SessionIds, Store(r, sid)
  PROVE  /\ sessions' \in [SessionIds -> ClientIds \cup {None}]
         /\ sessionCode' \in [SessionIds -> Codes]
         /\ lastSeen' \in [SessionIds -> 0..MaxTime]
BY DEF TypeOK, Store, Job, Procs

-----------------------------------------------------------------------------
LEMMA NextType == TypeOK /\ ScanLive /\ [Next]_vars => TypeOK'
<1> SUFFICES ASSUME TypeOK, ScanLive, [Next]_vars PROVE TypeOK'
  OBVIOUS
<1> USE DEF poolVars, sessionVars, UnderMu, UnderClientsMu, Removal, Dialing
<1>0. \A r \in Requests : r \in Procs
  BY DEF Procs
<1>1. ASSUME NEW r \in Requests, Login(r) PROVE TypeOK'
  <2>1. job' \in [Procs -> Job] /\ \A q \in Procs : job'[q].pc = IF q = r THEN "get" ELSE job[q].pc
    <3>1. PICK s \in Serials, h \in Hosts, c \in Codes :
            job' = [job EXCEPT ![r] = [IdleJob EXCEPT !.pc = "get", !.serial = s, !.host = h, !.code = c]]
      BY <1>1 DEF Login
    <3> DEFINE new == [IdleJob EXCEPT !.pc = "get", !.serial = s, !.host = h, !.code = c]
    <3>2. new \in Job /\ new.pc = "get"
      BY IdleType DEF Job, Steps
    <3> HIDE DEF new
    <3> QED BY <1>0, <3>1, <3>2 DEF TypeOK, new
  <2> QED BY <1>1, <2>1 DEF Login, TypeOK
<1>2. ASSUME NEW r \in Requests, RejectCode(r) PROVE TypeOK'
  BY <1>0, <1>2, FinishType DEF RejectCode, InGetClient, TypeOK
<1>3. ASSUME NEW r \in Requests, ReuseClient(r) PROVE TypeOK'
  <2>1. Pooled(r) \in ClientIds /\ job[r].pc = "get"
    BY <1>0, <1>3 DEF ReuseClient, Pooled, InGetClient, TypeOK, Job
  <2>2. job' \in [Procs -> Job] /\ \A q \in Procs : job'[q].pc = IF q = r THEN "have" ELSE job[q].pc
    BY <1>0, <1>3, <2>1 DEF ReuseClient, TypeOK, Job, Steps
  <2> QED BY <1>3, <2>1, <2>2 DEF ReuseClient, TypeOK
<1>4. ASSUME NEW r \in Requests, ReplaceClient(r) PROVE TypeOK'
  <2>1. /\ clients' \in [ClientIds -> Client]
        /\ job' \in [Procs -> Job]
        /\ clientsMu' = r
        /\ \A p \in Procs : job'[p].pc = IF p = r THEN "dialReplace" ELSE job[p].pc
    BY <1>4, DialType DEF ReplaceClient, TypeOK
  <2> QED BY <1>0, <1>4, <2>1, ProcAssumption DEF ReplaceClient, InGetClient, TypeOK
<1>5. ASSUME NEW r \in Requests, FreshClient(r) PROVE TypeOK'
  <2>1. job[r].serial \in Serials
    BY <1>0 DEF TypeOK, Job
  <2>2. /\ clients' \in [ClientIds -> Client]
        /\ job' \in [Procs -> Job]
        /\ clientsMu' = r
        /\ \A p \in Procs : job'[p].pc = IF p = r THEN "dialNew" ELSE job[p].pc
    BY <1>5, DialType DEF FreshClient
  <2>3. pool' \in [Serials -> ClientIds \cup {None}]
    BY <1>5, <2>1 DEF FreshClient, TypeOK
  <2>4. clientsMu \in {None, r} /\ job[r].pc \in {"get", "rehost"}
    BY <1>0, <1>5 DEF FreshClient, InGetClient, TypeOK
  <2>5. \A p \in Procs : /\ mu = p <=> job'[p].pc \in UnderMu
                         /\ job'[p].pc \in UnderClientsMu => clientsMu' = p
                         /\ clientsMu' = p => job'[p].pc \in UnderClientsMu \cup Removal
    BY <1>0, <2>2, <2>4, ProcAssumption DEF TypeOK
  <2> QED BY <1>0, <1>5, <2>2, <2>3, <2>5 DEF FreshClient, TypeOK
<1>5a. ASSUME NEW r \in Requests, StopOldHost(r) PROVE TypeOK'
  <2>1. job[r].serial \in Serials /\ Goto(r, "rehost")
    BY <1>0, <1>5a DEF TypeOK, Job, StopOldHost
  <2>2. clients' \in [ClientIds -> Client]
    BY <1>5a, <2>1, StopBegunType DEF StopOldHost
  <2>3. bridges' \in [Serials -> ClientIds \cup {None}]
    BY <1>5a, <2>1 DEF StopOldHost, TypeOK
  <2>4. job' \in [Procs -> Job] /\ \A q \in Procs : job'[q].pc = IF q = r THEN "rehost" ELSE job[q].pc
    BY <1>0, <2>1, GotoType DEF Steps
  <2> QED BY <1>0, <1>5a, <2>2, <2>3, <2>4, ProcAssumption DEF StopOldHost, InGetClient, TypeOK
<1>6. ASSUME NEW r \in Requests, DialFails(r) PROVE TypeOK'
  <2>1. clients' \in [ClientIds -> Client]
    <3>1. CASE job[r].client \in ClientIds
      <4>1. [clients[job[r].client] EXCEPT !.state = "stopped"] \in Client
        BY <3>1 DEF TypeOK, Client, ClientStates
      <4> QED BY <1>6, <3>1, <4>1 DEF DialFails, TypeOK
    <3>2. CASE job[r].client \notin ClientIds
      BY <1>6, <3>2 DEF DialFails, TypeOK
    <3> QED BY <3>1, <3>2
  <2> QED BY <1>0, <1>6, <2>1, FinishType, ProcAssumption DEF DialFails, TypeOK
<1>7. ASSUME NEW r \in Requests, DialSucceeds(r) \/ Replaced(r) PROVE TypeOK'
  <2>1. EnterPool(r) /\ job[r].pc \in {"dialNew", "replace"}
    BY <1>7 DEF DialSucceeds, Replaced
  <2>2. /\ clients' \in [ClientIds -> Client]
        /\ pool' \in [Serials -> ClientIds \cup {None}]
        /\ bridges' \in [Serials -> ClientIds \cup {None}]
        /\ job' \in [Procs -> Job]
        /\ \A q \in Procs : job'[q].pc = IF q = r THEN "have" ELSE job[q].pc
    BY <2>1, EnterType
  <2>3. clientsMu = r /\ clientsMu' = None /\ UNCHANGED <<sessionVars, mu, toScan, now>>
    BY <1>0, <2>1 DEF EnterPool, TypeOK
  <2>4. \A q \in Procs : /\ mu' = q <=> job'[q].pc \in UnderMu
                         /\ job'[q].pc \in UnderClientsMu => clientsMu' = q
                         /\ clientsMu' = q => job'[q].pc \in UnderClientsMu \cup Removal
    BY <1>0, <2>1, <2>2, <2>3, ProcAssumption DEF TypeOK
  <2> QED BY <2>2, <2>3, <2>4 DEF TypeOK
<1>7a. ASSUME NEW r \in Requests, StopReplaced(r) PROVE TypeOK'
  <2> DEFINE c == job[r].client
             base == StopBegun(job[r].serial)
  <2>1. job[r].serial \in Serials /\ Goto(r, "replace") /\ c \in ClientIds \cup {None}
    BY <1>0, <1>7a DEF TypeOK, Job, StopReplaced
  <2>2. base \in [ClientIds -> Client] /\ clients' = [base EXCEPT ![c].state = "running"]
    BY <1>7a, <2>1, StopBegunType DEF StopReplaced
  <2>3. clients' \in [ClientIds -> Client]
    <3> HIDE DEF base, c
    <3> QED BY <2>1, <2>2 DEF Client, ClientStates
  <2>4. bridges' \in [Serials -> ClientIds \cup {None}]
    BY <1>7a, <2>1 DEF StopReplaced, TypeOK
  <2>5. job' \in [Procs -> Job] /\ \A q \in Procs : job'[q].pc = IF q = r THEN "replace" ELSE job[q].pc
    BY <1>0, <2>1, GotoType DEF Steps
  <2> QED BY <1>0, <1>7a, <2>3, <2>4, <2>5 DEF StopReplaced, TypeOK
<1>8. ASSUME NEW r \in Requests, AddSession(r) PROVE TypeOK'
  BY <1>0, <1>8, FinishType, StoreType DEF AddSession, TypeOK
<1>9. ASSUME NEW r \in Requests, Evict(r) PROVE TypeOK'
  <2>1. PICK sid \in LiveSessions : Remove(r, sid, "evict", "insert")
    BY <1>9 DEF Evict
  <2> QED BY <1>0, <1>9, <2>1, RemoveType, ProcAssumption DEF Evict, TypeOK, Steps
<1>10. ASSUME NEW r \in Requests, Insert(r) PROVE TypeOK'
  BY <1>0, <1>10, FinishType, StoreType, ProcAssumption DEF Insert, TypeOK
<1>11. ASSUME NEW r \in Requests, Logout(r) PROVE TypeOK'
  <2>1. PICK sid \in LiveSessions : Remove(r, sid, "logout", "release")
    BY <1>11 DEF Logout
  <2> QED BY <1>0, <1>11, <2>1, RemoveType, ProcAssumption DEF Logout, TypeOK, Steps
<1>12. ASSUME NEW p \in Procs, StopEnds(p) PROVE TypeOK'
  <2>1. PICK step \in {"insert", "release", "scan"} : Goto(p, step)
    BY <1>12 DEF StopEnds
  <2>2. job[p].doomed \in Serials
    BY DEF TypeOK, Job
  <2>4. job' \in [Procs -> Job] /\ \A q \in Procs : job'[q].pc = IF q = p THEN step ELSE job[q].pc
    BY <2>1, GotoType DEF Steps
  <2>5. pool' \in [Serials -> ClientIds \cup {None}]
    BY <1>12, <2>2 DEF StopEnds, TypeOK
  <2>6. mu' = mu /\ clientsMu' = None /\ clientsMu = p /\ job[p].pc \in Removal
    BY <1>12 DEF StopEnds
  <2>7. \A q \in Procs : /\ mu' = q <=> job'[q].pc \in UnderMu
                         /\ job'[q].pc \in UnderClientsMu => clientsMu' = q
                         /\ clientsMu' = q => job'[q].pc \in UnderClientsMu \cup Removal
    BY <2>4, <2>6, ProcAssumption DEF TypeOK
  <2> QED BY <1>12, <2>4, <2>5, <2>7 DEF StopEnds, TypeOK
<1>12a. ASSUME NEW p \in Procs, StopBegins(p) PROVE TypeOK'
  <2>1. job[p].doomed \in Serials
    BY DEF TypeOK, Job
  <2>2. clients' \in [ClientIds -> Client] /\ bridges' \in [Serials -> ClientIds \cup {None}]
    BY <1>12a, <2>1, StopBegunType DEF StopBegins, TypeOK
  <2> QED BY <1>12a, <2>2, ProcAssumption DEF StopBegins, TypeOK
<1>13. ASSUME NEW p \in Procs, Release(p) PROVE TypeOK'
  BY <1>13, FinishType, ProcAssumption DEF Release, TypeOK
<1>14. CASE ExpireBegin
  <2>1. Expirer \in Procs
    BY DEF Procs
  <2> QED BY <1>14, <2>1, GotoType, ProcAssumption DEF ExpireBegin, TypeOK, Steps, LiveSessions
<1>15. CASE ExpireOne
  <2>1. Expirer \in Procs
    BY DEF Procs
  <2>2. PICK sid \in toScan :
          /\ toScan' = toScan \ {sid}
          /\ IF Idle(sid) THEN Remove(Expirer, sid, "expire", "scan") ELSE UNCHANGED <<sessionVars, job>>
    BY <1>15 DEF ExpireOne
  <2>3. CASE Idle(sid) /\ sid \in LiveSessions
    BY <1>15, <2>1, <2>2, <2>3, RemoveType DEF ExpireOne, TypeOK, Steps
  <2>4. CASE ~Idle(sid)
    BY <1>15, <2>2, <2>4 DEF ExpireOne, TypeOK
  <2> QED BY <2>3, <2>4 DEF ScanLive
<1>16. CASE ExpireEnd
  <2>1. Expirer \in Procs
    BY DEF Procs
  <2> QED BY <1>16, <2>1, GotoType DEF ExpireEnd, TypeOK, Steps
<1>17. ASSUME NEW sid \in SessionIds, Touch(sid) PROVE TypeOK'
  BY <1>17 DEF Touch, TypeOK
<1>18. ASSUME NEW c \in ClientIds, BridgeDials(c) \/ BridgeEnds(c) PROVE TypeOK'
  <2>1. PICK b \in {"running", "ended"} : clients' = [clients EXCEPT ![c].bridge = b]
    BY <1>18 DEF BridgeDials, BridgeEnds
  <2>2. [clients[c] EXCEPT !.bridge = b] \in Client
    BY DEF TypeOK, Client, BridgeStates
  <2>3. clients' \in [ClientIds -> Client]
    BY <2>1, <2>2 DEF TypeOK
  <2> QED BY <1>18, <2>3 DEF BridgeDials, BridgeEnds, TypeOK
<1>18a. ASSUME NEW c \in ClientIds, Disconnected(c) \/ CloseFile(c) PROVE TypeOK'
  <2>1. PICK st \in {"closing", "stopped"} : clients' = [clients EXCEPT ![c].state = st]
    BY <1>18a DEF Disconnected, CloseFile, SetState
  <2>2. [clients[c] EXCEPT !.state = st] \in Client
    BY DEF TypeOK, Client, ClientStates, Stopping
  <2>3. clients' \in [ClientIds -> Client]
    BY <2>1, <2>2 DEF TypeOK
  <2> QED BY <1>18a, <2>3 DEF Disconnected, CloseFile, SetState, TypeOK
<1>18b. ASSUME NEW c \in ClientIds, TransferBegins(c) \/ TransferEnds(c) PROVE TypeOK'
  <2>1. PICK b \in BOOLEAN : clients' = [clients EXCEPT ![c].busy = b]
    BY <1>18b DEF TransferBegins, TransferEnds, SetBusy
  <2>2. [clients[c] EXCEPT !.busy = b] \in Client
    BY DEF TypeOK, Client
  <2>3. clients' \in [ClientIds -> Client]
    BY <2>1, <2>2 DEF TypeOK
  <2> QED BY <1>18b, <2>3 DEF TransferBegins, TransferEnds, SetBusy, TypeOK
<1>19. CASE Tick
  BY <1>19, BoundAssumption DEF Tick, TypeOK
<1>20. CASE UNCHANGED vars
  BY <1>20 DEF vars, TypeOK
<1> QED
  BY <1>1, <1>2, <1>3, <1>4, <1>5, <1>5a, <1>6, <1>7, <1>7a, <1>8, <1>9, <1>10, <1>11, <1>12, <1>12a,
     <1>13, <1>14, <1>15, <1>16, <1>17, <1>18, <1>18a, <1>18b, <1>19, <1>20 DEF Next, GetClient

-----------------------------------------------------------------------------
LEMMA NextScan == TypeOK /\ TypeOK' /\ ScanLive /\ [Next]_vars => ScanLive'
<1> SUFFICES ASSUME TypeOK, TypeOK', ScanLive, [Next]_vars PROVE ScanLive'
  OBVIOUS
<1> USE DEF poolVars, sessionVars
<1>0. \A r \in Requests : r \in Procs /\ r # Expirer /\ r # None
  BY ProcAssumption DEF Procs
<1>a. Expirer \in Procs /\ Expirer # None
  BY ProcAssumption DEF Procs
<1>1. ASSUME UNCHANGED <<sessions, toScan>>, job'[Expirer].pc = job[Expirer].pc PROVE ScanLive'
  BY <1>1 DEF ScanLive, LiveSessions, Live
<1>2. ASSUME toScan' = {} PROVE ScanLive'
  BY <1>2 DEF ScanLive
<1>3. ASSUME mu = None PROVE toScan = {}
  BY <1>3, <1>a DEF ScanLive, TypeOK, UnderMu, Removal
<1>4. ASSUME NEW r \in Requests, mu = r PROVE toScan = {}
  BY <1>0, <1>4, <1>a DEF ScanLive, TypeOK, UnderMu, Removal
<1>5. ASSUME NEW r \in Requests, Finish(r) PROVE job'[Expirer].pc = job[Expirer].pc
  BY <1>0, <1>5 DEF Finish, TypeOK
<1>6. ASSUME NEW r \in Requests, Login(r) \/ ReuseClient(r) PROVE ScanLive'
  <2>1. job'[Expirer] = job[Expirer]
    BY <1>0, <1>a, <1>6 DEF Login, ReuseClient, TypeOK
  <2> QED BY <1>1, <1>6, <2>1 DEF Login, ReuseClient
<1>7. ASSUME NEW r \in Requests, RejectCode(r) \/ DialFails(r) PROVE ScanLive'
  BY <1>1, <1>5, <1>7 DEF RejectCode, DialFails
<1>7a. ASSUME NEW r \in Requests, StopOldHost(r) \/ StopReplaced(r) PROVE ScanLive'
  <2>1. job'[Expirer] = job[Expirer]
    BY <1>0, <1>a, <1>7a DEF StopOldHost, StopReplaced, Goto, TypeOK
  <2> QED BY <1>1, <1>7a, <2>1 DEF StopOldHost, StopReplaced
<1>8. ASSUME NEW r \in Requests, ReplaceClient(r) \/ FreshClient(r) PROVE ScanLive'
  <2>1. job'[Expirer] = job[Expirer]
    BY <1>0, <1>a, <1>8 DEF ReplaceClient, FreshClient, Dial, TypeOK
  <2> QED BY <1>1, <1>8, <2>1 DEF ReplaceClient, FreshClient
<1>9. ASSUME NEW r \in Requests, DialSucceeds(r) \/ Replaced(r) PROVE ScanLive'
  <2>1. job'[Expirer] = job[Expirer]
    BY <1>0, <1>a, <1>9 DEF DialSucceeds, Replaced, EnterPool, TypeOK
  <2> QED BY <1>1, <1>9, <2>1 DEF DialSucceeds, Replaced, EnterPool
<1>10. ASSUME NEW r \in Requests, AddSession(r) \/ Evict(r) \/ Logout(r) PROVE ScanLive'
  BY <1>2, <1>3, <1>10 DEF AddSession, Evict, Logout
<1>11. ASSUME NEW r \in Requests, Insert(r) PROVE ScanLive'
  <2>1. mu = r
    BY <1>0, <1>11 DEF Insert, TypeOK, UnderMu
  <2> QED BY <1>2, <1>4, <1>11, <2>1 DEF Insert
<1>12. ASSUME NEW p \in Procs, StopEnds(p) PROVE ScanLive'
  <2>1. CASE p = Expirer
    <3>1. job[Expirer].pc \in Removal
      BY <1>12, <2>1 DEF StopEnds
    <3>2. CASE job[Expirer].pc = "expire"
      BY <1>12, <1>a, <2>1, <3>2 DEF StopEnds, Goto, ScanLive, LiveSessions, Live, TypeOK
    <3>3. CASE job[Expirer].pc # "expire"
      BY <1>2, <1>12, <3>1, <3>3 DEF ScanLive, Removal, StopEnds
    <3> QED BY <3>2, <3>3
  <2>2. CASE p # Expirer
    BY <1>1, <1>12, <1>a, <2>2 DEF StopEnds, Goto, TypeOK
  <2> QED BY <2>1, <2>2
<1>12a. ASSUME NEW p \in Procs, StopBegins(p) PROVE ScanLive'
  BY <1>1, <1>12a DEF StopBegins
<1>13. ASSUME NEW p \in Procs, Release(p) PROVE ScanLive'
  <2>1. CASE p = Expirer
    BY <1>2, <1>13, <2>1 DEF Release, ScanLive
  <2>2. CASE p # Expirer
    BY <1>1, <1>13, <1>a, <2>2 DEF Release, Finish, TypeOK
  <2> QED BY <2>1, <2>2
<1>14. CASE ExpireBegin
  BY <1>14, <1>a DEF ExpireBegin, Goto, ScanLive, LiveSessions, Live, TypeOK
<1>15. CASE ExpireOne
  <2>1. PICK sid \in toScan :
          /\ toScan' = toScan \ {sid}
          /\ IF Idle(sid) THEN Remove(Expirer, sid, "expire", "scan") ELSE UNCHANGED <<sessionVars, job>>
    BY <1>15 DEF ExpireOne
  <2>2. job'[Expirer].pc \in {"scan", "expire"}
    BY <1>15, <1>a, <2>1 DEF ExpireOne, Remove, TypeOK, Job
  <2>3. \A other \in SessionIds \ {sid} : sessions'[other] = sessions[other]
    BY <2>1 DEF Remove, TypeOK
  <2> QED BY <2>1, <2>2, <2>3 DEF ScanLive, LiveSessions, Live, TypeOK
<1>16. CASE ExpireEnd
  BY <1>2, <1>16 DEF ExpireEnd
<1>17. ASSUME NEW sid \in SessionIds, Touch(sid) PROVE ScanLive'
  BY <1>1, <1>17 DEF Touch
<1>18. ASSUME NEW c \in ClientIds, BridgeDials(c) \/ BridgeEnds(c) PROVE ScanLive'
  BY <1>1, <1>18 DEF BridgeDials, BridgeEnds
<1>18a. ASSUME NEW c \in ClientIds,
               Disconnected(c) \/ CloseFile(c) \/ TransferBegins(c) \/ TransferEnds(c)
        PROVE  ScanLive'
  BY <1>1, <1>18a DEF Disconnected, CloseFile, SetState, TransferBegins, TransferEnds, SetBusy
<1>19. CASE Tick \/ UNCHANGED vars
  BY <1>1, <1>19 DEF Tick, vars
<1> QED
  BY <1>6, <1>7, <1>7a, <1>8, <1>9, <1>10, <1>11, <1>12, <1>12a, <1>13, <1>14, <1>15, <1>16, <1>17, <1>18,
     <1>18a, <1>19
  DEF Next, GetClient

LEMMA InitScan == Init => ScanLive
BY DEF Init, ScanLive

LEMMA TypeInvariant == Spec => [](TypeOK /\ ScanLive)
BY InitType, InitScan, NextType, NextScan, PTL DEF Spec

\* The pool, the sessions and the jobs stay within their types, and each of the two
\* locks is held by exactly one goroutine in its section (web.go).
THEOREM TypeCorrect == Spec => []TypeOK
BY TypeInvariant, PTL

-----------------------------------------------------------------------------
(* The pools. *)

\* The locks as a parameter: who is in a section, and whether m says so.
Locked(j, m) ==
  \A p \in Procs : /\ j[p].pc \in UnderClientsMu => m = p
                   /\ m = p => j[p].pc \in UnderClientsMu \cup Removal

\* Nothing enters the pool and no stop is under way while ClientsMu is free.
LEMMA Quiet ==
  ASSUME NEW j, NEW m, Locked(j, m), m = None
  PROVE  In(j) = {} /\ Gone(j, m) = {}
BY ProcAssumption DEF Locked, In, Gone, Procs, UnderClientsMu

\* What enters and what is being stopped, by what the holder of ClientsMu does.
LEMMA Busy ==
  ASSUME NEW j \in [Procs -> Job], NEW m, Locked(j, m), NEW p \in Procs, m = p
  PROVE  /\ j[p].pc # "replace" => In(j) = {}
         /\ j[p].pc = "replace" => In(j) \subseteq {j[p].client}
         /\ j[p].pc = "replace" /\ p \in Requests /\ j[p].client \in ClientIds => In(j) = {j[p].client}
         /\ j[p].pc \in Dialing => Gone(j, m) = {}
         /\ j[p].pc \in {"rehost", "replace"} => Gone(j, m) = {j[p].serial}
         /\ j[p].pc \in Removal => Gone(j, m) = {j[p].doomed}
<1>1. \A r \in Requests : j[r].pc = "replace" => r = p
  BY DEF Locked, Procs, UnderClientsMu
<1>2. j[p].serial \in Serials /\ j[p].doomed \in Serials
  BY DEF Job
<1>3. \A s \in Serials : s \in Gone(j, m) <=> \/ j[p].pc \in {"rehost", "replace"} /\ j[p].serial = s
                                              \/ j[p].pc \in Removal /\ j[p].doomed = s
  BY DEF Gone
<1>4. Gone(j, m) \subseteq Serials
  BY DEF Gone
<1>5. /\ j[p].pc # "replace" => In(j) = {}
      /\ j[p].pc = "replace" => In(j) \subseteq {j[p].client}
      /\ j[p].pc = "replace" /\ p \in Requests /\ j[p].client \in ClientIds => In(j) = {j[p].client}
  BY <1>1 DEF In
<1>6. CASE j[p].pc \in Dialing
  BY <1>3, <1>4, <1>5, <1>6 DEF Dialing, Removal
<1>7. CASE j[p].pc \in {"rehost", "replace"}
  BY <1>2, <1>3, <1>4, <1>5, <1>7 DEF Dialing, Removal
<1>8. CASE j[p].pc \in Removal
  BY <1>2, <1>3, <1>4, <1>5, <1>8 DEF Dialing, Removal
<1> QED BY <1>5, <1>6, <1>7, <1>8 DEF Locked, UnderClientsMu

\* A goroutine that changes its job outside of the sections of ClientsMu changes neither.
LEMMA Aside ==
  ASSUME NEW j \in [Procs -> Job], NEW k \in [Procs -> Job], NEW m, NEW p \in Procs,
         \A q \in Procs \ {p} : k[q] = j[q], m # p,
         j[p].pc \notin UnderClientsMu, k[p].pc \notin UnderClientsMu
  PROVE  In(k) = In(j) /\ Gone(k, m) = Gone(j, m)
<1>1. \A r \in Requests : r \in Procs
  BY DEF Procs
<1>2. In(k) = In(j)
  BY <1>1 DEF In, UnderClientsMu
<1>3. Gone(k, m) = Gone(j, m)
  BY DEF Gone
<1> QED BY <1>2, <1>3

\* The stop of the client of s begins.
LEMMA ConsistentStopBegins ==
  ASSUME TypeOK, Consistent(clients, pool, bridges, {}, {}), NEW s \in Serials
  PROVE  Consistent(StopBegun(s), pool, [bridges EXCEPT ![s] = None], {}, {s})
<1> DEFINE cl == StopBegun(s)
           br == [bridges EXCEPT ![s] = None]
<1>1. \A c \in ClientIds :
        /\ cl[c].serial = clients[c].serial /\ cl[c].bridge = clients[c].bridge
        /\ cl[c].state = (IF c = pool[s] THEN "disconnecting" ELSE clients[c].state)
        /\ cl[c].cancelled = (clients[c].cancelled \/ c = bridges[s])
        /\ clients[c].serial \in Serials
  BY DEF StopBegun, TypeOK, Client
<1>2. br[s] = None /\ \A r \in Serials \ {s} : br[r] = bridges[r]
  BY DEF TypeOK
<1> HIDE DEF cl, br
<1>3. ASSUME NEW r \in Serials, pool[r] # None
      PROVE  /\ pool[r] \in ClientIds /\ cl[pool[r]].serial = r
             /\ cl[pool[r]].state \in IF r \in {s} THEN Leaving ELSE {"running"}
  <2>1. /\ pool[r] \in ClientIds /\ clients[pool[r]].serial = r /\ clients[pool[r]].state = "running"
        /\ pool[s] # None => clients[pool[s]].serial = s
    BY <1>3 DEF Consistent
  <2>2. CASE r = s
    BY <1>1, <2>1, <2>2 DEF Leaving, Stopping
  <2>3. CASE r # s
    BY <1>1, <2>1, <2>3, <1>3
  <2> QED BY <2>2, <2>3
<1>4. \A r \in Serials : br[r] = IF Bridging /\ r \notin {s} THEN pool[r] ELSE None
  BY <1>2 DEF Consistent
<1>5. ASSUME NEW c \in ClientIds
      PROVE  /\ cl[c].state = "running" => c \in {} \/ pool[cl[c].serial] = c
             /\ cl[c].state \in {"unused", "dialing"} \/ ~Bridging \/ c \in {} => cl[c].bridge = "none"
             /\ c \in {} => cl[c].state = "running" /\ pool[cl[c].serial] # c
             /\ Serving(cl[c]) => pool[cl[c].serial] = c /\ cl[c].serial \notin {s}
  <2>1. cl[c].state = "running" => pool[cl[c].serial] = c
    BY <1>1 DEF Consistent
  <2>2. cl[c].state \in {"unused", "dialing"} \/ ~Bridging => cl[c].bridge = "none"
    BY <1>1 DEF Consistent
  <2>3. ASSUME Serving(cl[c]) PROVE pool[cl[c].serial] = c /\ cl[c].serial # s
    <3>1. Serving(clients[c]) /\ c # bridges[s]
      BY <1>1, <2>3 DEF Serving
    <3>2. pool[clients[c].serial] = c /\ bridges[clients[c].serial] = c
      BY <1>1, <3>1 DEF Consistent, Serving
    <3> QED BY <1>1, <3>1, <3>2
  <2> QED BY <2>1, <2>2, <2>3
<1> QED BY <1>3, <1>4, <1>5 DEF Consistent, cl, br

\* The stop of the client of s has ended.
LEMMA ConsistentStopEnds ==
  ASSUME NEW cl, NEW po \in [Serials -> ClientIds \cup {None}], NEW br, NEW in, NEW s \in Serials,
         Consistent(cl, po, br, in, {s}), po[s] # None => cl[po[s]].state = "stopped",
         \A c \in ClientIds : cl[c].serial \in Serials
  PROVE  Consistent(cl, [po EXCEPT ![s] = None], br, in, {})
<1> DEFINE new == [po EXCEPT ![s] = None]
<1>1. new[s] = None /\ \A r \in Serials \ {s} : new[r] = po[r]
  OBVIOUS
<1> HIDE DEF new
<1>2. ASSUME NEW r \in Serials, new[r] # None
      PROVE  new[r] \in ClientIds /\ cl[new[r]].serial = r /\ cl[new[r]].state = "running"
  BY <1>1, <1>2 DEF Consistent
<1>3. \A r \in Serials : br[r] = IF Bridging THEN new[r] ELSE None
  BY <1>1 DEF Consistent
<1>4. ASSUME NEW c \in ClientIds
      PROVE  /\ cl[c].state = "running" => c \in in \/ new[cl[c].serial] = c
             /\ cl[c].state \in {"unused", "dialing"} \/ ~Bridging \/ c \in in => cl[c].bridge = "none"
             /\ c \in in => cl[c].state = "running" /\ new[cl[c].serial] # c
             /\ Serving(cl[c]) => new[cl[c].serial] = c
  BY <1>1, ClientAssumption DEF Consistent
<1> QED BY <1>2, <1>3, <1>4 DEF Consistent, new

\* A client that was never used starts to dial.
LEMMA ConsistentDial ==
  ASSUME NEW cl \in [ClientIds -> Client], NEW po, NEW br, Consistent(cl, po, br, {}, {}),
         NEW c \in ClientIds, cl[c].state = "unused",
         NEW s \in Serials, NEW h \in Hosts, NEW code \in Codes
  PROVE  Consistent([cl EXCEPT ![c].serial = s, ![c].host = h, ![c].code = code,
                               ![c].state = "dialing"], po, br, {}, {})
<1> DEFINE new == [cl EXCEPT ![c].serial = s, ![c].host = h, ![c].code = code, ![c].state = "dialing"]
<1>1. /\ new[c].serial = s /\ new[c].state = "dialing" /\ new[c].bridge = cl[c].bridge
      /\ \A d \in ClientIds \ {c} : new[d] = cl[d]
  BY DEF Client
<1> HIDE DEF new
<1>2. \A r \in Serials : po[r] # c
  BY ClientAssumption DEF Consistent
<1>3. cl[c].bridge = "none"
  BY DEF Consistent
<1> QED BY <1>1, <1>2, <1>3 DEF Consistent, Serving, new

\* A client that is dialing changes state: the dial fails, or, to replace another
\* one, succeeds.
LEMMA ConsistentDialed ==
  ASSUME NEW cl \in [ClientIds -> Client], NEW po, NEW br, NEW gone, Consistent(cl, po, br, {}, gone),
         NEW c \in ClientIds, cl[c].state = "dialing", NEW st \in {"running", "stopped"},
         \A d \in ClientIds : cl[d].serial \in Serials
  PROVE  Consistent([cl EXCEPT ![c].state = st], po, br, IF st = "running" THEN {c} ELSE {}, gone)
<1> DEFINE new == [cl EXCEPT ![c].state = st]
           in == IF st = "running" THEN {c} ELSE {}
<1>1. /\ new[c].serial = cl[c].serial /\ new[c].state = st /\ new[c].bridge = cl[c].bridge
      /\ new[c].cancelled = cl[c].cancelled
      /\ \A d \in ClientIds \ {c} : new[d] = cl[d]
  BY DEF Client
<1>2. in \subseteq {c} /\ (c \in in <=> st = "running")
  OBVIOUS
<1> HIDE DEF new, in
<1>3. \A r \in Serials : po[r] # c
  BY ClientAssumption DEF Consistent, Leaving, Stopping
<1>4. cl[c].bridge = "none"
  BY DEF Consistent
<1>5. \A r \in Serials : po[r] # None =>
        /\ po[r] \in ClientIds /\ new[po[r]].serial = r
        /\ new[po[r]].state \in IF r \in gone THEN Leaving ELSE {"running"}
  BY <1>1, <1>3 DEF Consistent
<1>6. ASSUME NEW d \in ClientIds
      PROVE  /\ new[d].state = "running" => d \in in \/ po[new[d].serial] = d
             /\ new[d].state \in {"unused", "dialing"} \/ ~Bridging \/ d \in in => new[d].bridge = "none"
             /\ d \in in => new[d].state = "running" /\ po[new[d].serial] # d
             /\ Serving(new[d]) => po[new[d].serial] = d /\ new[d].serial \notin gone
  <2>1. CASE d = c
    BY <1>1, <1>2, <1>3, <1>4, <2>1 DEF Serving
  <2>2. CASE d # c
    BY <1>1, <1>2, <2>2 DEF Consistent
  <2> QED BY <2>1, <2>2
<1>7. \A r \in Serials : br[r] = IF Bridging /\ r \notin gone THEN po[r] ELSE None
  BY DEF Consistent
<1> QED BY <1>5, <1>6, <1>7 DEF Consistent, new, in

\* A client enters the pool, when nobody runs under its serial any more.
LEMMA ConsistentEnter ==
  ASSUME NEW cl \in [ClientIds -> Client], NEW po \in [Serials -> ClientIds \cup {None}],
         NEW br \in [Serials -> ClientIds \cup {None}], NEW in, NEW gone,
         Consistent(cl, po, br, in, gone), NEW c \in ClientIds, NEW s \in Serials, cl[c].serial = s,
         po[s] # None => cl[po[s]].state = "stopped", in \subseteq {c}, gone \subseteq {s},
         NEW new, NEW npo, NEW nbr,
         new = [cl EXCEPT ![c].state = "running", ![c].bridge = IF Bridging THEN "dialing" ELSE "none"],
         npo = [po EXCEPT ![s] = c], nbr = [br EXCEPT ![s] = IF Bridging THEN c ELSE None]
  PROVE  Consistent(new, npo, nbr, {}, {})
<1>1. /\ new[c].serial = s /\ new[c].state = "running"
      /\ new[c].bridge = IF Bridging THEN "dialing" ELSE "none"
      /\ \A d \in ClientIds \ {c} : new[d] = cl[d]
      /\ \A d \in ClientIds : cl[d].serial \in Serials
  BY DEF Client
<1>2. /\ npo[s] = c /\ nbr[s] = IF Bridging THEN c ELSE None
      /\ \A r \in Serials \ {s} : npo[r] = po[r] /\ nbr[r] = br[r]
  OBVIOUS
<1>3. \A r \in Serials : npo[r] # None =>
        npo[r] \in ClientIds /\ new[npo[r]].serial = r /\ new[npo[r]].state = "running"
  BY <1>1, <1>2 DEF Consistent
<1>4. \A r \in Serials : nbr[r] = IF Bridging THEN npo[r] ELSE None
  BY <1>2 DEF Consistent
<1>5. ASSUME NEW d \in ClientIds
      PROVE  /\ new[d].state = "running" => npo[new[d].serial] = d
             /\ new[d].state \in {"unused", "dialing"} \/ ~Bridging => new[d].bridge = "none"
             /\ Serving(new[d]) => npo[new[d].serial] = d
  <2>1. CASE d = c
    BY <1>1, <1>2, <2>1 DEF Serving
  <2>2. CASE d # c
    <3>1. cl[d].serial = s => cl[d].state # "running" /\ ~Serving(cl[d])
      <4>1. ASSUME cl[d].serial = s, cl[d].state = "running" PROVE FALSE
        BY <2>2, <4>1, ClientAssumption DEF Consistent
      <4>2. ASSUME cl[d].serial = s, Serving(cl[d]) PROVE FALSE
        BY <2>2, <4>1, <4>2, ClientAssumption DEF Consistent
      <4> QED BY <4>1, <4>2
    <3> QED BY <1>1, <1>2, <2>2, <3>1 DEF Consistent
  <2> QED BY <2>1, <2>2
<1> QED BY <1>3, <1>4, <1>5 DEF Consistent

\* A client that is being stopped gets on, and a file operation begins or ends.
LEMMA ConsistentDrift ==
  ASSUME NEW cl \in [ClientIds -> Client], NEW new, NEW po, NEW br, NEW in, NEW gone,
         Consistent(cl, po, br, in, gone), NEW c \in ClientIds,
         \A d \in ClientIds \ {c} : new[d] = cl[d],
         new[c].serial = cl[c].serial, new[c].bridge = cl[c].bridge, new[c].cancelled = cl[c].cancelled,
         new[c].state = cl[c].state \/ (cl[c].state \in Leaving /\ new[c].state \in Leaving)
  PROVE  Consistent(new, po, br, in, gone)
<1>1. \A r \in Serials : po[r] # None =>
        /\ po[r] \in ClientIds /\ new[po[r]].serial = r
        /\ new[po[r]].state \in IF r \in gone THEN Leaving ELSE {"running"}
  BY DEF Consistent, Leaving, Stopping
<1>2. ASSUME NEW d \in ClientIds
      PROVE  /\ new[d].state = "running" => d \in in \/ po[new[d].serial] = d
             /\ new[d].state \in {"unused", "dialing"} \/ ~Bridging \/ d \in in => new[d].bridge = "none"
             /\ d \in in => new[d].state = "running" /\ po[new[d].serial] # d
             /\ Serving(new[d]) => po[new[d].serial] = d /\ new[d].serial \notin gone
  BY DEF Consistent, Leaving, Stopping, Serving
<1>3. \A r \in Serials : br[r] = IF Bridging /\ r \notin gone THEN po[r] ELSE None
  BY DEF Consistent
<1> QED BY <1>1, <1>2, <1>3 DEF Consistent

\* A request that begins to dial, with nothing under way.
LEMMA DialPool ==
  ASSUME TypeOK, TypeOK', NEW r \in Requests, NEW step \in Dialing, Dial(r, step),
         Consistent(clients, pool', bridges', {}, {}),
         step = "dialNew" => pool'[job[r].serial] = None
  PROVE  PoolInv'
<1>1. PICK c \in ClientIds :
        /\ clients[c].state = "unused"
        /\ clients' = [clients EXCEPT ![c].serial = job[r].serial, ![c].host = job[r].host,
                                      ![c].code = job[r].code, ![c].state = "dialing"]
        /\ job' = [job EXCEPT ![r].pc = step, ![r].client = c]
        /\ clientsMu' = r
  BY DEF Dial
<1>2. r \in Procs /\ job[r] \in Job /\ clients \in [ClientIds -> Client]
  BY DEF Procs, TypeOK
<1>3. job[r].serial \in Serials /\ job[r].host \in Hosts /\ job[r].code \in Codes
  BY <1>2 DEF Job
<1>4. Consistent(clients', pool', bridges', {}, {})
  BY <1>1, <1>2, <1>3, ConsistentDial
<1>5. /\ job'[r].pc = step /\ job'[r].client = c /\ job'[r].serial = job[r].serial /\ job'[r].code = job[r].code
      /\ job' \in [Procs -> Job] /\ Locked(job', clientsMu')
  BY <1>1, <1>2 DEF TypeOK, Job, Locked
<1>6. \A q \in Requests \ {r} : job'[q].pc \notin UnderClientsMu
  BY <1>1, <1>5 DEF Locked, Procs
<1>7. clients'[c].state = "dialing" /\ clients'[c].serial = job[r].serial /\ clients'[c].code = job[r].code
  BY <1>1, <1>2 DEF Client
<1>8. HoldsOwn'
  BY <1>5, <1>6, <1>7 DEF HoldsOwn, UnderClientsMu, Dialing
<1>9. In(job') = {} /\ Gone(job', clientsMu') = {}
  BY <1>1, <1>2, <1>5, Busy DEF Dialing
<1> QED BY <1>4, <1>8, <1>9 DEF PoolInv

LEMMA InitPool == Init => PoolInv
<1> SUFFICES ASSUME Init PROVE PoolInv
  OBVIOUS
<1>1. \A c \in ClientIds : /\ clients[c].state = "unused" /\ clients[c].bridge = "none"
                           /\ clients[c].serial \in Serials
  BY InputAssumption DEF Init, NewClient, SomeSerial
<1>2. \A p \in Procs : job[p].pc = "idle"
  BY DEF Init, IdleJob
<1>3. \A r \in Requests : r \in Procs
  BY DEF Procs
<1>4. In(job) = {} /\ Gone(job, clientsMu) = {}
  BY <1>2, <1>3 DEF In, Gone, Removal
<1>5. Consistent(clients, pool, bridges, {}, {})
  BY <1>1, ClientAssumption DEF Consistent, Serving, Init
<1>6. HoldsOwn
  BY <1>2, <1>3 DEF HoldsOwn, Dialing
<1> QED BY <1>4, <1>5, <1>6 DEF PoolInv

LEMMA NextPool == TypeOK /\ TypeOK' /\ PoolInv /\ [Next]_vars => PoolInv'
<1> SUFFICES ASSUME TypeOK, TypeOK', PoolInv, [Next]_vars PROVE PoolInv'
  OBVIOUS
<1> USE DEF poolVars, sessionVars
<1>0. \A r \in Requests : r \in Procs /\ r # None
  BY ProcAssumption DEF Procs
<1>a. /\ Locked(job, clientsMu) /\ Locked(job', clientsMu')
      /\ job \in [Procs -> Job] /\ job' \in [Procs -> Job]
      /\ clients \in [ClientIds -> Client] /\ clients' \in [ClientIds -> Client]
      /\ pool \in [Serials -> ClientIds \cup {None}] /\ bridges \in [Serials -> ClientIds \cup {None}]
      /\ \A c \in ClientIds : clients[c].serial \in Serials
  BY DEF TypeOK, Locked, Client
<1>b. ASSUME clientsMu' = None PROVE HoldsOwn'
  BY <1>0, <1>a, <1>b DEF HoldsOwn, Locked, UnderClientsMu, Dialing
<1>1. ASSUME UNCHANGED <<poolVars, clientsMu>>, NEW p \in Procs, \A q \in Procs \ {p} : job'[q] = job[q],
             job[p].pc \notin UnderClientsMu \cup Removal, job'[p].pc \notin UnderClientsMu
      PROVE  PoolInv'
  <2>1. clientsMu # p
    BY <1>a, <1>1 DEF Locked
  <2>2. In(job') = In(job) /\ Gone(job', clientsMu) = Gone(job, clientsMu)
    <3>1. job[p].pc \notin UnderClientsMu /\ job'[p].pc \notin UnderClientsMu
      BY <1>1
    <3>2. \A q \in Procs \ {p} : job'[q] = job[q]
      BY <1>1
    <3>3. job \in [Procs -> Job] /\ job' \in [Procs -> Job]
      BY <1>a
    <3> QED BY ONLY <1>1, <2>1, <3>1, <3>2, <3>3, Aside
  <2>3. HoldsOwn'
    BY <1>0, <1>1 DEF PoolInv, HoldsOwn, UnderClientsMu, Dialing
  <2> QED BY <1>1, <2>2, <2>3 DEF PoolInv
<1>2. ASSUME NEW p \in Procs, Finish(p) PROVE job'[p].pc = "idle" /\ \A q \in Procs \ {p} : job'[q] = job[q]
  BY <1>2, <1>a DEF Finish, IdleJob
<1>3. ASSUME NEW p \in Procs, NEW sid \in SessionIds, NEW stop, NEW next, Remove(p, sid, stop, next)
      PROVE  job'[p].pc \in {stop, next} /\ \A q \in Procs \ {p} : job'[q] = job[q]
  BY <1>3, <1>a DEF Remove, Job
<1>4. ASSUME NEW p \in Procs, NEW step, Goto(p, step)
      PROVE  /\ job'[p].pc = step /\ \A q \in Procs \ {p} : job'[q] = job[q]
             /\ job'[p].client = job[p].client /\ job'[p].serial = job[p].serial
             /\ job'[p].code = job[p].code /\ job'[p].doomed = job[p].doomed
  BY <1>4, <1>a DEF Goto, Job
<1>5. ASSUME NEW r \in Requests, Login(r) \/ ReuseClient(r) PROVE PoolInv'
  <2>1. job'[r].pc \in {"get", "have"} /\ \A q \in Procs \ {r} : job'[q] = job[q]
    <3>1. CASE Login(r)
      BY <1>0, <1>a, <3>1, IdleType DEF Login, Job
    <3>2. CASE ReuseClient(r)
      BY <1>0, <1>a, <3>2 DEF ReuseClient, Job
    <3> QED BY <1>5, <3>1, <3>2
  <2>2. job[r].pc \in {"idle", "get"} /\ UNCHANGED <<poolVars, clientsMu>>
    BY <1>5 DEF Login, ReuseClient, InGetClient
  <2> QED BY <1>0, <1>1, <2>1, <2>2 DEF UnderClientsMu, Dialing, Removal
<1>6. ASSUME NEW r \in Requests, RejectCode(r) \/ AddSession(r) \/ Insert(r) PROVE PoolInv'
  <2>1. Finish(r) /\ job[r].pc \in {"get", "have", "insert"} /\ UNCHANGED <<poolVars, clientsMu>>
    BY <1>6 DEF RejectCode, AddSession, Insert, InGetClient
  <2> QED BY <1>0, <1>1, <1>2, <2>1 DEF UnderClientsMu, Dialing, Removal
<1>7. ASSUME NEW r \in Requests, ReplaceClient(r) PROVE PoolInv'
  <2>1. In(job) = {} /\ Gone(job, clientsMu) = {}
    BY <1>a, <1>7, Quiet DEF ReplaceClient, InGetClient
  <2>2. Consistent(clients, pool', bridges', {}, {})
    BY <1>7, <2>1 DEF ReplaceClient, PoolInv
  <2> QED BY <1>7, <2>2, DialPool DEF ReplaceClient, Dialing
<1>8. ASSUME NEW r \in Requests, FreshClient(r) PROVE PoolInv'
  <2>1. job[r].serial \in Serials /\ r \in Procs
    BY <1>0, <1>a DEF Job
  <2>2. pool' = [pool EXCEPT ![job[r].serial] = None] /\ bridges' = bridges /\ Dial(r, "dialNew")
    BY <1>8 DEF FreshClient
  <2>3. Consistent(clients, pool', bridges', {}, {})
    <3>1. CASE InGetClient(r) /\ Pooled(r) = None
      <4>1. In(job) = {} /\ Gone(job, clientsMu) = {}
        BY <1>a, <3>1, Quiet DEF InGetClient
      <4>2. pool' = pool
        BY <1>a, <2>1, <2>2, <3>1 DEF Pooled
      <4> QED BY <2>2, <4>1, <4>2 DEF PoolInv
    <3>2. CASE job[r].pc = "rehost" /\ StopDone(job[r].serial)
      <4>1. clientsMu = r
        BY <1>a, <2>1, <3>2 DEF Locked, UnderClientsMu
      <4>2. In(job) = {} /\ Gone(job, clientsMu) = {job[r].serial}
        BY <1>a, <2>1, <3>2, <4>1, Busy
      <4> QED BY <1>a, <2>1, <2>2, <3>2, <4>2, ConsistentStopEnds DEF PoolInv, StopDone
    <3> QED BY <1>8, <3>1, <3>2 DEF FreshClient
  <2>4. pool'[job[r].serial] = None
    BY <1>a, <2>1, <2>2
  <2> QED BY <2>2, <2>3, <2>4, DialPool DEF Dialing
<1>9. ASSUME NEW r \in Requests, StopOldHost(r) PROVE PoolInv'
  <2>1. job[r].serial \in Serials /\ r \in Procs
    BY <1>0, <1>a DEF Job
  <2>2. In(job) = {} /\ Gone(job, clientsMu) = {}
    BY <1>a, <1>9, Quiet DEF StopOldHost, InGetClient
  <2>3. Consistent(clients', pool', bridges', {}, {job[r].serial})
    BY <1>9, <2>1, <2>2, ConsistentStopBegins DEF StopOldHost, PoolInv
  <2>4. Goto(r, "rehost") /\ clientsMu' = r
    BY <1>9 DEF StopOldHost
  <2>5. In(job') = {} /\ Gone(job', clientsMu') = {job[r].serial}
    BY <1>4, <1>a, <2>1, <2>4, Busy
  <2>6. HoldsOwn'
    BY <1>0, <1>4, <1>a, <2>1, <2>4 DEF HoldsOwn, Locked, UnderClientsMu, Dialing
  <2> QED BY <2>3, <2>5, <2>6 DEF PoolInv
<1>10. ASSUME NEW r \in Requests, DialFails(r) PROVE PoolInv'
  <2> DEFINE c == job[r].client
  <2>1. c \in ClientIds /\ clients[c].state = "dialing"
    BY <1>10 DEF DialFails, PoolInv, HoldsOwn, Dialing
  <2>2. clientsMu = r /\ clientsMu' = None /\ clients' = [clients EXCEPT ![c].state = "stopped"]
        /\ pool' = pool /\ bridges' = bridges
    BY <1>0, <1>a, <1>10 DEF DialFails, Locked, UnderClientsMu
  <2>3. In(job) = {} /\ Gone(job, clientsMu) = {}
    BY <1>0, <1>a, <1>10, <2>2, Busy DEF DialFails, Dialing
  <2> HIDE DEF c
  <2>4. Consistent(clients, pool, bridges, {}, {})
    BY <2>3 DEF PoolInv
  <2>5. Consistent([clients EXCEPT ![c].state = "stopped"], pool, bridges,
                   IF "stopped" = "running" THEN {c} ELSE {}, {})
    BY <1>a, <2>1, <2>4, ConsistentDialed
  <2>6. Consistent(clients', pool', bridges', {}, {})
    BY <2>2, <2>5
  <2>7. In(job') = {} /\ Gone(job', clientsMu') = {}
    BY <1>a, <2>2, Quiet
  <2> QED BY <1>b, <2>2, <2>6, <2>7 DEF PoolInv
<1>11. ASSUME NEW r \in Requests, DialSucceeds(r) \/ Replaced(r) PROVE PoolInv'
  <2> DEFINE c == job[r].client
             s == job[r].serial
  <2>1. /\ job[r].pc \in {"dialNew", "replace"} /\ EnterPool(r)
        /\ pool[s] # None => clients[pool[s]].state = "stopped"
    BY <1>11 DEF DialSucceeds, Replaced, StopDone, PoolInv, HoldsOwn
  <2>2. c \in ClientIds /\ s \in Serials /\ clients[c].serial = s
    BY <1>0, <1>a, <2>1 DEF PoolInv, HoldsOwn, Dialing, Job
  <2>3. clientsMu = r
    BY <1>0, <1>a, <2>1 DEF Locked, UnderClientsMu, Dialing
  <2>4. In(job) \subseteq {c} /\ Gone(job, clientsMu) \subseteq {s}
    BY <1>0, <1>a, <2>1, <2>3, Busy DEF Dialing
  <2>5. /\ clients' = [clients EXCEPT ![c].state = "running", ![c].bridge = IF Bridging THEN "dialing" ELSE "none"]
        /\ pool' = [pool EXCEPT ![s] = c]
        /\ bridges' = [bridges EXCEPT ![s] = IF Bridging THEN c ELSE None]
        /\ clientsMu' = None
    BY <2>1 DEF EnterPool
  <2> HIDE DEF c, s
  <2>6. Consistent(clients, pool, bridges, In(job), Gone(job, clientsMu))
    BY DEF PoolInv
  <2>7. Consistent(clients', pool', bridges', {}, {})
    <3>1. /\ clients \in [ClientIds -> Client]
          /\ pool \in [Serials -> ClientIds \cup {None}] /\ bridges \in [Serials -> ClientIds \cup {None}]
      BY <1>a
    <3>2. pool[s] # None => clients[pool[s]].state = "stopped"
      BY <2>1
    <3> QED BY <2>2, <2>4, <2>5, <2>6, <3>1, <3>2, ConsistentEnter
  <2>8. In(job') = {} /\ Gone(job', clientsMu') = {}
    BY <1>a, <2>5, Quiet
  <2> QED BY <1>b, <2>5, <2>7, <2>8 DEF PoolInv
<1>12. ASSUME NEW r \in Requests, StopReplaced(r) PROVE PoolInv'
  <2> DEFINE c == job[r].client
             s == job[r].serial
             base == StopBegun(s)
  <2>1. /\ job[r].pc = "dialReplace" /\ c \in ClientIds /\ s \in Serials
        /\ clients[c].state = "dialing" /\ clients[c].serial = s /\ clients[c].code = job[r].code
    BY <1>0, <1>a, <1>12 DEF StopReplaced, PoolInv, HoldsOwn, Dialing, Job
  <2>2. clientsMu = r
    BY <1>0, <1>a, <2>1 DEF Locked, UnderClientsMu, Dialing
  <2>3. In(job) = {} /\ Gone(job, clientsMu) = {}
    BY <1>0, <1>a, <2>1, <2>2, Busy DEF Dialing
  <2>4. Consistent(base, pool, bridges', {}, {s})
    BY <1>12, <2>1, <2>3, ConsistentStopBegins DEF StopReplaced, PoolInv
  <2>5. c # pool[s]
    BY <2>1, <2>3, ClientAssumption DEF PoolInv, Consistent, Leaving, Stopping
  <2>6. /\ base \in [ClientIds -> Client]
        /\ base[c].state = "dialing" /\ base[c].serial = s /\ base[c].code = job[r].code
        /\ \A d \in ClientIds : base[d].serial \in Serials
    <3>1. base \in [ClientIds -> Client]
      BY <2>1, StopBegunType
    <3>2. base[c].state = "dialing" /\ base[c].serial = s /\ base[c].code = job[r].code
      BY <1>a, <2>1, <2>5 DEF StopBegun, Client
    <3> QED BY <3>1, <3>2 DEF Client
  <2>7. clients' = [base EXCEPT ![c].state = "running"] /\ pool' = pool /\ clientsMu' = r /\ Goto(r, "replace")
    BY <1>12, <2>2 DEF StopReplaced
  <2>8. job'[r].pc = "replace" /\ job'[r].client = c /\ job'[r].serial = s /\ job'[r].code = job[r].code
    BY <1>0, <1>4, <2>7
  <2> HIDE DEF base, c, s
  <2>9. Consistent([base EXCEPT ![c].state = "running"], pool, bridges',
                   IF "running" = "running" THEN {c} ELSE {}, {s})
    BY <2>1, <2>4, <2>6, ConsistentDialed
  <2>10. Consistent(clients', pool', bridges', {c}, {s})
    BY <2>7, <2>9
  <2>11. In(job') = {c} /\ Gone(job', clientsMu') = {s}
    BY <1>0, <1>a, <2>1, <2>7, <2>8, Busy
  <2>12. clients'[c].state = "running" /\ clients'[c].serial = s /\ clients'[c].code = job[r].code
    BY <2>1, <2>6, <2>7 DEF Client
  <2>13. \A q \in Requests \ {r} : job'[q].pc \notin UnderClientsMu
    BY <1>0, <1>a, <2>7 DEF Locked
  <2>14. HoldsOwn'
    BY <2>1, <2>8, <2>12, <2>13 DEF HoldsOwn, UnderClientsMu, Dialing
  <2> QED BY <2>10, <2>11, <2>14 DEF PoolInv
<1>13. ASSUME NEW r \in Requests, Evict(r) \/ Logout(r) PROVE PoolInv'
  <2>1. PICK sid \in SessionIds, stop \in Removal, next \in {"insert", "release"} : Remove(r, sid, stop, next)
    BY <1>13 DEF Evict, Logout, LiveSessions, Removal
  <2>2. job[r].pc \in {"have", "idle"} /\ UNCHANGED <<poolVars, clientsMu>>
    BY <1>13 DEF Evict, Logout
  <2>3. job'[r].pc \in {stop, next} /\ \A q \in Procs \ {r} : job'[q] = job[q]
    BY <1>0, <1>3, <2>1
  <2> QED BY <1>0, <1>1, <2>2, <2>3 DEF UnderClientsMu, Dialing, Removal
<1>14. ASSUME NEW p \in Procs, StopBegins(p) PROVE PoolInv'
  <2>1. job[p].doomed \in Serials
    BY <1>a DEF Job
  <2>2. In(job) = {} /\ Gone(job, clientsMu) = {}
    BY <1>a, <1>14, Quiet DEF StopBegins
  <2>3. Consistent(clients', pool', bridges', {}, {job[p].doomed})
    BY <1>14, <2>1, <2>2, ConsistentStopBegins DEF StopBegins, PoolInv
  <2>4. job' = job /\ clientsMu' = p /\ job'[p].pc \in Removal
    BY <1>14 DEF StopBegins
  <2>5. In(job') = {} /\ Gone(job', clientsMu') = {job[p].doomed}
    BY <1>a, <2>4, Busy DEF Removal
  <2>6. HoldsOwn'
    BY <1>0, <1>a, <2>4 DEF HoldsOwn, Locked, UnderClientsMu, Dialing, Removal
  <2> QED BY <2>3, <2>5, <2>6 DEF PoolInv
<1>15. ASSUME NEW p \in Procs, StopEnds(p) PROVE PoolInv'
  <2>1. job[p].doomed \in Serials /\ job[p].pc \in Removal /\ clientsMu = p /\ clientsMu' = None
    BY <1>a, <1>15 DEF Job, StopEnds
  <2>2. In(job) = {} /\ Gone(job, clientsMu) = {job[p].doomed}
    BY <1>a, <2>1, Busy DEF Removal
  <2>3. /\ pool' = [pool EXCEPT ![job[p].doomed] = None] /\ UNCHANGED <<clients, bridges>>
        /\ pool[job[p].doomed] # None => clients[pool[job[p].doomed]].state = "stopped"
    BY <1>15 DEF StopEnds, StopDone
  <2>4. Consistent(clients', pool', bridges', {}, {})
    BY <1>a, <2>1, <2>2, <2>3, ConsistentStopEnds DEF PoolInv
  <2>5. In(job') = {} /\ Gone(job', clientsMu') = {}
    BY <1>a, <2>1, Quiet
  <2> QED BY <1>b, <2>1, <2>4, <2>5 DEF PoolInv
<1>16. ASSUME NEW p \in Procs, Release(p) PROVE PoolInv'
  BY <1>1, <1>2, <1>16 DEF Release, UnderClientsMu, Dialing, Removal
<1>17. CASE ExpireBegin \/ ExpireEnd
  <2>1. Expirer \in Procs
    BY DEF Procs
  <2>2. PICK step \in {"scan", "release"} : Goto(Expirer, step)
    BY <1>17 DEF ExpireBegin, ExpireEnd
  <2>3. job[Expirer].pc \in {"idle", "scan"} /\ UNCHANGED <<poolVars, clientsMu>>
    BY <1>17 DEF ExpireBegin, ExpireEnd
  <2> QED BY <1>1, <1>4, <2>1, <2>2, <2>3 DEF UnderClientsMu, Dialing, Removal
<1>18. CASE ExpireOne
  <2>0. Expirer \in Procs
    BY DEF Procs
  <2>1. PICK sid \in SessionIds :
          IF Idle(sid) THEN Remove(Expirer, sid, "expire", "scan") ELSE UNCHANGED <<sessionVars, job>>
    BY <1>18 DEF ExpireOne, TypeOK
  <2>2. job[Expirer].pc = "scan" /\ UNCHANGED <<poolVars, clientsMu>>
    BY <1>18 DEF ExpireOne
  <2>3. job'[Expirer].pc \in {"expire", "scan"} /\ \A q \in Procs \ {Expirer} : job'[q] = job[q]
    BY <1>3, <2>0, <2>1, <2>2
  <2> QED BY <1>1, <2>0, <2>2, <2>3 DEF UnderClientsMu, Dialing, Removal
<1>19. ASSUME UNCHANGED <<poolVars, clientsMu, job>> PROVE PoolInv'
  BY <1>19 DEF PoolInv, HoldsOwn
<1>20. ASSUME NEW c \in ClientIds, BridgeDials(c) \/ BridgeEnds(c) PROVE PoolInv'
  <2>1. PICK b \in {"running", "ended"} : clients' = [clients EXCEPT ![c].bridge = b]
    BY <1>20 DEF BridgeDials, BridgeEnds
  <2>2. clients[c].bridge = "dialing" \/ (clients[c].bridge = "running" /\ clients[c].cancelled)
    BY <1>20 DEF BridgeDials, BridgeEnds
  <2>3. /\ clients'[c].serial = clients[c].serial /\ clients'[c].state = clients[c].state
        /\ clients'[c].code = clients[c].code /\ clients'[c].cancelled = clients[c].cancelled
        /\ \A d \in ClientIds \ {c} : clients'[d] = clients[d]
    BY <1>a, <2>1 DEF Client
  <2>4. UNCHANGED <<pool, bridges, job, clientsMu>>
    BY <1>20 DEF BridgeDials, BridgeEnds
  <2>5. Consistent(clients', pool', bridges', In(job'), Gone(job', clientsMu'))
    BY <2>2, <2>3, <2>4 DEF PoolInv, Consistent, Serving
  <2> QED BY <2>3, <2>4, <2>5 DEF PoolInv, HoldsOwn
<1>21. ASSUME NEW c \in ClientIds,
              Disconnected(c) \/ CloseFile(c) \/ TransferBegins(c) \/ TransferEnds(c)
       PROVE  PoolInv'
  <2>1. /\ UNCHANGED <<pool, bridges, job, clientsMu>>
        /\ \A d \in ClientIds \ {c} : clients'[d] = clients[d]
        /\ clients'[c].serial = clients[c].serial /\ clients'[c].bridge = clients[c].bridge
        /\ clients'[c].cancelled = clients[c].cancelled /\ clients'[c].code = clients[c].code
        /\ clients'[c].state = clients[c].state \/ (clients[c].state \in Leaving /\ clients'[c].state \in Leaving)
    <3>1. CASE Disconnected(c) \/ CloseFile(c)
      BY <1>a, <3>1 DEF Disconnected, CloseFile, SetState, Leaving, Stopping, Client
    <3>2. CASE TransferBegins(c) \/ TransferEnds(c)
      BY <1>a, <3>2 DEF TransferBegins, TransferEnds, SetBusy, Client
    <3> QED BY <1>21, <3>1, <3>2
  <2>2. Consistent(clients, pool, bridges, In(job), Gone(job, clientsMu))
    BY DEF PoolInv
  <2>3. Consistent(clients', pool, bridges, In(job), Gone(job, clientsMu))
    BY <1>a, <2>1, <2>2, ConsistentDrift
  <2>4. HoldsOwn'
    BY <2>1 DEF PoolInv, HoldsOwn, Leaving, Stopping
  <2> QED BY <2>1, <2>3, <2>4 DEF PoolInv
<1>22. ASSUME NEW sid \in SessionIds, Touch(sid) PROVE PoolInv'
  BY <1>19, <1>22 DEF Touch
<1>23. CASE Tick \/ UNCHANGED vars
  BY <1>19, <1>23 DEF Tick, vars
<1> QED
  BY <1>5, <1>6, <1>7, <1>8, <1>9, <1>10, <1>11, <1>12, <1>13, <1>14, <1>15, <1>16, <1>17, <1>18, <1>20,
     <1>21, <1>22, <1>23
  DEF Next, GetClient

LEMMA PoolInvariant == Spec => [](TypeOK /\ ScanLive /\ PoolInv)
BY InitType, InitScan, InitPool, NextType, NextScan, NextPool, PTL DEF Spec

\* Through every dial, failure, replacement and stop, however long these take, the
\* connections that run are those in the pool (getClient, stopClientLocked).
THEOREM PoolCorrect == Spec => []PoolIsTheRunning
<1>1. TypeOK /\ PoolInv => PoolIsTheRunning
  <2> SUFFICES ASSUME TypeOK, PoolInv PROVE PoolIsTheRunning
    OBVIOUS
  <2>1. \A c \in ClientIds : c \in In(job) <=> Entering(c)
    BY DEF In, Entering
  <2>2. \A s \in Serials : s \in Gone(job, clientsMu) <=> BeingStopped(s)
    BY DEF Gone, BeingStopped
  <2> QED BY <2>1, <2>2 DEF PoolInv, Consistent, PoolIsTheRunning
<1> QED BY <1>1, PoolInvariant, PTL

\* No bridge serves a client that is not pooled, nor escapes its cancel function
\* (startBridgeLocked, stopClientLocked).
THEOREM BridgesCorrect == Spec => []BridgesFollowPool
<1>1. TypeOK /\ PoolInv => BridgesFollowPool
  BY DEF PoolInv, Consistent, BridgesFollowPool, Serving, TypeOK, Client
<1> QED BY <1>1, PoolInvariant, PTL

-----------------------------------------------------------------------------
(* Sessions and their clients. *)

\* A client that was made keeps its serial and code, whatever becomes of it.
MadeStay ==
  \A c \in ClientIds : Made(clients[c]) =>
    Made(clients'[c]) /\ clients'[c].serial = clients[c].serial /\ clients'[c].code = clients[c].code

LEMMA NextMade == TypeOK /\ PoolInv /\ [Next]_vars => MadeStay
<1> SUFFICES ASSUME TypeOK, PoolInv, [Next]_vars PROVE MadeStay
  OBVIOUS
<1> USE DEF poolVars, sessionVars
<1>0. \A r \in Requests : r \in Procs
  BY DEF Procs
<1>1. ASSUME UNCHANGED clients PROVE MadeStay
  BY <1>1 DEF MadeStay
<1>a. clients \in [ClientIds -> Client]
  BY DEF TypeOK
<1>2. ASSUME NEW s \in Serials, NEW c \in ClientIds, Made(clients[c])
      PROVE  /\ Made(StopBegun(s)[c]) /\ StopBegun(s)[c].serial = clients[c].serial
             /\ StopBegun(s)[c].code = clients[c].code
  BY <1>a, <1>2 DEF Made, Leaving, Stopping, StopBegun, Client
<1>3. ASSUME NEW r \in Requests, ReplaceClient(r) \/ FreshClient(r) PROVE MadeStay
  <2>1. PICK d \in ClientIds :
          /\ clients[d].state = "unused"
          /\ clients' = [clients EXCEPT ![d].serial = job[r].serial, ![d].host = job[r].host,
                                        ![d].code = job[r].code, ![d].state = "dialing"]
    BY <1>3 DEF ReplaceClient, FreshClient, Dial
  <2>2. \A c \in ClientIds \ {d} : clients'[c] = clients[c]
    BY <1>a, <2>1
  <2>3. ~Made(clients[d])
    BY <2>1 DEF Made, Leaving, Stopping
  <2> QED BY <2>2, <2>3 DEF MadeStay
<1>4. ASSUME NEW r \in Requests, DialFails(r) PROVE MadeStay
  <2>1. clients' = [clients EXCEPT ![job[r].client].state = "stopped"]
    BY <1>4 DEF DialFails
  <2> QED BY <1>a, <2>1 DEF MadeStay, Made, Leaving, Client
<1>5. ASSUME NEW r \in Requests, DialSucceeds(r) \/ Replaced(r) PROVE MadeStay
  <2>1. clients' = [clients EXCEPT ![job[r].client].state = "running",
                                   ![job[r].client].bridge = IF Bridging THEN "dialing" ELSE "none"]
    BY <1>5 DEF DialSucceeds, Replaced, EnterPool
  <2> QED BY <1>a, <2>1 DEF MadeStay, Made, Client
<1>5a. ASSUME NEW r \in Requests, StopReplaced(r) PROVE MadeStay
  <2> DEFINE d == job[r].client
             base == StopBegun(job[r].serial)
  <2>1. job[r].serial \in Serials
    BY <1>0 DEF TypeOK, Job
  <2>2. base \in [ClientIds -> Client] /\ clients' = [base EXCEPT ![d].state = "running"]
    BY <1>5a, <2>1, StopBegunType DEF StopReplaced
  <2>3. \A c \in ClientIds : Made(clients[c]) =>
          Made(base[c]) /\ base[c].serial = clients[c].serial /\ base[c].code = clients[c].code
    BY <1>2, <2>1
  <2> HIDE DEF base, d
  <2> QED BY <2>2, <2>3 DEF MadeStay, Made, Client
<1>6. ASSUME NEW p \in Procs, StopBegins(p) \/ (p \in Requests /\ StopOldHost(p)) PROVE MadeStay
  <2>1. PICK s \in Serials : clients' = StopBegun(s)
    BY <1>6 DEF StopBegins, StopOldHost, TypeOK, Job
  <2> QED BY <1>2, <2>1 DEF MadeStay
<1>6a. ASSUME NEW c \in ClientIds,
              Disconnected(c) \/ CloseFile(c) \/ TransferBegins(c) \/ TransferEnds(c)
       PROVE  MadeStay
  <2>1. CASE Disconnected(c) \/ CloseFile(c)
    BY <1>a, <2>1 DEF Disconnected, CloseFile, SetState, MadeStay, Made, Leaving, Stopping, Client
  <2>2. CASE TransferBegins(c) \/ TransferEnds(c)
    BY <1>a, <2>2 DEF TransferBegins, TransferEnds, SetBusy, MadeStay, Made, Client
  <2> QED BY <1>6a, <2>1, <2>2
<1>7. ASSUME NEW c \in ClientIds, BridgeDials(c) \/ BridgeEnds(c) PROVE MadeStay
  <2>1. PICK b \in {"running", "ended"} : clients' = [clients EXCEPT ![c].bridge = b]
    BY <1>7 DEF BridgeDials, BridgeEnds
  <2> QED BY <2>1 DEF MadeStay, Made, TypeOK, Client
<1>8. ASSUME NEW r \in Requests,
             Login(r) \/ RejectCode(r) \/ ReuseClient(r) \/ AddSession(r) \/ Evict(r) \/ Insert(r) \/ Logout(r)
      PROVE  MadeStay
  BY <1>1, <1>8 DEF Login, RejectCode, ReuseClient, AddSession, Evict, Insert, Logout
<1>9. ASSUME NEW p \in Procs, Release(p) \/ StopEnds(p) PROVE MadeStay
  BY <1>1, <1>9 DEF Release, StopEnds
<1>10. ASSUME NEW sid \in SessionIds, Touch(sid) PROVE MadeStay
  BY <1>1, <1>10 DEF Touch
<1>11. CASE ExpireBegin \/ ExpireOne \/ ExpireEnd \/ Tick \/ UNCHANGED vars
  BY <1>1, <1>11 DEF ExpireBegin, ExpireOne, ExpireEnd, Tick, vars
<1> QED
  BY <1>0, <1>3, <1>4, <1>5, <1>5a, <1>6, <1>6a, <1>7, <1>8, <1>9, <1>10, <1>11 DEF Next, GetClient

\* Steps that leave the sessions alone, and hand out no client.
LEMMA HandedOutFrame ==
  ASSUME TypeOK, TypeOK', HandedOut, MadeStay, UNCHANGED <<sessions, sessionCode>>,
         \A r \in Requests : job'[r].pc \in WithClient =>
           job[r].pc \in WithClient /\ job'[r].client = job[r].client /\ job'[r].code = job[r].code
  PROVE  HandedOut'
BY DEF HandedOut, MadeStay, Live, TypeOK

\* Steps that remove a session.
LEMMA HandedOutRemove ==
  ASSUME TypeOK, TypeOK', HandedOut, UNCHANGED clients, NEW p \in Procs, NEW sid \in LiveSessions,
         NEW stop \in Steps, NEW next \in Steps, Remove(p, sid, stop, next),
         job[p].pc \in WithClient \/ (stop \notin WithClient /\ next \notin WithClient)
  PROVE  HandedOut'
<1>1. /\ job'[p].pc \in {stop, next} /\ job'[p].client = job[p].client /\ job'[p].code = job[p].code
      /\ \A q \in Procs \ {p} : job'[q] = job[q]
  BY DEF Remove, TypeOK, Job
<1>2. sessions'[sid] = None /\ \A other \in SessionIds \ {sid} :
        sessions'[other] = sessions[other] /\ sessionCode'[other] = sessionCode[other]
  BY DEF Remove, TypeOK, LiveSessions
<1>3. \A r \in Requests : r \in Procs
  BY DEF Procs
<1> QED BY <1>1, <1>2, <1>3 DEF HandedOut, Live, LiveSessions

\* Steps that store the session of a login.
LEMMA HandedOutStore ==
  ASSUME TypeOK, TypeOK', HandedOut, UNCHANGED clients, NEW r \in Requests, NEW sid \in SessionIds,
         Store(r, sid), Finish(r), job[r].pc \in WithClient
  PROVE  HandedOut'
<1>0. r \in Procs /\ "idle" \notin WithClient
  BY DEF Procs, WithClient
<1>1. job'[r].pc = "idle" /\ \A q \in Requests \ {r} : job'[q] = job[q]
  BY <1>0 DEF Finish, TypeOK, IdleJob, Procs
<1>2. /\ sessions'[sid] = job[r].client /\ sessionCode'[sid] = job[r].code
      /\ \A other \in SessionIds \ {sid} :
           sessions'[other] = sessions[other] /\ sessionCode'[other] = sessionCode[other]
  BY DEF Store, TypeOK
<1> QED BY <1>0, <1>1, <1>2 DEF HandedOut, Live

LEMMA InitHandedOut == Init => HandedOut /\ ExpirerOnlyExpires
<1> SUFFICES ASSUME Init PROVE HandedOut /\ ExpirerOnlyExpires
  OBVIOUS
<1>1. \A p \in Procs : job[p].pc = "idle"
  BY DEF Init, IdleJob
<1>2. Expirer \in Procs /\ \A r \in Requests : r \in Procs
  BY DEF Procs
<1> QED BY <1>1, <1>2 DEF HandedOut, ExpirerOnlyExpires, WithClient, Live, Init

LEMMA NextHandedOut ==
  TypeOK /\ TypeOK' /\ ScanLive /\ PoolInv /\ HandedOut /\ ExpirerOnlyExpires /\ [Next]_vars
    => HandedOut' /\ ExpirerOnlyExpires'
<1> SUFFICES ASSUME TypeOK, TypeOK', ScanLive, PoolInv, HandedOut, ExpirerOnlyExpires, [Next]_vars
             PROVE  HandedOut' /\ ExpirerOnlyExpires'
  OBVIOUS
<1> USE DEF poolVars, sessionVars
<1>0. /\ \A r \in Requests : r \in Procs /\ r # Expirer
      /\ Expirer \in Procs
      /\ "idle" \notin WithClient
      /\ WithClient \subseteq Steps
  BY ProcAssumption DEF Procs, WithClient, Steps, UnderClientsMu, UnderMu, Removal, Dialing
<1>1. MadeStay
  BY NextMade
<1>2. ASSUME NEW r \in Requests, UNCHANGED <<sessions, sessionCode>>,
             \A q \in Procs \ {r} : job'[q] = job[q],
             job'[r].pc \notin WithClient
      PROVE  HandedOut' /\ ExpirerOnlyExpires'
  BY <1>0, <1>1, <1>2, HandedOutFrame DEF ExpirerOnlyExpires
<1>3. ASSUME NEW r \in Requests, Finish(r)
      PROVE  job'[r].pc \notin WithClient /\ \A q \in Procs \ {r} : job'[q] = job[q]
  BY <1>0, <1>3 DEF Finish, TypeOK, IdleJob
<1>4. ASSUME NEW r \in Requests, Login(r) PROVE HandedOut' /\ ExpirerOnlyExpires'
  <2>1. job'[r].pc = "get" /\ \A q \in Procs \ {r} : job'[q] = job[q]
    BY <1>0, <1>4, IdleType DEF Login, TypeOK, Job
  <2> QED BY <1>2, <1>4, <2>1 DEF Login, WithClient
<1>5. ASSUME NEW r \in Requests, RejectCode(r) \/ DialFails(r) PROVE HandedOut' /\ ExpirerOnlyExpires'
  BY <1>2, <1>3, <1>5 DEF RejectCode, DialFails
<1>6. ASSUME NEW r \in Requests, ReplaceClient(r) \/ FreshClient(r) PROVE HandedOut' /\ ExpirerOnlyExpires'
  <2>1. job'[r].pc \in Dialing /\ \A q \in Procs \ {r} : job'[q] = job[q]
    <3>1. PICK step \in Dialing, c \in ClientIds : job' = [job EXCEPT ![r].pc = step, ![r].client = c]
      BY <1>6 DEF ReplaceClient, FreshClient, Dial, Dialing
    <3> QED BY <1>0, <3>1 DEF TypeOK, Job
  <2> QED BY <1>2, <1>6, <2>1 DEF ReplaceClient, FreshClient, WithClient, Dialing
<1>6a. ASSUME NEW r \in Requests, StopOldHost(r) \/ StopReplaced(r) PROVE HandedOut' /\ ExpirerOnlyExpires'
  <2>1. job'[r].pc \in {"rehost", "replace"} /\ \A q \in Procs \ {r} : job'[q] = job[q]
    BY <1>0, <1>6a DEF StopOldHost, StopReplaced, Goto, TypeOK, Job
  <2> QED BY <1>2, <1>6a, <2>1 DEF StopOldHost, StopReplaced, WithClient
<1>7. ASSUME NEW r \in Requests, ReuseClient(r) PROVE HandedOut' /\ ExpirerOnlyExpires'
  <2>1. /\ job'[r].pc = "have" /\ job'[r].client = Pooled(r) /\ job'[r].code = job[r].code
        /\ \A q \in Procs \ {r} : job'[q] = job[q]
        /\ UNCHANGED <<clients, sessions, sessionCode>>
    BY <1>0, <1>7 DEF ReuseClient, TypeOK, Job
  <2>2. Pooled(r) \in ClientIds /\ Made(clients[Pooled(r)]) /\ clients[Pooled(r)].code = job[r].code
    <3>1. job[r].serial \in Serials
      BY <1>0 DEF TypeOK, Job
    <3> QED BY <1>7, <3>1 DEF ReuseClient, CodeDiffers, Pooled, PoolInv, Consistent, Made, Leaving
  <2> QED BY <1>0, <2>1, <2>2 DEF HandedOut, ExpirerOnlyExpires, Live
<1>8. ASSUME NEW r \in Requests, DialSucceeds(r) \/ Replaced(r) PROVE HandedOut' /\ ExpirerOnlyExpires'
  <2> DEFINE c == job[r].client
  <2>0. EnterPool(r) /\ job[r].pc \in {"dialNew", "replace"}
    BY <1>8 DEF DialSucceeds, Replaced
  <2>1. /\ job'[r].pc = "have" /\ job'[r].client = c /\ job'[r].code = job[r].code
        /\ \A q \in Procs \ {r} : job'[q] = job[q]
        /\ UNCHANGED <<sessions, sessionCode>>
    BY <1>0, <2>0 DEF EnterPool, TypeOK, Job
  <2>2. c \in ClientIds /\ clients[c].code = job[r].code
    BY <2>0 DEF PoolInv, HoldsOwn, Dialing
  <2>3. Made(clients'[c]) /\ clients'[c].code = clients[c].code
    <3>1. clients \in [ClientIds -> Client]
      BY DEF TypeOK
    <3>2. clients' = [clients EXCEPT ![c].state = "running",
                                     ![c].bridge = IF Bridging THEN "dialing" ELSE "none"]
      BY <2>0 DEF EnterPool
    <3> HIDE DEF c
    <3> QED BY <2>2, <3>1, <3>2 DEF Made, Client
  <2>4. \A q \in Requests \ {r} : job'[q] = job[q]
    BY <1>0, <2>1
  <2> HIDE DEF c
  <2>5. HandedOut'
    BY <1>1, <2>1, <2>2, <2>3, <2>4 DEF HandedOut, MadeStay, Live, TypeOK
  <2> QED BY <1>0, <2>1, <2>5 DEF ExpirerOnlyExpires
<1>9. ASSUME NEW r \in Requests, AddSession(r) \/ Insert(r) PROVE HandedOut' /\ ExpirerOnlyExpires'
  <2>1. PICK sid \in SessionIds : Store(r, sid)
    BY <1>9 DEF AddSession, Insert
  <2>2. Finish(r) /\ UNCHANGED clients /\ job[r].pc \in WithClient
    BY <1>9 DEF AddSession, Insert, WithClient
  <2> QED BY <1>0, <1>3, <2>1, <2>2, HandedOutStore DEF ExpirerOnlyExpires
<1>10. ASSUME NEW r \in Requests, Evict(r) PROVE HandedOut' /\ ExpirerOnlyExpires'
  <2>1. PICK sid \in LiveSessions : Remove(r, sid, "evict", "insert")
    BY <1>10 DEF Evict
  <2>2. HandedOut'
    BY <1>0, <1>10, <2>1, HandedOutRemove DEF Evict, WithClient
  <2>3. job'[Expirer] = job[Expirer]
    BY <1>0, <2>1 DEF Remove, TypeOK
  <2> QED BY <2>2, <2>3 DEF ExpirerOnlyExpires
<1>11. ASSUME NEW r \in Requests, Logout(r) PROVE HandedOut' /\ ExpirerOnlyExpires'
  <2>1. PICK sid \in LiveSessions : Remove(r, sid, "logout", "release")
    BY <1>11 DEF Logout
  <2>2. HandedOut'
    BY <1>0, <1>11, <2>1, HandedOutRemove DEF Logout, WithClient, Steps, UnderClientsMu, UnderMu, Removal, Dialing
  <2>3. job'[Expirer] = job[Expirer]
    BY <1>0, <2>1 DEF Remove, TypeOK
  <2> QED BY <2>2, <2>3 DEF ExpirerOnlyExpires
<1>12. ASSUME NEW p \in Procs, StopEnds(p) PROVE HandedOut' /\ ExpirerOnlyExpires'
  <2>1. PICK step \in {"insert", "release", "scan"} :
          /\ Goto(p, step)
          /\ step = "insert" => job[p].pc = "evict"
          /\ p = Expirer => step = "scan"
    BY <1>12 DEF StopEnds, Removal, ExpirerOnlyExpires
  <2>2. /\ job'[p].pc = step /\ job'[p].client = job[p].client /\ job'[p].code = job[p].code
        /\ \A q \in Procs \ {p} : job'[q] = job[q]
    BY <2>1 DEF Goto, TypeOK, Job
  <2>3. HandedOut'
    BY <1>0, <1>1, <1>12, <2>1, <2>2, HandedOutFrame DEF StopEnds, WithClient
  <2> QED BY <1>0, <2>1, <2>2, <2>3 DEF ExpirerOnlyExpires
<1>12a. ASSUME NEW p \in Procs, StopBegins(p) PROVE HandedOut' /\ ExpirerOnlyExpires'
  <2>1. UNCHANGED <<sessions, sessionCode, job>>
    BY <1>12a DEF StopBegins
  <2> QED BY <1>1, <2>1, HandedOutFrame DEF ExpirerOnlyExpires
<1>13. ASSUME NEW p \in Procs, Release(p) PROVE HandedOut' /\ ExpirerOnlyExpires'
  <2>1. job'[p].pc = "idle" /\ \A q \in Procs \ {p} : job'[q] = job[q]
    BY <1>13 DEF Release, Finish, TypeOK, IdleJob
  <2>2. HandedOut'
    BY <1>0, <1>1, <1>13, <2>1, HandedOutFrame DEF Release
  <2> QED BY <1>0, <2>1, <2>2 DEF ExpirerOnlyExpires
<1>14. CASE ExpireBegin \/ ExpireEnd
  <2>1. job'[Expirer].pc \in {"scan", "release"} /\ \A q \in Procs \ {Expirer} : job'[q] = job[q]
    BY <1>0, <1>14 DEF ExpireBegin, ExpireEnd, Goto, TypeOK, Job
  <2>2. HandedOut'
    BY <1>0, <1>1, <1>14, <2>1, HandedOutFrame DEF ExpireBegin, ExpireEnd
  <2> QED BY <2>1, <2>2 DEF ExpirerOnlyExpires
<1>15. CASE ExpireOne
  <2>1. PICK sid \in LiveSessions :
          IF Idle(sid) THEN Remove(Expirer, sid, "expire", "scan") ELSE UNCHANGED <<sessionVars, job>>
    BY <1>15 DEF ExpireOne, ScanLive
  <2>2. CASE Remove(Expirer, sid, "expire", "scan")
    <3>1. HandedOut'
      BY <1>0, <1>15, <2>2, HandedOutRemove DEF ExpireOne, WithClient, Steps, UnderClientsMu, UnderMu, Removal, Dialing
    <3>2. job'[Expirer].pc \in {"expire", "scan"}
      BY <1>0, <2>2 DEF Remove, TypeOK, Job
    <3> QED BY <3>1, <3>2 DEF ExpirerOnlyExpires
  <2>3. CASE UNCHANGED <<sessionVars, job>>
    BY <1>1, <2>3, HandedOutFrame DEF ExpirerOnlyExpires
  <2> QED BY <2>1, <2>2, <2>3
<1>16. ASSUME UNCHANGED <<sessions, sessionCode, job>> PROVE HandedOut' /\ ExpirerOnlyExpires'
  BY <1>1, <1>16, HandedOutFrame DEF ExpirerOnlyExpires
<1>17. ASSUME NEW sid \in SessionIds, Touch(sid) PROVE HandedOut' /\ ExpirerOnlyExpires'
  BY <1>16, <1>17 DEF Touch
<1>18. ASSUME NEW c \in ClientIds, BridgeDials(c) \/ BridgeEnds(c) PROVE HandedOut' /\ ExpirerOnlyExpires'
  BY <1>16, <1>18 DEF BridgeDials, BridgeEnds
<1>18a. ASSUME NEW c \in ClientIds,
               Disconnected(c) \/ CloseFile(c) \/ TransferBegins(c) \/ TransferEnds(c)
        PROVE  HandedOut' /\ ExpirerOnlyExpires'
  BY <1>16, <1>18a DEF Disconnected, CloseFile, SetState, TransferBegins, TransferEnds, SetBusy
<1>19. CASE Tick \/ UNCHANGED vars
  BY <1>16, <1>19 DEF Tick, vars
<1> QED
  BY <1>4, <1>5, <1>6, <1>6a, <1>7, <1>8, <1>9, <1>10, <1>11, <1>12, <1>12a, <1>13, <1>14, <1>15, <1>17, <1>18,
     <1>18a, <1>19
  DEF Next, GetClient

LEMMA SessionInvariant == Spec => [](TypeOK /\ ScanLive /\ PoolInv /\ HandedOut /\ ExpirerOnlyExpires)
BY InitType, InitScan, InitPool, InitHandedOut, NextType, NextScan, NextPool, NextHandedOut, PTL DEF Spec

\* Whatever is shared, replaced or stopped meanwhile, no session works through a
\* client opened with another access code than its own (getClient, addSession).
THEOREM CodesCorrect == Spec => []SessionsKnowTheirCode
<1>1. HandedOut => SessionsKnowTheirCode
  BY DEF HandedOut, SessionsKnowTheirCode
<1> QED BY <1>1, SessionInvariant, PTL

-----------------------------------------------------------------------------
(* No connection is kept for nobody. *)

KeptFor(s) == (\E sid \in LiveSessions : SerialOf(sid) = s) \/ Creating(s) \/ Removing(s)

\* Steps in which one goroutine, that held no client and stopped none, changes its
\* job and the pool gains no entry.
LEMMA KeptFrame ==
  ASSUME TypeOK, TypeOK', HandedOut, NoIdleConnection, MadeStay, UNCHANGED sessions, NEW p \in Procs,
         job[p].pc \notin WithClient \cup Removal, \A q \in Procs \ {p} : job'[q] = job[q],
         \A s \in Serials : pool'[s] # None => pool[s] # None
  PROVE  NoIdleConnection'
<1> SUFFICES ASSUME NEW s \in Serials, pool'[s] # None PROVE KeptFor(s)'
  BY DEF NoIdleConnection, KeptFor
<1>1. KeptFor(s)
  BY DEF NoIdleConnection, KeptFor
<1>2. CASE \E sid \in LiveSessions : SerialOf(sid) = s
  BY <1>2 DEF KeptFor, LiveSessions, Live, SerialOf, HandedOut, MadeStay, TypeOK
<1>3. CASE Creating(s)
  BY <1>3 DEF KeptFor, Creating, HandedOut, MadeStay, Procs
<1>4. CASE Removing(s)
  BY <1>4 DEF KeptFor, Removing
<1> QED BY <1>1, <1>2, <1>3, <1>4 DEF KeptFor

\* A removal leaves another session of the serial, or is on its way to the stop.
LEMMA KeptRemove ==
  ASSUME TypeOK, TypeOK', HandedOut, NoIdleConnection, UNCHANGED <<clients, pool>>, NEW p \in Procs,
         NEW sid \in LiveSessions, NEW stop \in Removal, NEW next \in Steps, Remove(p, sid, stop, next),
         job[p].pc \notin Removal,
         job[p].pc \in WithClient => stop \in WithClient /\ next \in WithClient
  PROVE  NoIdleConnection'
<1> SUFFICES ASSUME NEW s \in Serials, pool[s] # None PROVE KeptFor(s)'
  BY DEF NoIdleConnection, KeptFor
<1>1. /\ job'[p].pc = (IF \E other \in LiveSessions \ {sid} : SerialOf(other) = SerialOf(sid)
                       THEN next ELSE stop)
      /\ job'[p].doomed = SerialOf(sid) /\ job'[p].client = job[p].client
      /\ \A q \in Procs \ {p} : job'[q] = job[q]
  BY DEF Remove, TypeOK, Job
<1>2. \A other \in LiveSessions \ {sid} : other \in LiveSessions' /\ SerialOf(other)' = SerialOf(other)
  BY DEF Remove, TypeOK, LiveSessions, Live, SerialOf
<1>3. KeptFor(s)
  BY DEF NoIdleConnection, KeptFor
<1>4. CASE \E other \in LiveSessions : SerialOf(other) = s
  <2>1. CASE \E other \in LiveSessions \ {sid} : SerialOf(other) = s
    BY <1>2, <2>1 DEF KeptFor
  <2>2. CASE SerialOf(sid) = s /\ ~ \E other \in LiveSessions \ {sid} : SerialOf(other) = s
    BY <1>1, <2>2 DEF KeptFor, Removing
  <2> QED BY <1>4, <2>1, <2>2
<1>5. CASE Creating(s)
  BY <1>1, <1>5 DEF KeptFor, Creating, Procs
<1>6. CASE Removing(s)
  BY <1>1, <1>6 DEF KeptFor, Removing
<1> QED BY <1>3, <1>4, <1>5, <1>6 DEF KeptFor

\* The session a login stores takes over from the login.
LEMMA KeptStore ==
  ASSUME TypeOK, TypeOK', HandedOut, NoIdleConnection, UNCHANGED <<clients, pool>>, NEW r \in Requests,
         NEW sid \in SessionIds \ LiveSessions, Store(r, sid), Finish(r), job[r].pc \in WithClient \ Removal
  PROVE  NoIdleConnection'
<1> SUFFICES ASSUME NEW s \in Serials, pool[s] # None PROVE KeptFor(s)'
  BY DEF NoIdleConnection, KeptFor
<1>1. /\ r \in Procs
      /\ \A q \in Procs \ {r} : job'[q] = job[q]
  BY DEF Finish, TypeOK, Procs
<1>2. /\ sid \in LiveSessions' /\ SerialOf(sid)' = clients[job[r].client].serial
      /\ \A other \in LiveSessions : other \in LiveSessions' /\ SerialOf(other)' = SerialOf(other)
  BY ClientAssumption DEF Store, TypeOK, HandedOut, LiveSessions, Live, SerialOf
<1>3. KeptFor(s)
  BY DEF NoIdleConnection, KeptFor
<1>4. CASE \E other \in LiveSessions : SerialOf(other) = s
  BY <1>2, <1>4 DEF KeptFor
<1>5. CASE Creating(s)
  BY <1>1, <1>2, <1>5 DEF KeptFor, Creating, Procs
<1>6. CASE Removing(s)
  BY <1>1, <1>6 DEF KeptFor, Removing
<1> QED BY <1>3, <1>4, <1>5, <1>6 DEF KeptFor

LEMMA InitKept == Init => NoIdleConnection
BY DEF Init, NoIdleConnection

LEMMA NextKept ==
  TypeOK /\ TypeOK' /\ ScanLive /\ PoolInv /\ HandedOut /\ ExpirerOnlyExpires /\ NoIdleConnection /\ [Next]_vars
    => NoIdleConnection'
<1> SUFFICES ASSUME TypeOK, TypeOK', ScanLive, PoolInv, HandedOut, ExpirerOnlyExpires,
                    NoIdleConnection, [Next]_vars
             PROVE  NoIdleConnection'
  OBVIOUS
<1> USE DEF poolVars, sessionVars
<1>0. /\ \A r \in Requests : r \in Procs
      /\ Expirer \in Procs
  BY DEF Procs
<1>1. MadeStay
  BY NextMade
<1>2. ASSUME NEW r \in Requests,
             Login(r) \/ RejectCode(r) \/ ReuseClient(r) \/ ReplaceClient(r) \/ FreshClient(r) \/ DialFails(r)
               \/ StopOldHost(r) \/ StopReplaced(r)
      PROVE  NoIdleConnection'
  <2>1. job[r].pc \in {"idle", "get", "rehost"} \cup Dialing /\ UNCHANGED sessions
    BY <1>2 DEF Login, RejectCode, ReuseClient, ReplaceClient, FreshClient, DialFails, StopOldHost,
                StopReplaced, InGetClient, Dialing
  <2>2. job[r].pc \notin WithClient \cup Removal
    BY <2>1 DEF WithClient, Removal, Dialing
  <2>3. \A q \in Procs \ {r} : job'[q] = job[q]
    <3>1. CASE Login(r) \/ ReuseClient(r)
      BY <3>1 DEF Login, ReuseClient, TypeOK
    <3>2. CASE RejectCode(r) \/ DialFails(r)
      BY <3>2 DEF RejectCode, DialFails, Finish, TypeOK
    <3>3. CASE ReplaceClient(r) \/ FreshClient(r)
      BY <3>3 DEF ReplaceClient, FreshClient, Dial, TypeOK
    <3>4. CASE StopOldHost(r) \/ StopReplaced(r)
      BY <3>4 DEF StopOldHost, StopReplaced, Goto, TypeOK
    <3> QED BY <1>2, <3>1, <3>2, <3>3, <3>4
  <2>4. \A s \in Serials : pool'[s] # None => pool[s] # None
    <3>1. CASE FreshClient(r)
      BY <3>1 DEF FreshClient, TypeOK
    <3>2. CASE ~FreshClient(r)
      BY <1>2, <3>2 DEF Login, RejectCode, ReuseClient, ReplaceClient, DialFails, StopOldHost, StopReplaced
    <3> QED BY <3>1, <3>2
  <2> QED BY <1>0, <1>1, <2>1, <2>2, <2>3, <2>4, KeptFrame
<1>3. ASSUME NEW r \in Requests, DialSucceeds(r) \/ Replaced(r) PROVE NoIdleConnection'
  <2> DEFINE c == job[r].client
  <2>0. EnterPool(r) /\ job[r].pc \in {"dialNew", "replace"}
    BY <1>3 DEF DialSucceeds, Replaced
  <2>0a. PICK s \in Serials : s = job[r].serial
    BY <1>0 DEF TypeOK, Job
  <2>1. /\ c \in ClientIds /\ s \in Serials /\ clients[c].serial = s
        /\ job[r].pc \notin WithClient \cup Removal
    BY <2>0, <2>0a DEF PoolInv, HoldsOwn, Dialing, WithClient, Removal
  <2>2. /\ job'[r].pc = "have" /\ job'[r].client = c
        /\ \A q \in Procs \ {r} : job'[q] = job[q]
        /\ UNCHANGED sessions
        /\ \A x \in Serials \ {s} : pool'[x] = pool[x]
    BY <1>0, <2>0, <2>0a DEF EnterPool, TypeOK, Job
  <2>3. clients'[c].serial = s
    <3>1. clients \in [ClientIds -> Client]
      BY DEF TypeOK
    <3>2. clients' = [clients EXCEPT ![c].state = "running",
                                     ![c].bridge = IF Bridging THEN "dialing" ELSE "none"]
      BY <2>0 DEF EnterPool
    <3> HIDE DEF c
    <3> QED BY <2>1, <3>1, <3>2 DEF Client
  <2>4. KeptFor(s)'
    <3>1. job'[r].pc \in WithClient /\ clients'[job'[r].client].serial = s
      BY <2>2, <2>3 DEF WithClient
    <3> QED BY <3>1 DEF KeptFor, Creating
  <2>5. ASSUME NEW x \in Serials \ {s}, pool'[x] # None PROVE KeptFor(x)'
    <3>1. KeptFor(x)
      BY <2>2, <2>5 DEF NoIdleConnection, KeptFor
    <3>2. CASE \E sid \in LiveSessions : SerialOf(sid) = x
      BY <1>1, <2>2, <3>2 DEF KeptFor, LiveSessions, Live, SerialOf, HandedOut, MadeStay, TypeOK
    <3>3. CASE Creating(x)
      BY <1>0, <1>1, <2>1, <2>2, <3>3 DEF KeptFor, Creating, HandedOut, MadeStay
    <3>4. CASE Removing(x)
      BY <2>1, <2>2, <3>4 DEF KeptFor, Removing
    <3> QED BY <3>1, <3>2, <3>3, <3>4 DEF KeptFor
  <2>6. \A x \in Serials : pool'[x] # None => KeptFor(x)'
    BY <2>4, <2>5
  <2> QED BY <2>6 DEF NoIdleConnection, KeptFor
<1>4. ASSUME NEW r \in Requests, AddSession(r) \/ Insert(r) PROVE NoIdleConnection'
  <2>1. PICK sid \in SessionIds \ LiveSessions : Store(r, sid)
    BY <1>4 DEF AddSession, Insert
  <2>2. Finish(r) /\ UNCHANGED <<clients, pool>> /\ job[r].pc \in WithClient \ Removal
    BY <1>4 DEF AddSession, Insert, WithClient, Removal
  <2> QED BY <2>1, <2>2, KeptStore
<1>5. ASSUME NEW r \in Requests, Evict(r) PROVE NoIdleConnection'
  <2>1. PICK sid \in LiveSessions : Remove(r, sid, "evict", "insert")
    BY <1>5 DEF Evict
  <2>2. /\ UNCHANGED <<clients, pool>> /\ job[r].pc \notin Removal
        /\ "evict" \in Removal /\ "evict" \in WithClient /\ "insert" \in WithClient /\ "insert" \in Steps
    BY <1>5 DEF Evict, WithClient, Steps, UnderClientsMu, UnderMu, Removal, Dialing
  <2> QED BY <1>0, <2>1, <2>2, KeptRemove
<1>6. ASSUME NEW r \in Requests, Logout(r) PROVE NoIdleConnection'
  <2>1. PICK sid \in LiveSessions : Remove(r, sid, "logout", "release")
    BY <1>6 DEF Logout
  <2>2. /\ UNCHANGED <<clients, pool>> /\ job[r].pc \notin Removal /\ job[r].pc \notin WithClient
        /\ "logout" \in Removal /\ "release" \in Steps
    BY <1>6 DEF Logout, WithClient, Steps, UnderClientsMu, UnderMu, Removal, Dialing
  <2> QED BY <1>0, <2>1, <2>2, KeptRemove
<1>7. ASSUME NEW p \in Procs, StopEnds(p) PROVE NoIdleConnection'
  <2> DEFINE d == job[p].doomed
  <2>1. d \in Serials /\ pool'[d] = None /\ \A s \in Serials \ {d} : pool'[s] = pool[s]
    BY <1>7 DEF StopEnds, TypeOK, Job
  <2>2. PICK step \in {"insert", "release", "scan"} :
          Goto(p, step) /\ (job[p].pc \in WithClient => step \in WithClient)
    BY <1>7 DEF StopEnds, Removal, WithClient
  <2>3. /\ job'[p].pc = step /\ job'[p].client = job[p].client
        /\ \A q \in Procs \ {p} : job'[q] = job[q]
        /\ UNCHANGED sessions
    <3>1. UNCHANGED sessions
      BY <1>7 DEF StopEnds
    <3> QED BY <2>2, <3>1 DEF Goto, TypeOK, Job
  <2> HIDE DEF d
  <2>4. ASSUME NEW s \in Serials, pool'[s] # None PROVE KeptFor(s)'
    <3>1. KeptFor(s) /\ s # d
      BY <2>1, <2>4 DEF NoIdleConnection, KeptFor
    <3>2. CASE \E sid \in LiveSessions : SerialOf(sid) = s
      BY <1>1, <2>3, <3>2 DEF KeptFor, LiveSessions, Live, SerialOf, HandedOut, MadeStay, TypeOK
    <3>3. CASE Creating(s)
      BY <1>0, <1>1, <2>2, <2>3, <3>3 DEF KeptFor, Creating, HandedOut, MadeStay
    <3>4. CASE Removing(s)
      BY <2>3, <3>1, <3>4 DEF KeptFor, Removing, d
    <3> QED BY <3>1, <3>2, <3>3, <3>4 DEF KeptFor
  <2> QED BY <2>4 DEF NoIdleConnection, KeptFor
<1>8. ASSUME NEW p \in Procs, Release(p) PROVE NoIdleConnection'
  BY <1>1, <1>8, KeptFrame DEF Release, Finish, TypeOK, WithClient, Removal
<1>9. CASE ExpireBegin \/ ExpireEnd
  BY <1>0, <1>1, <1>9, KeptFrame DEF ExpireBegin, ExpireEnd, Goto, TypeOK, WithClient, Removal
<1>10. CASE ExpireOne
  <2>1. PICK sid \in LiveSessions :
          IF Idle(sid) THEN Remove(Expirer, sid, "expire", "scan") ELSE UNCHANGED <<sessionVars, job>>
    BY <1>10 DEF ExpireOne, ScanLive
  <2>2. /\ UNCHANGED <<clients, pool>> /\ job[Expirer].pc \notin Removal
        /\ job[Expirer].pc \notin WithClient /\ "expire" \in Removal /\ "scan" \in Steps
    BY <1>10 DEF ExpireOne, WithClient, Steps, UnderClientsMu, UnderMu, Removal, Dialing
  <2>3. CASE UNCHANGED <<sessionVars, job>>
    BY <1>0, <1>1, <2>2, <2>3, KeptFrame
  <2> QED BY <1>0, <2>1, <2>2, <2>3, KeptRemove
<1>11. ASSUME UNCHANGED <<sessions, job, pool>> PROVE NoIdleConnection'
  BY <1>0, <1>1, <1>11
  DEF NoIdleConnection, Creating, Removing, LiveSessions, Live, SerialOf, HandedOut, MadeStay, TypeOK
<1>12. ASSUME NEW sid \in SessionIds, Touch(sid) PROVE NoIdleConnection'
  BY <1>11, <1>12 DEF Touch
<1>13. ASSUME NEW c \in ClientIds, BridgeDials(c) \/ BridgeEnds(c) PROVE NoIdleConnection'
  BY <1>11, <1>13 DEF BridgeDials, BridgeEnds
<1>14. CASE Tick \/ UNCHANGED vars
  BY <1>11, <1>14 DEF Tick, vars
<1>15. ASSUME NEW p \in Procs, StopBegins(p) PROVE NoIdleConnection'
  BY <1>11, <1>15 DEF StopBegins
<1>16. ASSUME NEW c \in ClientIds,
              Disconnected(c) \/ CloseFile(c) \/ TransferBegins(c) \/ TransferEnds(c)
       PROVE  NoIdleConnection'
  BY <1>11, <1>16 DEF Disconnected, CloseFile, SetState, TransferBegins, TransferEnds, SetBusy
<1> QED
  BY <1>2, <1>3, <1>4, <1>5, <1>6, <1>7, <1>8, <1>9, <1>10, <1>12, <1>13, <1>14, <1>15, <1>16
  DEF Next, GetClient

\* However logins, logouts, expiry and evictions interleave, a pooled connection has
\* somebody who will release it (addSession, removeSessionLocked, expireSessions).
THEOREM ConnectionsAreUsed == Spec => []NoIdleConnection
<1>1. TypeOK /\ ScanLive /\ PoolInv /\ HandedOut /\ ExpirerOnlyExpires /\ NoIdleConnection /\ [Next]_vars
        => (TypeOK /\ ScanLive /\ PoolInv /\ HandedOut /\ ExpirerOnlyExpires /\ NoIdleConnection)'
  BY NextType, NextScan, NextPool, NextHandedOut, NextKept
<1> QED BY <1>1, InitType, InitScan, InitPool, InitHandedOut, InitKept, PTL DEF Spec

-----------------------------------------------------------------------------
(* The session limit. *)

\* A removal takes one session off the count, a store adds one to it.
LEMMA CountRemove ==
  ASSUME TypeOK, IsFiniteSet(LiveSessions), NEW p \in Procs, NEW sid \in LiveSessions,
         NEW stop, NEW next, Remove(p, sid, stop, next)
  PROVE  /\ IsFiniteSet(LiveSessions')
         /\ Cardinality(LiveSessions') = Cardinality(LiveSessions) - 1
<1>1. LiveSessions' = LiveSessions \ {sid}
  BY DEF LiveSessions, Live, Remove, TypeOK
<1> QED BY <1>1, FS_RemoveElement

LEMMA CountStore ==
  ASSUME TypeOK, IsFiniteSet(LiveSessions), NEW r \in Requests, NEW sid \in SessionIds \ LiveSessions,
         Store(r, sid)
  PROVE  /\ IsFiniteSet(LiveSessions')
         /\ Cardinality(LiveSessions') <= Cardinality(LiveSessions) + 1
<1>1. LiveSessions' \in {LiveSessions, LiveSessions \cup {sid}}
  BY DEF LiveSessions, Live, Store, TypeOK
<1>2. Cardinality(LiveSessions \cup {sid}) = Cardinality(LiveSessions) + 1 /\ IsFiniteSet(LiveSessions \cup {sid})
  BY FS_AddElement
<1>3. Cardinality(LiveSessions) \in Nat
  BY FS_CardinalityType
<1>4. CASE LiveSessions' = LiveSessions
  BY <1>3, <1>4
<1>5. CASE LiveSessions' = LiveSessions \cup {sid}
  BY <1>2, <1>3, <1>5
<1> QED BY <1>1, <1>4, <1>5

LEMMA InitLimit == Init => LimitInv
<1> SUFFICES ASSUME Init PROVE LimitInv
  OBVIOUS
<1>1. LiveSessions = {}
  BY DEF Init, LiveSessions, Live
<1>2. \A r \in Requests : job[r].pc = "idle"
  BY DEF Init, IdleJob, Procs
<1>3. IsFiniteSet(LiveSessions) /\ Cardinality(LiveSessions) = 0
  BY <1>1, FS_EmptySet
<1> QED BY <1>2, <1>3, BoundAssumption DEF LimitInv

LEMMA NextLimit == TypeOK /\ TypeOK' /\ ScanLive /\ LimitInv /\ [Next]_vars => LimitInv'
<1> SUFFICES ASSUME TypeOK, TypeOK', ScanLive, LimitInv, [Next]_vars PROVE LimitInv'
  OBVIOUS
<1> USE DEF poolVars, sessionVars
<1>0. /\ \A r \in Requests : r \in Procs /\ r # None /\ r # Expirer
      /\ Expirer \in Procs
      /\ Cardinality(LiveSessions) \in Nat /\ MaxSessions \in Nat
  BY ProcAssumption, FS_CardinalityType, BoundAssumption DEF Procs, LimitInv
<1>1. ASSUME UNCHANGED sessions,
             \A r \in Requests : job'[r].pc \in {"evict", "insert"} => job[r].pc \in {"evict", "insert"}
      PROVE  LimitInv'
  BY <1>1 DEF LimitInv, LiveSessions, Live
<1>2. ASSUME NEW p \in Procs, Finish(p)
      PROVE  \A r \in Requests : job'[r].pc \in {"evict", "insert"} => job[r].pc \in {"evict", "insert"}
  BY <1>0, <1>2 DEF Finish, IdleJob, TypeOK
<1>3. ASSUME NEW r \in Requests, Login(r) PROVE LimitInv'
  <2>1. job'[r].pc = "get" /\ \A q \in Requests \ {r} : job'[q] = job[q]
    BY <1>0, <1>3, IdleType DEF Login, TypeOK, Job
  <2> QED BY <1>1, <1>3, <2>1 DEF Login
<1>4. ASSUME NEW r \in Requests, RejectCode(r) \/ DialFails(r) PROVE LimitInv'
  BY <1>0, <1>1, <1>2, <1>4 DEF RejectCode, DialFails
<1>5. ASSUME NEW r \in Requests, ReuseClient(r) \/ DialSucceeds(r) \/ Replaced(r) PROVE LimitInv'
  <2>1. job'[r].pc = "have" /\ \A q \in Requests \ {r} : job'[q] = job[q]
    BY <1>0, <1>5 DEF ReuseClient, DialSucceeds, Replaced, EnterPool, TypeOK, Job
  <2> QED BY <1>1, <1>5, <2>1 DEF ReuseClient, DialSucceeds, Replaced, EnterPool
<1>6. ASSUME NEW r \in Requests, ReplaceClient(r) \/ FreshClient(r) PROVE LimitInv'
  <2>1. job'[r].pc \in Dialing /\ \A q \in Procs \ {r} : job'[q] = job[q]
    <3>1. PICK step \in Dialing, c \in ClientIds : job' = [job EXCEPT ![r].pc = step, ![r].client = c]
      BY <1>6 DEF ReplaceClient, FreshClient, Dial, Dialing
    <3> QED BY <1>0, <3>1 DEF TypeOK, Job
  <2> QED BY <1>0, <1>1, <1>6, <2>1 DEF Dialing, ReplaceClient, FreshClient
<1>6a. ASSUME NEW r \in Requests, StopOldHost(r) \/ StopReplaced(r) PROVE LimitInv'
  <2>1. job'[r].pc \in {"rehost", "replace"} /\ \A q \in Procs \ {r} : job'[q] = job[q]
    BY <1>0, <1>6a DEF StopOldHost, StopReplaced, Goto, TypeOK, Job
  <2> QED BY <1>0, <1>1, <1>6a, <2>1 DEF StopOldHost, StopReplaced
<1>7. ASSUME NEW r \in Requests, AddSession(r) PROVE LimitInv'
  <2>1. PICK sid \in SessionIds \ LiveSessions : Store(r, sid)
    BY <1>7 DEF AddSession
  <2>2. \A q \in Requests : job'[q].pc \notin {"evict", "insert"}
    <3>1. \A q \in Requests : job[q].pc \notin {"evict", "insert"}
      BY <1>0, <1>7 DEF AddSession, TypeOK, UnderMu, Removal
    <3> QED BY <1>0, <1>2, <1>7, <3>1 DEF AddSession
  <2>3. Cardinality(LiveSessions) < MaxSessions
    BY <1>7 DEF AddSession
  <2> QED BY <1>0, <2>1, <2>2, <2>3, CountStore, FS_CardinalityType DEF LimitInv
<1>8. ASSUME NEW r \in Requests, Insert(r) PROVE LimitInv'
  <2>1. PICK sid \in SessionIds \ LiveSessions : Store(r, sid)
    BY <1>8 DEF Insert
  <2>2. Cardinality(LiveSessions) < MaxSessions
    BY <1>8 DEF Insert, LimitInv
  <2>3. \A q \in Requests : job'[q].pc \notin {"evict", "insert"}
    <3>1. mu' = None
      BY <1>8 DEF Insert
    <3> QED BY <1>0, <3>1 DEF TypeOK, UnderMu, Removal
  <2>4. IsFiniteSet(LiveSessions) /\ IsFiniteSet(LiveSessions')
        /\ Cardinality(LiveSessions') <= Cardinality(LiveSessions) + 1
    BY <2>1, CountStore DEF LimitInv
  <2> QED BY <1>0, <2>2, <2>3, <2>4, FS_CardinalityType DEF LimitInv
<1>9. ASSUME NEW r \in Requests, Evict(r) PROVE LimitInv'
  <2>1. PICK sid \in LiveSessions : Remove(r, sid, "evict", "insert")
    BY <1>9 DEF Evict
  <2> QED BY <1>0, <2>1, CountRemove, FS_CardinalityType DEF LimitInv
<1>10. ASSUME NEW r \in Requests, Logout(r) PROVE LimitInv'
  <2>1. PICK sid \in LiveSessions : Remove(r, sid, "logout", "release")
    BY <1>10 DEF Logout
  <2> QED BY <1>0, <2>1, CountRemove, FS_CardinalityType DEF LimitInv
<1>11. ASSUME NEW p \in Procs, StopEnds(p) PROVE LimitInv'
  <2>1. PICK step \in {"insert", "release", "scan"} :
          Goto(p, step) /\ (step = "insert" => job[p].pc = "evict")
    <3>1. CASE job[p].pc = "evict"
      BY <1>11, <3>1 DEF StopEnds
    <3>2. CASE job[p].pc = "logout"
      BY <1>11, <3>2 DEF StopEnds
    <3>3. CASE job[p].pc = "expire"
      BY <1>11, <3>3 DEF StopEnds
    <3> QED BY <1>11, <3>1, <3>2, <3>3 DEF StopEnds, Removal
  <2>2. job'[p].pc = step /\ \A q \in Requests \ {p} : job'[q] = job[q]
    BY <1>0, <2>1 DEF Goto, TypeOK, Job
  <2> QED BY <1>1, <1>11, <2>1, <2>2 DEF StopEnds
<1>12. ASSUME NEW p \in Procs, Release(p) PROVE LimitInv'
  BY <1>1, <1>2, <1>12 DEF Release
<1>13. CASE ExpireBegin \/ ExpireEnd
  BY <1>0, <1>1, <1>13 DEF ExpireBegin, ExpireEnd, Goto, TypeOK
<1>14. CASE ExpireOne
  <2>1. PICK sid \in LiveSessions :
          IF Idle(sid) THEN Remove(Expirer, sid, "expire", "scan") ELSE UNCHANGED <<sessionVars, job>>
    BY <1>14 DEF ExpireOne, ScanLive
  <2>2. CASE Remove(Expirer, sid, "expire", "scan")
    <3>1. \A r \in Requests : job'[r] = job[r]
      BY <1>0, <2>2 DEF Remove, TypeOK
    <3> QED BY <1>0, <2>2, <3>1, CountRemove, FS_CardinalityType DEF LimitInv
  <2>3. CASE UNCHANGED <<sessionVars, job>>
    BY <1>1, <2>3
  <2> QED BY <2>1, <2>2, <2>3
<1>15. ASSUME NEW sid \in SessionIds, Touch(sid) PROVE LimitInv'
  BY <1>1, <1>15 DEF Touch
<1>16. ASSUME NEW c \in ClientIds, BridgeDials(c) \/ BridgeEnds(c) PROVE LimitInv'
  BY <1>1, <1>16 DEF BridgeDials, BridgeEnds
<1>17. CASE Tick \/ UNCHANGED vars
  BY <1>1, <1>17 DEF Tick, vars
<1>18. ASSUME NEW p \in Procs, StopBegins(p) PROVE LimitInv'
  BY <1>1, <1>18 DEF StopBegins
<1>19. ASSUME NEW c \in ClientIds,
              Disconnected(c) \/ CloseFile(c) \/ TransferBegins(c) \/ TransferEnds(c)
       PROVE  LimitInv'
  BY <1>1, <1>19 DEF Disconnected, CloseFile, SetState, TransferBegins, TransferEnds, SetBusy
<1> QED
  BY <1>3, <1>4, <1>5, <1>6, <1>6a, <1>7, <1>8, <1>9, <1>10, <1>11, <1>12, <1>13, <1>14, <1>15, <1>16, <1>17,
     <1>18, <1>19
  DEF Next, GetClient

\* The session table never outgrows maxSessions (addSession).
THEOREM TableIsBounded == Spec => []SessionLimit
<1>1. TypeOK /\ ScanLive /\ LimitInv /\ [Next]_vars => (TypeOK /\ ScanLive /\ LimitInv)'
  BY NextType, NextScan, NextLimit
<1>2. LimitInv => SessionLimit
  BY DEF LimitInv, SessionLimit
<1> QED BY <1>1, <1>2, InitType, InitScan, InitLimit, PTL DEF Spec

=============================================================================
