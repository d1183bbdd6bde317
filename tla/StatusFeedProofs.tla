-------------------------- MODULE StatusFeedProofs --------------------------
(***************************************************************************)
(* Proofs about StatusFeed, for any number of subscribers, handlers and    *)
(* callers, any channel capacity and any set of reports.                   *)
(***************************************************************************)
EXTENDS StatusFeed, TLAPS

\* A subscriber is in the map exactly while its channel is open, and nothing was
\* sent to a channel that was not made yet.
MapIsOpen ==
  \A s \in Subs : /\ s \in subscribers <=> chanState[s] = "open"
                  /\ chanState[s] = "none" => chan[s] = <<>>

\* A broadcast holds m.mu: the subscribers it has still to serve are in the map and
\* its copy of the status is the current one.
LoopHoldsLock ==
  \A h \in Handlers :
    /\ todo[h] \subseteq subscribers
    /\ pc[h] \notin Sending => todo[h] = {}
    /\ pc[h] \in Sending => snapshot[h] = version

\* What is buffered is ordered, not older than what was received, and not newer
\* than the status.
Ordered ==
  \A s \in Subs :
    /\ seen[s] <= version
    /\ \A i \in DOMAIN chan[s] : seen[s] <= chan[s][i] /\ chan[s][i] <= version
    /\ \A i, j \in DOMAIN chan[s] : i <= j => chan[s][i] <= chan[s][j]

-----------------------------------------------------------------------------
\* The operators on the status keep its type.
LEMMA LimitType == ASSUME NEW m PROVE GetBedTempLimit(m) \in Nat \ {0}
<1>1. DefaultBedLimit \in Nat \ {0}
  BY DEF DefaultBedLimit
<1>2. CASE m \in Models
  BY <1>2, ModelAssumption DEF GetBedTempLimit
<1>3. CASE m \notin Models
  BY <1>1, <1>3 DEF GetBedTempLimit
<1> QED BY <1>2, <1>3

LEMMA StatusOperators ==
  ASSUME NEW s \in Status, NEW m \in MessageType
  PROVE  /\ Merged(s, m) \in Status
         /\ Promoted(s) \in Status
         /\ ModelOf(m) \in Models \cup {NoModel}
         /\ \A model \in Models \cup {NoModel} : Identified(s, model) \in Status
<1>1. Merged(s, m) \in Status
  BY DEF Merged, Status, MessageType
<1>2. Promoted(s) \in Status
  BY LimitType, ModelAssumption DEF Promoted, Status
<1>3. ModelOf(m) \in Models \cup {NoModel}
  BY ModelAssumption DEF ModelOf, MessageType
<1>4. ASSUME NEW model \in Models \cup {NoModel} PROVE Identified(s, model) \in Status
  BY LimitType DEF Identified, Status
<1> QED BY <1>1, <1>2, <1>3, <1>4

\* Init establishes the type invariant.
LEMMA InitType == Init => TypeOK
<1> SUFFICES ASSUME Init PROVE TypeOK
  OBVIOUS
<1>1. Blank \in Status
  BY DEF Blank, Status
<1>2. version \in Nat
  BY DEF Init
<1>3. msg \in [Handlers -> MessageType]
  BY <1>1 DEF Init, NoMessage, MessageType
<1>4. snapshot \in [Handlers -> Nat]
  BY DEF Init
<1>5. /\ received \in 0..MaxMsgs
      /\ issued \in 0..MaxCommands
  BY BoundAssumption DEF Init
<1>6. chan \in [Subs -> Seq(Nat)] /\ \A s \in Subs : Len(chan[s]) <= Cap
  BY CapAssumption DEF Init
<1>7. caller \in [Callers -> CallerType]
  BY DEF Init, Idle, CallerType
<1> QED
  BY <1>1, <1>2, <1>3, <1>4, <1>5, <1>6, <1>7 DEF Init, TypeOK, Places

-----------------------------------------------------------------------------
\* Every step keeps the type invariant.
LEMMA NextType == TypeOK /\ [Next]_vars => TypeOK'
<1> SUFFICES ASSUME TypeOK, [Next]_vars PROVE TypeOK'
  OBVIOUS
<1> USE DEF TypeOK, feedVars, handlerVars, callerVars
<1>1. ASSUME NEW s \in Subs, Subscribe(s) PROVE TypeOK'
  BY <1>1 DEF Subscribe
<1>2. ASSUME NEW s \in Subs, Unsubscribe(s) PROVE TypeOK'
  BY <1>2 DEF Unsubscribe
<1>3. ASSUME NEW s \in Subs, Receive(s) PROVE TypeOK'
  <2>1. chan[s] \in Seq(Nat) /\ chan[s] # <<>> /\ Len(chan[s]) <= Cap
    BY <1>3 DEF Receive
  <2>2. Tail(chan[s]) \in Seq(Nat) /\ Len(Tail(chan[s])) <= Cap
    BY <2>1, CapAssumption
  <2>3. Head(chan[s]) \in Nat
    BY <2>1
  <2>4. seen' \in [Subs -> Nat]
    BY <1>3, <2>3 DEF Receive
  <2>5. chan' \in [Subs -> Seq(Nat)] /\ \A r \in Subs : Len(chan'[r]) <= Cap
    BY <1>3, <2>2 DEF Receive
  <2> QED BY <1>3, <2>4, <2>5 DEF Receive
<1>4. ASSUME NEW h \in Handlers, OnMessage(h) PROVE TypeOK'
  BY <1>4, MessageAssumption, BoundAssumption DEF OnMessage, Places
<1>5. ASSUME NEW h \in Handlers, MergeFails(h) PROVE TypeOK'
  BY <1>5 DEF MergeFails, Places
<1>6. ASSUME NEW h \in Handlers, MergePrint(h) PROVE TypeOK'
  <2>1. Promoted(Merged(status, msg[h])) \in Status
    BY StatusOperators
  <2>2. status' \in Status /\ version' \in Nat /\ merged' \in Nat
    BY <1>6, <2>1 DEF MergePrint, SetStatus
  <2>3. pc' \in [Handlers -> Places]
    BY <1>6 DEF MergePrint, Places
  <2>4. told' \in Models \cup {NoModel}
    <3>1. msg[h].values.model \in Models \cup {NoModel}
      BY DEF MessageType, Status
    <3> QED BY <1>6, <3>1 DEF MergePrint
  <2> QED BY <1>6, <2>2, <2>3, <2>4 DEF MergePrint
<1>7. ASSUME NEW h \in Handlers, ProcessInfo(h) PROVE TypeOK'
  <2>1. Identified(status, ModelOf(msg[h])) \in Status
    BY StatusOperators
  <2>2. status' \in Status /\ version' \in Nat /\ merged' \in Nat
    <3>1. CASE msg[h].info = "get_version"
      <4>1. /\ status' = Identified(status, ModelOf(msg[h]))
            /\ version' = version + 1
            /\ merged' = version + 1
        BY <1>7, <3>1 DEF ProcessInfo, SetStatus
      <4> QED BY <2>1, <4>1
    <3>2. CASE msg[h].info # "get_version"
      BY <1>7, <3>2 DEF ProcessInfo
    <3> QED BY <3>1, <3>2
  <2>3. pc' \in [Handlers -> Places]
    BY <1>7 DEF ProcessInfo, Places
  <2>4. identified' \in BOOLEAN
    BY <1>7 DEF ProcessInfo
  <2>5. told' \in Models \cup {NoModel}
    <3>1. ModelOf(msg[h]) \in Models \cup {NoModel}
      BY StatusOperators
    <3> QED BY <1>7, <3>1 DEF ProcessInfo
  <2> QED BY <1>7, <2>2, <2>3, <2>4, <2>5 DEF ProcessInfo
<1>8. ASSUME NEW h \in Handlers, BroadcastBegin(h) PROVE TypeOK'
  <2>1. pc' \in [Handlers -> Places]
    BY <1>8 DEF BroadcastBegin, Places
  <2>2. snapshot' \in [Handlers -> Nat]
    BY <1>8 DEF BroadcastBegin
  <2>3. todo' \in [Handlers -> SUBSET Subs]
    BY <1>8 DEF BroadcastBegin
  <2> QED BY <1>8, <2>1, <2>2, <2>3 DEF BroadcastBegin
<1>9. ASSUME NEW h \in Handlers, NEW s \in Subs, BroadcastSend(h, s) PROVE TypeOK'
  <2>1. chan' \in [Subs -> Seq(Nat)] /\ \A r \in Subs : Len(chan'[r]) <= Cap
    <3>1. ASSUME Len(chan[s]) < Cap
          PROVE  Append(chan[s], snapshot[h]) \in Seq(Nat) /\ Len(Append(chan[s], snapshot[h])) <= Cap
      BY <3>1, CapAssumption
    <3> QED BY <1>9, <3>1 DEF BroadcastSend
  <2>2. lossy' \in [Subs -> BOOLEAN] /\ panicked' \in BOOLEAN
    BY <1>9 DEF BroadcastSend
  <2>3. todo' \in [Handlers -> SUBSET Subs]
    BY <1>9 DEF BroadcastSend
  <2> QED BY <1>9, <2>1, <2>2, <2>3 DEF BroadcastSend
<1>10. ASSUME NEW h \in Handlers, BroadcastEnd(h) PROVE TypeOK'
  BY <1>10 DEF BroadcastEnd, Places
<1>11. ASSUME NEW c \in Callers, PublishLight(c) PROVE TypeOK'
  <2>1. caller' \in [Callers -> CallerType]
    <3>1. \A l \in Lights : [Idle EXCEPT !.op = "setLight", !.light = l] \in CallerType
      <4>1. Idle \in CallerType
        BY DEF Idle, CallerType
      <4> QED BY <4>1 DEF CallerType
    <3> QED BY <1>11, <3>1 DEF PublishLight
  <2>2. issued' \in 0..MaxCommands
    BY <1>11, BoundAssumption DEF PublishLight
  <2> QED BY <1>11, <2>1, <2>2 DEF PublishLight
<1>12. ASSUME NEW c \in Callers, SetLightMode(c) PROVE TypeOK'
  <2>1. caller' \in [Callers -> CallerType]
    BY <1>12 DEF SetLightMode, CallerType, Idle
  <2>2. [status EXCEPT !.light = caller[c].light] \in Status
    BY DEF CallerType, Status
  <2>3. status' \in Status /\ version' \in Nat
    BY <1>12, <2>2 DEF SetLightMode, SetStatus
  <2> QED BY <1>12, <2>1, <2>3 DEF SetLightMode
<1>13. ASSUME NEW c \in Callers, CheckTemperature(c) PROVE TypeOK'
  <2>1. caller' \in [Callers -> CallerType]
    <3>1. \A t \in Temps, heater \in {"bed", "chamber"} :
            [Idle EXCEPT !.op = "setHeat", !.heater = heater, !.temp = t, !.known = identified] \in CallerType
      BY TempAssumption DEF Idle, CallerType
    <3> QED BY <1>13, <3>1 DEF CheckTemperature
  <2>2. issued' \in 0..MaxCommands
    BY <1>13, BoundAssumption DEF CheckTemperature
  <2> QED BY <1>13, <2>1, <2>2 DEF CheckTemperature
<1>14. ASSUME NEW c \in Callers, PublishTemperature(c) PROVE TypeOK'
  BY <1>14 DEF PublishTemperature, CallerType, Idle, Lights
<1>15. CASE UNCHANGED vars
  BY <1>15 DEF vars
<1> QED
  BY <1>1, <1>2, <1>3, <1>4, <1>5, <1>6, <1>7, <1>8, <1>9, <1>10, <1>11, <1>12, <1>13, <1>14, <1>15
  DEF Next, HandlerStep

\* The operations on the shared status and its channels stay within their types
\* (mqtt_client.go), the channels within their capacity.
THEOREM TypeCorrect == Spec => []TypeOK
BY InitType, NextType, PTL DEF Spec

-----------------------------------------------------------------------------
\* The map, the channels and the locked loop agree.
LockInv == MapIsOpen /\ LoopHoldsLock /\ NeverPanics

LEMMA InitLock == Init => LockInv
BY DEF Init, LockInv, MapIsOpen, LoopHoldsLock, NeverPanics, Sending

LEMMA NextLock == TypeOK /\ TypeOK' /\ LockInv /\ [Next]_vars => LockInv'
<1> SUFFICES ASSUME TypeOK, TypeOK', LockInv, [Next]_vars PROVE LockInv'
  OBVIOUS
<1> USE DEF LockInv, MapIsOpen, LoopHoldsLock, NeverPanics, Sending, feedVars, handlerVars, callerVars
<1>1. ASSUME NEW s \in Subs, Subscribe(s) PROVE LockInv'
  BY <1>1 DEF Subscribe, NoReader, TypeOK
<1>2. ASSUME NEW s \in Subs, Unsubscribe(s) PROVE LockInv'
  BY <1>2 DEF Unsubscribe, NoReader, TypeOK
<1>3. ASSUME NEW s \in Subs, Receive(s) PROVE LockInv'
  BY <1>3 DEF Receive, TypeOK
<1>4. ASSUME NEW h \in Handlers, OnMessage(h) PROVE LockInv'
  BY <1>4 DEF OnMessage, TypeOK
<1>5. ASSUME NEW h \in Handlers, MergeFails(h) PROVE LockInv'
  BY <1>5 DEF MergeFails, TypeOK
<1>6. ASSUME NEW h \in Handlers, MergePrint(h) PROVE LockInv'
  BY <1>6 DEF MergePrint, NoReader, TypeOK
<1>7. ASSUME NEW h \in Handlers, ProcessInfo(h) PROVE LockInv'
  BY <1>7 DEF ProcessInfo, NoReader, TypeOK
<1>8. ASSUME NEW h \in Handlers, BroadcastBegin(h) PROVE LockInv'
  BY <1>8 DEF BroadcastBegin, TypeOK
<1>9. ASSUME NEW h \in Handlers, NEW s \in Subs, BroadcastSend(h, s) PROVE LockInv'
  BY <1>9 DEF BroadcastSend, TypeOK
<1>10. ASSUME NEW h \in Handlers, BroadcastEnd(h) PROVE LockInv'
  BY <1>10 DEF BroadcastEnd, TypeOK
<1>11. ASSUME NEW c \in Callers, PublishLight(c) PROVE LockInv'
  BY <1>11 DEF PublishLight
<1>12. ASSUME NEW c \in Callers, SetLightMode(c) PROVE LockInv'
  BY <1>12 DEF SetLightMode, NoReader
<1>13. ASSUME NEW c \in Callers, CheckTemperature(c) PROVE LockInv'
  BY <1>13 DEF CheckTemperature
<1>14. ASSUME NEW c \in Callers, PublishTemperature(c) PROVE LockInv'
  BY <1>14 DEF PublishTemperature
<1>15. CASE UNCHANGED vars
  BY <1>15 DEF vars
<1> QED
  BY <1>1, <1>2, <1>3, <1>4, <1>5, <1>6, <1>7, <1>8, <1>9, <1>10, <1>11, <1>12, <1>13, <1>14, <1>15
  DEF Next, HandlerStep

\* No interleaving of cancels and broadcasts, of any number of either, sends on a
\* closed channel (broadcastStatus, unsubscribe).
THEOREM NoSendOnClosed == Spec => []NeverPanics
<1>1. Init => TypeOK /\ LockInv
  BY InitType, InitLock
<1>2. TypeOK /\ LockInv /\ [Next]_vars => (TypeOK /\ LockInv)'
  BY NextType, NextLock
<1>3. LockInv => NeverPanics
  BY DEF LockInv
<1> QED BY <1>1, <1>2, <1>3, PTL DEF Spec

-----------------------------------------------------------------------------
\* What a channel holds is versioned by naturals.
LEMMA BufferedType ==
  ASSUME TypeOK, NEW s \in Subs, NEW i \in DOMAIN chan[s]
  PROVE  chan[s][i] \in Nat /\ i \in Nat
<1>1. chan[s] \in Seq(Nat)
  BY DEF TypeOK
<1> QED BY <1>1

\* Buffers stay ordered.
LEMMA InitOrdered == Init => Ordered
<1> SUFFICES ASSUME Init, NEW s \in Subs
             PROVE  /\ seen[s] <= version
                    /\ \A i \in DOMAIN chan[s] : seen[s] <= chan[s][i] /\ chan[s][i] <= version
                    /\ \A i, j \in DOMAIN chan[s] : i <= j => chan[s][i] <= chan[s][j]
  BY DEF Ordered
<1>1. seen[s] = 0 /\ version = 1
  BY DEF Init
<1>2. chan[s] = <<>>
  BY DEF Init
<1>3. DOMAIN chan[s] = {}
  BY <1>2
<1> QED BY <1>1, <1>3

\* A new version changes nothing for what is buffered.
LEMMA NewVersionOrdered ==
  ASSUME TypeOK, TypeOK', Ordered, version' = version + 1, UNCHANGED <<chan, seen>>
  PROVE  Ordered' /\ \A s \in Subs : seen'[s] >= seen[s]
<1>1. version \in Nat /\ version' = version + 1
  BY DEF TypeOK
<1>2. \A s \in Subs : seen[s] \in Nat /\ \A i \in DOMAIN chan[s] : chan[s][i] \in Nat
  BY BufferedType DEF TypeOK
<1> QED BY <1>1, <1>2 DEF Ordered

LEMMA NextOrdered ==
  TypeOK /\ TypeOK' /\ LockInv /\ Ordered /\ [Next]_vars
    => Ordered' /\ \A s \in Subs : seen'[s] >= seen[s]
<1> SUFFICES ASSUME TypeOK, TypeOK', LockInv, Ordered, [Next]_vars
             PROVE  Ordered' /\ \A s \in Subs : seen'[s] >= seen[s]
  OBVIOUS
<1> DEFINE Goal == Ordered' /\ \A s \in Subs : seen'[s] >= seen[s]
<1> USE DEF feedVars, handlerVars, callerVars
<1>1. ASSUME NEW s \in Subs, Subscribe(s) PROVE Goal
  BY <1>1 DEF Subscribe, TypeOK, LockInv, MapIsOpen, Ordered
<1>2. ASSUME NEW s \in Subs, Unsubscribe(s) PROVE Goal
  BY <1>2 DEF Unsubscribe, TypeOK, Ordered
<1>3. ASSUME NEW s \in Subs, Receive(s) PROVE Goal
  <2>1. /\ chan[s] \in Seq(Nat) /\ chan[s] # <<>>
        /\ seen' = [seen EXCEPT ![s] = chan[s][1]]
        /\ chan' = [chan EXCEPT ![s] = Tail(chan[s])]
        /\ version' = version
    BY <1>3 DEF Receive, TypeOK
  <2>2. \A i \in DOMAIN Tail(chan[s]) : Tail(chan[s])[i] = chan[s][i + 1] /\ i + 1 \in DOMAIN chan[s]
    BY <2>1
  <2>3. 1 \in DOMAIN chan[s] /\ \A i \in DOMAIN chan[s] : i >= 1 /\ chan[s][i] \in Nat
    BY <2>1, BufferedType
  <2>4. \A i \in DOMAIN Tail(chan[s]) : i \in Nat
    BY <2>1
  <2>5. /\ version' = version
        /\ seen'[s] = chan[s][1] /\ chan'[s] = Tail(chan[s])
        /\ \A r \in Subs \ {s} : seen'[r] = seen[r] /\ chan'[r] = chan[r]
    BY <2>1 DEF TypeOK
  <2>6. /\ seen[s] <= chan[s][1] /\ chan[s][1] <= version
        /\ \A i \in DOMAIN chan[s] : chan[s][1] <= chan[s][i] /\ chan[s][i] <= version
    BY <2>3 DEF Ordered
  <2>7. /\ seen'[s] <= version'
        /\ \A i \in DOMAIN chan'[s] : seen'[s] <= chan'[s][i] /\ chan'[s][i] <= version'
    BY <2>2, <2>5, <2>6
  <2>8. \A i, j \in DOMAIN chan'[s] : i <= j => chan'[s][i] <= chan'[s][j]
    <3> SUFFICES ASSUME NEW i \in DOMAIN chan'[s], NEW j \in DOMAIN chan'[s], i <= j
                 PROVE  chan'[s][i] <= chan'[s][j]
      OBVIOUS
    <3>1. i + 1 \in DOMAIN chan[s] /\ j + 1 \in DOMAIN chan[s] /\ i + 1 <= j + 1
      BY <2>2, <2>4, <2>5
    <3>2. chan[s][i + 1] <= chan[s][j + 1]
      BY <3>1 DEF Ordered
    <3> QED BY <2>2, <2>5, <3>2
  <2>9. \A r \in Subs : seen'[r] >= seen[r]
    <3> SUFFICES ASSUME NEW r \in Subs PROVE seen'[r] >= seen[r]
      OBVIOUS
    <3>1. seen[r] \in Nat
      BY DEF TypeOK
    <3> QED BY <2>3, <2>5, <2>6, <3>1
  <2>10. \A r \in Subs \ {s} :
           /\ seen'[r] <= version'
           /\ \A i \in DOMAIN chan'[r] : seen'[r] <= chan'[r][i] /\ chan'[r][i] <= version'
           /\ \A i, j \in DOMAIN chan'[r] : i <= j => chan'[r][i] <= chan'[r][j]
    BY <2>5 DEF Ordered
  <2> QED BY <2>7, <2>8, <2>9, <2>10 DEF Ordered
<1>4. ASSUME NEW h \in Handlers, OnMessage(h) PROVE Goal
  BY <1>4 DEF OnMessage, TypeOK, Ordered
<1>5. ASSUME NEW h \in Handlers, MergeFails(h) PROVE Goal
  BY <1>5 DEF MergeFails, TypeOK, Ordered
<1>6. ASSUME NEW h \in Handlers, MergePrint(h) PROVE Goal
  BY <1>6, NewVersionOrdered DEF MergePrint, SetStatus
<1>7. ASSUME NEW h \in Handlers, ProcessInfo(h) PROVE Goal
  <2>1. CASE msg[h].info = "get_version"
    BY <1>7, <2>1, NewVersionOrdered DEF ProcessInfo, SetStatus
  <2>2. CASE msg[h].info # "get_version"
    BY <1>7, <2>2 DEF ProcessInfo, Ordered, TypeOK
  <2> QED BY <2>1, <2>2
<1>8. ASSUME NEW h \in Handlers, BroadcastBegin(h) PROVE Goal
  BY <1>8 DEF BroadcastBegin, TypeOK, Ordered
<1>9. ASSUME NEW h \in Handlers, NEW s \in Subs, BroadcastSend(h, s) PROVE Goal
  <2>1. snapshot[h] = version /\ version \in Nat
    BY <1>9 DEF BroadcastSend, LockInv, LoopHoldsLock, TypeOK
  <2>2. version' = version /\ seen' = seen
    BY <1>9 DEF BroadcastSend
  <2>3. \/ chan' = chan
        \/ chan' = [chan EXCEPT ![s] = Append(chan[s], snapshot[h])]
    BY <1>9 DEF BroadcastSend, TypeOK
  <2>4. CASE chan' = chan
    BY <2>2, <2>4 DEF Ordered, TypeOK
  <2>5. CASE chan' = [chan EXCEPT ![s] = Append(chan[s], snapshot[h])]
    <3> DEFINE n == Len(chan[s]) + 1
    <3>1. /\ chan'[s] = Append(chan[s], snapshot[h])
          /\ \A r \in Subs \ {s} : chan'[r] = chan[r]
      BY <2>5 DEF TypeOK
    <3>2. /\ DOMAIN chan'[s] = DOMAIN chan[s] \cup {n}
          /\ chan'[s][n] = snapshot[h]
          /\ \A i \in DOMAIN chan[s] : chan'[s][i] = chan[s][i] /\ i \in 1..n-1
          /\ n \in Nat
      <4>1. chan[s] \in Seq(Nat) /\ snapshot[h] \in Nat
        BY DEF TypeOK
      <4> QED BY <3>1, <4>1
    <3>3. seen[s] <= version /\ seen[s] \in Nat
      BY DEF Ordered, TypeOK
    <3> HIDE DEF n
    <3>4. \A i \in DOMAIN chan[s] : /\ seen[s] <= chan[s][i] /\ chan[s][i] <= version
                                    /\ chan[s][i] \in Nat
      BY BufferedType DEF Ordered
    <3>5. /\ seen'[s] <= version'
          /\ \A i \in DOMAIN chan'[s] : seen'[s] <= chan'[s][i] /\ chan'[s][i] <= version'
      BY <2>1, <2>2, <3>2, <3>3, <3>4
    <3>6. \A i, j \in DOMAIN chan'[s] : i <= j => chan'[s][i] <= chan'[s][j]
      <4> SUFFICES ASSUME NEW i \in DOMAIN chan'[s], NEW j \in DOMAIN chan'[s], i <= j
                   PROVE  chan'[s][i] <= chan'[s][j]
        OBVIOUS
      <4>1. CASE i \in DOMAIN chan[s] /\ j \in DOMAIN chan[s]
        BY <3>2, <4>1 DEF Ordered
      <4>2. CASE j = n
        BY <2>1, <3>2, <3>4, <4>2
      <4>3. CASE i = n /\ j \in DOMAIN chan[s]
        BY <3>2, <4>3
      <4> QED BY <3>2, <4>1, <4>2, <4>3
    <3>7. \A r \in Subs : seen'[r] >= seen[r]
      BY <2>2 DEF TypeOK
    <3> QED BY <2>2, <3>1, <3>5, <3>6, <3>7 DEF Ordered
  <2> QED BY <2>3, <2>4, <2>5
<1>10. ASSUME NEW h \in Handlers, BroadcastEnd(h) PROVE Goal
  BY <1>10 DEF BroadcastEnd, TypeOK, Ordered
<1>11. ASSUME NEW c \in Callers, PublishLight(c) PROVE Goal
  BY <1>11 DEF PublishLight, TypeOK, Ordered
<1>12. ASSUME NEW c \in Callers, SetLightMode(c) PROVE Goal
  BY <1>12, NewVersionOrdered DEF SetLightMode, SetStatus
<1>13. ASSUME NEW c \in Callers, CheckTemperature(c) PROVE Goal
  BY <1>13 DEF CheckTemperature, TypeOK, Ordered
<1>14. ASSUME NEW c \in Callers, PublishTemperature(c) PROVE Goal
  BY <1>14 DEF PublishTemperature, TypeOK, Ordered
<1>15. CASE UNCHANGED vars
  BY <1>15 DEF vars, TypeOK, Ordered
<1> QED
  BY <1>1, <1>2, <1>3, <1>4, <1>5, <1>6, <1>7, <1>8, <1>9, <1>10, <1>11, <1>12, <1>13, <1>14, <1>15
  DEF Next, HandlerStep

\* A subscriber never receives a status older than one it already has, or than its
\* subscription (broadcastStatus clones under the lock it sends under).
THEOREM ReceivedInOrder == Spec => NeverBackwards
<1>1. Init => TypeOK /\ LockInv /\ Ordered
  BY InitType, InitLock, InitOrdered
<1>2. TypeOK /\ LockInv /\ Ordered /\ [Next]_vars => (TypeOK /\ LockInv /\ Ordered)'
  BY NextType, NextLock, NextOrdered
<1>3. TypeOK /\ TypeOK' /\ LockInv /\ Ordered /\ [Next]_vars => [\A s \in Subs : seen'[s] >= seen[s]]_seen
  BY NextOrdered
<1> QED BY <1>1, <1>2, <1>3, PTL DEF Spec, NeverBackwards

-----------------------------------------------------------------------------
\* What the status claims is what was told last, through every merge and every reply.
LEMMA NextTold == TypeOK /\ ModelIsLastTold /\ [Next]_vars => ModelIsLastTold'
<1> SUFFICES ASSUME TypeOK, ModelIsLastTold, [Next]_vars PROVE ModelIsLastTold'
  OBVIOUS
<1> USE DEF feedVars, handlerVars, callerVars
<1>1. ASSUME UNCHANGED <<status, told>> PROVE ModelIsLastTold'
  BY <1>1 DEF ModelIsLastTold
<1>2. ASSUME NEW h \in Handlers, MergePrint(h) PROVE ModelIsLastTold'
  <2>0. msg[h] \in MessageType /\ status \in Status
    BY DEF TypeOK
  <2> DEFINE r == Merged(status, msg[h])
  <2>1. /\ status' = Promoted(r) /\ r \in Status
        /\ told' = IF "model" \in msg[h].carries THEN msg[h].values.model ELSE told
    BY <1>2, <2>0, StatusOperators DEF MergePrint, SetStatus
  <2>2. r.model = IF "model" \in msg[h].carries THEN msg[h].values.model ELSE status.model
    BY DEF Merged
  <2>3. r.model = told' \/ (told' \in {NoModel, "C11"} /\ r.model = "C12")
    BY <2>1, <2>2 DEF ModelIsLastTold
  <2> HIDE DEF r
  <2>4. Promoted(r).model = r.model \/ (r.model \in {NoModel, "C11"} /\ Promoted(r).model = "C12")
    BY <2>1 DEF Promoted, Status
  <2> QED BY <2>1, <2>3, <2>4 DEF ModelIsLastTold
<1>3. ASSUME NEW h \in Handlers, ProcessInfo(h) PROVE ModelIsLastTold'
  <2>1. CASE msg[h].info # "get_version"
    BY <1>1, <1>3, <2>1 DEF ProcessInfo
  <2>2. CASE msg[h].info = "get_version" /\ ModelOf(msg[h]) = NoModel
    BY <1>1, <1>3, <2>2 DEF ProcessInfo, SetStatus, Identified
  <2>3. CASE msg[h].info = "get_version" /\ ModelOf(msg[h]) # NoModel
    BY <1>3, <2>3 DEF ProcessInfo, SetStatus, Identified, TypeOK, Status, ModelIsLastTold
  <2> QED BY <2>1, <2>2, <2>3
<1>4. ASSUME NEW c \in Callers, SetLightMode(c) PROVE ModelIsLastTold'
  BY <1>4 DEF SetLightMode, SetStatus, TypeOK, Status, ModelIsLastTold
<1>5. ASSUME NEW s \in Subs, Subscribe(s) \/ Unsubscribe(s) \/ Receive(s) PROVE ModelIsLastTold'
  BY <1>1, <1>5 DEF Subscribe, Unsubscribe, Receive
<1>6. ASSUME NEW h \in Handlers, OnMessage(h) \/ MergeFails(h) \/ BroadcastBegin(h) \/ BroadcastEnd(h)
      PROVE ModelIsLastTold'
  BY <1>1, <1>6 DEF OnMessage, MergeFails, BroadcastBegin, BroadcastEnd
<1>7. ASSUME NEW h \in Handlers, NEW s \in Subs, BroadcastSend(h, s) PROVE ModelIsLastTold'
  BY <1>1, <1>7 DEF BroadcastSend
<1>8. ASSUME NEW c \in Callers, PublishLight(c) \/ CheckTemperature(c) \/ PublishTemperature(c)
      PROVE ModelIsLastTold'
  BY <1>1, <1>8 DEF PublishLight, CheckTemperature, PublishTemperature
<1>9. CASE UNCHANGED vars
  BY <1>1, <1>9 DEF vars
<1> QED
  BY <1>2, <1>3, <1>4, <1>5, <1>6, <1>7, <1>8, <1>9 DEF Next, HandlerStep

\* For every mix of reports, replies and commands, true of the printer or not, the status
\* claims the model told last, up to the promotion to a P1S (processInfo, onMessage).
THEOREM ModelFollowsTold == Spec => []ModelIsLastTold
<1>1. Init => ModelIsLastTold
  BY DEF Init, Blank, ModelIsLastTold
<1> QED BY <1>1, InitType, NextType, NextTold, PTL DEF Spec

-----------------------------------------------------------------------------
(* A printer that tells its own model and limits. *)

\* The status of a printer that has told its model shows its limits.
Own(s) == s.model \in OwnModels /\ s.bed = BedCap[Printer]

\* While all that was delivered is true of the printer: what the handlers work on is, and the status
\* after a get_version reply; what was checked then is within the printer's limits.
OwnInv ==
  /\ \A c \in Callers : caller[c].op = "setHeat" /\ caller[c].known => identified
  /\ honest => /\ \A h \in Handlers : TrueOfPrinter(msg[h])
               /\ identified => Own(status)
               /\ \A c \in Callers : caller[c].op = "setHeat" /\ caller[c].known =>
                    caller[c].temp \in 0..CapOf(caller[c].heater, Printer)

\* The models a printer may truthfully claim have its limits.
LEMMA OwnLimits ==
  /\ OwnModels \subseteq Models
  /\ \A m \in OwnModels : BedCap[m] = BedCap[Printer] /\ ChamberCap[m] = ChamberCap[Printer]
  /\ "C11" \in OwnModels => "C12" \in OwnModels
BY ModelAssumption, P1Assumption DEF OwnModels, P1Models

\* What is checked against such a status is checked against the printer's limits.
LEMMA LimitIsOwn ==
  ASSUME NEW s, Own(s), NEW heater \in {"bed", "chamber"}
  PROVE  TempLimit(s, heater) = CapOf(heater, Printer)
<1>1. CASE heater = "bed"
  <2>1. s.bed = BedCap[Printer] /\ BedCap[Printer] # 0
    BY ModelAssumption DEF Own
  <2> QED BY <1>1, <2>1 DEF TempLimit, CapOf
<1>2. CASE heater = "chamber"
  <2>1. s.model \in Models /\ ChamberCap[s.model] = ChamberCap[Printer]
    BY OwnLimits DEF Own
  <2> QED BY <1>2, <2>1 DEF TempLimit, CapOf
<1> QED BY <1>1, <1>2

\* A report that is true of the printer keeps it so, with the promotion that follows.
LEMMA MergeKeepsOwn ==
  ASSUME NEW s \in Status, Own(s), NEW m \in MessageType, TrueOfPrinter(m)
  PROVE  Own(Promoted(Merged(s, m)))
<1> DEFINE r == Merged(s, m)
<1>1. r \in Status
  BY StatusOperators
<1>2. r.model \in OwnModels /\ r.bed = BedCap[Printer]
  BY DEF Merged, Own, TrueOfPrinter
<1> HIDE DEF r
<1>3. r.model # NoModel
  BY <1>2, OwnLimits, ModelAssumption
<1>4. ASSUME r.model = "C11" PROVE Own(Promoted(r))
  <2>1. "C12" \in OwnModels
    BY <1>2, <1>4, OwnLimits
  <2>2. GetBedTempLimit("C12") = BedCap[Printer]
    BY <2>1, OwnLimits DEF GetBedTempLimit
  <2>3. Promoted(r) \in {r, [r EXCEPT !.model = "C12", !.bed = GetBedTempLimit("C12")]}
    BY DEF Promoted
  <2> QED BY <1>1, <1>2, <2>1, <2>2, <2>3 DEF Own, Status
<1>5. ASSUME r.model # "C11" PROVE Own(Promoted(r))
  <2>1. Promoted(r) = r
    BY <1>3, <1>5 DEF Promoted
  <2> QED BY <1>2, <2>1 DEF Own
<1>6. Own(Promoted(r))
  BY <1>4, <1>5
<1> QED BY <1>6 DEF r

\* A get_version reply that is true of the printer makes it so.
LEMMA ReplyIsOwn ==
  ASSUME NEW s \in Status, NEW m \in MessageType, TrueOfPrinter(m), m.info = "get_version", ModelOf(m) # NoModel
  PROVE  Own(Identified(s, ModelOf(m)))
<1>1. ModelOf(m) \in OwnModels
  BY DEF TrueOfPrinter
<1>2. GetBedTempLimit(ModelOf(m)) = BedCap[Printer]
  BY <1>1, OwnLimits DEF GetBedTempLimit
<1> QED BY <1>1, <1>2 DEF Identified, Own, Status

LEMMA InitOwn == Init => OwnInv
BY DEF Init, OwnInv, Idle, NoMessage, TrueOfPrinter

LEMMA NextOwn == TypeOK /\ OwnInv /\ [Next]_vars => OwnInv'
<1> SUFFICES ASSUME TypeOK, OwnInv, [Next]_vars PROVE OwnInv'
  OBVIOUS
<1> USE DEF feedVars, handlerVars, callerVars
<1>1. ASSUME UNCHANGED <<status, msg, identified, honest, caller>> PROVE OwnInv'
  BY <1>1 DEF OwnInv, Own
<1>2. ASSUME NEW h \in Handlers, OnMessage(h) PROVE OwnInv'
  <2>1. PICK m \in Messages : msg' = [msg EXCEPT ![h] = m] /\ honest' = (honest /\ TrueOfPrinter(m))
    BY <1>2 DEF OnMessage
  <2>2. honest' => \A g \in Handlers : TrueOfPrinter(msg'[g])
    BY <2>1 DEF OwnInv, TypeOK
  <2>3. honest' => honest
    BY <2>1
  <2>4. UNCHANGED <<status, identified, caller>>
    BY <1>2 DEF OnMessage
  <2>5. \A g \in Handlers : TrueOfPrinter(msg[g])' <=> TrueOfPrinter(msg'[g])
    BY DEF TrueOfPrinter, ModelOf
  <2> QED BY <2>2, <2>3, <2>4, <2>5 DEF OwnInv, Own
<1>3. ASSUME NEW h \in Handlers, MergePrint(h) PROVE OwnInv'
  <2>1. UNCHANGED <<msg, identified, honest, caller>> /\ status' = Promoted(Merged(status, msg[h]))
    BY <1>3 DEF MergePrint, SetStatus
  <2>2. msg[h] \in MessageType /\ status \in Status
    BY DEF TypeOK
  <2>3. honest /\ identified => Own(status')
    BY <2>1, <2>2, MergeKeepsOwn DEF OwnInv
  <2> QED BY <2>1, <2>3 DEF OwnInv, Own
<1>4. ASSUME NEW h \in Handlers, ProcessInfo(h) PROVE OwnInv'
  <2>0. msg[h] \in MessageType /\ status \in Status /\ UNCHANGED <<msg, honest, caller>>
    BY <1>4 DEF ProcessInfo, TypeOK
  <2>1. CASE msg[h].info # "get_version"
    BY <1>1, <1>4, <2>1 DEF ProcessInfo
  <2>2. CASE msg[h].info = "get_version" /\ ModelOf(msg[h]) = NoModel
    BY <1>1, <1>4, <2>2 DEF ProcessInfo, SetStatus, Identified, TypeOK
  <2>3. CASE msg[h].info = "get_version" /\ ModelOf(msg[h]) # NoModel
    <3>1. status' = Identified(status, ModelOf(msg[h])) /\ identified'
      BY <1>4, <2>3 DEF ProcessInfo, SetStatus
    <3>2. honest => Own(status')
      BY <2>0, <2>3, <3>1, ReplyIsOwn DEF OwnInv
    <3> QED BY <2>0, <3>1, <3>2 DEF OwnInv, Own
  <2> QED BY <2>1, <2>2, <2>3
<1>5. ASSUME NEW c \in Callers, SetLightMode(c) PROVE OwnInv'
  <2>1. status'.model = status.model /\ status'.bed = status.bed
    BY <1>5 DEF SetLightMode, SetStatus, TypeOK, Status
  <2>2. caller' = [caller EXCEPT ![c] = Idle] /\ UNCHANGED <<msg, identified, honest>>
    BY <1>5 DEF SetLightMode
  <2> QED BY <2>1, <2>2 DEF OwnInv, Own, Idle, TypeOK
<1>6. ASSUME NEW c \in Callers, CheckTemperature(c) PROVE OwnInv'
  <2>1. PICK t \in Temps, heater \in {"bed", "chamber"} :
          /\ t \in 0..TempLimit(status, heater)
          /\ caller' = [caller EXCEPT ![c] = [Idle EXCEPT !.op = "setHeat", !.heater = heater,
                                                          !.temp = t, !.known = identified]]
    BY <1>6 DEF CheckTemperature
  <2>2. caller'[c].heater = heater /\ caller'[c].temp = t /\ caller'[c].known = identified
    BY <2>1 DEF TypeOK, Idle
  <2>3. \A d \in Callers \ {c} : caller'[d] = caller[d]
    BY <2>1 DEF TypeOK
  <2>4. UNCHANGED <<status, msg, identified, honest>>
    BY <1>6 DEF CheckTemperature
  <2>5. honest /\ identified => t \in 0..CapOf(heater, Printer)
    BY <2>1, LimitIsOwn DEF OwnInv
  <2> QED BY <2>2, <2>3, <2>4, <2>5 DEF OwnInv, Own
<1>7. ASSUME NEW c \in Callers, PublishLight(c) PROVE OwnInv'
  <2>1. \E l \in Lights : caller' = [caller EXCEPT ![c] = [Idle EXCEPT !.op = "setLight", !.light = l]]
    BY <1>7 DEF PublishLight
  <2>2. caller'[c].op # "setHeat" /\ \A d \in Callers \ {c} : caller'[d] = caller[d]
    BY <2>1 DEF TypeOK, Idle
  <2> QED BY <1>7, <2>2 DEF PublishLight, OwnInv, Own
<1>8. ASSUME NEW c \in Callers, PublishTemperature(c) PROVE OwnInv'
  BY <1>8 DEF PublishTemperature, OwnInv, Own, Idle, TypeOK
<1>9. ASSUME NEW s \in Subs, Subscribe(s) \/ Unsubscribe(s) \/ Receive(s) PROVE OwnInv'
  BY <1>1, <1>9 DEF Subscribe, Unsubscribe, Receive
<1>10. ASSUME NEW h \in Handlers, MergeFails(h) \/ BroadcastBegin(h) \/ BroadcastEnd(h) PROVE OwnInv'
  BY <1>1, <1>10 DEF MergeFails, BroadcastBegin, BroadcastEnd
<1>11. ASSUME NEW h \in Handlers, NEW s \in Subs, BroadcastSend(h, s) PROVE OwnInv'
  BY <1>1, <1>11 DEF BroadcastSend
<1>12. CASE UNCHANGED vars
  BY <1>1, <1>12 DEF vars
<1> QED
  BY <1>2, <1>3, <1>4, <1>5, <1>6, <1>7, <1>8, <1>9, <1>10, <1>11, <1>12 DEF Next, HandlerStep

\* For every table of limits: as long as the printer tells its own model and limit only, a
\* temperature checked after it has told its model is within its limit, and within the limit
\* of the moment, until it is published (SetBedTemperature, SetChamberTemperature).
THEOREM TemperatureIsSafe == Spec => []KnownTemperatureSafe
<1>1. TypeOK /\ OwnInv => KnownTemperatureSafe
  <2> SUFFICES ASSUME TypeOK, OwnInv, honest, NEW c \in Callers, caller[c].op = "setHeat", caller[c].known
               PROVE  /\ caller[c].temp \in 0..CapOf(caller[c].heater, Printer)
                      /\ caller[c].temp \in 0..TempLimit(status, caller[c].heater)
    BY DEF KnownTemperatureSafe
  <2>1. Own(status) /\ caller[c].temp \in 0..CapOf(caller[c].heater, Printer)
    BY DEF OwnInv
  <2>2. caller[c].heater \in {"bed", "chamber"}
    BY DEF TypeOK, CallerType
  <2> QED BY <2>1, <2>2, LimitIsOwn
<1> QED BY <1>1, InitType, NextType, InitOwn, NextOwn, PTL DEF Spec

=============================================================================
