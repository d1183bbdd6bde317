---------------------------- MODULE CameraStream ----------------------------
(***************************************************************************)
(* CameraClient's stream (camera_client.go) and the web handler that       *)
(* serves it (handleCamera, cmd/bambulan/web.go).                          *)
(*                                                                         *)
(* A viewer is one call of handleCamera.  StartStream gives it a stream    *)
(* goroutine, named here by the stopChan it was made with.  The goroutine  *)
(* looks at its stopChan only between reads, so it may outlive StopStream  *)
(* and meet the next stream; the frames it still delivers are kept from    *)
(* the finished handler by writeMu and stopped.                            *)
(***************************************************************************)
EXTENDS Integers, FiniteSets

CONSTANTS
  Viewers,      \* calls of handleCamera for one printer
  Streams,      \* stopChans, each with its goroutine; bounds the streams made
  MaxStops,     \* bound: calls of Client.Stop
  NoStream      \* no stopChan was made yet

ASSUME StreamAssumption == NoStream \notin Streams
ASSUME ViewerAssumption == Viewers # {}
ASSUME BoundAssumption == MaxStops \in Nat

VARIABLES
  streaming,    \* c.streaming
  stopChan,     \* c.stopChan
  closed,       \* stopChans that were closed
  stream,       \* where each stream goroutine is
  owner,        \* the viewer whose onImage it calls
  viewer,       \* where each handler is
  connected,    \* the viewer's connection is up (its request context is alive)
  stopped,      \* handleCamera's stopped flag
  stops         \* calls of Client.Stop so far

clientVars == <<streaming, stopChan, closed>>
handlerVars == <<viewer, connected, stopped>>
vars == <<clientVars, stream, owner, handlerVars, stops>>

StreamSteps == {"unmade", "dial", "select", "read", "emit", "write", "leave", "ended"}
ViewerSteps == {"new", "waiting", "stopping", "gone"}

\* A goroutine that will go on reading unless its stopChan stops it.
Reading(s) == stream[s] \in {"dial", "select", "read", "emit", "write"}

Goto(s, step) == stream' = [stream EXCEPT ![s] = step]

\* writeMu of v is free: no goroutine is in the middle of a write to v.
WriteMuFree(v) == ~ \E s \in Streams : owner[s] = v /\ stream[s] = "write"

SomeViewer == CHOOSE v \in Viewers : TRUE

-----------------------------------------------------------------------------
Init ==
  /\ streaming = FALSE
  /\ stopChan = NoStream
  /\ closed = {}
  /\ stream = [s \in Streams |-> "unmade"]
  /\ owner = [s \in Streams |-> SomeViewer]
  /\ viewer = [v \in Viewers |-> "new"]
  /\ connected = [v \in Viewers |-> TRUE]
  /\ stopped = [v \in Viewers |-> FALSE]
  /\ stops = 0

\* StartStream succeeds: a new stopChan, and a goroutine for it.
StartStream(v) ==
  /\ viewer[v] = "new"
  /\ ~streaming
  /\ streaming' = TRUE
  /\ \E s \in Streams :
       /\ stream[s] = "unmade"
       /\ stopChan' = s
       /\ Goto(s, "dial")
       /\ owner' = [owner EXCEPT ![s] = v]
  /\ viewer' = [viewer EXCEPT ![v] = "waiting"]
  /\ UNCHANGED <<closed, connected, stopped, stops>>

\* "stream already running": the handler answers 503.
CameraBusy(v) ==
  /\ viewer[v] = "new"
  /\ streaming
  /\ viewer' = [viewer EXCEPT ![v] = "gone"]
  /\ UNCHANGED <<clientVars, stream, owner, connected, stopped, stops>>

\* The viewer closes its connection, which ends the request's context.
HangUp(v) ==
  /\ connected[v]
  /\ viewer[v] = "waiting"
  /\ connected' = [connected EXCEPT ![v] = FALSE]
  /\ UNCHANGED <<clientVars, stream, owner, viewer, stopped, stops>>

\* Mutant: the handler returns without the flag.
SetStopped_Forgets(v) ==
  /\ viewer[v] = "waiting"
  /\ ~connected[v]
  /\ viewer' = [viewer EXCEPT ![v] = "stopping"]
  /\ UNCHANGED <<clientVars, stream, owner, connected, stopped, stops>>

\* The handler's deferred function: stopped is set under writeMu ...
SetStopped(v) ==
  /\ viewer[v] = "waiting"
  /\ ~connected[v]
  /\ WriteMuFree(v)
  /\ stopped' = [stopped EXCEPT ![v] = TRUE]
  /\ viewer' = [viewer EXCEPT ![v] = "stopping"]
  /\ UNCHANGED <<clientVars, stream, owner, connected, stops>>

\* Mutant: the flag stays set, so the next call closes the channel again.
StopStream_KeepsFlag ==
  IF streaming THEN closed' = closed \cup {stopChan} /\ UNCHANGED streaming
               ELSE UNCHANGED <<closed, streaming>>

\* StopStream closes the current stopChan, whoever's it is.
StopStream ==
  IF streaming THEN closed' = closed \cup {stopChan} /\ streaming' = FALSE
               ELSE UNCHANGED <<closed, streaming>>

\* ... and then it calls StopStream and returns.
HandlerReturns(v) ==
  /\ viewer[v] = "stopping"
  /\ StopStream
  /\ viewer' = [viewer EXCEPT ![v] = "gone"]
  /\ UNCHANGED <<stopChan, stream, owner, connected, stopped, stops>>

\* Client.Stop, when the session pool lets go of the printer.
ClientStop ==
  /\ stops < MaxStops
  /\ stops' = stops + 1
  /\ StopStream
  /\ UNCHANGED <<stopChan, stream, owner, handlerVars>>

-----------------------------------------------------------------------------
(* streamLoop. *)

\* The dial and the authentication packet; the stopChan is not looked at.
Dial(s) ==
  /\ stream[s] = "dial"
  /\ \E step \in {"select", "leave"} : Goto(s, step)
  /\ UNCHANGED <<clientVars, owner, handlerVars, stops>>

\* Mutant: the stopChan is not looked at.
Select_Ignores(s) ==
  /\ stream[s] = "select"
  /\ Goto(s, "read")
  /\ UNCHANGED <<clientVars, owner, handlerVars, stops>>

Select(s) ==
  /\ stream[s] = "select"
  /\ Goto(s, IF s \in closed THEN "leave" ELSE "read")
  /\ UNCHANGED <<clientVars, owner, handlerVars, stops>>

\* A read ends with data that completes a frame, or with none that does or the
\* deadline of 3 seconds, or with an error or the end of the stream.
Read(s) ==
  /\ stream[s] = "read"
  /\ \E step \in {"emit", "select", "leave"} : Goto(s, step)
  /\ UNCHANGED <<clientVars, owner, handlerVars, stops>>

\* onImage under writeMu: nothing is written once stopped is set.
Emit(s) ==
  /\ stream[s] = "emit"
  /\ WriteMuFree(owner[s])
  /\ Goto(s, IF stopped[owner[s]] THEN "select" ELSE "write")
  /\ UNCHANGED <<clientVars, owner, handlerVars, stops>>

\* The write returns: the viewer took the frame, or is gone.  The same data may
\* complete another frame.
Written(s) ==
  /\ stream[s] = "write"
  /\ \E step \in {"emit", "select"} : Goto(s, step)
  /\ UNCHANGED <<clientVars, owner, handlerVars, stops>>

\* Mutant: the goroutine clears the flag of whatever stream is current.
Leave_ClearsAny(s) ==
  /\ stream[s] = "leave"
  /\ Goto(s, "ended")
  /\ streaming' = FALSE
  /\ UNCHANGED <<stopChan, closed, owner, handlerVars, stops>>

\* The deferred function: only its own stream's flag is cleared.
Leave(s) ==
  /\ stream[s] = "leave"
  /\ Goto(s, "ended")
  /\ streaming' = (streaming /\ stopChan # s)
  /\ UNCHANGED <<stopChan, closed, owner, handlerVars, stops>>

-----------------------------------------------------------------------------
StreamStep(s) == Dial(s) \/ Select(s) \/ Read(s) \/ Emit(s) \/ Leave(s)

Next ==
  \/ \E v \in Viewers :
       StartStream(v) \/ CameraBusy(v) \/ HangUp(v) \/ SetStopped(v) \/ HandlerReturns(v)
  \/ \E s \in Streams : StreamStep(s) \/ Written(s)
  \/ ClientStop

Spec == Init /\ [][Next]_vars

\* A dial and a read have deadlines, and goroutines run on.  A write to a viewer
\* that stays connected but stops reading may block (the server has no write
\* timeout); it ends once the connection is closed.
Fairness ==
  /\ \A v \in Viewers : SF_vars(SetStopped(v)) /\ WF_vars(HandlerReturns(v))
  /\ \A s \in Streams : WF_vars(StreamStep(s)) /\ WF_vars(Written(s) /\ ~connected[owner[s]])

FairSpec == Spec /\ Fairness

-----------------------------------------------------------------------------
\* The types of the variables; a stopChan is in use only once it was made.
TypeOK ==
  /\ streaming \in BOOLEAN
  /\ stopChan \in Streams \cup {NoStream}
  /\ closed \subseteq Streams
  /\ stream \in [Streams -> StreamSteps]
  /\ owner \in [Streams -> Viewers]
  /\ viewer \in [Viewers -> ViewerSteps]
  /\ connected \in [Viewers -> BOOLEAN]
  /\ stopped \in [Viewers -> BOOLEAN]
  /\ stops \in 0..MaxStops
  /\ \A s \in Streams : stream[s] = "unmade" => s \notin closed /\ s # stopChan
  /\ stopChan = NoStream => \A s \in Streams : stream[s] = "unmade"

\* StopStream never closes a channel twice, nor the nil channel, which would end
\* the process: whenever it would close, the current stopChan is open.
CloseIsSafe == streaming => stopChan \in Streams /\ stopChan \notin closed

\* A stream that was not stopped can be: it is the current one and StopStream will
\* close its channel.  An older goroutine that ends late must not take that away
\* (streamLoop's deferred function).
CanBeStopped == \A s \in Streams : Reading(s) /\ s \notin closed => streaming /\ stopChan = s

\* "once stopped is set, w is never touched": no frame is written to a response
\* whose handler returned or is about to (handleCamera's onImage).
QuietAfterStop ==
  \A s \in Streams : stream[s] = "write" => viewer[owner[s]] = "waiting"

\* When its viewer has hung up, a stopped stream ends, although its goroutine only
\* looks at stopChan between reads, and the handler returns.
StoppedStreamEnds ==
  /\ \A s \in Streams : s \in closed /\ ~connected[owner[s]] ~> stream[s] = "ended"
  /\ \A v \in Viewers : ~connected[v] ~> viewer[v] = "gone"

\* handleCamera serves its stream until its own client disconnects ("Wait until
\* client disconnects"): while it waits, StopStream stops it for nobody else.
ServedUntilHangUp ==
  stops = 0 => \A s \in Streams : s \in closed => ~connected[owner[s]]

=============================================================================
