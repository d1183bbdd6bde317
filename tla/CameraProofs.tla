---------------------------- MODULE CameraProofs ----------------------------
(***************************************************************************)
(* Proofs about camera_client.go: the streams of a client (CameraStream),  *)
(* for any number of viewers, streams and calls of Client.Stop, and the    *)
(* frames that are cut out of a stream (FrameScan), for every stream,      *)
(* maxFrameSize and size of the read buffer.                               *)
(***************************************************************************)
EXTENDS CameraStream, FrameScan, SequenceTheorems, WellFoundedInduction, TLAPS

-----------------------------------------------------------------------------
(* The streams. *)

\* What a stream and the client's fields owe each other.
StreamInv == CloseIsSafe /\ CanBeStopped

\* A goroutine whose handler no longer waits finds stopped set before it writes.
Guarded(s) ==
  stream[s] # "unmade" => viewer[owner[s]] = "waiting" \/ stopped[owner[s]]

HandlerInv == (\A s \in Streams : Guarded(s)) /\ QuietAfterStop

-----------------------------------------------------------------------------
LEMMA InitType == Init => TypeOK
<1>1. SomeViewer \in Viewers
  BY ViewerAssumption DEF SomeViewer
<1>2. ASSUME Init PROVE /\ stream \in [Streams -> StreamSteps]
                        /\ owner \in [Streams -> Viewers]
                        /\ viewer \in [Viewers -> ViewerSteps]
  BY <1>1, <1>2 DEF Init, StreamSteps, ViewerSteps
<1>3. ASSUME Init PROVE stops \in 0..MaxStops
  BY <1>3, BoundAssumption DEF Init
<1> QED BY <1>2, <1>3, StreamAssumption DEF Init, TypeOK

\* StopStream closes the channel of a stream that was made.
LEMMA StopType ==
  ASSUME TypeOK, CloseIsSafe, StopStream
  PROVE  /\ streaming' \in BOOLEAN
         /\ closed' \subseteq Streams
         /\ \A s \in Streams : stream[s] = "unmade" => s \notin closed'
BY DEF TypeOK, CloseIsSafe, StopStream

\* Every step keeps the types.
LEMMA NextType == TypeOK /\ CloseIsSafe /\ [Next]_vars => TypeOK'
<1> SUFFICES ASSUME TypeOK, CloseIsSafe, [Next]_vars PROVE TypeOK'
  OBVIOUS
<1> USE DEF clientVars, handlerVars
<1>1. ASSUME NEW v \in Viewers, StartStream(v) PROVE TypeOK'
  BY <1>1, StreamAssumption DEF StartStream, Goto, TypeOK, StreamSteps, ViewerSteps
<1>2. ASSUME NEW v \in Viewers, CameraBusy(v) PROVE TypeOK'
  BY <1>2 DEF CameraBusy, TypeOK, ViewerSteps
<1>3. ASSUME NEW v \in Viewers, HangUp(v) PROVE TypeOK'
  BY <1>3 DEF HangUp, TypeOK
<1>4. ASSUME NEW v \in Viewers, SetStopped(v) PROVE TypeOK'
  BY <1>4 DEF SetStopped, TypeOK, ViewerSteps
<1>5. ASSUME NEW v \in Viewers, HandlerReturns(v) PROVE TypeOK'
  BY <1>5, StopType DEF HandlerReturns, TypeOK, ViewerSteps
<1>6. ASSUME NEW s \in Streams, Dial(s) PROVE TypeOK'
  BY <1>6 DEF Dial, Goto, TypeOK, StreamSteps
<1>7. ASSUME NEW s \in Streams, Select(s) PROVE TypeOK'
  BY <1>7 DEF Select, Goto, TypeOK, StreamSteps
<1>8. ASSUME NEW s \in Streams, Read(s) PROVE TypeOK'
  BY <1>8 DEF Read, Goto, TypeOK, StreamSteps
<1>9. ASSUME NEW s \in Streams, Emit(s) PROVE TypeOK'
  BY <1>9 DEF Emit, Goto, TypeOK, StreamSteps
<1>10. ASSUME NEW s \in Streams, Written(s) PROVE TypeOK'
  BY <1>10 DEF Written, Goto, TypeOK, StreamSteps
<1>11. ASSUME NEW s \in Streams, Leave(s) PROVE TypeOK'
  BY <1>11 DEF Leave, Goto, TypeOK, StreamSteps
<1>12. ASSUME ClientStop PROVE TypeOK'
  <2>1. stops' \in 0..MaxStops
    BY <1>12, BoundAssumption DEF ClientStop, TypeOK
  <2> QED BY <1>12, <2>1, StopType DEF ClientStop, TypeOK
<1>13. CASE UNCHANGED vars
  BY <1>13 DEF vars, TypeOK
<1> QED
  BY <1>1, <1>2, <1>3, <1>4, <1>5, <1>6, <1>7, <1>8, <1>9, <1>10, <1>11, <1>12, <1>13
  DEF Next, StreamStep

-----------------------------------------------------------------------------
\* A stream that goes on reading stays the one that StopStream stops.
LEMMA NextStream == TypeOK /\ StreamInv /\ [Next]_vars => StreamInv'
<1> SUFFICES ASSUME TypeOK, StreamInv, [Next]_vars PROVE StreamInv'
  OBVIOUS
<1> USE DEF clientVars, handlerVars, StreamInv, CloseIsSafe, CanBeStopped, Reading
<1>1. ASSUME NEW v \in Viewers, StartStream(v) PROVE StreamInv'
  <2>1. PICK s \in Streams :
          /\ stream[s] = "unmade"
          /\ stopChan' = s
          /\ stream' = [stream EXCEPT ![s] = "dial"]
    BY <1>1 DEF StartStream, Goto
  <2>2. s \notin closed' /\ streaming'
    BY <1>1, <2>1 DEF StartStream, TypeOK
  <2>3. \A t \in Streams : t # s => ~(Reading(t)' /\ t \notin closed')
    BY <1>1, <2>1 DEF StartStream, TypeOK
  <2> QED BY <2>1, <2>2, <2>3
<1>2. ASSUME NEW v \in Viewers, CameraBusy(v) \/ HangUp(v) \/ SetStopped(v) PROVE StreamInv'
  BY <1>2 DEF CameraBusy, HangUp, SetStopped
<1>3. ASSUME StopStream, UNCHANGED <<stopChan, stream>> PROVE StreamInv'
  BY <1>3 DEF StopStream, TypeOK
<1>4. ASSUME NEW s \in Streams, Dial(s) \/ Select(s) \/ Read(s) \/ Emit(s) \/ Written(s)
      PROVE  StreamInv'
  <2>1. Reading(s) /\ UNCHANGED clientVars
    BY <1>4 DEF Dial, Select, Read, Emit, Written
  <2>2. \A t \in Streams : t # s => stream'[t] = stream[t]
    BY <1>4 DEF Dial, Select, Read, Emit, Written, Goto, TypeOK
  <2> QED BY <2>1, <2>2
<1>5. ASSUME NEW s \in Streams, Leave(s) PROVE StreamInv'
  BY <1>5 DEF Leave, Goto, TypeOK
<1>6. CASE UNCHANGED vars
  BY <1>6 DEF vars
<1> QED
  BY <1>1, <1>2, <1>3, <1>4, <1>5, <1>6 DEF Next, StreamStep, HandlerReturns, ClientStop

\* A frame is written only for a handler that waits.
LEMMA NextHandler == TypeOK /\ HandlerInv /\ [Next]_vars => HandlerInv'
<1> SUFFICES ASSUME TypeOK, HandlerInv, [Next]_vars PROVE HandlerInv'
  OBVIOUS
<1> USE DEF clientVars, handlerVars, HandlerInv, Guarded, QuietAfterStop
<1>1. ASSUME NEW v \in Viewers, StartStream(v) PROVE HandlerInv'
  BY <1>1 DEF StartStream, Goto, TypeOK
<1>2. ASSUME NEW v \in Viewers, CameraBusy(v) PROVE HandlerInv'
  BY <1>2 DEF CameraBusy, TypeOK
<1>3. ASSUME NEW v \in Viewers, HangUp(v) PROVE HandlerInv'
  BY <1>3 DEF HangUp
<1>4. ASSUME NEW v \in Viewers, SetStopped(v) PROVE HandlerInv'
  BY <1>4 DEF SetStopped, WriteMuFree, TypeOK
<1>5. ASSUME NEW v \in Viewers, HandlerReturns(v) PROVE HandlerInv'
  BY <1>5 DEF HandlerReturns, TypeOK
<1>6. ASSUME NEW s \in Streams, Dial(s) \/ Select(s) \/ Read(s) \/ Written(s) \/ Leave(s)
      PROVE  HandlerInv'
  <2>1. /\ stream[s] # "unmade" /\ stream'[s] # "write"
        /\ UNCHANGED <<owner, viewer, stopped>>
    BY <1>6 DEF Dial, Select, Read, Written, Leave, Goto, TypeOK
  <2>2. \A t \in Streams : t # s => stream'[t] = stream[t]
    BY <1>6 DEF Dial, Select, Read, Written, Leave, Goto, TypeOK
  <2> QED BY <2>1, <2>2
<1>7. ASSUME NEW s \in Streams, Emit(s) PROVE HandlerInv'
  <2>1. /\ stream[s] # "unmade"
        /\ stream'[s] = "write" => ~stopped[owner[s]]
        /\ UNCHANGED <<owner, viewer, stopped>>
    BY <1>7 DEF Emit, Goto, TypeOK
  <2>2. \A t \in Streams : t # s => stream'[t] = stream[t]
    BY <1>7 DEF Emit, Goto, TypeOK
  <2> QED BY <2>1, <2>2
<1>8. ASSUME ClientStop PROVE HandlerInv'
  BY <1>8 DEF ClientStop
<1>9. CASE UNCHANGED vars
  BY <1>9 DEF vars
<1> QED
  BY <1>1, <1>2, <1>3, <1>4, <1>5, <1>6, <1>7, <1>8, <1>9 DEF Next, StreamStep

-----------------------------------------------------------------------------
\* The invariants of the client's fields hold together: StopStream keeps the types
\* because the channel it closes was made.
LEMMA StreamCorrect == Spec => [](TypeOK /\ StreamInv)
<1>1. Init => TypeOK /\ StreamInv
  BY InitType DEF Init, StreamInv, CloseIsSafe, CanBeStopped, Reading
<1>2. TypeOK /\ StreamInv /\ [Next]_vars => (TypeOK /\ StreamInv)'
  BY NextType, NextStream DEF StreamInv
<1> QED BY <1>1, <1>2, PTL DEF Spec

\* Every variable keeps its type, and no channel is in use before it was made.
THEOREM TypeCorrect == Spec => []TypeOK
BY StreamCorrect, PTL

\* No interleaving of StartStream, StopStream, Client.Stop and late goroutines makes
\* StopStream close a closed or a nil channel.
THEOREM NoDoubleClose == Spec => []CloseIsSafe
<1>1. TypeOK /\ StreamInv => CloseIsSafe
  BY DEF StreamInv
<1> QED BY <1>1, StreamCorrect, PTL

\* A goroutine of an older stream never takes from a running one what StopStream
\* needs to stop it.
THEOREM RunningIsStoppable == Spec => []CanBeStopped
<1>1. TypeOK /\ StreamInv => CanBeStopped
  BY DEF StreamInv
<1> QED BY <1>1, StreamCorrect, PTL

\* However late a goroutine delivers a frame, it never writes to the response of a
\* handler that returned or is about to.
THEOREM NoLateWrite == Spec => []QuietAfterStop
<1>1. Init => HandlerInv
  BY DEF Init, HandlerInv, Guarded, QuietAfterStop
<1>2. TypeOK /\ HandlerInv /\ [Next]_vars => HandlerInv'
  BY NextHandler
<1>3. HandlerInv => QuietAfterStop
  BY DEF HandlerInv
<1> QED BY <1>1, <1>2, <1>3, TypeCorrect, PTL DEF Spec

-----------------------------------------------------------------------------
(* The frames. *)

\* What was searched is the beginning of a frame that has no end in it.
SearchedClean ==
  scanned > 0 => /\ At(buf, jpegStart, 1)
                 /\ \A j \in (Len(jpegStart) + 1)..(scanned - 1) : ~At(buf, jpegEnd, j)

\* The bytes of buf that were not searched are still to be paid for, and within a
\* scan the byte of back-up too.
Credit == IF step = "scan" /\ scanned > 0 THEN 1 ELSE 0
SearchPaid == searched + Len(buf) + Credit <= pos + scanned + reads

-----------------------------------------------------------------------------
(* The operators. *)

LEMMA Markers == Len(jpegStart) = 4 /\ Len(jpegEnd) = 2
BY DEF jpegStart, jpegEnd

LEMMA MaxOfTwo == ASSUME NEW a \in Int, NEW b \in Int
                  PROVE  Max({a, b}) = IF a >= b THEN a ELSE b
<1> DEFINE m == IF a >= b THEN a ELSE b
<1>1. m \in {a, b} /\ \A y \in {a, b} : m >= y
  OBVIOUS
<1>2. \A x \in {a, b} : (\A y \in {a, b} : x >= y) => x = m
  OBVIOUS
<1> QED BY <1>1, <1>2 DEF Max

LEMMA MinOfTwo == ASSUME NEW a \in Int, NEW b \in Int
                  PROVE  Min({a, b}) = IF a <= b THEN a ELSE b
<1> DEFINE m == IF a <= b THEN a ELSE b
<1>1. m \in {a, b} /\ \A y \in {a, b} : m <= y
  OBVIOUS
<1>2. \A x \in {a, b} : (\A y \in {a, b} : x <= y) => x = m
  OBVIOUS
<1> QED BY <1>1, <1>2 DEF Min

\* The search begins behind the start marker, and one byte before what was not
\* searched yet.
LEMMA SearchFromIs ==
  ASSUME NEW done \in Nat
  PROVE  SearchFrom(done) = IF done >= 5 THEN done ELSE 5
BY Markers, MaxOfTwo DEF SearchFrom

LEMMA MarkerBytes ==
  /\ jpegStart \in Seq(Byte) /\ jpegStart[1] = "ff" /\ jpegStart[2] = "d8"
  /\ jpegStart[3] = "ff" /\ jpegStart[4] = "e0"
  /\ jpegEnd \in Seq(Byte) /\ jpegEnd[1] = "ff" /\ jpegEnd[2] = "d9"
BY DEF jpegStart, jpegEnd, Byte

\* A marker is where its bytes are.
LEMMA AtIs ==
  ASSUME NEW b \in Seq(Byte), NEW i \in Nat \ {0},
         NEW marker \in Seq(Byte), Len(marker) > 0
  PROVE  At(b, marker, i) <=>
           /\ i + Len(marker) - 1 <= Len(b)
           /\ \A j \in 1..Len(marker) : b[i + j - 1] = marker[j]
<1> DEFINE last == i + Len(marker) - 1
           s == SubSeq(b, i, last)
<1>1. ASSUME last <= Len(b)
      PROVE  s = marker <=> \A j \in 1..Len(marker) : b[i + j - 1] = marker[j]
  <2>1. \A j \in i..last : b[j] \in Byte
    BY <1>1
  <2>2. /\ s \in Seq(Byte)
        /\ Len(s) = Len(marker)
        /\ \A j \in 1..Len(marker) : s[j] = b[i + j - 1]
    BY <2>1, SubSeqProperties
  <2> HIDE DEF s
  <2>3. (\A j \in 1..Len(marker) : s[j] = marker[j]) => s = marker
    BY <2>2, SeqEqual
  <2> QED BY <2>2, <2>3
<1> QED BY <1>1 DEF At

LEMMA EndAt ==
  ASSUME NEW b \in Seq(Byte), NEW i \in Nat \ {0}
  PROVE  At(b, jpegEnd, i) <=> i + 1 <= Len(b) /\ b[i] = "ff" /\ b[i + 1] = "d9"
<1>1. jpegEnd \in Seq(Byte) /\ Len(jpegEnd) = 2 /\ Len(jpegEnd) > 0
  BY Markers, MarkerBytes
<1>2. At(b, jpegEnd, i) <=>
        /\ i + Len(jpegEnd) - 1 <= Len(b)
        /\ \A j \in 1..Len(jpegEnd) : b[i + j - 1] = jpegEnd[j]
  BY <1>1, AtIs, Zenon
<1>3. i + Len(jpegEnd) - 1 = i + 1
  BY <1>1
<1>4. (\A j \in 1..2 : b[i + j - 1] = jpegEnd[j]) <=>
        b[i] = jpegEnd[1] /\ b[i + 1] = jpegEnd[2]
  OBVIOUS
<1> QED BY <1>1, <1>2, <1>3, <1>4, MarkerBytes

LEMMA StartAt ==
  ASSUME NEW b \in Seq(Byte), NEW i \in Nat \ {0}
  PROVE  At(b, jpegStart, i) <=>
           /\ i + 3 <= Len(b)
           /\ b[i] = "ff" /\ b[i + 1] = "d8" /\ b[i + 2] = "ff" /\ b[i + 3] = "e0"
<1>1. jpegStart \in Seq(Byte) /\ Len(jpegStart) = 4 /\ Len(jpegStart) > 0
  BY Markers, MarkerBytes
<1>2. At(b, jpegStart, i) <=>
        /\ i + Len(jpegStart) - 1 <= Len(b)
        /\ \A j \in 1..Len(jpegStart) : b[i + j - 1] = jpegStart[j]
  BY <1>1, AtIs, Zenon
<1>3. i + Len(jpegStart) - 1 = i + 3
  BY <1>1
<1>4. (\A j \in 1..4 : b[i + j - 1] = jpegStart[j]) <=>
        b[i] = jpegStart[1] /\ b[i + 1] = jpegStart[2] /\ b[i + 2] = jpegStart[3] /\ b[i + 3] = jpegStart[4]
  OBVIOUS
<1> QED BY <1>1, <1>2, <1>3, <1>4, MarkerBytes

\* The rest of a buffer.
LEMMA FromIs ==
  ASSUME NEW b \in Seq(Byte), NEW i \in 1..(Len(b) + 1)
  PROVE  /\ From(b, i) \in Seq(Byte)
         /\ Len(From(b, i)) = Len(b) - i + 1
         /\ \A j \in 1..Len(From(b, i)) : From(b, i)[j] = b[i + j - 1]
         /\ i = 1 => From(b, i) = b
BY DEF From

\* What a scan finds at the beginning of a frame.
LEMMA FrameBegins ==
  ASSUME ScanTypeOK, SearchedClean, NEW start \in DOMAIN buf, Starts(start)
  PROVE  /\ Unfinished(start) \in Seq(Byte)
         /\ Len(Unfinished(start)) = Len(buf) - start + 1
         /\ At(Unfinished(start), jpegStart, 1)
         /\ Done(start) = scanned
         /\ scanned \in 0..Len(Unfinished(start))
         /\ \A j \in 5..(scanned - 1) : ~At(Unfinished(start), jpegEnd, j)
<1> DEFINE u == Unfinished(start)
<1>1. buf \in Seq(Byte) /\ scanned \in 0..Len(buf) /\ start \in 1..Len(buf)
  BY DEF ScanTypeOK
<1>2. /\ u \in Seq(Byte)
      /\ Len(u) = Len(buf) - start + 1
      /\ \A j \in 1..Len(u) : u[j] = buf[start + j - 1]
      /\ start = 1 => u = buf
  BY <1>1, FromIs DEF Unfinished
<1>3. At(buf, jpegStart, start) /\ \A j \in 1..(start - 1) : ~At(buf, jpegStart, j)
  BY DEF Starts, Found
<1>4. At(u, jpegStart, 1)
  <2>1. start + 3 <= Len(buf) /\ buf[start] = "ff" /\ buf[start + 1] = "d8"
        /\ buf[start + 2] = "ff" /\ buf[start + 3] = "e0"
    BY <1>1, <1>3, StartAt
  <2>2. 4 <= Len(u) /\ u[1] = "ff" /\ u[2] = "d8" /\ u[3] = "ff" /\ u[4] = "e0"
    BY <1>1, <1>2, <2>1
  <2> QED BY <1>2, <2>2, StartAt
<1>5. scanned > 0 => start = 1
  BY <1>1, <1>3 DEF SearchedClean
<1>6. Done(start) = scanned
  BY <1>1, <1>5 DEF Done
<1>7. \A j \in 5..(scanned - 1) : ~At(u, jpegEnd, j)
  <2>1. CASE scanned > 0
    BY <1>1, <1>2, <1>5, <2>1, Markers DEF SearchedClean
  <2>2. CASE scanned = 0
    BY <2>2
  <2> QED BY <1>1, <2>1, <2>2
<1> QED BY <1>1, <1>2, <1>4, <1>5, <1>6, <1>7

-----------------------------------------------------------------------------
(* The frame that is complete. *)

\* What Frame emits is one frame, and it is taken from the front of the buffer.
LEMMA FrameIsWhole ==
  ASSUME ScanTypeOK, SearchedClean, NEW start \in DOMAIN buf, Starts(start),
         NEW end \in DOMAIN Unfinished(start),
         Found(Unfinished(start), jpegEnd, SearchFrom(Done(start)), end)
  PROVE  LET f == SubSeq(Unfinished(start), 1, end + 1)
         IN  /\ end + 1 \in 6..Len(Unfinished(start))
             /\ end >= SearchFrom(scanned)
             /\ f \in Seq(Byte)
             /\ At(f, jpegStart, 1)
             /\ Found(f, jpegEnd, 5, Len(f) - 1)
<1> DEFINE u == Unfinished(start)
           f == SubSeq(u, 1, end + 1)
<1>1. /\ u \in Seq(Byte)
      /\ At(u, jpegStart, 1)
      /\ scanned \in 0..Len(u)
      /\ \A j \in 5..(scanned - 1) : ~At(u, jpegEnd, j)
  BY FrameBegins
<1>2. end \in 1..Len(u)
  BY <1>1
<1>3. /\ end >= SearchFrom(scanned)
      /\ At(u, jpegEnd, end)
      /\ \A j \in SearchFrom(scanned)..(end - 1) : ~At(u, jpegEnd, j)
  BY FrameBegins DEF Found
<1>4. SearchFrom(scanned) = IF scanned >= 5 THEN scanned ELSE 5
  BY <1>1, SearchFromIs
<1>5. end + 1 \in 6..Len(u)
  BY <1>1, <1>2, <1>3, <1>4, EndAt
<1>6. f \in Seq(Byte) /\ Len(f) = end + 1 /\ \A j \in 1..(end + 1) : f[j] = u[j]
  <2>1. \A j \in 1..(end + 1) : u[j] \in Byte
    BY <1>1, <1>5
  <2> HIDE DEF u
  <2> QED BY <1>5, <2>1, SubSeqProperties
<1> HIDE DEF u, f
<1>7. At(f, jpegStart, 1)
  <2>1. 4 <= Len(u) /\ u[1] = "ff" /\ u[2] = "d8" /\ u[3] = "ff" /\ u[4] = "e0"
    BY <1>1, StartAt
  <2>2. 4 <= Len(f) /\ f[1] = "ff" /\ f[2] = "d8" /\ f[3] = "ff" /\ f[4] = "e0"
    BY <1>5, <1>6, <2>1
  <2> QED BY <1>6, <2>2, StartAt
<1>8. At(f, jpegEnd, end)
  BY <1>1, <1>2, <1>3, <1>6, EndAt
<1>9. ASSUME NEW j \in 5..(end - 1) PROVE ~At(f, jpegEnd, j)
  <2>1. ~At(u, jpegEnd, j)
    BY <1>1, <1>3, <1>4
  <2> QED BY <1>1, <1>5, <1>6, <2>1, EndAt
<1>10. Found(f, jpegEnd, 5, Len(f) - 1)
  BY <1>2, <1>5, <1>6, <1>8, <1>9 DEF Found
<1> QED BY <1>3, <1>5, <1>6, <1>7, <1>10 DEF f, u

\* What Frame does to the variables.
LEMMA FrameAfter ==
  ASSUME ScanTypeOK, SearchedClean, NEW start \in DOMAIN buf, Frame(start)
  PROVE  \E end \in Nat :
           LET f == SubSeq(Unfinished(start), 1, end + 1)
           IN  /\ end + 1 \in 6..Len(Unfinished(start))
               /\ end >= SearchFrom(scanned)
               /\ f \in Seq(Byte)
               /\ At(f, jpegStart, 1)
               /\ Found(f, jpegEnd, 5, Len(f) - 1)
               /\ emitted' = Append(emitted, f)
               /\ buf' \in Seq(Byte)
               /\ Len(buf') = Len(Unfinished(start)) - end - 1
               /\ searched' = searched + end + 2 - SearchFrom(scanned)
<1> DEFINE u == Unfinished(start)
<1>1. Starts(start) /\ u \in Seq(Byte) /\ Done(start) = scanned
  BY FrameBegins DEF Frame
<1>2. PICK end \in DOMAIN u :
        /\ Found(u, jpegEnd, SearchFrom(Done(start)), end)
        /\ emitted' = Append(emitted, SubSeq(u, 1, end + Len(jpegEnd) - 1))
        /\ buf' = From(u, end + Len(jpegEnd) - 1 + 1)
        /\ searched' = searched + (end + Len(jpegEnd) - 1) + 1 - SearchFrom(Done(start))
  BY DEF Frame
<1> DEFINE f == SubSeq(u, 1, end + 1)
<1>3. /\ end + 1 \in 6..Len(u)
      /\ end >= SearchFrom(scanned)
      /\ f \in Seq(Byte)
      /\ At(f, jpegStart, 1)
      /\ Found(f, jpegEnd, 5, Len(f) - 1)
  BY <1>1, <1>2, FrameIsWhole
<1>4. /\ end \in Nat
      /\ end + Len(jpegEnd) - 1 = end + 1
      /\ end + Len(jpegEnd) - 1 + 1 = end + 2
  BY <1>1, <1>2, Markers
<1>5. /\ emitted' = Append(emitted, f)
      /\ buf' = From(u, end + 2)
      /\ searched' = searched + (end + 1) + 1 - SearchFrom(scanned)
  BY <1>1, <1>2, <1>4
<1>6. end + 2 \in 1..(Len(u) + 1)
  BY <1>1, <1>3, <1>4
<1>7. buf' \in Seq(Byte) /\ Len(buf') = Len(u) - (end + 2) + 1
  <2> HIDE DEF u
  <2> QED BY <1>1, <1>5, <1>6, FromIs
<1>8. searched' = searched + end + 2 - SearchFrom(scanned) /\ Len(buf') = Len(u) - end - 1
  <2>1. /\ scanned \in Nat /\ searched \in Nat /\ Len(u) \in Nat
        /\ SearchFrom(scanned) \in Nat
    BY <1>1, SearchFromIs DEF ScanTypeOK
  <2>2. searched' = searched + (end + 1) + 1 - SearchFrom(scanned)
    BY <1>5
  <2> HIDE DEF u
  <2>3. searched' = searched + end + 2 - SearchFrom(scanned)
    BY <1>4, <2>1, <2>2
  <2>4. Len(buf') = Len(u) - end - 1
    BY <1>4, <1>7, <2>1
  <2> QED BY <2>3, <2>4
<1> QED BY <1>3, <1>4, <1>5, <1>7, <1>8

-----------------------------------------------------------------------------
(* The buffer after each action. *)

\* What the actions leave in the buffer, and how much of it.
LEMMA BufferAfter ==
  ASSUME ScanTypeOK, SearchedClean, ScanNext
  PROVE  /\ buf' \in Seq(Byte)
         /\ ReadMore => /\ Len(buf') = Len(buf) + pos' - pos
                    /\ pos' \in (pos + 1)..(pos + ReadSize)
                    /\ pos' <= Len(input)
                    /\ \A j \in 1..Len(buf) : buf'[j] = buf[j]
         /\ NoStart => scanned = 0 /\ Len(buf') <= 3 /\ Len(buf') <= Len(buf)
         /\ ~ReadMore => pos' = pos /\ Len(buf') <= Len(buf)
<1> USE Markers
<1>1. buf \in Seq(Byte) /\ scanned \in 0..Len(buf) /\ pos \in 0..Len(input) /\ input \in Seq(Byte)
  BY InputAssumption DEF ScanTypeOK
<1>2. ASSUME ReadMore
      PROVE  /\ buf' \in Seq(Byte)
             /\ Len(buf') = Len(buf) + pos' - pos
             /\ pos' \in (pos + 1)..(pos + ReadSize)
             /\ pos' <= Len(input)
             /\ \A j \in 1..Len(buf) : buf'[j] = buf[j]
  <2>1. PICK n \in 1..ReadSize :
          /\ pos + n <= Len(input)
          /\ buf' = buf \o SubSeq(input, pos + 1, pos + n)
          /\ pos' = pos + n
    BY <1>2 DEF ReadMore
  <2> DEFINE chunk == SubSeq(input, pos + 1, pos + n)
  <2>2. \A j \in (pos + 1)..(pos + n) : input[j] \in Byte
    BY <1>1, <2>1
  <2>3. chunk \in Seq(Byte) /\ Len(chunk) = n
    BY <1>1, <2>1, <2>2, SubSeqProperties, SizeAssumption
  <2>4. buf' = buf \o chunk
    BY <2>1
  <2> HIDE DEF chunk
  <2>5. /\ buf' \in Seq(Byte)
        /\ Len(buf') = Len(buf) + n
        /\ \A j \in 1..(Len(buf) + n) : buf'[j] = IF j <= Len(buf) THEN buf[j] ELSE chunk[j - Len(buf)]
    BY <1>1, <2>3, <2>4, ConcatProperties
  <2>6. /\ pos' \in (pos + 1)..(pos + ReadSize) /\ pos' <= Len(input)
        /\ pos' - pos = n /\ Len(buf) \in Nat
    BY <1>1, <2>1, SizeAssumption
  <2>7. Len(buf') = Len(buf) + pos' - pos
    BY <1>1, <2>5, <2>6, SizeAssumption
  <2>8. \A j \in 1..Len(buf) : j \in 1..(Len(buf) + n) /\ j <= Len(buf)
    BY <2>6, SizeAssumption
  <2> QED BY <2>5, <2>6, <2>7, <2>8
<1>3. ASSUME NoStart
      PROVE  buf' \in Seq(Byte) /\ pos' = pos /\ scanned = 0 /\ Len(buf') <= 3 /\ Len(buf') <= Len(buf)
  <2> DEFINE keep == Min({Len(buf), Len(jpegStart) - 1})
  <2>1. keep \in 0..Len(buf) /\ keep <= 3
    BY <1>1, MinOfTwo
  <2>2. buf' = From(buf, Len(buf) - keep + 1)
    BY <1>3 DEF NoStart
  <2> HIDE DEF keep
  <2>3. buf' \in Seq(Byte) /\ Len(buf') = keep
    BY <1>1, <2>1, <2>2, FromIs
  <2>4. scanned = 0
    <3>1. ASSUME scanned > 0 PROVE FALSE
      <4>1. Len(buf) >= 1 /\ At(buf, jpegStart, 1)
        BY <1>1, <3>1 DEF SearchedClean
      <4>2. \A k \in 1..Len(buf) : ~At(buf, jpegStart, k)
        BY <1>3 DEF NoStart, Missing
      <4> QED BY <1>1, <4>1, <4>2
    <3> QED BY <1>1, <3>1
  <2> QED BY <1>3, <2>1, <2>3, <2>4 DEF NoStart
<1>4. ASSUME NEW start \in DOMAIN buf, Keep(start) \/ Drop(start)
      PROVE  buf' \in Seq(Byte) /\ pos' = pos /\ Len(buf') <= Len(buf)
  <2>1. start \in 1..Len(buf)
    BY <1>1
  <2>2. CASE Keep(start)
    <3>1. Unfinished(start) \in Seq(Byte) /\ Len(Unfinished(start)) = Len(buf) - start + 1
      BY <2>2, FrameBegins DEF Keep, NoEnd
    <3>2. buf' = Unfinished(start) /\ pos' = pos
      BY <2>2 DEF Keep
    <3> QED BY <1>1, <2>1, <3>1, <3>2
  <2>3. CASE Drop(start)
    <3>1. buf' = <<>> /\ pos' = pos
      BY <2>3 DEF Drop
    <3> QED BY <1>1, <3>1
  <2> QED BY <1>4, <2>2, <2>3
<1>5. ASSUME NEW start \in DOMAIN buf, Frame(start)
      PROVE  buf' \in Seq(Byte) /\ pos' = pos /\ Len(buf') <= Len(buf)
  <2>1. Unfinished(start) \in Seq(Byte) /\ Len(Unfinished(start)) = Len(buf) - start + 1
    BY <1>5, FrameBegins DEF Frame
  <2>2. PICK end \in Nat :
          /\ buf' \in Seq(Byte)
          /\ Len(buf') = Len(Unfinished(start)) - end - 1
    BY <1>5, FrameAfter
  <2>3. start \in 1..Len(buf) /\ pos' = pos
    BY <1>1, <1>5 DEF Frame
  <2> QED BY <1>1, <2>1, <2>2, <2>3
<1>6. ~(ReadMore /\ NoStart)
  BY DEF ReadMore, NoStart
<1> QED BY <1>2, <1>3, <1>4, <1>5, <1>6 DEF ScanNext

-----------------------------------------------------------------------------
(* The invariants. *)

LEMMA InitInv == ScanInit => ScanTypeOK /\ SearchedClean /\ FramesAreWhole /\ BufferIsBounded /\ SearchPaid
<1> SUFFICES ASSUME ScanInit PROVE ScanTypeOK /\ SearchedClean /\ FramesAreWhole /\ BufferIsBounded /\ SearchPaid
  OBVIOUS
<1>1. input \in Seq(Byte)
  BY InputAssumption DEF ScanInit
<1>2. ScanTypeOK
  BY <1>1 DEF ScanInit, ScanTypeOK
<1>3. FramesAreWhole /\ SearchedClean
  BY DEF ScanInit, FramesAreWhole, SearchedClean
<1>4. BufferIsBounded /\ SearchPaid
  BY SizeAssumption DEF ScanInit, BufferIsBounded, SearchPaid, Credit
<1> QED BY <1>2, <1>3, <1>4

\* How many bytes a search that finds nothing passes over.
LEMMA CostIs ==
  ASSUME NEW b \in Seq(Byte), NEW done \in Nat, done <= Len(b)
  PROVE  /\ SearchCost(b, done) \in Nat
         /\ SearchCost(b, done) <= Len(b) - done + IF done > 0 THEN 1 ELSE 0
<1>1. SearchFrom(done) = IF done >= 5 THEN done ELSE 5
  BY SearchFromIs
<1> QED BY <1>1 DEF SearchCost

LEMMA NextScanType == ScanTypeOK /\ SearchedClean /\ [ScanNext]_scanVars => ScanTypeOK'
<1> SUFFICES ASSUME ScanTypeOK, SearchedClean, [ScanNext]_scanVars PROVE ScanTypeOK'
  OBVIOUS
<1> USE DEF ghosts
<1>1. CASE ReadMore
  <2>1. buf' \in Seq(Byte) /\ Len(buf') = Len(buf) + pos' - pos
        /\ pos' \in (pos + 1)..(pos + ReadSize) /\ pos' <= Len(input)
    BY <1>1, BufferAfter DEF ScanNext
  <2>2. /\ input \in Seq(Byte) /\ buf \in Seq(Byte) /\ scanned \in 0..Len(buf)
        /\ pos \in 0..Len(input) /\ resync \in 0..pos /\ reads \in Nat
    BY InputAssumption DEF ScanTypeOK
  <2>3. scanned \in 0..Len(buf') /\ pos' \in 0..Len(input) /\ resync \in 0..pos' /\ reads + 1 \in Nat
    BY <2>1, <2>2, SizeAssumption
  <2> QED BY <1>1, <2>1, <2>3 DEF ReadMore, ScanTypeOK
<1>2. CASE NoStart
  <2>1. buf' \in Seq(Byte)
    BY <1>2, BufferAfter DEF ScanNext
  <2> QED BY <1>2, <2>1 DEF NoStart, ScanTypeOK
<1>3. ASSUME NEW start \in DOMAIN buf, Keep(start) PROVE ScanTypeOK'
  <2>1. buf' \in Seq(Byte)
    BY <1>3, BufferAfter DEF ScanNext
  <2>2. Done(start) \in Nat /\ Done(start) <= Len(buf') /\ buf' = Unfinished(start)
    BY <1>3, FrameBegins DEF Keep, NoEnd
  <2>3. searched + SearchCost(buf', Done(start)) \in Nat
    <3>1. SearchCost(buf', Done(start)) \in Nat
      BY <2>1, <2>2, CostIs
    <3> QED BY <3>1 DEF ScanTypeOK
  <2> QED BY <1>3, <2>1, <2>3 DEF Keep, ScanTypeOK
<1>4. ASSUME NEW start \in DOMAIN buf, Drop(start) PROVE ScanTypeOK'
  <2>1. /\ Unfinished(start) \in Seq(Byte)
        /\ Done(start) \in Nat /\ Done(start) <= Len(Unfinished(start))
    BY <1>4, FrameBegins DEF Drop, NoEnd
  <2>2. searched + SearchCost(Unfinished(start), Done(start)) \in Nat
    <3>1. SearchCost(Unfinished(start), Done(start)) \in Nat
      BY <2>1, CostIs
    <3> QED BY <3>1 DEF ScanTypeOK
  <2>3. pos \in 0..pos /\ Len(emitted) \in 0..Len(emitted)
    BY InputAssumption DEF ScanTypeOK
  <2> QED BY <1>4, <2>2, <2>3 DEF Drop, ScanTypeOK
<1>5. ASSUME NEW start \in DOMAIN buf, Frame(start) PROVE ScanTypeOK'
  <2>1. PICK end \in Nat :
          /\ end >= SearchFrom(scanned)
          /\ SubSeq(Unfinished(start), 1, end + 1) \in Seq(Byte)
          /\ emitted' = Append(emitted, SubSeq(Unfinished(start), 1, end + 1))
          /\ buf' \in Seq(Byte)
          /\ searched' = searched + end + 2 - SearchFrom(scanned)
    BY <1>5, FrameAfter
  <2>2. searched' \in Nat
    <3>1. SearchFrom(scanned) \in Nat
      BY SearchFromIs DEF ScanTypeOK
    <3> QED BY <2>1, <3>1 DEF ScanTypeOK
  <2>3. emitted' \in Seq(Seq(Byte)) /\ Len(emitted') = Len(emitted) + 1
    BY <2>1, AppendProperties DEF ScanTypeOK
  <2>4. before \in 0..Len(emitted')
    BY <2>3 DEF ScanTypeOK
  <2> QED BY <1>5, <2>1, <2>2, <2>3, <2>4 DEF Frame, ScanTypeOK
<1>6. CASE UNCHANGED scanVars
  BY <1>6 DEF scanVars, ScanTypeOK
<1> QED BY <1>1, <1>2, <1>3, <1>4, <1>5, <1>6 DEF ScanNext

LEMMA NextClean == ScanTypeOK /\ SearchedClean /\ [ScanNext]_scanVars => SearchedClean'
<1> SUFFICES ASSUME ScanTypeOK, SearchedClean, [ScanNext]_scanVars PROVE SearchedClean'
  OBVIOUS
<1> USE Markers
<1>1. CASE ReadMore
  <2>1. /\ buf \in Seq(Byte) /\ buf' \in Seq(Byte) /\ Len(buf) <= Len(buf')
        /\ \A j \in 1..Len(buf) : buf'[j] = buf[j]
        /\ scanned' = scanned /\ scanned \in 0..Len(buf)
    <3>1. /\ buf' \in Seq(Byte) /\ Len(buf') = Len(buf) + pos' - pos
          /\ pos' \in (pos + 1)..(pos + ReadSize)
          /\ \A j \in 1..Len(buf) : buf'[j] = buf[j]
      BY <1>1, BufferAfter DEF ScanNext
    <3>2. buf \in Seq(Byte) /\ scanned \in 0..Len(buf) /\ pos \in Nat
      BY InputAssumption DEF ScanTypeOK
    <3> QED BY <1>1, <3>1, <3>2, SizeAssumption DEF ReadMore
  <2>2. ASSUME scanned > 0
        PROVE  /\ At(buf', jpegStart, 1)
               /\ \A j \in 5..(scanned - 1) : ~At(buf', jpegEnd, j)
    <3>1. At(buf, jpegStart, 1) /\ \A j \in 5..(scanned - 1) : ~At(buf, jpegEnd, j)
      BY <2>2 DEF SearchedClean
    <3>2. 4 <= Len(buf) /\ buf[1] = "ff" /\ buf[2] = "d8" /\ buf[3] = "ff" /\ buf[4] = "e0"
      BY <2>1, <3>1, StartAt
    <3>3. 4 <= Len(buf') /\ buf'[1] = "ff" /\ buf'[2] = "d8" /\ buf'[3] = "ff" /\ buf'[4] = "e0"
      BY <2>1, <3>2
    <3>4. At(buf', jpegStart, 1)
      BY <2>1, <3>3, StartAt
    <3>5. ASSUME NEW j \in 5..(scanned - 1) PROVE ~At(buf', jpegEnd, j)
      <4>1. ~At(buf, jpegEnd, j)
        BY <3>1
      <4>2. j \in Nat \ {0} /\ j + 1 <= Len(buf)
        BY <2>1
      <4>3. ~(buf[j] = "ff" /\ buf[j + 1] = "d9")
        BY <2>1, <4>1, <4>2, EndAt
      <4>4. buf'[j] = buf[j] /\ buf'[j + 1] = buf[j + 1]
        BY <2>1, <4>2
      <4> QED BY <2>1, <4>2, <4>3, <4>4, EndAt
    <3> QED BY <3>4, <3>5
  <2> QED BY <2>1, <2>2 DEF SearchedClean
<1>2. ASSUME NEW start \in DOMAIN buf, Keep(start) PROVE SearchedClean'
  <2> DEFINE u == Unfinished(start)
  <2>1. /\ u \in Seq(Byte)
        /\ At(u, jpegStart, 1)
        /\ Done(start) = scanned
        /\ scanned \in Nat
        /\ \A j \in 5..(scanned - 1) : ~At(u, jpegEnd, j)
    BY <1>2, FrameBegins DEF Keep, NoEnd
  <2>2. /\ buf' = u /\ scanned' = Len(u)
        /\ Missing(u, jpegEnd, SearchFrom(scanned))
    BY <1>2, <2>1 DEF Keep, NoEnd
  <2>3. SearchFrom(scanned) = IF scanned >= 5 THEN scanned ELSE 5
    BY <2>1, SearchFromIs
  <2> HIDE DEF u
  <2>4. \A j \in 5..(Len(u) - 1) : ~At(u, jpegEnd, j)
    BY <2>1, <2>2, <2>3 DEF Missing
  <2> QED BY <2>1, <2>2, <2>4 DEF SearchedClean
<1>3. ASSUME NEW start \in DOMAIN buf, Drop(start) \/ Frame(start) PROVE SearchedClean'
  BY <1>3 DEF Drop, Frame, SearchedClean
<1>4. CASE NoStart
  BY <1>4 DEF NoStart, SearchedClean
<1>5. CASE UNCHANGED scanVars
  BY <1>5 DEF scanVars, SearchedClean
<1> QED BY <1>1, <1>2, <1>3, <1>4, <1>5 DEF ScanNext

LEMMA NextWhole == ScanTypeOK /\ SearchedClean /\ FramesAreWhole /\ [ScanNext]_scanVars => FramesAreWhole'
<1> SUFFICES ASSUME ScanTypeOK, SearchedClean, FramesAreWhole, [ScanNext]_scanVars PROVE FramesAreWhole'
  OBVIOUS
<1>1. ASSUME NEW start \in DOMAIN buf, Frame(start) PROVE FramesAreWhole'
  <2>1. PICK end \in Nat :
          LET f == SubSeq(Unfinished(start), 1, end + 1)
          IN  /\ f \in Seq(Byte)
              /\ At(f, jpegStart, 1)
              /\ Found(f, jpegEnd, 5, Len(f) - 1)
              /\ emitted' = Append(emitted, f)
    BY <1>1, FrameAfter
  <2> DEFINE f == SubSeq(Unfinished(start), 1, end + 1)
  <2>2. f \in Seq(Byte) /\ At(f, jpegStart, 1) /\ Found(f, jpegEnd, 5, Len(f) - 1)
    BY <2>1
  <2>3. emitted' = Append(emitted, f)
    BY <2>1
  <2> HIDE DEF f
  <2>4. /\ emitted' \in Seq(Seq(Byte))
        /\ Len(emitted') = Len(emitted) + 1
        /\ \A k \in 1..Len(emitted) : emitted'[k] = emitted[k]
        /\ emitted'[Len(emitted) + 1] = f
    BY <2>2, <2>3, AppendProperties DEF ScanTypeOK
  <2>5. Found(f, jpegEnd, Len(jpegStart) + 1, Len(f) - Len(jpegEnd) + 1)
    <3>1. Len(jpegStart) + 1 = 5 /\ Len(f) - Len(jpegEnd) + 1 = Len(f) - 1
      BY <2>2, Markers
    <3> QED BY <2>2, <3>1
  <2>6. ASSUME NEW k \in DOMAIN emitted'
        PROVE  /\ At(emitted'[k], jpegStart, 1)
               /\ Found(emitted'[k], jpegEnd, Len(jpegStart) + 1, Len(emitted'[k]) - Len(jpegEnd) + 1)
    <3>1. emitted \in Seq(Seq(Byte))
      BY DEF ScanTypeOK
    <3>2. CASE k \in DOMAIN emitted
      <4>1. emitted'[k] = emitted[k]
        <5>1. k \in 1..Len(emitted)
          BY <3>1, <3>2
        <5> QED BY <2>4, <5>1
      <4>2. /\ At(emitted[k], jpegStart, 1)
            /\ Found(emitted[k], jpegEnd, Len(jpegStart) + 1, Len(emitted[k]) - Len(jpegEnd) + 1)
        BY <3>2 DEF FramesAreWhole
      <4> QED BY <4>1, <4>2
    <3>3. CASE k = Len(emitted) + 1
      BY <2>2, <2>4, <2>5, <3>3
    <3> QED BY <2>4, <3>1, <3>2, <3>3
  <2> QED BY <2>6 DEF FramesAreWhole
<1>2. CASE UNCHANGED emitted
  BY <1>2 DEF FramesAreWhole
<1> QED BY <1>1, <1>2 DEF ScanNext, ReadMore, NoStart, Keep, Drop, scanVars, ghosts

LEMMA NextBounded == ScanTypeOK /\ SearchedClean /\ BufferIsBounded /\ [ScanNext]_scanVars => BufferIsBounded'
<1> SUFFICES ASSUME ScanTypeOK, SearchedClean, BufferIsBounded, [ScanNext]_scanVars PROVE BufferIsBounded'
  OBVIOUS
<1> USE DEF BufferIsBounded
<1>1. buf \in Seq(Byte) /\ pos \in Nat /\ maxFrameSize \in Nat /\ ReadSize \in Nat /\ maxFrameSize >= 3
  BY SizeAssumption, InputAssumption DEF ScanTypeOK
<1>2. CASE ReadMore
  <2>1. /\ buf' \in Seq(Byte) /\ Len(buf') = Len(buf) + pos' - pos
        /\ pos' \in (pos + 1)..(pos + ReadSize)
    BY <1>2, BufferAfter DEF ScanNext
  <2> QED BY <1>1, <1>2, <2>1 DEF ReadMore
<1>3. CASE NoStart
  <2>1. buf' \in Seq(Byte) /\ Len(buf') <= 3
    BY <1>3, BufferAfter DEF ScanNext
  <2> QED BY <1>1, <1>3, <2>1 DEF NoStart
<1>4. ASSUME NEW start \in DOMAIN buf, Keep(start) \/ Drop(start) PROVE BufferIsBounded'
  BY <1>1, <1>4 DEF Keep, Drop
<1>5. ASSUME NEW start \in DOMAIN buf, Frame(start) PROVE BufferIsBounded'
  <2>1. buf' \in Seq(Byte) /\ Len(buf') <= Len(buf)
    <3>1. ~ReadMore
      BY <1>5 DEF Frame, Starts, ReadMore
    <3> QED BY <1>5, <3>1, BufferAfter DEF ScanNext
  <2> QED BY <1>1, <1>5, <2>1 DEF Frame, Starts
<1>6. CASE UNCHANGED scanVars
  BY <1>6 DEF scanVars
<1> QED BY <1>2, <1>3, <1>4, <1>5, <1>6 DEF ScanNext

\* No byte is searched again but the byte of back-up, which a read pays for.
LEMMA NextPaid == ScanTypeOK /\ SearchedClean /\ SearchPaid /\ [ScanNext]_scanVars => SearchPaid'
<1> SUFFICES ASSUME ScanTypeOK, SearchedClean, SearchPaid, [ScanNext]_scanVars PROVE SearchPaid'
  OBVIOUS
<1> USE DEF Credit, SearchPaid
<1>1. /\ buf \in Seq(Byte) /\ pos \in Nat /\ scanned \in Nat /\ reads \in Nat /\ searched \in Nat
      /\ scanned <= Len(buf)
  BY InputAssumption DEF ScanTypeOK
<1>2. CASE ReadMore
  <2>1. /\ buf' \in Seq(Byte) /\ Len(buf') = Len(buf) + pos' - pos
        /\ pos' \in (pos + 1)..(pos + ReadSize)
    BY <1>2, BufferAfter DEF ScanNext
  <2> QED BY <1>1, <1>2, <2>1, SizeAssumption DEF ReadMore
<1>3. CASE NoStart
  <2>1. buf' \in Seq(Byte) /\ scanned = 0 /\ Len(buf') <= Len(buf)
    <3>1. ~ReadMore
      BY <1>3 DEF NoStart, ReadMore
    <3> QED BY <1>3, <3>1, BufferAfter DEF ScanNext
  <2> QED BY <1>1, <1>3, <2>1 DEF NoStart, ghosts
<1>4. ASSUME NEW start \in DOMAIN buf, Keep(start) \/ Drop(start) PROVE SearchPaid'
  <2> DEFINE u == Unfinished(start)
             cost == SearchCost(u, scanned)
  <2>1. /\ u \in Seq(Byte) /\ Len(u) = Len(buf) - start + 1 /\ start \in 1..Len(buf)
        /\ Done(start) = scanned /\ scanned <= Len(u)
        /\ step = "scan"
    BY <1>1, <1>4, FrameBegins DEF Keep, Drop, NoEnd, Starts
  <2>2. cost \in Nat /\ cost <= Len(u) - scanned + IF scanned > 0 THEN 1 ELSE 0
    BY <1>1, <2>1, CostIs
  <2>3. /\ searched' = searched + cost /\ UNCHANGED <<pos, reads>> /\ step' = "read"
        /\ Len(buf') = scanned'
    BY <1>4, <2>1 DEF Keep, Drop
  <2>4. scanned' \in Nat
    BY <1>4, <2>1 DEF Keep, Drop
  <2> HIDE DEF u, cost
  <2>5. searched + cost <= pos + reads
    BY <1>1, <2>1, <2>2
  <2>6. Credit' = 0 /\ pos' = pos /\ reads' = reads
    BY <2>3
  <2>7. searched' <= pos + reads /\ searched' \in Int
    BY <1>1, <2>2, <2>3, <2>5
  <2> QED BY <1>1, <2>3, <2>4, <2>6, <2>7 DEF SearchPaid
<1>5. ASSUME NEW start \in DOMAIN buf, Frame(start) PROVE SearchPaid'
  <2>1. PICK end \in Nat :
          /\ end >= SearchFrom(scanned)
          /\ Len(buf') = Len(Unfinished(start)) - end - 1
          /\ searched' = searched + end + 2 - SearchFrom(scanned)
    BY <1>5, FrameAfter
  <2>2. /\ Len(Unfinished(start)) = Len(buf) - start + 1 /\ start \in 1..Len(buf)
        /\ step = "scan"
    BY <1>1, <1>5, FrameBegins DEF Frame, Starts
  <2>3. SearchFrom(scanned) = IF scanned >= 5 THEN scanned ELSE 5
    BY <1>1, SearchFromIs
  <2>4. scanned' = 0 /\ UNCHANGED <<pos, step, reads>>
    BY <1>5 DEF Frame
  <2>5. Credit' = 0 /\ pos' = pos /\ reads' = reads /\ scanned' = 0
    BY <2>4
  <2>6. searched' + Len(buf') <= pos + reads
    <3>1. searched + Len(buf) + (IF scanned > 0 THEN 1 ELSE 0) <= pos + scanned + reads
      BY <2>2
    <3>2. searched' + Len(buf') = searched + Len(buf) - start + 2 - SearchFrom(scanned)
      <4>1. Len(buf) \in Nat /\ start \in Nat /\ SearchFrom(scanned) \in Nat
        BY <1>1, <2>2, <2>3
      <4>2. Len(buf') = Len(buf) - start - end
        BY <2>1, <2>2, <4>1
      <4>3. searched' = searched + end + 2 - SearchFrom(scanned)
        BY <2>1
      <4>4. searched \in Nat
        BY <1>1
      <4> QED BY <4>1, <4>2, <4>3, <4>4
    <3>3. CASE scanned >= 5
      BY <1>1, <2>2, <2>3, <3>1, <3>2, <3>3
    <3>4. CASE scanned < 5
      BY <1>1, <2>2, <2>3, <3>1, <3>2, <3>4
    <3> QED BY <1>1, <3>3, <3>4
  <2>7. searched' \in Int /\ Len(buf') \in Int
    BY <1>1, <2>1, <2>2, <2>3
  <2> QED BY <1>1, <2>5, <2>6, <2>7 DEF SearchPaid
<1>6. CASE UNCHANGED scanVars
  BY <1>6 DEF scanVars, ghosts
<1> QED BY <1>2, <1>3, <1>4, <1>5, <1>6 DEF ScanNext

-----------------------------------------------------------------------------
LEMMA ScanCorrect == ScanSpec => [](ScanTypeOK /\ SearchedClean)
<1>1. ScanTypeOK /\ SearchedClean /\ [ScanNext]_scanVars => (ScanTypeOK /\ SearchedClean)'
  BY NextScanType, NextClean
<1> QED BY <1>1, InitInv, PTL DEF ScanSpec

\* Every variable keeps its type, and buf[scanned:] stays in range.
THEOREM ScanTypeCorrect == ScanSpec => []ScanTypeOK
BY ScanCorrect, PTL

\* Whatever the stream and however it is cut into reads, what is emitted is one frame,
\* up to its first end marker.
THEOREM EmitsWholeFrames == ScanSpec => []FramesAreWhole
BY InitInv, NextWhole, ScanCorrect, PTL DEF ScanSpec

\* A stream that never completes a frame keeps no more than maxFrameSize bytes between
\* reads.
THEOREM MemoryIsBounded == ScanSpec => []BufferIsBounded
BY InitInv, NextBounded, ScanCorrect, PTL DEF ScanSpec

\* The work of a stream is linear in its bytes and reads.
THEOREM SearchIsLinear == ScanSpec => []SearchedOnce
<1>1. ScanTypeOK /\ SearchPaid => SearchedOnce
  <2> SUFFICES ASSUME ScanTypeOK, SearchPaid PROVE SearchedOnce
    OBVIOUS
  <2>1. /\ buf \in Seq(Byte) /\ pos \in Nat /\ scanned \in Nat /\ reads \in Nat
        /\ searched \in Nat /\ scanned <= Len(buf)
    BY InputAssumption DEF ScanTypeOK
  <2> QED BY <2>1 DEF SearchPaid, Credit, SearchedOnce
<1> QED BY <1>1, InitInv, NextPaid, ScanCorrect, PTL DEF ScanSpec

-----------------------------------------------------------------------------
(* The frames of a whole stream, by induction over the stream. *)

\* Induction over the numbers: a set of them has a least element.
LEMMA LeastNatural ==
  ASSUME NEW T \in SUBSET Nat, NEW n \in T
  PROVE  \E x \in T : \A y \in T : x <= y
<1> DEFINE R == {ss \in Nat \X Nat : ss[1] < ss[2]}
<1>1. IsWellFoundedOn(R, Nat)
  BY NatLessThanWellFounded DEF OpToRel
<1>2. \A x, y \in Nat : <<y, x>> \notin R => x <= y
  OBVIOUS
<1>3. T \subseteq Nat /\ T # {}
  OBVIOUS
<1> HIDE DEF R
<1>4. PICK x \in T : \A y \in T : ~(<<y, x>> \in R)
  BY <1>1, <1>3, WFMin, Zenon
<1> QED BY <1>2, <1>3, <1>4

LEMMA MinIs ==
  ASSUME NEW S \in SUBSET Nat, NEW m \in S, \A x \in S : m <= x
  PROVE  Min(S) = m
<1>1. \A x \in S : (\A y \in S : x <= y) => x = m
  OBVIOUS
<1> QED BY <1>1 DEF Min

\* Where a marker is, there is a first place.
LEMMA FirstMarker ==
  ASSUME NEW s, NEW marker, NEW from \in Nat, NEW i \in Nat, i >= from, At(s, marker, i)
  PROVE  \E j \in from..i : Found(s, marker, from, j)
<1> DEFINE T == {j \in from..i : At(s, marker, j)}
<1>1. i \in T /\ T \in SUBSET Nat
  OBVIOUS
<1>2. PICK j \in T : \A k \in T : j <= k
  BY <1>1, LeastNatural
<1>3. \A k \in from..(j - 1) : ~At(s, marker, k)
  BY <1>2
<1> QED BY <1>2, <1>3 DEF Found

\* The frame that is first in s from position p on: its first and its last byte.
FrameIn(s, p, i, last) ==
  /\ Found(s, jpegStart, p, i)
  /\ Found(s, jpegEnd, i + Len(jpegStart), last - 1)

LEMMA FirstFrame ==
  ASSUME NEW s \in Seq(Byte), NEW later, NEW p \in Nat \ {0},
         NEW i \in Nat, NEW last \in Nat, FrameIn(s, p, i, last)
  PROVE  /\ last \in (p + 5)..Len(s)
         /\ i \in p..(last - 5)
         /\ FramesFrom(s, later, p) = <<SubSeq(s, i, last)>> \o later[last + 1]
<1> USE Markers
<1>1. /\ i >= p /\ At(s, jpegStart, i) /\ \A j \in p..(i - 1) : ~At(s, jpegStart, j)
      /\ last - 1 >= i + 4 /\ At(s, jpegEnd, last - 1)
      /\ \A j \in (i + 4)..(last - 2) : ~At(s, jpegEnd, j)
  BY DEF FrameIn, Found
<1>2. last <= Len(s)
  BY <1>1 DEF At
<1> DEFINE starts == {j \in p..Len(s) : At(s, jpegStart, j)}
           ends == {j \in (i + 4)..Len(s) : At(s, jpegEnd, j)}
<1>3. i \in starts /\ starts \in SUBSET Nat /\ \A j \in starts : i <= j
  BY <1>1, <1>2
<1>4. last - 1 \in ends /\ ends \in SUBSET Nat /\ \A j \in ends : last - 1 <= j
  BY <1>1, <1>2
<1>5. Min(starts) = i /\ Min(ends) = last - 1
  <2> HIDE DEF starts, ends
  <2> QED BY <1>3, <1>4, MinIs
<1>6. Min(ends) + Len(jpegEnd) - 1 = last
  BY <1>5
<1>7. FramesFrom(s, later, p) = <<SubSeq(s, i, last)>> \o later[last + 1]
  <2>1. Len(jpegStart) = 4 /\ starts # {} /\ ends # {}
    BY <1>3, <1>4
  <2> QED BY <1>5, <1>6, <2>1, Zenon DEF FramesFrom
<1> QED BY <1>1, <1>2, <1>7

LEMMA NoFrame ==
  ASSUME NEW s \in Seq(Byte), NEW later, NEW p \in Nat \ {0},
         \A i, last \in Nat : ~FrameIn(s, p, i, last)
  PROVE  FramesFrom(s, later, p) = <<>>
<1> USE Markers
<1> DEFINE starts == {j \in p..Len(s) : At(s, jpegStart, j)}
           ends == {j \in (Min(starts) + Len(jpegStart))..Len(s) : At(s, jpegEnd, j)}
<1>1. ASSUME NEW i0 \in starts, NEW e0 \in ends PROVE FALSE
  <2>1. PICK i \in p..i0 : Found(s, jpegStart, p, i)
    BY FirstMarker
  <2>2. i \in starts /\ starts \in SUBSET Nat /\ \A j \in starts : i <= j
    BY <2>1 DEF Found
  <2>3. Min(starts) = i
    <3> HIDE DEF starts
    <3> QED BY <2>2, MinIs
  <2>4. e0 \in (i + 4)..Len(s) /\ At(s, jpegEnd, e0)
    BY <2>3
  <2>5. PICK e \in (i + 4)..e0 : Found(s, jpegEnd, i + 4, e)
    BY <2>1, <2>4, FirstMarker
  <2>6. e + 1 \in Nat /\ i \in Nat /\ (e + 1) - 1 = e
    BY <2>1, <2>5
  <2>7. FrameIn(s, p, i, e + 1)
    BY <2>1, <2>5, <2>6 DEF FrameIn
  <2> QED BY <2>6, <2>7
<1>2. starts = {} \/ ends = {}
  <2> HIDE DEF starts, ends
  <2> QED BY <1>1
<1> QED BY <1>2, Zenon DEF FramesFrom

\* The frames exist: known from p on, they are known from the byte before p on.
LEMMA FramingExists ==
  ASSUME NEW s \in Seq(Byte)
  PROVE  \E f : f = [p \in 1..(Len(s) + 1) |-> FramesFrom(s, f, p)]
<1> DEFINE N == Len(s) + 1
           Known(q, f) == f = [p \in q..N |-> FramesFrom(s, f, p)]
           T == {q \in 1..N : \E f : Known(q, f)}
<1>1. N \in Nat /\ N >= 1
  OBVIOUS
<1>2. ASSUME NEW p \in 1..N, NEW f, NEW g, \A j \in (p + 1)..N : f[j] = g[j]
      PROVE  FramesFrom(s, f, p) = FramesFrom(s, g, p)
  <2>1. CASE \A i, last \in Nat : ~FrameIn(s, p, i, last)
    BY <2>1, NoFrame
  <2>2. CASE \E i, last \in Nat : FrameIn(s, p, i, last)
    <3>1. PICK i, last \in Nat : FrameIn(s, p, i, last)
      BY <2>2
    <3>2. /\ last \in (p + 5)..Len(s)
          /\ FramesFrom(s, f, p) = <<SubSeq(s, i, last)>> \o f[last + 1]
          /\ FramesFrom(s, g, p) = <<SubSeq(s, i, last)>> \o g[last + 1]
      <4>1. p \in Nat \ {0}
        BY <1>1
      <4> HIDE DEF N
      <4>2. last \in (p + 5)..Len(s) /\ FramesFrom(s, f, p) = <<SubSeq(s, i, last)>> \o f[last + 1]
        BY <3>1, <4>1, FirstFrame
      <4>3. FramesFrom(s, g, p) = <<SubSeq(s, i, last)>> \o g[last + 1]
        BY <3>1, <4>1, FirstFrame
      <4> QED BY <4>2, <4>3
    <3>3. last + 1 \in (p + 1)..N
      BY <3>2
    <3> QED BY <1>2, <3>2, <3>3
  <2> QED BY <2>1, <2>2
<1> HIDE DEF N
<1>3. N \in T
  <2> DEFINE f == [p \in N..N |-> FramesFrom(s, <<>>, p)]
  <2>1. ASSUME NEW p \in N..N PROVE FramesFrom(s, <<>>, p) = FramesFrom(s, f, p)
    <3> HIDE DEF f
    <3>1. p \in 1..N /\ \A j \in (p + 1)..N : <<>>[j] = f[j]
      BY <1>1
    <3> QED BY <1>2, <3>1
  <2>2. Known(N, f)
    BY <2>1
  <2>3. \E g : Known(N, g)
    <3> HIDE DEF Known, f
    <3> QED BY <2>2
  <2> QED BY <1>1, <2>3
<1>4. ASSUME NEW q \in T, q > 1 PROVE q - 1 \in T
  <2>1. PICK f : Known(q, f)
    BY <1>4
  <2>2. q \in 1..N /\ q - 1 \in 1..N
    BY <1>1, <1>4
  <2> DEFINE g == [p \in (q - 1)..N |-> IF p = q - 1 THEN FramesFrom(s, f, q - 1) ELSE f[p]]
  <2>3. \A j \in q..N : f[j] = g[j]
    BY <2>2
  <2>4. ASSUME NEW p \in (q - 1)..N PROVE g[p] = FramesFrom(s, g, p)
    <3>1. p \in 1..N /\ \A j \in (p + 1)..N : f[j] = g[j]
      BY <1>1, <2>2, <2>3
    <3>2. FramesFrom(s, f, p) = FramesFrom(s, g, p)
      <4> HIDE DEF g
      <4> QED BY <1>2, <3>1
    <3>3. CASE p = q - 1
      BY <3>2, <3>3
    <3>4. CASE p \in q..N
      <4>1. f[p] = FramesFrom(s, f, p)
        BY <2>1, <3>4
      <4> QED BY <2>2, <3>2, <3>4, <4>1
    <3> QED BY <2>2, <3>3, <3>4
  <2>5. Known(q - 1, g)
    <3>1. g = [p \in (q - 1)..N |-> g[p]]
      OBVIOUS
    <3> HIDE DEF g
    <3> QED BY <2>4, <3>1
  <2> QED BY <2>2, <2>5
<1>5. PICK q \in T : \A r \in T : q <= r
  <2> HIDE DEF Known
  <2>1. T \in SUBSET Nat
    OBVIOUS
  <2> HIDE DEF T
  <2> QED BY <1>3, <2>1, LeastNatural
<1>6. q = 1
  BY <1>4, <1>5
<1> QED BY <1>5, <1>6 DEF N

LEMMA FramingIs ==
  ASSUME NEW s \in Seq(Byte)
  PROVE  \A p \in 1..(Len(s) + 1) : Framing(s)[p] = FramesFrom(s, Framing(s), p)
<1> DEFINE Known(f) == f = [p \in 1..(Len(s) + 1) |-> FramesFrom(s, f, p)]
<1>1. \E f : Known(f)
  BY FramingExists
<1>2. Framing(s) = CHOOSE f : Known(f)
  BY DEF Framing
<1> HIDE DEF Known
<1>3. Known(Framing(s))
  BY <1>1, <1>2
<1> QED BY <1>3 DEF Known

LEMMA FramingFirst ==
  ASSUME NEW s \in Seq(Byte), NEW p \in 1..(Len(s) + 1),
         NEW i \in Nat, NEW last \in Nat, FrameIn(s, p, i, last)
  PROVE  /\ i \in p..(last - 5)
         /\ last \in (p + 5)..Len(s)
         /\ Framing(s)[p] = <<SubSeq(s, i, last)>> \o Framing(s)[last + 1]
<1>1. p \in Nat \ {0}
  OBVIOUS
<1>2. Framing(s)[p] = FramesFrom(s, Framing(s), p)
  BY FramingIs
<1>3. /\ last \in (p + 5)..Len(s)
      /\ i \in p..(last - 5)
      /\ FramesFrom(s, Framing(s), p) = <<SubSeq(s, i, last)>> \o Framing(s)[last + 1]
  BY <1>1, FirstFrame
<1> QED BY <1>2, <1>3

LEMMA FramingNone ==
  ASSUME NEW s \in Seq(Byte), NEW p \in 1..(Len(s) + 1),
         \A i, last \in Nat : ~FrameIn(s, p, i, last)
  PROVE  Framing(s)[p] = <<>>
<1>1. p \in Nat \ {0}
  OBVIOUS
<1> QED BY <1>1, FramingIs, NoFrame

\* Induction from the end of the stream to its beginning.
LEMMA Backwards ==
  ASSUME NEW N \in Nat, NEW Holds \in SUBSET (1..N),
         \A p \in 1..N : ((p + 1)..N \subseteq Holds) => p \in Holds
  PROVE  Holds = 1..N
<1> DEFINE T == {n \in 0..(N - 1) : N - n \notin Holds}
<1>1. ASSUME NEW n0 \in T PROVE FALSE
  <2>1. T \in SUBSET Nat
    OBVIOUS
  <2>2. PICK n \in T : \A m \in T : n <= m
    <3> HIDE DEF T
    <3> QED BY <1>1, <2>1, LeastNatural
  <2>3. N - n \in 1..N /\ N - n \notin Holds
    OBVIOUS
  <2>4. ASSUME NEW q \in (N - n + 1)..N PROVE q \in Holds
    <3>1. N - q \in 0..(N - 1) /\ N - q < n /\ N - (N - q) = q
      BY <2>3
    <3>2. N - q \notin T
      BY <2>2, <3>1
    <3> QED BY <3>1, <3>2
  <2> QED BY <2>3, <2>4
<1>2. ASSUME NEW p \in 1..N PROVE p \in Holds
  <2>1. N - p \in 0..(N - 1) /\ N - (N - p) = p
    OBVIOUS
  <2>2. N - p \notin T
    BY <1>1
  <2> QED BY <2>1, <2>2
<1> QED BY <1>2

LEMMA FramingType ==
  ASSUME NEW s \in Seq(Byte)
  PROVE  \A p \in 1..(Len(s) + 1) : Framing(s)[p] \in Seq(Seq(Byte))
<1> DEFINE N == Len(s) + 1
           Holds == {p \in 1..N : Framing(s)[p] \in Seq(Seq(Byte))}
<1>1. ASSUME NEW p \in 1..N, (p + 1)..N \subseteq Holds PROVE p \in Holds
  <2>1. CASE \E i, last \in Nat : FrameIn(s, p, i, last)
    <3>1. PICK i, last \in Nat : FrameIn(s, p, i, last)
      BY <2>1
    <3>2. /\ i \in p..(last - 5)
          /\ last \in (p + 5)..Len(s)
          /\ Framing(s)[p] = <<SubSeq(s, i, last)>> \o Framing(s)[last + 1]
      BY <3>1, FramingFirst
    <3>3. Framing(s)[last + 1] \in Seq(Seq(Byte))
      <4>1. last + 1 \in (p + 1)..N
        BY <3>2
      <4> QED BY <1>1, <4>1
    <3>4. SubSeq(s, i, last) \in Seq(Byte)
      <4>1. \A j \in i..last : s[j] \in Byte
        BY <3>2
      <4> QED BY <3>2, <4>1, SubSeqProperties
    <3>5. <<SubSeq(s, i, last)>> \in Seq(Seq(Byte))
      BY <3>4
    <3>6. <<SubSeq(s, i, last)>> \o Framing(s)[last + 1] \in Seq(Seq(Byte))
      BY <3>3, <3>5, ConcatProperties
    <3> QED BY <3>2, <3>6
  <2>2. CASE \A i, last \in Nat : ~FrameIn(s, p, i, last)
    <3>1. Framing(s)[p] = <<>>
      BY <2>2, FramingNone
    <3>2. <<>> \in Seq(Seq(Byte))
      BY EmptySeq
    <3> QED BY <3>1, <3>2
  <2> QED BY <2>1, <2>2
<1>2. Holds = 1..N
  <2>1. N \in Nat /\ Holds \in SUBSET (1..N)
    OBVIOUS
  <2> HIDE DEF N, Holds
  <2> QED BY <1>1, <2>1, Backwards
<1> QED BY <1>2

\* The markers of the rest of a stream are those of the stream.
LEMMA AtShift ==
  ASSUME NEW b \in Seq(Byte), NEW k \in 0..Len(b), NEW i \in Nat \ {0}
  PROVE  /\ At(From(b, k + 1), jpegStart, i) <=> At(b, jpegStart, i + k)
         /\ At(From(b, k + 1), jpegEnd, i) <=> At(b, jpegEnd, i + k)
<1> DEFINE r == From(b, k + 1)
<1>1. r \in Seq(Byte) /\ Len(r) = Len(b) - k /\ \A j \in 1..Len(r) : r[j] = b[j + k]
  <2>1. k + 1 \in 1..(Len(b) + 1)
    OBVIOUS
  <2>2. r \in Seq(Byte) /\ Len(r) = Len(b) - (k + 1) + 1
        /\ \A j \in 1..Len(r) : r[j] = b[(k + 1) + j - 1]
    BY <2>1, FromIs
  <2> HIDE DEF r
  <2> QED BY <2>2
<1> HIDE DEF r
<1>2. i + k \in Nat \ {0} /\ Len(b) \in Nat
  OBVIOUS
<1>3. At(r, jpegEnd, i) <=> At(b, jpegEnd, i + k)
  <2>1. At(r, jpegEnd, i) <=> i + 1 <= Len(r) /\ r[i] = "ff" /\ r[i + 1] = "d9"
    BY <1>1, EndAt
  <2>2. At(b, jpegEnd, i + k) <=> i + k + 1 <= Len(b) /\ b[i + k] = "ff" /\ b[i + k + 1] = "d9"
    BY <1>2, EndAt
  <2>3. i + 1 <= Len(r) <=> i + k + 1 <= Len(b)
    BY <1>1, <1>2
  <2>4. i + 1 <= Len(r) => r[i] = b[i + k] /\ r[i + 1] = b[i + k + 1]
    BY <1>1, <1>2
  <2> QED BY <2>1, <2>2, <2>3, <2>4
<1>4. At(r, jpegStart, i) <=> At(b, jpegStart, i + k)
  <2>1. At(r, jpegStart, i) <=>
          /\ i + 3 <= Len(r)
          /\ r[i] = "ff" /\ r[i + 1] = "d8" /\ r[i + 2] = "ff" /\ r[i + 3] = "e0"
    BY <1>1, StartAt
  <2>2. At(b, jpegStart, i + k) <=>
          /\ i + k + 3 <= Len(b)
          /\ b[i + k] = "ff" /\ b[i + k + 1] = "d8" /\ b[i + k + 2] = "ff" /\ b[i + k + 3] = "e0"
    BY <1>2, StartAt
  <2>3. i + 3 <= Len(r) <=> i + k + 3 <= Len(b)
    BY <1>1, <1>2
  <2>4. i + 3 <= Len(r) => /\ r[i] = b[i + k] /\ r[i + 1] = b[i + k + 1]
                           /\ r[i + 2] = b[i + k + 2] /\ r[i + 3] = b[i + k + 3]
    <3>1. i + 3 <= Len(r) => {i, i + 1, i + 2, i + 3} \subseteq 1..Len(r)
      BY <1>1
    <3>2. i + 1 + k = i + k + 1 /\ i + 2 + k = i + k + 2 /\ i + 3 + k = i + k + 3
      BY <1>2
    <3>3. ASSUME i + 3 <= Len(r)
          PROVE  /\ r[i] = b[i + k] /\ r[i + 1] = b[i + 1 + k]
                 /\ r[i + 2] = b[i + 2 + k] /\ r[i + 3] = b[i + 3 + k]
      BY <1>1, <3>1, <3>3
    <3> QED BY <3>2, <3>3
  <2> QED BY <2>1, <2>2, <2>3, <2>4
<1> QED BY <1>3, <1>4 DEF r

LEMMA FoundShift ==
  ASSUME NEW b \in Seq(Byte), NEW k \in 0..Len(b), NEW from \in Nat \ {0}, NEW i \in Nat
  PROVE  /\ Found(From(b, k + 1), jpegStart, from, i) <=> Found(b, jpegStart, from + k, i + k)
         /\ Found(From(b, k + 1), jpegEnd, from, i) <=> Found(b, jpegEnd, from + k, i + k)
<1> DEFINE r == From(b, k + 1)
<1>1. \A j \in Nat \ {0} : /\ At(r, jpegStart, j) <=> At(b, jpegStart, j + k)
                           /\ At(r, jpegEnd, j) <=> At(b, jpegEnd, j + k)
  BY AtShift
<1> HIDE DEF r
<1>2. ASSUME NEW marker, \A j \in Nat \ {0} : At(r, marker, j) <=> At(b, marker, j + k)
      PROVE  Found(r, marker, from, i) <=> Found(b, marker, from + k, i + k)
  <2>1. ASSUME i >= from
        PROVE  (\A j \in from..(i - 1) : ~At(r, marker, j)) <=>
                 (\A j \in (from + k)..(i + k - 1) : ~At(b, marker, j))
    <3>1. ASSUME \A j \in from..(i - 1) : ~At(r, marker, j), NEW j \in (from + k)..(i + k - 1)
          PROVE  ~At(b, marker, j)
      <4>1. j - k \in from..(i - 1) /\ j - k \in Nat \ {0} /\ (j - k) + k = j
        OBVIOUS
      <4> QED BY <1>2, <3>1, <4>1
    <3>2. ASSUME \A j \in (from + k)..(i + k - 1) : ~At(b, marker, j), NEW j \in from..(i - 1)
          PROVE  ~At(r, marker, j)
      <4>1. j + k \in (from + k)..(i + k - 1) /\ j \in Nat \ {0}
        OBVIOUS
      <4> QED BY <1>2, <3>2, <4>1
    <3> QED BY <3>1, <3>2
  <2>2. i >= from <=> i + k >= from + k
    OBVIOUS
  <2>3. i >= from => (At(r, marker, i) <=> At(b, marker, i + k))
    BY <1>2
  <2> QED BY <2>1, <2>2, <2>3 DEF Found
<1>3. Found(r, jpegStart, from, i) <=> Found(b, jpegStart, from + k, i + k)
  BY <1>1, <1>2
<1>4. Found(r, jpegEnd, from, i) <=> Found(b, jpegEnd, from + k, i + k)
  BY <1>1, <1>2
<1> QED BY <1>3, <1>4 DEF r


LEMMA FrameShift ==
  ASSUME NEW b \in Seq(Byte), NEW k \in 0..Len(b), NEW p \in Nat \ {0},
         NEW i \in Nat, NEW last \in Nat \ {0}
  PROVE  FrameIn(From(b, k + 1), p, i, last) <=> FrameIn(b, p + k, i + k, last + k)
<1> USE Markers
<1>1. Found(From(b, k + 1), jpegStart, p, i) <=> Found(b, jpegStart, p + k, i + k)
  BY FoundShift
<1>2. Found(From(b, k + 1), jpegEnd, i + 4, last - 1) <=>
        Found(b, jpegEnd, i + 4 + k, last - 1 + k)
  <2>1. i + 4 \in Nat \ {0} /\ last - 1 \in Nat
    OBVIOUS
  <2> QED BY <2>1, FoundShift
<1>3. i + 4 + k = i + k + 4 /\ last - 1 + k = last + k - 1
  OBVIOUS
<1> QED BY <1>1, <1>2, <1>3 DEF FrameIn

LEMMA SubSeqShift ==
  ASSUME NEW b \in Seq(Byte), NEW r \in Seq(Byte), NEW k \in Nat,
         Len(r) = Len(b) - k, \A j \in 1..Len(r) : r[j] = b[j + k],
         NEW i \in 1..Len(r), NEW last \in i..Len(r)
  PROVE  SubSeq(r, i, last) = SubSeq(b, i + k, last + k)
<1> DEFINE x == SubSeq(r, i, last)
           y == SubSeq(b, i + k, last + k)
<1>1. /\ \A j \in i..last : r[j] \in Byte
      /\ \A j \in (i + k)..(last + k) : b[j] \in Byte
  OBVIOUS
<1>2. /\ x \in Seq(Byte) /\ Len(x) = last - i + 1
      /\ \A j \in 1..Len(x) : x[j] = r[i + j - 1]
  BY <1>1, SubSeqProperties
<1>3. /\ y \in Seq(Byte) /\ Len(y) = (last + k) - (i + k) + 1
      /\ \A j \in 1..Len(y) : y[j] = b[(i + k) + j - 1]
  <2>1. i + k \in Int /\ last + k \in Int /\ i + k <= last + k
    OBVIOUS
  <2> QED BY <1>1, <2>1, SubSeqProperties
<1> HIDE DEF x, y
<1>4. Len(x) = Len(y) /\ Len(x) = last - i + 1
  BY <1>2, <1>3
<1>5. ASSUME NEW j \in 1..Len(x) PROVE x[j] = y[j]
  <2>1. i + j - 1 \in 1..Len(r)
    BY <1>4
  <2>2. i + j - 1 + k = (i + k) + j - 1
    BY <1>4
  <2>3. x[j] = r[i + j - 1] /\ y[j] = b[(i + k) + j - 1]
    BY <1>2, <1>3, <1>4
  <2>4. r[i + j - 1] = b[i + j - 1 + k]
    BY <2>1
  <2> QED BY <2>2, <2>3, <2>4
<1>6. x = y
  BY <1>2, <1>3, <1>4, <1>5, SeqEqual
<1> QED BY <1>6 DEF x, y

\* The frames of the rest of a stream are the frames of the stream from there on.
LEMMA FramingShift ==
  ASSUME NEW b \in Seq(Byte), NEW k \in 0..Len(b)
  PROVE  \A p \in 1..(Len(b) - k + 1) : Framing(From(b, k + 1))[p] = Framing(b)[p + k]
<1> DEFINE r == From(b, k + 1)
           N == Len(b) - k + 1
           Holds == {p \in 1..N : Framing(r)[p] = Framing(b)[p + k]}
<1>1. r \in Seq(Byte) /\ Len(r) = Len(b) - k /\ \A j \in 1..Len(r) : r[j] = b[j + k]
  <2>1. k + 1 \in 1..(Len(b) + 1)
    OBVIOUS
  <2>2. r \in Seq(Byte) /\ Len(r) = Len(b) - (k + 1) + 1
        /\ \A j \in 1..Len(r) : r[j] = b[(k + 1) + j - 1]
    BY <2>1, FromIs
  <2> HIDE DEF r
  <2> QED BY <2>2
<1>2. N \in Nat /\ N = Len(r) + 1 /\ Len(b) \in Nat
  BY <1>1
<1>3. \A p \in Nat \ {0}, i \in Nat, last \in Nat \ {0} :
        FrameIn(r, p, i, last) <=> FrameIn(b, p + k, i + k, last + k)
  BY FrameShift
<1> HIDE DEF r, N
<1>4. ASSUME NEW p \in 1..N, (p + 1)..N \subseteq Holds PROVE p \in Holds
  <2>1. p \in 1..(Len(r) + 1) /\ p + k \in 1..(Len(b) + 1) /\ p \in Nat \ {0}
    BY <1>1, <1>2
  <2>2. CASE \E i, last \in Nat : FrameIn(r, p, i, last)
    <3>1. PICK i, last \in Nat : FrameIn(r, p, i, last)
      BY <2>2
    <3>2. /\ i \in p..(last - 5)
          /\ last \in (p + 5)..Len(r)
          /\ Framing(r)[p] = <<SubSeq(r, i, last)>> \o Framing(r)[last + 1]
      <4>1. r \in Seq(Byte) /\ p \in 1..(Len(r) + 1)
        BY <1>1, <2>1
      <4> HIDE DEF Holds
      <4> QED BY <3>1, <4>1, FramingFirst
    <3>3. last \in Nat \ {0} /\ i + k \in Nat /\ last + k \in Nat
      BY <3>2
    <3>4. FrameIn(b, p + k, i + k, last + k)
      BY <1>3, <2>1, <3>1, <3>3
    <3>5. Framing(b)[p + k] = <<SubSeq(b, i + k, last + k)>> \o Framing(b)[last + k + 1]
      BY <2>1, <3>3, <3>4, FramingFirst
    <3>6. SubSeq(r, i, last) = SubSeq(b, i + k, last + k)
      <4>1. i \in 1..Len(r) /\ last \in i..Len(r)
        BY <2>1, <3>2
      <4> QED BY <1>1, <4>1, SubSeqShift
    <3>7. Framing(r)[last + 1] = Framing(b)[last + k + 1]
      <4>1. last + 1 \in (p + 1)..N /\ last + 1 + k = last + k + 1
        BY <1>2, <3>2
      <4> QED BY <1>4, <4>1
    <3> QED BY <3>2, <3>5, <3>6, <3>7
  <2>3. CASE \A i, last \in Nat : ~FrameIn(r, p, i, last)
    <3>1. ASSUME NEW i \in Nat, NEW last \in Nat, FrameIn(b, p + k, i, last) PROVE FALSE
      <4>1. i \in (p + k)..(last - 5)
        BY <2>1, <3>1, FramingFirst
      <4>2. /\ i - k \in Nat /\ last - k \in Nat \ {0}
            /\ (i - k) + k = i /\ (last - k) + k = last
        BY <2>1, <4>1
      <4>3. FrameIn(r, p, i - k, last - k)
        BY <1>3, <2>1, <3>1, <4>2
      <4> QED BY <2>3, <4>2, <4>3
    <3>2. Framing(r)[p] = <<>>
      BY <1>1, <2>1, <2>3, FramingNone
    <3>3. Framing(b)[p + k] = <<>>
      BY <2>1, <3>1, FramingNone
    <3> QED BY <3>2, <3>3
  <2> QED BY <2>2, <2>3
<1>5. Holds = 1..N
  <2>1. Holds \in SUBSET (1..N)
    OBVIOUS
  <2> HIDE DEF Holds
  <2> QED BY <1>2, <1>4, <2>1, Backwards
<1> QED BY <1>5 DEF r, N

\* What comes before the first start marker does not matter.
LEMMA FramesSkip ==
  ASSUME NEW b \in Seq(Byte), NEW k \in 0..Len(b), \A j \in 1..k : ~At(b, jpegStart, j)
  PROVE  FramesOf(b) = FramesOf(From(b, k + 1))
<1>1. 1 \in 1..(Len(b) + 1) /\ k + 1 \in 1..(Len(b) + 1) /\ Len(b) \in Nat
  OBVIOUS
<1>2. ASSUME NEW i \in Nat
      PROVE  Found(b, jpegStart, 1, i) <=> Found(b, jpegStart, k + 1, i)
  BY DEF Found
<1>3. \A i, last \in Nat : FrameIn(b, 1, i, last) <=> FrameIn(b, k + 1, i, last)
  BY <1>2 DEF FrameIn
<1>4. Framing(b)[1] = Framing(b)[k + 1]
  <2>1. CASE \E i, last \in Nat : FrameIn(b, 1, i, last)
    <3>1. PICK i, last \in Nat : FrameIn(b, 1, i, last)
      BY <2>1
    <3>2. Framing(b)[1] = <<SubSeq(b, i, last)>> \o Framing(b)[last + 1]
      BY <1>1, <3>1, FramingFirst
    <3>3. Framing(b)[k + 1] = <<SubSeq(b, i, last)>> \o Framing(b)[last + 1]
      BY <1>1, <1>3, <3>1, FramingFirst
    <3> QED BY <3>2, <3>3
  <2>2. CASE \A i, last \in Nat : ~FrameIn(b, 1, i, last)
    BY <1>1, <1>3, <2>2, FramingNone
  <2> QED BY <2>1, <2>2
<1>5. Framing(From(b, k + 1))[1] = Framing(b)[1 + k]
  <2>1. 1 \in 1..(Len(b) - k + 1)
    BY <1>1
  <2> QED BY <2>1, FramingShift
<1> QED BY <1>4, <1>5 DEF FramesOf

\* A frame is followed by the frames of what is behind it.
LEMMA FramesCons ==
  ASSUME NEW b \in Seq(Byte), NEW i \in Nat, NEW last \in Nat, FrameIn(b, 1, i, last)
  PROVE  /\ last \in 6..Len(b)
         /\ i \in 1..(last - 5)
         /\ FramesOf(b) = <<SubSeq(b, i, last)>> \o FramesOf(From(b, last + 1))
<1>1. 1 \in 1..(Len(b) + 1) /\ Len(b) \in Nat
  OBVIOUS
<1>2. /\ i \in 1..(last - 5) /\ last \in (1 + 5)..Len(b)
      /\ Framing(b)[1] = <<SubSeq(b, i, last)>> \o Framing(b)[last + 1]
  BY <1>1, FramingFirst
<1>3. Framing(From(b, last + 1))[1] = Framing(b)[1 + last]
  <2>1. last \in 0..Len(b) /\ 1 \in 1..(Len(b) - last + 1)
    BY <1>1, <1>2
  <2> QED BY <2>1, FramingShift
<1> QED BY <1>2, <1>3 DEF FramesOf

-----------------------------------------------------------------------------
(* Streams that go on: what follows a buffer. *)

LEMMA RestIs ==
  ASSUME NEW b \in Seq(Byte), NEW k \in 0..Len(b)
  PROVE  /\ From(b, k + 1) \in Seq(Byte)
         /\ Len(From(b, k + 1)) = Len(b) - k
         /\ \A j \in 1..Len(From(b, k + 1)) : From(b, k + 1)[j] = b[j + k]
<1> DEFINE r == From(b, k + 1)
<1>1. k + 1 \in 1..(Len(b) + 1)
  OBVIOUS
<1>2. r \in Seq(Byte) /\ Len(r) = Len(b) - (k + 1) + 1
      /\ \A j \in 1..Len(r) : r[j] = b[(k + 1) + j - 1]
  BY <1>1, FromIs
<1> HIDE DEF r
<1>3. r \in Seq(Byte) /\ Len(r) = Len(b) - k /\ \A j \in 1..Len(r) : r[j] = b[j + k]
  BY <1>2
<1> QED BY <1>3 DEF r

LEMMA RestOfRest ==
  ASSUME NEW b \in Seq(Byte), NEW k \in 0..Len(b), NEW m \in 0..(Len(b) - k)
  PROVE  From(From(b, k + 1), m + 1) = From(b, k + m + 1)
<1> DEFINE r == From(b, k + 1)
           x == From(r, m + 1)
           y == From(b, k + m + 1)
<1>1. r \in Seq(Byte) /\ Len(r) = Len(b) - k /\ \A j \in 1..Len(r) : r[j] = b[j + k]
  BY RestIs
<1> HIDE DEF r
<1>2. x \in Seq(Byte) /\ Len(x) = Len(r) - m /\ \A j \in 1..Len(x) : x[j] = r[j + m]
  BY <1>1, RestIs
<1>3. k + m \in 0..Len(b)
  BY <1>1
<1>4. y \in Seq(Byte) /\ Len(y) = Len(b) - (k + m) /\ \A j \in 1..Len(y) : y[j] = b[j + (k + m)]
  BY <1>3, RestIs
<1> HIDE DEF x, y
<1>5. Len(x) = Len(y)
  BY <1>1, <1>2, <1>4
<1>6. ASSUME NEW j \in 1..Len(x) PROVE x[j] = y[j]
  <2>1. j + m \in 1..Len(r) /\ j + m + k = j + (k + m)
    BY <1>1, <1>2
  <2>2. x[j] = r[j + m] /\ r[j + m] = b[j + m + k] /\ y[j] = b[j + (k + m)]
    BY <1>1, <1>2, <1>4, <1>5, <2>1
  <2> QED BY <2>1, <2>2
<1>7. x = y
  BY <1>2, <1>4, <1>5, <1>6, SeqEqual
<1> QED BY <1>7 DEF r, x, y

LEMMA RestOfConcat ==
  ASSUME NEW b \in Seq(Byte), NEW t \in Seq(Byte), NEW k \in 0..Len(b)
  PROVE  From(b \o t, k + 1) = From(b, k + 1) \o t
<1> DEFINE bt == b \o t
           x == From(bt, k + 1)
           r == From(b, k + 1)
           y == r \o t
<1>1. /\ bt \in Seq(Byte) /\ Len(bt) = Len(b) + Len(t)
      /\ \A j \in 1..(Len(b) + Len(t)) : bt[j] = IF j <= Len(b) THEN b[j] ELSE t[j - Len(b)]
  BY ConcatProperties
<1> HIDE DEF bt
<1>2. k \in 0..Len(bt) /\ Len(b) \in Nat /\ Len(t) \in Nat
  BY <1>1
<1>3. x \in Seq(Byte) /\ Len(x) = Len(bt) - k /\ \A j \in 1..Len(x) : x[j] = bt[j + k]
  BY <1>1, <1>2, RestIs
<1>4. r \in Seq(Byte) /\ Len(r) = Len(b) - k /\ \A j \in 1..Len(r) : r[j] = b[j + k]
  BY RestIs
<1> HIDE DEF x, r
<1>5. /\ y \in Seq(Byte) /\ Len(y) = Len(r) + Len(t)
      /\ \A j \in 1..(Len(r) + Len(t)) : y[j] = IF j <= Len(r) THEN r[j] ELSE t[j - Len(r)]
  BY <1>4, ConcatProperties
<1> HIDE DEF y
<1>6. Len(x) = Len(y) /\ Len(x) \in Nat
  BY <1>1, <1>2, <1>3, <1>4, <1>5
<1>7. ASSUME NEW j \in 1..Len(x) PROVE x[j] = y[j]
  <2>1. x[j] = bt[j + k] /\ j + k \in 1..(Len(b) + Len(t))
    BY <1>1, <1>2, <1>3
  <2>2. CASE j <= Len(r)
    <3>1. y[j] = r[j] /\ r[j] = b[j + k] /\ j + k <= Len(b)
      BY <1>2, <1>4, <1>5, <1>6, <2>2
    <3> QED BY <1>1, <2>1, <3>1
  <2>3. CASE ~(j <= Len(r))
    <3>1. y[j] = t[j - Len(r)] /\ ~(j + k <= Len(b)) /\ j - Len(r) = j + k - Len(b)
      BY <1>2, <1>4, <1>5, <1>6, <2>3
    <3> QED BY <1>1, <2>1, <3>1
  <2> QED BY <2>2, <2>3
<1>8. x = y
  BY <1>3, <1>5, <1>6, <1>7, SeqEqual
<1> QED BY <1>8 DEF bt, x, r, y

\* The markers that lie within a buffer are those of every stream it begins.
LEMMA AtConcat ==
  ASSUME NEW b \in Seq(Byte), NEW t \in Seq(Byte), NEW i \in Nat \ {0}
  PROVE  /\ i + 3 <= Len(b) => (At(b \o t, jpegStart, i) <=> At(b, jpegStart, i))
         /\ i + 1 <= Len(b) => (At(b \o t, jpegEnd, i) <=> At(b, jpegEnd, i))
<1>1. Len(b \o t) = Len(b) + Len(t) /\ Len(b) \in Nat /\ Len(t) \in Nat
  BY ConcatProperties
<1>2. ASSUME i + 3 <= Len(b)
      PROVE  At(b \o t, jpegStart, i) <=> At(b, jpegStart, i)
  <2>1. i \in 1..Len(b) /\ i + 3 \in 1..Len(b) /\ i + 4 - 1 = i + 3
    BY <1>1, <1>2
  <2>2. SubSeq(b \o t, i, i + 3) = SubSeq(b, i, i + 3)
    BY <2>1, SubSeqOfConcat1
  <2> QED BY <1>1, <2>1, <2>2, Markers DEF At
<1>3. ASSUME i + 1 <= Len(b)
      PROVE  At(b \o t, jpegEnd, i) <=> At(b, jpegEnd, i)
  <2>1. i \in 1..Len(b) /\ i + 1 \in 1..Len(b) /\ i + 2 - 1 = i + 1
    BY <1>1, <1>3
  <2>2. SubSeq(b \o t, i, i + 1) = SubSeq(b, i, i + 1)
    BY <2>1, SubSeqOfConcat1
  <2> QED BY <1>1, <2>1, <2>2, Markers DEF At
<1> QED BY <1>2, <1>3

LEMMA FrameConcat ==
  ASSUME NEW b \in Seq(Byte), NEW t \in Seq(Byte), NEW i \in Nat, NEW last \in Nat,
         FrameIn(b, 1, i, last)
  PROVE  FrameIn(b \o t, 1, i, last)
<1> USE Markers
<1>1. /\ i \in 1..(last - 5) /\ last \in 6..Len(b)
  BY FramesCons
<1>2. /\ At(b, jpegStart, i) /\ \A j \in 1..(i - 1) : ~At(b, jpegStart, j)
      /\ last - 1 >= i + 4 /\ At(b, jpegEnd, last - 1)
      /\ \A j \in (i + 4)..(last - 2) : ~At(b, jpegEnd, j)
  BY DEF FrameIn, Found
<1>3. \A j \in 1..i : At(b \o t, jpegStart, j) <=> At(b, jpegStart, j)
  <2>1. \A j \in 1..i : j \in Nat \ {0} /\ j + 3 <= Len(b)
    BY <1>1
  <2> QED BY <2>1, AtConcat
<1>4. \A j \in (i + 4)..(last - 1) : At(b \o t, jpegEnd, j) <=> At(b, jpegEnd, j)
  <2>1. \A j \in (i + 4)..(last - 1) : j \in Nat \ {0} /\ j + 1 <= Len(b)
    BY <1>1
  <2> QED BY <2>1, AtConcat
<1>5. Found(b \o t, jpegStart, 1, i)
  BY <1>1, <1>2, <1>3 DEF Found
<1>6. Found(b \o t, jpegEnd, i + 4, last - 1)
  BY <1>1, <1>2, <1>4 DEF Found
<1> QED BY <1>5, <1>6 DEF FrameIn

\* The frames of every stream that b begins.
LEMMA SkipAhead ==
  ASSUME NEW b \in Seq(Byte), NEW k \in 0..Len(b), k > 0 => k + 3 <= Len(b),
         \A j \in 1..k : ~At(b, jpegStart, j), NEW t \in Seq(Byte)
  PROVE  FramesOf(b \o t) = FramesOf(From(b, k + 1) \o t)
<1>1. b \o t \in Seq(Byte) /\ k \in 0..Len(b \o t)
  BY ConcatProperties
<1>2. ASSUME NEW j \in 1..k PROVE ~At(b \o t, jpegStart, j)
  <2>1. j \in Nat \ {0} /\ j + 3 <= Len(b)
    OBVIOUS
  <2> QED BY <2>1, AtConcat
<1>3. FramesOf(b \o t) = FramesOf(From(b \o t, k + 1))
  BY <1>1, <1>2, FramesSkip
<1> QED BY <1>3, RestOfConcat

LEMMA FrameAhead ==
  ASSUME NEW b \in Seq(Byte), NEW i \in Nat, NEW last \in Nat, FrameIn(b, 1, i, last),
         NEW t \in Seq(Byte)
  PROVE  FramesOf(b \o t) = <<SubSeq(b, i, last)>> \o FramesOf(From(b, last + 1) \o t)
<1>1. b \o t \in Seq(Byte)
  BY ConcatProperties
<1>2. last \in 6..Len(b) /\ i \in 1..(last - 5)
  BY FramesCons
<1>3. FramesOf(b \o t) = <<SubSeq(b \o t, i, last)>> \o FramesOf(From(b \o t, last + 1))
  BY <1>1, FrameConcat, FramesCons
<1>4. SubSeq(b \o t, i, last) = SubSeq(b, i, last)
  <2>1. i \in 1..Len(b) /\ last \in 1..Len(b)
    BY <1>2
  <2> QED BY <2>1, SubSeqOfConcat1
<1>5. From(b \o t, last + 1) = From(b, last + 1) \o t
  BY <1>2, RestOfConcat
<1> QED BY <1>3, <1>4, <1>5

\* There is no frame in a stream in which none begins, or the first does not end.
LEMMA NoFrames ==
  ASSUME NEW b \in Seq(Byte),
         Missing(b, jpegStart, 1) \/ (At(b, jpegStart, 1) /\ Missing(b, jpegEnd, 5))
  PROVE  FramesOf(b) = <<>>
<1>1. 1 \in 1..(Len(b) + 1)
  OBVIOUS
<1>2. ASSUME NEW i \in Nat, NEW last \in Nat, FrameIn(b, 1, i, last) PROVE FALSE
  <2>1. last \in 6..Len(b) /\ i \in 1..(last - 5)
    BY <1>2, FramesCons
  <2>2. /\ At(b, jpegStart, i) /\ \A j \in 1..(i - 1) : ~At(b, jpegStart, j)
        /\ last - 1 >= i + 4 /\ At(b, jpegEnd, last - 1)
    BY <1>2, Markers DEF FrameIn, Found
  <2>3. ~Missing(b, jpegStart, 1)
    BY <2>1, <2>2 DEF Missing
  <2>4. last - 1 \in 5..Len(b)
    BY <2>1, <2>2
  <2> QED BY <2>2, <2>3, <2>4 DEF Missing
<1>3. Framing(b)[1] = <<>>
  BY <1>1, <1>2, FramingNone
<1> QED BY <1>3 DEF FramesOf

-----------------------------------------------------------------------------
(* The frames that are emitted are those of the stream. *)

\* The stream and its frames since the last drop.
Received == SubSeq(input, resync + 1, pos)
Emitted == SubSeq(emitted, before + 1, Len(emitted))

\* However the stream goes on, its frames are the emitted ones and those that begin
\* in the buffer.
FramesAhead == \A t \in Seq(Byte) : FramesOf(Received \o t) = Emitted \o FramesOf(buf \o t)

\* Between reads no frame is complete.
NoneComplete ==
  step = "read" => \/ Missing(buf, jpegStart, 1)
                   \/ At(buf, jpegStart, 1) /\ Missing(buf, jpegEnd, Len(jpegStart) + 1)

LEMMA GhostTypes ==
  ASSUME ScanTypeOK
  PROVE  /\ Received \in Seq(Byte) /\ Emitted \in Seq(Seq(Byte)) /\ buf \in Seq(Byte)
         /\ input \in Seq(Byte) /\ emitted \in Seq(Seq(Byte))
         /\ pos \in 0..Len(input) /\ resync \in 0..pos /\ before \in 0..Len(emitted)
<1>1. /\ input \in Seq(Byte) /\ emitted \in Seq(Seq(Byte)) /\ buf \in Seq(Byte)
      /\ pos \in 0..Len(input) /\ resync \in 0..pos /\ before \in 0..Len(emitted)
  BY InputAssumption DEF ScanTypeOK
<1>2. Received \in Seq(Byte)
  <2>1. \A j \in (resync + 1)..pos : input[j] \in Byte
    BY <1>1
  <2> QED BY <1>1, <2>1, SubSeqProperties DEF Received
<1>3. Emitted \in Seq(Seq(Byte))
  <2>1. \A j \in (before + 1)..Len(emitted) : emitted[j] \in Seq(Byte)
    BY <1>1
  <2> QED BY <1>1, <2>1, SubSeqProperties DEF Emitted
<1> QED BY <1>1, <1>2, <1>3

LEMMA FramesType ==
  ASSUME NEW s \in Seq(Byte)
  PROVE  FramesOf(s) \in Seq(Seq(Byte))
<1>1. 1 \in 1..(Len(s) + 1)
  OBVIOUS
<1> QED BY <1>1, FramingType DEF FramesOf

LEMMA CutRest ==
  ASSUME NEW b \in Seq(Byte), NEW k \in 0..Len(b), NEW end \in Nat,
         end + 1 \in 6..(Len(b) - k), Found(From(b, k + 1), jpegEnd, 5, end)
  PROVE  /\ Found(b, jpegEnd, k + 5, k + end)
         /\ SubSeq(From(b, k + 1), 1, end + 1) = SubSeq(b, k + 1, k + end + 1)
         /\ From(From(b, k + 1), end + 2) = From(b, k + end + 2)
<1> DEFINE r == From(b, k + 1)
<1>1. r \in Seq(Byte) /\ Len(r) = Len(b) - k /\ \A j \in 1..Len(r) : r[j] = b[j + k]
  BY RestIs
<1>2. Found(b, jpegEnd, k + 5, k + end)
  <2>1. Found(b, jpegEnd, 5 + k, end + k)
    BY FoundShift
  <2>2. 5 + k = k + 5 /\ end + k = k + end
    OBVIOUS
  <2> QED BY <2>1, <2>2
<1>3. From(r, end + 2) = From(b, k + end + 2)
  <2>1. end + 1 \in 0..(Len(b) - k)
    OBVIOUS
  <2>2. From(r, end + 1 + 1) = From(b, k + (end + 1) + 1)
    BY <2>1, RestOfRest
  <2>3. end + 1 + 1 = end + 2 /\ k + (end + 1) + 1 = k + end + 2
    OBVIOUS
  <2> QED BY <2>2, <2>3
<1> HIDE DEF r
<1>4. SubSeq(r, 1, end + 1) = SubSeq(b, k + 1, k + end + 1)
  <2>1. 1 \in 1..Len(r) /\ end + 1 \in 1..Len(r) /\ k \in Nat
    BY <1>1
  <2>2. SubSeq(r, 1, end + 1) = SubSeq(b, 1 + k, end + 1 + k)
    BY <1>1, <2>1, SubSeqShift
  <2>3. 1 + k = k + 1 /\ end + 1 + k = k + end + 1
    OBVIOUS
  <2> QED BY <2>2, <2>3
<1> QED BY <1>2, <1>3, <1>4 DEF r

\* What Frame cuts out of the buffer is its first frame.
LEMMA FrameCut ==
  ASSUME ScanTypeOK, SearchedClean, NEW start \in DOMAIN buf, Frame(start)
  PROVE  \E last \in Nat : /\ FrameIn(buf, 1, start, last)
                           /\ SubSeq(buf, start, last) \in Seq(Byte)
                           /\ emitted' = Append(emitted, SubSeq(buf, start, last))
                           /\ buf' = From(buf, last + 1)
<1> USE Markers
<1> DEFINE u == Unfinished(start)
           k == start - 1
<1>1. /\ Starts(start) /\ u \in Seq(Byte) /\ Done(start) = scanned
      /\ Len(u) = Len(buf) - start + 1
      /\ scanned \in 0..Len(u)
      /\ \A j \in 5..(scanned - 1) : ~At(u, jpegEnd, j)
  BY FrameBegins DEF Frame
<1>2. buf \in Seq(Byte) /\ start \in 1..Len(buf) /\ k \in 0..Len(buf) /\ k + 1 = start
  BY DEF ScanTypeOK
<1>3. u = From(buf, k + 1)
  BY <1>2 DEF Unfinished
<1>4. PICK end \in DOMAIN u :
        /\ Found(u, jpegEnd, SearchFrom(Done(start)), end)
        /\ emitted' = Append(emitted, SubSeq(u, 1, end + Len(jpegEnd) - 1))
        /\ buf' = From(u, end + Len(jpegEnd) - 1 + 1)
  BY DEF Frame
<1>5. /\ end + 1 \in 6..Len(u) /\ end >= SearchFrom(scanned)
      /\ SubSeq(u, 1, end + 1) \in Seq(Byte)
  BY <1>1, <1>4, FrameIsWhole
<1>6. end \in Nat /\ end + 1 \in 6..(Len(buf) - k) /\ k \in Nat
  BY <1>1, <1>2, <1>5
<1>7. Found(u, jpegEnd, 5, end)
  <2>1. SearchFrom(scanned) = IF scanned >= 5 THEN scanned ELSE 5
    BY <1>1, SearchFromIs
  <2>2. Found(u, jpegEnd, SearchFrom(scanned), end)
    BY <1>1, <1>4
  <2> HIDE DEF u
  <2> QED BY <1>1, <1>6, <2>1, <2>2 DEF Found
<1> HIDE DEF u, k
<1>8. /\ Found(buf, jpegEnd, k + 5, k + end)
      /\ SubSeq(u, 1, end + 1) = SubSeq(buf, k + 1, k + end + 1)
      /\ From(u, end + 2) = From(buf, k + end + 2)
  BY <1>2, <1>3, <1>6, <1>7, CutRest
<1> DEFINE last == k + end + 1
<1>9. FrameIn(buf, 1, start, last)
  <2>1. Found(buf, jpegStart, 1, start)
    BY <1>1 DEF Starts
  <2>2. k + 5 = start + 4 /\ k + end = last - 1
    BY <1>2, <1>6
  <2> QED BY <1>8, <2>1, <2>2 DEF FrameIn
<1>10. end + Len(jpegEnd) - 1 = end + 1 /\ end + Len(jpegEnd) - 1 + 1 = end + 2
  BY <1>6
<1>11. k + end + 2 = last + 1 /\ last \in Nat
  BY <1>6
<1>12. /\ SubSeq(buf, start, last) \in Seq(Byte)
       /\ emitted' = Append(emitted, SubSeq(buf, start, last))
       /\ buf' = From(buf, last + 1)
  <2> HIDE DEF last
  <2>1. SubSeq(u, 1, end + 1) = SubSeq(buf, start, last)
    BY <1>2, <1>8 DEF last
  <2>2. From(u, end + 2) = From(buf, last + 1)
    BY <1>8, <1>11
  <2> QED BY <1>4, <1>5, <1>10, <2>1, <2>2
<1> QED BY <1>9, <1>11, <1>12

LEMMA NextNoneComplete == ScanTypeOK /\ SearchedClean /\ NoneComplete /\ [ScanNext]_scanVars => NoneComplete'
<1> SUFFICES ASSUME ScanTypeOK, SearchedClean, NoneComplete, [ScanNext]_scanVars PROVE NoneComplete'
  OBVIOUS
<1> USE Markers
<1>1. CASE ReadMore
  BY <1>1 DEF ReadMore, NoneComplete
<1>2. CASE NoStart
  <2>1. buf' \in Seq(Byte) /\ Len(buf') <= 3
    BY <1>2, BufferAfter DEF ScanNext
  <2>2. \A j \in 1..Len(buf') : ~At(buf', jpegStart, j)
    BY <2>1 DEF At
  <2> QED BY <2>2 DEF NoneComplete, Missing
<1>3. ASSUME NEW start \in DOMAIN buf, Keep(start) PROVE NoneComplete'
  <2> DEFINE u == Unfinished(start)
  <2>1. /\ u \in Seq(Byte) /\ At(u, jpegStart, 1) /\ Done(start) = scanned
        /\ scanned \in 0..Len(u)
        /\ \A j \in 5..(scanned - 1) : ~At(u, jpegEnd, j)
    BY <1>3, FrameBegins DEF Keep, NoEnd
  <2>2. buf' = u /\ Missing(u, jpegEnd, SearchFrom(scanned))
    BY <1>3, <2>1 DEF Keep, NoEnd
  <2>3. SearchFrom(scanned) = IF scanned >= 5 THEN scanned ELSE 5
    BY <2>1, SearchFromIs
  <2> HIDE DEF u
  <2>4. \A j \in 5..Len(u) : ~At(u, jpegEnd, j)
    BY <2>1, <2>2, <2>3 DEF Missing
  <2> QED BY <2>1, <2>2, <2>4 DEF NoneComplete, Missing
<1>4. ASSUME NEW start \in DOMAIN buf, Drop(start) PROVE NoneComplete'
  <2>1. buf' = <<>>
    BY <1>4 DEF Drop
  <2> QED BY <2>1 DEF NoneComplete, Missing
<1>5. ASSUME NEW start \in DOMAIN buf, Frame(start) PROVE NoneComplete'
  BY <1>5 DEF Frame, Starts, NoneComplete
<1>6. CASE UNCHANGED scanVars
  BY <1>6 DEF scanVars, NoneComplete
<1> QED BY <1>1, <1>2, <1>3, <1>4, <1>5, <1>6 DEF ScanNext

LEMMA BytesAssociative ==
  ASSUME NEW s \in Seq(Byte), NEW t \in Seq(Byte), NEW u \in Seq(Byte)
  PROVE  (s \o t) \o u = s \o (t \o u)
BY ConcatAssociative

LEMMA FramesAssociative ==
  ASSUME NEW s \in Seq(Seq(Byte)), NEW t \in Seq(Seq(Byte)), NEW u \in Seq(Seq(Byte))
  PROVE  (s \o t) \o u = s \o (t \o u)
BY ConcatAssociative

\* Taking what cannot begin a frame off the buffer.
LEMMA SkipKeeps ==
  ASSUME ScanTypeOK, FramesAhead, UNCHANGED <<input, pos, emitted, resync, before>>,
         NEW k \in 0..Len(buf), k > 0 => k + 3 <= Len(buf),
         \A j \in 1..k : ~At(buf, jpegStart, j), buf' = From(buf, k + 1)
  PROVE  FramesAhead'
<1>1. Received' = Received /\ Emitted' = Emitted
  BY DEF Received, Emitted
<1>2. ASSUME NEW t \in Seq(Byte)
      PROVE  FramesOf(Received' \o t) = Emitted' \o FramesOf(buf' \o t)
  <2>1. FramesOf(buf \o t) = FramesOf(From(buf, k + 1) \o t)
    BY GhostTypes, SkipAhead
  <2> QED BY <1>1, <2>1 DEF FramesAhead
<1> QED BY <1>2 DEF FramesAhead

LEMMA NextAhead == ScanTypeOK /\ SearchedClean /\ FramesAhead /\ [ScanNext]_scanVars => FramesAhead'
<1> SUFFICES ASSUME ScanTypeOK, SearchedClean, FramesAhead, [ScanNext]_scanVars PROVE FramesAhead'
  OBVIOUS
<1> USE Markers
<1>0. /\ Received \in Seq(Byte) /\ Emitted \in Seq(Seq(Byte)) /\ buf \in Seq(Byte)
      /\ input \in Seq(Byte) /\ emitted \in Seq(Seq(Byte))
      /\ pos \in 0..Len(input) /\ resync \in 0..pos /\ before \in 0..Len(emitted)
  BY GhostTypes
<1>1. CASE ReadMore
  <2>1. PICK n \in 1..ReadSize :
          /\ pos + n <= Len(input)
          /\ buf' = buf \o SubSeq(input, pos + 1, pos + n)
          /\ pos' = pos + n
    BY <1>1 DEF ReadMore
  <2> DEFINE chunk == SubSeq(input, pos + 1, pos + n)
  <2>2. chunk \in Seq(Byte)
    <3>1. \A j \in (pos + 1)..(pos + n) : input[j] \in Byte
      BY <1>0, <2>1
    <3> QED BY <1>0, <2>1, <3>1, SubSeqProperties, SizeAssumption
  <2>3. Received' = Received \o chunk
    <3>1. input' = input /\ resync' = resync
      BY <1>1 DEF ReadMore
    <3>2. resync + 1 \in 1..(Len(input) + 1) /\ pos \in (resync + 1 - 1)..Len(input)
          /\ pos + n \in pos..Len(input)
      BY <1>0, <2>1, SizeAssumption
    <3>3. SubSeq(input, resync + 1, pos) \o SubSeq(input, pos + 1, pos + n)
            = SubSeq(input, resync + 1, pos + n)
      BY <1>0, <3>2, ConcatAdjacentSubSeq
    <3> QED BY <2>1, <3>1, <3>3 DEF Received
  <2>4. Emitted' = Emitted
    BY <1>1 DEF ReadMore, Emitted
  <2>5. buf' = buf \o chunk
    BY <2>1
  <2> HIDE DEF chunk
  <2>6. ASSUME NEW t \in Seq(Byte)
        PROVE  FramesOf(Received' \o t) = Emitted' \o FramesOf(buf' \o t)
    <3>1. chunk \o t \in Seq(Byte)
      BY <2>2, ConcatProperties
    <3>2. FramesOf(Received \o (chunk \o t)) = Emitted \o FramesOf(buf \o (chunk \o t))
      BY <3>1 DEF FramesAhead
    <3>3. (Received \o chunk) \o t = Received \o (chunk \o t)
      BY <1>0, <2>2, BytesAssociative
    <3>4. (buf \o chunk) \o t = buf \o (chunk \o t)
      BY <1>0, <2>2, BytesAssociative
    <3> QED BY <2>3, <2>4, <2>5, <3>2, <3>3, <3>4
  <2> QED BY <2>6 DEF FramesAhead
<1>2. CASE NoStart
  <2> DEFINE keep == Min({Len(buf), Len(jpegStart) - 1})
             k == Len(buf) - keep
  <2>1. keep = IF Len(buf) <= 3 THEN Len(buf) ELSE 3
    <3>1. Len(jpegStart) - 1 = 3 /\ Len(buf) \in Int
      BY <1>0
    <3>2. Min({Len(buf), 3}) = IF Len(buf) <= 3 THEN Len(buf) ELSE 3
      BY <3>1, MinOfTwo
    <3> QED BY <3>1, <3>2
  <2>2. buf' = From(buf, k + 1) /\ UNCHANGED <<input, pos, emitted, resync, before>>
    BY <1>2 DEF NoStart, ghosts
  <2>3. \A j \in 1..Len(buf) : ~At(buf, jpegStart, j)
    BY <1>2 DEF NoStart, Missing
  <2> HIDE DEF keep
  <2>4. k \in 0..Len(buf) /\ (k > 0 => k + 3 <= Len(buf))
    BY <1>0, <2>1
  <2>5. \A j \in 1..k : ~At(buf, jpegStart, j)
    BY <1>0, <2>3, <2>4
  <2> HIDE DEF k
  <2> QED BY <2>2, <2>4, <2>5, SkipKeeps
<1>3. ASSUME NEW start \in DOMAIN buf, Keep(start) PROVE FramesAhead'
  <2> DEFINE k == start - 1
  <2>1. start \in 1..Len(buf) /\ k \in 0..Len(buf) /\ k + 1 = start
    BY <1>0
  <2>2. At(buf, jpegStart, start) /\ \A j \in 1..(start - 1) : ~At(buf, jpegStart, j)
    BY <1>3 DEF Keep, NoEnd, Starts, Found
  <2>3. start + 3 <= Len(buf)
    BY <1>0, <2>1, <2>2 DEF At
  <2>4. buf' = From(buf, k + 1) /\ UNCHANGED <<input, pos, emitted, resync, before>>
    BY <1>3, <2>1 DEF Keep, Unfinished
  <2>5. k > 0 => k + 3 <= Len(buf)
    BY <1>0, <2>1, <2>3
  <2>6. \A j \in 1..k : ~At(buf, jpegStart, j)
    BY <2>2
  <2> HIDE DEF k
  <2> QED BY <2>1, <2>4, <2>5, <2>6, SkipKeeps
<1>4. ASSUME NEW start \in DOMAIN buf, Drop(start) PROVE FramesAhead'
  <2>1. /\ buf' = <<>> /\ resync' = pos /\ before' = Len(emitted)
        /\ input' = input /\ pos' = pos /\ emitted' = emitted
    BY <1>4 DEF Drop
  <2>2. Received' = <<>> /\ Emitted' = <<>>
    <3>1. pos < pos + 1 /\ Len(emitted) < Len(emitted) + 1
      BY <1>0
    <3> QED BY <1>0, <2>1, <3>1, SubSeqEmpty DEF Received, Emitted
  <2>3. ASSUME NEW t \in Seq(Byte)
        PROVE  FramesOf(Received' \o t) = Emitted' \o FramesOf(buf' \o t)
    <3>1. <<>> \o t = t
      BY ConcatEmptySeq
    <3>2. <<>> \o FramesOf(t) = FramesOf(t)
      BY FramesType, ConcatEmptySeq
    <3> QED BY <2>1, <2>2, <3>1, <3>2
  <2> QED BY <2>3 DEF FramesAhead
<1>5. ASSUME NEW start \in DOMAIN buf, Frame(start) PROVE FramesAhead'
  <2>1. PICK last \in Nat : /\ FrameIn(buf, 1, start, last)
                            /\ SubSeq(buf, start, last) \in Seq(Byte)
                            /\ emitted' = Append(emitted, SubSeq(buf, start, last))
                            /\ buf' = From(buf, last + 1)
    BY <1>5, FrameCut
  <2> DEFINE f == SubSeq(buf, start, last)
  <2>2. f \in Seq(Byte) /\ emitted' = Append(emitted, f)
    BY <2>1
  <2>3. start \in Nat /\ last \in 0..Len(buf)
    <3>1. start \in Nat
      BY <1>0
    <3>2. last \in 6..Len(buf)
      BY <1>0, <2>1, <3>1, FramesCons
    <3> QED BY <1>0, <3>1, <3>2
  <2>4. ASSUME NEW t \in Seq(Byte)
        PROVE  /\ FramesOf(buf \o t) = <<f>> \o FramesOf(buf' \o t)
               /\ FramesOf(buf' \o t) \in Seq(Seq(Byte))
    <3>1. FramesOf(buf \o t) = <<f>> \o FramesOf(buf' \o t)
      BY <1>0, <2>1, <2>3, FrameAhead
    <3>2. buf' \o t \in Seq(Byte)
      BY <1>0, <2>1, <2>3, RestIs, ConcatProperties
    <3> QED BY <3>1, <3>2, FramesType
  <2> HIDE DEF f
  <2>5. /\ emitted' = emitted \o <<f>> /\ <<f>> \in Seq(Seq(Byte))
        /\ emitted' \in Seq(Seq(Byte)) /\ Len(emitted') = Len(emitted) + 1
        /\ \A j \in 1..Len(emitted) : emitted'[j] = emitted[j]
        /\ emitted'[Len(emitted) + 1] = f
    BY <1>0, <2>2, AppendIsConcat, AppendProperties
  <2>6. Emitted' = Emitted \o <<f>>
    <3>1. before' = before
      BY <1>5 DEF Frame
    <3>2. before + 1 \in 1..Len(emitted') /\ Len(emitted') \in (before + 1)..Len(emitted')
          /\ Len(emitted') - 1 = Len(emitted)
      BY <1>0, <2>5
    <3>3. SubSeq(emitted', before + 1, Len(emitted'))
            = SubSeq(emitted', before + 1, Len(emitted') - 1) \o <<emitted'[Len(emitted')]>>
      BY <2>5, <3>2, SubSeqRecursiveSecond
    <3>4. SubSeq(emitted', before + 1, Len(emitted)) = SubSeq(emitted, before + 1, Len(emitted))
      <4>1. CASE before + 1 <= Len(emitted)
        <5>1. before + 1 \in 1..Len(emitted) /\ Len(emitted) \in 1..Len(emitted)
          BY <1>0, <4>1
        <5> QED BY <1>0, <2>5, <5>1, SubSeqOfConcat1
      <4>2. CASE Len(emitted) < before + 1
        BY <1>0, <4>2, SubSeqEmpty
      <4> QED BY <1>0, <4>1, <4>2
    <3> QED BY <2>5, <3>1, <3>2, <3>3, <3>4 DEF Emitted
  <2>7. Received' = Received
    BY <1>5 DEF Frame, Received
  <2>8. ASSUME NEW t \in Seq(Byte)
        PROVE  FramesOf(Received' \o t) = Emitted' \o FramesOf(buf' \o t)
    <3>1. FramesOf(Received \o t) = Emitted \o (<<f>> \o FramesOf(buf' \o t))
      BY <2>4 DEF FramesAhead
    <3>2. (Emitted \o <<f>>) \o FramesOf(buf' \o t) = Emitted \o (<<f>> \o FramesOf(buf' \o t))
      <4>1. Emitted \in Seq(Seq(Byte))
        BY <1>0
      <4>2. <<f>> \in Seq(Seq(Byte)) /\ FramesOf(buf' \o t) \in Seq(Seq(Byte))
        BY <2>4, <2>5
      <4> QED BY <4>1, <4>2, FramesAssociative, Zenon
    <3> QED BY <2>6, <2>7, <3>1, <3>2
  <2> QED BY <2>8 DEF FramesAhead
<1>6. CASE UNCHANGED scanVars
  BY <1>6 DEF scanVars, ghosts, FramesAhead, Received, Emitted
<1> QED BY <1>1, <1>2, <1>3, <1>4, <1>5, <1>6 DEF ScanNext

\* However the stream is cut into reads, and wherever its markers are split, the
\* frames emitted since the last drop are the frames of the stream since then.
THEOREM StreamIsCutIntoItsFrames == ScanSpec => []FramesFollowTheStream
<1>1. ScanInit => FramesAhead /\ NoneComplete
  <2> SUFFICES ASSUME ScanInit PROVE FramesAhead /\ NoneComplete
    OBVIOUS
  <2>1. Received = <<>> /\ Emitted = <<>> /\ buf = <<>>
    <3>1. Len(emitted) = 0 /\ pos = 0 /\ resync = 0 /\ before = 0
      BY DEF ScanInit
    <3> QED BY <3>1, SubSeqEmpty DEF ScanInit, Received, Emitted
  <2>2. ASSUME NEW t \in Seq(Byte)
        PROVE  FramesOf(Received \o t) = Emitted \o FramesOf(buf \o t)
    <3>1. <<>> \o t = t /\ <<>> \o FramesOf(t) = FramesOf(t)
      BY FramesType, ConcatEmptySeq
    <3> QED BY <2>1, <3>1
  <2>3. NoneComplete
    BY <2>1 DEF NoneComplete, Missing
  <2> QED BY <2>2, <2>3 DEF FramesAhead
<1>2. ScanTypeOK /\ FramesAhead /\ NoneComplete => FramesFollowTheStream
  <2> SUFFICES ASSUME ScanTypeOK, FramesAhead, NoneComplete, step = "read"
               PROVE  Emitted = FramesOf(Received)
    BY DEF FramesFollowTheStream, Emitted, Received
  <2>1. FramesOf(buf) = <<>>
    BY GhostTypes, NoFrames, Markers DEF NoneComplete
  <2>2. FramesOf(Received \o <<>>) = Emitted \o FramesOf(buf \o <<>>)
    BY EmptySeq DEF FramesAhead
  <2>3. Received \o <<>> = Received /\ buf \o <<>> = buf /\ Emitted \o <<>> = Emitted
    BY GhostTypes, ConcatEmptySeq
  <2> QED BY <2>1, <2>2, <2>3
<1> QED BY <1>1, <1>2, NextAhead, NextNoneComplete, ScanCorrect, PTL DEF ScanSpec

=============================================================================
