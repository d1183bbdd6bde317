------------------------------ MODULE FrameScan ------------------------------
(***************************************************************************)
(* extractFrames (camera_client.go) in the read loops of streamLoop and    *)
(* CaptureFrame: complete JPEG frames are cut out of a byte stream that    *)
(* arrives in pieces, markers split anywhere.                              *)
(*                                                                         *)
(* An iteration of extractFrames' loop is an action.  Positions are those  *)
(* of TLA+ sequences, one more than Go's.                                  *)
(***************************************************************************)
EXTENDS Integers, Sequences, FiniteSetsExt

CONSTANTS
  Inputs,         \* the byte streams a camera may send
  maxFrameSize,   \* 2 MB in the code
  ReadSize        \* len(readBuf), 4096 in the code

Byte == {"ff", "d8", "e0", "d9", "00"}   \* the bytes of the markers, and any other

ASSUME InputAssumption == Inputs \subseteq Seq(Byte)
ASSUME SizeAssumption == maxFrameSize \in Nat /\ ReadSize \in Nat /\ maxFrameSize >= 3

jpegStart == <<"ff", "d8", "ff", "e0">>
jpegEnd == <<"ff", "d9">>

VARIABLES
  input,      \* what the camera sends
  pos,        \* the bytes of it that were read
  buf,        \* buffer between reads, extractFrames' buf within
  scanned,    \* the bytes of buf that were searched for the end marker
  step,       \* in conn.Read, or in extractFrames' loop
  emitted,    \* the frames passed to emit
  resync,     \* ghost: where the stream was when a frame was last dropped
  before,     \* ghost: the number of frames emitted by then
  reads,      \* ghost: reads so far
  searched    \* ghost: bytes searched for the end marker so far

ghosts == <<resync, before, reads, searched>>
scanVars == <<input, pos, buf, scanned, step, emitted, ghosts>>

\* marker is in b at position i.
At(b, marker, i) ==
  i + Len(marker) - 1 <= Len(b) /\ SubSeq(b, i, i + Len(marker) - 1) = marker

\* i is where bytes.Index(b[from:], marker) finds it, or marker is in no such place.
Found(b, marker, from, i) ==
  i >= from /\ At(b, marker, i) /\ \A j \in from..(i - 1) : ~At(b, marker, j)

Missing(b, marker, from) == \A i \in from..Len(b) : ~At(b, marker, i)

\* Mutant: without the byte to back up by.
SearchFrom_Scanned(done) == Max({Len(jpegStart), done}) + 1

\* Where the search for the end begins when done bytes were searched; the end marker
\* may be split across reads.
SearchFrom(done) == Max({Len(jpegStart), done - Len(jpegEnd) + 1}) + 1

\* The bytes of the search that passes over all of b.
SearchCost(b, done) == IF SearchFrom(done) > Len(b) THEN 0 ELSE Len(b) + 1 - SearchFrom(done)

From(b, i) == SubSeq(b, i, Len(b))

-----------------------------------------------------------------------------
ScanInit ==
  /\ input \in Inputs
  /\ pos = 0
  /\ buf = <<>>
  /\ scanned = 0
  /\ step = "read"
  /\ emitted = <<>>
  /\ resync = 0 /\ before = 0 /\ reads = 0 /\ searched = 0

\* conn.Read returns n bytes, which are appended to the buffer.
ReadMore ==
  /\ step = "read"
  /\ \E n \in 1..ReadSize :
       /\ pos + n <= Len(input)
       /\ buf' = buf \o SubSeq(input, pos + 1, pos + n)
       /\ pos' = pos + n
  /\ step' = "scan"
  /\ reads' = reads + 1
  /\ UNCHANGED <<input, scanned, emitted, resync, before, searched>>

\* Mutant: nothing is kept, so a start marker that is split is lost.
NoStart_KeepsNothing ==
  /\ step = "scan"
  /\ Missing(buf, jpegStart, 1)
  /\ buf' = <<>>
  /\ scanned' = 0
  /\ step' = "read"
  /\ UNCHANGED <<input, pos, emitted, ghosts>>

\* No frame begins in buf: what could be the beginning of a start marker is kept.
NoStart ==
  /\ step = "scan"
  /\ Missing(buf, jpegStart, 1)
  /\ LET keep == Min({Len(buf), Len(jpegStart) - 1})
     IN  buf' = From(buf, Len(buf) - keep + 1)
  /\ scanned' = 0
  /\ step' = "read"
  /\ UNCHANGED <<input, pos, emitted, ghosts>>

\* The frame that begins at start: its bytes so far, and how many were searched.
Starts(start) == step = "scan" /\ Found(buf, jpegStart, 1, start)
Unfinished(start) == From(buf, start)
Done(start) == IF start > 1 THEN 0 ELSE scanned

NoEnd(start) ==
  Starts(start) /\ Missing(Unfinished(start), jpegEnd, SearchFrom(Done(start)))

\* Mutant: the unfinished frame is kept whatever its length.
Keep_Always(start) ==
  /\ NoEnd(start)
  /\ buf' = Unfinished(start)
  /\ scanned' = Len(buf')
  /\ searched' = searched + SearchCost(buf', Done(start))
  /\ step' = "read"
  /\ UNCHANGED <<input, pos, emitted, resync, before, reads>>

\* The frame has not ended yet: it is kept for the next read.
Keep(start) ==
  /\ NoEnd(start)
  /\ Len(Unfinished(start)) <= maxFrameSize
  /\ buf' = Unfinished(start)
  /\ scanned' = Len(buf')
  /\ searched' = searched + SearchCost(buf', Done(start))
  /\ step' = "read"
  /\ UNCHANGED <<input, pos, emitted, resync, before, reads>>

\* "no end in sight; drop it and resync on the next start marker".
Drop(start) ==
  /\ NoEnd(start)
  /\ Len(Unfinished(start)) > maxFrameSize
  /\ buf' = <<>>
  /\ scanned' = 0
  /\ searched' = searched + SearchCost(Unfinished(start), Done(start))
  /\ step' = "read"
  /\ resync' = pos
  /\ before' = Len(emitted)
  /\ UNCHANGED <<input, pos, emitted, reads>>

\* A frame is complete: it is emitted and the loop goes on with what follows.
Frame(start) ==
  /\ Starts(start)
  /\ \E end \in DOMAIN Unfinished(start) :
       LET total == end + Len(jpegEnd) - 1
       IN  /\ Found(Unfinished(start), jpegEnd, SearchFrom(Done(start)), end)
           /\ emitted' = Append(emitted, SubSeq(Unfinished(start), 1, total))
           /\ buf' = From(Unfinished(start), total + 1)
           /\ searched' = searched + total + 1 - SearchFrom(Done(start))
  /\ scanned' = 0
  /\ UNCHANGED <<input, pos, step, resync, before, reads>>

ScanNext ==
  \/ ReadMore
  \/ NoStart
  \/ \E start \in DOMAIN buf : Keep(start) \/ Drop(start) \/ Frame(start)

ScanSpec == ScanInit /\ [][ScanNext]_scanVars

-----------------------------------------------------------------------------
\* The types of the variables; buf[scanned:] is in range when the loop slices it.
ScanTypeOK ==
  /\ input \in Inputs
  /\ pos \in 0..Len(input)
  /\ buf \in Seq(Byte)
  /\ scanned \in 0..Len(buf)
  /\ step \in {"read", "scan"}
  /\ emitted \in Seq(Seq(Byte))
  /\ resync \in 0..pos
  /\ before \in 0..Len(emitted)
  /\ reads \in Nat
  /\ searched \in Nat

\* The frames of a whole stream: from the first start marker to the first end marker
\* behind it, and so on with the rest.
FramesFrom(s, later, p) ==
  LET starts == {i \in p..Len(s) : At(s, jpegStart, i)}
      ends == {i \in (Min(starts) + Len(jpegStart))..Len(s) : At(s, jpegEnd, i)}
      last == Min(ends) + Len(jpegEnd) - 1
  IN  IF starts = {} \/ ends = {} THEN <<>>
      ELSE <<SubSeq(s, Min(starts), last)>> \o later[last + 1]

Framing(s) ==
  LET frames[p \in 1..(Len(s) + 1)] == FramesFrom(s, frames, p)
  IN  frames

FramesOf(s) == Framing(s)[1]

\* However the stream is cut into reads, the frames emitted since the last drop are
\* the frames of the stream since then: none lost at a marker that is split, none
\* twice (extractFrames' partial start marker and its byte of back-up).
FramesFollowTheStream ==
  step = "read" =>
    SubSeq(emitted, before + 1, Len(emitted)) = FramesOf(SubSeq(input, resync + 1, pos))

\* Every emitted frame is one frame: it begins with the start marker and ends with the
\* first end marker behind it, although extractFrames never searches a byte again.
FramesAreWhole ==
  \A k \in DOMAIN emitted :
    /\ At(emitted[k], jpegStart, 1)
    /\ Found(emitted[k], jpegEnd, Len(jpegStart) + 1, Len(emitted[k]) - Len(jpegEnd) + 1)

\* "a stream that never completes a frame can't grow memory without limit".
BufferIsBounded ==
  Len(buf) <= IF step = "read" THEN maxFrameSize ELSE maxFrameSize + ReadSize

\* "each byte is searched about once instead of on every read": once, and one more
\* byte for every read.
SearchedOnce == searched <= pos + reads

=============================================================================
