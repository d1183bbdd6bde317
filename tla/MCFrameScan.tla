---------------------------- MODULE MCFrameScan ----------------------------
(* Small instances of FrameScan: streams that are put together from markers, *)
(* parts of markers and other bytes.                                         *)
EXTENDS FrameScan, SequencesExt

Pieces == {jpegStart, jpegEnd, <<"ff">>, <<"ff", "d8">>, <<"d9">>, <<"00">>}

\* Any three pieces behind the beginning of a frame, which may already be too long
\* to be kept, and an end marker.
MCInputs ==
  {begin \o FlattenSeq(p) \o jpegEnd :
     begin \in {jpegStart, jpegStart \o jpegStart \o <<"ff", "d8">>},
     p \in [1..3 -> Pieces]}

=============================================================================
