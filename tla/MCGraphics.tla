------------------------------ MODULE MCGraphics ------------------------------
(***************************************************************************)
(* The graphics pipeline: the pictures' bit stream (VideoDecoder) and the  *)
(* progressive tiles (Progressive), their way over the render thread to    *)
(* the screen (Compositing) and into a film (Recording).  They share no    *)
(* state here, so one of them moves in a behaviour and the others rest.    *)
(***************************************************************************)
EXTENDS Compositing, Recording, VideoDecoder, Progressive

CONSTANTS s1, s2, q1, q2   \* model values: parameter sets

VARIABLE part   \* the component that moves

\* Rectangles two wide that overlap, and an empty one.
MCStrips == {[x |-> 0, width |-> 2], [x |-> 1, width |-> 2], [x |-> 0, width |-> 0]}

\* Every short payload of the bytes that matter to framing, and some longer ones.
MCPayloads == UNION {[1 .. n -> {0, 1, 3}] : n \in 0 .. 3}
              \cup {<<0, 0, 0, 0>>, <<0, 0, 3, 4>>, <<0, 0, 0, 3>>, <<0, 0, 4>>, <<0, 0, 0, 1>>}

\* Baseline and High profile with each optional part of a sequence parameter set.
MCFields == [profile : {66, 100}, chroma : {1, 3}, scaling : BOOLEAN, order : 0 .. 2, mbs : {2, 5},
             frames : BOOLEAN, crop : {0, 3}, vui : {"none", "plain", "aspect", "extended"},
             signal : {"none", "range", "colour"}, rest : {<<0, 1, 0>>}]

\* Progressive payloads: tiles repeated in a REGION, differences with and without
\* a reference, upgrades before a first pass, REGIONs outside the first frame,
\* over tiles of earlier payloads, and payloads that are refused.
First(t, difference) == [type |-> "first", tile |-> t, difference |-> difference, quality |-> 255, quant |-> 0, data |-> "first"]
Upgrade(t) == [type |-> "upgrade", tile |-> t, difference |-> FALSE, quality |-> 0, quant |-> 0, data |-> "more"]
Region(tiles, rects) == [kind |-> "region", tiles |-> tiles, rects |-> rects, qualities |-> 1, quants |-> 1]
Whole == {[x |-> 0, width |-> 9]}
Middle == {[x |-> 1, width |-> 1], [x |-> 2, width |-> 1]}
BandLayout(extrapolate) == [kind |-> "context", extrapolate |-> extrapolate]
Begin == [kind |-> "begin"]
End == [kind |-> "end"]
MCStreams ==
  {<<BandLayout(TRUE), Begin, Region(<<First(0, FALSE), Upgrade(0), First(1, FALSE)>>, Whole), End>>,
   <<BandLayout(FALSE), Begin, Region(<<First(0, FALSE)>>, Middle), Region(<<Upgrade(0)>>, Whole), End>>,
   <<Begin, Region(<<Upgrade(0), First(1, TRUE), First(0, TRUE), Upgrade(0)>>, Middle), End>>,
   <<Begin, Region(<<Upgrade(1), Upgrade(1)>>, Whole), End, Begin, Region(<<First(0, FALSE)>>, Whole), End>>,
   <<Region(<<First(1, FALSE)>>, Whole), Begin, Region(<<>>, Middle), End>>,
   <<Begin, Region(<<First(0, FALSE), First(2, FALSE)>>, Whole), End>>,
   <<Begin, Region(<<[First(1, FALSE) EXCEPT !.data = "corrupt"], Upgrade(0)>>, Whole), End>>,
   <<Begin, Region(<<[Upgrade(0) EXCEPT !.quality = 1]>>, Whole), End>>}

-----------------------------------------------------------------------------
\* One state of each component to rest in.
ScreenRest == GfxInit /\ reference = CHOOSE r \in {Start(i, n) : i \in Surfaces, n \in Sizes} : TRUE
FilmRest == RecordingInit /\ desktop.size = CHOOSE n \in OutputSizes : TRUE
VideoRest == VideoInit /\ sample.kind = "stream"

MCInit ==
  \/ part = "screen" /\ GfxInit /\ FilmRest /\ VideoRest /\ ProgressiveInit
  \/ part = "film" /\ ScreenRest /\ RecordingInit /\ VideoRest /\ ProgressiveInit
  \/ part = "stream" /\ ScreenRest /\ FilmRest /\ VideoInit /\ ProgressiveInit
  \/ part = "tiles" /\ ScreenRest /\ FilmRest /\ VideoRest /\ ProgressiveInit

MCNext ==
  /\ UNCHANGED part
  /\ \/ part = "screen" /\ GfxNext /\ UNCHANGED <<recordingVars, videoVars, progressiveVars>>
     \/ part = "film" /\ RecordingNext /\ UNCHANGED <<gfxVars, videoVars, progressiveVars>>
     \/ part = "stream" /\ VideoNext /\ UNCHANGED <<gfxVars, recordingVars, progressiveVars>>
     \/ part = "tiles" /\ ProgressiveNext /\ UNCHANGED <<gfxVars, recordingVars, videoVars>>

MCSpec ==
  /\ MCInit
  /\ [][MCNext]_<<part, gfxVars, recordingVars, videoVars, progressiveVars>>
  /\ part = "film" => RecordingFairness
=============================================================================
