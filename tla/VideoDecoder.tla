----------------------------- MODULE VideoDecoder -----------------------------
(***************************************************************************)
(* AVC420 decoding: VtDecoder with its tracker of parameter sets and its   *)
(* VideoToolbox session, driven by access units in stream order.  `sample`  *)
(* ranges over byte streams and sequence parameter sets for the operators  *)
(* of Bitstream, one per initial state.                                    *)
(***************************************************************************)
EXTENDS Bitstream

CONSTANTS
  SpsSets, PpsSets,  \* parameter sets
  Payloads,          \* raw payloads of NAL units, as sequences of bytes
  SpsFields,         \* the fields of the sequence parameter sets to parse
  MaxUnits,          \* bound: access units
  None               \* no parameter set

ASSUME VideoAssumption == None \notin SpsSets \cup PpsSets /\ MaxUnits \in Nat

VARIABLES
  tracker,  \* ParameterSetTracker: the active pair
  session,  \* the pair VideoToolbox was built with, or None
  stream,   \* what the server has in force: the last SPS and PPS it sent
  picture,  \* the last decoded picture: the pair it was decoded with and needed
  units,    \* access units so far
  sample    \* the input of the pure checks

videoVars == <<tracker, session, stream, picture, units, sample>>

NoPair == [sps |-> None, pps |-> None]

\* The parts of a sequence parameter set, and its bits.
Ue(v) == LET n == CHOOSE k \in 0 .. 12 : 2 ^ k <= v + 1 /\ v + 1 < 2 ^ (k + 1) IN Zeros(n) \o Bits(v + 1, n + 1)
Flag(b) == IF b THEN <<1>> ELSE <<0>>
SpsBits(f) ==
  trailing_bits(
    Bits(f.profile, 8) \o Bits(0, 8) \o Bits(40, 8) \o Ue(0)
    \o (IF f.profile \in HIGH_PROFILES
        THEN Ue(f.chroma) \o (IF f.chroma = 3 THEN <<0>> ELSE << >>) \o Ue(0) \o Ue(0) \o <<0>>
             \o (IF f.scaling THEN <<1, 1>> \o Ue(2) \o Ue(14) \o Zeros(IF f.chroma = 3 THEN 11 ELSE 7) ELSE <<0>>)
        ELSE << >>)
    \o Ue(0) \o Ue(f.order)
    \o (CASE f.order = 0 -> Ue(4) [] f.order = 1 -> <<0>> \o Ue(1) \o Ue(2) \o Ue(1) \o Ue(3) [] OTHER -> << >>)
    \o Ue(1) \o <<0>> \o Ue(f.mbs - 1) \o Ue(f.mbs) \o Flag(f.frames) \o (IF f.frames THEN << >> ELSE <<0>>) \o <<1>>
    \o (IF f.crop = 0 THEN <<0>> ELSE <<1>> \o Ue(0) \o Ue(f.crop) \o Ue(0) \o Ue(f.crop))
    \o (IF f.vui = "none" THEN <<0>>
        ELSE <<1>> \o (CASE f.vui = "plain" -> <<0, 0>>
                         [] f.vui = "aspect" -> <<1>> \o Bits(1, 8) \o <<1, 1>>
                         [] OTHER -> <<1>> \o Bits(255, 8) \o Bits(4, 16) \o Bits(3, 16) \o <<0>>)
             \o (CASE f.signal = "none" -> <<0>>
                   [] f.signal = "range" -> <<1>> \o Bits(5, 3) \o <<0, 0>>
                   [] OTHER -> <<1>> \o Bits(5, 3) \o <<0, 1>> \o Bits(6, 8) \o Bits(6, 8) \o Bits(6, 8))
             \o f.rest))

VideoInit ==
  /\ tracker = NoPair /\ session = NoPair /\ stream = NoPair
  /\ picture = [with |-> NoPair, needed |-> NoPair]
  /\ units = 0
  /\ sample \in [kind : {"stream"}]
               \cup [kind : {"nals"}, nals : Payloads \X Payloads, long : BOOLEAN]
               \cup {[kind |-> "sps", fields |-> f, bits |-> SpsBits(f)] : f \in SpsFields}

-----------------------------------------------------------------------------
\* The pair in force after an access unit with these sets: its own, else the old.
Latest(pair, unit) ==
  [sps |-> IF unit.sps = None THEN pair.sps ELSE unit.sps, pps |-> IF unit.pps = None THEN pair.pps ELSE unit.pps]
Complete(pair) == pair.sps # None /\ pair.pps # None

\* Mutant: only a new SPS rebuilds the session.
Bugobserve(unit) ==
  LET next == Latest(tracker, unit) IN
  IF ~Complete(next) THEN "NotReady" ELSE IF next.sps = tracker.sps THEN "Keep" ELSE "Rebuild"

\* ParameterSetTracker::observe.  An SPS without a PPS is not remembered.
observe(unit) ==
  LET next == Latest(tracker, unit) IN
  IF ~Complete(next) THEN "NotReady" ELSE IF next = tracker THEN "Keep" ELSE "Rebuild"

\* rebuild: a session for this pair; when it cannot be built, the pair is
\* forgotten, so that the next one is tried afresh.
Rebuild(pair, builds) ==
  IF builds THEN tracker' = pair /\ session' = pair ELSE tracker' = NoPair /\ session' = NoPair

\* decode_picture: an access unit with its parameter sets and maybe a picture.
Decode(unit, builds) ==
  /\ sample.kind = "stream" /\ units < MaxUnits
  /\ units' = units + 1
  /\ stream' = Latest(stream, unit)
  /\ CASE observe(unit) = "NotReady" -> UNCHANGED <<tracker, session>>
       [] observe(unit) = "Keep" ->
            IF session = NoPair THEN Rebuild(tracker, builds) ELSE UNCHANGED <<tracker, session>>
       [] observe(unit) = "Rebuild" -> Rebuild(Latest(tracker, unit), builds)
  /\ picture' = IF unit.coded /\ observe(unit) # "NotReady" /\ session' # NoPair
              THEN [with |-> session', needed |-> stream']
              ELSE picture
  /\ UNCHANGED sample

\* reset: ResetGraphics begins a new stream.
ResetDecoder ==
  /\ sample.kind = "stream" /\ units < MaxUnits
  /\ units' = units + 1
  /\ tracker' = NoPair /\ session' = NoPair /\ stream' = NoPair
  /\ UNCHANGED <<picture, sample>>

VideoNext ==
  \/ \E unit \in [sps : SpsSets \cup {None}, pps : PpsSets \cup {None}, coded : BOOLEAN], builds \in BOOLEAN :
       Decode(unit, builds)
  \/ ResetDecoder

VideoSpec == VideoInit /\ [][VideoNext]_videoVars

-----------------------------------------------------------------------------
\* A picture is decoded with the parameter sets the server has in force, or not
\* at all: a session built from others never sees it (decode.rs, params.rs).
DecodedWithCurrentSets == picture.with = picture.needed

\* The session belongs to the active pair: the retry of decode_picture for an
\* active pair without a session is never needed.
SessionMatchesActive == session = tracker

\* NAL units framed with start codes of either length come back whole: escaping
\* leaves no start code inside one, and AVCC keeps them apart (annexb.rs).
FramingRoundTrips ==
  sample.kind = "nals" =>
    LET code == IF sample.long THEN <<0, 0, 0, 1>> ELSE <<0, 0, 1>>
        \* a NAL unit ends with the stop bit's byte, never with zero
        nals == [k \in 1 .. 2 |-> <<101>> \o escape(sample.nals[k] \o <<128>>)]
        avcc == FlattenSeq([k \in 1 .. 2 |-> LengthPrefixed(nals[k])])
    IN  /\ split_nals(FlattenSeq([k \in 1 .. 2 |-> code \o nals[k]])) = nals
        /\ split_nals(avcc_to_annex_b(avcc)) = nals
        /\ \A k \in 1 .. 2 : unescape(Tail(nals[k])) = sample.nals[k] \o <<128>>

\* A parameter set is read as it was written, whatever optional parts it has; the
\* rewritten one signals BT.709 full range and is otherwise the same, what
\* follows the colour signalling included; rewriting it again changes nothing
\* (sps.rs).
ColourIsRewritten ==
  sample.kind = "sps" =>
    LET f == sample.fields
        sampling == IF f.profile \notin HIGH_PROFILES \/ f.chroma = 1 THEN 2 ELSE 1
        field == IF f.frames THEN 1 ELSE 2
        info(bits, new) ==
          [ok |-> TRUE, profile |-> f.profile, level |-> 40, width |-> 16 * f.mbs - f.crop * sampling,
           height |-> field * (16 * (f.mbs + 1) - f.crop * sampling),
           full_range |-> IF bits = new THEN "yes" ELSE IF f.vui = "none" \/ f.signal = "none" THEN "unset" ELSE "no",
           matrix |-> IF bits = new THEN 1 ELSE IF f.vui = "none" \/ f.signal # "colour" THEN 0 ELSE 6]
    IN  \A new \in {with_bt709_full_range(sample.bits)} :
          LET end == stop_bit_position(new) IN
          /\ \A bits \in {sample.bits, new} : SpsInfo(bits) = info(bits, new)
          /\ with_bt709_full_range(new) = new
          /\ f.vui # "none" => SubSeq(new, end - Len(f.rest) + 1, end) = f.rest

\* The decoder sees every picture with the parameter sets the server has in
\* force, and the bytes the server sent in another framing and with other colour
\* signalling, nothing else changed (decode.rs, params.rs, annexb.rs, sps.rs).
VideoIsFaithful == DecodedWithCurrentSets /\ FramingRoundTrips /\ ColourIsRewritten
=============================================================================
