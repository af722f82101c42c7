------------------------------ MODULE Bitstream ------------------------------
(***************************************************************************)
(* The H.264 byte and bit streams of drift-video, as operators: Annex-B    *)
(* and AVCC framing (annexb.rs), emulation prevention, Exp-Golomb codes,   *)
(* and the sequence parameter set with its colour signalling (sps.rs).     *)
(* Bytes are 0 .. 255; bits are sequences of 0 and 1.                      *)
(***************************************************************************)
EXTENDS Integers, Sequences, SequencesExt

-----------------------------------------------------------------------------
(* Annex-B and AVCC.                                                        *)

Zeros(n) == [i \in 1 .. n |-> 0]
StartsAt(data, i) == i + 2 <= Len(data) /\ data[i] = 0 /\ data[i + 1] = 0 /\ data[i + 2] = 1

\* Without trailing zero bytes.
Stripped(nal) ==
  LET used == {i \in DOMAIN nal : nal[i] # 0}
  IN  IF used = {} THEN << >> ELSE SubSeq(nal, 1, Max(used))

\* The NAL units between start codes; the zero of a four-byte start code and
\* trailing zeros belong to none.  (Start codes cannot overlap.)
split_nals(data) ==
  LET starts == SetToSortSeq({i \in DOMAIN data : StartsAt(data, i)}, <)
      nal(k) == Stripped(SubSeq(data, starts[k] + 3, IF k < Len(starts) THEN starts[k + 1] - 1 ELSE Len(data)))
  IN  SelectSeq([k \in DOMAIN starts |-> nal(k)], LAMBDA n : n # << >>)

\* A NAL unit behind its length (one byte here: 1 to 4 in the code).
LengthPrefixed(nal) == <<Len(nal)>> \o nal

\* The NAL units of an AVCC sample; `ok` is FALSE when a length runs past the end.
avcc_nals(avcc) ==
  LET step(s, byte) ==
        IF s.left > 0
        THEN [left |-> s.left - 1, nal |-> Append(s.nal, byte),
              nals |-> IF s.left = 1 THEN Append(s.nals, Append(s.nal, byte)) ELSE s.nals]
        ELSE [left |-> byte, nal |-> << >>, nals |-> IF byte = 0 THEN Append(s.nals, << >>) ELSE s.nals]
      end == FoldLeft(step, [left |-> 0, nal |-> << >>, nals |-> << >>], avcc)
  IN  [ok |-> end.left = 0, nals |-> end.nals]

avcc_to_annex_b(avcc) == FlattenSeq([k \in DOMAIN avcc_nals(avcc).nals |-> <<0, 0, 0, 1>> \o avcc_nals(avcc).nals[k]])

-----------------------------------------------------------------------------
(* Emulation prevention.                                                    *)

unescape(ebsp) ==
  LET step(s, b) ==
        IF s.zeros >= 2 /\ b = 3 THEN [s EXCEPT !.zeros = 0]
        ELSE [zeros |-> IF b = 0 THEN s.zeros + 1 ELSE 0, out |-> Append(s.out, b)]
  IN  FoldLeft(step, [zeros |-> 0, out |-> << >>], ebsp).out

escape(rbsp) ==
  LET step(s, b) ==
        IF s.zeros >= 2 /\ b <= 3
        THEN [zeros |-> IF b = 0 THEN 1 ELSE 0, out |-> s.out \o <<3, b>>]
        ELSE [zeros |-> IF b = 0 THEN s.zeros + 1 ELSE 0, out |-> Append(s.out, b)]
  IN  FoldLeft(step, [zeros |-> 0, out |-> << >>], rbsp).out

-----------------------------------------------------------------------------
(* Reading bits.  A reader is [bits, pos, ok, value, seen]: the last value    *)
(* read, and by name those to be used later.  After a failure every further  *)
(* read fails.                                                              *)

At(bits, pos) == [bits |-> bits, pos |-> pos, ok |-> TRUE, value |-> 0, seen |-> << >>]
\* The one element of a set; The({next(q) : q \in {r}}) is the step that follows r.
The(S) == CHOOSE x \in S : TRUE
Rest(r) == SubSeq(r.bits, r.pos + 1, Len(r.bits))
Number(bits) == LET v[i \in 0 .. Len(bits)] == IF i = 0 THEN 0 ELSE 2 * v[i - 1] + bits[i] IN v[Len(bits)]

ReadBits(r, n) ==
  IF ~r.ok \/ r.pos + n > Len(r.bits) THEN [r EXCEPT !.ok = FALSE]
  ELSE [r EXCEPT !.pos = @ + n, !.value = Number(SubSeq(r.bits, r.pos + 1, r.pos + n))]

\* An Exp-Golomb code of at most `max` (ue_max).
ReadUe(r, max) ==
  LET ones == {i \in DOMAIN Rest(r) : Rest(r)[i] = 1}
      zeros == Min(ones) - 1
      suffix == ReadBits([r EXCEPT !.pos = @ + zeros + 1], zeros)
      v == 2 ^ zeros - 1 + (IF zeros = 0 THEN 0 ELSE suffix.value)
  IN  IF ~r.ok \/ ones = {} \/ zeros > 31 \/ ~suffix.ok \/ v > max THEN [r EXCEPT !.ok = FALSE]
      ELSE [suffix EXCEPT !.value = v]

\* Named fields one after the other: u of that many bits, ue of at most that value.
u(name, n) == [kind |-> "u", name |-> name, size |-> n]
ue(name, max) == [kind |-> "ue", name |-> name, size |-> max]
ReadField(r, f) ==
  LET kept(q) == [q EXCEPT !.seen = (f.name :> q.value) @@ @]
  IN  The({kept(q) : q \in {IF f.kind = "u" THEN ReadBits(r, f.size) ELSE ReadUe(r, f.size)}})
ReadFields(r, fields) ==
  LET read[k \in 0 .. Len(fields)] == IF k = 0 THEN r ELSE ReadField(read[k - 1], fields[k]) IN read[Len(fields)]

AnyUe == 2147483647   \* ue and se: no maximum of their own
HIGH_PROFILES == {100, 110, 122, 244, 44, 83, 86, 118, 128, 138, 139, 134}
EXTENDED_SAR == 255

Signed(k) == IF k % 2 = 1 THEN (k + 1) \div 2 ELSE -(k \div 2)

\* A scaling list: deltas until the next scale is zero.
skip_scaling_list(r, size) ==
  LET scale(last, q) == (last + Signed(q.value)) % 256
      step(s, q) == [reader |-> q, next |-> scale(s.last, q), last |-> IF scale(s.last, q) # 0 THEN scale(s.last, q) ELSE s.last]
      after(s) == IF s.next = 0 THEN s ELSE The({step(s, q) : q \in {ReadUe(s.reader, AnyUe)}})
      list[i \in 0 .. size] == IF i = 0 THEN [reader |-> r, last |-> 8, next |-> 8] ELSE after(list[i - 1])
  IN  list[size].reader

\* The fields only the High profiles carry: chroma format, bit depths, scaling lists.
ScalingLists(r) ==
  LET skipped(q, i) == IF q.value = 1 THEN skip_scaling_list(q, IF i <= 6 THEN 16 ELSE 64) ELSE q
      lists[i \in 0 .. 12] == IF i = 0 THEN r ELSE The({skipped(q, i) : q \in {ReadBits(lists[i - 1], 1)}})
  IN  IF r.seen.matrix = 0 THEN r ELSE lists[IF r.seen.chroma = 3 THEN 12 ELSE 8]
HighFields(r) ==
  LET plane(q) == IF q.value = 3 THEN ReadBits(q, 1) ELSE q
      depths(q) == ReadFields(plane(q), <<ue("luma", 6), ue("depth", 6), u("bypass", 1), u("matrix", 1)>>)
  IN  IF r.seen.profile \notin HIGH_PROFILES THEN [r EXCEPT !.seen = ("chroma" :> 1) @@ @]
      ELSE The({ScalingLists(q) : q \in {depths(c) : c \in {ReadFields(r, <<ue("chroma", 3)>>)}}})

\* What the order of pictures needs, by its kind, the value just read.
OrderFields(r) ==
  LET fields == <<u("zero", 1), ue("non_ref", AnyUe), ue("field", AnyUe), ue("cycle", 255)>>
      offsets(q) == ReadFields(q, [i \in 1 .. q.value |-> ue("offset", AnyUe)])
  IN  CASE r.value = 0 -> ReadUe(r, 12)
        [] r.value = 1 -> The({offsets(q) : q \in {ReadFields(r, fields)}})
        [] OTHER -> r

\* Macroblocks, cropping, and the VUI flag.
SizeFields(r) ==
  LET field(q) == IF q.value = 0 THEN ReadBits(q, 1) ELSE q
      crop(q) == IF q.value = 1
                 THEN ReadFields(q, <<ue("left", AnyUe), ue("right", AnyUe), ue("top", AnyUe), ue("bottom", AnyUe)>>)
                 ELSE q
      size(q) == ReadFields(q, <<ue("refs", AnyUe), u("gaps", 1), ue("width", AnyUe), ue("height", AnyUe), u("only", 1)>>)
      flags(q) == ReadFields(q, <<u("inference", 1), u("cropping", 1)>>)
      cropped == The({crop(q) : q \in {flags(field(t)) : t \in {size(r)}}})
  IN  ReadFields(cropped, <<u("vui", 1)>>)

\* Width and height after cropping, and where the VUI flag is.
Header(r) ==
  LET s == r.seen
      field == IF s.only = 1 THEN 1 ELSE 2
      cutX == IF s.cropping = 1 THEN (s.left + s.right) * (IF s.chroma \in {1, 2} THEN 2 ELSE 1) ELSE 0
      cutY == IF s.cropping = 1 THEN (s.top + s.bottom) * (IF s.chroma = 1 THEN 2 * field ELSE field) ELSE 0
      fullX == 16 * (s.width + 1)
      fullY == 16 * field * (s.height + 1)
  IN  [ok |-> r.ok /\ cutX <= fullX /\ cutY <= fullY, profile |-> s.profile, level |-> s.level,
       width |-> fullX - cutX, height |-> fullY - cutY, vui_flag_pos |-> r.pos - 1, vui_present |-> s.vui = 1]

parse_header(bits) ==
  LET start == ReadFields(At(bits, 0), <<u("profile", 8), u("constraints", 8), u("level", 8), ue("id", 31)>>)
      high == {ReadFields(HighFields(r), <<ue("frame_num", 12), ue("order", 2)>>) : r \in {start}}
  IN  The({Header(q) : q \in {SizeFields(OrderFields(r)) : r \in high}})

\* The reader behind the aspect ratio and the overscan flag.
skip_aspect_and_overscan(r) ==
  LET sar(q) == IF q.value = EXTENDED_SAR THEN ReadFields(q, <<u("sar_width", 16), u("sar_height", 16)>>) ELSE q
      aspect(q) == IF q.value = 1 THEN The({sar(a) : a \in {ReadBits(q, 8)}}) ELSE q
      overscan(q) == IF q.value = 1 THEN ReadBits(q, 1) ELSE q
  IN  The({overscan(o) : o \in {ReadBits(aspect(q), 1) : q \in {ReadBits(r, 1)}}})

\* The colour signalling that follows: what of it is present is in `seen`.
read_signal_type(r) ==
  LET colour(q) == IF q.value = 1 THEN ReadFields(q, <<u("primaries", 16), u("matrix", 8)>>) ELSE q
      signal(q) == IF q.value = 1 THEN The({colour(c) : c \in {ReadFields(q, <<u("format", 3), u("full", 1), u("colour", 1)>>)}}) ELSE q
  IN  The({signal(q) : q \in {ReadBits(r, 1)}})

stop_bit_position(bits) == Max({i \in DOMAIN bits : bits[i] = 1}) - 1

Bits(v, n) == [i \in 1 .. n |-> (v \div 2 ^ (n - i)) % 2]
Bt709FullRange == <<1>> \o Bits(5, 3) \o <<1, 1>> \o Bits(1, 8) \o Bits(1, 8) \o Bits(1, 8)
trailing_bits(bits) == LET w == Append(bits, 1) IN w \o Zeros((8 - (Len(w) % 8)) % 8)

\* The SPS (its bits without emulation prevention) with BT.709 full range in
\* its VUI: everything before and behind the colour signalling is copied.
with_bt709_full_range(bits) ==
  LET copied(aspect) == SubSeq(bits, 1, aspect.pos) \o Bt709FullRange
        \o SubSeq(bits, read_signal_type(aspect).pos + 1, stop_bit_position(bits))
      rewritten(h) == IF h.vui_present THEN The({copied(a) : a \in {skip_aspect_and_overscan(At(bits, h.vui_flag_pos + 1))}})
                      ELSE SubSeq(bits, 1, h.vui_flag_pos) \o <<1, 0, 0>> \o Bt709FullRange \o Zeros(6)
  IN  The({trailing_bits(w) : w \in {rewritten(h) : h \in {parse_header(bits)}}})

\* What parse reports of an SPS.
SpsInfo(bits) ==
  LET signal(h) == IF h.vui_present THEN read_signal_type(skip_aspect_and_overscan(At(bits, h.vui_flag_pos + 1))).seen
                   ELSE << >>
      info(h, seen) == [ok |-> h.ok, profile |-> h.profile, level |-> h.level, width |-> h.width, height |-> h.height,
        full_range |-> IF "full" \notin DOMAIN seen THEN "unset" ELSE IF seen.full = 1 THEN "yes" ELSE "no",
        matrix |-> IF "matrix" \in DOMAIN seen THEN seen.matrix ELSE 0]
  IN  The(UNION {{info(h, seen) : seen \in {signal(h)}} : h \in {parse_header(bits)}})
=============================================================================
