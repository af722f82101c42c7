----------------------------- MODULE GraphicsProofs -----------------------------
(* Theorems about what becomes of the pictures, for every constant.  Recording:
   the film is what the counters and events say it is, although four threads hand
   a frame on and any of them may stop first.  Compositing: the screen shows what
   the server had ended, although the GPU reads decoded pictures later, from
   buffers that the decoder reuses. *)
EXTENDS Recording, Compositing, VideoDecoder, Integers, FiniteSetTheorems, TLAPS

\* Frames before and after the encoder stamped them; only their order matters.
Film == [id : Nat, size : OutputSizes, pool : Nat, film : Nat]
          \cup [id : Nat, size : OutputSizes, pool : Nat, film : Nat, pts : Int]

RecordingTypes ==
  /\ recorder \in [on : BOOLEAN, pool : Nat, size : OutputSizes \cup {0}]
  /\ desktop \in [size : OutputSizes, frames : Nat]
  /\ copies \in Seq(Film) /\ channel \in Seq(Film)
  /\ thread \in {"None", "Running", "Done"}
  /\ encoder \in [on : BOOLEAN, size : OutputSizes, origin : Nat, inside : Seq(Film)]
  /\ writer \in [state : {"Idle", "Recording"}, samples : Seq(Film), stopped : Nat]
  /\ recordings \in Nat
  /\ capture \in [captured : Nat, dropped : Nat, offered : Nat]

Rising(s) == \A i, j \in DOMAIN s : i < j => s[i].id < s[j].id
Before(s, t) == \A i \in DOMAIN s, j \in DOMAIN t : s[i].id < t[j].id
UpTo(s, n) == \A i \in DOMAIN s : s[i].id <= n

(* From the file through encoder and channel to the GPU, frames get younger. *)
OrderInv ==
  /\ Rising(writer.samples) /\ Rising(encoder.inside) /\ Rising(channel) /\ Rising(copies)
  /\ Before(writer.samples, encoder.inside) /\ Before(writer.samples, channel)
  /\ Before(writer.samples, copies)
  /\ Before(encoder.inside, channel) /\ Before(encoder.inside, copies)
  /\ Before(channel, copies)
  /\ UpTo(writer.samples, desktop.frames) /\ UpTo(encoder.inside, desktop.frames)
  /\ UpTo(channel, desktop.frames) /\ UpTo(copies, desktop.frames)

(* The writer records exactly while the recording thread runs. *)
StopInv ==
  /\ thread = "None" => writer = NoWriter
  /\ thread = "Running" => writer.state = "Recording" /\ writer.stopped = 0
  /\ thread = "Done" => writer = NoWriter \/ (writer.state = "Idle" /\ writer.stopped = 1)

FilmInv == RecordingTypes /\ CaptureAccounted /\ OrderInv /\ StopInv
-----------------------------------------------------------------------------
(* Sequences of frames in the order of their ids.                            *)

LEMMA EmptyFilm ==
  /\ << >> \in Seq(Film) /\ Rising(<< >>)
  /\ \A s : Before(<< >>, s) /\ Before(s, << >>)
  /\ \A n : UpTo(<< >>, n)
BY DEF Rising, Before, UpTo

LEMMA Ids == ASSUME NEW s \in Seq(Film) PROVE \A i \in DOMAIN s : s[i] \in Film /\ s[i].id \in Nat
<1>1. \A f \in Film : f.id \in Nat BY DEF Film
<1> QED BY <1>1

\* Added at the end.
LEMMA Added ==
  ASSUME NEW s \in Seq(Film), NEW f \in Film, Rising(s), \A i \in DOMAIN s : s[i].id < f.id
  PROVE  /\ Append(s, f) \in Seq(Film) /\ Rising(Append(s, f))
         /\ \A z : Before(z, s) /\ (\A i \in DOMAIN z : z[i].id < f.id) => Before(z, Append(s, f))
         /\ \A z : Before(s, z) /\ (\A i \in DOMAIN z : f.id < z[i].id) => Before(Append(s, f), z)
         /\ \A n : UpTo(s, n) /\ f.id <= n => UpTo(Append(s, f), n)
<1> DEFINE t == Append(s, f)
<1>1. /\ t \in Seq(Film) /\ DOMAIN s = 1 .. Len(s) /\ DOMAIN t = 1 .. Len(s) + 1 /\ Len(s) \in Nat
      /\ \A i \in 1 .. Len(s) : t[i] = s[i]
      /\ t[Len(s) + 1] = f
  OBVIOUS
<1> HIDE DEF t
<1>2. Rising(t)
  <2> SUFFICES ASSUME NEW i \in DOMAIN t, NEW j \in DOMAIN t, i < j PROVE t[i].id < t[j].id
    BY DEF Rising
  <2>1. i \in 1 .. Len(s) BY <1>1
  <2>2. CASE j = Len(s) + 1 BY <1>1, <2>1, <2>2
  <2>3. CASE j # Len(s) + 1
    <3>1. j \in 1 .. Len(s) BY <1>1, <2>3
    <3> QED BY <1>1, <2>1, <3>1 DEF Rising
  <2> QED BY <2>2, <2>3
<1>3. \A i \in DOMAIN t : (i \in DOMAIN s /\ t[i] = s[i]) \/ t[i] = f BY <1>1
<1> QED BY <1>1, <1>2, <1>3 DEF t, Before, UpTo

\* The first one taken.
LEMMA Taken ==
  ASSUME NEW s \in Seq(Film), s # << >>, Rising(s)
  PROVE  /\ Head(s) \in Film /\ Tail(s) \in Seq(Film) /\ Rising(Tail(s))
         /\ Len(Tail(s)) = Len(s) - 1 /\ Len(s) \in Nat
         /\ \E i \in DOMAIN s : Head(s) = s[i]
         /\ \A i \in DOMAIN Tail(s) : Head(s).id < Tail(s)[i].id
         /\ \A i \in DOMAIN Tail(s) : \E j \in DOMAIN s : Tail(s)[i] = s[j]
<1> DEFINE t == Tail(s)
<1>1. /\ t \in Seq(Film) /\ DOMAIN s = 1 .. Len(s) /\ DOMAIN t = 1 .. Len(s) - 1 /\ Len(s) \in Nat
      /\ Len(t) = Len(s) - 1 /\ Len(s) # 0
      /\ \A i \in 1 .. Len(s) - 1 : t[i] = s[i + 1]
      /\ Head(s) = s[1] /\ Head(s) \in Film
  OBVIOUS
<1> HIDE DEF t
<1>2. Rising(t)
  <2> SUFFICES ASSUME NEW i \in DOMAIN t, NEW j \in DOMAIN t, i < j PROVE t[i].id < t[j].id
    BY DEF Rising
  <2>1. i + 1 \in DOMAIN s /\ j + 1 \in DOMAIN s /\ i + 1 < j + 1 BY <1>1
  <2> QED BY <1>1, <2>1 DEF Rising
<1>3. \A i \in DOMAIN t : s[1].id < t[i].id
  <2> TAKE i \in DOMAIN t
  <2>1. 1 \in DOMAIN s /\ i + 1 \in DOMAIN s /\ 1 < i + 1 BY <1>1
  <2> QED BY <1>1, <2>1 DEF Rising
<1>4. \A i \in DOMAIN t : \E j \in DOMAIN s : t[i] = s[j]
  <2> TAKE i \in DOMAIN t
  <2>1. i + 1 \in DOMAIN s /\ t[i] = s[i + 1] BY <1>1
  <2> QED BY <2>1
<1>5. \E i \in DOMAIN s : Head(s) = s[i] BY <1>1
<1> QED BY <1>1, <1>2, <1>3, <1>4, <1>5 DEF t

\* A stretch of a sequence, and one before another.
LEMMA Stretch ==
  ASSUME NEW s \in Seq(Film), NEW m \in 1 .. Len(s) + 1, NEW n \in 0 .. Len(s), m <= n + 1, Rising(s)
  PROVE  /\ SubSeq(s, m, n) \in Seq(Film) /\ Rising(SubSeq(s, m, n))
         /\ Len(SubSeq(s, m, n)) = n + 1 - m
         /\ DOMAIN SubSeq(s, m, n) = 1 .. n + 1 - m
         /\ \A i \in 1 .. n + 1 - m : SubSeq(s, m, n)[i] = s[m + i - 1] /\ m + i - 1 \in DOMAIN s
<1> DEFINE t == SubSeq(s, m, n)
<1>1. /\ Len(s) \in Nat /\ DOMAIN s = 1 .. Len(s) /\ m \in Nat /\ n \in Nat OBVIOUS
<1>2. \A i \in 1 .. n + 1 - m : m + i - 1 \in 1 .. Len(s) BY <1>1
<1>3. t = [i \in 1 .. n + 1 - m |-> s[m + i - 1]]
  <2>1. t = [i \in 1 .. (1 + n - m) |-> s[i + m - 1]] BY DEF SubSeq
  <2>2. 1 + n - m = n + 1 - m /\ \A i \in 1 .. n + 1 - m : i + m - 1 = m + i - 1 BY <1>1
  <2> QED BY <2>1, <2>2
<1>4. \A i \in 1 .. n + 1 - m : s[m + i - 1] \in Film BY <1>1, <1>2
<1>5. n + 1 - m \in Nat BY <1>1
<1>6. t \in [1 .. n + 1 - m -> Film] BY <1>3, <1>4
<1>7. t \in Seq(Film) /\ Len(t) = n + 1 - m
  <2> HIDE DEF t
  <2> QED BY <1>5, <1>6
<1>8. Rising(t)
  <2> SUFFICES ASSUME NEW i \in DOMAIN t, NEW j \in DOMAIN t, i < j PROVE t[i].id < t[j].id
    BY DEF Rising
  <2>1. /\ i \in 1 .. n + 1 - m /\ j \in 1 .. n + 1 - m
        /\ t[i] = s[m + i - 1] /\ t[j] = s[m + j - 1] BY <1>3
  <2> HIDE DEF t
  <2>2. m + i - 1 \in DOMAIN s /\ m + j - 1 \in DOMAIN s /\ m + i - 1 < m + j - 1
    BY <1>1, <1>2, <2>1
  <2> QED BY <2>1, <2>2 DEF Rising
<1>9. DOMAIN t = 1 .. n + 1 - m /\ \A i \in 1 .. n + 1 - m : t[i] = s[m + i - 1] BY <1>3
<1> HIDE DEF t
<1>10. \A i \in 1 .. n + 1 - m : t[i] = s[m + i - 1] /\ m + i - 1 \in DOMAIN s BY <1>1, <1>2, <1>9
<1> QED BY <1>7, <1>8, <1>9, <1>10 DEF t

\* Joined.
LEMMA Joined ==
  ASSUME NEW s \in Seq(Film), NEW t \in Seq(Film), Rising(s), Rising(t), Before(s, t)
  PROVE  /\ s \o t \in Seq(Film) /\ Rising(s \o t)
         /\ \A z : Before(s, z) /\ Before(t, z) => Before(s \o t, z)
         /\ \A n : UpTo(s, n) /\ UpTo(t, n) => UpTo(s \o t, n)
<1> DEFINE r == s \o t
<1>1. /\ r \in Seq(Film) /\ DOMAIN s = 1 .. Len(s) /\ DOMAIN t = 1 .. Len(t)
      /\ DOMAIN r = 1 .. Len(s) + Len(t) /\ Len(s) \in Nat /\ Len(t) \in Nat
      /\ \A i \in 1 .. Len(s) + Len(t) : r[i] = IF i <= Len(s) THEN s[i] ELSE t[i - Len(s)]
  OBVIOUS
<1> HIDE DEF r
<1>2. \A i \in DOMAIN r : \/ i \in DOMAIN s /\ r[i] = s[i]
                          \/ i - Len(s) \in DOMAIN t /\ r[i] = t[i - Len(s)] /\ i > Len(s)
  <2> TAKE i \in DOMAIN r
  <2>1. CASE i <= Len(s) BY <1>1, <2>1
  <2>2. CASE i > Len(s) BY <1>1, <2>2
  <2> QED BY <1>1, <2>1, <2>2
<1>3. Rising(r)
  <2> SUFFICES ASSUME NEW i \in DOMAIN r, NEW j \in DOMAIN r, i < j PROVE r[i].id < r[j].id
    BY DEF Rising
  <2>1. CASE i <= Len(s) /\ j <= Len(s) BY <1>1, <2>1 DEF Rising
  <2>2. CASE i <= Len(s) /\ j > Len(s)
    <3>1. j - Len(s) \in DOMAIN t /\ r[j] = t[j - Len(s)] /\ i \in DOMAIN s /\ r[i] = s[i]
      BY <1>1, <2>2
    <3> QED BY <3>1 DEF Before
  <2>3. CASE i > Len(s)
    <3>1. /\ j - Len(s) \in DOMAIN t /\ r[j] = t[j - Len(s)]
          /\ i - Len(s) \in DOMAIN t /\ r[i] = t[i - Len(s)] /\ i - Len(s) < j - Len(s)
      BY <1>1, <2>3
    <3> QED BY <3>1 DEF Rising
  <2> QED BY <1>1, <2>1, <2>2, <2>3
<1> QED BY <1>1, <1>2, <1>3 DEF r, Before, UpTo
LEMMA Among ==
  ASSUME NEW s, NEW t, \A i \in DOMAIN t : \E j \in DOMAIN s : t[i] = s[j]
  PROVE  /\ \A z : /\ Before(s, z) => Before(t, z)
                   /\ Before(z, s) => Before(z, t)
         /\ \A n : UpTo(s, n) => UpTo(t, n)
BY DEF Before, UpTo

LEMMA UpToMore ==
  ASSUME NEW s \in Seq(Film), NEW n \in Nat, UpTo(s, n)
  PROVE  UpTo(s, n + 1) /\ \A i \in DOMAIN s : s[i].id < n + 1
BY Ids DEF UpTo

\* What the file holds after an append that room may have cut short.
LEMMA Written ==
  ASSUME RecordingTypes, NEW frames \in Seq(Film), NEW room \in Nat,
         Rising(writer.samples), Rising(frames), Before(writer.samples, frames)
  PROVE  LET w == AppendSamples(frames, room)
         IN  /\ w \in [state : {"Idle", "Recording"}, samples : Seq(Film), stopped : Nat]
             /\ Rising(w.samples)
             /\ \A z : Before(writer.samples, z) /\ Before(frames, z) => Before(w.samples, z)
             /\ \A n : UpTo(writer.samples, n) /\ UpTo(frames, n) => UpTo(w.samples, n)
             /\ room >= Len(frames) => w.state = writer.state /\ w.stopped = writer.stopped
             /\ room < Len(frames) => w.state = "Idle" /\ w.stopped = writer.stopped + 1
<1> DEFINE s == writer.samples  w == AppendSamples(frames, room)
<1>0. /\ s \in Seq(Film) /\ writer.stopped \in Nat /\ writer.state \in {"Idle", "Recording"}
      /\ writer = [state |-> writer.state, samples |-> s, stopped |-> writer.stopped]
      /\ Len(frames) \in Nat /\ Rising(s) /\ Before(s, frames)
  BY DEF RecordingTypes
<1>1. CASE room >= Len(frames)
  <2>1. /\ w.samples = s \o frames /\ w.state = writer.state /\ w.stopped = writer.stopped
        /\ w = [state |-> writer.state, samples |-> s \o frames, stopped |-> writer.stopped]
    BY <1>0, <1>1 DEF AppendSamples
  <2> HIDE DEF w, s
  <2>2. /\ s \o frames \in Seq(Film) /\ Rising(s \o frames)
        /\ \A z : Before(s, z) /\ Before(frames, z) => Before(s \o frames, z)
        /\ \A n : UpTo(s, n) /\ UpTo(frames, n) => UpTo(s \o frames, n)
    BY <1>0, Joined DEF s
  <2>3. w \in [state : {"Idle", "Recording"}, samples : Seq(Film), stopped : Nat]
    BY <1>0, <2>1, <2>2
  <2> QED BY <1>0, <1>1, <2>1, <2>2, <2>3 DEF w, s
<1>2. CASE room < Len(frames)
  <2> DEFINE part == SubSeq(frames, 1, room)
  <2>1. /\ w.samples = s \o part /\ w.state = "Idle" /\ w.stopped = writer.stopped + 1
        /\ w = [state |-> "Idle", samples |-> s \o part, stopped |-> writer.stopped + 1]
    BY <1>0, <1>2 DEF AppendSamples
  <2>2. /\ part \in Seq(Film) /\ Rising(part)
        /\ \A i \in DOMAIN part : \E j \in DOMAIN frames : part[i] = frames[j]
    <3>1. /\ 1 \in 1 .. Len(frames) + 1 /\ room \in 0 .. Len(frames) /\ 1 <= room + 1
      BY <1>0, <1>2
    <3>2. /\ part \in Seq(Film) /\ Rising(part) /\ DOMAIN part = 1 .. room + 1 - 1
          /\ \A i \in 1 .. room + 1 - 1 : part[i] = frames[1 + i - 1] /\ 1 + i - 1 \in DOMAIN frames
      BY <3>1, Stretch
    <3> HIDE DEF part
    <3> QED BY <3>2
  <2> HIDE DEF w, s, part
  <2>3. /\ \A z : /\ Before(frames, z) => Before(part, z)
                  /\ Before(z, frames) => Before(z, part)
        /\ \A n : UpTo(frames, n) => UpTo(part, n)
    BY <2>2, Among
  <2>4. Before(s, part) BY <1>0, <2>3
  <2>5. /\ s \o part \in Seq(Film) /\ Rising(s \o part)
        /\ \A z : Before(s, z) /\ Before(part, z) => Before(s \o part, z)
        /\ \A n : UpTo(s, n) /\ UpTo(part, n) => UpTo(s \o part, n)
    BY <1>0, <2>2, <2>4, Joined
  <2>6. w \in [state : {"Idle", "Recording"}, samples : Seq(Film), stopped : Nat]
    BY <1>0, <2>1, <2>5
  <2>7. /\ \A z : Before(s, z) /\ Before(frames, z) => Before(w.samples, z)
        /\ \A n : UpTo(s, n) /\ UpTo(frames, n) => UpTo(w.samples, n)
    <3>1. \A z : Before(frames, z) => Before(part, z) BY <2>3
    <3>2. \A n : UpTo(frames, n) => UpTo(part, n) BY <2>3
    <3>3. w.samples = s \o part BY <2>1
    <3> QED BY <2>5, <3>1, <3>2, <3>3
  <2> QED BY <1>0, <1>2, <2>1, <2>5, <2>6, <2>7 DEF w, s
<1> QED BY <1>0, <1>1, <1>2

-----------------------------------------------------------------------------
LEMMA FilmInit == RecordingInit => FilmInv
<1> SUFFICES ASSUME RecordingInit PROVE FilmInv OBVIOUS
<1>1. NoEncoder.size \in OutputSizes /\ NoEncoder = [on |-> FALSE, size |-> NoEncoder.size,
                                                      origin |-> 0, inside |-> << >>]
  BY RecordingAssumption DEF NoEncoder
<1>2. encoder \in [on : BOOLEAN, size : OutputSizes, origin : Nat, inside : Seq(Film)]
  <2>1. << >> \in Seq(Film) /\ 0 \in Nat BY EmptyFilm
  <2>2. NoEncoder \in [on : BOOLEAN, size : OutputSizes, origin : Nat, inside : Seq(Film)]
    <3> DEFINE size == NoEncoder.size
    <3>1. size \in OutputSizes /\ NoEncoder = [on |-> FALSE, size |-> size, origin |-> 0,
                                             inside |-> << >>]
      BY <1>1
    <3> HIDE DEF size
    <3> QED BY <2>1, <3>1
  <2> QED BY <2>2 DEF RecordingInit
<1>3. writer \in [state : {"Idle", "Recording"}, samples : Seq(Film), stopped : Nat]
  BY EmptyFilm DEF RecordingInit, NoWriter
<1>4. desktop \in [size : OutputSizes, frames : Nat]
  BY DEF RecordingInit
<1>5. RecordingTypes BY <1>2, <1>3, <1>4, EmptyFilm DEF RecordingInit, RecordingTypes
<1>6. CaptureAccounted BY DEF RecordingInit, CaptureAccounted
<1>7. OrderInv
  <2>1. /\ writer.samples = << >> /\ encoder.inside = << >> /\ channel = << >> /\ copies = << >>
    BY DEF RecordingInit, NoWriter, NoEncoder
  <2> QED BY <2>1, EmptyFilm DEF OrderInv
<1>8. StopInv BY DEF RecordingInit, StopInv
<1> QED BY <1>5, <1>6, <1>7, <1>8 DEF FilmInv
-----------------------------------------------------------------------------
\* CaptureStats after each way of counting.
Stats == [captured : Nat, dropped : Nat, offered : Nat]
LEMMA Counted ==
  ASSUME NEW c \in Stats
  PROVE  /\ c.captured \in Nat /\ c.dropped \in Nat /\ c.offered \in Nat
         /\ \A d : d = [c EXCEPT !.offered = @ + 1]
                     => /\ d \in Stats /\ d.offered = c.offered + 1
                        /\ d.captured = c.captured /\ d.dropped = c.dropped
         /\ \A d : d = [c EXCEPT !.offered = @ + 1, !.dropped = @ + 1]
                     => /\ d \in Stats /\ d.offered = c.offered + 1
                        /\ d.captured = c.captured /\ d.dropped = c.dropped + 1
         /\ \A d : d = [c EXCEPT !.captured = @ + 1]
                     => /\ d \in Stats /\ d.offered = c.offered
                        /\ d.captured = c.captured + 1 /\ d.dropped = c.dropped
         /\ \A d : d = [c EXCEPT !.dropped = @ + 1]
                     => /\ d \in Stats /\ d.offered = c.offered
                        /\ d.captured = c.captured /\ d.dropped = c.dropped + 1
<1>1. /\ c.captured \in Nat /\ c.dropped \in Nat /\ c.offered \in Nat BY DEF Stats
<1>2. ASSUME NEW d, d = [c EXCEPT !.offered = @ + 1]
      PROVE  /\ d \in Stats /\ d.offered = c.offered + 1
             /\ d.captured = c.captured /\ d.dropped = c.dropped
  BY <1>1, <1>2 DEF Stats
<1>3. ASSUME NEW d, d = [c EXCEPT !.offered = @ + 1, !.dropped = @ + 1]
      PROVE  /\ d \in Stats /\ d.offered = c.offered + 1
             /\ d.captured = c.captured /\ d.dropped = c.dropped + 1
  <2> DEFINE e == [c EXCEPT !.offered = @ + 1]
  <2>1. /\ e \in Stats /\ e.offered = c.offered + 1
        /\ e.captured = c.captured /\ e.dropped = c.dropped
    BY <1>2
  <2>2. d = [e EXCEPT !.dropped = @ + 1] BY <1>3
  <2> HIDE DEF e
  <2> QED BY <1>1, <2>1, <2>2 DEF Stats
<1>4. ASSUME NEW d, d = [c EXCEPT !.captured = @ + 1]
      PROVE  /\ d \in Stats /\ d.offered = c.offered
             /\ d.captured = c.captured + 1 /\ d.dropped = c.dropped
  BY <1>1, <1>4 DEF Stats
<1>5. ASSUME NEW d, d = [c EXCEPT !.dropped = @ + 1]
      PROVE  /\ d \in Stats /\ d.offered = c.offered
             /\ d.captured = c.captured /\ d.dropped = c.dropped + 1
  BY <1>1, <1>5 DEF Stats
<1> QED BY <1>1, <1>2, <1>3, <1>4, <1>5

\* The main thread moves no frame; it only switches the recorder.
LEMMA MainStep ==
  ASSUME FilmInv,
         BeginRecording \/ ToggleOff \/ StopRecording \/ ReleaseSession \/ Join
           \/ (\E size \in OutputSizes : Resize(size)) \/ UNCHANGED recordingVars
  PROVE  FilmInv'
<1>1. /\ UNCHANGED <<copies, channel, thread, encoder, writer, recordings, capture>>
      /\ desktop'.frames = desktop.frames
  BY DEF BeginRecording, ToggleOff, StopRecording, ReleaseSession, Join, Resize, recordingVars,
         FilmInv, RecordingTypes
<1>2. recorder' \in [on : BOOLEAN, pool : Nat, size : OutputSizes \cup {0}]
  <2>1. recorder \in [on : BOOLEAN, pool : Nat, size : OutputSizes \cup {0}]
    BY DEF FilmInv, RecordingTypes
  <2>2. /\ [recorder EXCEPT !.on = FALSE] \in [on : BOOLEAN, pool : Nat, size : OutputSizes \cup {0}]
        /\ \A b : [recorder EXCEPT !.on = @ /\ b] \in
                    [on : BOOLEAN, pool : Nat, size : OutputSizes \cup {0}]
    BY <2>1
  <2>3. CASE ReleaseSession BY <2>2, <2>3 DEF ReleaseSession
  <2>4. CASE Join BY <2>2, <2>4 DEF Join
  <2>5. CASE StopRecording BY <2>2, <2>5 DEF StopRecording
  <2>6. CASE BeginRecording \/ ToggleOff \/ (\E size \in OutputSizes : Resize(size))
               \/ UNCHANGED recordingVars
    BY <2>1, <2>6 DEF BeginRecording, ToggleOff, Resize, recordingVars
  <2> QED BY <2>3, <2>4, <2>5, <2>6
<1>3. desktop' \in [size : OutputSizes, frames : Nat]
  BY DEF BeginRecording, ToggleOff, StopRecording, ReleaseSession, Join, Resize, recordingVars,
         FilmInv, RecordingTypes
<1>4. RecordingTypes' BY <1>1, <1>2, <1>3 DEF FilmInv, RecordingTypes
<1>5. CaptureAccounted' BY <1>1 DEF FilmInv, CaptureAccounted
<1>6. OrderInv' BY <1>1 DEF FilmInv, OrderInv
<1>7. StopInv' BY <1>1 DEF FilmInv, StopInv
<1> QED BY <1>4, <1>5, <1>6, <1>7 DEF FilmInv

LEMMA StartStep ==
  ASSUME FilmInv, NEW opens \in BOOLEAN, StartRecording(opens)
  PROVE  FilmInv'
<1>1. /\ UNCHANGED <<copies, desktop, capture>> /\ channel' = << >> /\ recordings' = recordings + 1
      /\ encoder' = NoEncoder /\ recorder' = [on |-> TRUE, pool |-> recorder.pool, size |-> 0]
      /\ IF opens THEN thread' = "Running" /\ writer' = [NoWriter EXCEPT !.state = "Recording"]
        ELSE thread' = "Done" /\ writer' = NoWriter
  BY DEF StartRecording
<1>2. /\ NoEncoder \in [on : BOOLEAN, size : OutputSizes, origin : Nat, inside : Seq(Film)]
      /\ NoEncoder.inside = << >>
  <2> DEFINE size == NoEncoder.size
  <2>1. size \in OutputSizes /\ NoEncoder = [on |-> FALSE, size |-> size, origin |-> 0,
                                           inside |-> << >>]
    BY RecordingAssumption DEF NoEncoder
  <2> HIDE DEF size
  <2> QED BY <2>1, EmptyFilm
<1>3. /\ writer' \in [state : {"Idle", "Recording"}, samples : Seq(Film), stopped : Nat]
      /\ writer'.samples = << >>
      /\ opens => writer'.state = "Recording" /\ writer'.stopped = 0
  <2>1. << >> \in Seq(Film) BY EmptyFilm
  <2>2. CASE opens
    <3>1. writer' = [NoWriter EXCEPT !.state = "Recording"] BY <1>1, <2>2
    <3>2. writer' = [state |-> "Recording", samples |-> << >>, stopped |-> 0]
      BY <3>1 DEF NoWriter
    <3> QED BY <2>1, <3>2
  <2>3. CASE ~opens
    <3>1. writer' = [state |-> "Idle", samples |-> << >>, stopped |-> 0]
      BY <1>1, <2>3 DEF NoWriter
    <3> QED BY <2>1, <2>3, <3>1
  <2> QED BY <2>2, <2>3
<1>4. RecordingTypes' BY <1>1, <1>2, <1>3, EmptyFilm DEF FilmInv, RecordingTypes
<1>5. CaptureAccounted' BY <1>1 DEF FilmInv, CaptureAccounted
<1>6. OrderInv'
  <2>1. encoder'.inside = << >> /\ channel' = << >> /\ writer'.samples = << >>
    BY <1>1, <1>2, <1>3
  <2>2. Rising(copies') /\ UpTo(copies', desktop'.frames) BY <1>1 DEF FilmInv, OrderInv
  <2> QED BY <2>1, <2>2, EmptyFilm DEF OrderInv
<1>7. StopInv' BY <1>1, <1>3 DEF StopInv
<1> QED BY <1>4, <1>5, <1>6, <1>7 DEF FilmInv

LEMMA ComposeStep ==
  ASSUME FilmInv, ComposeFrame
  PROVE  FilmInv'
<1>0. RecordingTypes /\ OrderInv /\ CaptureAccounted /\ StopInv BY DEF FilmInv
<1>1. /\ UNCHANGED <<channel, thread, encoder, writer, recordings>>
      /\ desktop'.frames = desktop.frames + 1 /\ desktop' \in [size : OutputSizes, frames : Nat]
      /\ desktop.frames \in Nat
  <2>1. desktop \in [size : OutputSizes, frames : Nat] BY <1>0 DEF RecordingTypes
  <2>2. desktop' = [desktop EXCEPT !.frames = @ + 1] BY DEF ComposeFrame
  <2>3. UNCHANGED <<channel, thread, encoder, writer, recordings>> BY DEF ComposeFrame
  <2> QED BY <2>1, <2>2, <2>3
<1>2. /\ PoolFor(desktop.size) \in [on : BOOLEAN, pool : Nat, size : OutputSizes \cup {0}]
      /\ Composed \in Film /\ Composed.id = desktop.frames + 1
  <2>1. PoolFor(desktop.size) \in [on : BOOLEAN, pool : Nat, size : OutputSizes \cup {0}]
    BY <1>0 DEF PoolFor, RecordingTypes
  <2> QED BY <1>0, <2>1 DEF Composed, Film, RecordingTypes
<1>3. recorder' \in [on : BOOLEAN, pool : Nat, size : OutputSizes \cup {0}]
  BY <1>0, <1>2 DEF ComposeFrame, RecordingTypes
<1>4. /\ \/ copies' = copies /\ UNCHANGED capture
         \/ copies' = Append(copies, Composed) /\ capture' = [capture EXCEPT !.offered = @ + 1]
         \/ copies' = copies /\ capture' = [capture EXCEPT !.offered = @ + 1, !.dropped = @ + 1]
  BY DEF ComposeFrame, Offer
<1>c. capture \in Stats BY <1>0 DEF RecordingTypes, Stats
<1>5. capture' \in [captured : Nat, dropped : Nat, offered : Nat]
  BY <1>4, <1>c, Counted DEF Stats
<1>6. /\ writer.samples \in Seq(Film) /\ encoder.inside \in Seq(Film)
      /\ channel \in Seq(Film) /\ copies \in Seq(Film)
  BY <1>0 DEF RecordingTypes
<1>7. CaptureAccounted'
  <2> SUFFICES capture'.offered = capture'.captured + capture'.dropped + Len(copies')
    BY DEF CaptureAccounted
  <2>1. Len(copies) \in Nat /\ Len(Append(copies, Composed)) = Len(copies) + 1 BY <1>2, <1>6
  <2>2. capture.offered = capture.captured + capture.dropped + Len(copies)
    BY <1>0 DEF CaptureAccounted
  <2>3. capture.captured \in Nat /\ capture.dropped \in Nat /\ capture.offered \in Nat
    BY <1>c, Counted
  <2>4. CASE copies' = copies /\ UNCHANGED capture BY <2>2, <2>4
  <2>5. CASE copies' = Append(copies, Composed) /\ capture' = [capture EXCEPT !.offered = @ + 1]
    <3>1. /\ capture'.offered = capture.offered + 1 /\ capture'.captured = capture.captured
          /\ capture'.dropped = capture.dropped
      BY <1>c, <2>5, Counted
    <3>2. Len(copies') = Len(copies) + 1 BY <2>1, <2>5
    <3> QED BY <2>1, <2>2, <2>3, <3>1, <3>2
  <2>6. CASE copies' = copies /\ capture' = [capture EXCEPT !.offered = @ + 1, !.dropped = @ + 1]
    <3>1. /\ capture'.offered = capture.offered + 1 /\ capture'.captured = capture.captured
          /\ capture'.dropped = capture.dropped + 1
      BY <1>c, <2>6, Counted
    <3> QED BY <2>1, <2>2, <2>3, <2>6, <3>1
  <2> QED BY <1>4, <2>4, <2>5, <2>6
<1>8. /\ \A s \in {writer.samples, encoder.inside, channel, copies} :
           UpTo(s, desktop.frames + 1) /\ \A i \in DOMAIN s : s[i].id < Composed.id
  <2> SUFFICES ASSUME NEW s \in {writer.samples, encoder.inside, channel, copies}
               PROVE  UpTo(s, desktop.frames + 1) /\ \A i \in DOMAIN s : s[i].id < Composed.id
    OBVIOUS
  <2>1. s \in Seq(Film) BY <1>6
  <2>2. UpTo(s, desktop.frames) BY <1>0 DEF OrderInv
  <2> QED BY <1>1, <1>2, <2>1, <2>2, UpToMore
<1>9. /\ copies' \in Seq(Film) /\ Rising(copies') /\ UpTo(copies', desktop'.frames)
      /\ \A z \in {writer.samples, encoder.inside, channel} : Before(z, copies')
  <2>1. CASE copies' = copies
    BY <1>0, <1>1, <1>6, <1>8, <2>1 DEF OrderInv
  <2>2. CASE copies' = Append(copies, Composed)
    <3>1. /\ Append(copies, Composed) \in Seq(Film) /\ Rising(Append(copies, Composed))
          /\ \A z : Before(z, copies) /\ (\A i \in DOMAIN z : z[i].id < Composed.id)
                   => Before(z, Append(copies, Composed))
          /\ \A n : UpTo(copies, n) /\ Composed.id <= n => UpTo(Append(copies, Composed), n)
      BY <1>0, <1>2, <1>6, <1>8, Added DEF OrderInv
    <3>2. UpTo(copies', desktop'.frames) BY <1>1, <1>2, <1>8, <2>2, <3>1
    <3>3. \A z \in {writer.samples, encoder.inside, channel} : Before(z, copies')
      BY <1>0, <1>8, <2>2, <3>1 DEF OrderInv
    <3> QED BY <2>2, <3>1, <3>2, <3>3
  <2> QED BY <1>4, <2>1, <2>2
<1>10. OrderInv' BY <1>0, <1>1, <1>8, <1>9 DEF OrderInv
<1>11. RecordingTypes' BY <1>0, <1>1, <1>3, <1>5, <1>9 DEF RecordingTypes
<1>12. StopInv' BY <1>0, <1>1 DEF StopInv
<1> QED BY <1>7, <1>10, <1>11, <1>12 DEF FilmInv

LEMMA DeliverStep ==
  ASSUME FilmInv, Deliver
  PROVE  FilmInv'
<1>0. RecordingTypes /\ OrderInv /\ CaptureAccounted /\ StopInv BY DEF FilmInv
<1>1. /\ UNCHANGED <<recorder, desktop, thread, encoder, writer, recordings>>
      /\ copies # << >> /\ copies' = Tail(copies)
      /\ \/ channel' = Append(channel, Head(copies)) /\ capture' = [capture EXCEPT !.captured = @ + 1]
         \/ channel' = channel /\ capture' = [capture EXCEPT !.dropped = @ + 1]
  BY DEF Deliver
<1>2. /\ writer.samples \in Seq(Film) /\ encoder.inside \in Seq(Film)
      /\ channel \in Seq(Film) /\ copies \in Seq(Film)
  BY <1>0 DEF RecordingTypes
<1>3. /\ Head(copies) \in Film /\ Tail(copies) \in Seq(Film) /\ Rising(Tail(copies))
      /\ Len(Tail(copies)) = Len(copies) - 1 /\ Len(copies) \in Nat
      /\ \E i \in DOMAIN copies : Head(copies) = copies[i]
      /\ \A i \in DOMAIN Tail(copies) : Head(copies).id < Tail(copies)[i].id
      /\ \A i \in DOMAIN Tail(copies) : \E j \in DOMAIN copies : Tail(copies)[i] = copies[j]
  BY <1>0, <1>1, <1>2, Taken DEF OrderInv
<1>4. capture' \in [captured : Nat, dropped : Nat, offered : Nat] /\ CaptureAccounted'
  <2>1. capture \in Stats BY <1>0 DEF RecordingTypes, Stats
  <2>2. capture.offered = capture.captured + capture.dropped + Len(copies)
    BY <1>0 DEF CaptureAccounted
  <2>3. /\ capture.captured \in Nat /\ capture.dropped \in Nat /\ capture.offered \in Nat
        /\ capture'.offered = capture.offered
        /\ capture'.captured + capture'.dropped = capture.captured + capture.dropped + 1
    <3>1. capture.captured \in Nat /\ capture.dropped \in Nat /\ capture.offered \in Nat
      BY <2>1, Counted
    <3>2. CASE capture' = [capture EXCEPT !.captured = @ + 1]
      <4>1. /\ capture'.offered = capture.offered /\ capture'.captured = capture.captured + 1
            /\ capture'.dropped = capture.dropped
        BY <2>1, <3>2, Counted
      <4> QED BY <3>1, <4>1
    <3>3. CASE capture' = [capture EXCEPT !.dropped = @ + 1]
      <4>1. /\ capture'.offered = capture.offered /\ capture'.captured = capture.captured
            /\ capture'.dropped = capture.dropped + 1
        BY <2>1, <3>3, Counted
      <4> QED BY <3>1, <4>1
    <3> QED BY <1>1, <3>1, <3>2, <3>3
  <2>4. Len(copies') = Len(copies) - 1 /\ Len(copies) \in Nat BY <1>1, <1>3
  <2>5. capture'.offered = capture'.captured + capture'.dropped + Len(copies')
    BY <2>2, <2>3, <2>4
  <2>6. capture' \in Stats BY <1>1, <2>1, Counted
  <2> QED BY <2>5, <2>6 DEF CaptureAccounted, Stats
<1>5. /\ \A z : Before(z, copies) => Before(z, copies')
      /\ \A n : UpTo(copies, n) => UpTo(copies', n)
  BY <1>1, <1>3, Among
<1>6. /\ \A s \in {writer.samples, encoder.inside, channel} :
           \A i \in DOMAIN s : s[i].id < Head(copies).id
      /\ Head(copies).id <= desktop.frames
  BY <1>0, <1>3 DEF OrderInv, Before, UpTo
<1>7. /\ channel' \in Seq(Film) /\ Rising(channel') /\ UpTo(channel', desktop.frames)
      /\ Before(writer.samples, channel') /\ Before(encoder.inside, channel')
      /\ Before(channel', copies')
  <2>1. CASE channel' = channel BY <1>0, <1>2, <1>5, <2>1 DEF OrderInv
  <2>2. CASE channel' = Append(channel, Head(copies))
    <3> DEFINE f == Head(copies)
    <3>1. Rising(channel) /\ \A i \in DOMAIN channel : channel[i].id < f.id
      BY <1>0, <1>6 DEF OrderInv
    <3>2. f \in Film BY <1>3
    <3> HIDE DEF f
    <3>3. /\ Append(channel, f) \in Seq(Film) /\ Rising(Append(channel, f))
          /\ \A z : Before(z, channel) /\ (\A i \in DOMAIN z : z[i].id < f.id) => Before(z, Append(channel, f))
          /\ \A z : Before(channel, z) /\ (\A i \in DOMAIN z : f.id < z[i].id) => Before(Append(channel, f), z)
          /\ \A n : UpTo(channel, n) /\ f.id <= n => UpTo(Append(channel, f), n)
      BY <1>2, <3>1, <3>2, Added
    <3>4. channel' = Append(channel, f) BY <2>2 DEF f
    <3>5. Before(channel', copies')
      <4>1. Before(channel, copies') BY <1>0, <1>5 DEF OrderInv
      <4>2. \A i \in DOMAIN copies' : f.id < copies'[i].id BY <1>1, <1>3 DEF f
      <4> QED BY <3>3, <3>4, <4>1, <4>2
    <3>6. Before(writer.samples, channel') /\ Before(encoder.inside, channel')
      BY <1>0, <1>6, <3>3, <3>4 DEF OrderInv, f
    <3>7. UpTo(channel', desktop.frames) BY <1>0, <1>6, <3>3, <3>4 DEF OrderInv, f
    <3> QED BY <3>3, <3>4, <3>5, <3>6, <3>7
  <2> QED BY <1>1, <2>1, <2>2
<1>8. OrderInv' BY <1>0, <1>1, <1>3, <1>5, <1>7 DEF OrderInv
<1>9. RecordingTypes' BY <1>0, <1>1, <1>3, <1>4, <1>7 DEF RecordingTypes
<1>10. StopInv' BY <1>0, <1>1 DEF StopInv
<1> QED BY <1>4, <1>8, <1>9, <1>10 DEF FilmInv

\* A frame leaves the channel: those the encoder still holds stay behind it, and
\* the file takes the others, as far as the disk has room.
LEMMA EncodeStep ==
  ASSUME FilmInv, NEW done \in 0 .. MAX_BUFFERS, NEW room \in 0 .. MAX_BUFFERS,
         EncodeFrame(done, room)
  PROVE  FilmInv'
<1> DEFINE frame == Head(channel)
           e == IF encoder.on /\ encoder.size = frame.size THEN encoder
                ELSE [on |-> TRUE, size |-> frame.size, origin |-> frame.id, inside |-> << >>]
           stamped == Stamped(e, frame)
           frames == Append(e.inside, stamped)
           rest == Inside(frames, done)
           taken == SubSeq(frames, 1, done)
<1>0. RecordingTypes /\ OrderInv /\ CaptureAccounted /\ StopInv BY DEF FilmInv
<1>1. /\ UNCHANGED <<recorder, desktop, copies, recordings, capture>>
      /\ thread = "Running" /\ channel # << >> /\ channel' = Tail(channel)
      /\ done <= Len(frames) /\ room <= done
      /\ encoder' = [e EXCEPT !.inside = rest]
      /\ writer' = AppendSamples(taken, room)
      /\ thread' = IF room < done THEN "Done" ELSE "Running"
  BY DEF EncodeFrame
<1>2. /\ writer.samples \in Seq(Film) /\ encoder.inside \in Seq(Film)
      /\ channel \in Seq(Film) /\ copies \in Seq(Film)
      /\ done \in Nat /\ room \in Nat
  BY <1>0, RecordingAssumption DEF RecordingTypes
<1>3. /\ frame \in Film /\ Tail(channel) \in Seq(Film) /\ Rising(Tail(channel))
      /\ \E i \in DOMAIN channel : frame = channel[i]
      /\ \A i \in DOMAIN Tail(channel) : frame.id < Tail(channel)[i].id
      /\ \A i \in DOMAIN Tail(channel) : \E j \in DOMAIN channel : Tail(channel)[i] = channel[j]
  BY <1>0, <1>1, <1>2, Taken DEF OrderInv
<1>4. /\ e \in [on : BOOLEAN, size : OutputSizes, origin : Nat, inside : Seq(Film)]
      /\ e.inside = encoder.inside \/ e.inside = << >>
  <2> HIDE DEF frame
  <2>1. frame.id \in Nat /\ frame.size \in OutputSizes BY <1>3 DEF Film
  <2>2. encoder \in [on : BOOLEAN, size : OutputSizes, origin : Nat, inside : Seq(Film)]
    BY <1>0 DEF RecordingTypes
  <2>3. << >> \in Seq(Film) BY EmptyFilm
  <2> QED BY <2>1, <2>2, <2>3
<1>5. /\ stamped \in Film /\ stamped.id = frame.id
  <2> HIDE DEF frame, e
  <2>1. /\ frame.id \in Nat /\ frame.size \in OutputSizes /\ frame.pool \in Nat /\ frame.film \in Nat
    BY <1>3 DEF Film
  <2>2. e.origin \in Nat BY <1>4
  <2>3. frame.id - e.origin \in Int BY <2>1, <2>2
  <2> QED BY <2>1, <2>3 DEF Stamped, Pts, Film
\* What the encoder keeps is older than the frame, and the frame than the rest.
<1>6. /\ e.inside \in Seq(Film) /\ Rising(e.inside)
      /\ \A i \in DOMAIN e.inside : e.inside[i].id < frame.id
      /\ UpTo(e.inside, desktop.frames) /\ Before(writer.samples, e.inside)
      /\ Before(e.inside, Tail(channel)) /\ Before(e.inside, copies)
  <2> HIDE DEF frame, e
  <2>1. CASE e.inside = << >> BY <2>1, EmptyFilm
  <2>2. CASE e.inside = encoder.inside
    <3>1. Before(encoder.inside, Tail(channel)) BY <1>0, <1>3, Among DEF OrderInv
    <3>2. \A i \in DOMAIN encoder.inside : encoder.inside[i].id < frame.id
      BY <1>0, <1>3 DEF OrderInv, Before
    <3> QED BY <1>0, <1>2, <2>2, <3>1, <3>2 DEF OrderInv
  <2> QED BY <1>4, <2>1, <2>2
<1>7. /\ frames \in Seq(Film) /\ Rising(frames) /\ UpTo(frames, desktop.frames)
      /\ Before(writer.samples, frames) /\ Before(frames, Tail(channel)) /\ Before(frames, copies)
  <2> HIDE DEF frame, e, stamped
  <2>1. /\ \A i \in DOMAIN e.inside : e.inside[i].id < stamped.id
        /\ \A i \in DOMAIN writer.samples : writer.samples[i].id < stamped.id
        /\ \A i \in DOMAIN Tail(channel) : stamped.id < Tail(channel)[i].id
        /\ \A i \in DOMAIN copies : stamped.id < copies[i].id
        /\ stamped.id <= desktop.frames
    BY <1>0, <1>3, <1>5, <1>6 DEF OrderInv, Before, UpTo
  <2>2. /\ Append(e.inside, stamped) \in Seq(Film) /\ Rising(Append(e.inside, stamped))
        /\ \A z : Before(z, e.inside) /\ (\A i \in DOMAIN z : z[i].id < stamped.id)
                 => Before(z, Append(e.inside, stamped))
        /\ \A z : Before(e.inside, z) /\ (\A i \in DOMAIN z : stamped.id < z[i].id)
                 => Before(Append(e.inside, stamped), z)
        /\ \A n : UpTo(e.inside, n) /\ stamped.id <= n => UpTo(Append(e.inside, stamped), n)
    BY <1>5, <1>6, <2>1, Added
  <2> QED BY <1>6, <2>1, <2>2
<1> HIDE DEF frame, e, stamped, frames
<1>8. /\ taken \in Seq(Film) /\ Rising(taken) /\ Len(taken) = done
      /\ rest \in Seq(Film) /\ Rising(rest) /\ Before(taken, rest)
      /\ \A i \in DOMAIN taken : \E j \in DOMAIN frames : taken[i] = frames[j]
      /\ \A i \in DOMAIN rest : \E j \in DOMAIN frames : rest[i] = frames[j]
  <2> DEFINE n == Len(frames)
  <2>1. /\ n \in Nat /\ done \in 0 .. n /\ 1 \in 1 .. n + 1 /\ 1 <= done + 1
        /\ done + 1 \in 1 .. n + 1 /\ n \in 0 .. n /\ done + 1 <= n + 1
    BY <1>1, <1>2, <1>7
  <2>2. /\ taken \in Seq(Film) /\ Rising(taken) /\ Len(taken) = done + 1 - 1
        /\ DOMAIN taken = 1 .. done + 1 - 1
        /\ \A i \in 1 .. done + 1 - 1 : taken[i] = frames[1 + i - 1] /\ 1 + i - 1 \in DOMAIN frames
    BY <1>7, <2>1, Stretch
  <2>3. /\ rest \in Seq(Film) /\ Rising(rest) /\ DOMAIN rest = 1 .. n + 1 - (done + 1)
        /\ \A i \in 1 .. n + 1 - (done + 1) :
             rest[i] = frames[done + 1 + i - 1] /\ done + 1 + i - 1 \in DOMAIN frames
    BY <1>7, <2>1, Stretch DEF Inside
  <2> HIDE DEF taken, rest, n
  <2>4. Before(taken, rest)
    <3> SUFFICES ASSUME NEW i \in DOMAIN taken, NEW j \in DOMAIN rest
                 PROVE  taken[i].id < rest[j].id
      BY DEF Before
    <3> DEFINE k == 1 + i - 1  l == done + 1 + j - 1
    <3>1. i \in 1 .. done + 1 - 1 /\ taken[i] = frames[k] /\ k \in DOMAIN frames BY <2>2
    <3>2. /\ j \in 1 .. n + 1 - (done + 1)
          /\ rest[j] = frames[l] /\ l \in DOMAIN frames
      BY <2>3
    <3>3. k < l BY <1>2, <2>1, <3>1, <3>2
    <3> HIDE DEF k, l
    <3> QED BY <1>7, <3>1, <3>2, <3>3 DEF Rising
  <2>5. Len(taken) = done BY <1>2, <2>2
  <2> QED BY <2>2, <2>3, <2>4, <2>5
<1> HIDE DEF taken, rest
<1>9. /\ \A z : /\ Before(frames, z) => Before(taken, z)
                /\ Before(z, frames) => Before(z, taken)
      /\ \A n : UpTo(frames, n) => UpTo(taken, n)
  BY <1>8, Among
<1>10. /\ \A z : /\ Before(frames, z) => Before(rest, z)
                 /\ Before(z, frames) => Before(z, rest)
       /\ \A n : UpTo(frames, n) => UpTo(rest, n)
  BY <1>8, Among
<1>11. /\ writer' \in [state : {"Idle", "Recording"}, samples : Seq(Film), stopped : Nat]
       /\ Rising(writer'.samples)
       /\ \A z : Before(writer.samples, z) /\ Before(taken, z) => Before(writer'.samples, z)
       /\ \A n : UpTo(writer.samples, n) /\ UpTo(taken, n) => UpTo(writer'.samples, n)
       /\ room >= Len(taken) => writer'.state = writer.state /\ writer'.stopped = writer.stopped
       /\ room < Len(taken) => writer'.state = "Idle" /\ writer'.stopped = writer.stopped + 1
  <2>1. Rising(writer.samples) BY <1>0 DEF OrderInv
  <2>2. Before(writer.samples, taken) BY <1>7, <1>9
  <2>3. LET w == AppendSamples(taken, room)
        IN  /\ w \in [state : {"Idle", "Recording"}, samples : Seq(Film), stopped : Nat]
            /\ Rising(w.samples)
            /\ \A z : Before(writer.samples, z) /\ Before(taken, z) => Before(w.samples, z)
            /\ \A n : UpTo(writer.samples, n) /\ UpTo(taken, n) => UpTo(w.samples, n)
            /\ room >= Len(taken) => w.state = writer.state /\ w.stopped = writer.stopped
            /\ room < Len(taken) => w.state = "Idle" /\ w.stopped = writer.stopped + 1
    BY <1>0, <1>2, <1>8, <2>1, <2>2, Written
  <2> QED BY <1>1, <2>3
<1>12. /\ encoder' \in [on : BOOLEAN, size : OutputSizes, origin : Nat, inside : Seq(Film)]
       /\ encoder'.inside = rest
  BY <1>1, <1>4, <1>8
<1>13. RecordingTypes'
  BY <1>0, <1>1, <1>3, <1>11, <1>12 DEF RecordingTypes
<1>14. OrderInv'
  <2>1. /\ Before(writer'.samples, rest) /\ Before(writer'.samples, Tail(channel))
        /\ Before(writer'.samples, copies)
    <3>1. Before(writer.samples, rest) BY <1>7, <1>10
    <3>2. Before(writer.samples, Tail(channel)) BY <1>0, <1>3, Among DEF OrderInv
    <3>3. Before(writer.samples, copies) BY <1>0 DEF OrderInv
    <3>4. Before(taken, Tail(channel)) /\ Before(taken, copies) BY <1>7, <1>9
    <3> QED BY <1>8, <1>11, <3>1, <3>2, <3>3, <3>4
  <2>2. Before(rest, Tail(channel)) /\ Before(rest, copies) BY <1>7, <1>10
  <2>3. /\ UpTo(writer'.samples, desktop.frames) /\ UpTo(rest, desktop.frames)
    BY <1>0, <1>7, <1>9, <1>10, <1>11 DEF OrderInv
  <2>4. Before(Tail(channel), copies) /\ UpTo(Tail(channel), desktop.frames)
    BY <1>0, <1>3, Among DEF OrderInv
  <2> QED BY <1>0, <1>1, <1>3, <1>8, <1>11, <1>12, <2>1, <2>2, <2>3, <2>4 DEF OrderInv
<1>15. CaptureAccounted' BY <1>0, <1>1 DEF CaptureAccounted
<1>16. StopInv'
  <2>1. writer.state = "Recording" /\ writer.stopped = 0 BY <1>0, <1>1 DEF StopInv
  <2>2. CASE room < done BY <1>1, <1>8, <1>11, <2>1, <2>2 DEF StopInv
  <2>3. CASE ~(room < done) BY <1>1, <1>2, <1>8, <1>11, <2>1, <2>3 DEF StopInv
  <2> QED BY <2>2, <2>3
<1> QED BY <1>13, <1>14, <1>15, <1>16 DEF FilmInv

\* The end: what the flush gave is appended and the writer stops, once.
LEMMA FinishStep ==
  ASSUME FilmInv, NEW broken \in BOOLEAN, NEW flushed \in BOOLEAN, NEW room \in 0 .. MAX_BUFFERS,
         FinishRecording(broken, flushed, room)
  PROVE  FilmInv'
<1> DEFINE last == IF flushed THEN encoder.inside ELSE << >>
           w == AppendSamples(last, room)
<1>0. RecordingTypes /\ OrderInv /\ CaptureAccounted /\ StopInv BY DEF FilmInv
<1>1. /\ UNCHANGED <<recorder, desktop, copies, recordings, capture>>
      /\ thread = "Running" /\ thread' = "Done" /\ channel' = << >>
      /\ writer' = Stopped(w) /\ encoder' = [encoder EXCEPT !.inside = << >>]
  BY DEF FinishRecording
<1>2. /\ last \in Seq(Film) /\ Rising(last) /\ room \in Nat
      /\ Before(writer.samples, last) /\ Before(last, copies) /\ UpTo(last, desktop.frames)
  BY <1>0, EmptyFilm, RecordingAssumption DEF OrderInv, RecordingTypes
<1> HIDE DEF last
<1>3. /\ w \in [state : {"Idle", "Recording"}, samples : Seq(Film), stopped : Nat]
      /\ Rising(w.samples)
      /\ \A z : Before(writer.samples, z) /\ Before(last, z) => Before(w.samples, z)
      /\ \A n : UpTo(writer.samples, n) /\ UpTo(last, n) => UpTo(w.samples, n)
      /\ room >= Len(last) => w.state = writer.state /\ w.stopped = writer.stopped
      /\ room < Len(last) => w.state = "Idle" /\ w.stopped = writer.stopped + 1
  BY <1>0, <1>2, Written DEF OrderInv
<1> HIDE DEF w
<1>4. writer.state = "Recording" /\ writer.stopped = 0 BY <1>0, <1>1 DEF StopInv
<1>5. Len(last) \in Nat BY <1>2
<1>6. /\ writer' \in [state : {"Idle", "Recording"}, samples : Seq(Film), stopped : Nat]
      /\ writer'.samples = w.samples /\ writer'.state = "Idle" /\ writer'.stopped = 1
  <2>1. CASE room >= Len(last)
    <3>1. w.state = "Recording" /\ w.stopped = 0 BY <1>3, <1>4, <2>1
    <3>2. writer' = [w EXCEPT !.state = "Idle", !.stopped = @ + 1] BY <1>1, <3>1 DEF Stopped
    <3> DEFINE v == [w EXCEPT !.state = "Idle"]
    <3>3. /\ v \in [state : {"Idle", "Recording"}, samples : Seq(Film), stopped : Nat]
          /\ v.samples = w.samples /\ v.state = "Idle" /\ v.stopped = 0
      BY <1>3, <3>1
    <3>4. writer' = [v EXCEPT !.stopped = @ + 1] BY <3>2
    <3> HIDE DEF v
    <3>5. writer' = [v EXCEPT !.stopped = 1] BY <3>3, <3>4
    <3> QED BY <3>3, <3>5
  <2>2. CASE room < Len(last)
    <3>1. w.state = "Idle" /\ w.stopped = 1 BY <1>3, <1>4, <2>2
    <3> QED BY <1>1, <1>3, <3>1 DEF Stopped
  <2> QED BY <1>2, <1>5, <2>1, <2>2
<1>7. /\ encoder' \in [on : BOOLEAN, size : OutputSizes, origin : Nat, inside : Seq(Film)]
      /\ encoder'.inside = << >>
  BY <1>0, <1>1, EmptyFilm DEF RecordingTypes
<1>8. RecordingTypes' BY <1>0, <1>1, <1>6, <1>7, EmptyFilm DEF RecordingTypes
<1>9. OrderInv'
  <2>1. Before(w.samples, copies) /\ UpTo(w.samples, desktop.frames)
    BY <1>0, <1>2, <1>3 DEF OrderInv
  <2> QED BY <1>0, <1>1, <1>3, <1>6, <1>7, <2>1, EmptyFilm DEF OrderInv
<1>10. CaptureAccounted' BY <1>0, <1>1 DEF CaptureAccounted
<1>11. StopInv' BY <1>1, <1>6 DEF StopInv
<1> QED BY <1>8, <1>9, <1>10, <1>11 DEF FilmInv
-----------------------------------------------------------------------------
LEMMA FilmInvariant == RecordingSpec => []FilmInv
<1>1. ASSUME FilmInv, [RecordingNext]_recordingVars PROVE FilmInv'
  <2>1. CASE BeginRecording \/ ToggleOff \/ StopRecording \/ ReleaseSession \/ Join
             \/ (\E size \in OutputSizes : Resize(size)) \/ UNCHANGED recordingVars
    BY <1>1, <2>1, MainStep
  <2>2. CASE \E opens \in BOOLEAN : StartRecording(opens) BY <1>1, <2>2, StartStep
  <2>3. CASE ComposeFrame BY <1>1, <2>3, ComposeStep
  <2>4. CASE Deliver BY <1>1, <2>4, DeliverStep
  <2>5. CASE RecordingThread
    <3>1. CASE \E done, room \in 0 .. MAX_BUFFERS : EncodeFrame(done, room)
      BY <1>1, <3>1, EncodeStep
    <3>2. CASE \E broken, flushed \in BOOLEAN, room \in 0 .. MAX_BUFFERS :
                 FinishRecording(broken, flushed, room)
      BY <1>1, <3>2, FinishStep
    <3> QED BY <2>5, <3>1, <3>2 DEF RecordingThread
  <2> QED BY <1>1, <2>1, <2>2, <2>3, <2>4, <2>5 DEF RecordingNext
<1> QED BY FilmInit, <1>1, PTL DEF RecordingSpec

(* However frames are dropped, delayed or left inside the encoder, and whichever
   thread stops first: every frame offered is accounted for, the file holds what
   it holds in the order it was composed, and Stopped is sent once (capture.rs,
   encode.rs, mp4.rs).                                                          *)
THEOREM FilmsAreExact == RecordingSpec => []FilmIsExact
<1>1. FilmInv => FilmIsExact
  <2> SUFFICES ASSUME FilmInv PROVE FilmIsExact OBVIOUS
  <2>1. CaptureAccounted BY DEF FilmInv
  <2>2. FilmIsInOrder BY DEF FilmInv, OrderInv, Rising, FilmIsInOrder
  <2>3. StoppedOnce
    <3>1. thread \in {"None", "Running", "Done"} /\ StopInv BY DEF FilmInv, RecordingTypes
    <3>2. NoWriter.stopped = 0 BY DEF NoWriter
    <3> QED BY <3>1, <3>2 DEF StopInv, StoppedOnce
  <2> QED BY <2>1, <2>2, <2>3 DEF FilmIsExact
<1> QED BY <1>1, FilmInvariant, PTL

-----------------------------------------------------------------------------
(* Images, surfaces and caches, and what their pixels become.              *)

Pixel == Nat
Strip == UNION {[0 .. n - 1 -> Pixel] : n \in Nat}
Surface == [image : Strip, mapped : BOOLEAN, origin : Nat]
Scene == [surfaces : [Surfaces -> Surface], cache : [Slots -> Strip]]
Rect == [x : Nat, width : Nat]

\* What picture buffers hold: no pixel is taken for a reference to a buffer.
Filled(contents) == \A b \in Buffers : contents[b] \in Pixel /\ contents[b] \notin Buffers

\* Resolve and ResolveAll, for any contents of the buffers.
Resolved(image, from, contents) == [x \in DOMAIN image |-> IF image[x] \in from THEN contents[image[x]] ELSE image[x]]
ResolvedAll(c, from, contents) ==
  [surfaces |-> [i \in Surfaces |-> [c.surfaces[i] EXCEPT !.image = Resolved(@, from, contents)]],
   cache |-> [s \in Slots |-> Resolved(c.cache[s], from, contents)]]

\* What a scene shows once every buffer has been read.
Seen(c, contents) == ResolvedAll(c, Buffers, contents)

LEMMA Indices == \A n \in Nat : Cardinality(0 .. n - 1) = n
<1> TAKE n \in Nat
<1>1. Cardinality(0 .. n - 1) = IF 0 > n - 1 THEN 0 ELSE (n - 1) - 0 + 1
  BY FS_Interval
<1> QED
  BY <1>1

LEMMA StripSize ==
  ASSUME NEW image \in Strip
  PROVE  /\ Size(image) \in Nat /\ DOMAIN image = 0 .. Size(image) - 1
         /\ \A x \in DOMAIN image : image[x] \in Pixel /\ x \in Nat
<1>1. PICK n \in Nat : image \in [0 .. n - 1 -> Pixel]
  BY DEF Strip
<1>2. Cardinality(0 .. n - 1) = n
  BY Indices
<1> QED
  BY <1>1, <1>2 DEF Size

LEMMA MakeStrip ==
  ASSUME NEW n \in Nat, NEW f, f = [x \in 0 .. n - 1 |-> f[x]], \A x \in 0 .. n - 1 : f[x] \in Pixel
  PROVE  f \in Strip /\ Size(f) = n
<1>1. f \in [0 .. n - 1 -> Pixel]
  OBVIOUS
<1>2. f \in Strip
  BY <1>1 DEF Strip
<1>3. Cardinality(0 .. n - 1) = n
  BY Indices
<1> QED
  BY <1>1, <1>2, <1>3 DEF Size

LEMMA Blanks ==
  ASSUME NEW n \in Nat
  PROVE  /\ Blank(n) \in Strip /\ Size(Blank(n)) = n /\ DOMAIN Blank(n) = 0 .. n - 1
         /\ n # 0 => Blank(n) # NoImage
         /\ NoImage \in Strip /\ Size(NoImage) = 0 /\ DOMAIN NoImage = {}
<1>1. ASSUME NEW k \in Nat
      PROVE  Blank(k) \in Strip /\ Size(Blank(k)) = k /\ DOMAIN Blank(k) = 0 .. k - 1
  BY MakeStrip DEF Blank, Black, Pixel
<1> QED
  BY <1>1 DEF NoImage

LEMMA EmptyStrip ==
  ASSUME NEW image \in Strip
  PROVE  image = NoImage <=> Size(image) = 0
<1>1. CASE Size(image) = 0
  <2>1. PICK n \in Nat : image \in [0 .. n - 1 -> Pixel]
    BY DEF Strip
  <2>2. DOMAIN image = {}
    BY <1>1, StripSize
  <2>3. image = [x \in {} |-> image[x]] /\ NoImage = [x \in {} |-> NoImage[x]]
    BY <2>1, <2>2 DEF NoImage, Blank
  <2> QED
    BY <1>1, <2>3
<1>2. CASE image = NoImage
  BY <1>2, Blanks
<1> QED
  BY <1>1, <1>2

\* The pixels an image reads from picture buffers.
OnlyReads(image, from) == \A x \in DOMAIN image : image[x] \in Buffers => image[x] \in from

LEMMA Resolving ==
  ASSUME NEW image \in Strip, NEW from \in SUBSET Buffers, NEW contents, Filled(contents)
  PROVE  /\ Resolved(image, from, contents) \in Strip
         /\ DOMAIN Resolved(image, from, contents) = DOMAIN image
         /\ Size(Resolved(image, from, contents)) = Size(image)
         /\ Resolved(image, from, contents) = NoImage <=> image = NoImage
         /\ \A x \in DOMAIN image : Resolved(image, from, contents)[x] = IF image[x] \in from THEN contents[image[x]] ELSE image[x]
<1> DEFINE f == Resolved(image, from, contents)
<1>1. DOMAIN f = DOMAIN image /\ DOMAIN image = 0 .. Size(image) - 1 /\ Size(image) \in Nat
  BY StripSize DEF Resolved
<1>2. f = [x \in 0 .. Size(image) - 1 |-> f[x]]
  BY <1>1 DEF Resolved
<1>3. \A x \in DOMAIN image : f[x] = IF image[x] \in from THEN contents[image[x]] ELSE image[x]
  BY DEF Resolved
<1>4. \A x \in DOMAIN image : f[x] \in Pixel
  BY <1>3, StripSize DEF Filled
<1> HIDE DEF f
<1>5. f \in Strip /\ Size(f) = Size(image)
  BY <1>1, <1>2, <1>4, MakeStrip
<1>6. f = NoImage <=> image = NoImage
  BY <1>5, EmptyStrip
<1> QED
  BY <1>1, <1>3, <1>5, <1>6 DEF f

LEMMA Clipping ==
  ASSUME NEW r \in Rect, NEW bounds \in Nat
  PROVE  /\ clip_rect(r, bounds) \in Rect
         /\ clip_rect(r, bounds).width # 0 => /\ clip_rect(r, bounds).x + clip_rect(r, bounds).width <= bounds
                                              /\ clip_rect(r, bounds).x = r.x
         /\ clip_rect(r, bounds).width <= r.width
         /\ Within(r, bounds) /\ r.width # 0 => clip_rect(r, bounds) = r
         /\ clip_rect(clip_rect(r, bounds), bounds).width = clip_rect(r, bounds).width
BY DEF Rect, clip_rect, NoRect, Smaller, Within

\* Painting keeps an image's size.
LEMMA Painting ==
  ASSUME NEW image \in Strip, NEW rects, NEW value \in Pixel
  PROVE  /\ Paint(image, rects, value) \in Strip
         /\ DOMAIN Paint(image, rects, value) = DOMAIN image
         /\ Size(Paint(image, rects, value)) = Size(image)
<1> DEFINE f == Paint(image, rects, value)
<1>1. DOMAIN f = DOMAIN image /\ DOMAIN image = 0 .. Size(image) - 1 /\ Size(image) \in Nat
  BY StripSize DEF Paint
<1>2. f = [x \in 0 .. Size(image) - 1 |-> f[x]]
  BY <1>1 DEF Paint
<1>3. \A x \in DOMAIN image : f[x] \in Pixel
  BY StripSize DEF Paint
<1> HIDE DEF f
<1> QED
  BY <1>1, <1>2, <1>3, MakeStrip DEF f

LEMMA Cropping ==
  ASSUME NEW image \in Strip, NEW r \in Rect, r.x + r.width <= Size(image)
  PROVE  /\ crop(image, r) \in Strip /\ Size(crop(image, r)) = r.width
         /\ \A x \in 0 .. r.width - 1 : r.x + x \in DOMAIN image /\ crop(image, r)[x] = image[r.x + x]
<1> DEFINE f == crop(image, r)
<1>1. DOMAIN image = 0 .. Size(image) - 1 /\ Size(image) \in Nat /\ r.x \in Nat /\ r.width \in Nat
  BY StripSize DEF Rect
<1>2. f = [x \in 0 .. r.width - 1 |-> f[x]]
  BY DEF crop
<1>3. \A x \in 0 .. r.width - 1 : r.x + x \in DOMAIN image /\ f[x] = image[r.x + x]
  BY <1>1 DEF crop
<1>4. \A x \in 0 .. r.width - 1 : f[x] \in Pixel
  BY <1>3, StripSize
<1> HIDE DEF f
<1> QED
  BY <1>1, <1>2, <1>3, <1>4, MakeStrip DEF f

\* A set of indices that is not empty has a last one.
LEMMA Largest ==
  ASSUME NEW n \in Nat, NEW S \in SUBSET (0 .. n), S # {}
  PROVE  Max(S) \in S
<1> DEFINE Less == OpToRel(<, Nat)
           FromEnd == {n - k : k \in S}
<1>1. IsWellFoundedOn(Less, Nat)
  BY NatLessThanWellFounded
<1>2. \A i, j \in Nat : i < j => <<i, j>> \in Less
  BY DEF OpToRel
<1>3. FromEnd \subseteq Nat /\ FromEnd # {}
  <2>1. \A k \in S : n - k \in Nat
    OBVIOUS
  <2>2. PICK k \in S : TRUE
    OBVIOUS
  <2>3. n - k \in FromEnd
    OBVIOUS
  <2>4. \A y \in FromEnd : y \in Nat
    BY <2>1, Zenon
  <2> QED
    BY <2>3, <2>4
<1> HIDE DEF Less
<1>4. PICK m \in FromEnd : \A y \in FromEnd : <<y, m>> \notin Less
  <2> HIDE DEF FromEnd
  <2>1. \E x \in FromEnd : \A y \in FromEnd : ~ (<<y, x>> \in Less)
    BY <1>1, <1>3, WFMin
  <2> QED
    BY <2>1
<1>5. PICK k \in S : m = n - k
  OBVIOUS
<1>6. ASSUME NEW j \in S
      PROVE  k >= j
  <2>1. n - j \in FromEnd /\ n - j \in Nat /\ m \in Nat
    BY <1>3
  <2>2. ~ (n - j < m)
    BY <1>2, <1>4, <2>1
  <2> QED
    BY <1>5, <2>1, <2>2
<1> QED
  BY <1>6 DEF Max

\* Where the last of several copies that write a pixel takes it from.
LEMMA Writing ==
  ASSUME NEW source \in Strip, NEW r \in Rect, NEW dest \in Strip, NEW dests \in Seq(Nat),
         r.x + r.width <= Size(source), NEW x \in DOMAIN dest,
         {k \in DOMAIN dests : x \in copied(source, r, dest, dests[k])} # {}
  PROVE  LET at == dests[Max({k \in DOMAIN dests : x \in copied(source, r, dest, dests[k])})]
         IN  at \in Nat /\ at <= x /\ x - at < r.width /\ r.x + x - at \in DOMAIN source
<1> DEFINE Writers == {k \in DOMAIN dests : x \in copied(source, r, dest, dests[k])}
<1>0. /\ DOMAIN dest = 0 .. Size(dest) - 1 /\ Size(dest) \in Nat
      /\ DOMAIN source = 0 .. Size(source) - 1 /\ Size(source) \in Nat
      /\ r.x \in Nat /\ r.width \in Nat
  BY StripSize DEF Rect
<1>1. Writers \subseteq 1 .. Len(dests) /\ Len(dests) \in Nat
  OBVIOUS
<1>2. Max(Writers) \in Writers
  <2> DEFINE W == Writers
  <2>1. W # {} /\ W \subseteq 0 .. Len(dests) /\ Len(dests) \in Nat
    BY <1>0, <1>1
  <2> HIDE DEF W
  <2> QED
    BY <2>1, Largest DEF W
<1>3. PICK k \in DOMAIN dests : k = Max(Writers) /\ x \in copied(source, r, dest, dests[k])
  BY <1>2
<1>4. dests[k] \in Nat
  OBVIOUS
<1>5. /\ clip_copy(r, Size(source), dests[k], Size(dest)) \in Nat
      /\ clip_copy(r, Size(source), dests[k], Size(dest)) <= r.width
  <2>1. /\ clip_rect(r, Size(source)).width \in Nat
        /\ clip_rect(r, Size(source)).width <= r.width
    BY <1>0, Clipping DEF Rect
  <2>2. [x |-> dests[k], width |-> clip_rect(r, Size(source)).width] \in Rect
    BY <1>4, <2>1 DEF Rect
  <2>3. clip_copy(r, Size(source), dests[k], Size(dest)) <= clip_rect(r, Size(source)).width
        /\ clip_copy(r, Size(source), dests[k], Size(dest)) \in Nat
    BY <1>0, <2>2, Clipping DEF clip_copy, Rect
  <2> QED
    BY <1>0, <2>1, <2>3
<1> QED
  <2>1. dests[k] <= x /\ x < dests[k] + clip_copy(r, Size(source), dests[k], Size(dest)) /\ x \in DOMAIN dest
    BY <1>3 DEF copied
  <2> DEFINE at == dests[k]
             n == clip_copy(r, Size(source), at, Size(dest))
             size == Size(source)
             first == r.x
             width == r.width
  <2>3. /\ at \in Nat /\ n \in Nat /\ n <= width /\ at <= x /\ x < at + n /\ x \in Nat
        /\ first \in Nat /\ width \in Nat /\ size \in Nat /\ first + width <= size
    BY <1>0, <1>4, <1>5, <2>1
  <2>4. at <= x /\ x - at < width /\ first + x - at \in 0 .. size - 1
    <3> HIDE DEF at, n, size, first, width
    <3> QED
      BY <2>3
  <2>2. at \in Nat /\ at <= x /\ x - at < r.width /\ r.x + x - at \in 0 .. Size(source) - 1
    BY <2>3, <2>4
  <2> QED
    BY <1>0, <1>3, <2>2

\* What a pixel is after copies to several destinations: untouched, or one of the source's.
LEMMA Copying ==
  ASSUME NEW source \in Strip, NEW r \in Rect, NEW dest \in Strip, NEW dests \in Seq(Nat),
         r.x + r.width <= Size(source)
  PROVE  /\ Everywhere(source, r, dest, dests) \in Strip
         /\ DOMAIN Everywhere(source, r, dest, dests) = DOMAIN dest
         /\ Size(Everywhere(source, r, dest, dests)) = Size(dest)
         /\ \A x \in DOMAIN dest :
              LET writers == {k \in DOMAIN dests : x \in copied(source, r, dest, dests[k])}
                  at == dests[Max(writers)]
              IN  IF writers = {} THEN Everywhere(source, r, dest, dests)[x] = dest[x]
                  ELSE /\ at \in Nat /\ at <= x /\ x - at < r.width
                       /\ r.x + x - at \in DOMAIN source
                       /\ Everywhere(source, r, dest, dests)[x] = source[r.x + x - at]
<1> DEFINE f == Everywhere(source, r, dest, dests)
           Writers(x) == {k \in DOMAIN dests : x \in copied(source, r, dest, dests[k])}
<1>1. /\ DOMAIN dest = 0 .. Size(dest) - 1 /\ Size(dest) \in Nat
      /\ DOMAIN source = 0 .. Size(source) - 1 /\ Size(source) \in Nat
      /\ r.x \in Nat /\ r.width \in Nat
  BY StripSize DEF Rect
<1>2. DOMAIN f = DOMAIN dest /\ f = [x \in DOMAIN dest |-> f[x]]
      /\ \A x \in DOMAIN dest : f[x] = IF Writers(x) = {} THEN dest[x] ELSE source[r.x + x - dests[Max(Writers(x))]]
  BY DEF Everywhere
<1>3. ASSUME NEW x \in DOMAIN dest, Writers(x) # {}
      PROVE  LET at == dests[Max(Writers(x))]
             IN  at \in Nat /\ at <= x /\ x - at < r.width /\ r.x + x - at \in DOMAIN source
  BY <1>3, Writing
<1>4. \A x \in DOMAIN dest : f[x] \in Pixel
  BY <1>2, <1>3, StripSize
<1> HIDE DEF f
<1>5. f = [x \in 0 .. Size(dest) - 1 |-> f[x]]
  BY <1>1, <1>2
<1>6. f \in Strip /\ Size(f) = Size(dest)
  BY <1>1, <1>4, <1>5, MakeStrip
<1> QED
  BY <1>2, <1>3, <1>6 DEF f

-----------------------------------------------------------------------------
(* Scenes.                                                                  *)

LEMMA SameImage ==
  ASSUME NEW a \in Strip, NEW b \in Strip, DOMAIN a = DOMAIN b, \A x \in DOMAIN a : a[x] = b[x]
  PROVE  a = b
<1>1. PICK n \in Nat : a \in [0 .. n - 1 -> Pixel]
  BY DEF Strip
<1>2. PICK m \in Nat : b \in [0 .. m - 1 -> Pixel]
  BY DEF Strip
<1>3. a = [x \in DOMAIN a |-> a[x]] /\ b = [x \in DOMAIN b |-> b[x]]
  BY <1>1, <1>2
<1> QED
  BY <1>3

LEMMA SceneParts ==
  ASSUME NEW c \in Scene
  PROVE  /\ \A i \in Surfaces : /\ c.surfaces[i] \in Surface /\ Image(c, i) \in Strip
                                /\ c.surfaces[i].mapped \in BOOLEAN /\ c.surfaces[i].origin \in Nat
         /\ \A s \in Slots : c.cache[s] \in Strip
BY DEF Scene, Surface, Image

LEMMA SameScene ==
  ASSUME NEW a \in Scene, NEW b \in Scene,
         \A i \in Surfaces : Image(a, i) = Image(b, i) /\ a.surfaces[i].mapped = b.surfaces[i].mapped
                            /\ a.surfaces[i].origin = b.surfaces[i].origin,
         \A s \in Slots : a.cache[s] = b.cache[s]
  PROVE  a = b
<1>1. \A i \in Surfaces : a.surfaces[i] = b.surfaces[i]
  BY SceneParts DEF Surface, Image
<1>2. a.surfaces \in [Surfaces -> Surface] /\ b.surfaces \in [Surfaces -> Surface]
      /\ a.cache \in [Slots -> Strip] /\ b.cache \in [Slots -> Strip]
  BY DEF Scene
<1>3. a.surfaces = b.surfaces /\ a.cache = b.cache
  BY <1>1, <1>2
<1> QED
  BY <1>3 DEF Scene

LEMMA ResolvingScene ==
  ASSUME NEW c \in Scene, NEW from \in SUBSET Buffers, NEW contents, Filled(contents)
  PROVE  /\ ResolvedAll(c, from, contents) \in Scene
         /\ \A i \in Surfaces : /\ Image(ResolvedAll(c, from, contents), i) = Resolved(Image(c, i), from, contents)
                                /\ ResolvedAll(c, from, contents).surfaces[i].mapped = c.surfaces[i].mapped
                                /\ ResolvedAll(c, from, contents).surfaces[i].origin = c.surfaces[i].origin
                                /\ Exists(ResolvedAll(c, from, contents), i) <=> Exists(c, i)
         /\ \A s \in Slots : ResolvedAll(c, from, contents).cache[s] = Resolved(c.cache[s], from, contents)
<1> DEFINE surface(i) == [c.surfaces[i] EXCEPT !.image = Resolved(@, from, contents)]
<1>1. ASSUME NEW i \in Surfaces
      PROVE  /\ surface(i) \in Surface /\ surface(i).image = Resolved(Image(c, i), from, contents)
             /\ surface(i).mapped = c.surfaces[i].mapped /\ surface(i).origin = c.surfaces[i].origin
             /\ surface(i).image # NoImage <=> Exists(c, i)
  <2>1. c.surfaces[i] \in Surface /\ Image(c, i) \in Strip /\ Image(c, i) = c.surfaces[i].image
    BY SceneParts DEF Image
  <2>2. Resolved(Image(c, i), from, contents) \in Strip /\ (Resolved(Image(c, i), from, contents) = NoImage <=> Image(c, i) = NoImage)
    <3> DEFINE image == Image(c, i)
    <3>1. image \in Strip
      BY <2>1
    <3> HIDE DEF image
    <3>2. Resolved(image, from, contents) \in Strip /\ (Resolved(image, from, contents) = NoImage <=> image = NoImage)
      BY <3>1, Resolving
    <3> QED
      BY <3>2 DEF image
  <2> QED
    BY <2>1, <2>2 DEF Surface, Exists
<1>2. \A s \in Slots : Resolved(c.cache[s], from, contents) \in Strip
  BY SceneParts, Resolving
<1>3. ResolvedAll(c, from, contents) = [surfaces |-> [i \in Surfaces |-> surface(i)], cache |-> [s \in Slots |-> Resolved(c.cache[s], from, contents)]]
  BY DEF ResolvedAll
<1> HIDE DEF surface
<1> QED
  BY <1>1, <1>2, <1>3 DEF Scene, Image, Exists

LEMMA SeenParts ==
  ASSUME NEW c \in Scene, NEW contents, Filled(contents)
  PROVE  /\ Seen(c, contents) \in Scene
         /\ \A i \in Surfaces : /\ Image(Seen(c, contents), i) = Resolved(Image(c, i), Buffers, contents)
                                /\ Seen(c, contents).surfaces[i].mapped = c.surfaces[i].mapped
                                /\ Seen(c, contents).surfaces[i].origin = c.surfaces[i].origin
                                /\ Exists(Seen(c, contents), i) <=> Exists(c, i)
         /\ \A s \in Slots : Seen(c, contents).cache[s] = Resolved(c.cache[s], Buffers, contents)
<1>1. Buffers \in SUBSET Buffers
  OBVIOUS
<1> QED
  BY <1>1, ResolvingScene, Zenon DEF Seen

LEMMA Redraw ==
  ASSUME NEW c \in Scene, NEW i \in Surfaces, NEW image \in Strip
  PROVE  /\ WithImage(c, i, image) \in Scene
         /\ \A j \in Surfaces : /\ Image(WithImage(c, i, image), j) = IF j = i THEN image ELSE Image(c, j)
                                /\ WithImage(c, i, image).surfaces[j].mapped = c.surfaces[j].mapped
                                /\ WithImage(c, i, image).surfaces[j].origin = c.surfaces[j].origin
         /\ \A s \in Slots : WithImage(c, i, image).cache[s] = c.cache[s]
BY DEF Scene, Surface, WithImage, Image

LEMMA SeenRedraw ==
  ASSUME NEW c \in Scene, NEW i \in Surfaces, NEW image \in Strip, NEW contents, Filled(contents)
  PROVE  Seen(WithImage(c, i, image), contents) = WithImage(Seen(c, contents), i, Resolved(image, Buffers, contents))
<1>1. Resolved(image, Buffers, contents) \in Strip /\ Seen(c, contents) \in Scene /\ WithImage(c, i, image) \in Scene
  BY Resolving, SeenParts, Redraw
<1>2. Seen(WithImage(c, i, image), contents) \in Scene /\ WithImage(Seen(c, contents), i, Resolved(image, Buffers, contents)) \in Scene
  BY <1>1, SeenParts, Redraw
<1> DEFINE a == Seen(WithImage(c, i, image), contents)
           b == WithImage(Seen(c, contents), i, Resolved(image, Buffers, contents))
           w == WithImage(c, i, image)
<1>3. ASSUME NEW j \in Surfaces
      PROVE  Image(a, j) = Image(b, j) /\ a.surfaces[j].mapped = b.surfaces[j].mapped
             /\ a.surfaces[j].origin = b.surfaces[j].origin
  <2>1. Image(a, j) = Resolved(Image(w, j), Buffers, contents) /\ a.surfaces[j].mapped = w.surfaces[j].mapped
        /\ a.surfaces[j].origin = w.surfaces[j].origin
    BY <1>1, SeenParts
  <2>2. Image(w, j) = (IF j = i THEN image ELSE Image(c, j)) /\ w.surfaces[j].mapped = c.surfaces[j].mapped
        /\ w.surfaces[j].origin = c.surfaces[j].origin
    BY Redraw
  <2>3. Image(b, j) = (IF j = i THEN Resolved(image, Buffers, contents) ELSE Image(Seen(c, contents), j))
        /\ b.surfaces[j].mapped = Seen(c, contents).surfaces[j].mapped /\ b.surfaces[j].origin = Seen(c, contents).surfaces[j].origin
    BY <1>1, Redraw
  <2>4. Image(Seen(c, contents), j) = Resolved(Image(c, j), Buffers, contents) /\ Seen(c, contents).surfaces[j].mapped = c.surfaces[j].mapped
        /\ Seen(c, contents).surfaces[j].origin = c.surfaces[j].origin
    BY SeenParts
  <2> HIDE DEF a, b, w
  <2> QED
    BY <2>1, <2>2, <2>3, <2>4
<1>4. ASSUME NEW s \in Slots
      PROVE  a.cache[s] = b.cache[s]
  <2>1. a.cache[s] = Resolved(w.cache[s], Buffers, contents) /\ w.cache[s] = c.cache[s]
    BY <1>1, SeenParts, Redraw
  <2>2. b.cache[s] = Seen(c, contents).cache[s] /\ Seen(c, contents).cache[s] = Resolved(c.cache[s], Buffers, contents)
    BY <1>1, SeenParts, Redraw
  <2> HIDE DEF a, b, w
  <2> QED
    BY <2>1, <2>2
<1> HIDE DEF a, b
<1>5. a \in Scene /\ b \in Scene
  BY <1>2 DEF a, b
<1>6. a = b
  BY <1>3, <1>4, <1>5, SameScene
<1> QED
  BY <1>6 DEF a, b

-----------------------------------------------------------------------------
(* Reading the buffers late gives what drawing their contents gives.        *)

LEMMA SeenPaint ==
  ASSUME NEW image \in Strip, NEW rects, NEW value \in Pixel, NEW contents, Filled(contents),
         NEW content, content = IF value \in Buffers THEN contents[value] ELSE value
  PROVE  Resolved(Paint(image, rects, value), Buffers, contents) = Paint(Resolved(image, Buffers, contents), rects, content)
<1>1. content \in Pixel
  BY DEF Filled
<1> DEFINE p == Paint(image, rects, value)
           q == Resolved(image, Buffers, contents)
           a == Resolved(p, Buffers, contents)
           b == Paint(q, rects, content)
<1>2. p \in Strip /\ q \in Strip /\ DOMAIN p = DOMAIN image /\ DOMAIN q = DOMAIN image
  BY Painting, Resolving
<1>3. a \in Strip /\ b \in Strip /\ DOMAIN a = DOMAIN image /\ DOMAIN b = DOMAIN image
  BY <1>1, <1>2, Painting, Resolving
<1>4. ASSUME NEW x \in DOMAIN image
      PROVE  a[x] = b[x]
  <2>1. a[x] = IF p[x] \in Buffers THEN contents[p[x]] ELSE p[x]
    BY <1>2 DEF Resolved
  <2>2. q[x] = IF image[x] \in Buffers THEN contents[image[x]] ELSE image[x]
    BY DEF Resolved
  <2>3. p[x] = IF \E r \in rects : r.x <= x /\ x < r.x + r.width THEN value ELSE image[x]
    BY DEF Paint
  <2>4. b[x] = IF \E r \in rects : r.x <= x /\ x < r.x + r.width THEN content ELSE q[x]
    BY <1>2 DEF Paint
  <2> HIDE DEF a, b, p, q
  <2> QED
    BY <2>1, <2>2, <2>3, <2>4
<1> HIDE DEF a, b
<1>5. a = b
  BY <1>3, <1>4, SameImage
<1> QED
  BY <1>5 DEF a, b

LEMMA SeenCrop ==
  ASSUME NEW image \in Strip, NEW r \in Rect, r.x + r.width <= Size(image), NEW contents, Filled(contents)
  PROVE  Resolved(crop(image, r), Buffers, contents) = crop(Resolved(image, Buffers, contents), r)
<1> DEFINE p == crop(image, r)
           q == Resolved(image, Buffers, contents)
           a == Resolved(p, Buffers, contents)
           b == crop(q, r)
<1>1. p \in Strip /\ q \in Strip /\ Size(q) = Size(image) /\ DOMAIN q = DOMAIN image
      /\ Size(p) = r.width /\ \A x \in 0 .. r.width - 1 : r.x + x \in DOMAIN image /\ p[x] = image[r.x + x]
  BY Cropping, Resolving
<1>2. DOMAIN p = 0 .. r.width - 1
  BY <1>1, StripSize
<1>3. a \in Strip /\ DOMAIN a = DOMAIN p /\ b \in Strip /\ Size(b) = r.width
      /\ \A x \in 0 .. r.width - 1 : b[x] = q[r.x + x]
  BY <1>1, Cropping, Resolving
<1>4. DOMAIN b = 0 .. r.width - 1
  BY <1>3, StripSize
<1>5. ASSUME NEW x \in 0 .. r.width - 1
      PROVE  a[x] = b[x]
  <2>1. a[x] = IF p[x] \in Buffers THEN contents[p[x]] ELSE p[x]
    BY <1>2 DEF Resolved
  <2>2. q[r.x + x] = IF image[r.x + x] \in Buffers THEN contents[image[r.x + x]] ELSE image[r.x + x]
    BY <1>1 DEF Resolved
  <2> HIDE DEF a, b, p, q
  <2> QED
    BY <1>1, <1>3, <2>1, <2>2
<1> HIDE DEF a, b
<1>6. a = b
  BY <1>2, <1>3, <1>4, <1>5, SameImage
<1> QED
  BY <1>6 DEF a, b

LEMMA SeenCopies ==
  ASSUME NEW source \in Strip, NEW r \in Rect, NEW dest \in Strip, NEW dests \in Seq(Nat),
         r.x + r.width <= Size(source), NEW contents, Filled(contents)
  PROVE  Resolved(Everywhere(source, r, dest, dests), Buffers, contents)
           = Everywhere(Resolved(source, Buffers, contents), r, Resolved(dest, Buffers, contents), dests)
<1> DEFINE s == Resolved(source, Buffers, contents)
           d == Resolved(dest, Buffers, contents)
           p == Everywhere(source, r, dest, dests)
           a == Resolved(p, Buffers, contents)
           b == Everywhere(s, r, d, dests)
           Writers(x) == {k \in DOMAIN dests : x \in copied(source, r, dest, dests[k])}
           Others(x) == {k \in DOMAIN dests : x \in copied(s, r, d, dests[k])}
<1>1. s \in Strip /\ d \in Strip /\ DOMAIN s = DOMAIN source /\ DOMAIN d = DOMAIN dest
      /\ Size(s) = Size(source) /\ Size(d) = Size(dest)
  BY Resolving
<1>2. p \in Strip /\ DOMAIN p = DOMAIN dest
  BY Copying
<1>3. a \in Strip /\ DOMAIN a = DOMAIN dest
  <2> HIDE DEF p
  <2> QED
    BY <1>2, Resolving
<1>7. b \in Strip /\ DOMAIN b = DOMAIN dest
  <2>1. r.x + r.width <= Size(s)
    BY <1>1
  <2> HIDE DEF s, d
  <2> QED
    BY <1>1, <2>1, Copying
<1>4. \A at : copied(s, r, d, at) = copied(source, r, dest, at)
  <2> HIDE DEF s, d
  <2> QED
    BY <1>1 DEF copied
<1>5. ASSUME NEW x \in DOMAIN dest
      PROVE  a[x] = b[x]
  <2>1. Others(x) = Writers(x)
    BY <1>4
  <2>2. a[x] = IF p[x] \in Buffers THEN contents[p[x]] ELSE p[x]
    BY <1>2 DEF Resolved
  <2>3. p[x] = IF Writers(x) = {} THEN dest[x] ELSE source[r.x + x - dests[Max(Writers(x))]]
    BY DEF Everywhere
  <2>4. b[x] = IF Others(x) = {} THEN d[x] ELSE s[r.x + x - dests[Max(Others(x))]]
    BY <1>1 DEF Everywhere
  <2>5. d[x] = IF dest[x] \in Buffers THEN contents[dest[x]] ELSE dest[x]
    BY DEF Resolved
  <2>6. Writers(x) # {} => r.x + x - dests[Max(Writers(x))] \in DOMAIN source
    BY Copying
  <2>7. \A y \in DOMAIN source : s[y] = IF source[y] \in Buffers THEN contents[source[y]] ELSE source[y]
    BY DEF Resolved
  <2> DEFINE at == r.x + x - dests[Max(Writers(x))]
             none == Writers(x) = {}
  <2>8. a[x] = (IF p[x] \in Buffers THEN contents[p[x]] ELSE p[x]) /\ p[x] = (IF none THEN dest[x] ELSE source[at])
        /\ b[x] = (IF none THEN d[x] ELSE s[at]) /\ (~none => at \in DOMAIN source)
    BY <2>1, <2>2, <2>3, <2>4, <2>6
  <2> HIDE DEF a, b, p, s, d, Writers, Others, at, none
  <2> QED
    BY <2>5, <2>7, <2>8
<1> HIDE DEF a, b
<1>6. a = b
  BY <1>3, <1>5, <1>7, SameImage
<1> QED
  BY <1>6 DEF a, b

\* A copy from a snapshot of a part is the copy of that part.
LEMMA Snapshot ==
  ASSUME NEW source \in Strip, NEW r \in Rect, NEW dest \in Strip, NEW dests \in Seq(Nat),
         r.x + r.width <= Size(source), r.width # 0
  PROVE  Everywhere(crop(source, r), [x |-> 0, width |-> r.width], dest, dests) = Everywhere(source, r, dest, dests)
<1> DEFINE whole == [x |-> 0, width |-> r.width]
           part == crop(source, r)
           a == Everywhere(part, whole, dest, dests)
           b == Everywhere(source, r, dest, dests)
           Writers(x) == {k \in DOMAIN dests : x \in copied(source, r, dest, dests[k])}
           Others(x) == {k \in DOMAIN dests : x \in copied(part, whole, dest, dests[k])}
<1>1. r.x \in Nat /\ r.width \in Nat /\ whole \in Rect /\ Size(source) \in Nat /\ Size(dest) \in Nat
  BY StripSize DEF Rect
<1>2. part \in Strip /\ Size(part) = r.width
      /\ \A x \in 0 .. r.width - 1 : r.x + x \in DOMAIN source /\ part[x] = source[r.x + x]
  BY Cropping
<1>3. whole.x + whole.width <= Size(part)
  BY <1>1, <1>2
<1>4. a \in Strip /\ b \in Strip /\ DOMAIN a = DOMAIN dest /\ DOMAIN b = DOMAIN dest
  BY <1>1, <1>2, <1>3, Copying
<1>5. \A at : copied(part, whole, dest, at) = copied(source, r, dest, at)
  <2>1. clip_rect(r, Size(source)) = r
    BY <1>1, Clipping DEF Within
  <2>2. clip_rect(whole, Size(part)) = whole
    BY <1>1, <1>2, <1>3, Clipping DEF Within
  <2>3. whole.width = r.width
    OBVIOUS
  <2> HIDE DEF whole, part
  <2> QED
    BY <2>1, <2>2, <2>3 DEF copied, clip_copy
<1>6. ASSUME NEW x \in DOMAIN dest
      PROVE  a[x] = b[x]
  <2>1. Others(x) = Writers(x)
    BY <1>5
  <2>2. a[x] = IF Others(x) = {} THEN dest[x] ELSE part[0 + x - dests[Max(Others(x))]]
    BY DEF Everywhere
  <2>3. b[x] = IF Writers(x) = {} THEN dest[x] ELSE source[r.x + x - dests[Max(Writers(x))]]
    BY DEF Everywhere
  <2>4. Writers(x) # {} => LET at == dests[Max(Writers(x))] IN at \in Nat /\ at <= x /\ x - at < r.width
    BY Writing
  <2>5. x \in Nat
    BY StripSize
  <2> DEFINE at == dests[Max(Writers(x))]
             none == Writers(x) = {}
  <2>6. a[x] = (IF none THEN dest[x] ELSE part[0 + x - at]) /\ b[x] = (IF none THEN dest[x] ELSE source[r.x + x - at])
        /\ (~none => at \in Nat /\ at <= x /\ x - at < r.width)
    BY <2>1, <2>2, <2>3, <2>4
  <2> HIDE DEF a, b, part, at, none, Writers, Others
  <2>7. CASE ~none
    <3>1. 0 + x - at \in 0 .. r.width - 1 /\ r.x + (0 + x - at) = r.x + x - at
      BY <1>1, <2>5, <2>6, <2>7
    <3> QED
      BY <1>2, <2>6, <2>7, <3>1
  <2> QED
    BY <2>6, <2>7
<1> HIDE DEF a, b
<1>7. a = b
  BY <1>4, <1>6, SameImage
<1> QED
  BY <1>7 DEF a, b, part, whole

\* Numbers that are pixels in every buffer, never a reference to one.
Plain == {v \in Pixel : v \notin Buffers}

LEMMA BufferNames == MaxPdus \in Nat /\ \A b \in Buffers : b \in Nat /\ b > 2 + MaxPdus
BY CompositingAssumption

LEMMA PlainValues ==
  /\ Black \in Plain /\ Fill \in Plain /\ Tile \in Plain
  /\ \A n \in 0 .. MaxPdus : PictureValue(n) \in Plain
<1>1. MaxPdus \in Nat /\ \A b \in Buffers : b \in Nat /\ b > 2 + MaxPdus
  BY BufferNames
<1>2. \A v \in 0 .. 2 + MaxPdus : v \in Nat /\ v \notin Buffers
  BY <1>1
<1> QED
  BY <1>1, <1>2 DEF Plain, Pixel, Black, Fill, Tile, PictureValue

LEMMA SeenPlain ==
  ASSUME NEW n \in Nat, NEW contents, Filled(contents)
  PROVE  Resolved(Blank(n), Buffers, contents) = Blank(n)
<1> DEFINE a == Resolved(Blank(n), Buffers, contents)
<1>1. Blank(n) \in Strip /\ a \in Strip /\ DOMAIN a = DOMAIN Blank(n)
  <2>1. Blank(n) \in Strip
    BY Blanks
  <2> DEFINE image == Blank(n)
  <2> HIDE DEF image
  <2>2. Resolved(image, Buffers, contents) \in Strip /\ DOMAIN Resolved(image, Buffers, contents) = DOMAIN image
    <3>1. image \in Strip
      BY <2>1 DEF image
    <3> QED
      BY <3>1, Resolving
  <2> QED
    BY <2>1, <2>2 DEF image
<1>2. ASSUME NEW x \in DOMAIN Blank(n)
      PROVE  a[x] = Blank(n)[x]
  <2>1. Blank(n)[x] = Black /\ Black \notin Buffers
    BY PlainValues DEF Blank, Plain
  <2> QED
    BY <2>1 DEF Resolved
<1> HIDE DEF a
<1>3. a = Blank(n)
  BY <1>1, <1>2, SameImage
<1> QED
  BY <1>3 DEF a

LEMMA Emptiness ==
  /\ Empty \in Scene
  /\ \A i \in Surfaces : /\ Image(Empty, i) = NoImage /\ ~Empty.surfaces[i].mapped
                         /\ Empty.surfaces[i].origin = 0
  /\ \A s \in Slots : Empty.cache[s] = NoImage
BY Blanks DEF Empty, Scene, Surface, NoSurface, Image

-----------------------------------------------------------------------------
(* Drawing calls.                                                           *)

Call ==
  [op : {"reset"}]
  \cup [op : {"create"}, id : Surfaces, size : Nat \ {0}]
  \cup [op : {"delete"}, id : Surfaces]
  \cup [op : {"map"}, id : Surfaces, at : Nat]
  \cup [op : {"fill", "bgra"}, id : Surfaces, rects : SUBSET Rect, value : Plain]
  \cup [op : {"nv12"}, id : Surfaces, rects : SUBSET Rect, buffer : Buffers, value : Plain]
  \cup [op : {"surface_to_surface"}, src : Surfaces, id : Surfaces, rect : Rect, dests : Seq(Nat)]
  \cup [op : {"surface_to_cache"}, id : Surfaces, rect : Rect, slot : Slots]
  \cup [op : {"cache_to_surface"}, slot : Slots, id : Surfaces, dests : Seq(Nat)]
  \cup [op : {"evict"}, slot : Slots]

\* The other messages to the render thread.
Mark == [op : {"end_frame"}, ended : Strip] \cup [op : {"set_visible"}, value : BOOLEAN]

LEMMA CallParts ==
  ASSUME NEW call \in Call
  PROVE  /\ call.op \in {"reset", "create", "delete", "map", "fill", "bgra", "nv12", "surface_to_surface",
                         "surface_to_cache", "cache_to_surface", "evict"}
         /\ call.op \notin {"reset", "evict"} => call.id \in Surfaces
         /\ call.op = "create" => call.size \in Nat \ {0}
         /\ call.op = "map" => call.at \in Nat
         /\ call.op \in {"fill", "bgra", "nv12"} => call.value \in Plain
         /\ call.op = "nv12" => call.buffer \in Buffers
         /\ call.op = "surface_to_surface" => call.src \in Surfaces
         /\ call.op \in {"surface_to_surface", "surface_to_cache"} => call.rect \in Rect
         /\ call.op \in {"surface_to_surface", "cache_to_surface"} => call.dests \in Seq(Nat)
         /\ call.op \in {"surface_to_cache", "cache_to_surface", "evict"} => call.slot \in Slots
BY DEF Call

LEMMA MarkParts ==
  ASSUME NEW call \in Mark
  PROVE  /\ call.op \in {"end_frame", "set_visible"}
         /\ call.op = "end_frame" => call.ended \in Strip
         /\ call.op = "set_visible" => call.value \in BOOLEAN
BY DEF Mark

\* A call draws a scene from a scene.
LEMMA Drawing ==
  ASSUME NEW c \in Scene, NEW call \in Call
  PROVE  CpuCall(c, call) \in Scene
<1> USE CallParts
<1>1. CASE call.op = "reset"
  BY <1>1, Emptiness DEF CpuCall
<1>2. CASE call.op = "create"
  <2>1. call.size \in Nat /\ call.id \in Surfaces
    BY <1>2
  <2>2. NewSurface(call.size) \in Surface
    BY <2>1, Blanks DEF NewSurface, Surface
  <2> QED
    BY <1>2, <2>1, <2>2 DEF CpuCall, Scene
<1>3. CASE call.op = "delete"
  <2>1. NoSurface \in Surface /\ call.id \in Surfaces
    BY <1>3, Blanks DEF NoSurface, Surface
  <2> QED
    BY <1>3, <2>1 DEF CpuCall, Scene
<1>4. CASE call.op = "map"
  <2>1. call.at \in Nat /\ call.id \in Surfaces
    BY <1>4
  <2>2. CpuCall(c, call) = c
        \/ CpuCall(c, call) = [c EXCEPT !.surfaces[call.id].mapped = TRUE, !.surfaces[call.id].origin = call.at]
    BY <1>4 DEF CpuCall
  <2> DEFINE moved == [c.surfaces[call.id] EXCEPT !.mapped = TRUE, !.origin = call.at]
  <2>3. moved \in Surface
    BY <2>1, SceneParts DEF Surface
  <2>4. [c EXCEPT !.surfaces[call.id].mapped = TRUE, !.surfaces[call.id].origin = call.at]
          = [c EXCEPT !.surfaces[call.id] = moved]
    BY <2>1 DEF Scene
  <2> HIDE DEF moved
  <2> QED
    BY <2>1, <2>2, <2>3, <2>4 DEF Scene
<1>5. CASE call.op \in {"fill", "bgra", "nv12"}
  <2>1. call.id \in Surfaces /\ call.value \in Pixel
    BY <1>5 DEF Plain
  <2>2. CpuCall(c, call) = c \/ CpuCall(c, call) = WithImage(c, call.id, Paint(Image(c, call.id), call.rects, call.value))
    BY <1>5 DEF CpuCall
  <2>3. Image(c, call.id) \in Strip
    BY <2>1, SceneParts
  <2>4. Paint(Image(c, call.id), call.rects, call.value) \in Strip
    BY <2>1, <2>3, Painting
  <2> QED
    BY <2>1, <2>2, <2>4, Redraw
<1>6. CASE call.op = "surface_to_surface"
  <2>1. call.src \in Surfaces /\ call.id \in Surfaces /\ call.rect \in Rect /\ call.dests \in Seq(Nat)
    BY <1>6
  <2> DEFINE source == Image(c, call.src)
             dest == Image(c, call.id)
             r == clip_rect(call.rect, Size(source))
             whole == [x |-> 0, width |-> r.width]
  <2>2. source \in Strip /\ dest \in Strip /\ Size(source) \in Nat
    BY <2>1, SceneParts, StripSize
  <2>3. r \in Rect /\ (r.width # 0 => r.x + r.width <= Size(source))
    <3> HIDE DEF source
    <3> QED
      BY <2>1, <2>2, Clipping
  <2>4. CpuCall(c, call) = c
        \/ (r.width # 0 /\ CpuCall(c, call) = WithImage(c, call.id, Everywhere(crop(source, r), whole, dest, call.dests)))
    BY <1>6 DEF CpuCall
  <2>5. CASE r.width # 0
    <3> HIDE DEF source, dest, r
    <3>1. crop(source, r) \in Strip /\ Size(crop(source, r)) = r.width
      BY <2>2, <2>3, <2>5, Cropping
    <3>2. whole \in Rect /\ whole.x + whole.width <= Size(crop(source, r))
      BY <2>3, <3>1 DEF Rect
    <3> HIDE DEF whole
    <3>3. Everywhere(crop(source, r), whole, dest, call.dests) \in Strip
      BY <2>1, <2>2, <3>1, <3>2, Copying
    <3> QED
      BY <2>1, <2>4, <3>3, Redraw
  <2> QED
    BY <2>4, <2>5
<1>7. CASE call.op = "surface_to_cache"
  <2>1. call.id \in Surfaces /\ call.rect \in Rect /\ call.slot \in Slots
    BY <1>7
  <2> DEFINE source == Image(c, call.id)
             r == clip_rect(call.rect, Size(source))
  <2>2. source \in Strip /\ Size(source) \in Nat
    BY <2>1, SceneParts, StripSize
  <2>3. r \in Rect /\ (r.width # 0 => r.x + r.width <= Size(source))
    <3> HIDE DEF source
    <3> QED
      BY <2>1, <2>2, Clipping
  <2>4. CpuCall(c, call) = c \/ (r.width # 0 /\ CpuCall(c, call) = [c EXCEPT !.cache[call.slot] = crop(source, r)])
    BY <1>7 DEF CpuCall
  <2>5. r.width # 0 => crop(source, r) \in Strip
    <3> HIDE DEF source, r
    <3> QED
      BY <2>2, <2>3, Cropping
  <2> HIDE DEF source, r
  <2> QED
    BY <2>1, <2>4, <2>5 DEF Scene
<1>8. CASE call.op = "cache_to_surface"
  <2>1. call.id \in Surfaces /\ call.dests \in Seq(Nat) /\ call.slot \in Slots
    BY <1>8
  <2> DEFINE source == c.cache[call.slot]
             dest == Image(c, call.id)
             whole == [x |-> 0, width |-> Size(source)]
  <2>2. source \in Strip /\ dest \in Strip /\ Size(source) \in Nat
    BY <2>1, SceneParts, StripSize
  <2>3. CpuCall(c, call) = c \/ CpuCall(c, call) = WithImage(c, call.id, Everywhere(source, whole, dest, call.dests))
    BY <1>8 DEF CpuCall
  <2>4. whole \in Rect /\ whole.x + whole.width <= Size(source)
    BY <2>2 DEF Rect
  <2>5. Everywhere(source, whole, dest, call.dests) \in Strip
    <3> HIDE DEF source, dest, whole
    <3> QED
      BY <2>1, <2>2, <2>4, Copying
  <2> HIDE DEF source, dest, whole
  <2> QED
    BY <2>1, <2>3, <2>5, Redraw
<1>9. CASE call.op = "evict"
  BY <1>9, Blanks DEF CpuCall, Scene
<1> QED
  BY <1>1, <1>2, <1>3, <1>4, <1>5, <1>6, <1>7, <1>8, <1>9

LEMMA SeenSurface ==
  ASSUME NEW c \in Scene, NEW i \in Surfaces, NEW surface \in Surface, NEW contents, Filled(contents)
  PROVE  /\ [c EXCEPT !.surfaces[i] = surface] \in Scene
         /\ Seen([c EXCEPT !.surfaces[i] = surface], contents)
              = [Seen(c, contents) EXCEPT !.surfaces[i] = [surface EXCEPT !.image = Resolved(@, Buffers, contents)]]
<1> DEFINE d == [c EXCEPT !.surfaces[i] = surface]
           shown == [surface EXCEPT !.image = Resolved(@, Buffers, contents)]
           a == Seen(d, contents)
           b == [Seen(c, contents) EXCEPT !.surfaces[i] = shown]
<1>1. d \in Scene /\ (\A j \in Surfaces : d.surfaces[j] = IF j = i THEN surface ELSE c.surfaces[j])
      /\ \A s \in Slots : d.cache[s] = c.cache[s]
  BY DEF Scene
<1>2. surface.image \in Strip /\ Resolved(surface.image, Buffers, contents) \in Strip
  BY Resolving DEF Surface
<1>3. /\ shown \in Surface /\ shown.image = Resolved(surface.image, Buffers, contents)
      /\ shown.mapped = surface.mapped /\ shown.origin = surface.origin
  BY <1>2 DEF Surface
<1>4. Seen(c, contents) \in Scene
  BY SeenParts
<1>5. b \in Scene /\ (\A j \in Surfaces : b.surfaces[j] = IF j = i THEN shown ELSE Seen(c, contents).surfaces[j])
      /\ \A s \in Slots : b.cache[s] = Seen(c, contents).cache[s]
  <2> HIDE DEF shown
  <2> QED
    BY <1>3, <1>4 DEF Scene
<1> HIDE DEF d, shown, b
<1>6. a \in Scene /\ (\A j \in Surfaces : Image(a, j) = Resolved(Image(d, j), Buffers, contents)
                       /\ a.surfaces[j].mapped = d.surfaces[j].mapped /\ a.surfaces[j].origin = d.surfaces[j].origin)
      /\ \A s \in Slots : a.cache[s] = Resolved(d.cache[s], Buffers, contents)
  BY <1>1, SeenParts
<1>7. (\A j \in Surfaces : Image(Seen(c, contents), j) = Resolved(Image(c, j), Buffers, contents)
         /\ Seen(c, contents).surfaces[j].mapped = c.surfaces[j].mapped
         /\ Seen(c, contents).surfaces[j].origin = c.surfaces[j].origin)
      /\ \A s \in Slots : Seen(c, contents).cache[s] = Resolved(c.cache[s], Buffers, contents)
  BY SeenParts
<1> HIDE DEF a
<1>8. ASSUME NEW j \in Surfaces
      PROVE  Image(a, j) = Image(b, j) /\ a.surfaces[j].mapped = b.surfaces[j].mapped
             /\ a.surfaces[j].origin = b.surfaces[j].origin
  BY <1>1, <1>3, <1>5, <1>6, <1>7 DEF Image
<1>9. \A s \in Slots : a.cache[s] = b.cache[s]
  BY <1>1, <1>5, <1>6, <1>7
<1>10. a = b
  BY <1>5, <1>6, <1>8, <1>9, SameScene
<1> QED
  BY <1>1, <1>10 DEF a, b, d, shown

LEMMA SeenSlot ==
  ASSUME NEW c \in Scene, NEW s \in Slots, NEW image \in Strip, NEW contents, Filled(contents)
  PROVE  /\ [c EXCEPT !.cache[s] = image] \in Scene
         /\ Seen([c EXCEPT !.cache[s] = image], contents)
              = [Seen(c, contents) EXCEPT !.cache[s] = Resolved(image, Buffers, contents)]
<1> DEFINE d == [c EXCEPT !.cache[s] = image]
           shown == Resolved(image, Buffers, contents)
           a == Seen(d, contents)
           b == [Seen(c, contents) EXCEPT !.cache[s] = shown]
<1>1. d \in Scene /\ (\A i \in Surfaces : d.surfaces[i] = c.surfaces[i])
      /\ \A t \in Slots : d.cache[t] = IF t = s THEN image ELSE c.cache[t]
  BY DEF Scene
<1>2. shown \in Strip /\ Seen(c, contents) \in Scene
  BY Resolving, SeenParts
<1>3. b \in Scene /\ (\A i \in Surfaces : b.surfaces[i] = Seen(c, contents).surfaces[i])
      /\ \A t \in Slots : b.cache[t] = IF t = s THEN shown ELSE Seen(c, contents).cache[t]
  <2> HIDE DEF shown
  <2> QED
    BY <1>2 DEF Scene
<1> HIDE DEF d, b
<1>4. a \in Scene /\ (\A j \in Surfaces : Image(a, j) = Resolved(Image(d, j), Buffers, contents)
                       /\ a.surfaces[j].mapped = d.surfaces[j].mapped /\ a.surfaces[j].origin = d.surfaces[j].origin)
      /\ \A t \in Slots : a.cache[t] = Resolved(d.cache[t], Buffers, contents)
  BY <1>1, SeenParts
<1>5. (\A j \in Surfaces : Image(Seen(c, contents), j) = Resolved(Image(c, j), Buffers, contents)
         /\ Seen(c, contents).surfaces[j].mapped = c.surfaces[j].mapped
         /\ Seen(c, contents).surfaces[j].origin = c.surfaces[j].origin)
      /\ \A t \in Slots : Seen(c, contents).cache[t] = Resolved(c.cache[t], Buffers, contents)
  BY SeenParts
<1> HIDE DEF a
<1>6. \A j \in Surfaces : Image(a, j) = Image(b, j) /\ a.surfaces[j].mapped = b.surfaces[j].mapped
                         /\ a.surfaces[j].origin = b.surfaces[j].origin
  BY <1>1, <1>3, <1>4, <1>5 DEF Image
<1>7. \A t \in Slots : a.cache[t] = b.cache[t]
  BY <1>1, <1>3, <1>4, <1>5
<1>8. a = b
  BY <1>3, <1>4, <1>6, <1>7, SameScene
<1> QED
  BY <1>1, <1>8 DEF a, b, d

\* Drawing a call and then reading the buffers is drawing it on what they hold.
LEMMA SeenDrawing ==
  ASSUME NEW c \in Scene, NEW call \in Call, call.op # "nv12", NEW contents, Filled(contents)
  PROVE  Seen(CpuCall(c, call), contents) = CpuCall(Seen(c, contents), call)
<1> DEFINE seen == Seen(c, contents)
           Shown(image) == Resolved(image, Buffers, contents)
<1>0. /\ seen \in Scene
      /\ \A i \in Surfaces : Image(seen, i) = Shown(Image(c, i)) /\ (Exists(seen, i) <=> Exists(c, i))
      /\ \A s \in Slots : seen.cache[s] = Shown(c.cache[s])
  BY SeenParts
<1>1. CASE call.op = "reset"
  <2>1. Shown(NoImage) = NoImage
    BY SeenPlain DEF NoImage
  <2>2. Empty \in Scene /\ Seen(Empty, contents) \in Scene
    BY Emptiness, SeenParts
  <2>3. \A i \in Surfaces : Image(Seen(Empty, contents), i) = Image(Empty, i)
          /\ Seen(Empty, contents).surfaces[i].mapped = Empty.surfaces[i].mapped
          /\ Seen(Empty, contents).surfaces[i].origin = Empty.surfaces[i].origin
    BY <2>1, <2>2, Emptiness, SeenParts
  <2>4. \A s \in Slots : Seen(Empty, contents).cache[s] = Empty.cache[s]
    BY <2>1, <2>2, Emptiness, SeenParts
  <2>5. Seen(Empty, contents) = Empty
    BY <2>2, <2>3, <2>4, SameScene
  <2> QED
    BY <1>1, <2>5 DEF CpuCall
<1>2. CASE call.op = "create"
  <2>1. call.size \in Nat /\ call.id \in Surfaces
    BY <1>2, CallParts
  <2>2. NewSurface(call.size) \in Surface /\ NewSurface(call.size).image = Blank(call.size)
    BY <2>1, Blanks DEF NewSurface, Surface
  <2>3. [NewSurface(call.size) EXCEPT !.image = Shown(@)] = NewSurface(call.size)
    BY <2>1, <2>2, SeenPlain DEF NewSurface
  <2> HIDE DEF seen
  <2>4. Seen([c EXCEPT !.surfaces[call.id] = NewSurface(call.size)], contents)
          = [seen EXCEPT !.surfaces[call.id] = NewSurface(call.size)]
    BY <2>1, <2>2, <2>3, SeenSurface DEF seen
  <2> QED
    BY <1>2, <2>4 DEF CpuCall, seen
<1>3. CASE call.op = "delete"
  <2>1. call.id \in Surfaces
    BY <1>3, CallParts
  <2>2. NoSurface \in Surface /\ NoSurface.image = Blank(0)
    BY Blanks DEF NoSurface, Surface, NoImage
  <2>3. [NoSurface EXCEPT !.image = Shown(@)] = NoSurface
    BY <2>2, SeenPlain DEF NoSurface
  <2> HIDE DEF seen
  <2>4. Seen([c EXCEPT !.surfaces[call.id] = NoSurface], contents) = [seen EXCEPT !.surfaces[call.id] = NoSurface]
    BY <2>1, <2>2, <2>3, SeenSurface DEF seen
  <2> QED
    BY <1>3, <2>4 DEF CpuCall, seen
<1>4. CASE call.op = "map"
  <2>1. call.at \in Nat /\ call.id \in Surfaces
    BY <1>4, CallParts
  <2> DEFINE moved == [c.surfaces[call.id] EXCEPT !.mapped = TRUE, !.origin = call.at]
  <2>2. moved \in Surface /\ moved.image = Image(c, call.id)
    BY <2>1, SceneParts DEF Surface, Image
  <2>3. [c EXCEPT !.surfaces[call.id].mapped = TRUE, !.surfaces[call.id].origin = call.at]
          = [c EXCEPT !.surfaces[call.id] = moved]
    BY <2>1 DEF Scene
  <2>4. [moved EXCEPT !.image = Shown(@)] = [seen.surfaces[call.id] EXCEPT !.mapped = TRUE, !.origin = call.at]
    <3>1. seen.surfaces[call.id] \in Surface /\ Image(seen, call.id) = Shown(Image(c, call.id))
      BY <1>0, <2>1, SceneParts
    <3> HIDE DEF seen
    <3> QED
      BY <2>1, <2>2, <3>1, SceneParts DEF Surface, Image
  <2>5. [seen EXCEPT !.surfaces[call.id].mapped = TRUE, !.surfaces[call.id].origin = call.at]
          = [seen EXCEPT !.surfaces[call.id] = [seen.surfaces[call.id] EXCEPT !.mapped = TRUE, !.origin = call.at]]
    <3> HIDE DEF seen
    <3> QED
      BY <1>0, <2>1 DEF Scene
  <2> HIDE DEF moved
  <2>6. Seen([c EXCEPT !.surfaces[call.id] = moved], contents)
          = [seen EXCEPT !.surfaces[call.id] = [moved EXCEPT !.image = Shown(@)]]
    BY <2>1, <2>2, SeenSurface
  <2>7. CpuCall(c, call) = IF Exists(c, call.id) THEN [c EXCEPT !.surfaces[call.id] = moved] ELSE c
    BY <1>4, <2>3 DEF CpuCall
  <2>8. CpuCall(seen, call) = IF Exists(seen, call.id)
                              THEN [seen EXCEPT !.surfaces[call.id] = [moved EXCEPT !.image = Shown(@)]] ELSE seen
    <3> HIDE DEF seen
    <3> QED
      BY <1>4, <2>4, <2>5 DEF CpuCall
  <2> QED
    BY <1>0, <2>1, <2>6, <2>7, <2>8
<1>5. CASE call.op \in {"fill", "bgra"}
  <2>1. call.id \in Surfaces /\ call.value \in Pixel /\ call.value \notin Buffers
    BY <1>5, CallParts DEF Plain
  <2> DEFINE image == Image(c, call.id)
             drawn == Paint(image, call.rects, call.value)
  <2>2. image \in Strip /\ drawn \in Strip
    BY <2>1, SceneParts, Painting
  <2>3. Shown(drawn) = Paint(Shown(image), call.rects, call.value)
    <3> HIDE DEF image
    <3> QED
      BY <2>1, <2>2, SeenPaint
  <2>4. Seen(WithImage(c, call.id, drawn), contents) = WithImage(seen, call.id, Shown(drawn))
    <3> HIDE DEF drawn, image
    <3> QED
      BY <2>1, <2>2, SeenRedraw
  <2>5. CpuCall(c, call) = IF ~Exists(c, call.id) THEN c ELSE WithImage(c, call.id, drawn)
    BY <1>5 DEF CpuCall
  <2>6. CpuCall(seen, call) = IF ~Exists(seen, call.id) THEN seen
                              ELSE WithImage(seen, call.id, Paint(Image(seen, call.id), call.rects, call.value))
    BY <1>5 DEF CpuCall
  <2>7. Image(seen, call.id) = Shown(image) /\ (Exists(seen, call.id) <=> Exists(c, call.id))
    BY <1>0, <2>1
  <2> HIDE DEF drawn, image, seen, Shown
  <2>8. CpuCall(seen, call) = IF ~Exists(c, call.id) THEN seen ELSE WithImage(seen, call.id, Shown(drawn))
    BY <2>3, <2>6, <2>7
  <2> QED
    BY <2>4, <2>5, <2>8 DEF seen
<1>6. CASE call.op = "surface_to_surface"
  <2>1. call.src \in Surfaces /\ call.id \in Surfaces /\ call.rect \in Rect /\ call.dests \in Seq(Nat)
    BY <1>6, CallParts
  <2> DEFINE source == Image(c, call.src)
             dest == Image(c, call.id)
             r == clip_rect(call.rect, Size(source))
             whole == [x |-> 0, width |-> r.width]
             drawn == Everywhere(crop(source, r), whole, dest, call.dests)
             nothing == ~Exists(c, call.src) \/ ~Exists(c, call.id) \/ r.width = 0
  <2>2. source \in Strip /\ dest \in Strip /\ Size(source) \in Nat
    BY <2>1, SceneParts, StripSize
  <2>3. r \in Rect /\ (r.width # 0 => r.x + r.width <= Size(source))
    <3> HIDE DEF source
    <3> QED
      BY <2>1, <2>2, Clipping
  <2>4. CpuCall(c, call) = IF nothing THEN c ELSE WithImage(c, call.id, drawn)
    BY <1>6 DEF CpuCall
  <2>5. /\ Image(seen, call.src) = Shown(source) /\ Image(seen, call.id) = Shown(dest)
        /\ Exists(seen, call.src) <=> Exists(c, call.src)
        /\ Exists(seen, call.id) <=> Exists(c, call.id)
        /\ Size(Shown(source)) = Size(source)
    <3> HIDE DEF source
    <3>1. Size(Shown(source)) = Size(source)
      BY <2>2, Resolving
    <3> QED
      BY <1>0, <2>1, <3>1 DEF source
  <2>6. CpuCall(seen, call) = IF nothing THEN seen
                              ELSE WithImage(seen, call.id, Everywhere(crop(Shown(source), r), whole, Shown(dest), call.dests))
    <3> HIDE DEF seen, source, dest, Shown
    <3> QED
      BY <1>6, <2>5 DEF CpuCall
  <2>7. CASE ~nothing
    <3>1. r.width # 0
      BY <2>7
    <3> HIDE DEF source, dest, r, nothing
    <3>2. crop(source, r) \in Strip /\ Size(crop(source, r)) = r.width
          /\ Shown(crop(source, r)) = crop(Shown(source), r)
      BY <2>2, <2>3, <3>1, Cropping, SeenCrop
    <3>3. whole \in Rect /\ whole.x + whole.width <= Size(crop(source, r))
      BY <2>3, <3>2 DEF Rect
    <3> DEFINE part == crop(source, r)
    <3> HIDE DEF whole, part
    <3>4. drawn \in Strip /\ Shown(drawn) = Everywhere(Shown(part), whole, Shown(dest), call.dests)
      <4>1. part \in Strip /\ whole.x + whole.width <= Size(part)
        BY <3>2, <3>3 DEF part
      <4>2. drawn = Everywhere(part, whole, dest, call.dests)
        BY DEF part
      <4> HIDE DEF drawn
      <4> QED
        BY <2>1, <2>2, <3>3, <4>1, <4>2, Copying, SeenCopies
    <3>5. Seen(WithImage(c, call.id, drawn), contents) = WithImage(seen, call.id, Shown(drawn))
      <4> HIDE DEF drawn
      <4> QED
        BY <2>1, <3>4, SeenRedraw
    <3> HIDE DEF drawn, seen, Shown
    <3> QED
      BY <2>4, <2>6, <2>7, <3>2, <3>4, <3>5 DEF part, seen
  <2>8. CASE nothing
    BY <2>4, <2>6, <2>8
  <2> QED
    BY <2>7, <2>8
<1>7. CASE call.op = "surface_to_cache"
  <2>1. call.id \in Surfaces /\ call.rect \in Rect /\ call.slot \in Slots
    BY <1>7, CallParts
  <2> DEFINE source == Image(c, call.id)
             r == clip_rect(call.rect, Size(source))
             nothing == ~Exists(c, call.id) \/ r.width = 0
             part == crop(source, r)
  <2>2. source \in Strip /\ Size(source) \in Nat
    BY <2>1, SceneParts, StripSize
  <2>3. r \in Rect /\ (r.width # 0 => r.x + r.width <= Size(source))
    <3> HIDE DEF source
    <3> QED
      BY <2>1, <2>2, Clipping
  <2>4. CpuCall(c, call) = IF nothing THEN c ELSE [c EXCEPT !.cache[call.slot] = part]
    BY <1>7 DEF CpuCall
  <2>5. Image(seen, call.id) = Shown(source) /\ (Exists(seen, call.id) <=> Exists(c, call.id))
        /\ Size(Shown(source)) = Size(source)
    <3> HIDE DEF source
    <3>1. Size(Shown(source)) = Size(source)
      BY <2>2, Resolving
    <3> QED
      BY <1>0, <2>1, <3>1 DEF source
  <2>6. CpuCall(seen, call) = IF nothing THEN seen ELSE [seen EXCEPT !.cache[call.slot] = crop(Shown(source), r)]
    <3> HIDE DEF seen, source, Shown
    <3> QED
      BY <1>7, <2>5 DEF CpuCall
  <2>7. CASE ~nothing
    <3>1. r.width # 0
      BY <2>7
    <3> HIDE DEF source, r, nothing
    <3>2. part \in Strip /\ Shown(part) = crop(Shown(source), r)
      BY <2>2, <2>3, <3>1, Cropping, SeenCrop
    <3> HIDE DEF part
    <3>3. Seen([c EXCEPT !.cache[call.slot] = part], contents) = [seen EXCEPT !.cache[call.slot] = Shown(part)]
      BY <2>1, <3>2, SeenSlot
    <3> HIDE DEF seen, Shown
    <3> QED
      BY <2>4, <2>6, <2>7, <3>2, <3>3 DEF seen
  <2>8. CASE nothing
    BY <2>4, <2>6, <2>8
  <2> QED
    BY <2>7, <2>8
<1>8. CASE call.op = "cache_to_surface"
  <2>1. call.id \in Surfaces /\ call.dests \in Seq(Nat) /\ call.slot \in Slots
    BY <1>8, CallParts
  <2> DEFINE source == c.cache[call.slot]
             dest == Image(c, call.id)
             whole == [x |-> 0, width |-> Size(source)]
             drawn == Everywhere(source, whole, dest, call.dests)
             nothing == source = NoImage \/ ~Exists(c, call.id)
  <2>2. source \in Strip /\ dest \in Strip /\ Size(source) \in Nat
    BY <2>1, SceneParts, StripSize
  <2>3. CpuCall(c, call) = IF nothing THEN c ELSE WithImage(c, call.id, drawn)
    BY <1>8 DEF CpuCall
  <2>4. whole \in Rect /\ whole.x + whole.width <= Size(source)
    BY <2>2 DEF Rect
  <2>5. /\ seen.cache[call.slot] = Shown(source) /\ Image(seen, call.id) = Shown(dest)
        /\ Exists(seen, call.id) <=> Exists(c, call.id)
        /\ Size(Shown(source)) = Size(source)
        /\ Shown(source) = NoImage <=> source = NoImage
    <3> HIDE DEF source
    <3>1. Size(Shown(source)) = Size(source) /\ (Shown(source) = NoImage <=> source = NoImage)
      BY <2>2, Resolving
    <3> QED
      BY <1>0, <2>1, <3>1 DEF source
  <2>6. CpuCall(seen, call) = IF nothing THEN seen
                              ELSE WithImage(seen, call.id, Everywhere(Shown(source), whole, Shown(dest), call.dests))
    <3> HIDE DEF seen, source, dest, Shown
    <3> QED
      BY <1>8, <2>5 DEF CpuCall
  <2>7. drawn \in Strip /\ Shown(drawn) = Everywhere(Shown(source), whole, Shown(dest), call.dests)
    <3> HIDE DEF source, dest, whole
    <3> QED
      BY <2>1, <2>2, <2>4, Copying, SeenCopies
  <2>8. Seen(WithImage(c, call.id, drawn), contents) = WithImage(seen, call.id, Shown(drawn))
    <3> HIDE DEF drawn
    <3> QED
      BY <2>1, <2>7, SeenRedraw
  <2> HIDE DEF drawn, seen, Shown, nothing, source, dest, whole
  <2> QED
    BY <2>3, <2>6, <2>7, <2>8 DEF seen
<1>9. CASE call.op = "evict"
  <2>1. call.slot \in Slots /\ NoImage \in Strip /\ Shown(NoImage) = NoImage
    BY <1>9, CallParts, Blanks, SeenPlain DEF NoImage
  <2>2. Seen([c EXCEPT !.cache[call.slot] = NoImage], contents) = [seen EXCEPT !.cache[call.slot] = Shown(NoImage)]
    BY <2>1, SeenSlot
  <2> HIDE DEF seen, Shown
  <2> QED
    BY <1>9, <2>1, <2>2 DEF CpuCall, seen
<1> QED
  BY <1>1, <1>2, <1>3, <1>4, <1>5, <1>6, <1>7, <1>8, <1>9, CallParts

\* The compositor copies within one surface as the CPU model does.
LEMMA RecordsAsDrawn ==
  ASSUME NEW c \in Scene, NEW call \in Call, call.op # "nv12"
  PROVE  Record(c, call) = CpuCall(c, call)
<1>1. CASE call.op # "surface_to_surface"
  BY <1>1 DEF Record
<1>2. CASE call.op = "surface_to_surface"
  <2>1. call.src \in Surfaces /\ call.id \in Surfaces /\ call.rect \in Rect /\ call.dests \in Seq(Nat)
    BY <1>2, CallParts
  <2> DEFINE source == Image(c, call.src)
             dest == Image(c, call.id)
             r == clip_rect(call.rect, Size(source))
             whole == [x |-> 0, width |-> r.width]
             nothing == ~Exists(c, call.src) \/ ~Exists(c, call.id) \/ r.width = 0
  <2>2. source \in Strip /\ dest \in Strip /\ Size(source) \in Nat
    BY <2>1, SceneParts, StripSize
  <2>3. r \in Rect /\ (r.width # 0 => r.x + r.width <= Size(source))
    <3> HIDE DEF source
    <3> QED
      BY <2>1, <2>2, Clipping
  <2>4. CpuCall(c, call) = IF nothing THEN c
                           ELSE WithImage(c, call.id, Everywhere(crop(source, r), whole, dest, call.dests))
    BY <1>2 DEF CpuCall
  <2>5. Record(c, call) = IF nothing THEN c
                          ELSE IF call.src # call.id THEN WithImage(c, call.id, Everywhere(source, r, dest, call.dests))
                          ELSE WithImage(c, call.id, Everywhere(crop(source, r), whole, dest, call.dests))
    BY <1>2 DEF Record, surface_to_surface
  <2>6. r.width # 0 => Everywhere(crop(source, r), whole, dest, call.dests) = Everywhere(source, r, dest, call.dests)
    <3> HIDE DEF source, dest, r
    <3> QED
      BY <2>1, <2>2, <2>3, Snapshot
  <2>7. ~nothing => r.width # 0
    OBVIOUS
  <2> HIDE DEF source, dest, r, whole, nothing
  <2> QED
    BY <2>4, <2>5, <2>6, <2>7
<1> QED
  BY <1>1, <1>2

\* A recorded call shows, once the buffers are read, what drawing it at once gives.
LEMMA SeenRecord ==
  ASSUME NEW c \in Scene, NEW call \in Call, NEW contents, Filled(contents),
         call.op = "nv12" => call.value = contents[call.buffer]
  PROVE  Record(c, call) \in Scene /\ Seen(Record(c, call), contents) = CpuCall(Seen(c, contents), call)
<1>1. CASE call.op # "nv12"
  BY <1>1, RecordsAsDrawn, SeenDrawing, Drawing
<1>2. CASE call.op = "nv12"
  <2> DEFINE seen == Seen(c, contents)
             image == Image(c, call.id)
             drawn == Paint(image, call.rects, call.buffer)
  <2>1. call.id \in Surfaces /\ call.buffer \in Buffers /\ call.buffer \in Pixel
    <3>1. \A b \in Buffers : b \in Nat
      BY BufferNames
    <3> QED
      BY <1>2, <3>1, CallParts DEF Pixel
  <2>2. image \in Strip /\ drawn \in Strip
    BY <2>1, SceneParts, Painting
  <2>3. Resolved(drawn, Buffers, contents) = Paint(Resolved(image, Buffers, contents), call.rects, call.value)
    <3> HIDE DEF image
    <3> QED
      BY <1>2, <2>1, <2>2, SeenPaint
  <2>4. Seen(WithImage(c, call.id, drawn), contents) = WithImage(seen, call.id, Resolved(drawn, Buffers, contents))
        /\ WithImage(c, call.id, drawn) \in Scene
    <3> HIDE DEF drawn, image
    <3> QED
      BY <2>1, <2>2, SeenRedraw, Redraw
  <2>5. Record(c, call) = IF ~Exists(c, call.id) THEN c ELSE WithImage(c, call.id, drawn)
    BY <1>2 DEF Record
  <2>6. CpuCall(seen, call) = IF ~Exists(seen, call.id) THEN seen
                              ELSE WithImage(seen, call.id, Paint(Image(seen, call.id), call.rects, call.value))
    BY <1>2 DEF CpuCall
  <2>7. Image(seen, call.id) = Resolved(image, Buffers, contents) /\ (Exists(seen, call.id) <=> Exists(c, call.id))
    BY <2>1, SeenParts
  <2> HIDE DEF drawn, image, seen
  <2>8. CpuCall(seen, call) = IF ~Exists(c, call.id) THEN seen
                              ELSE WithImage(seen, call.id, Resolved(drawn, Buffers, contents))
    BY <2>3, <2>6, <2>7
  <2> QED
    BY <2>4, <2>5, <2>8 DEF seen
<1> QED
  BY <1>1, <1>2

-----------------------------------------------------------------------------
(* Where pixels come from.                                                  *)

SceneReads(c, from) ==
  /\ \A i \in Surfaces : OnlyReads(Image(c, i), from)
  /\ \A s \in Slots : OnlyReads(c.cache[s], from)

LEMMA PaintReads ==
  ASSUME NEW image \in Strip, NEW rects, NEW value \in Pixel, NEW from,
         OnlyReads(image, from), value \in Buffers => value \in from
  PROVE  OnlyReads(Paint(image, rects, value), from)
BY DEF OnlyReads, Paint

LEMMA CropReads ==
  ASSUME NEW image \in Strip, NEW r \in Rect, r.x + r.width <= Size(image), NEW from, OnlyReads(image, from)
  PROVE  OnlyReads(crop(image, r), from)
<1>1. /\ DOMAIN crop(image, r) = 0 .. r.width - 1
      /\ \A x \in 0 .. r.width - 1 : r.x + x \in DOMAIN image /\ crop(image, r)[x] = image[r.x + x]
  BY Cropping DEF crop
<1> QED
  BY <1>1 DEF OnlyReads

LEMMA CopyReads ==
  ASSUME NEW source \in Strip, NEW r \in Rect, NEW dest \in Strip, NEW dests \in Seq(Nat),
         r.x + r.width <= Size(source), NEW from, OnlyReads(source, from), OnlyReads(dest, from)
  PROVE  OnlyReads(Everywhere(source, r, dest, dests), from)
<1> DEFINE drawn == Everywhere(source, r, dest, dests)
           Writers(x) == {k \in DOMAIN dests : x \in copied(source, r, dest, dests[k])}
<1>1. DOMAIN drawn = DOMAIN dest
  BY Copying
<1>2. ASSUME NEW x \in DOMAIN dest
      PROVE  drawn[x] \in Buffers => drawn[x] \in from
  <2> DEFINE at == r.x + x - dests[Max(Writers(x))]
             none == Writers(x) = {}
  <2>1. drawn[x] = IF none THEN dest[x] ELSE source[at]
    BY DEF Everywhere
  <2>2. ~none => at \in DOMAIN source
    BY Writing
  <2> HIDE DEF drawn, at, none
  <2> QED
    BY <2>1, <2>2 DEF OnlyReads
<1> HIDE DEF drawn
<1>3. OnlyReads(drawn, from)
  BY <1>1, <1>2 DEF OnlyReads
<1> QED
  BY <1>3 DEF drawn

LEMMA PlainReads ==
  ASSUME NEW n \in Nat, NEW from
  PROVE  OnlyReads(Blank(n), from) /\ OnlyReads(NoImage, from)
BY PlainValues DEF OnlyReads, Blank, NoImage, Plain

LEMMA RedrawReads ==
  ASSUME NEW c \in Scene, NEW i \in Surfaces, NEW image \in Strip, NEW from, SceneReads(c, from), OnlyReads(image, from)
  PROVE  SceneReads(WithImage(c, i, image), from)
<1>1. \A j \in Surfaces : Image(WithImage(c, i, image), j) = IF j = i THEN image ELSE Image(c, j)
  BY Redraw
<1>2. \A s \in Slots : WithImage(c, i, image).cache[s] = c.cache[s]
  BY Redraw
<1> QED
  BY <1>1, <1>2 DEF SceneReads

LEMMA SurfaceReads ==
  ASSUME NEW c \in Scene, NEW i \in Surfaces, NEW surface \in Surface, NEW from, SceneReads(c, from),
         OnlyReads(surface.image, from)
  PROVE  SceneReads([c EXCEPT !.surfaces[i] = surface], from)
<1> DEFINE d == [c EXCEPT !.surfaces[i] = surface]
<1>1. (\A j \in Surfaces : d.surfaces[j] = IF j = i THEN surface ELSE c.surfaces[j]) /\ \A s \in Slots : d.cache[s] = c.cache[s]
  BY DEF Scene
<1> HIDE DEF d
<1>2. SceneReads(d, from)
  BY <1>1 DEF SceneReads, Image
<1> QED
  BY <1>2 DEF d

LEMMA SlotReads ==
  ASSUME NEW c \in Scene, NEW s \in Slots, NEW image \in Strip, NEW from, SceneReads(c, from), OnlyReads(image, from)
  PROVE  SceneReads([c EXCEPT !.cache[s] = image], from)
<1> DEFINE d == [c EXCEPT !.cache[s] = image]
<1>1. (\A j \in Surfaces : d.surfaces[j] = c.surfaces[j]) /\ \A t \in Slots : d.cache[t] = IF t = s THEN image ELSE c.cache[t]
  BY DEF Scene
<1> HIDE DEF d
<1>2. SceneReads(d, from)
  BY <1>1 DEF SceneReads, Image
<1> QED
  BY <1>2 DEF d

\* A recorded call reads no buffer but its own picture's.
LEMMA RecordReads ==
  ASSUME NEW c \in Scene, NEW call \in Call, NEW from, SceneReads(c, from),
         call.op = "nv12" /\ Exists(c, call.id) => call.buffer \in from
  PROVE  SceneReads(Record(c, call), from)
<1>0. (\A i \in Surfaces : OnlyReads(Image(c, i), from)) /\ \A s \in Slots : OnlyReads(c.cache[s], from)
  BY DEF SceneReads
<1>1. CASE call.op = "reset"
  <2>1. Record(c, call) = Empty
    BY <1>1 DEF Record, CpuCall
  <2> QED
    BY <2>1, Emptiness, PlainReads DEF SceneReads
<1>2. CASE call.op = "create"
  <2>1. call.size \in Nat /\ call.id \in Surfaces
    BY <1>2, CallParts
  <2>2. NewSurface(call.size) \in Surface /\ NewSurface(call.size).image = Blank(call.size)
    BY <2>1, Blanks DEF NewSurface, Surface
  <2>3. Record(c, call) = [c EXCEPT !.surfaces[call.id] = NewSurface(call.size)]
    BY <1>2 DEF Record, CpuCall
  <2> QED
    BY <2>1, <2>2, <2>3, PlainReads, SurfaceReads
<1>3. CASE call.op = "delete"
  <2>1. call.id \in Surfaces
    BY <1>3, CallParts
  <2>2. NoSurface \in Surface /\ NoSurface.image = NoImage
    BY Blanks DEF NoSurface, Surface
  <2>3. Record(c, call) = [c EXCEPT !.surfaces[call.id] = NoSurface]
    BY <1>3 DEF Record, CpuCall
  <2>4. OnlyReads(NoSurface.image, from)
    <3>1. 0 \in Nat
      OBVIOUS
    <3> QED
      BY <2>2, <3>1, PlainReads
  <2> DEFINE surface == NoSurface
  <2> HIDE DEF surface
  <2>5. surface \in Surface /\ OnlyReads(surface.image, from) /\ Record(c, call) = [c EXCEPT !.surfaces[call.id] = surface]
    BY <2>2, <2>3, <2>4 DEF surface
  <2> QED
    BY <2>1, <2>5, SurfaceReads
<1>4. CASE call.op = "map"
  <2>1. call.at \in Nat /\ call.id \in Surfaces
    BY <1>4, CallParts
  <2> DEFINE moved == [c.surfaces[call.id] EXCEPT !.mapped = TRUE, !.origin = call.at]
  <2>2. moved \in Surface /\ moved.image = Image(c, call.id)
    BY <2>1, SceneParts DEF Surface, Image
  <2>3. [c EXCEPT !.surfaces[call.id].mapped = TRUE, !.surfaces[call.id].origin = call.at]
          = [c EXCEPT !.surfaces[call.id] = moved]
    BY <2>1 DEF Scene
  <2>4. Record(c, call) = IF Exists(c, call.id) THEN [c EXCEPT !.surfaces[call.id] = moved] ELSE c
    BY <1>4, <2>3 DEF Record, CpuCall
  <2>5. OnlyReads(moved.image, from)
    BY <1>0, <2>1, <2>2
  <2> HIDE DEF moved
  <2> QED
    BY <2>1, <2>2, <2>4, <2>5, SurfaceReads
<1>5. CASE call.op \in {"fill", "bgra", "nv12"}
  <2> DEFINE value == IF call.op = "nv12" THEN call.buffer ELSE call.value
             image == Image(c, call.id)
             drawn == Paint(image, call.rects, value)
  <2>1. \A b \in Buffers : b \in Nat
    BY BufferNames
  <2>2. call.id \in Surfaces /\ value \in Pixel
    BY <1>5, <2>1, CallParts DEF Plain, Pixel
  <2>3. Exists(c, call.id) => (value \in Buffers => value \in from)
    BY <1>5, CallParts DEF Plain
  <2>4. Record(c, call) = IF ~Exists(c, call.id) THEN c ELSE WithImage(c, call.id, drawn)
    BY <1>5 DEF Record, CpuCall
  <2>5. image \in Strip /\ OnlyReads(image, from)
    BY <1>0, <2>2, SceneParts
  <2>6. drawn \in Strip /\ (Exists(c, call.id) => OnlyReads(drawn, from))
    <3> HIDE DEF image, value
    <3> QED
      BY <2>2, <2>3, <2>5, Painting, PaintReads
  <2> HIDE DEF drawn, image, value
  <2> QED
    BY <2>2, <2>4, <2>6, RedrawReads
<1>6. CASE call.op = "surface_to_surface"
  <2>1. call.src \in Surfaces /\ call.id \in Surfaces /\ call.rect \in Rect /\ call.dests \in Seq(Nat)
    BY <1>6, CallParts
  <2> DEFINE source == Image(c, call.src)
             dest == Image(c, call.id)
             r == clip_rect(call.rect, Size(source))
             whole == [x |-> 0, width |-> r.width]
             part == crop(source, r)
             drawn == Everywhere(part, whole, dest, call.dests)
             nothing == ~Exists(c, call.src) \/ ~Exists(c, call.id) \/ r.width = 0
  <2>2. source \in Strip /\ dest \in Strip /\ Size(source) \in Nat /\ OnlyReads(source, from) /\ OnlyReads(dest, from)
    BY <1>0, <2>1, SceneParts, StripSize
  <2>3. r \in Rect /\ (r.width # 0 => r.x + r.width <= Size(source))
    <3> HIDE DEF source
    <3> QED
      BY <2>1, <2>2, Clipping
  <2>4. Record(c, call) = IF nothing THEN c ELSE WithImage(c, call.id, drawn)
    BY <1>6, RecordsAsDrawn DEF CpuCall
  <2>5. CASE r.width # 0
    <3> HIDE DEF source, dest, r
    <3>1. part \in Strip /\ Size(part) = r.width /\ OnlyReads(part, from)
      BY <2>2, <2>3, <2>5, Cropping, CropReads
    <3>2. whole \in Rect /\ whole.x + whole.width <= Size(part)
      BY <2>3, <3>1 DEF Rect
    <3> HIDE DEF part, whole
    <3>3. drawn \in Strip /\ OnlyReads(drawn, from)
      BY <2>1, <2>2, <3>1, <3>2, Copying, CopyReads
    <3> HIDE DEF drawn, nothing
    <3> QED
      BY <2>1, <2>4, <3>3, RedrawReads
  <2> HIDE DEF source, dest, whole, part, drawn
  <2> QED
    BY <2>4, <2>5
<1>7. CASE call.op = "surface_to_cache"
  <2>1. call.id \in Surfaces /\ call.rect \in Rect /\ call.slot \in Slots
    BY <1>7, CallParts
  <2> DEFINE source == Image(c, call.id)
             r == clip_rect(call.rect, Size(source))
             nothing == ~Exists(c, call.id) \/ r.width = 0
             part == crop(source, r)
  <2>2. source \in Strip /\ Size(source) \in Nat /\ OnlyReads(source, from)
    BY <1>0, <2>1, SceneParts, StripSize
  <2>3. r \in Rect /\ (r.width # 0 => r.x + r.width <= Size(source))
    <3> HIDE DEF source
    <3> QED
      BY <2>1, <2>2, Clipping
  <2>4. Record(c, call) = IF nothing THEN c ELSE [c EXCEPT !.cache[call.slot] = part]
    BY <1>7, RecordsAsDrawn DEF CpuCall
  <2>5. ~nothing => r.width # 0
    OBVIOUS
  <2>6. r.width # 0 => part \in Strip /\ OnlyReads(part, from)
    <3> HIDE DEF source, r
    <3> QED
      BY <2>2, <2>3, Cropping, CropReads
  <2> HIDE DEF source, r, part, nothing
  <2> QED
    BY <2>1, <2>4, <2>5, <2>6, SlotReads
<1>8. CASE call.op = "cache_to_surface"
  <2>1. call.id \in Surfaces /\ call.dests \in Seq(Nat) /\ call.slot \in Slots
    BY <1>8, CallParts
  <2> DEFINE source == c.cache[call.slot]
             dest == Image(c, call.id)
             whole == [x |-> 0, width |-> Size(source)]
             drawn == Everywhere(source, whole, dest, call.dests)
             nothing == source = NoImage \/ ~Exists(c, call.id)
  <2>2. source \in Strip /\ dest \in Strip /\ Size(source) \in Nat /\ OnlyReads(source, from) /\ OnlyReads(dest, from)
    BY <1>0, <2>1, SceneParts, StripSize
  <2>3. Record(c, call) = IF nothing THEN c ELSE WithImage(c, call.id, drawn)
    BY <1>8 DEF Record, CpuCall
  <2>4. whole \in Rect /\ whole.x + whole.width <= Size(source)
    BY <2>2 DEF Rect
  <2>5. drawn \in Strip /\ OnlyReads(drawn, from)
    <3> HIDE DEF source, dest, whole
    <3> QED
      BY <2>1, <2>2, <2>4, Copying, CopyReads
  <2> HIDE DEF drawn, nothing
  <2> QED
    BY <2>1, <2>3, <2>5, RedrawReads
<1>9. CASE call.op = "evict"
  <2>1. call.slot \in Slots /\ NoImage \in Strip /\ 0 \in Nat
    BY <1>9, CallParts, Blanks
  <2>2. Record(c, call) = [c EXCEPT !.cache[call.slot] = NoImage]
    BY <1>9 DEF Record, CpuCall
  <2> QED
    BY <2>1, <2>2, PlainReads, SlotReads
<1> QED
  BY <1>1, <1>2, <1>3, <1>4, <1>5, <1>6, <1>7, <1>8, <1>9, CallParts

-----------------------------------------------------------------------------
(* The composed picture.                                                    *)

\* The mapped surfaces that cover a pixel of the output.
Over(c, x) ==
  {i \in Surfaces : /\ Exists(c, i) /\ c.surfaces[i].mapped
                    /\ c.surfaces[i].origin <= x /\ x < c.surfaces[i].origin + Size(Image(c, i))}

LEMMA LargestId ==
  ASSUME NEW S \in SUBSET Surfaces, S # {}
  PROVE  Max(S) \in S
<1>1. Surfaces \subseteq 0 .. MaxId
  BY CompositingAssumption
<1>2. S \subseteq 0 .. MaxId
  BY <1>1
<1>3. MaxId \in Nat
  BY DEF MaxId
<1> QED
  BY <1>2, <1>3, Largest

LEMMA Composing ==
  ASSUME NEW c \in Scene
  PROVE  /\ Compose(c.surfaces) \in Strip /\ DOMAIN Compose(c.surfaces) = 0 .. Output - 1
         /\ \A x \in 0 .. Output - 1 :
              LET i == Max(Over(c, x))
                  y == x - c.surfaces[i].origin
              IN  IF Over(c, x) = {} THEN Compose(c.surfaces)[x] = Black
                  ELSE /\ i \in Surfaces /\ y \in DOMAIN Image(c, i)
                       /\ Compose(c.surfaces)[x] = Image(c, i)[y]
<1> DEFINE f == Compose(c.surfaces)
<1>0. Output \in Nat
  BY CompositingAssumption
<1>1. DOMAIN f = 0 .. Output - 1 /\ f = [x \in 0 .. Output - 1 |-> f[x]]
  BY DEF Compose
<1>2. ASSUME NEW x \in 0 .. Output - 1
      PROVE  LET i == Max(Over(c, x))
                 y == x - c.surfaces[i].origin
             IN  f[x] = IF Over(c, x) = {} THEN Black ELSE Image(c, i)[y]
  <2>1. Over(c, x) = {i \in {i \in Surfaces : c.surfaces[i].image # NoImage /\ c.surfaces[i].mapped} :
                        c.surfaces[i].origin <= x /\ x < c.surfaces[i].origin + Size(c.surfaces[i].image)}
    BY DEF Over, Exists, Image
  <2> QED
    BY <2>1 DEF Compose, Image
<1>3. ASSUME NEW x \in 0 .. Output - 1, Over(c, x) # {}
      PROVE  LET i == Max(Over(c, x))
                 y == x - c.surfaces[i].origin
             IN  i \in Surfaces /\ y \in DOMAIN Image(c, i)
  <2> DEFINE i == Max(Over(c, x))
  <2>1. Over(c, x) \in SUBSET Surfaces
    BY DEF Over
  <2>2. i \in Over(c, x)
    BY <1>3, <2>1, LargestId
  <2> HIDE DEF i
  <2>3. i \in Surfaces /\ c.surfaces[i].origin <= x /\ x < c.surfaces[i].origin + Size(Image(c, i))
    BY <2>2 DEF Over
  <2>4. c.surfaces[i].origin \in Nat /\ DOMAIN Image(c, i) = 0 .. Size(Image(c, i)) - 1 /\ Size(Image(c, i)) \in Nat
    BY <2>3, SceneParts, StripSize
  <2> DEFINE origin == c.surfaces[i].origin
             size == Size(Image(c, i))
  <2>5. x - origin \in 0 .. size - 1
    <3>1. x \in Nat /\ origin \in Nat /\ size \in Nat /\ origin <= x /\ x < origin + size
      BY <1>0, <2>3, <2>4
    <3> HIDE DEF origin, size
    <3> QED
      BY <3>1
  <2> QED
    BY <2>3, <2>4, <2>5 DEF i
<1>4. ASSUME NEW x \in 0 .. Output - 1
      PROVE  f[x] \in Pixel
  <2> DEFINE i == Max(Over(c, x))
             y == x - c.surfaces[i].origin
             none == Over(c, x) = {}
  <2>1. f[x] = IF none THEN Black ELSE Image(c, i)[y]
    BY <1>2
  <2>2. ~none => i \in Surfaces /\ y \in DOMAIN Image(c, i)
    BY <1>3
  <2>3. Black \in Pixel
    BY DEF Black, Pixel
  <2> HIDE DEF f, i, y, none
  <2> QED
    BY <2>1, <2>2, <2>3, SceneParts, StripSize
<1> HIDE DEF f
<1>5. f \in Strip
  BY <1>0, <1>1, <1>4, MakeStrip
<1> QED
  BY <1>1, <1>2, <1>3, <1>5 DEF f

LEMMA SeenCompose ==
  ASSUME NEW c \in Scene, NEW contents, Filled(contents)
  PROVE  Compose(Seen(c, contents).surfaces) = Resolved(Compose(c.surfaces), Buffers, contents)
<1> DEFINE seen == Seen(c, contents)
           shot == Compose(c.surfaces)
           a == Compose(seen.surfaces)
           b == Resolved(shot, Buffers, contents)
<1>1. /\ seen \in Scene
      /\ \A i \in Surfaces : /\ Image(seen, i) = Resolved(Image(c, i), Buffers, contents)
                             /\ seen.surfaces[i].mapped = c.surfaces[i].mapped
                             /\ seen.surfaces[i].origin = c.surfaces[i].origin
                             /\ Exists(seen, i) <=> Exists(c, i)
                             /\ Size(Image(seen, i)) = Size(Image(c, i))
  <2>1. \A i \in Surfaces : Image(c, i) \in Strip
    BY SceneParts
  <2>2. \A i \in Surfaces : Size(Resolved(Image(c, i), Buffers, contents)) = Size(Image(c, i))
    <3>1. \A image \in Strip : Size(Resolved(image, Buffers, contents)) = Size(image)
      BY Resolving
    <3> QED
      BY <2>1, <3>1
  <2> QED
    BY <2>2, SeenParts
<1> HIDE DEF seen
<1>2. shot \in Strip /\ DOMAIN shot = 0 .. Output - 1
  BY Composing
<1>3. a \in Strip /\ DOMAIN a = 0 .. Output - 1
  BY <1>1, Composing
<1>4. b \in Strip /\ DOMAIN b = 0 .. Output - 1
  <2> HIDE DEF shot
  <2> QED
    BY <1>2, Resolving
<1>5. ASSUME NEW x \in 0 .. Output - 1
      PROVE  a[x] = b[x]
  <2>1. Over(seen, x) = Over(c, x)
    BY <1>1 DEF Over
  <2> DEFINE i == Max(Over(c, x))
             y == x - c.surfaces[i].origin
             none == Over(c, x) = {}
  <2>2. /\ ~none => i \in Surfaces /\ y \in DOMAIN Image(c, i)
        /\ shot[x] = IF none THEN Black ELSE Image(c, i)[y]
    <3> HIDE DEF shot
    <3> QED
      BY Composing DEF shot
  <2>3. a[x] = IF none THEN Black ELSE Image(seen, i)[x - seen.surfaces[i].origin]
    <3> HIDE DEF a
    <3> QED
      BY <1>1, <2>1, Composing DEF a
  <2>4. ~none => Image(seen, i)[y] = IF Image(c, i)[y] \in Buffers THEN contents[Image(c, i)[y]] ELSE Image(c, i)[y]
    <3> HIDE DEF i, y, none
    <3> QED
      BY <1>1, <2>2 DEF Resolved
  <2>5. ~none => seen.surfaces[i].origin = c.surfaces[i].origin
    <3> HIDE DEF i, none
    <3> QED
      BY <1>1, <2>2
  <2>6. b[x] = IF shot[x] \in Buffers THEN contents[shot[x]] ELSE shot[x]
    <3> HIDE DEF shot
    <3> QED
      BY <1>2 DEF Resolved
  <2>7. Black \notin Buffers
    BY PlainValues DEF Plain
  <2>8. ~none => a[x] = Image(seen, i)[y]
    <3> HIDE DEF a, i, none
    <3> QED
      BY <2>3, <2>5
  <2> HIDE DEF a, b, shot, i, y, none
  <2> QED
    BY <2>2, <2>3, <2>4, <2>6, <2>7, <2>8
<1> HIDE DEF a, b
<1>6. a = b
  BY <1>3, <1>4, <1>5, SameImage
<1> QED
  BY <1>6 DEF a, b, shot, seen

LEMMA ComposeReads ==
  ASSUME NEW c \in Scene, NEW from, SceneReads(c, from)
  PROVE  OnlyReads(Compose(c.surfaces), from)
<1> DEFINE shot == Compose(c.surfaces)
<1>1. DOMAIN shot = 0 .. Output - 1
  BY Composing
<1>2. ASSUME NEW x \in 0 .. Output - 1
      PROVE  shot[x] \in Buffers => shot[x] \in from
  <2> DEFINE i == Max(Over(c, x))
             y == x - c.surfaces[i].origin
             none == Over(c, x) = {}
  <2>1. /\ ~none => i \in Surfaces /\ y \in DOMAIN Image(c, i)
        /\ shot[x] = IF none THEN Black ELSE Image(c, i)[y]
    <3> HIDE DEF shot
    <3> QED
      BY Composing DEF shot
  <2>2. Black \notin Buffers
    BY PlainValues DEF Plain
  <2> HIDE DEF shot, i, y, none
  <2> QED
    BY <2>1, <2>2 DEF SceneReads, OnlyReads
<1> HIDE DEF shot
<1>3. OnlyReads(shot, from)
  BY <1>1, <1>2 DEF OnlyReads
<1> QED
  BY <1>3 DEF shot

-----------------------------------------------------------------------------
(* When the buffers are read.                                               *)

\* Reading the buffers an image reads is reading them all.
LEMMA ReadAll ==
  ASSUME NEW image \in Strip, NEW from \in SUBSET Buffers, OnlyReads(image, from), NEW contents, Filled(contents)
  PROVE  Resolved(image, from, contents) = Resolved(image, Buffers, contents)
BY DEF Resolved, OnlyReads

\* What has been read is not read again.
LEMMA ReadTwice ==
  ASSUME NEW image \in Strip, NEW from \in SUBSET Buffers, NEW contents, Filled(contents)
  PROVE  Resolved(Resolved(image, from, contents), Buffers, contents) = Resolved(image, Buffers, contents)
<1> DEFINE p == Resolved(image, from, contents)
           a == Resolved(p, Buffers, contents)
           b == Resolved(image, Buffers, contents)
<1>1. p \in Strip /\ DOMAIN p = DOMAIN image
      /\ \A x \in DOMAIN image : p[x] = IF image[x] \in from THEN contents[image[x]] ELSE image[x]
  <2>1. p \in Strip
    BY Resolving
  <2> QED
    BY <2>1 DEF Resolved
<1> HIDE DEF p
<1>2. a \in Strip /\ DOMAIN a = DOMAIN image /\ b \in Strip /\ DOMAIN b = DOMAIN image
  BY <1>1, Resolving
<1>3. ASSUME NEW x \in DOMAIN image
      PROVE  a[x] = b[x]
  <2>1. a[x] = IF p[x] \in Buffers THEN contents[p[x]] ELSE p[x]
    BY <1>1 DEF Resolved
  <2>2. b[x] = IF image[x] \in Buffers THEN contents[image[x]] ELSE image[x]
    BY DEF Resolved
  <2> HIDE DEF a, b
  <2> QED
    BY <1>1, <2>1, <2>2 DEF Filled
<1> HIDE DEF a, b
<1>4. a = b
  BY <1>2, <1>3, SameImage
<1> QED
  BY <1>4 DEF a, b, p

LEMMA ReadsLeft ==
  ASSUME NEW image \in Strip, NEW from, NEW read \in SUBSET Buffers, OnlyReads(image, from), NEW contents, Filled(contents)
  PROVE  OnlyReads(Resolved(image, read, contents), from \ read)
BY DEF OnlyReads, Resolved, Filled

\* A buffer nobody reads may change.
LEMMA SceneUnread ==
  ASSUME NEW c \in Scene, NEW from, SceneReads(c, from), NEW contents, NEW later, NEW b, b \notin from,
         \A a \in Buffers \ {b} : later[a] = contents[a]
  PROVE  Seen(c, later) = Seen(c, contents)
<1>1. ASSUME NEW image \in Strip, OnlyReads(image, from)
      PROVE  Resolved(image, Buffers, later) = Resolved(image, Buffers, contents)
  BY <1>1 DEF OnlyReads, Resolved
<1>2. \A s \in Slots : Resolved(c.cache[s], Buffers, later) = Resolved(c.cache[s], Buffers, contents)
  BY <1>1, SceneParts DEF SceneReads
<1>3. \A i \in Surfaces : Resolved(Image(c, i), Buffers, later) = Resolved(Image(c, i), Buffers, contents)
  BY <1>1, SceneParts DEF SceneReads
<1>4. \A i \in Surfaces : [c.surfaces[i] EXCEPT !.image = Resolved(@, Buffers, later)]
                            = [c.surfaces[i] EXCEPT !.image = Resolved(@, Buffers, contents)]
  BY <1>3 DEF Image
<1> QED
  BY <1>2, <1>4 DEF Seen, ResolvedAll

LEMMA SceneRead ==
  ASSUME NEW c \in Scene, NEW from, NEW read \in SUBSET Buffers, SceneReads(c, from), NEW contents, Filled(contents)
  PROVE  /\ ResolvedAll(c, read, contents) \in Scene
         /\ SceneReads(ResolvedAll(c, read, contents), from \ read)
         /\ Seen(ResolvedAll(c, read, contents), contents) = Seen(c, contents)
<1> DEFINE d == ResolvedAll(c, read, contents)
           a == Seen(d, contents)
           b == Seen(c, contents)
<1>1. /\ d \in Scene
      /\ \A i \in Surfaces : /\ Image(d, i) = Resolved(Image(c, i), read, contents)
                             /\ d.surfaces[i].mapped = c.surfaces[i].mapped
                             /\ d.surfaces[i].origin = c.surfaces[i].origin
      /\ \A s \in Slots : d.cache[s] = Resolved(c.cache[s], read, contents)
  <2>1. d \in Scene
    BY ResolvingScene
  <2>2. \A i \in Surfaces : /\ Image(d, i) = Resolved(Image(c, i), read, contents)
                            /\ d.surfaces[i].mapped = c.surfaces[i].mapped
                            /\ d.surfaces[i].origin = c.surfaces[i].origin
    BY ResolvingScene
  <2>3. \A s \in Slots : d.cache[s] = Resolved(c.cache[s], read, contents)
    BY DEF ResolvedAll
  <2> QED
    BY <2>1, <2>2, <2>3
<1>2. SceneReads(d, from \ read)
  <2> HIDE DEF d
  <2> QED
    BY <1>1, SceneParts, ReadsLeft DEF SceneReads
<1> HIDE DEF d
<1>3. /\ a \in Scene /\ b \in Scene
      /\ \A i \in Surfaces : /\ Image(a, i) = Resolved(Image(d, i), Buffers, contents)
                             /\ a.surfaces[i].mapped = d.surfaces[i].mapped
                             /\ a.surfaces[i].origin = d.surfaces[i].origin
                             /\ Image(b, i) = Resolved(Image(c, i), Buffers, contents)
                             /\ b.surfaces[i].mapped = c.surfaces[i].mapped
                             /\ b.surfaces[i].origin = c.surfaces[i].origin
      /\ \A s \in Slots : /\ a.cache[s] = Resolved(d.cache[s], Buffers, contents)
                          /\ b.cache[s] = Resolved(c.cache[s], Buffers, contents)
  BY <1>1, SeenParts
<1> HIDE DEF a, b
<1>4. (\A i \in Surfaces : Image(a, i) = Image(b, i)) /\ \A s \in Slots : a.cache[s] = b.cache[s]
  BY <1>1, <1>3, SceneParts, ReadTwice
<1>5. \A i \in Surfaces : Image(a, i) = Image(b, i) /\ a.surfaces[i].mapped = b.surfaces[i].mapped
                         /\ a.surfaces[i].origin = b.surfaces[i].origin
  BY <1>1, <1>3, <1>4
<1>6. a = b
  BY <1>3, <1>4, <1>5, SameScene
<1> QED
  BY <1>1, <1>2, <1>6 DEF a, b, d

-----------------------------------------------------------------------------
(* The queue: what executing it in order leads to.                          *)

Message == Call \cup Mark
Executed(c, call) == IF call.op \in {"end_frame", "set_visible"} THEN c ELSE CpuCall(c, call)

\* The scenes S that executing `queue` passes through.
Chain(S, queue) ==
  \A k \in 1 .. Len(queue) :
    /\ S[k] = Executed(S[k - 1], queue[k])
    /\ queue[k].op = "end_frame" => queue[k].ended = Compose(S[k - 1].surfaces)
Leads(queue, first, last) ==
  \E S \in [0 .. Len(queue) -> Scene] : S[0] = first /\ S[Len(queue)] = last /\ Chain(S, queue)

LEMMA Executing ==
  ASSUME NEW c \in Scene, NEW call \in Message
  PROVE  Executed(c, call) \in Scene
<1>1. CASE call \in Call
  BY <1>1, Drawing DEF Executed
<1>2. CASE call \in Mark
  BY <1>2, MarkParts DEF Executed
<1> QED
  BY <1>1, <1>2 DEF Message

LEMMA Drained ==
  ASSUME NEW first \in Scene, NEW last \in Scene
  PROVE  Leads(<< >>, first, last) <=> first = last
<1>1. Len(<< >>) = 0 /\ 1 .. 0 = {}
  OBVIOUS
<1>2. ASSUME Leads(<< >>, first, last) PROVE first = last
  BY <1>1, <1>2 DEF Leads
<1>3. ASSUME first = last PROVE Leads(<< >>, first, last)
  <2> DEFINE S == [k \in 0 .. 0 |-> first]
  <2>1. S \in [0 .. 0 -> Scene] /\ S[0] = first
    OBVIOUS
  <2> HIDE DEF S
  <2> QED
    BY <1>1, <1>3, <2>1 DEF Leads, Chain
<1> QED
  BY <1>2, <1>3

LEMMA Queued ==
  ASSUME NEW queue \in Seq(Message), NEW first \in Scene, NEW last \in Scene, Leads(queue, first, last),
         NEW call \in Message, call.op = "end_frame" => call.ended = Compose(last.surfaces)
  PROVE  Leads(queue \o <<call>>, first, Executed(last, call))
<1> DEFINE n == Len(queue)
           longer == queue \o <<call>>
<1>1. n \in Nat /\ Len(longer) = n + 1 /\ (\A k \in 1 .. n : longer[k] = queue[k]) /\ longer[n + 1] = call
  OBVIOUS
<1>2. PICK S \in [0 .. n -> Scene] : S[0] = first /\ S[n] = last /\ Chain(S, queue)
  BY DEF Leads
<1> HIDE DEF longer
<1> DEFINE T == [k \in 0 .. n + 1 |-> IF k = n + 1 THEN Executed(last, call) ELSE S[k]]
<1>3. Executed(last, call) \in Scene
  BY Executing
<1>4. T \in [0 .. n + 1 -> Scene] /\ T[n + 1] = Executed(last, call) /\ \A k \in 0 .. n : T[k] = S[k]
  BY <1>1, <1>2, <1>3
<1> HIDE DEF T
<1>5. ASSUME NEW k \in 1 .. n + 1
      PROVE  /\ T[k] = Executed(T[k - 1], longer[k])
             /\ longer[k].op = "end_frame" => longer[k].ended = Compose(T[k - 1].surfaces)
  <2>1. CASE k = n + 1
    <3>1. k - 1 = n /\ n \in 0 .. n
      BY <1>1, <2>1
    <3>2. T[k - 1] = last /\ longer[k] = call /\ T[k] = Executed(last, call)
      BY <1>1, <1>2, <1>4, <2>1, <3>1
    <3> QED
      BY <3>2
  <2>2. CASE k # n + 1
    <3>1. k \in 1 .. n /\ k - 1 \in 0 .. n /\ k \in 0 .. n
      BY <1>1, <2>2
    <3>2. T[k] = S[k] /\ T[k - 1] = S[k - 1] /\ longer[k] = queue[k]
      BY <1>1, <1>4, <3>1
    <3> QED
      BY <1>2, <3>1, <3>2 DEF Chain
  <2> QED
    BY <2>1, <2>2
<1>6. T[0] = first
  BY <1>1, <1>2, <1>4
<1>7. Chain(T, longer)
  BY <1>1, <1>5 DEF Chain
<1>8. Leads(longer, first, Executed(last, call))
  BY <1>1, <1>4, <1>6, <1>7 DEF Leads
<1> QED
  BY <1>8 DEF longer

LEMMA TakenFirst ==
  ASSUME NEW queue \in Seq(Message), queue # << >>, NEW first, NEW last, Leads(queue, first, last)
  PROVE  /\ Leads(Tail(queue), Executed(first, Head(queue)), last)
         /\ Head(queue).op = "end_frame" => Head(queue).ended = Compose(first.surfaces)
<1> DEFINE n == Len(queue)
           rest == Tail(queue)
<1>1. n \in Nat \ {0} /\ Len(rest) = n - 1 /\ (\A k \in 1 .. n - 1 : rest[k] = queue[k + 1]) /\ Head(queue) = queue[1]
  OBVIOUS
<1>2. PICK S \in [0 .. n -> Scene] : S[0] = first /\ S[n] = last /\ Chain(S, queue)
  BY DEF Leads
<1> HIDE DEF rest
<1>3. S[1] = Executed(first, Head(queue)) /\ (Head(queue).op = "end_frame" => Head(queue).ended = Compose(first.surfaces))
  <2>1. 1 \in 1 .. n /\ 1 - 1 = 0
    BY <1>1
  <2> QED
    BY <1>1, <1>2, <2>1 DEF Chain
<1> DEFINE T == [k \in 0 .. n - 1 |-> S[k + 1]]
<1>4. T \in [0 .. n - 1 -> Scene] /\ T[0] = S[1] /\ T[n - 1] = last
  <2>1. \A k \in 0 .. n - 1 : k + 1 \in 0 .. n
    BY <1>1
  <2>2. 0 \in 0 .. n - 1 /\ 0 + 1 = 1 /\ n - 1 \in 0 .. n - 1 /\ (n - 1) + 1 = n
    BY <1>1
  <2> QED
    BY <1>2, <2>1, <2>2
<1>5. ASSUME NEW k \in 1 .. n - 1
      PROVE  /\ T[k] = Executed(T[k - 1], rest[k])
             /\ rest[k].op = "end_frame" => rest[k].ended = Compose(T[k - 1].surfaces)
  <2>1. k + 1 \in 1 .. n /\ (k + 1) - 1 = k /\ k \in 0 .. n - 1 /\ k - 1 \in 0 .. n - 1 /\ (k - 1) + 1 = k
    BY <1>1
  <2>2. T[k] = S[k + 1] /\ T[k - 1] = S[k] /\ rest[k] = queue[k + 1]
    BY <1>1, <2>1
  <2>3. S[k + 1] = Executed(S[(k + 1) - 1], queue[k + 1])
        /\ (queue[k + 1].op = "end_frame" => queue[k + 1].ended = Compose(S[(k + 1) - 1].surfaces))
    BY <1>2, <2>1 DEF Chain
  <2> HIDE DEF T
  <2> QED
    BY <2>1, <2>2, <2>3
<1> HIDE DEF T
<1>6. Chain(T, rest)
  BY <1>1, <1>5 DEF Chain
<1>7. Leads(rest, Executed(first, Head(queue)), last)
  BY <1>1, <1>3, <1>4, <1>6 DEF Leads
<1> QED
  BY <1>3, <1>7 DEF rest

-----------------------------------------------------------------------------
(* The client's books and the CPU model.                                    *)

Books == [surfaces : [Surfaces -> Nat], cache : [Slots -> Nat]]
Fits(b, c) ==
  /\ \A i \in Surfaces : Size(Image(c, i)) = b.surfaces[i]
  /\ \A s \in Slots : /\ b.cache[s] = 0 => c.cache[s] = NoImage
                      /\ b.cache[s] > 1 => Size(c.cache[s]) + 1 = b.cache[s]

LEMMA SinkParts ==
  ASSUME NEW b \in Books, NEW pdu \in Call
  PROVE  \/ SinkCalls(b, pdu) = << >>
         \/ \E call \in Call : /\ SinkCalls(b, pdu) = <<call>>
                               /\ call.op = pdu.op
                               /\ call.op \notin {"fill", "nv12"} => call = pdu
                               /\ call.op \in {"fill", "nv12"} => call.id = pdu.id
                               /\ call.op = "nv12" => call.buffer = pdu.buffer /\ call.value = pdu.value
<1>1. CASE pdu.op \in {"fill", "nv12"}
  <2> DEFINE rects == Clipped(pdu.rects, b.surfaces[pdu.id])
             call == [pdu EXCEPT !.rects = rects]
  <2>1. pdu.id \in Surfaces /\ b.surfaces[pdu.id] \in Nat /\ pdu.rects \in SUBSET Rect
    <3>1. pdu.id \in Surfaces
      BY <1>1, CallParts
    <3>2. pdu.rects \in SUBSET Rect
      BY <1>1 DEF Call
    <3> QED
      BY <3>1, <3>2 DEF Books
  <2>2. rects \in SUBSET Rect
    <3>1. \A r \in pdu.rects : clip_rect(r, b.surfaces[pdu.id]) \in Rect
      BY <2>1, Clipping
    <3> QED
      BY <3>1 DEF Clipped
  <2>3. SinkCalls(b, pdu) = IF rects = {} THEN << >> ELSE <<call>>
    BY <1>1 DEF SinkCalls
  <2> HIDE DEF rects
  <2>4. call \in Call /\ call.op = pdu.op /\ call.id = pdu.id
        /\ (call.op = "nv12" => call.buffer = pdu.buffer /\ call.value = pdu.value)
    <3>1. CASE pdu.op = "fill"
      <4>1. pdu \in [op : {"fill", "bgra"}, id : Surfaces, rects : SUBSET Rect, value : Plain]
        BY <3>1 DEF Call
      <4>2. call \in [op : {"fill", "bgra"}, id : Surfaces, rects : SUBSET Rect, value : Plain]
            /\ call.op = pdu.op /\ call.id = pdu.id
        BY <2>2, <4>1
      <4> QED
        BY <3>1, <4>2 DEF Call
    <3>2. CASE pdu.op = "nv12"
      <4>1. pdu \in [op : {"nv12"}, id : Surfaces, rects : SUBSET Rect, buffer : Buffers, value : Plain]
        BY <3>2 DEF Call
      <4>2. call \in [op : {"nv12"}, id : Surfaces, rects : SUBSET Rect, buffer : Buffers, value : Plain]
            /\ call.op = pdu.op /\ call.id = pdu.id /\ call.buffer = pdu.buffer /\ call.value = pdu.value
        BY <2>2, <4>1
      <4> QED
        BY <3>2, <4>2 DEF Call
    <3> QED
      BY <1>1, <3>1, <3>2
  <2> HIDE DEF call
  <2> QED
    BY <1>1, <2>3, <2>4
<1>2. CASE pdu.op \notin {"fill", "nv12"}
  BY <1>2 DEF SinkCalls
<1> QED
  BY <1>1, <1>2

LEMMA SameSizes ==
  ASSUME NEW c \in Scene, NEW call \in Call, call.op \notin {"reset", "create", "delete"}
  PROVE  \A i \in Surfaces : Size(Image(CpuCall(c, call), i)) = Size(Image(c, i))
<1> DEFINE d == CpuCall(c, call)
<1>1. CASE call.op = "map"
  <2>1. \A i \in Surfaces : Image(d, i) = Image(c, i)
    BY <1>1, CallParts DEF CpuCall, Image, Scene, Surface
  <2> QED
    BY <2>1
<1>2. CASE call.op \in {"surface_to_cache", "evict"}
  <2>1. d.surfaces = c.surfaces
    BY <1>2, CallParts DEF CpuCall, Scene
  <2> QED
    BY <2>1 DEF Image
<1>3. CASE call.op \in {"fill", "bgra", "nv12", "surface_to_surface", "cache_to_surface"}
  <2>1. call.id \in Surfaces
    BY <1>3, CallParts
  <2>2. d = c \/ \E image \in Strip : Size(image) = Size(Image(c, call.id)) /\ d = WithImage(c, call.id, image)
    <3>1. CASE call.op \in {"fill", "bgra", "nv12"}
      <4> DEFINE image == Paint(Image(c, call.id), call.rects, call.value)
      <4>1. call.value \in Pixel /\ Image(c, call.id) \in Strip
        BY <2>1, <3>1, CallParts, SceneParts DEF Plain
      <4>2. image \in Strip /\ Size(image) = Size(Image(c, call.id))
        BY <4>1, Painting
      <4>3. d = c \/ d = WithImage(c, call.id, image)
        BY <3>1 DEF CpuCall
      <4> HIDE DEF d, image
      <4> QED
        BY <4>2, <4>3
    <3>2. CASE call.op = "surface_to_surface"
      <4> DEFINE source == Image(c, call.src)
                 dest == Image(c, call.id)
                 r == clip_rect(call.rect, Size(source))
                 whole == [x |-> 0, width |-> r.width]
                 part == crop(source, r)
                 image == Everywhere(part, whole, dest, call.dests)
      <4>1. call.src \in Surfaces /\ call.rect \in Rect /\ call.dests \in Seq(Nat)
        BY <3>2, CallParts
      <4>2. source \in Strip /\ dest \in Strip /\ Size(source) \in Nat
        BY <2>1, <4>1, SceneParts, StripSize
      <4>3. r \in Rect /\ (r.width # 0 => r.x + r.width <= Size(source))
        <5> HIDE DEF source
        <5> QED
          BY <4>1, <4>2, Clipping
      <4>4. d = c \/ (r.width # 0 /\ d = WithImage(c, call.id, image))
        BY <3>2 DEF CpuCall
      <4>5. r.width # 0 => image \in Strip /\ Size(image) = Size(dest)
        <5> SUFFICES ASSUME r.width # 0 PROVE image \in Strip /\ Size(image) = Size(dest)
          OBVIOUS
        <5> HIDE DEF source, dest, r
        <5>1. part \in Strip /\ Size(part) = r.width
          BY <4>2, <4>3, Cropping
        <5>2. whole \in Rect /\ whole.x + whole.width <= Size(part)
          BY <4>3, <5>1 DEF Rect
        <5> HIDE DEF part, whole
        <5> QED
          BY <4>1, <4>2, <5>1, <5>2, Copying
      <4> HIDE DEF d, image, r
      <4> QED
        BY <4>4, <4>5
    <3>3. CASE call.op = "cache_to_surface"
      <4> DEFINE source == c.cache[call.slot]
                 dest == Image(c, call.id)
                 whole == [x |-> 0, width |-> Size(source)]
                 image == Everywhere(source, whole, dest, call.dests)
      <4>1. call.slot \in Slots /\ call.dests \in Seq(Nat)
        BY <3>3, CallParts
      <4>2. source \in Strip /\ dest \in Strip /\ Size(source) \in Nat
        BY <2>1, <4>1, SceneParts, StripSize
      <4>3. whole \in Rect /\ whole.x + whole.width <= Size(source)
        BY <4>2 DEF Rect
      <4>4. image \in Strip /\ Size(image) = Size(dest)
        <5> HIDE DEF source, dest, whole
        <5> QED
          BY <4>1, <4>2, <4>3, Copying
      <4>5. d = c \/ d = WithImage(c, call.id, image)
        BY <3>3 DEF CpuCall
      <4> HIDE DEF d, image
      <4> QED
        BY <4>4, <4>5
    <3> QED
      BY <1>3, <3>1, <3>2, <3>3
  <2> HIDE DEF d
  <2>3. ASSUME NEW image \in Strip, Size(image) = Size(Image(c, call.id)), d = WithImage(c, call.id, image), NEW i \in Surfaces
        PROVE  Size(Image(d, i)) = Size(Image(c, i))
    <3>1. Image(d, i) = IF i = call.id THEN image ELSE Image(c, i)
      BY <2>1, <2>3, Redraw
    <3> QED
      BY <2>3, <3>1
  <2> QED
    BY <2>2, <2>3, Zenon DEF d
<1> QED
  BY <1>1, <1>2, <1>3, CallParts

LEMMA SameSlots ==
  ASSUME NEW c \in Scene, NEW call \in Call, call.op \notin {"reset", "surface_to_cache", "evict"}
  PROVE  CpuCall(c, call).cache = c.cache
BY CallParts DEF CpuCall, WithImage, Scene

LEMMA BooksFollow ==
  ASSUME NEW b \in Books, NEW pdu \in Call, Accepts(b, pdu), NEW c \in Scene, Fits(b, c) \/ pdu.op = "reset"
  PROVE  /\ Book(b, pdu) \in Books
         /\ DrawnAtOnce(c, SinkCalls(b, pdu)) \in Scene
         /\ Fits(Book(b, pdu), DrawnAtOnce(c, SinkCalls(b, pdu)))
<1> DEFINE d == DrawnAtOnce(c, SinkCalls(b, pdu))
<1>0. ASSUME NEW call, SinkCalls(b, pdu) = <<call>>
      PROVE  d = CpuCall(c, call)
  BY <1>0 DEF DrawnAtOnce
<1>1. CASE pdu.op = "reset"
  <2>1. d = Empty /\ Book(b, pdu) = NoBooks
    BY <1>1 DEF SinkCalls, DrawnAtOnce, CpuCall, Book
  <2>2. NoBooks \in Books /\ Size(NoImage) = 0
    BY Blanks DEF NoBooks, Books
  <2> QED
    BY <2>1, <2>2, Emptiness DEF Fits, NoBooks
<1>2. CASE pdu.op = "create"
  <2>1. pdu.id \in Surfaces /\ pdu.size \in Nat
    BY <1>2, CallParts
  <2>2. d = [c EXCEPT !.surfaces[pdu.id] = NewSurface(pdu.size)] /\ Book(b, pdu) = [b EXCEPT !.surfaces[pdu.id] = pdu.size]
    BY <1>2 DEF SinkCalls, DrawnAtOnce, CpuCall, Book
  <2>3. d \in Scene
    BY <1>2, Drawing DEF SinkCalls, DrawnAtOnce
  <2>4. Size(Blank(pdu.size)) = pdu.size
    BY <2>1, Blanks
  <2>5. (\A i \in Surfaces : Image(d, i) = IF i = pdu.id THEN Blank(pdu.size) ELSE Image(c, i)) /\ d.cache = c.cache
    BY <2>1, <2>2 DEF Scene, Image, NewSurface
  <2>6. Book(b, pdu) \in Books /\ Book(b, pdu).cache = b.cache
        /\ \A i \in Surfaces : Book(b, pdu).surfaces[i] = IF i = pdu.id THEN pdu.size ELSE b.surfaces[i]
    BY <2>1, <2>2 DEF Books
  <2> HIDE DEF d
  <2> QED
    BY <1>2, <2>3, <2>4, <2>5, <2>6 DEF Fits, d
<1>3. CASE pdu.op = "delete"
  <2>1. pdu.id \in Surfaces
    BY <1>3, CallParts
  <2>2. Book(b, pdu) \in Books /\ Book(b, pdu).cache = b.cache
        /\ \A i \in Surfaces : Book(b, pdu).surfaces[i] = IF i = pdu.id THEN 0 ELSE b.surfaces[i]
    BY <1>3, <2>1 DEF Books, Book
  <2>3. CASE b.surfaces[pdu.id] = 0
    <3>1. d = c
      BY <1>3, <2>3 DEF SinkCalls, DrawnAtOnce
    <3> HIDE DEF d
    <3> QED
      BY <1>3, <2>2, <2>3, <3>1 DEF Fits, d
  <2>4. CASE b.surfaces[pdu.id] # 0
    <3>1. d = [c EXCEPT !.surfaces[pdu.id] = NoSurface]
      BY <1>3, <2>4 DEF SinkCalls, DrawnAtOnce, CpuCall
    <3>2. d \in Scene
      BY <1>3, <2>4, Drawing DEF SinkCalls, DrawnAtOnce
    <3>3. (\A i \in Surfaces : Image(d, i) = IF i = pdu.id THEN NoImage ELSE Image(c, i)) /\ d.cache = c.cache
      BY <2>1, <3>1 DEF Scene, Image, NoSurface
    <3>4. Size(NoImage) = 0
      BY Blanks
    <3> HIDE DEF d
    <3> QED
      BY <1>3, <2>2, <3>2, <3>3, <3>4 DEF Fits, d
  <2> QED
    BY <2>3, <2>4
<1>4. CASE pdu.op \in {"map", "fill", "bgra", "nv12", "surface_to_surface", "cache_to_surface"}
  <2>1. Book(b, pdu) = b
    BY <1>4 DEF Book
  <2>2. d \in Scene /\ (\A i \in Surfaces : Size(Image(d, i)) = Size(Image(c, i))) /\ d.cache = c.cache
    <3>1. CASE SinkCalls(b, pdu) = << >>
      BY <3>1 DEF DrawnAtOnce
    <3>2. CASE SinkCalls(b, pdu) # << >>
      <4>1. PICK call \in Call : SinkCalls(b, pdu) = <<call>> /\ call.op = pdu.op
        BY <3>2, SinkParts
      <4>2. d = CpuCall(c, call)
        BY <1>0, <4>1
      <4> HIDE DEF d
      <4> QED
        BY <1>4, <4>1, <4>2, Drawing, SameSizes, SameSlots
    <3> QED
      BY <3>1, <3>2
  <2> HIDE DEF d
  <2> QED
    BY <1>4, <2>1, <2>2 DEF Fits, d
<1>5. CASE pdu.op = "surface_to_cache"
  <2>1. pdu.id \in Surfaces /\ pdu.rect \in Rect /\ pdu.slot \in Slots /\ pdu.rect.width \in Nat
    BY <1>5, CallParts DEF Rect
  <2> DEFINE source == Image(c, pdu.id)
             r == clip_rect(pdu.rect, Size(source))
  <2>2. d = CpuCall(c, pdu) /\ d \in Scene /\ (\A i \in Surfaces : Size(Image(d, i)) = Size(Image(c, i)))
    BY <1>5, Drawing, SameSizes DEF SinkCalls, DrawnAtOnce
  <2>3. d = IF ~Exists(c, pdu.id) \/ r.width = 0 THEN c ELSE [c EXCEPT !.cache[pdu.slot] = crop(source, r)]
    BY <1>5, <2>2 DEF CpuCall
  <2>4. source \in Strip /\ Size(source) = b.surfaces[pdu.id] /\ b.surfaces[pdu.id] # 0 /\ Size(source) \in Nat
        /\ Within(pdu.rect, Size(source))
    BY <1>5, <2>1, SceneParts, StripSize DEF Fits, Accepts
  <2>5. Exists(c, pdu.id)
    BY <2>1, <2>4, EmptyStrip DEF Exists
  <2>6. pdu.rect.width # 0 => r = pdu.rect /\ crop(source, r) \in Strip /\ Size(crop(source, r)) = pdu.rect.width
    <3> HIDE DEF source
    <3>1. pdu.rect.width # 0 => clip_rect(pdu.rect, Size(source)) = pdu.rect
      BY <2>1, <2>4, Clipping
    <3> QED
      BY <2>1, <2>4, <3>1, Cropping DEF Within
  <2>7. pdu.rect.width = 0 => r.width = 0
    BY <2>1 DEF clip_rect, NoRect
  <2>8. Book(b, pdu) \in Books /\ Book(b, pdu).surfaces = b.surfaces
        /\ \A s \in Slots : Book(b, pdu).cache[s] = IF s = pdu.slot THEN pdu.rect.width + 1 ELSE b.cache[s]
    BY <1>5, <2>1 DEF Books, Book
  <2>9. \A s \in Slots : s # pdu.slot => d.cache[s] = c.cache[s]
    BY <2>1, <2>3 DEF Scene
  <2>10. pdu.rect.width # 0 => Size(d.cache[pdu.slot]) = pdu.rect.width
    <3> HIDE DEF r, source
    <3>1. pdu.rect.width # 0 => d.cache[pdu.slot] = crop(source, r)
      BY <2>1, <2>3, <2>5, <2>6 DEF Scene
    <3> QED
      BY <2>6, <3>1
  <2> HIDE DEF d, r, source
  <2> QED
    <3>1. \A i \in Surfaces : Size(Image(d, i)) = Book(b, pdu).surfaces[i]
      BY <1>5, <2>2, <2>8 DEF Fits
    <3>2. \A s \in Slots : s # pdu.slot => /\ Book(b, pdu).cache[s] = 0 => d.cache[s] = NoImage
                                           /\ Book(b, pdu).cache[s] > 1 => Size(d.cache[s]) + 1 = Book(b, pdu).cache[s]
      BY <1>5, <2>8, <2>9 DEF Fits
    <3>3. /\ Book(b, pdu).cache[pdu.slot] = 0 => d.cache[pdu.slot] = NoImage
          /\ Book(b, pdu).cache[pdu.slot] > 1 => Size(d.cache[pdu.slot]) + 1 = Book(b, pdu).cache[pdu.slot]
      BY <2>1, <2>8, <2>10
    <3> QED
      BY <2>2, <2>8, <3>1, <3>2, <3>3 DEF Fits, d
<1>6. CASE pdu.op = "evict"
  <2>1. pdu.slot \in Slots
    BY <1>6, CallParts
  <2>2. Book(b, pdu) \in Books /\ Book(b, pdu).surfaces = b.surfaces
        /\ \A s \in Slots : Book(b, pdu).cache[s] = IF s = pdu.slot THEN 0 ELSE b.cache[s]
    BY <1>6, <2>1 DEF Books, Book
  <2>3. CASE b.cache[pdu.slot] = 0
    <3>1. d = c
      BY <1>6, <2>3 DEF SinkCalls, DrawnAtOnce
    <3> HIDE DEF d
    <3> QED
      BY <1>6, <2>2, <2>3, <3>1 DEF Fits, d
  <2>4. CASE b.cache[pdu.slot] # 0
    <3>1. d = [c EXCEPT !.cache[pdu.slot] = NoImage]
      BY <1>6, <2>4 DEF SinkCalls, DrawnAtOnce, CpuCall
    <3>2. d \in Scene
      BY <1>6, <2>4, Drawing DEF SinkCalls, DrawnAtOnce
    <3>3. d.surfaces = c.surfaces /\ \A s \in Slots : d.cache[s] = IF s = pdu.slot THEN NoImage ELSE c.cache[s]
      BY <2>1, <3>1 DEF Scene
    <3> HIDE DEF d
    <3> QED
      BY <1>6, <2>2, <3>2, <3>3 DEF Fits, Image, d
  <2> QED
    BY <2>3, <2>4
<1> QED
  BY <1>1, <1>2, <1>3, <1>4, <1>5, <1>6, CallParts

-----------------------------------------------------------------------------
(* The inductive invariant.                                                 *)

Commit == [reads : SUBSET Buffers, keep : SUBSET Buffers, shows : BOOLEAN, picture : Strip, ended : Strip]

GfxTypeOK ==
  /\ books \in Books
  /\ calls \in Seq(Message)
  /\ scene \in Scene /\ reference \in Scene
  /\ work \in [reads : SUBSET Buffers, keep : SUBSET Buffers]
  /\ commits \in Seq(Commit)
  /\ buffers \in [Buffers -> Plain]
  /\ pictures \in Nat /\ pdus \in Nat /\ pictures <= pdus /\ pdus <= MaxPdus
  /\ leg \in {"New", "Ready", "Failed"} /\ visible \in BOOLEAN

\* The picture buffers that the first k of the committed command buffers read.
ReadBy(queue, k) == {b \in Buffers : \E j \in 1 .. k : b \in queue[j].reads}

\* Every reference to a picture buffer is covered by commands that keep it alive.
ReadsInv ==
  /\ SceneReads(scene, ReadBy(commits, Len(commits)) \cup work.reads)
  /\ work.reads \subseteq work.keep
  /\ \A k \in DOMAIN commits : /\ OnlyReads(commits[k].picture, ReadBy(commits, k))
                               /\ commits[k].reads \subseteq commits[k].keep

\* A queued picture is still in its buffer.
QueueInv == \A k \in DOMAIN calls : calls[k].op = "nv12" => calls[k].value = buffers[calls[k].buffer]

\* Executing the queue on what the scene shows leads to the CPU model.
ChainInv == Leads(calls, Seen(scene, buffers), reference)

ShownInv ==
  /\ screen.shown = screen.ended
  /\ \A k \in DOMAIN commits :
       commits[k].shows => Resolved(commits[k].picture, Buffers, buffers) = commits[k].ended

BooksInv == leg = "Ready" => Fits(books, reference)

GfxInv == GfxTypeOK /\ ReadsInv /\ QueueInv /\ ChainInv /\ ShownInv /\ BooksInv

LEMMA Contents ==
  ASSUME GfxTypeOK
  PROVE  Filled(buffers) /\ DOMAIN buffers = Buffers /\ Seen(scene, buffers) \in Scene
<1>1. Filled(buffers) /\ DOMAIN buffers = Buffers
  BY DEF GfxTypeOK, Filled, Plain
<1> QED
  BY <1>1, SeenParts DEF GfxTypeOK

LEMMA ShownExactly ==
  ASSUME GfxInv
  PROVE  RenderedIsExact
<1>1. ASSUME calls = << >>, leg = "Ready"
      PROVE  Fits(books, scene)
  <2>1. reference = Seen(scene, buffers)
    BY <1>1, Contents, Drained DEF GfxInv, GfxTypeOK, ChainInv
  <2>2. scene \in Scene /\ Filled(buffers) /\ Fits(books, reference)
    BY <1>1, Contents DEF GfxInv, GfxTypeOK, BooksInv
  <2>3. \A image \in Strip : Size(Resolved(image, Buffers, buffers)) = Size(image)
          /\ (Resolved(image, Buffers, buffers) = NoImage <=> image = NoImage)
    <3>1. Buffers \in SUBSET Buffers
      OBVIOUS
    <3> QED
      BY <2>2, <3>1, Resolving, Zenon
  <2>4. \A i \in Surfaces : Image(reference, i) = Resolved(Image(scene, i), Buffers, buffers)
    BY <2>1, <2>2, SeenParts
  <2>5. \A s \in Slots : reference.cache[s] = Resolved(scene.cache[s], Buffers, buffers)
    BY <2>1, <2>2, SeenParts
  <2> QED
    BY <2>2, <2>3, <2>4, <2>5, SceneParts DEF Fits
<1> QED
  BY <1>1 DEF RenderedIsExact, PresentedIsExact, BooksMatchScene, Fits, GfxInv, ShownInv

LEMMA PdusAreCalls == Pdus \subseteq Call
<1>1. Sizes \subseteq Nat \ {0} /\ Points \subseteq Nat /\ Strips \subseteq Rect
  BY CompositingAssumption DEF Rect
<1>2. {{r} : r \in Strips} \subseteq SUBSET Rect
  BY <1>1
<1>3. Fill \in Plain /\ Tile \in Plain
  BY PlainValues
<1>4. \A p \in Points : <<p>> \in Seq(Nat) /\ \A q \in Points : <<p, q>> \in Seq(Nat)
  BY <1>1
<1>5. [op : {"create"}, id : Surfaces, size : Sizes] \subseteq Call
  BY <1>1 DEF Call
<1>6. [op : {"map"}, id : Surfaces, at : Points] \subseteq Call
  BY <1>1 DEF Call
<1>7. [op : {"fill"}, id : Surfaces, rects : {{r} : r \in Strips}, value : {Fill}] \subseteq Call
  BY <1>2, <1>3 DEF Call
<1>8. [op : {"bgra"}, id : Surfaces, rects : {{r} : r \in Strips}, value : {Tile}] \subseteq Call
  BY <1>2, <1>3 DEF Call
<1>9. [op : {"surface_to_surface"}, src : Surfaces, id : Surfaces, rect : Strips,
       dests : {<<p>> : p \in Points} \cup {<<p, q>> : p, q \in Points}] \subseteq Call
  <2> DEFINE D == {<<p>> : p \in Points} \cup {<<p, q>> : p, q \in Points}
  <2>1. D \subseteq Seq(Nat)
    <3>1. ASSUME NEW d \in D PROVE d \in Seq(Nat)
      <4>1. CASE \E p \in Points : d = <<p>>
        BY <1>4, <4>1
      <4>2. CASE \E p, q \in Points : d = <<p, q>>
        BY <1>4, <4>2
      <4> QED
        BY <4>1, <4>2
    <3> HIDE DEF D
    <3> QED
      BY <3>1
  <2> HIDE DEF D
  <2>2. [op : {"surface_to_surface"}, src : Surfaces, id : Surfaces, rect : Strips, dests : D] \subseteq Call
    BY <1>1, <2>1 DEF Call
  <2> QED
    BY <2>2 DEF D
<1>10. [op : {"surface_to_cache"}, id : Surfaces, rect : Strips, slot : Slots] \subseteq Call
  BY <1>1 DEF Call
<1>11. [op : {"cache_to_surface"}, slot : Slots, id : Surfaces, dests : {<<p>> : p \in Points}] \subseteq Call
  <2> DEFINE D == {<<p>> : p \in Points}
  <2>1. D \subseteq Seq(Nat)
    <3>1. ASSUME NEW d \in D PROVE d \in Seq(Nat)
      <4>1. PICK p \in Points : d = <<p>>
        OBVIOUS
      <4> QED
        BY <1>4, <4>1
    <3> HIDE DEF D
    <3> QED
      BY <3>1
  <2> HIDE DEF D
  <2>2. [op : {"cache_to_surface"}, slot : Slots, id : Surfaces, dests : D] \subseteq Call
    BY <2>1 DEF Call
  <2> QED
    BY <2>2 DEF D
<1>12. [op : {"reset"}] \subseteq Call /\ [op : {"delete"}, id : Surfaces] \subseteq Call
       /\ [op : {"evict"}, slot : Slots] \subseteq Call
  BY DEF Call
<1> QED
  BY <1>5, <1>6, <1>7, <1>8, <1>9, <1>10, <1>11, <1>12 DEF Pdus

-----------------------------------------------------------------------------
(* The actions.                                                             *)

LEMMA GfxInitially == GfxInit => GfxInv
<1> SUFFICES ASSUME GfxInit PROVE GfxInv
  OBVIOUS
<1>1. PICK i \in Surfaces, n \in Sizes : reference = Start(i, n) /\ books = [NoBooks EXCEPT !.surfaces[i] = n]
  BY DEF GfxInit
<1> DEFINE image == [x \in 0 .. n - 1 |-> IF x = 0 THEN Tile ELSE Black]
           surface == [image |-> image, mapped |-> TRUE, origin |-> 0]
<1>2. n \in Nat /\ MaxPdus \in Nat
  BY CompositingAssumption, BufferNames
<1>3. Black \in Plain /\ Tile \in Plain /\ Black \in Pixel /\ Tile \in Pixel
  BY PlainValues DEF Plain
<1>4. image \in Strip /\ Size(image) = n /\ \A x \in DOMAIN image : image[x] \notin Buffers
  <2>1. \A x \in 0 .. n - 1 : image[x] \in Pixel
    BY <1>3
  <2>2. image = [x \in 0 .. n - 1 |-> image[x]] /\ \A x \in DOMAIN image : image[x] \notin Buffers
    BY <1>3 DEF Plain
  <2> HIDE DEF image
  <2> QED
    BY <1>2, <2>1, <2>2, MakeStrip
<1> HIDE DEF image
<1>5. surface \in Surface /\ reference = [Empty EXCEPT !.surfaces[i] = surface]
  BY <1>1, <1>4 DEF Surface, Start, image
<1>6. /\ reference \in Scene
      /\ \A j \in Surfaces : Image(reference, j) = IF j = i THEN image ELSE NoImage
      /\ \A s \in Slots : reference.cache[s] = NoImage
  <2>1. Empty \in Scene
    BY Emptiness
  <2> HIDE DEF surface
  <2>2. reference \in Scene /\ (\A j \in Surfaces : reference.surfaces[j] = IF j = i THEN surface ELSE Empty.surfaces[j])
        /\ reference.cache = Empty.cache
    BY <1>5, <2>1 DEF Scene
  <2> QED
    BY <2>2, Emptiness DEF Image, surface
<1>7. scene = reference /\ leg = "Ready" /\ visible = TRUE /\ calls = << >> /\ work = NoWork /\ commits = << >>
      /\ buffers = [b \in Buffers |-> Black] /\ pictures = 0 /\ screen = [shown |-> << >>, ended |-> << >>] /\ pdus = 0
  BY DEF GfxInit
<1>8. books \in Books /\ \A j \in Surfaces : books.surfaces[j] = (IF j = i THEN n ELSE 0)
  BY <1>1, <1>2 DEF Books, NoBooks
<1>9. \A s \in Slots : books.cache[s] = 0
  BY <1>1 DEF NoBooks
<1>10. GfxTypeOK
  BY <1>2, <1>3, <1>6, <1>7, <1>8 DEF GfxTypeOK, NoWork
<1>11. SceneReads(scene, {})
  <2>1. OnlyReads(image, {})
    BY <1>4 DEF OnlyReads
  <2>2. OnlyReads(NoImage, {})
    <3>1. 0 \in Nat
      OBVIOUS
    <3> QED
      BY <3>1, PlainReads
  <2> QED
    BY <1>6, <1>7, <2>1, <2>2 DEF SceneReads
<1>12. ReadsInv
  <2>1. ReadBy(commits, Len(commits)) \cup work.reads = {}
    BY <1>7 DEF ReadBy, NoWork
  <2> QED
    <3>1. SceneReads(scene, ReadBy(commits, Len(commits)) \cup work.reads)
      BY <1>11, <2>1
    <3>2. DOMAIN commits = {} /\ work.reads = {}
      BY <1>7 DEF NoWork
    <3> QED
      BY <3>1, <3>2 DEF ReadsInv
<1>13. ChainInv
  <2>1. SceneReads(scene, {}) /\ Buffers \in SUBSET Buffers
    BY <1>11
  <2>2. \A im \in Strip : OnlyReads(im, {}) => Resolved(im, Buffers, buffers) = im
    <3> SUFFICES ASSUME NEW im \in Strip, OnlyReads(im, {}) PROVE Resolved(im, Buffers, buffers) = im
      OBVIOUS
    <3>1. Resolved(im, Buffers, buffers) \in Strip /\ DOMAIN Resolved(im, Buffers, buffers) = DOMAIN im
      BY <1>10, Contents, Resolving
    <3>2. \A x \in DOMAIN im : Resolved(im, Buffers, buffers)[x] = im[x]
      BY DEF Resolved, OnlyReads
    <3> QED
      BY <3>1, <3>2, SameImage
  <2>3. /\ Seen(scene, buffers) \in Scene
        /\ \A j \in Surfaces : /\ Image(Seen(scene, buffers), j) = Resolved(Image(scene, j), Buffers, buffers)
                               /\ Seen(scene, buffers).surfaces[j].mapped = scene.surfaces[j].mapped
                               /\ Seen(scene, buffers).surfaces[j].origin = scene.surfaces[j].origin
        /\ \A s \in Slots : Seen(scene, buffers).cache[s] = Resolved(scene.cache[s], Buffers, buffers)
    BY <1>6, <1>7, <1>10, Contents, SeenParts
  <2>4. /\ \A j \in Surfaces : Resolved(Image(scene, j), Buffers, buffers) = Image(scene, j)
        /\ \A s \in Slots : Resolved(scene.cache[s], Buffers, buffers) = scene.cache[s]
    BY <1>6, <1>7, <2>1, <2>2, SceneParts DEF SceneReads
  <2>5. Seen(scene, buffers) = scene
    BY <1>6, <1>7, <2>3, <2>4, SameScene
  <2> QED
    BY <1>6, <1>7, <2>5, Drained DEF ChainInv
<1>14. QueueInv /\ ShownInv
  BY <1>7 DEF QueueInv, ShownInv
<1>15. BooksInv
  BY <1>4, <1>6, <1>8, <1>9, Blanks DEF BooksInv, Fits
<1> QED
  BY <1>10, <1>12, <1>13, <1>14, <1>15 DEF GfxInv

\* What no call, command or picture changed still holds.
LEMMA ReadsKept ==
  ASSUME ReadsInv, UNCHANGED <<scene, work, commits>>
  PROVE  ReadsInv'
BY DEF ReadsInv

LEMMA ShownKept ==
  ASSUME ShownInv, UNCHANGED <<screen, commits, buffers>>
  PROVE  ShownInv'
BY DEF ShownInv

\* A message joins the queue, and the CPU model does what it asks.
LEMMA Sending ==
  ASSUME GfxTypeOK, QueueInv, ChainInv, NEW call \in Message,
         call.op = "end_frame" => call.ended = Compose(reference.surfaces),
         call.op = "nv12" => call.value = buffers'[call.buffer],
         \A k \in DOMAIN calls : calls[k].op = "nv12" => buffers'[calls[k].buffer] = buffers[calls[k].buffer],
         Seen(scene', buffers') = Seen(scene, buffers),
         calls' = calls \o <<call>>, reference' = Executed(reference, call)
  PROVE  QueueInv' /\ ChainInv' /\ calls' \in Seq(Message) /\ reference' \in Scene
<1>1. calls \in Seq(Message) /\ reference \in Scene
  BY DEF GfxTypeOK
<1>2. Seen(scene, buffers) \in Scene
  BY Contents
<1>3. Leads(calls', Seen(scene', buffers'), reference')
  BY <1>1, <1>2, Queued DEF ChainInv
<1>4. calls' \in Seq(Message) /\ reference' \in Scene
  BY <1>1, Executing
<1>5. ASSUME NEW k \in DOMAIN calls', calls'[k].op = "nv12"
      PROVE  calls'[k].value = buffers'[calls'[k].buffer]
  <2>1. CASE k \in DOMAIN calls
    <3>1. calls'[k] = calls[k]
      BY <1>1, <2>1
    <3> QED
      BY <1>5, <2>1, <3>1 DEF QueueInv
  <2>2. CASE k \notin DOMAIN calls
    <3>1. calls'[k] = call
      BY <1>1, <2>2
    <3> QED
      BY <1>5, <3>1
  <2> QED
    BY <2>1, <2>2
<1> QED
  BY <1>3, <1>4, <1>5 DEF QueueInv, ChainInv

\* A PDU or a picture is refused: nothing is drawn.
LEMMA Refusing ==
  ASSUME GfxInv, leg' = "Failed", pdus' = pdus + 1, pdus < MaxPdus,
         UNCHANGED <<books, calls, scene, visible, work, commits, buffers, pictures, screen, reference>>
  PROVE  GfxInv'
<1>1. MaxPdus \in Nat
  BY BufferNames
<1>2. GfxTypeOK'
  BY <1>1 DEF GfxInv, GfxTypeOK
<1>3. ReadsInv' /\ ShownInv'
  BY ReadsKept, ShownKept DEF GfxInv
<1>4. QueueInv' /\ ChainInv'
  BY DEF GfxInv, QueueInv, ChainInv
<1> QED
  BY <1>2, <1>3, <1>4 DEF GfxInv, BooksInv

LEMMA PduStep ==
  ASSUME GfxInv, NEW pdu \in Pdus, HandlePdu(pdu)
  PROVE  GfxInv'
<1>0. pdu \in Call /\ MaxPdus \in Nat
  BY PdusAreCalls, BufferNames
<1>1. pdus < MaxPdus /\ pdus' = pdus + 1 /\ (leg = "Ready" \/ pdu.op = "reset")
      /\ UNCHANGED <<scene, visible, work, commits, buffers, pictures, screen>>
  BY DEF HandlePdu, Arrives
<1>2. CASE leg' = "Failed" /\ UNCHANGED <<books, calls, reference>>
  BY <1>1, <1>2, Refusing
<1>3. CASE Accepts(books, pdu) /\ leg' = "Ready"
  <2>1. /\ books' = Book(books, pdu)
        /\ calls' = calls \o SinkCalls(books, pdu)
        /\ reference' = DrawnAtOnce(reference, SinkCalls(books, pdu))
        /\ leg' = "Ready"
    BY <1>3 DEF HandlePdu, SharedSink, RenderSink
  <2>2. books \in Books /\ reference \in Scene /\ (Fits(books, reference) \/ pdu.op = "reset")
    BY <1>1 DEF GfxInv, GfxTypeOK, BooksInv
  <2>3. books' \in Books /\ reference' \in Scene /\ Fits(books', reference')
    BY <1>0, <1>3, <2>1, <2>2, BooksFollow
  <2>4. QueueInv' /\ ChainInv' /\ calls' \in Seq(Message)
    <3>1. CASE SinkCalls(books, pdu) = << >>
      <4>1. calls' = calls /\ reference' = reference
        BY <2>1, <3>1 DEF DrawnAtOnce, GfxInv, GfxTypeOK
      <4> QED
        BY <1>1, <4>1 DEF GfxInv, GfxTypeOK, QueueInv, ChainInv
    <3>2. CASE SinkCalls(books, pdu) # << >>
      <4>1. PICK call \in Call : SinkCalls(books, pdu) = <<call>> /\ call.op = pdu.op
        BY <1>0, <2>2, <3>2, SinkParts
      <4>2. call \in Message /\ call.op # "end_frame" /\ call.op # "set_visible"
        BY <4>1, CallParts DEF Message
      <4>3. call.op # "nv12"
        BY <4>1 DEF Pdus
      <4>4. calls' = calls \o <<call>> /\ reference' = Executed(reference, call)
        BY <2>1, <4>1, <4>2 DEF DrawnAtOnce, Executed
      <4>5. Seen(scene', buffers') = Seen(scene, buffers)
        BY <1>1
      <4> QED
        BY <1>1, <4>2, <4>3, <4>4, <4>5, Sending DEF GfxInv
    <3> QED
      BY <3>1, <3>2
  <2>5. ReadsInv' /\ ShownInv'
    BY <1>1, ReadsKept, ShownKept DEF GfxInv
  <2>6. GfxTypeOK'
    BY <1>0, <1>1, <2>1, <2>3, <2>4 DEF GfxInv, GfxTypeOK
  <2> QED
    BY <2>3, <2>4, <2>5, <2>6 DEF GfxInv, BooksInv
<1> QED
  BY <1>2, <1>3 DEF HandlePdu

LEMMA EndFrameStep ==
  ASSUME GfxInv, HandleEndFrame
  PROVE  GfxInv'
<1> DEFINE call == [op |-> "end_frame", ended |-> Compose(reference.surfaces)]
<1>0. MaxPdus \in Nat
  BY BufferNames
<1>1. /\ pdus < MaxPdus /\ pdus' = pdus + 1 /\ calls' = calls \o <<call>>
      /\ UNCHANGED <<books, leg, scene, visible, work, commits, buffers, pictures, screen, reference>>
  BY DEF HandleEndFrame, Arrives, SharedSink, RenderSink
<1>2. Compose(reference.surfaces) \in Strip
  BY Composing DEF GfxInv, GfxTypeOK
<1>3. call \in Message /\ call.op = "end_frame" /\ call.ended = Compose(reference.surfaces)
  BY <1>2 DEF Message, Mark
<1> HIDE DEF call
<1>4. reference' = Executed(reference, call) /\ Seen(scene', buffers') = Seen(scene, buffers)
  BY <1>1, <1>3 DEF Executed
<1>5. QueueInv' /\ ChainInv' /\ calls' \in Seq(Message)
  BY <1>1, <1>3, <1>4, Sending DEF GfxInv
<1>6. ReadsInv' /\ ShownInv'
  BY <1>1, ReadsKept, ShownKept DEF GfxInv
<1>7. GfxTypeOK'
  BY <1>0, <1>1, <1>5 DEF GfxInv, GfxTypeOK
<1> QED
  BY <1>1, <1>5, <1>6, <1>7 DEF GfxInv, BooksInv

LEMMA SetVisibleStep ==
  ASSUME GfxInv, NEW v \in BOOLEAN, SetVisible(v)
  PROVE  GfxInv'
<1> DEFINE call == [op |-> "set_visible", value |-> v]
<1>0. MaxPdus \in Nat
  BY BufferNames
<1>1. /\ pdus < MaxPdus /\ pdus' = pdus + 1 /\ calls' = calls \o <<call>>
      /\ UNCHANGED <<books, leg, scene, visible, work, commits, buffers, pictures, screen, reference>>
  BY DEF SetVisible, Arrives, SharedSink, RenderSink
<1>2. call \in Message /\ call.op = "set_visible"
  BY DEF Message, Mark
<1> HIDE DEF call
<1>3. reference' = Executed(reference, call) /\ Seen(scene', buffers') = Seen(scene, buffers)
  BY <1>1, <1>2 DEF Executed
<1>4. QueueInv' /\ ChainInv' /\ calls' \in Seq(Message)
  BY <1>1, <1>2, <1>3, Sending DEF GfxInv
<1>5. ReadsInv' /\ ShownInv'
  BY <1>1, ReadsKept, ShownKept DEF GfxInv
<1>6. GfxTypeOK'
  BY <1>0, <1>1, <1>4 DEF GfxInv, GfxTypeOK
<1> QED
  BY <1>1, <1>4, <1>5, <1>6 DEF GfxInv, BooksInv

LEMMA NextLegStep ==
  ASSUME GfxInv, NextLeg
  PROVE  GfxInv'
<1>1. leg' = "New" /\ books' = NoBooks
      /\ UNCHANGED <<calls, scene, visible, work, commits, buffers, pictures, screen, reference, pdus>>
  BY DEF NextLeg
<1>2. GfxTypeOK'
  BY <1>1 DEF GfxInv, GfxTypeOK, NoBooks, Books
<1>3. ReadsInv' /\ ShownInv'
  BY <1>1, ReadsKept, ShownKept DEF GfxInv
<1>4. QueueInv' /\ ChainInv'
  BY <1>1 DEF GfxInv, QueueInv, ChainInv
<1> QED
  BY <1>1, <1>2, <1>3, <1>4 DEF GfxInv, BooksInv

\* The decoder fills a buffer that nothing queued, recorded or committed reads.
LEMMA VideoStep ==
  ASSUME GfxInv, NEW id \in Surfaces, NEW r \in Strips, NEW b \in Buffers, HandleVideo(id, {r}, b)
  PROVE  GfxInv'
<1> DEFINE pdu == [op |-> "nv12", id |-> id, rects |-> {r}, buffer |-> b, value |-> PictureValue(pictures + 1)]
<1>0. MaxPdus \in Nat
  BY BufferNames
<1>1. /\ pdus < MaxPdus /\ pdus' = pdus + 1 /\ (leg = "Ready" \/ pdu.op = "reset")
      /\ UNCHANGED <<books, scene, visible, work, commits, screen>>
  BY DEF HandleVideo, Arrives
<1>2. CASE leg' = "Failed" /\ UNCHANGED <<buffers, pictures, calls, reference>>
  BY <1>1, <1>2, Refusing
<1>3. CASE /\ Accepts(books, pdu) /\ b \notin Held
           /\ buffers' = [buffers EXCEPT ![b] = pdu.value] /\ pictures' = pictures + 1
           /\ SharedSink(SinkCalls(books, pdu))
           /\ reference' = DrawnAtOnce(reference, SinkCalls(books, pdu))
           /\ leg' = leg
  <2>1. /\ buffers' = [buffers EXCEPT ![b] = pdu.value] /\ pictures' = pictures + 1
        /\ calls' = calls \o SinkCalls(books, pdu)
        /\ reference' = DrawnAtOnce(reference, SinkCalls(books, pdu))
        /\ leg' = leg
    BY <1>3 DEF SharedSink, RenderSink
  <2>2. pictures + 1 \in 0 .. MaxPdus /\ pictures + 1 \in Nat
    BY <1>0, <1>1 DEF GfxInv, GfxTypeOK
  <2>3. PictureValue(pictures + 1) \in Plain
    BY <2>2, PlainValues
  <2>4. pdu \in Call /\ pdu.op = "nv12" /\ pdu.buffer = b /\ pdu.value = PictureValue(pictures + 1)
    <3>1. {r} \in SUBSET Rect
      BY CompositingAssumption DEF Rect
    <3>2. pdu \in [op : {"nv12"}, id : Surfaces, rects : SUBSET Rect, buffer : Buffers, value : Plain]
      BY <2>3, <3>1
    <3> QED
      BY <3>2 DEF Call
  <2> HIDE DEF pdu
  <2>5. leg = "Ready" /\ books \in Books /\ reference \in Scene /\ Fits(books, reference)
    BY <1>1, <2>4 DEF GfxInv, GfxTypeOK, BooksInv
  <2>6. Book(books, pdu) = books
    BY <2>4 DEF Book
  <2>7. reference' \in Scene /\ Fits(books', reference')
    BY <1>1, <1>3, <2>1, <2>4, <2>5, <2>6, BooksFollow
  <2>8. /\ \A k \in DOMAIN calls : calls[k].op = "nv12" => calls[k].buffer # b
        /\ b \notin work.keep
        /\ \A k \in DOMAIN commits : b \notin commits[k].keep
    BY <1>3 DEF Held
  <2>9. b \notin ReadBy(commits, Len(commits)) \cup work.reads
    <3>1. b \notin work.reads
      BY <2>8 DEF GfxInv, ReadsInv
    <3>2. \A k \in DOMAIN commits : b \notin commits[k].reads
      BY <2>8 DEF GfxInv, ReadsInv
    <3>3. DOMAIN commits = 1 .. Len(commits)
      BY DEF GfxInv, GfxTypeOK
    <3> QED
      BY <3>1, <3>2, <3>3 DEF ReadBy
  <2>10. DOMAIN buffers = Buffers /\ Filled(buffers)
    BY Contents DEF GfxInv
  <2>11. Seen(scene', buffers') = Seen(scene, buffers)
    <3>1. SceneReads(scene, ReadBy(commits, Len(commits)) \cup work.reads) /\ scene \in Scene
      BY DEF GfxInv, GfxTypeOK, ReadsInv
    <3>2. Seen(scene, buffers') = Seen(scene, buffers)
      <4> DEFINE from == ReadBy(commits, Len(commits)) \cup work.reads
      <4>1. SceneReads(scene, from) /\ scene \in Scene /\ b \notin from
            /\ \A a \in Buffers \ {b} : buffers'[a] = buffers[a]
        BY <2>1, <2>9, <2>10, <3>1
      <4> HIDE DEF from
      <4> QED
        BY <4>1, SceneUnread
    <3> QED
      BY <1>1, <3>2
  <2>12. buffers' \in [Buffers -> Plain] /\ buffers'[b] = pdu.value /\ \A a \in Buffers : a # b => buffers'[a] = buffers[a]
    BY <2>1, <2>3, <2>4 DEF GfxInv, GfxTypeOK
  <2>13. \A k \in DOMAIN calls : calls[k].op = "nv12" => buffers'[calls[k].buffer] = buffers[calls[k].buffer]
    <3>1. \A k \in DOMAIN calls : calls[k] \in Message
      BY DEF GfxInv, GfxTypeOK
    <3>2. \A k \in DOMAIN calls : calls[k].op = "nv12" => calls[k].buffer \in Buffers
      BY <3>1, CallParts, MarkParts DEF Message
    <3> QED
      BY <2>8, <2>12, <3>2
  <2>14. QueueInv' /\ ChainInv' /\ calls' \in Seq(Message)
    <3>1. CASE SinkCalls(books, pdu) = << >>
      <4>1. calls' = calls /\ reference' = reference
        BY <2>1, <3>1 DEF DrawnAtOnce, GfxInv, GfxTypeOK
      <4>2. QueueInv'
        BY <2>13, <4>1 DEF GfxInv, QueueInv
      <4>3. ChainInv'
        BY <2>11, <4>1 DEF GfxInv, ChainInv
      <4> QED
        BY <4>1, <4>2, <4>3 DEF GfxInv, GfxTypeOK
    <3>2. CASE SinkCalls(books, pdu) # << >>
      <4>1. PICK call \in Call : /\ SinkCalls(books, pdu) = <<call>> /\ call.op = pdu.op
                                 /\ call.buffer = pdu.buffer /\ call.value = pdu.value
        BY <2>4, <2>5, <3>2, SinkParts
      <4>2. call \in Message /\ call.op = "nv12" /\ call.value = buffers'[call.buffer]
        BY <2>4, <2>12, <4>1 DEF Message
      <4>3. calls' = calls \o <<call>> /\ reference' = Executed(reference, call)
        BY <2>1, <4>1, <4>2 DEF DrawnAtOnce, Executed
      <4> QED
        BY <2>11, <2>13, <4>2, <4>3, Sending DEF GfxInv
    <3> QED
      BY <3>1, <3>2
  <2>15. ReadsInv'
    BY <1>1, ReadsKept DEF GfxInv
  <2>16. ShownInv'
    <3>1. ASSUME NEW k \in DOMAIN commits
          PROVE  Resolved(commits[k].picture, Buffers, buffers') = Resolved(commits[k].picture, Buffers, buffers)
      <4>1. OnlyReads(commits[k].picture, ReadBy(commits, k))
        BY DEF GfxInv, ReadsInv
      <4>2. b \notin ReadBy(commits, k)
        <5>1. k \in 1 .. Len(commits) /\ Len(commits) \in Nat
          BY DEF GfxInv, GfxTypeOK
        <5> QED
          BY <2>9, <5>1 DEF ReadBy
      <4> QED
        BY <2>1, <2>10, <4>1, <4>2 DEF OnlyReads, Resolved
    <3> QED
      BY <1>1, <3>1 DEF GfxInv, ShownInv
  <2>17. GfxTypeOK'
    BY <1>0, <1>1, <2>1, <2>2, <2>7, <2>12, <2>14 DEF GfxInv, GfxTypeOK
  <2> QED
    BY <2>7, <2>14, <2>15, <2>16, <2>17 DEF GfxInv, BooksInv
\* No picture came out of the decoder.
<1>4. CASE UNCHANGED <<leg, buffers, pictures, calls, reference>>
  <2>1. GfxTypeOK'
    BY <1>0, <1>1, <1>4 DEF GfxInv, GfxTypeOK
  <2>2. ReadsInv' /\ ShownInv'
    BY <1>1, <1>4, ReadsKept, ShownKept DEF GfxInv
  <2>3. QueueInv' /\ ChainInv'
    BY <1>1, <1>4 DEF GfxInv, QueueInv, ChainInv
  <2> QED
    BY <1>1, <1>4, <2>1, <2>2, <2>3 DEF GfxInv, BooksInv
<1> QED
  BY <1>2, <1>3, <1>4 DEF HandleVideo

LEMMA MoreReads ==
  ASSUME NEW c, NEW from, NEW more, from \subseteq more
  PROVE  SceneReads(c, from) => SceneReads(c, more)
BY DEF SceneReads, OnlyReads

\* The render thread takes a call: it draws, shows or presents what was asked for.
LEMMA RenderStep ==
  ASSUME GfxInv, NEW drawable \in BOOLEAN, RenderCall(drawable)
  PROVE  GfxInv'
<1> DEFINE call == Head(calls)
<1>1. calls # << >> /\ calls' = Tail(calls) /\ UNCHANGED <<books, leg, buffers, pictures, screen, reference, pdus>>
  BY DEF RenderCall
<1>2. calls \in Seq(Message) /\ call \in Message /\ scene \in Scene /\ Filled(buffers) /\ commits \in Seq(Commit)
      /\ work.reads \in SUBSET Buffers /\ work.keep \in SUBSET Buffers
      /\ work = [reads |-> work.reads, keep |-> work.keep]
  BY <1>1, Contents DEF GfxInv, GfxTypeOK
<1>3. calls' \in Seq(Message) /\ Len(calls) \in Nat \ {0} /\ call = calls[1] /\ 1 \in DOMAIN calls
      /\ \A k \in DOMAIN calls' : k + 1 \in DOMAIN calls /\ calls'[k] = calls[k + 1]
  BY <1>1, <1>2
<1>4. QueueInv'
  BY <1>1, <1>3 DEF GfxInv, QueueInv
<1>5. Leads(Tail(calls), Executed(Seen(scene, buffers), call), reference)
      /\ (call.op = "end_frame" => call.ended = Compose(Seen(scene, buffers).surfaces))
  BY <1>1, <1>2, TakenFirst DEF GfxInv, ChainInv
<1>6. BooksInv'
  BY <1>1 DEF GfxInv, BooksInv
<1> HIDE DEF call
<1>7. CASE call.op = "end_frame"
  <2> DEFINE shot == Compose(scene.surfaces)
             commit == [reads |-> work.reads, keep |-> work.keep, shows |-> visible /\ drawable,
                        picture |-> shot, ended |-> call.ended]
  <2>1. commits' = Append(commits, commit) /\ work' = NoWork /\ UNCHANGED <<scene, visible>>
    BY <1>7 DEF RenderCall, call
  <2>2. shot \in Strip
    BY <1>2, Composing
  <2>3. call.ended \in Strip
    BY <1>2, <1>7, CallParts, MarkParts DEF Message
  <2>4. commit \in Commit
    BY <1>2, <2>2, <2>3 DEF Commit, GfxInv, GfxTypeOK
  <2>5. commit.picture = shot /\ commit.reads = work.reads /\ commit.keep = work.keep /\ commit.ended = call.ended
    OBVIOUS
  <2> DEFINE n == Len(commits)
             before == ReadBy(commits, n) \cup work.reads
  <2>6. n \in Nat /\ DOMAIN commits = 1 .. n
    BY <1>2
  <2> HIDE DEF commit, shot
  <2>7. Len(commits') = n + 1 /\ DOMAIN commits' = 1 .. n + 1 /\ commits'[n + 1] = commit
        /\ \A k \in 1 .. n : commits'[k] = commits[k]
    BY <1>2, <2>1, <2>4, <2>6
  <2>8. \A k \in 1 .. n : ReadBy(commits', k) = ReadBy(commits, k)
    <3> SUFFICES ASSUME NEW k \in 1 .. n PROVE ReadBy(commits', k) = ReadBy(commits, k)
      OBVIOUS
    <3>1. \A j \in 1 .. k : commits'[j] = commits[j]
      BY <2>6, <2>7
    <3> QED
      BY <3>1 DEF ReadBy
  <2>9. before \subseteq ReadBy(commits', n + 1)
    <3>1. ASSUME NEW a \in ReadBy(commits, n) PROVE a \in ReadBy(commits', n + 1)
      <4>1. PICK j \in 1 .. n : a \in commits[j].reads
        BY DEF ReadBy
      <4>2. j \in 1 .. n + 1 /\ commits'[j] = commits[j]
        BY <2>6, <2>7
      <4> QED
        BY <4>1, <4>2 DEF ReadBy
    <3>2. ASSUME NEW a \in work.reads PROVE a \in ReadBy(commits', n + 1)
      <4>1. n + 1 \in 1 .. n + 1 /\ commits'[n + 1].reads = work.reads
        BY <2>5, <2>6, <2>7
      <4> QED
        BY <1>2, <4>1 DEF ReadBy
    <3> QED
      BY <3>1, <3>2
  <2>10. SceneReads(scene, before)
    BY DEF GfxInv, ReadsInv
  <2>11. SceneReads(scene', ReadBy(commits', n + 1) \cup work'.reads)
    <3> DEFINE more == ReadBy(commits', n + 1) \cup work'.reads
    <3>1. before \subseteq more
      BY <2>9
    <3> HIDE DEF before, more
    <3>2. SceneReads(scene, more)
      BY <2>10, <3>1, MoreReads
    <3> QED
      BY <2>1, <3>2 DEF more
  <2>12. OnlyReads(shot, ReadBy(commits', n + 1))
    <3>1. OnlyReads(shot, before)
      BY <1>2, <2>10, ComposeReads DEF shot
    <3> HIDE DEF before
    <3> QED
      BY <2>9, <3>1 DEF OnlyReads
  <2>13. ReadsInv'
    <3>1. \A k \in 1 .. n : OnlyReads(commits'[k].picture, ReadBy(commits', k)) /\ commits'[k].reads \subseteq commits'[k].keep
      BY <2>6, <2>7, <2>8 DEF GfxInv, ReadsInv
    <3>2. OnlyReads(commits'[n + 1].picture, ReadBy(commits', n + 1)) /\ commits'[n + 1].reads \subseteq commits'[n + 1].keep
      BY <2>5, <2>7, <2>12 DEF GfxInv, ReadsInv
    <3>3. \A k \in 1 .. n + 1 : k \in 1 .. n \/ k = n + 1
      BY <2>6
    <3>4. work'.reads \subseteq work'.keep
      BY <2>1 DEF NoWork
    <3> QED
      BY <2>7, <2>11, <3>1, <3>2, <3>3, <3>4 DEF ReadsInv
  <2>14. Resolved(shot, Buffers, buffers) = call.ended
    BY <1>2, <1>5, <1>7, SeenCompose DEF shot
  <2>15. ShownInv'
    <3>1. ASSUME NEW k \in 1 .. n + 1, commits'[k].shows
          PROVE  Resolved(commits'[k].picture, Buffers, buffers') = commits'[k].ended
      <4>1. CASE k \in 1 .. n
        BY <1>1, <2>6, <2>7, <3>1, <4>1 DEF GfxInv, ShownInv
      <4>2. CASE k = n + 1
        BY <1>1, <2>5, <2>7, <2>14, <4>2
      <4> QED
        BY <2>6, <4>1, <4>2
    <3> QED
      BY <1>1, <2>7, <3>1 DEF GfxInv, ShownInv
  <2>16. ChainInv'
    <3>1. Executed(Seen(scene, buffers), call) = Seen(scene, buffers)
      BY <1>7 DEF Executed
    <3> QED
      BY <1>1, <1>5, <2>1, <3>1 DEF ChainInv
  <2>17. GfxTypeOK'
    <3>1. commits' \in Seq(Commit)
      BY <1>2, <2>1, <2>4
    <3>2. work' \in [reads : SUBSET Buffers, keep : SUBSET Buffers]
      BY <2>1 DEF NoWork
    <3> QED
      BY <1>1, <1>3, <2>1, <3>1, <3>2 DEF GfxInv, GfxTypeOK
  <2> QED
    BY <1>4, <1>6, <2>13, <2>15, <2>16, <2>17 DEF GfxInv
<1>8. CASE call.op = "set_visible"
  <2>1. visible' = call.value /\ UNCHANGED <<scene, work, commits>>
    BY <1>8 DEF RenderCall, call
  <2>2. call.value \in BOOLEAN
    BY <1>2, <1>8, CallParts, MarkParts DEF Message
  <2>3. ReadsInv' /\ ShownInv'
    BY <1>1, <2>1, ReadsKept, ShownKept DEF GfxInv
  <2>4. Executed(Seen(scene, buffers), call) = Seen(scene, buffers)
    BY <1>8 DEF Executed
  <2>5. ChainInv'
    BY <1>1, <1>5, <2>1, <2>4 DEF ChainInv
  <2>6. GfxTypeOK'
    BY <1>1, <1>3, <2>1, <2>2 DEF GfxInv, GfxTypeOK
  <2> QED
    BY <1>4, <1>6, <2>3, <2>5, <2>6 DEF GfxInv
<1>9. CASE call.op \notin {"end_frame", "set_visible"}
  <2> DEFINE reads == call.op = "nv12" /\ Exists(scene, call.id)
  <2>1. scene' = Record(scene, call) /\ UNCHANGED <<visible, commits>>
        /\ work' = IF reads THEN [reads |-> work.reads \cup {call.buffer}, keep |-> work.keep \cup Keep(call)] ELSE work
    BY <1>9 DEF RenderCall, call
  <2>2. call \in Call
    BY <1>2, <1>9, MarkParts DEF Message
  <2>3. call.op = "nv12" => call.value = buffers[call.buffer] /\ call.buffer \in Buffers
    BY <1>3, <2>2, CallParts DEF GfxInv, QueueInv
  <2>4. scene' \in Scene /\ Seen(scene', buffers) = CpuCall(Seen(scene, buffers), call)
    BY <1>2, <2>1, <2>2, <2>3, SeenRecord
  <2>5. work'.reads \in SUBSET Buffers /\ work'.keep \in SUBSET Buffers /\ work.reads \subseteq work'.reads
        /\ work'.reads \subseteq work'.keep /\ (reads => call.buffer \in work'.reads)
        /\ work' = [reads |-> work'.reads, keep |-> work'.keep]
    <3>1. work.reads \subseteq work.keep
      BY DEF GfxInv, ReadsInv
    <3>2. CASE reads
      BY <1>2, <2>1, <2>3, <3>1, <3>2 DEF Keep
    <3>3. CASE ~reads
      BY <1>2, <2>1, <3>1, <3>3
    <3> QED
      BY <3>2, <3>3
  <2>6. ReadsInv'
    <3> DEFINE before == ReadBy(commits, Len(commits)) \cup work.reads
               after == ReadBy(commits, Len(commits)) \cup work'.reads
    <3>1. SceneReads(scene, before) /\ before \subseteq after /\ (reads => call.buffer \in after)
      BY <2>5 DEF GfxInv, ReadsInv
    <3> HIDE DEF before, after
    <3>2. SceneReads(scene, after)
      BY <3>1, MoreReads
    <3>3. SceneReads(Record(scene, call), after)
      BY <1>2, <2>2, <3>1, <3>2, RecordReads
    <3> QED
      BY <2>1, <2>5, <3>3 DEF GfxInv, ReadsInv, after
  <2>7. ShownInv'
    BY <1>1, <2>1, ShownKept DEF GfxInv
  <2>8. ChainInv'
    <3>1. Executed(Seen(scene, buffers), call) = CpuCall(Seen(scene, buffers), call)
      BY <1>9 DEF Executed
    <3> QED
      BY <1>1, <1>5, <2>4, <3>1 DEF ChainInv
  <2>9. GfxTypeOK'
    <3>1. work' \in [reads : SUBSET Buffers, keep : SUBSET Buffers]
      BY <2>5
    <3> QED
      BY <1>1, <1>3, <2>1, <2>4, <3>1 DEF GfxInv, GfxTypeOK
  <2> QED
    BY <1>4, <1>6, <2>6, <2>7, <2>8, <2>9 DEF GfxInv
<1> QED
  BY <1>7, <1>8, <1>9

\* The GPU executes the oldest command buffer: it reads what the buffers still hold.
LEMMA GpuStep ==
  ASSUME GfxInv, GpuComplete
  PROVE  GfxInv'
<1> DEFINE done == Head(commits)
           n == Len(commits)
<1>1. /\ commits # << >>
      /\ commits' = [k \in 1 .. n - 1 |-> [commits[k + 1] EXCEPT !.picture = Resolve(@, done.reads)]]
      /\ scene' = ResolveAll(scene, done.reads)
      /\ screen' = IF done.shows THEN [shown |-> Resolve(done.picture, done.reads), ended |-> done.ended] ELSE screen
      /\ UNCHANGED <<books, leg, calls, visible, work, buffers, pictures, reference, pdus>>
  BY DEF GpuComplete
<1>2. commits \in Seq(Commit) /\ n \in Nat \ {0} /\ DOMAIN commits = 1 .. n /\ done = commits[1] /\ 1 \in 1 .. n
      /\ \A k \in 1 .. n : commits[k] \in Commit
  BY <1>1 DEF GfxInv, GfxTypeOK
<1>3. scene \in Scene /\ Filled(buffers)
  BY Contents DEF GfxInv, GfxTypeOK
<1> HIDE DEF done
<1>4. done \in Commit /\ done.reads \in SUBSET Buffers /\ done.picture \in Strip
  BY <1>2 DEF Commit
<1>5. ASSUME NEW image
      PROVE  Resolve(image, done.reads) = Resolved(image, done.reads, buffers)
  BY DEF Resolve, Resolved
<1>6. ResolveAll(scene, done.reads) = ResolvedAll(scene, done.reads, buffers)
  BY <1>5 DEF ResolveAll, ResolvedAll
<1>7. ASSUME NEW k \in 1 .. n - 1
      PROVE  /\ k + 1 \in 1 .. n /\ commits'[k] \in Commit
             /\ commits'[k].reads = commits[k + 1].reads /\ commits'[k].keep = commits[k + 1].keep
             /\ commits'[k].shows = commits[k + 1].shows /\ commits'[k].ended = commits[k + 1].ended
             /\ commits'[k].picture = Resolved(commits[k + 1].picture, done.reads, buffers)
  <2>1. k + 1 \in 1 .. n
    BY <1>2
  <2>2. commits[k + 1] \in Commit /\ commits[k + 1].picture \in Strip
    BY <1>2, <2>1 DEF Commit
  <2>3. Resolved(commits[k + 1].picture, done.reads, buffers) \in Strip
    BY <1>3, <1>4, <2>2, Resolving
  <2>4. commits'[k] = [commits[k + 1] EXCEPT !.picture = Resolved(commits[k + 1].picture, done.reads, buffers)]
    BY <1>1, <1>5, <2>2 DEF Commit
  <2> QED
    BY <2>1, <2>2, <2>3, <2>4 DEF Commit
<1>8. commits' \in Seq(Commit) /\ Len(commits') = n - 1 /\ DOMAIN commits' = 1 .. n - 1
  <2>1. DOMAIN commits' = 1 .. n - 1 /\ commits' = [k \in 1 .. n - 1 |-> commits'[k]] /\ n - 1 \in Nat
    BY <1>1, <1>2
  <2>2. commits' \in [1 .. n - 1 -> Commit]
    BY <1>7, <2>1
  <2> QED
    BY <2>1, <2>2
<1>9. \A k \in 1 .. n - 1 : ReadBy(commits, k + 1) \ done.reads \subseteq ReadBy(commits', k)
  <2> SUFFICES ASSUME NEW k \in 1 .. n - 1, NEW b \in ReadBy(commits, k + 1), b \notin done.reads
               PROVE  b \in ReadBy(commits', k)
    BY Zenon
  <2>1. PICK j \in 1 .. k + 1 : b \in commits[j].reads
    BY DEF ReadBy
  <2>2. j # 1
    BY <1>2, <2>1
  <2>3. j - 1 \in 1 .. k /\ j - 1 \in 1 .. n - 1 /\ (j - 1) + 1 = j
    BY <1>2, <2>2
  <2>4. commits'[j - 1].reads = commits[j].reads
    BY <1>7, <2>3
  <2>5. b \in Buffers
    BY DEF ReadBy
  <2> QED
    BY <2>1, <2>3, <2>4, <2>5 DEF ReadBy
<1>10. (ReadBy(commits, n) \cup work.reads) \ done.reads \subseteq ReadBy(commits', n - 1) \cup work'.reads
  <2>1. CASE n = 1
    <3>1. ReadBy(commits, n) \subseteq done.reads
      BY <1>2, <2>1 DEF ReadBy
    <3> QED
      BY <1>1, <3>1
  <2>2. CASE n # 1
    <3>1. n - 1 \in 1 .. n - 1 /\ (n - 1) + 1 = n
      BY <1>2, <2>2
    <3>2. ReadBy(commits, n) \ done.reads \subseteq ReadBy(commits', n - 1)
      BY <1>9, <3>1
    <3> QED
      BY <1>1, <3>2
  <2> QED
    BY <2>1, <2>2
<1>11. /\ scene' \in Scene
       /\ SceneReads(scene', (ReadBy(commits, n) \cup work.reads) \ done.reads)
       /\ Seen(scene', buffers) = Seen(scene, buffers)
  <2> DEFINE from == ReadBy(commits, n) \cup work.reads
  <2>1. SceneReads(scene, from)
    BY DEF GfxInv, ReadsInv
  <2> HIDE DEF from
  <2>2. scene' = ResolvedAll(scene, done.reads, buffers)
    BY <1>1, <1>6
  <2>3. scene' \in Scene /\ SceneReads(scene', from \ done.reads) /\ Seen(scene', buffers) = Seen(scene, buffers)
    BY <1>3, <1>4, <2>1, <2>2, SceneRead
  <2> QED
    BY <2>3 DEF from
<1>12. \A k \in 1 .. n : OnlyReads(commits[k].picture, ReadBy(commits, k)) /\ commits[k].reads \subseteq commits[k].keep
       /\ commits[k].picture \in Strip
  BY <1>2 DEF GfxInv, ReadsInv, Commit
<1>13. ReadsInv'
  <2>1. SceneReads(scene', ReadBy(commits', Len(commits')) \cup work'.reads)
    BY <1>8, <1>10, <1>11, MoreReads
  <2>2. ASSUME NEW k \in 1 .. n - 1
        PROVE  OnlyReads(commits'[k].picture, ReadBy(commits', k)) /\ commits'[k].reads \subseteq commits'[k].keep
    <3>1. k + 1 \in 1 .. n
      BY <1>7
    <3> DEFINE image == commits[k + 1].picture
               from == ReadBy(commits, k + 1)
    <3>2. image \in Strip /\ OnlyReads(image, from) /\ commits[k + 1].reads \subseteq commits[k + 1].keep
      BY <1>12, <3>1
    <3>3. from \ done.reads \subseteq ReadBy(commits', k) /\ commits'[k].picture = Resolved(image, done.reads, buffers)
          /\ commits'[k].reads \subseteq commits'[k].keep
      BY <1>7, <1>9, <3>2
    <3> HIDE DEF image, from
    <3>4. OnlyReads(commits'[k].picture, from \ done.reads)
      BY <1>3, <1>4, <3>2, <3>3, ReadsLeft
    <3> QED
      BY <3>3, <3>4 DEF OnlyReads
  <2>3. work'.reads \subseteq work'.keep
    BY <1>1 DEF GfxInv, ReadsInv
  <2> QED
    BY <1>8, <2>1, <2>2, <2>3 DEF ReadsInv
<1>14. ShownInv'
  <2>1. ASSUME NEW k \in 1 .. n - 1, commits'[k].shows
        PROVE  Resolved(commits'[k].picture, Buffers, buffers') = commits'[k].ended
    <3>1. k + 1 \in 1 .. n /\ commits[k + 1].shows
      BY <1>7, <2>1
    <3> DEFINE image == commits[k + 1].picture
    <3>2. image \in Strip /\ Resolved(image, Buffers, buffers) = commits[k + 1].ended
      BY <1>2, <1>12, <3>1 DEF GfxInv, ShownInv
    <3>3. commits'[k].picture = Resolved(image, done.reads, buffers) /\ commits'[k].ended = commits[k + 1].ended
      BY <1>7
    <3> HIDE DEF image
    <3>4. Resolved(Resolved(image, done.reads, buffers), Buffers, buffers) = Resolved(image, Buffers, buffers)
      BY <1>3, <1>4, <3>2, ReadTwice
    <3> QED
      BY <1>1, <3>2, <3>3, <3>4
  <2>2. screen'.shown = screen'.ended
    <3>1. CASE ~done.shows
      BY <1>1, <3>1 DEF GfxInv, ShownInv
    <3>2. CASE done.shows
      <4>1. OnlyReads(done.picture, done.reads)
        <5>1. ReadBy(commits, 1) \subseteq done.reads
          BY <1>2 DEF ReadBy
        <5> QED
          BY <1>2, <1>12, <5>1 DEF OnlyReads
      <4>2. Resolved(done.picture, done.reads, buffers) = Resolved(done.picture, Buffers, buffers)
        BY <1>3, <1>4, <4>1, ReadAll
      <4>3. Resolved(done.picture, Buffers, buffers) = done.ended
        BY <1>2, <3>2 DEF GfxInv, ShownInv
      <4> QED
        BY <1>1, <1>5, <3>2, <4>2, <4>3
    <3> QED
      BY <3>1, <3>2
  <2> QED
    BY <1>8, <2>1, <2>2 DEF ShownInv
<1>15. QueueInv' /\ ChainInv'
  BY <1>1, <1>11 DEF GfxInv, QueueInv, ChainInv
<1>16. GfxTypeOK'
  BY <1>1, <1>8, <1>11 DEF GfxInv, GfxTypeOK
<1>17. BooksInv'
  BY <1>1 DEF GfxInv, BooksInv
<1> QED
  BY <1>13, <1>14, <1>15, <1>16, <1>17 DEF GfxInv

\* RenderedIsExact, for every set of surfaces, slots and buffers, every output and
\* every bound: the picture the GPU presents is the one the server had ended, and
\* once the queue is drained the compositor's surfaces and cache slots are those
\* of the client's books.
THEOREM RenderedExactly == GfxSpec => []RenderedIsExact
<1>1. GfxInit => GfxInv
  BY GfxInitially
<1>2. GfxInv /\ [GfxNext]_gfxVars => GfxInv'
  <2> SUFFICES ASSUME GfxInv, [GfxNext]_gfxVars PROVE GfxInv'
    OBVIOUS
  <2>1. CASE \E pdu \in Pdus : HandlePdu(pdu)
    BY <2>1, PduStep
  <2>2. CASE \E id \in Surfaces, r \in Strips, b \in Buffers : HandleVideo(id, {r}, b)
    BY <2>2, VideoStep
  <2>3. CASE HandleEndFrame
    BY <2>3, EndFrameStep
  <2>4. CASE \E v \in BOOLEAN : SetVisible(v)
    BY <2>4, SetVisibleStep
  <2>5. CASE NextLeg
    BY <2>5, NextLegStep
  <2>6. CASE \E drawable \in BOOLEAN : RenderCall(drawable)
    BY <2>6, RenderStep
  <2>7. CASE GpuComplete
    BY <2>7, GpuStep
  <2>8. CASE UNCHANGED gfxVars
    <3>1. GfxTypeOK' /\ QueueInv' /\ ChainInv' /\ BooksInv'
      BY <2>8 DEF gfxVars, GfxInv, GfxTypeOK, QueueInv, ChainInv, BooksInv
    <3>2. ReadsInv' /\ ShownInv'
      BY <2>8, ReadsKept, ShownKept DEF gfxVars, GfxInv
    <3> QED
      BY <3>1, <3>2 DEF GfxInv
  <2> QED
    BY <2>1, <2>2, <2>3, <2>4, <2>5, <2>6, <2>7, <2>8 DEF GfxNext
<1>3. GfxInv => RenderedIsExact
  BY ShownExactly
<1> QED
  BY <1>1, <1>2, <1>3, PTL DEF GfxSpec
-----------------------------------------------------------------------------
(* The decoder's parameter sets.  The tracker remembers a pair only when it is
   complete, and then it is the newest the server sent; the session never
   belongs to any other. *)
VideoInv ==
  /\ session = tracker
  /\ tracker = NoPair \/ (Complete(tracker) /\ tracker = stream)
  /\ picture.with = picture.needed

\* An access unit that completes a pair completes the one the server has in
\* force: what the tracker lacks, the unit brings.
LEMMA LatestComplete ==
  ASSUME NEW tracked, NEW sent, NEW unit,
         tracked = NoPair \/ (Complete(tracked) /\ tracked = sent),
         Complete(Latest(tracked, unit))
  PROVE  Latest(tracked, unit) = Latest(sent, unit)
<1>1. CASE tracked = sent
  BY <1>1
<1>2. CASE tracked = NoPair
  <2>1. unit.sps # None /\ unit.pps # None
    BY <1>2 DEF Latest, Complete, NoPair
  <2> QED
    BY <2>1 DEF Latest
<1> QED
  BY <1>1, <1>2

\* VtDecoder::decode and reset (decode.rs): every step keeps the session at the
\* tracker's pair and the tracker's pair the server's.
LEMMA DecoderStep ==
  ASSUME VideoInv, [VideoNext]_videoVars
  PROVE  VideoInv'
<1>1. CASE UNCHANGED videoVars
  BY <1>1 DEF VideoInv, videoVars, Complete
<1>2. CASE ResetDecoder
  BY <1>2 DEF ResetDecoder, VideoInv
<1>3. ASSUME NEW unit, NEW builds, Decode(unit, builds)
      PROVE  VideoInv'
  <2> DEFINE next == Latest(tracker, unit)
  <2>1. Complete(next) => next = stream'
    BY <1>3, LatestComplete DEF Decode, VideoInv
  <2>2. CASE observe(unit) = "NotReady"
    <3>1. ~Complete(next)
      BY <2>2 DEF observe
    <3>2. tracker = NoPair
      <4>1. Complete(tracker) => Complete(next)
        BY DEF Complete, Latest
      <4> QED
        BY <3>1, <4>1 DEF VideoInv
    <3>3. UNCHANGED <<tracker, session, picture>>
      BY <1>3, <2>2 DEF Decode
    <3> QED
      BY <3>2, <3>3 DEF VideoInv
  <2>3. ASSUME observe(unit) # "NotReady"
        PROVE  /\ Complete(next)
               /\ \/ tracker' = NoPair /\ session' = NoPair
                  \/ tracker' = next /\ session' = next
    <3>1. Complete(next)
      BY <2>3 DEF observe
    <3>2. CASE next = tracker
      <4>1. observe(unit) = "Keep"
        BY <3>1, <3>2 DEF observe
      <4>2. IF session = NoPair THEN Rebuild(tracker, builds) ELSE UNCHANGED <<tracker, session>>
        BY <1>3, <4>1 DEF Decode
      <4> QED
        BY <3>1, <3>2, <4>2 DEF Rebuild, VideoInv
    <3>3. CASE next # tracker
      <4>1. observe(unit) = "Rebuild"
        BY <3>1, <3>3 DEF observe
      <4>2. Rebuild(next, builds)
        BY <1>3, <4>1 DEF Decode
      <4> QED
        BY <3>1, <4>2 DEF Rebuild
    <3> QED
      BY <3>2, <3>3
  <2>4. CASE observe(unit) # "NotReady"
    <3>1. session' = tracker' /\ (tracker' = NoPair \/ (Complete(tracker') /\ tracker' = stream'))
      BY <2>1, <2>3, <2>4
    <3>2. picture' = picture \/ (session' # NoPair /\ picture' = [with |-> session', needed |-> stream'])
      BY <1>3 DEF Decode
    <3>3. picture'.with = picture'.needed
      BY <3>1, <3>2 DEF VideoInv
    <3> QED
      BY <3>1, <3>3 DEF VideoInv, Complete
  <2> QED
    BY <2>2, <2>4
<1> QED
  BY <1>1, <1>2, <1>3 DEF VideoNext

\* No picture is decoded with parameter sets that are not the ones the server has
\* in force, however often sessions fail to build and streams begin anew, for any
\* parameter sets (decode.rs, params.rs).
THEOREM DecodedAsSent == VideoSpec => [](DecodedWithCurrentSets /\ SessionMatchesActive)
<1>1. VideoInit => VideoInv
  BY DEF VideoInit, VideoInv
<1>2. VideoInv /\ [VideoNext]_videoVars => VideoInv'
  BY DecoderStep
<1>3. VideoInv => DecodedWithCurrentSets /\ SessionMatchesActive
  BY DEF VideoInv, DecodedWithCurrentSets, SessionMatchesActive
<1> QED
  BY <1>1, <1>2, <1>3, PTL DEF VideoSpec
=============================================================================
