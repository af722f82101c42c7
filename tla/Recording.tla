------------------------------ MODULE Recording ------------------------------
(***************************************************************************)
(* Recording a session (cargo feature `recording`).  Three threads and the *)
(* GPU: the main thread starts and stops a recording, the render thread    *)
(* copies each composed frame into a buffer of a bounded pool, the command *)
(* buffer's completion handler sends it over a bounded channel, and the    *)
(* recording thread encodes what it receives and appends it to the file.   *)
(* A frame is [id, size, pool, film]: the pool its buffer is from and the  *)
(* recording it belongs to.  Its id stands for the instant it is encoded.  *)
(***************************************************************************)
EXTENDS Naturals, Sequences

CONSTANTS
  MAX_BUFFERS,   \* CaptureConfig::max_buffers
  QUEUE_DEPTH,   \* CaptureConfig::queue_depth
  OutputSizes,   \* sizes of the remote desktop
  MaxFrames,     \* bound: composed frames
  MaxRecordings  \* bound: recordings

ASSUME RecordingAssumption ==
  /\ MAX_BUFFERS \in Nat \ {0} /\ QUEUE_DEPTH \in Nat \ {0}
  /\ MaxFrames \in Nat /\ MaxRecordings \in Nat /\ OutputSizes # {}

VARIABLES
  main,        \* what the main thread does: "Idle", "Starting", "Stopping", "Joining"
  closing,     \* whether the session has ended: release_session has run
  handle,      \* whether the window holds a Recording
  recorder,    \* the compositor's recorder: whether one is on, its pool and the pool's size
  desktop,     \* the output size, and the number of frames composed
  copies,      \* frames whose copy the GPU has not completed
  channel,     \* captured frames waiting for the recording thread
  thread,      \* "None", "Running" or "Done"
  encoder,     \* the VtEncoder: its size, timeline and frames still inside
  writer,      \* the Recorder of mp4.rs: state, samples written, Stopped events
  recordings,  \* recordings started
  capture      \* CaptureStats, and the frames offered for capture

recordingVars ==
  <<main, closing, handle, recorder, desktop, copies, channel, thread, encoder, writer, recordings, capture>>

NoEncoder == [on |-> FALSE, size |-> CHOOSE s \in OutputSizes : TRUE, origin |-> 0, inside |-> << >>]
NoWriter == [state |-> "Idle", samples |-> << >>, stopped |-> 0]

RecordingInit ==
  /\ main = "Idle"
  /\ closing = FALSE
  /\ handle = FALSE
  /\ recorder = [on |-> FALSE, pool |-> 0, size |-> 0]
  /\ desktop \in [size : OutputSizes, frames : {0}]
  /\ copies = << >>
  /\ channel = << >>
  /\ thread = "None"
  /\ encoder = NoEncoder
  /\ writer = NoWriter
  /\ recordings = 0
  /\ capture = [captured |-> 0, dropped |-> 0, offered |-> 0]

-----------------------------------------------------------------------------
(* The main thread: Debug > Record Session, and the end of the session.     *)

\* toggle_recording with no recording: render.with(start_recording) blocks.
BeginRecording ==
  /\ main = "Idle" /\ ~handle /\ ~closing
  /\ recordings < MaxRecordings
  /\ main' = "Starting"
  /\ UNCHANGED <<closing, handle, recorder, desktop, copies, channel, thread, encoder, writer, recordings, capture>>

\* The render thread replaces the recorder; the main thread then spawns the
\* recording thread, whose MP4 writer may fail to start.
StartRecording(opens) ==
  /\ main = "Starting"
  /\ main' = "Idle"
  /\ recorder' = [on |-> TRUE, pool |-> recorder.pool, size |-> 0]
  /\ handle' = TRUE
  /\ channel' = << >>
  /\ recordings' = recordings + 1
  /\ encoder' = NoEncoder
  /\ IF opens
     THEN thread' = "Running" /\ writer' = [NoWriter EXCEPT !.state = "Recording"]
     ELSE thread' = "Done" /\ writer' = NoWriter
  /\ UNCHANGED <<closing, desktop, copies, capture>>

\* toggle_recording with a recording: stop_recording on the render thread ends
\* the stream, then Recording::stop joins the recording thread.
ToggleOff ==
  /\ main = "Idle" /\ handle /\ ~closing
  /\ main' = "Stopping"
  /\ handle' = FALSE
  /\ UNCHANGED <<closing, recorder, desktop, copies, channel, thread, encoder, writer, recordings, capture>>

\* Mutant: the recorder stays on, so the frame stream never ends.
BugStopRecording ==
  /\ main = "Stopping"
  /\ main' = "Joining"
  /\ UNCHANGED <<closing, handle, recorder, desktop, copies, channel, thread, encoder, writer, recordings, capture>>

StopRecording ==
  /\ main = "Stopping"
  /\ main' = "Joining"
  /\ recorder' = [recorder EXCEPT !.on = FALSE]
  /\ UNCHANGED <<closing, handle, desktop, copies, channel, thread, encoder, writer, recordings, capture>>

\* release_session stops the recording first and shuts the render thread down
\* afterwards: nothing has dropped the compositor's end of the channel.
ReleaseSession ==
  /\ main = "Idle" /\ ~closing
  /\ closing' = TRUE
  /\ main' = IF handle THEN "Joining" ELSE "Idle"
  /\ handle' = FALSE
  /\ recorder' = [recorder EXCEPT !.on = @ /\ handle]
  /\ UNCHANGED <<desktop, copies, channel, thread, encoder, writer, recordings, capture>>

Join ==
  /\ main = "Joining" /\ thread = "Done"
  /\ main' = "Idle"
  /\ recorder' = [recorder EXCEPT !.on = @ /\ ~closing]
  /\ UNCHANGED <<closing, handle, desktop, copies, channel, thread, encoder, writer, recordings, capture>>

-----------------------------------------------------------------------------
(* The render thread and the GPU.                                           *)

\* The buffers of a pool that somebody still holds.
Alive(pool) ==
  Len(SelectSeq(copies \o channel \o encoder.inside, LAMBDA f : f.pool = pool))

\* try_slot: another output size means another pool.
PoolFor(size) ==
  IF recorder.size = size THEN recorder ELSE [on |-> TRUE, pool |-> recorder.pool + 1, size |-> size]

Composed == [id |-> desktop.frames + 1, size |-> desktop.size, pool |-> PoolFor(desktop.size).pool,
             film |-> recordings]

\* The server resizes the desktop: the next frame has another size.
Resize(size) ==
  /\ desktop.size # size /\ ~closing
  /\ desktop' = [desktop EXCEPT !.size = size]
  /\ UNCHANGED <<main, closing, handle, recorder, copies, channel, thread, encoder, writer, recordings, capture>>

\* Mutant: a frame without a buffer is not counted.
BugOffer(frame) ==
  IF Alive(frame.pool) < MAX_BUFFERS
  THEN copies' = Append(copies, frame) /\ capture' = [capture EXCEPT !.offered = @ + 1]
  ELSE copies' = copies /\ capture' = [capture EXCEPT !.offered = @ + 1]

\* Recorder::slot: a copy into a pool buffer, or a frame dropped when the pool
\* is exhausted.
Offer(frame) ==
  IF Alive(frame.pool) < MAX_BUFFERS
  THEN copies' = Append(copies, frame) /\ capture' = [capture EXCEPT !.offered = @ + 1]
  ELSE copies' = copies /\ capture' = [capture EXCEPT !.offered = @ + 1, !.dropped = @ + 1]

\* end_frame.
ComposeFrame ==
  /\ desktop.frames < MaxFrames /\ ~closing
  /\ desktop' = [desktop EXCEPT !.frames = @ + 1]
  /\ IF recorder.on THEN Offer(Composed) /\ recorder' = PoolFor(desktop.size)
     ELSE UNCHANGED <<recorder, copies, capture>>
  /\ UNCHANGED <<main, closing, handle, channel, thread, encoder, writer, recordings>>

\* The completion handler delivers the copy with try_send.
Deliver ==
  /\ copies # << >>
  /\ copies' = Tail(copies)
  /\ IF thread = "Running" /\ Head(copies).film = recordings /\ Len(channel) < QUEUE_DEPTH
     THEN channel' = Append(channel, Head(copies)) /\ capture' = [capture EXCEPT !.captured = @ + 1]
     ELSE channel' = channel /\ capture' = [capture EXCEPT !.dropped = @ + 1]
  /\ UNCHANGED <<main, closing, handle, recorder, desktop, thread, encoder, writer, recordings>>

-----------------------------------------------------------------------------
(* The recording thread.                                                    *)

\* Timeline::pts: relative to the first frame this encoder saw.
Pts(e, frame) == frame.id - e.origin
Stamped(e, frame) ==
  [id |-> frame.id, size |-> frame.size, pool |-> frame.pool, film |-> frame.film, pts |-> Pts(e, frame)]

\* drain: the first `done` frames have been compressed and are taken out.
Inside(frames, done) == SubSeq(frames, done + 1, Len(frames))

\* Appends samples to the file; the disk is full, or the writer fails, after
\* `room` of them: the recorder then finalises the file by itself.
AppendSamples(frames, room) ==
  IF room >= Len(frames) THEN [writer EXCEPT !.samples = @ \o frames]
  ELSE [state |-> "Idle", samples |-> writer.samples \o SubSeq(frames, 1, room), stopped |-> writer.stopped + 1]

\* One frame from the channel: another size means a new VtEncoder, and the
\* frames inside the old one are lost with it.
EncodeFrame(done, room) ==
  /\ thread = "Running" /\ channel # << >>
  /\ channel' = Tail(channel)
  /\ LET frame == Head(channel)
         e == IF encoder.on /\ encoder.size = frame.size THEN encoder
              ELSE [on |-> TRUE, size |-> frame.size, origin |-> frame.id, inside |-> << >>]
         frames == Append(e.inside, Stamped(e, frame))
     IN  /\ done <= Len(frames) /\ room <= done
         /\ encoder' = [e EXCEPT !.inside = Inside(frames, done)]
         /\ writer' = AppendSamples(SubSeq(frames, 1, done), room)
         /\ thread' = IF room < done THEN "Done" ELSE "Running"
  /\ UNCHANGED <<main, closing, handle, recorder, desktop, copies, recordings, capture>>

\* Recorder::stop, unless the recording has already stopped by itself.
Stopped(w) == IF w.state = "Idle" THEN w ELSE [w EXCEPT !.state = "Idle", !.stopped = @ + 1]

\* Every end of the channel that could send is gone, or an encoder call failed:
\* the thread flushes the encoder (which may fail), appends and stops.
FinishRecording(broken, flushed, room) ==
  /\ thread = "Running"
  /\ IF broken THEN channel # << >>
     ELSE ~recorder.on /\ channel = << >> /\ \A k \in DOMAIN copies : copies[k].film # recordings
  /\ thread' = "Done"
  /\ channel' = << >>
  /\ writer' = Stopped(AppendSamples(IF flushed THEN encoder.inside ELSE << >>, room))
  /\ encoder' = [encoder EXCEPT !.inside = << >>]
  /\ UNCHANGED <<main, closing, handle, recorder, desktop, copies, recordings, capture>>

-----------------------------------------------------------------------------
RecordingThread ==
  \/ \E done, room \in 0 .. MAX_BUFFERS : EncodeFrame(done, room)
  \/ \E broken, flushed \in BOOLEAN, room \in 0 .. MAX_BUFFERS : FinishRecording(broken, flushed, room)

RecordingNext ==
  \/ BeginRecording
  \/ \E opens \in BOOLEAN : StartRecording(opens)
  \/ ToggleOff
  \/ StopRecording
  \/ ReleaseSession
  \/ Join
  \/ \E size \in OutputSizes : Resize(size)
  \/ ComposeFrame
  \/ Deliver
  \/ RecordingThread

\* Every thread goes on, and the GPU completes what was committed.
RecordingFairness ==
  /\ WF_recordingVars(\E opens \in BOOLEAN : StartRecording(opens))
  /\ WF_recordingVars(StopRecording)
  /\ WF_recordingVars(Join)
  /\ WF_recordingVars(Deliver)
  /\ WF_recordingVars(RecordingThread)

RecordingSpec == RecordingInit /\ [][RecordingNext]_recordingVars /\ RecordingFairness

-----------------------------------------------------------------------------
\* Every composed frame offered to the recorder is captured, dropped and
\* counted, or still on its way (CaptureStats, capture.rs), whatever thread
\* stops first and wherever the pool or the channel is full.
CaptureAccounted == capture.offered = capture.captured + capture.dropped + Len(copies)

\* The file holds frames in the order they were composed, none twice, although
\* the GPU, the channel and the encoder each hand them on later (encode.rs: no
\* frame reordering).
FilmIsInOrder ==
  \A i, j \in DOMAIN writer.samples : i < j => writer.samples[i].id < writer.samples[j].id

\* A finished recording sent Stopped exactly once, and one that is being
\* written has not (mp4.rs: "the event was already sent").
StoppedOnce ==
  writer.stopped = IF thread = "Done" /\ writer # NoWriter THEN 1 ELSE 0

\* The film is what the counters and the events say it is: every frame offered is
\* captured or counted as dropped, what is written is in order and written once,
\* and the end is reported once (capture.rs, encode.rs, mp4.rs).
FilmIsExact == CaptureAccounted /\ FilmIsInOrder /\ StoppedOnce

\* Switching a recording off with the menu finalises the file and gives the
\* main thread back (recording.rs, toggle_recording).
ToggleReturns == main = "Stopping" ~> main = "Idle"

\* A presentation time is "relative to the first frame of the recording"
\* (encode.rs): times in a file strictly increase.  A resize starts a new
\* VtEncoder, whose timeline starts again at zero.
TimesIncrease ==
  \A i \in 1 .. Len(writer.samples) - 1 : writer.samples[i].pts < writer.samples[i + 1].pts

\* "dropping or [`Recording::stop`]ping it finalises the file" (recording.rs):
\* the main thread that waits for it goes on.
StopFinalises == main = "Joining" ~> main = "Idle"
=============================================================================
