------------------------------- MODULE FrameAcks -------------------------------
(***************************************************************************)
(* Frame acknowledgement: the session actor hands each EndFrame to the       *)
(* render thread, the GPU presents it, its completion handler queues the     *)
(* acknowledgement (drift-gfx's AckOutbox) and wakes the actor, which sends  *)
(* it.  Three threads share the outbox and one Notify permit; the outbox     *)
(* belongs to a leg, the render thread and the permit outlive legs.          *)
(*                                                                           *)
(* The server throttles: it sends while fewer than Window frames are         *)
(* unacknowledged, or freely once a SUSPEND acknowledgement suspended        *)
(* tracking.                                                                 *)
(***************************************************************************)
EXTENDS Naturals, Sequences, FiniteSets

CONSTANTS
    Window,     \* frames the server keeps in flight
    MaxFrames,  \* bound: frames per leg
    MaxLegs,    \* bound: legs
    MaxFlips    \* bound: visibility changes

ASSUME FrameAssumption ==
    /\ Window \in Nat \ {0}
    /\ MaxFrames \in Nat
    /\ MaxLegs \in Nat \ {0}
    /\ MaxFlips \in Nat

VARIABLES
    leg,            \* the current leg
    decoded,        \* EndFrames processed on this leg (total_decoded, and the last frame id)
    renderQueue,    \* messages to the render thread
    rendering,      \* whether the render thread still runs
    gpu,            \* committed command buffers whose completion handler has not run
    dropped,        \* messages dropped with their callback still to run
    outbox, in_flight, hidden, suspend_sent,    \* AckState of the current leg
    notifying,      \* callbacks that queued an ack and have not called the notifier yet
    permit,         \* the Notify permit
    wire,           \* acks on their way to the server
    unacked, suspended,                         \* the server's bookkeeping
    visible,        \* the actor's view: whether the app shows the session
    hiddenFrames, hiddenAcks,                   \* history: presented and queued since the hide
    flips

acks == << outbox, in_flight, hidden, suspend_sent >>
server == << unacked, suspended >>
history == << hiddenFrames, hiddenAcks >>
app == << visible, flips >>
vars == << leg, decoded, renderQueue, rendering, gpu, dropped, outbox, in_flight,
           hidden, suspend_sent, notifying, permit, wire, unacked, suspended, visible,
           hiddenFrames, hiddenAcks, flips >>

Frame(f) == [type |-> "EndFrame", leg |-> leg, id |-> f]

\* queueDepth 0 is QUEUE_DEPTH_UNAVAILABLE on the wire; a suspend has no depth.
Ack(f, depth) == [id |-> f, suspend |-> FALSE, depth |-> depth, total |-> decoded]
Suspend(f) == [id |-> f, suspend |-> TRUE, depth |-> 0, total |-> decoded]

-----------------------------------------------------------------------------
(* The outbox.                                                               *)

\* Mutant: the suspend is queued without waking the actor.
BugPresented(frame) ==
    /\ in_flight' = IF in_flight = 0 THEN 0 ELSE in_flight - 1
    /\ notifying' = IF hidden THEN notifying ELSE notifying + 1
    /\ outbox' = IF hidden /\ suspend_sent THEN outbox
                 ELSE Append(outbox, IF hidden THEN Suspend(frame.id)
                                     ELSE Ack(frame.id, in_flight'))
    /\ suspend_sent' = hidden
    /\ UNCHANGED << hidden, history >>

\* AckOutbox::presented: the callback of one frame of the current leg.  The ack is queued
\* under the lock, the notifier called after it.
presented(frame) ==
    /\ in_flight' = IF in_flight = 0 THEN 0 ELSE in_flight - 1
    /\ hiddenFrames' = IF hidden THEN hiddenFrames + 1 ELSE 0
    /\ \/ /\ ~ hidden
          /\ outbox' = Append(outbox, Ack(frame.id, in_flight'))
          /\ notifying' = notifying + 1
          /\ UNCHANGED << suspend_sent, hiddenAcks >>
       \/ /\ hidden /\ ~ suspend_sent
          /\ suspend_sent' = TRUE
          /\ outbox' = Append(outbox, Suspend(frame.id))
          /\ hiddenAcks' = hiddenAcks + 1
          /\ notifying' = notifying + 1
       \/ /\ hidden /\ suspend_sent
          /\ UNCHANGED << outbox, suspend_sent, notifying, hiddenAcks >>
    /\ UNCHANGED hidden

\* The callback of a frame of an earlier leg changes that leg's outbox, which nobody drains
\* any more; it may still wake the actor.
presentedStale ==
    /\ notifying' \in {notifying, notifying + 1}
    /\ UNCHANGED << acks, history >>

Callback(frame) ==
    \/ frame.leg = leg /\ presented(frame)
    \/ frame.leg # leg /\ presentedStale

-----------------------------------------------------------------------------
(* The actor.                                                                *)

\* Mutant: a message for a stopped render thread is dropped with its callback.
BugEndFrame(frame) ==
    /\ renderQueue' = IF rendering THEN Append(renderQueue, frame) ELSE renderQueue
    /\ UNCHANGED dropped

\* RenderSink::end_frame: a stopped thread drops the message, and CallOnDrop runs it.
end_frame(frame) ==
    \/ rendering /\ renderQueue' = Append(renderQueue, frame) /\ UNCHANGED dropped
    \/ ~ rendering /\ dropped' = Append(dropped, frame) /\ UNCHANGED renderQueue

\* A payload with an EndFrame comes off the wire: frame_ended, end_frame, and the acks that
\* are due already go out with the response.
ReadFrame ==
    /\ decoded < MaxFrames
    /\ suspended \/ Cardinality(unacked) < Window
    /\ decoded' = decoded + 1
    /\ unacked' = IF suspended THEN unacked ELSE unacked \cup {decoded + 1}
    /\ in_flight' = in_flight + 1
    /\ end_frame(Frame(decoded + 1))
    /\ wire' = wire \o outbox
    /\ outbox' = << >>
    /\ UNCHANGED << leg, rendering, gpu, hidden, suspend_sent, notifying, permit, suspended,
                    history, app >>

\* Mutant: waking up is taken as having flushed, whatever has been queued since.
BugFlush == wire' = wire /\ outbox' = << >>

\* flush_acks.
flush_acks == wire' = wire \o outbox /\ outbox' = << >>

\* The loop's acks_ready.notified() branch takes the permit, then flushes.
Wake ==
    /\ permit
    /\ permit' = FALSE
    /\ flush_acks
    /\ UNCHANGED << leg, decoded, renderQueue, rendering, gpu, dropped, in_flight, hidden,
                    suspend_sent, notifying, server, history, app >>

\* Mutant: showing the session keeps the mark that the suspend was sent.
BugSetHidden(h) == hidden' = h /\ UNCHANGED suspend_sent

set_hidden(h) ==
    /\ hidden' = h
    /\ suspend_sent' = IF hidden # h THEN FALSE ELSE suspend_sent

\* on_command ignores a SetVisible that changes nothing; the channel is open on a live leg.
SetVisible(v) ==
    /\ visible # v
    /\ flips < MaxFlips
    /\ visible' = v
    /\ flips' = flips + 1
    /\ set_hidden(~ v)
    /\ hiddenFrames' = 0
    /\ hiddenAcks' = 0
    /\ UNCHANGED << leg, decoded, renderQueue, rendering, gpu, dropped, outbox, in_flight,
                    notifying, permit, wire, server >>

\* A new leg has a new outbox.  It starts out visible even when the session is hidden: the
\* graphics channel is not open yet when the actor applies the visibility.
NewLeg ==
    /\ leg < MaxLegs
    /\ leg' = leg + 1
    /\ decoded' = 0
    /\ outbox' = << >>
    /\ in_flight' = 0
    /\ hidden' = FALSE
    /\ suspend_sent' = FALSE
    /\ wire' = << >>
    /\ unacked' = {}
    /\ suspended' = FALSE
    /\ hiddenFrames' = 0
    /\ hiddenAcks' = 0
    /\ UNCHANGED << renderQueue, rendering, gpu, dropped, notifying, permit, app >>

-----------------------------------------------------------------------------
(* The render thread, the GPU, and the app that stops them.                  *)

\* The thread takes the next message: a frame is committed to the GPU, a shutdown drops
\* whatever was queued behind it.
RenderMessage ==
    /\ rendering /\ renderQueue # << >>
    /\ \/ /\ Head(renderQueue).type = "EndFrame"
          /\ gpu' = Append(gpu, Head(renderQueue))
          /\ renderQueue' = Tail(renderQueue)
          /\ UNCHANGED << rendering, dropped >>
       \/ /\ Head(renderQueue).type = "Shutdown"
          /\ rendering' = FALSE
          /\ dropped' = dropped \o Tail(renderQueue)
          /\ renderQueue' = << >>
          /\ UNCHANGED gpu
    /\ UNCHANGED << leg, decoded, acks, notifying, permit, wire, server, history, app >>

\* The app drops the RenderThread: a Shutdown behind everything queued.
StopRendering ==
    /\ rendering
    /\ \A i \in DOMAIN renderQueue : renderQueue[i].type # "Shutdown"
    /\ renderQueue' = Append(renderQueue, [type |-> "Shutdown"])
    /\ UNCHANGED << leg, decoded, rendering, gpu, dropped, acks, notifying, permit, wire,
                    server, history, app >>

\* The completion handler of the oldest command buffer runs the frame's callback.
Complete ==
    /\ gpu # << >>
    /\ Callback(Head(gpu))
    /\ gpu' = Tail(gpu)
    /\ UNCHANGED << leg, decoded, renderQueue, rendering, dropped, permit, wire, server, app >>

\* CallOnDrop runs the callback of a dropped message.
RunDropped ==
    /\ dropped # << >>
    /\ Callback(Head(dropped))
    /\ dropped' = Tail(dropped)
    /\ UNCHANGED << leg, decoded, renderQueue, rendering, gpu, permit, wire, server, app >>

\* The notifier: Notify::notify_one stores at most one permit.
NotifyOne ==
    /\ notifying > 0
    /\ notifying' = notifying - 1
    /\ permit' = TRUE
    /\ UNCHANGED << leg, decoded, renderQueue, rendering, gpu, dropped, acks, wire, server,
                    history, app >>

-----------------------------------------------------------------------------
(* The server.                                                               *)

\* An ack arrives: SUSPEND stops the tracking, any other resumes it.
ServerTakesAck ==
    /\ wire # << >>
    /\ wire' = Tail(wire)
    /\ \/ /\ Head(wire).suspend
          /\ suspended' = TRUE
          /\ unacked' = {}
       \/ /\ ~ Head(wire).suspend
          /\ suspended' = FALSE
          /\ unacked' = unacked \ {Head(wire).id}
    /\ UNCHANGED << leg, decoded, renderQueue, rendering, gpu, dropped, acks, notifying,
                    permit, history, app >>

-----------------------------------------------------------------------------
Init ==
    /\ leg = 1
    /\ decoded = 0
    /\ renderQueue = << >>
    /\ rendering = TRUE
    /\ gpu = << >>
    /\ dropped = << >>
    /\ outbox = << >>
    /\ in_flight = 0
    /\ hidden = FALSE
    /\ suspend_sent = FALSE
    /\ notifying = 0
    /\ permit = FALSE
    /\ wire = << >>
    /\ unacked = {}
    /\ suspended = FALSE
    /\ visible = TRUE
    /\ hiddenFrames = 0
    /\ hiddenAcks = 0
    /\ flips = 0

Next ==
    \/ ReadFrame
    \/ Wake
    \/ \E v \in BOOLEAN : SetVisible(v)
    \/ NewLeg
    \/ RenderMessage
    \/ StopRendering
    \/ Complete
    \/ RunDropped
    \/ NotifyOne
    \/ ServerTakesAck

Spec == Init /\ [][Next]_vars

\* Every thread keeps running what it has to run, and the wire delivers; neither frames nor
\* visibility changes nor legs are promised.
Fairness ==
    /\ WF_vars(Wake) /\ WF_vars(RenderMessage) /\ WF_vars(Complete)
    /\ WF_vars(RunDropped) /\ WF_vars(NotifyOne) /\ WF_vars(ServerTakesAck)

FairSpec == Spec /\ Fairness

-----------------------------------------------------------------------------
(* Properties.                                                               *)

Acks == [id : Nat, suspend : BOOLEAN, depth : Nat, total : Nat]
Frames == [type : {"EndFrame"}, leg : Nat, id : Nat]

\* The type invariant.
FrameTypeOK ==
    /\ leg \in Nat
    /\ decoded \in Nat
    /\ renderQueue \in Seq(Frames \cup [type : {"Shutdown"}])
    /\ rendering \in BOOLEAN
    /\ gpu \in Seq(Frames)
    /\ dropped \in Seq(Frames)
    /\ outbox \in Seq(Acks)
    /\ in_flight \in Nat
    /\ hidden \in BOOLEAN
    /\ suspend_sent \in BOOLEAN
    /\ notifying \in Nat
    /\ permit \in BOOLEAN
    /\ wire \in Seq(Acks)
    /\ unacked \in SUBSET Nat
    /\ suspended \in BOOLEAN
    /\ visible \in BOOLEAN
    /\ hiddenFrames \in Nat
    /\ hiddenAcks \in Nat
    /\ flips \in Nat

\* No lost wake-up: whenever the outbox of the current leg holds an ack, the actor has a
\* permit waiting or a callback is about to give it one, although the ack is queued under the
\* lock and the notifier called outside it, and one permit stands for any number of acks.
NoLostWakeup == outbox # << >> => permit \/ notifying > 0

\* Frames of the current leg still on their way through a queue.
OnTheWay(queue) ==
    Cardinality({i \in DOMAIN queue : queue[i].type = "EndFrame" /\ queue[i].leg = leg})

\* "queueDepth is honest" (ack.rs:11): in_flight is the number of frames handed to the
\* renderer and not presented, whichever thread they are in and however the renderer stops.
InFlightIsHonest == in_flight = OnTheWay(renderQueue) + OnTheWay(gpu) + OnTheWay(dropped)

\* "Nothing is acked before it is presented" (ack.rs:9) and a callback runs exactly once
\* (compositor.rs:119): no frame is acknowledged twice, or while it is still on its way.
AckedOnce ==
    LET ids == [i \in 1 .. Len(wire \o outbox) |-> (wire \o outbox)[i].id]
        waiting(queue) == {queue[i].id : i \in {j \in DOMAIN queue :
                              queue[j].type = "EndFrame" /\ queue[j].leg = leg}}
    IN  /\ \A i, j \in DOMAIN ids : ids[i] = ids[j] => i = j
        /\ \A i \in DOMAIN ids :
                ids[i] \notin waiting(renderQueue) \cup waiting(gpu) \cup waiting(dropped)

\* What the acknowledgements tell the server is true.
AcksAreHonest == AckedOnce /\ InFlightIsHonest

\* While the session is hidden exactly the next presented frame is acknowledged, with
\* SUSPEND (ack.rs:14), however often it was hidden before.
SuspendsOnce ==
    hidden => hiddenAcks = IF hiddenFrames = 0 THEN 0 ELSE 1

\* The server is never throttled for good: while the session is visible, a full window is
\* always emptied again, across hides, shows and new legs and when the renderer stops.
NeverStalls == []<>(hidden \/ suspended \/ Cardinality(unacked) < Window)
=============================================================================
