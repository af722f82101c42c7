-------------------------- MODULE ReconnectTriggers --------------------------
(* Path changes and wakes on their way to the session actors.

   drift-core's TriggerMerger, drift-macos' TriggerFeed with its two observers
   (the path monitor's serial queue and the main thread), the fan-out of the
   app's platform services, and of each session actor what the commands
   NetworkReachable, ReconnectNow and Cancel do in the phase that reads them.
   The merger runs under a lock; the sink runs after it is released, so the
   actions of the two threads may reach the sessions in either order. *)
EXTENDS Naturals, Sequences
CONSTANTS Windows,       \* session windows
          DEFAULT_DEBOUNCE, \* units of time a second RetryNow is suppressed
          MaxTime,       \* bound on the clock
          MaxQueue,      \* no trigger or button press once an actor has this many unread commands
          MaxGeneration  \* bound on the sessions one window has had
ASSUME TriggersAssumption == /\ DEFAULT_DEBOUNCE \in Nat
                             /\ {MaxTime, MaxQueue, MaxGeneration} \subseteq Nat \ {0}
VARIABLES time,     \* the clock of the feed
          merger,   \* TriggerMerger: online, last_retry
          threads,  \* of each observer thread: the action to fan out, the commands left to send
          actors,   \* of each window: its actor, or NoActor
          shown,    \* whether the window's view shows Reconnecting
          cancelled,\* the user cancelled the backoff and has asked for nothing since
          lost      \* a certificate prompt swallowed a NetworkReachable
triggerVars == <<time, merger, threads, actors, shown, cancelled, lost>>

Never == MaxTime + 1
Trigger == {"NetworkOffline", "NetworkOnline", "Wake"}
TriggerAction == {"PauseReconnect", "RetryNow"}
NoAction == "none"
PathStatus == {"Invalid", "Satisfied", "Unsatisfied", "Satisfiable"}
Thread == {"path", "main"}
Phase == {"starting", "connecting", "prompting", "live", "backoff", "idle"}
Command == {"NetworkReachable(true)", "NetworkReachable(false)", "ReconnectNow", "Cancel"}
NoActor == [live |-> FALSE, generation |-> 0, phase |-> "idle", reachable |-> TRUE,
            activated |-> FALSE, deadline |-> FALSE, queue |-> <<>>]
IdleThread == [action |-> NoAction, sends |-> [w \in Windows |-> <<>>]]
Busy(t) == threads[t] # IdleThread
(* The channel to an actor is unbounded: the bound holds back the triggers and
   the user, never a send under way. *)
HasRoom == \A w \in Windows : Len(actors[w].queue) < MaxQueue

TriggersInit ==
    /\ time = 0
    /\ merger = [online |-> TRUE, last_retry |-> Never]
    /\ threads = [t \in Thread |-> IdleThread]
    /\ actors = [w \in Windows |-> NoActor]
    /\ shown = [w \in Windows |-> FALSE]
    /\ cancelled = [w \in Windows |-> FALSE]
    /\ lost = [w \in Windows |-> FALSE]

--------------------------------------------------------------------------------
(* TriggerMerger: the new merger and the action of one trigger. *)
retry(m) ==
    IF m.last_retry # Never /\ time - m.last_retry < DEFAULT_DEBOUNCE
    THEN [merger |-> m, action |-> NoAction]
    ELSE [merger |-> [m EXCEPT !.last_retry = time], action |-> "RetryNow"]
\* Mutant: the debounce survives an outage.
BugOnTrigger(m, trigger) ==
    CASE trigger = "NetworkOffline" ->
           [merger |-> [m EXCEPT !.online = FALSE], action |-> IF m.online THEN "PauseReconnect" ELSE NoAction]
      [] trigger = "NetworkOnline" ->
           IF m.online THEN [merger |-> m, action |-> NoAction] ELSE retry([m EXCEPT !.online = TRUE])
      [] trigger = "Wake" ->
           IF m.online THEN retry(m) ELSE [merger |-> m, action |-> NoAction]
on_trigger(m, trigger) ==
    CASE trigger = "NetworkOffline" ->
           IF m.online THEN [merger |-> [online |-> FALSE, last_retry |-> Never], action |-> "PauseReconnect"]
                       ELSE [merger |-> m, action |-> NoAction]
      [] trigger = "NetworkOnline" ->
           IF m.online THEN [merger |-> m, action |-> NoAction] ELSE retry([m EXCEPT !.online = TRUE])
      [] trigger = "Wake" ->
           IF m.online THEN retry(m) ELSE [merger |-> m, action |-> NoAction]

(* TriggerFeed::trigger, up to the release of the lock. *)
FeedTrigger(t, trigger) ==
    LET result == on_trigger(merger, trigger)
    IN  /\ ~Busy(t) /\ HasRoom
        /\ merger' = result.merger
        /\ threads' = [threads EXCEPT ![t].action = result.action]
        /\ UNCHANGED <<time, actors, shown, cancelled, lost>>
trigger_of(status) == IF status = "Unsatisfied" THEN "NetworkOffline" ELSE "NetworkOnline"
(* The path monitor reports the initial status and every change on its serial
   queue; Invalid makes no trigger. *)
PathUpdate(status) == status # "Invalid" /\ FeedTrigger("path", trigger_of(status))
(* NSWorkspaceDidWakeNotification, posted on the main thread. *)
DidWake == FeedTrigger("main", "Wake")

--------------------------------------------------------------------------------
(* apply_trigger: read the live sessions, then send to each by window name. *)
trigger_commands(action, reconnecting) ==
    IF action = "PauseReconnect" THEN <<"NetworkReachable(false)">>
    ELSE IF reconnecting THEN <<"NetworkReachable(true)", "ReconnectNow">>
    ELSE <<"NetworkReachable(true)">>
SnapshotSessions(t) ==
    /\ threads[t].action # NoAction
    /\ threads' = [threads EXCEPT
           ![t] = [action |-> NoAction,
                   sends |-> [w \in Windows |->
                       IF actors[w].live THEN trigger_commands(threads[t].action, shown[w]) ELSE <<>>]]]
    /\ UNCHANGED <<time, merger, actors, shown, cancelled, lost>>
Enqueue(w, cmd) == actors' = [actors EXCEPT ![w].queue = Append(@, cmd)]
(* The commands of one window keep their order; the windows, any of theirs. *)
SendNext(t) ==
    \E w \in Windows :
        /\ threads[t].sends[w] # <<>>
        /\ IF actors[w].live THEN Enqueue(w, Head(threads[t].sends[w])) ELSE UNCHANGED actors
        /\ threads' = [threads EXCEPT ![t].sends[w] = Tail(@)]
        /\ UNCHANGED <<time, merger, shown, cancelled, lost>>

--------------------------------------------------------------------------------
(* The user and the window: start, close, the overlay's buttons, the view. *)
StartSession(w) ==
    /\ ~actors[w].live /\ actors[w].generation < MaxGeneration
    /\ actors' = [actors EXCEPT ![w] = [NoActor EXCEPT !.live = TRUE, !.phase = "starting",
                                                       !.generation = actors[w].generation + 1]]
    /\ shown' = [shown EXCEPT ![w] = FALSE]
    /\ cancelled' = [cancelled EXCEPT ![w] = FALSE]
    /\ lost' = [lost EXCEPT ![w] = FALSE]
    /\ UNCHANGED <<time, merger, threads>>
CloseSession(w) ==
    /\ actors[w].live
    /\ actors' = [actors EXCEPT ![w] = [NoActor EXCEPT !.generation = actors[w].generation]]
    /\ shown' = [shown EXCEPT ![w] = FALSE]
    /\ cancelled' = [cancelled EXCEPT ![w] = FALSE]
    /\ lost' = [lost EXCEPT ![w] = FALSE]
    /\ UNCHANGED <<time, merger, threads>>
PressCancel(w) ==
    /\ shown[w] /\ actors[w].live /\ HasRoom
    /\ Enqueue(w, "Cancel")
    /\ UNCHANGED <<time, merger, threads, shown, cancelled, lost>>
PressReconnect(w) ==
    /\ actors[w].live /\ HasRoom
    /\ Enqueue(w, "ReconnectNow")
    /\ cancelled' = [cancelled EXCEPT ![w] = FALSE]
    /\ UNCHANGED <<time, merger, threads, shown, lost>>
ViewCatchesUp(w) ==
    /\ actors[w].live /\ shown[w] # (actors[w].phase = "backoff")
    /\ shown' = [shown EXCEPT ![w] = ~@]
    /\ UNCHANGED <<time, merger, threads, actors, cancelled, lost>>

--------------------------------------------------------------------------------
(* The actor: what it does with the head of its queue in each phase, and how it
   moves between phases by itself. *)
Pop(a) == [a EXCEPT !.queue = Tail(@)]
Reach(a, cmd) ==
    CASE cmd = "NetworkReachable(true)" -> [a EXCEPT !.reachable = TRUE]
      [] cmd = "NetworkReachable(false)" -> [a EXCEPT !.reachable = FALSE]
      [] OTHER -> a
Reads(w, phase) == actors[w].live /\ actors[w].phase = phase /\ actors[w].queue # <<>>
ActorStep(w, a) == actors' = [actors EXCEPT ![w] = a] /\ UNCHANGED <<time, merger, threads, shown>>
(* collect_initial_state: remember() keeps none of these commands. *)
ReadStarting(w) ==
    /\ Reads(w, "starting")
    /\ ActorStep(w, Pop(actors[w])) /\ UNCHANGED <<cancelled, lost>>
ReadPrompting(w) ==
    /\ Reads(w, "prompting")
    /\ ActorStep(w, Pop(actors[w]))
    /\ lost' = [lost EXCEPT ![w] = @ \/ Head(actors[w].queue) \in {"NetworkReachable(true)", "NetworkReachable(false)"}]
    /\ UNCHANGED cancelled
ReadLive(w) ==
    /\ Reads(w, "live")
    /\ ActorStep(w, Reach(Pop(actors[w]), Head(actors[w].queue))) /\ UNCHANGED <<cancelled, lost>>
\* Mutant: coming back online only clears the flag, as idle does.
BugReadBackoff(w) ==
    LET cmd == Head(actors[w].queue)  a == Reach(Pop(actors[w]), cmd)
    IN  /\ Reads(w, "backoff")
        /\ ActorStep(w, [a EXCEPT !.phase = IF cmd = "Cancel" THEN "idle"
                                            ELSE IF cmd = "ReconnectNow" /\ a.reachable THEN "connecting"
                                            ELSE "backoff"])
        /\ cancelled' = [cancelled EXCEPT ![w] = @ \/ cmd = "Cancel"]
        /\ UNCHANGED lost
ReadBackoff(w) ==
    LET cmd == Head(actors[w].queue)  a == Reach(Pop(actors[w]), cmd)
    IN  /\ Reads(w, "backoff")
        /\ ActorStep(w, [a EXCEPT !.phase =
               IF cmd = "Cancel" THEN "idle"
               ELSE IF cmd = "NetworkReachable(true)" \/ (cmd = "ReconnectNow" /\ a.reachable) THEN "connecting"
               ELSE "backoff"])
        /\ cancelled' = [cancelled EXCEPT ![w] = @ \/ cmd = "Cancel"]
        /\ UNCHANGED lost
ReadIdle(w) ==
    LET cmd == Head(actors[w].queue)  a == Reach(Pop(actors[w]), cmd)
    IN  /\ Reads(w, "idle")
        /\ ActorStep(w, IF cmd = "ReconnectNow" THEN [a EXCEPT !.phase = "connecting", !.reachable = TRUE] ELSE a)
        /\ UNCHANGED <<cancelled, lost>>
Quietly(w, phase, a) == /\ actors[w].live /\ actors[w].phase = phase
                        /\ ActorStep(w, a) /\ UNCHANGED <<cancelled, lost>>
GraceOver(w) == Quietly(w, "starting", [actors[w] EXCEPT !.phase = "connecting"])
Prompted(w) == Quietly(w, "connecting", [actors[w] EXCEPT !.phase = "prompting"])
Answered(w) == Quietly(w, "prompting", [actors[w] EXCEPT !.phase = "connecting"])
Activated(w) == Quietly(w, "connecting", [actors[w] EXCEPT !.phase = "live", !.activated = TRUE])
Redirected(w) == Quietly(w, "live", [actors[w] EXCEPT !.phase = "connecting"])
(* after_disconnect: a session that never came up, a fatal reason or a spent
   budget stops; otherwise it waits, without a deadline while unreachable. *)
LegEnded(w) ==
    \/ \E p \in {"connecting", "prompting", "live"} : Quietly(w, p, [actors[w] EXCEPT !.phase = "idle"])
    \/ /\ actors[w].activated
       /\ \E p \in {"connecting", "prompting", "live"} :
            Quietly(w, p, [actors[w] EXCEPT !.phase = "backoff", !.deadline = actors[w].reachable])
BackoffElapsed(w) ==
    /\ actors[w].deadline /\ actors[w].reachable
    /\ Quietly(w, "backoff", [actors[w] EXCEPT !.phase = "connecting"])

Tick == /\ time < MaxTime /\ time' = time + 1
        /\ UNCHANGED <<merger, threads, actors, shown, cancelled, lost>>

TriggersNext ==
    \/ \E status \in PathStatus : PathUpdate(status)
    \/ DidWake
    \/ \E t \in Thread : SnapshotSessions(t) \/ SendNext(t)
    \/ \E w \in Windows :
         \/ StartSession(w) \/ CloseSession(w) \/ PressCancel(w) \/ PressReconnect(w) \/ ViewCatchesUp(w)
         \/ ReadStarting(w) \/ ReadPrompting(w) \/ ReadLive(w) \/ ReadBackoff(w) \/ ReadIdle(w)
         \/ GraceOver(w) \/ Prompted(w) \/ Answered(w) \/ Activated(w) \/ Redirected(w) \/ LegEnded(w)
         \/ BackoffElapsed(w)
    \/ Tick
(* The observer threads run to their end and an actor reads its commands. *)
TriggersFairness ==
    /\ \A t \in Thread : WF_triggerVars(SnapshotSessions(t)) /\ WF_triggerVars(SendNext(t))
    /\ \A w \in Windows : WF_triggerVars(ReadBackoff(w)) /\ WF_triggerVars(ReadIdle(w)) /\ WF_triggerVars(ReadLive(w))
TriggersSpec == TriggersInit /\ [][TriggersNext]_triggerVars /\ TriggersFairness

--------------------------------------------------------------------------------
Actor == [live : BOOLEAN, generation : Nat, phase : Phase, reachable : BOOLEAN,
          activated : BOOLEAN, deadline : BOOLEAN, queue : Seq(Command)]
TriggersTypeOK ==
    /\ time \in Nat
    /\ merger \in [online : BOOLEAN, last_retry : Nat]
    /\ threads \in [Thread -> [action : TriggerAction \cup {NoAction}, sends : [Windows -> Seq(Command)]]]
    /\ actors \in [Windows -> Actor]
    /\ shown \in [Windows -> BOOLEAN] /\ cancelled \in [Windows -> BOOLEAN] /\ lost \in [Windows -> BOOLEAN]

(* Reachability on its way to window w: an action not yet fanned out, a send or
   an unread command. *)
Underway(w) ==
    \/ \E t \in Thread : \/ threads[t].action # NoAction
                         \/ threads[t].sends[w] # <<>>
    \/ \E i \in DOMAIN actors[w].queue : actors[w].queue[i] \in {"NetworkReachable(true)", "NetworkReachable(false)"}
(* Once the network is back and nothing is on its way, no session still
   believes that it is down, whatever the order in which the two observer
   threads and the actor ran and however short the outage was. The one
   exception is a session whose certificate prompt swallowed the news. *)
NeverLeftPaused ==
    \A w \in Windows :
        merger.online /\ actors[w].live /\ ~actors[w].reachable /\ ~lost[w] => Underway(w)
(* A session that waits for the network without a deadline is resumed after the
   network came back, unless it was lost again or the news was swallowed. *)
ResumedWhenOnline ==
    \A w \in Windows :
        (actors[w].live /\ actors[w].phase = "backoff" /\ ~actors[w].deadline /\ merger.online)
            ~> (actors[w].phase # "backoff" \/ ~merger.online \/ lost[w])
(* A session the user cancelled stays disconnected until the user asks. *)
CancelledStaysStopped == \A w \in Windows : cancelled[w] => actors[w].phase = "idle"
================================================================================
