---------------------------- MODULE ClipboardPump ----------------------------
(* Local copies on their way to the sessions: the main-thread pasteboard poll of
   the app's platform services (PollTimer, ClipboardPump) over drift-clipboard's
   PasteboardWatcher. A tick reads the live sessions once and then sends to each
   of them by window name; windows come, go and are replaced in between. *)
EXTENDS Naturals, FiniteSets
CONSTANTS PumpWindows,  \* session windows
          PumpPrefs,    \* clipboard preference of each window's profile
          MaxCopies,    \* bound on the pasteboard's changeCount
          MaxActors     \* bound on the generations of one window
ASSUME PumpAssumption == /\ PumpPrefs \in [PumpWindows -> {"Off", "Text", "TextAndImages"}]
                         /\ MaxCopies \in Nat /\ MaxActors \in Nat
VARIABLES pasteboard, \* NSPasteboard: changeCount and the kinds it holds
          last_seen,  \* PasteboardWatcher
          seeded,     \* ClipboardPump: sessions that need no seeding
          generation, \* of each window's live actor, 0 when it has none
          actorsSoFar,\* generations each window has used
          delivery,   \* the tick under way: windows left to tell, and what
          told,       \* kinds the window's actor was last told the clipboard holds
          running,    \* the main thread still answers the timer
          stale       \* a copy or a new actor since the last tick began
pumpVars == <<pasteboard, last_seen, seeded, generation, actorsSoFar, delivery, told, running, stale>>

Kinds == {"text", "image"}
rank(level) == CASE level = "Off" -> 0 [] level = "Text" -> 1 [] level = "TextAndImages" -> 2
Allowed(level) == CASE level = "Off" -> {} [] level = "Text" -> {"text"} [] level = "TextAndImages" -> Kinds
NoDelivery == [to |-> {}, contents |-> {}]
live_sessions == {w \in PumpWindows : generation[w] # 0}
key(w) == <<w, generation[w]>>
most_permissive(windows) ==
    IF windows = {} THEN "Off"
    ELSE PumpPrefs[CHOOSE w \in windows : \A v \in windows : rank(PumpPrefs[v]) <= rank(PumpPrefs[w])]
read(level) == pasteboard.kinds \cap Allowed(level)
syncing(windows) == {w \in windows : PumpPrefs[w] # "Off"}

PumpInit ==
    /\ \E kinds \in SUBSET Kinds : pasteboard = [count |-> 0, kinds |-> kinds]
    /\ last_seen = 0
    /\ seeded = {}
    /\ generation = [w \in PumpWindows |-> 0]
    /\ actorsSoFar = [w \in PumpWindows |-> 0]
    /\ delivery = NoDelivery
    /\ told = [w \in PumpWindows |-> {}]
    /\ running = TRUE
    /\ stale = FALSE

(* The user, another app or a session's own write replaces the contents. *)
Copy(kinds) ==
    /\ pasteboard.count < MaxCopies
    /\ pasteboard' = [count |-> pasteboard.count + 1, kinds |-> kinds]
    /\ stale' = TRUE
    /\ UNCHANGED <<last_seen, seeded, generation, actorsSoFar, delivery, told, running>>
ActorStarts(w) ==
    /\ generation[w] = 0 /\ actorsSoFar[w] < MaxActors
    /\ actorsSoFar' = [actorsSoFar EXCEPT ![w] = @ + 1]
    /\ generation' = [generation EXCEPT ![w] = actorsSoFar[w] + 1]
    /\ told' = [told EXCEPT ![w] = {}]
    /\ stale' = TRUE
    /\ UNCHANGED <<pasteboard, last_seen, seeded, delivery, running>>
ActorEnds(w) ==
    /\ generation[w] # 0
    /\ generation' = [generation EXCEPT ![w] = 0]
    /\ UNCHANGED <<pasteboard, last_seen, seeded, actorsSoFar, delivery, told, running, stale>>

(* ClipboardPump::tick up to its sends: PasteboardWatcher::poll reports a moved
   changeCount, but only marks it seen when no session wants the clipboard;
   without a change the sessions not yet seeded get a snapshot. *)
\* Mutant: only the sessions that sync are remembered as seeded, and a tick that reads nothing forgets nobody.
BugTick ==
    LET live == live_sessions
        level == most_permissive(live)
        moved == pasteboard.count # last_seen
        fresh == {w \in syncing(live) : \A g \in 1 .. MaxActors : <<w, g>> \notin seeded}
    IN  /\ running /\ delivery.to = {}
        /\ last_seen' = pasteboard.count
        /\ seeded' = seeded \cup {key(w) : w \in live}
        /\ delivery' = IF moved /\ level # "Off" THEN [to |-> syncing(live), contents |-> read(level)]
                       ELSE IF read(level) = {} THEN NoDelivery
                       ELSE [to |-> fresh, contents |-> read(level)]
        /\ stale' = FALSE
        /\ UNCHANGED <<pasteboard, generation, actorsSoFar, told, running>>
PumpTick ==
    LET live == live_sessions
        level == most_permissive(live)
        moved == pasteboard.count # last_seen
        fresh == {w \in syncing(live) : key(w) \notin seeded}
    IN  /\ running /\ delivery.to = {}
        /\ last_seen' = pasteboard.count
        /\ seeded' = {key(w) : w \in live}
        /\ delivery' = IF moved /\ level # "Off" THEN [to |-> syncing(live), contents |-> read(level)]
                       ELSE IF read(level) = {} THEN NoDelivery
                       ELSE [to |-> fresh, contents |-> read(level)]
        /\ stale' = FALSE
        /\ UNCHANGED <<pasteboard, generation, actorsSoFar, told, running>>
(* One send of the tick; false when the window's actor just ended. *)
PumpSend(w) ==
    /\ w \in delivery.to
    /\ delivery' = [delivery EXCEPT !.to = @ \ {w}]
    /\ told' = IF generation[w] = 0 THEN told ELSE [told EXCEPT ![w] = delivery.contents]
    /\ UNCHANGED <<pasteboard, last_seen, seeded, generation, actorsSoFar, running, stale>>
(* on_main fails once the main thread is gone: Tick::Stop ends the timer. *)
AppQuits ==
    /\ running /\ delivery.to = {}
    /\ running' = FALSE
    /\ UNCHANGED <<pasteboard, last_seen, seeded, generation, actorsSoFar, delivery, told, stale>>

PumpNext ==
    \/ \E kinds \in SUBSET Kinds : Copy(kinds)
    \/ \E w \in PumpWindows : ActorStarts(w) \/ ActorEnds(w) \/ PumpSend(w)
    \/ PumpTick
    \/ AppQuits
PumpSpec == PumpInit /\ [][PumpNext]_pumpVars

--------------------------------------------------------------------------------
PumpTypeOK ==
    /\ pasteboard \in [count : 0 .. MaxCopies, kinds : SUBSET Kinds]
    /\ last_seen \in 0 .. MaxCopies
    /\ seeded \subseteq PumpWindows \X (1 .. MaxActors)
    /\ {generation, actorsSoFar} \subseteq [PumpWindows -> 0 .. MaxActors]
    /\ delivery \in [to : SUBSET PumpWindows, contents : SUBSET Kinds]
    /\ told \in [PumpWindows -> SUBSET Kinds]
    /\ {running, stale} \subseteq BOOLEAN
(* After a tick that no copy and no new actor overtook, every live session that
   syncs knows what the pasteboard holds of the kinds its preference allows:
   a change seen while nobody was connected, a window whose actor was replaced
   during the tick and a session that opened later included. *)
EverySessionKnows ==
    ~stale /\ delivery.to = {} =>
        \A w \in syncing(live_sessions) :
            told[w] \cap Allowed(PumpPrefs[w]) = read(PumpPrefs[w])
================================================================================
