----------------------------- MODULE SessionManager -----------------------------
(***************************************************************************)
(* Session windows and their sessions (src-tauri: manager.rs, the window     *)
(* life cycle of windows.rs and AppState of commands.rs).                    *)
(*                                                                           *)
(* Threads: the main thread runs the user's commands and every on_main       *)
(* closure, one at a time; each new window has a builder thread; each        *)
(* session has a pump task that reads its actor's events; each close and the *)
(* quit is a task; the thread that opened the Connections window connects    *)
(* the profile of DRIFT_AUTOCONNECT.  They share the manager's state under one lock, so an     *)
(* action is one main-thread closure or one locked section.  A view emitted  *)
(* to a page reaches it on the main thread too.                              *)
(*                                                                           *)
(* A session is named by its actor; the code's generation number tells the   *)
(* same sessions apart.  Titles, menus, frames and thumbnails are left out.  *)
(***************************************************************************)
EXTENDS Naturals, Sequences, FiniteSets

CONSTANTS
    Profiles,       \* profiles saved at the start
    NoProfile,      \* "no profile"
    Autoconnect,    \* the profile DRIFT_AUTOCONNECT names, or NoProfile
    Commands,       \* what the user does in this instance
    EventKinds,     \* the kinds of event actors emit in this instance
    ActorsEnd,      \* whether an actor may end without Close (its task panicked)
    Callers,        \* "app": open() only after the session ended; "any": as its doc allows
    MaxWindows,     \* bound: windows opened
    MaxActors,      \* bound: sessions started
    MaxEvents,      \* bound: events an actor emits
    MaxToggles      \* bound: statistics HUD toggles

AllCommands == {"Connect", "Reconnect", "Toggle", "Answer", "Close", "Delete", "Quit", "DockQuit"}

SessionEvent == {"Connecting", "Connected", "Failed", "Prompt"}

ASSUME ManagerAssumption ==
    /\ NoProfile \notin Profiles /\ Autoconnect \in Profiles \cup {NoProfile}
    /\ Commands \subseteq AllCommands
    /\ EventKinds \subseteq SessionEvent
    /\ ActorsEnd \in BOOLEAN
    /\ Callers \in {"app", "any"}
    /\ MaxWindows \in Nat /\ MaxActors \in Nat /\ MaxEvents \in Nat /\ MaxToggles \in Nat

\* The threads connect_profile runs on.
Connectors == {"main", "auto"}

Windows == 1 .. MaxWindows
Actors == 1 .. MaxActors
NoActor == 0

View == [state : {"Idle", "Connecting", "Connected", "Failed"}, certificate : BOOLEAN,
         show_stats : BOOLEAN]
NewView == [state |-> "Idle", certificate |-> FALSE, show_stats |-> FALSE]
Blank == [NewView EXCEPT !.state = "Blank"]     \* a page that has received no view
NoSlot == [profile |-> NoProfile, view |-> NewView, live |-> NoActor]

VARIABLES
    saved,          \* the profile store
    window_profiles, closing, quitting,                     \* AppState
    at, choice,     \* where each thread is in connect_profile, and for which profile
    opener,         \* history: the thread that opened each window
    slot,           \* State.windows: profile, view and live session of a window; or NoSlot
    builder,        \* where each window's builder thread is
    target,         \* the profile it opens the window for
    building,       \* the session it has started
    exists,         \* the Tauri window: "no", "hidden" or "shown"
    registered,     \* whether PLATFORM knows the window
    render, link,   \* whose render thread and handle the window holds
    listens,        \* whether the window's page has subscribed to its views
    page,           \* the view the page shows
    home,           \* the window a session was started for
    life,           \* its actor: "none", "running", "told" (to close) or "exited"
    events,         \* its event stream
    emitted,        \* how many events it has emitted
    pump, carried,  \* its pump task, and the view it is about to hand to the host
    aborted,        \* whether that task has been aborted
    finish,         \* the future that waits for a closed session
    ended,          \* how often the host's session_ended ran for the session
    closer, held,   \* the close task of each window, and the session it waits for
    shutdown,       \* the sessions the quit still waits for
    wanted,         \* history: profiles the user connected and has not closed since
    toggles

appstate == << window_profiles, closing, quitting >>
connects == << at, choice, opener >>
build == << builder, target, building >>
platform == << exists, registered, render, link >>
pages == << listens, page >>
actor == << home, life, events, emitted >>
pumps == << pump, carried, aborted >>
closers == << closer, held >>
user == << saved, wanted, toggles >>
vars == << saved, window_profiles, closing, quitting, at, choice, opener, slot, builder, target,
           building, exists, registered, render, link, listens, page, home, life, events, emitted,
           pump, carried, aborted, finish, ended, closer, held, shutdown, wanted, toggles >>

-----------------------------------------------------------------------------
(* The view model.                                                           *)

apply(view, event) ==
    IF event = "Prompt" THEN [view EXCEPT !.certificate = TRUE]
    ELSE [view EXCEPT !.state = event, !.certificate = FALSE]

clear_certificate(view) == [view EXCEPT !.certificate = FALSE]

\* Emits view to the window's page; a page that has not subscribed yet misses it.
apply_view(w, view) == page' = IF listens[w] THEN [page EXCEPT ![w] = view] ELSE page

-----------------------------------------------------------------------------
(* What the operations share.                                                *)

Running == quitting # "exited"
\* Dock > Quit waits for the sessions on the main thread, which then runs nothing else, and so
\* does a connect.
MainFree == quitting \notin {"blocking", "exited"} /\ at["main"] = "idle"

HasSlot(w) == slot[w].profile # NoProfile
Opened == {w \in Windows : target[w] # NoProfile}
Started == {a \in Actors : life[a] # "none"}

\* Mutant: the generation is not compared.
BugOwns(a) == slot[home[a]].live # NoActor

\* The pump's session is still the live one of its window (the generations are equal).
Owns(a) == slot[home[a]].live = a

window_for(p) == {w \in Windows : slot[w].profile = p}

\* Mutant: a window that is still being built is not looked for.
Bug_window_of_profile(p) == window_for(p)

window_of_profile(p) == {w \in Windows : window_profiles[w] = p}

\* Mutant: the session is forgotten without being told to close.
BugTold(S) == life

\* Close is sent to the sessions in S; a send to an actor that is gone fails silently.
Told(S) == [a \in Actors |-> IF a \in S /\ life[a] = "running" THEN "told" ELSE life[a]]

\* release_session, on the main thread: the window's render thread and handle go.
release_session(w) ==
    /\ render' = IF registered[w] THEN [render EXCEPT ![w] = NoActor] ELSE render
    /\ link' = IF registered[w] THEN [link EXCEPT ![w] = NoActor] ELSE link

session_ended(a) ==
    /\ ended' = [ended EXCEPT ![a] = @ + 1]
    /\ release_session(home[a])

-----------------------------------------------------------------------------
(* The user's commands, on the main thread.                                  *)

\* Bound: a connect goes on only when there is a number for its window.
Room == Cardinality(Opened) + Cardinality({t \in Connectors : at[t] \in {"windows", "open"}})
            < MaxWindows

\* Thread t leaves connect_profile.
Returns(t) == at' = [at EXCEPT ![t] = "idle"] /\ choice' = [choice EXCEPT ![t] = NoProfile]

\* connect_profile begins, on the main thread for the user or once on the thread that has opened
\* the Connections window: the window that has p's session is brought forward.  Its lookups and
\* the opening take their locks one after the other.
ConnectPlan(t, p) ==
    /\ \/ t = "main" /\ "Connect" \in Commands /\ MainFree /\ p \in saved
       \/ t = "auto" /\ at[t] = "plan" /\ Running /\ p = Autoconnect
    /\ \/ window_for(p) # {} /\ Returns(t)
       \/ /\ window_for(p) = {} /\ Room
          /\ at' = [at EXCEPT ![t] = "windows"]
          /\ choice' = [choice EXCEPT ![t] = p]
    /\ wanted' = wanted \cup ({p} \cap saved)
    /\ UNCHANGED << saved, toggles, opener, appstate, slot, build, platform, pages, actor, pumps,
                    finish, ended, closers, shutdown >>

\* The window that is being built for the profile is brought forward, or the profile is read.
ConnectWindow(t) ==
    /\ Running /\ at[t] = "windows"
    /\ \/ (window_of_profile(choice[t]) # {} \/ choice[t] \notin saved) /\ Returns(t)
       \/ /\ window_of_profile(choice[t]) = {} /\ choice[t] \in saved
          /\ at' = [at EXCEPT ![t] = "open"]
          /\ UNCHANGED choice
    /\ UNCHANGED << user, opener, appstate, slot, build, platform, pages, actor, pumps, finish,
                    ended, closers, shutdown >>

\* open_session_window: the window gets its number and its profile, and a thread builds it.
ConnectOpen(t) ==
    /\ Running /\ at[t] = "open"
    /\ Returns(t)
    /\ \E w \in Windows :
          /\ w = Cardinality(Opened) + 1
          /\ window_profiles' = [window_profiles EXCEPT ![w] = choice[t]]
          /\ target' = [target EXCEPT ![w] = choice[t]]
          /\ builder' = [builder EXCEPT ![w] = "build"]
          /\ opener' = [opener EXCEPT ![w] = t]
    /\ UNCHANGED << user, closing, quitting, slot, building, platform, pages, actor, pumps, finish,
                    ended, closers, shutdown >>

\* Whose render thread and handle window w has once session `new` has started in it: an
\* earlier session is released before.
Holds(w, new) == new

\* reconnect of a window whose session has ended: open() in the same window.  A live session
\* is told to close, its pump aborted and its resources released before the new one starts.
Reconnect(w) ==
    /\ "Reconnect" \in Commands /\ MainFree
    /\ exists[w] = "shown" /\ HasSlot(w) /\ slot[w].profile \in saved /\ registered[w]
    /\ slot[w].live = NoActor \/ Callers = "any"
    /\ \E new \in Actors :
          LET old == slot[w].live IN
          /\ new = Cardinality(Started) + 1
          /\ home' = [home EXCEPT ![new] = w]
          /\ life' = [Told({old}) EXCEPT ![new] = "running"]
          /\ slot' = [slot EXCEPT ![w].view = NewView, ![w].live = new]
          /\ pump' = [pump EXCEPT ![new] = "recv"]
          /\ aborted' = [a \in Actors |-> aborted[a] \/ a = old]
          /\ ended' = [a \in Actors |-> IF a = old THEN ended[a] + 1 ELSE ended[a]]
          /\ render' = [render EXCEPT ![w] = Holds(w, new)]
          /\ link' = [link EXCEPT ![w] = Holds(w, new)]
    /\ UNCHANGED << connects, user, appstate, build, exists, registered, pages, events, emitted,
                    carried, finish, closers, shutdown >>

toggle_stats(w) ==
    /\ "Toggle" \in Commands /\ MainFree
    /\ exists[w] = "shown" /\ HasSlot(w)
    /\ toggles < MaxToggles
    /\ toggles' = toggles + 1
    /\ slot' = [slot EXCEPT ![w].view.show_stats = ~ @]
    /\ apply_view(w, slot'[w].view)
    /\ UNCHANGED << connects, saved, wanted, appstate, build, platform, listens, actor, pumps,
                    finish, ended, closers, shutdown >>

\* Mutant: the page is not told that the prompt is answered.
Bug_answer_certificate(w) ==
    /\ "Answer" \in Commands /\ MainFree
    /\ exists[w] = "shown" /\ page[w] # Blank /\ page[w].certificate
    /\ slot[w].live # NoActor /\ life[slot[w].live] # "exited" /\ slot[w].view.certificate
    /\ slot' = [slot EXCEPT ![w].view = clear_certificate(@)]
    /\ UNCHANGED << connects, user, appstate, build, platform, pages, actor, pumps, finish, ended,
                    closers, shutdown >>

\* The answer goes to the actor, and the prompt is dismissed at once.
answer_certificate(w) ==
    /\ "Answer" \in Commands /\ MainFree
    /\ exists[w] = "shown" /\ page[w] # Blank /\ page[w].certificate
    /\ slot[w].live # NoActor /\ life[slot[w].live] # "exited" /\ slot[w].view.certificate
    /\ slot' = [slot EXCEPT ![w].view = clear_certificate(@)]
    /\ apply_view(w, slot'[w].view)
    /\ UNCHANGED << connects, user, appstate, build, platform, listens, actor, pumps, finish, ended,
                    closers, shutdown >>

\* SessionManager::close: the window is forgotten at once, its session is told to close, and
\* the returned future waits for it.
close(w) ==
    /\ slot' = [slot EXCEPT ![w] = NoSlot]
    /\ life' = Told({slot[w].live})
    /\ finish' = [a \in Actors |-> IF a = slot[w].live THEN "wait" ELSE finish[a]]

\* begin_closing, SessionManager::close and the task that destroys the window afterwards.
close_session_window(w) ==
    /\ w \notin closing
    /\ closing' = closing \cup {w}
    /\ close(w)
    /\ closer' = [closer EXCEPT ![w] = "wait"]
    /\ held' = [held EXCEPT ![w] = slot[w].live]

\* The red button, Cmd+W, the card's Disconnect or the page's Close.
Close(w) ==
    /\ "Close" \in Commands /\ MainFree
    /\ exists[w] = "shown" \/ HasSlot(w)
    /\ close_session_window(w)
    /\ wanted' = wanted \ {target[w]}
    /\ UNCHANGED << connects, saved, toggles, window_profiles, quitting, build, platform, pages,
                    home, events, emitted, pumps, ended, shutdown >>

\* delete_profile closes the profile's window, also one that is still being built.
Delete(p) ==
    /\ "Delete" \in Commands /\ MainFree /\ p \in saved
    /\ saved' = saved \ {p}
    /\ wanted' = wanted \ {p}
    /\ LET mine == IF window_for(p) # {} THEN window_for(p) ELSE window_of_profile(p)
       IN  \/ \E w \in mine : close_session_window(w)
           \/ mine \subseteq closing /\ UNCHANGED << closing, slot, life, finish, closers >>
    /\ UNCHANGED << connects, toggles, window_profiles, quitting, build, platform, pages, home,
                    events, emitted, pumps, ended, shutdown >>

\* SessionManager::shutdown: every window is forgotten, every session told to close at once.
ShutDown(next) ==
    /\ MainFree /\ quitting = "no"
    /\ quitting' = next
    /\ shutdown' = {slot[w].live : w \in Windows} \ {NoActor}
    /\ slot' = [w \in Windows |-> NoSlot]
    /\ life' = Told({slot[w].live : w \in Windows})
    /\ wanted' = {}
    /\ UNCHANGED << connects, saved, toggles, window_profiles, closing, build, platform, pages,
                    home, events, emitted, pumps, finish, ended, closers >>

\* shutdown_and_exit: a task waits for the sessions.
Quit == "Quit" \in Commands /\ ShutDown("waiting")

\* shutdown_blocking: the main thread itself waits for them.
DockQuit == "DockQuit" \in Commands /\ ShutDown("blocking")

-----------------------------------------------------------------------------
(* The builder thread of a window: build_session_window, or discard_window.  *)

Advance(w, from, to) ==
    /\ Running
    /\ builder[w] = from
    /\ builder' = [builder EXCEPT ![w] = to]

BuildWindow(w) ==
    /\ MainFree
    /\ Advance(w, "build", "prepare")
    /\ exists' = [exists EXCEPT ![w] = "hidden"]
    /\ UNCHANGED << connects, user, appstate, slot, target, building, registered, render, link,
                    pages, actor, pumps, finish, ended, closers, shutdown >>

\* prepare_window and add_titlebar, which fail alike when the window is gone.
PrepareWindow(w) ==
    /\ MainFree /\ exists[w] # "no"
    /\ Advance(w, "prepare", "open")
    /\ registered' = [registered EXCEPT ![w] = TRUE]
    /\ UNCHANGED << connects, user, appstate, slot, target, building, exists, render, link, pages,
                    actor, pumps, finish, ended, closers, shutdown >>

\* host.spawn reads the profile's secrets, has the render thread made on the main thread and
\* starts the actor.
CreateRenderSink(w) ==
    /\ MainFree /\ registered[w] /\ target[w] \in saved
    /\ Advance(w, "open", "attach")
    /\ \E a \in Actors :
          /\ a = Cardinality(Started) + 1
          /\ home' = [home EXCEPT ![a] = w]
          /\ life' = [life EXCEPT ![a] = "running"]
          /\ building' = [building EXCEPT ![w] = a]
          /\ render' = [render EXCEPT ![w] = a]
    /\ UNCHANGED << connects, user, appstate, slot, target, exists, registered, link, pages, events,
                    emitted, pumps, finish, ended, closers, shutdown >>

AttachSession(w) ==
    /\ MainFree
    /\ Advance(w, "attach", "insert")
    /\ link' = IF registered[w] THEN [link EXCEPT ![w] = building[w]] ELSE link
    /\ UNCHANGED << connects, user, appstate, slot, target, building, exists, registered, render,
                    pages, actor, pumps, finish, ended, closers, shutdown >>

\* The rest of SessionManager::open: the session is recorded and its pump started.
InsertSlot(w) ==
    /\ Advance(w, "insert", "show")
    /\ slot' = [slot EXCEPT ![w] = [profile |-> target[w], view |-> NewView, live |-> building[w]]]
    /\ pump' = [pump EXCEPT ![building[w]] = "recv"]
    /\ UNCHANGED << connects, user, appstate, target, building, platform, pages, actor, carried,
                    aborted, finish, ended, closers, shutdown >>

ShowWindow(w) ==
    /\ MainFree /\ exists[w] # "no" /\ registered[w]
    /\ Advance(w, "show", "done")
    /\ exists' = [exists EXCEPT ![w] = "shown"]
    /\ UNCHANGED << connects, user, appstate, slot, target, building, registered, render, link,
                    pages, actor, pumps, finish, ended, closers, shutdown >>

\* A step finds the window or the profile gone.
BuildFails(w) ==
    /\ MainFree
    /\ \/ exists[w] = "no" /\ Advance(w, "prepare", "discard")
       \/ (~ registered[w] \/ target[w] \notin saved) /\ Advance(w, "open", "discard")
       \/ (exists[w] = "no" \/ ~ registered[w]) /\ Advance(w, "show", "discard")
    /\ UNCHANGED << connects, user, appstate, slot, target, building, platform, pages, actor, pumps,
                    finish, ended, closers, shutdown >>

\* discard_window closes the session, if it started.
DiscardClose(w) ==
    /\ Advance(w, "discard", "discarding")
    /\ close(w)
    /\ UNCHANGED << connects, user, appstate, target, building, platform, pages, home, events,
                    emitted, pumps, ended, closers, shutdown >>

\* The window leaves PLATFORM, with what it holds, and is destroyed.
DestroyWindow(w) ==
    /\ registered' = [registered EXCEPT ![w] = FALSE]
    /\ exists' = [exists EXCEPT ![w] = "no"]
    /\ render' = [render EXCEPT ![w] = NoActor]
    /\ link' = [link EXCEPT ![w] = NoActor]
    /\ listens' = [listens EXCEPT ![w] = FALSE]
    /\ page' = [page EXCEPT ![w] = Blank]

DiscardWindow(w) ==
    /\ MainFree
    /\ Advance(w, "discarding", "done")
    /\ DestroyWindow(w)
    /\ window_profiles' = [window_profiles EXCEPT ![w] = NoProfile]
    /\ wanted' = wanted \ {target[w]}
    /\ UNCHANGED << connects, saved, toggles, closing, quitting, slot, target, building, actor,
                    pumps, finish, ended, closers, shutdown >>

-----------------------------------------------------------------------------
(* The pages and the actors (external: WebKit, and the session actor whose   *)
(* own behaviour is SessionActor's).                                         *)

\* The page has loaded and subscribed; it asks for its identity but not for its view.
PageListens(w) ==
    /\ MainFree /\ exists[w] # "no" /\ ~ listens[w]
    /\ listens' = [listens EXCEPT ![w] = TRUE]
    /\ UNCHANGED << connects, user, appstate, slot, build, platform, page, actor, pumps, finish,
                    ended, closers, shutdown >>

ActorEmits(a) ==
    /\ Running /\ life[a] \in {"running", "told"} /\ emitted[a] < MaxEvents
    /\ \E event \in EventKinds : events' = [events EXCEPT ![a] = Append(@, event)]
    /\ emitted' = [emitted EXCEPT ![a] = @ + 1]
    /\ UNCHANGED << connects, user, appstate, slot, build, platform, pages, home, life, pumps,
                    finish, ended, closers, shutdown >>

ActorExits(a) ==
    /\ Running
    /\ life[a] = "told" \/ (ActorsEnd /\ life[a] = "running" /\ pump[a] # "none")
    /\ life' = [life EXCEPT ![a] = "exited"]
    /\ UNCHANGED << connects, user, appstate, slot, build, platform, pages, home, events, emitted,
                    pumps, finish, ended, closers, shutdown >>

-----------------------------------------------------------------------------
(* The pump task of session a.                                               *)

\* One event: folded into the view of the window the session still owns, or dropped.
PumpRecv(a) ==
    /\ Running /\ pump[a] = "recv" /\ events[a] # << >>
    /\ events' = [events EXCEPT ![a] = Tail(@)]
    /\ LET w == home[a]
           view == apply(slot[w].view, Head(events[a]))
       IN  \/ /\ Owns(a) /\ view # slot[w].view
              /\ slot' = [slot EXCEPT ![w].view = view]
              /\ carried' = [carried EXCEPT ![a] = view]
              /\ pump' = [pump EXCEPT ![a] = "deliver"]
           \/ (Owns(a) => view = slot[w].view) /\ UNCHANGED << slot, carried, pump >>
    /\ UNCHANGED << connects, user, appstate, build, platform, pages, home, life, emitted, aborted,
                    finish, ended, closers, shutdown >>

\* host.view_changed, on the main thread.
PumpDeliver(a) ==
    /\ MainFree /\ pump[a] = "deliver"
    /\ apply_view(home[a], carried[a])
    /\ pump' = [pump EXCEPT ![a] = "recv"]
    /\ carried' = [carried EXCEPT ![a] = NewView]
    /\ UNCHANGED << connects, user, appstate, slot, build, platform, listens, actor, aborted,
                    finish, ended, closers, shutdown >>

\* The stream has ended: a session that still owns its window leaves it without one.
PumpEnd(a) ==
    /\ Running /\ pump[a] = "recv" /\ events[a] = << >> /\ life[a] = "exited"
    /\ \/ /\ Owns(a)
          /\ slot' = [slot EXCEPT ![home[a]].live = NoActor]
          /\ pump' = [pump EXCEPT ![a] = "release"]
       \/ ~ Owns(a) /\ pump' = [pump EXCEPT ![a] = "done"] /\ UNCHANGED slot
    /\ UNCHANGED << connects, user, appstate, build, platform, pages, actor, carried, aborted,
                    finish, ended, closers, shutdown >>

PumpRelease(a) ==
    /\ MainFree /\ pump[a] = "release"
    /\ pump' = [pump EXCEPT ![a] = "done"]
    /\ session_ended(a)
    /\ UNCHANGED << connects, user, appstate, slot, build, exists, registered, pages, actor,
                    carried, aborted, finish, closers, shutdown >>

\* An aborted task stops at one of its next awaits.
PumpStops(a) ==
    /\ Running /\ pump[a] = "recv" /\ aborted[a]
    /\ pump' = [pump EXCEPT ![a] = "done"]
    /\ UNCHANGED << connects, user, appstate, slot, build, platform, pages, actor, carried, aborted,
                    finish, ended, closers, shutdown >>

-----------------------------------------------------------------------------
(* Closing and quitting.                                                     *)

\* Mutant: the wait has no deadline.
BugFinished(a) == pump[a] = "done" /\ UNCHANGED aborted

\* finish(): the pump has ended, or the deadline has passed and the pump is aborted.
Finished(a) ==
    \/ pump[a] = "done" /\ UNCHANGED aborted
    \/ pump[a] # "done" /\ aborted' = [aborted EXCEPT ![a] = TRUE]

\* The future of SessionManager::close.
CloseFinishes(a) ==
    /\ MainFree /\ finish[a] = "wait"
    /\ Finished(a)
    /\ finish' = [finish EXCEPT ![a] = "over"]
    /\ session_ended(a)
    /\ UNCHANGED << connects, user, appstate, slot, build, exists, registered, pages, actor, pump,
                    carried, closers, shutdown >>

\* The close task of window w destroys it once its session is over.
DestroyClosed(w) ==
    /\ MainFree /\ closer[w] = "wait"
    /\ held[w] # NoActor => finish[held[w]] = "over"
    /\ DestroyWindow(w)
    /\ closer' = [closer EXCEPT ![w] = "forget"]
    /\ UNCHANGED << connects, user, appstate, slot, build, actor, pumps, finish, ended, held,
                    shutdown >>

ForgetClosed(w) ==
    /\ Running /\ closer[w] = "forget"
    /\ window_profiles' = [window_profiles EXCEPT ![w] = NoProfile]
    /\ closing' = closing \ {w}
    /\ closer' = [closer EXCEPT ![w] = "done"]
    /\ UNCHANGED << connects, user, quitting, slot, build, platform, pages, actor, pumps, finish,
                    ended, held, shutdown >>

\* The quit awaits its sessions one after the other, sorted by window, each until the same
\* deadline.
ShutdownNext ==
    /\ quitting \in {"waiting", "blocking"} /\ at["main"] = "idle"
    /\ \E a \in shutdown :
          /\ \A b \in shutdown : home[a] <= home[b]
          /\ Finished(a)
          /\ session_ended(a)
          /\ shutdown' = shutdown \ {a}
    /\ UNCHANGED << connects, user, appstate, slot, build, exists, registered, pages, actor, pump,
                    carried, finish, closers >>

Exit ==
    /\ quitting \in {"waiting", "blocking"} /\ at["main"] = "idle" /\ shutdown = {}
    /\ quitting' = "exited"
    /\ UNCHANGED << connects, user, window_profiles, closing, slot, build, platform, pages, actor,
                    pumps, finish, ended, closers, shutdown >>

-----------------------------------------------------------------------------

Init ==
    /\ saved = Profiles /\ wanted = {} /\ toggles = 0
    /\ window_profiles = [w \in Windows |-> NoProfile] /\ closing = {} /\ quitting = "no"
    /\ at = [t \in Connectors |-> IF t = "auto" /\ Autoconnect # NoProfile THEN "plan" ELSE "idle"]
    /\ choice = [t \in Connectors |-> NoProfile]
    /\ opener = [w \in Windows |-> "main"]
    /\ slot = [w \in Windows |-> NoSlot]
    /\ builder = [w \in Windows |-> "none"]
    /\ target = [w \in Windows |-> NoProfile]
    /\ building = [w \in Windows |-> NoActor]
    /\ exists = [w \in Windows |-> "no"]
    /\ registered = [w \in Windows |-> FALSE]
    /\ render = [w \in Windows |-> NoActor]
    /\ link = [w \in Windows |-> NoActor]
    /\ listens = [w \in Windows |-> FALSE]
    /\ page = [w \in Windows |-> Blank]
    /\ home = [a \in Actors |-> 0]
    /\ life = [a \in Actors |-> "none"]
    /\ events = [a \in Actors |-> << >>]
    /\ emitted = [a \in Actors |-> 0]
    /\ pump = [a \in Actors |-> "none"]
    /\ carried = [a \in Actors |-> NewView]
    /\ aborted = [a \in Actors |-> FALSE]
    /\ finish = [a \in Actors |-> "none"]
    /\ ended = [a \in Actors |-> 0]
    /\ closer = [w \in Windows |-> "none"]
    /\ held = [w \in Windows |-> NoActor]
    /\ shutdown = {}

ConnectSteps(t) == (\E p \in Profiles : ConnectPlan(t, p)) \/ ConnectWindow(t) \/ ConnectOpen(t)

UserSteps ==
    \/ \E p \in Profiles : Delete(p)
    \/ \E w \in Windows : Reconnect(w) \/ toggle_stats(w) \/ answer_certificate(w) \/ Close(w)
    \/ Quit \/ DockQuit

BuilderSteps(w) ==
    \/ BuildWindow(w) \/ PrepareWindow(w) \/ CreateRenderSink(w) \/ AttachSession(w)
    \/ InsertSlot(w) \/ ShowWindow(w) \/ BuildFails(w) \/ DiscardClose(w) \/ DiscardWindow(w)

PumpSteps(a) == PumpRecv(a) \/ PumpDeliver(a) \/ PumpEnd(a) \/ PumpRelease(a) \/ PumpStops(a)

CloserSteps(w) == DestroyClosed(w) \/ ForgetClosed(w)

Next ==
    \/ \E t \in Connectors : ConnectSteps(t)
    \/ UserSteps
    \/ \E w \in Windows : BuilderSteps(w) \/ CloserSteps(w) \/ PageListens(w)
    \/ \E a \in Actors : ActorEmits(a) \/ ActorExits(a) \/ PumpSteps(a) \/ CloseFinishes(a)
    \/ ShutdownNext \/ Exit

Spec == Init /\ [][Next]_vars

\* The threads and tasks run; the actors may hang and the user may do nothing.  What waits for
\* the main thread gets its turn there, however often the user connects: the closures of on_main
\* and the user's events are one queue.
FairSpec ==
    /\ Spec
    /\ \A t \in Connectors : WF_vars(ConnectWindow(t) \/ ConnectOpen(t))
    /\ \A w \in Windows : SF_vars(BuilderSteps(w)) /\ SF_vars(CloserSteps(w))
    /\ \A a \in Actors : SF_vars(PumpSteps(a)) /\ SF_vars(CloseFinishes(a))
    /\ SF_vars(ShutdownNext) /\ SF_vars(Exit)

-----------------------------------------------------------------------------
(* Properties.                                                               *)

BuilderStates == {"none", "build", "prepare", "open", "attach", "insert", "show", "discard",
                  "discarding", "done"}

UserTypes == saved \subseteq Profiles /\ wanted \subseteq Profiles /\ toggles \in Nat

AppTypes ==
    /\ window_profiles \in [Windows -> Profiles \cup {NoProfile}]
    /\ closing \subseteq Windows /\ quitting \in {"no", "waiting", "blocking", "exited"}

ConnectTypes ==
    /\ at \in [Connectors -> {"idle", "plan", "windows", "open"}]
    /\ choice \in [Connectors -> Profiles \cup {NoProfile}]
    /\ opener \in [Windows -> Connectors]

SlotTypes ==
    slot \in [Windows -> [profile : Profiles \cup {NoProfile}, view : View,
                          live : Actors \cup {NoActor}]]

BuildTypes ==
    /\ builder \in [Windows -> BuilderStates]
    /\ target \in [Windows -> Profiles \cup {NoProfile}]
    /\ building \in [Windows -> Actors \cup {NoActor}]

PlatformTypes ==
    /\ exists \in [Windows -> {"no", "hidden", "shown"}] /\ registered \in [Windows -> BOOLEAN]
    /\ render \in [Windows -> Actors \cup {NoActor}] /\ link \in [Windows -> Actors \cup {NoActor}]

PageTypes == listens \in [Windows -> BOOLEAN] /\ page \in [Windows -> View \cup {Blank}]

ActorTypes ==
    /\ home \in [Actors -> Windows \cup {0}]
    /\ life \in [Actors -> {"none", "running", "told", "exited"}]
    /\ events \in [Actors -> Seq(SessionEvent)] /\ emitted \in [Actors -> Nat]

PumpTypes ==
    /\ pump \in [Actors -> {"none", "recv", "deliver", "release", "done"}]
    /\ carried \in [Actors -> View] /\ aborted \in [Actors -> BOOLEAN]

CloseTypes ==
    /\ finish \in [Actors -> {"none", "wait", "over"}] /\ ended \in [Actors -> Nat]
    /\ closer \in [Windows -> {"none", "wait", "forget", "done"}]
    /\ held \in [Windows -> Actors \cup {NoActor}] /\ shutdown \subseteq Actors

\* Every variable has its type.
ManagerTypeOK ==
    /\ UserTypes /\ AppTypes /\ ConnectTypes /\ SlotTypes /\ BuildTypes /\ PlatformTypes
    /\ PageTypes /\ ActorTypes /\ PumpTypes /\ CloseTypes

\* Nobody is going to release session a any more.
Settled(a) == pump[a] = "done" /\ finish[a] # "wait" /\ a \notin shutdown

\* session_ended runs exactly once for every started session (the contract of
\* SessionHost::session_ended), whether its actor exits, it is closed, replaced or abandoned at
\* the cap, however its pump races them.
EndedExactlyOnce ==
    \A a \in Actors : ended[a] <= 1 /\ (Settled(a) => ended[a] = 1)

\* The user's connects never give a profile two sessions that have not been told to close, though
\* a window is built on a thread of its own and connect_profile looks for the profile's session,
\* then for its window, and registers a new one last.  The connect of the autoconnect thread is
\* the one that may meet them (NeverASecondSession).
OneSessionPerProfile ==
    \A a, b \in {x \in Actors : life[x] = "running"} :
        target[home[a]] = target[home[b]] /\ opener[home[a]] = opener[home[b]] => a = b

\* The live session of a shown window has the window's render thread and its handle: releasing
\* an earlier session never takes them away (SessionManager::open).
LiveKeepsItsResources ==
    \A w \in Windows :
        exists[w] = "shown" /\ slot[w].live # NoActor =>
            render[w] = slot[w].live /\ link[w] = slot[w].live

\* No view is on its way to the page of window w.
Quiet(w) == \A a \in Actors : home[a] = w => pump[a] # "deliver"

\* A page that has been sent anything shows the manager's view of the window whenever no pump
\* is about to send it another one (pump and answer_certificate both emit what they stored).
ShownIsCurrent ==
    \A w \in Windows :
        HasSlot(w) /\ Quiet(w) /\ page[w] # Blank /\ slot[w].view # NewView =>
            page[w] = slot[w].view

\* A window that is gone, with its builder and its closer finished, leaves no record in the
\* manager and no session that was never told to close (discard_window, close_session_window).
\* It supposes that the profile is not deleted while its window is being built: delete_profile
\* closes a window whose session the builder has started but not recorded yet, and misses it.
NoOrphanSession ==
    \A w \in Windows :
        builder[w] = "done" /\ exists[w] = "no" /\ closer[w] \in {"none", "done"} =>
            /\ ~ HasSlot(w)
            /\ \A a \in Actors : home[a] = w => life[a] # "running"

\* Windows and sessions own each other: a live session has its window's render thread and
\* handle (SessionManager::open), and no session is left without a window (discard_window).
ResourcesMatchSessions == LiveKeepsItsResources /\ NoOrphanSession

\* A window that begins to close is destroyed and forgotten, even when its actor never exits
\* (close_session_window; CLOSE_CAP).
CloseCompletes ==
    \A w \in Windows :
        w \in closing ~> (w \notin closing /\ exists[w] = "no") \/ quitting # "no"

\* A quit exits the app, even when an actor never exits and the main thread itself waits while
\* pumps wait for it (shutdown, shutdown_blocking; CLOSE_CAP).
QuitCompletes == quitting # "no" ~> quitting = "exited"

-----------------------------------------------------------------------------
(* What comments say of the code and the code does not do.                   *)

\* manager.rs, connect_plan: "a profile never gets a second session".  Violated: the autoconnect
\* thread and the main thread both look for the profile's window before either registers one.
NeverASecondSession ==
    \A a, b \in {x \in Actors : life[x] = "running"} :
        target[home[a]] = target[home[b]] => a = b

\* manager.rs, toggle_stats: "the choice is per window and survives session events".  Violated: a
\* pump that stored its view before the toggle hands it to the page after it.
ToggleSurvives ==
    \A w \in Windows :
        HasSlot(w) /\ Quiet(w) /\ page[w] # Blank /\ slot[w].view # NewView =>
            page[w].show_stats = slot[w].view.show_stats

\* view.rs: the view of a window is emitted to its page, which "only switches on screen and
\* renders".  Violated: a view emitted before the page has subscribed is lost, and the page never
\* asks for it.
PageShowsView ==
    \A w \in Windows :
        listens[w] /\ HasSlot(w) /\ Quiet(w) /\ slot[w].view # NewView => page[w] = slot[w].view

\* windows.rs, connect_profile: the profile's window is brought forward, "otherwise a new window
\* is opened".  Violated: while its window is closing, a connect only brings that one forward.
ConnectGetsWindow ==
    (\A w \in Windows : builder[w] \in {"none", "done"} /\ w \notin closing)
    /\ (\A t \in Connectors : at[t] = "idle") =>
        \A p \in wanted : window_of_profile(p) # {}
=============================================================================
