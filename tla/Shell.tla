-------------------------------- MODULE Shell --------------------------------
(***************************************************************************)
(* What surrounds the session windows (src-tauri windows.rs, present.rs,   *)
(* menu.rs, connections.rs): the menu bar, the gallery of open             *)
(* connections, each window's title bar and keyboard owner, and the        *)
(* sampling of previews.  All of it changes on the main thread only, in    *)
(* closures that event pumps, window builders and closers queue there and  *)
(* wait for, or that the main thread defers to itself; all of it is        *)
(* recomputed from what the manager says when the closure runs, and        *)
(* nothing but the closures keeps it current.                              *)
(***************************************************************************)
EXTENDS Naturals, Sequences, FiniteSets

CONSTANTS
  ShellWindows,  \* session windows, numbered in opening order
  ShellScreens,  \* screens the actors report
  Unset,         \* no slot, no identity, no key window
  MaxReports,    \* bound on what the actors report
  MaxClicks,     \* bound on what the user does
  MaxPending     \* bound on the closures queued before more happens

ASSUME ShellAssumption ==
  /\ ShellWindows \subseteq Nat \ {0}
  /\ Unset \notin [screen : ShellScreens \cup {"Profiles"}, show_stats : BOOLEAN, stats : BOOLEAN]

CONNECTIONS_WINDOW == 0   \* the Connections window, numbered apart

VARIABLES
  slots,      \* SessionManager: the view of each window's session, or Unset
  acting,     \* windows whose session actor runs
  stage,      \* of each window: "new", "starting", "shown", "closing", "gone"
  building,   \* windows whose builder has yet to show them
  closer,     \* closures the window's closing task has yet to queue
  mainq,      \* closures queued for the main thread
  keyed,      \* the key window: a session window, CONNECTIONS_WINDOW or Unset
  sheets,     \* windows with a confirmation sheet
  surface,    \* WindowPlatform.surface
  responder,  \* who has the keyboard in each window: "Page", "Remote", "Titlebar"
  identity,   \* WindowPlatform.identity, as the title bar shows it
  menu,       \* Shell.menu, as the menu bar shows it
  gallery,    \* Shell.connections, as the Connections page shows it
  alive,      \* Shell.live
  throttle,   \* ThumbnailThrottle: visible, and the windows sampled less than an interval ago
  reports, clicks   \* what has happened, for the bounds

managerSide == <<slots, acting, stage, building, closer>>
windowSide == <<surface, responder, identity>>
shellSide == <<menu, gallery, alive, throttle>>
shellVars == <<managerSide, mainq, keyed, sheets, windowSide, shellSide, reports, clicks>>

-----------------------------------------------------------------------------
(* present.rs: what a window shows of a view. *)
Fresh == [screen |-> "Profiles", show_stats |-> FALSE, stats |-> FALSE]

hud_for(view) ==
  CASE view.screen = "GreeterHint" -> "Banner"
    [] view.screen = "Live" /\ view.show_stats /\ view.stats -> "Stats"
    [] OTHER -> Unset

surface_for(view) ==
  CASE hud_for(view) # Unset -> hud_for(view)
    [] view.screen \in {"Live", "GreeterHint"} -> "Remote"
    [] view.screen = "Reconnecting" -> "Overlay"
    [] OTHER -> "Webview"

focus_for(front) == IF front \in {"Webview", "Overlay"} THEN "Page" ELSE "Remote"

status_for(view) ==
  CASE view.screen \in {"Live", "GreeterHint"} -> "Live"
    [] view.screen = "Reconnecting" -> "Reconnecting"
    [] view.screen = "Error" -> "Failed"
    [] OTHER -> "Connecting"

status_glyph(view) == IF view.screen = "GreeterHint" THEN "Greeter" ELSE status_for(view)

IdentityOf(view) ==
  [status |-> status_for(view), hint |-> view.screen = "GreeterHint", show_stats |-> view.show_stats]

close_needs_confirmation(view) == view.screen \in {"Live", "GreeterHint", "Reconnecting"}

(* SessionManager::sessions: the session windows in opening order. *)
Listed(table) == {w \in ShellWindows : table[w] # Unset}
sessions(table) ==
  [n \in 1 .. Cardinality(Listed(table)) |->
     CHOOSE w \in Listed(table) : Cardinality({v \in Listed(table) : v <= w}) = n]

(* A window is named by its number; an item stands for its glyph and name. *)
session_item(w, view) == [window |-> w, glyph |-> status_glyph(view)]
session_items(table) == [n \in DOMAIN sessions(table) |-> session_item(sessions(table)[n], table[sessions(table)[n]])]

(* menu.rs: the parts of the menu bar that change. *)
file_titles(table, key) == IF key \in Listed(table) THEN key ELSE Unset
window_sessions(table, key) ==
  [n \in DOMAIN sessions(table) |->
     [item |-> session_items(table)[n], shortcut |-> n <= 9, checked |-> key = sessions(table)[n]]]
menu_spec(table, key) == [file |-> file_titles(table, key), window |-> window_sessions(table, key)]

open_connection(w, view) == [window |-> w, status |-> status_for(view)]
connections(table) == [n \in DOMAIN sessions(table) |-> open_connection(sessions(table)[n], table[sessions(table)[n]])]

-----------------------------------------------------------------------------
(* The main thread's queue, and what its closures share. *)
Closure(op, w) == [op |-> op, window |-> w, view |-> Unset]
Apply(w, view) == [op |-> "apply", window |-> w, view |-> view]
Queued(op, w) == \E i \in DOMAIN mainq : mainq[i].op = op /\ mainq[i].window = w
Registered(w) == stage[w] \in {"starting", "shown", "closing"}

refresh_menus(table, key) == menu' = menu_spec(table, key)
push_connections(table) == gallery' = connections(table)
refresh_shell(table, key) == push_connections(table) /\ refresh_menus(table, key)

(* The observers of the two windows defer a rebuild of the menus; the second
   would find nothing changed. *)
request_menu_refresh(queue) == Append(queue, Closure("menus", Unset))
KeyMoves(to, queue) == /\ keyed' = to
                       /\ mainq' = IF to = keyed THEN queue ELSE request_menu_refresh(queue)

window_identity(w, table) == IdentityOf(IF table[w] = Unset THEN Fresh ELSE table[w])
push_identity(w, table) == identity' = [identity EXCEPT ![w] = window_identity(w, table)]
focus_surface(w) == responder' = [responder EXCEPT ![w] = focus_for(surface[w])]

(* ThumbnailThrottle::due, for what the manager says is live now. *)
Live(table) == {w \in Listed(table) : status_for(table[w]) = "Live"}
sample_thumbnails(t, table) == IF t.visible THEN [t EXCEPT !.sampled = @ \cup Live(table)] ELSE t
ended(t, w) == [t EXCEPT !.sampled = @ \ {w}]
went_live(t, w) == ended(t, w)
set_visible(t, visible) ==
  [visible |-> visible, sampled |-> IF visible /\ ~t.visible THEN {} ELSE t.sampled]

(* apply_view's closure: the view is the one the caller carries, the menus, the
   gallery and the title bar follow the manager's. *)
apply_view(w, view, table) ==
  IF ~Registered(w) THEN UNCHANGED <<windowSide, shellSide>>
  ELSE LET goes == status_for(view) = "Live" /\ w \notin alive
       IN  /\ surface' = [surface EXCEPT ![w] = surface_for(view)]
           /\ responder' = [responder EXCEPT ![w] = focus_for(surface'[w])]
           /\ alive' = IF status_for(view) = "Live" THEN alive \cup {w} ELSE alive \ {w}
           /\ throttle' = IF goes THEN sample_thumbnails(went_live(throttle, w), table) ELSE throttle
           /\ push_identity(w, table)
           /\ refresh_shell(table, keyed)

-----------------------------------------------------------------------------
(* The closures, first queued first run. *)
Runs(op) == mainq # <<>> /\ Head(mainq).op = op
Ran == mainq' = Tail(mainq)
Target == Head(mainq).window

RunApply ==
  /\ Runs("apply") /\ Ran
  /\ apply_view(Target, Head(mainq).view, slots)
  /\ UNCHANGED <<managerSide, keyed, sheets, reports, clicks>>

(* show_session_window; a window destroyed meanwhile is discarded. *)
RunShow ==
  /\ Runs("show")
  /\ \/ /\ Registered(Target)
        /\ stage' = [stage EXCEPT ![Target] = IF @ = "starting" THEN "shown" ELSE @]
        /\ KeyMoves(Target, Tail(mainq))
        /\ focus_surface(Target)
        /\ push_identity(Target, slots)
        /\ refresh_shell(slots, Target)
     \/ /\ ~Registered(Target)
        /\ mainq' = Append(Tail(mainq), Closure("discard", Target))
        /\ UNCHANGED <<stage, keyed, responder, identity, menu, gallery>>
  /\ UNCHANGED <<slots, acting, building, closer, sheets, surface, alive, throttle, reports, clicks>>

RunDiscard ==
  /\ Runs("discard") /\ Ran
  /\ stage' = [stage EXCEPT ![Target] = "gone"]
  /\ refresh_shell(slots, keyed)
  /\ UNCHANGED <<slots, acting, building, closer, keyed, sheets, windowSide, alive, throttle, reports, clicks>>

(* focus_window. *)
RunFocus ==
  /\ Runs("focus")
  /\ IF Registered(Target)
     THEN KeyMoves(Target, Tail(mainq)) /\ focus_surface(Target)
     ELSE Ran /\ UNCHANGED <<keyed, responder>>
  /\ UNCHANGED <<managerSide, sheets, surface, identity, shellSide, reports, clicks>>

(* focus_content, called by the title bar when it is given the keyboard. *)
RunContent ==
  /\ Runs("content") /\ Ran
  /\ IF Registered(Target) THEN focus_surface(Target) ELSE UNCHANGED responder
  /\ UNCHANGED <<managerSide, keyed, sheets, surface, identity, shellSide, reports, clicks>>

RunMenus ==
  /\ Runs("menus") /\ Ran
  /\ refresh_menus(slots, keyed)
  /\ UNCHANGED <<managerSide, keyed, sheets, windowSide, gallery, alive, throttle, reports, clicks>>

(* request_close asked for a sheet: the sheet takes the key from its window. *)
RunSheet ==
  /\ Runs("sheet")
  /\ IF Registered(Target) /\ Target \notin sheets
     THEN sheets' = sheets \cup {Target} /\ KeyMoves(IF keyed = Target THEN Unset ELSE keyed, Tail(mainq))
     ELSE Ran /\ UNCHANGED <<sheets, keyed>>
  /\ UNCHANGED <<managerSide, windowSide, shellSide, reports, clicks>>

(* show_connections. *)
RunConnections ==
  /\ Runs("connections")
  /\ KeyMoves(CONNECTIONS_WINDOW, Tail(mainq))
  /\ UNCHANGED <<managerSide, sheets, windowSide, shellSide, reports, clicks>>

(* AppKit makes another window key when the key window goes, or none. *)
Successor(from) == {Unset, CONNECTIONS_WINDOW} \cup {w \in ShellWindows \ {from} : stage[w] = "shown"}

(* hide_connections. *)
RunHide ==
  /\ Runs("hide")
  /\ \E to \in Successor(CONNECTIONS_WINDOW) \ {CONNECTIONS_WINDOW} :
       KeyMoves(IF keyed = CONNECTIONS_WINDOW THEN to ELSE keyed, Tail(mainq))
  /\ UNCHANGED <<managerSide, sheets, windowSide, shellSide, reports, clicks>>

RunTick ==
  /\ Runs("tick") /\ Ran
  /\ throttle' = sample_thumbnails(throttle, slots)
  /\ UNCHANGED <<managerSide, keyed, sheets, windowSide, menu, gallery, alive, reports, clicks>>

(* release_session. *)
RunRelease ==
  /\ Runs("release") /\ Ran
  /\ alive' = alive \ {Target}
  /\ throttle' = ended(throttle, Target)
  /\ UNCHANGED <<managerSide, keyed, sheets, windowSide, menu, gallery, reports, clicks>>

(* The end of close_session_window: the window is destroyed; its observer is
   gone by then and asks for no refresh. *)
RunDestroy ==
  /\ Runs("destroy")
  /\ stage' = [stage EXCEPT ![Target] = "gone"]
  /\ alive' = alive \ {Target}
  /\ throttle' = ended(throttle, Target)
  /\ sheets' = sheets \ {Target}
  /\ IF keyed = Target
     THEN \E to \in Successor(Target) :
            keyed' = to /\ mainq' = IF to = Unset THEN Tail(mainq) ELSE request_menu_refresh(Tail(mainq))
     ELSE Ran /\ UNCHANGED keyed
  /\ UNCHANGED <<slots, acting, building, closer, windowSide, menu, gallery, reports, clicks>>

\* Mutant: once a window is destroyed only the menus are rebuilt.
BugRunRefresh ==
  /\ Runs("refresh") /\ Ran
  /\ refresh_menus(slots, keyed)
  /\ UNCHANGED <<managerSide, keyed, sheets, windowSide, gallery, alive, throttle, reports, clicks>>
RunRefresh ==
  /\ Runs("refresh") /\ Ran
  /\ refresh_shell(slots, keyed)
  /\ UNCHANGED <<managerSide, keyed, sheets, windowSide, alive, throttle, reports, clicks>>

MainThread ==
  \/ RunApply \/ RunShow \/ RunDiscard \/ RunFocus \/ RunContent \/ RunMenus \/ RunSheet
  \/ RunConnections \/ RunHide \/ RunTick \/ RunRelease \/ RunDestroy \/ RunRefresh

-----------------------------------------------------------------------------
(* The other threads.  One that has queued a closure waits for it. *)
Reports == reports < MaxReports /\ Len(mainq) < MaxPending /\ reports' = reports + 1
PumpFree(w) == ~Queued("apply", w) /\ ~Queued("release", w)

(* SessionView::apply, for a state and for a statistics sample. *)
Folded(view, screen) ==
  [view EXCEPT !.screen = screen, !.stats = @ /\ screen \in {"Live", "GreeterHint"}]

PumpReports(w, view) ==
  /\ Reports
  /\ w \in acting /\ PumpFree(w)
  /\ view # slots[w]
  /\ slots' = [slots EXCEPT ![w] = view]
  /\ mainq' = Append(mainq, Apply(w, view))
  /\ UNCHANGED <<acting, stage, building, closer, keyed, sheets, windowSide, shellSide, clicks>>
PumpState(w, screen) == w \in acting /\ slots[w].screen # "Error" /\ PumpReports(w, Folded(slots[w], screen))
PumpStats(w) == w \in acting /\ slots[w].screen = "Live" /\ PumpReports(w, [slots[w] EXCEPT !.stats = TRUE])

(* The actor has reported why and exits: the window keeps its view. *)
PumpEnds(w) ==
  /\ w \in acting /\ slots[w].screen = "Error" /\ PumpFree(w)
  /\ acting' = acting \ {w}
  /\ mainq' = Append(mainq, Closure("release", w))
  /\ UNCHANGED <<slots, stage, building, closer, keyed, sheets, windowSide, shellSide, reports, clicks>>

(* build_session_window, once the session has started. *)
BuilderShows(w) ==
  /\ w \in building
  /\ building' = building \ {w}
  /\ mainq' = Append(mainq, Closure("show", w))
  /\ UNCHANGED <<slots, acting, stage, closer, keyed, sheets, windowSide, shellSide, reports, clicks>>

(* close_session_window's task: each closure waits for the one before. *)
CloserContinues(w) ==
  /\ closer[w] # <<>> /\ \A op \in {"release", "destroy"} : ~Queued(op, w)
  /\ mainq' = Append(mainq, Closure(Head(closer[w]), w))
  /\ closer' = [closer EXCEPT ![w] = Tail(@)]
  /\ UNCHANGED <<slots, acting, stage, building, keyed, sheets, windowSide, shellSide, reports, clicks>>

(* start_thumbnails: a second in which the interval of a window ran out. *)
IntervalEnds(w) ==
  /\ Reports
  /\ w \in throttle.sampled
  /\ throttle' = ended(throttle, w)
  /\ mainq' = Append(mainq, Closure("tick", Unset))
  /\ UNCHANGED <<managerSide, keyed, sheets, windowSide, menu, gallery, alive, clicks>>

(* The window server covers or uncovers the Connections window. *)
connections_visible(visible) ==
  /\ Reports
  /\ visible # throttle.visible
  /\ LET t == set_visible(throttle, visible) IN throttle' = IF visible THEN sample_thumbnails(t, slots) ELSE t
  /\ UNCHANGED <<managerSide, mainq, keyed, sheets, windowSide, menu, gallery, alive, clicks>>

OtherThreads ==
  \/ \E w \in ShellWindows : \/ \E screen \in ShellScreens : PumpState(w, screen)
                             \/ PumpStats(w) \/ PumpEnds(w) \/ BuilderShows(w) \/ CloserContinues(w) \/ IntervalEnds(w)
  \/ \E visible \in BOOLEAN : connections_visible(visible)

-----------------------------------------------------------------------------
(* The user, on the main thread, between two closures. *)
Clicks == clicks < MaxClicks /\ Len(mainq) < MaxPending /\ clicks' = clicks + 1 /\ UNCHANGED reports
Defer(op, w) == mainq' = Append(mainq, Closure(op, w))

(* connect_profile: a new window is built and its session started before it is
   shown; or that fails. *)
OpenWindow(w) ==
  /\ Clicks
  /\ stage[w] = "new" /\ \A v \in ShellWindows : v < w => stage[v] # "new"
  /\ \/ /\ slots' = [slots EXCEPT ![w] = Fresh] /\ acting' = acting \cup {w}
        /\ building' = building \cup {w} /\ UNCHANGED mainq
     \/ /\ Defer("discard", w)
        /\ UNCHANGED <<slots, acting, building>>
  /\ stage' = [stage EXCEPT ![w] = "starting"]
  /\ UNCHANGED <<closer, keyed, sheets, windowSide, shellSide>>

(* A click in another window, or in another application. *)
MakeKey(to) ==
  /\ Clicks
  /\ to # keyed /\ to \in Successor(Unset) /\ keyed \notin sheets /\ to \notin sheets
  /\ KeyMoves(to, mainq)
  /\ UNCHANGED <<managerSide, sheets, windowSide, shellSide>>

(* close_session_window: the manager forgets the session at once. *)
close_session_window(w) ==
  /\ stage[w] \in {"starting", "shown"}
  /\ stage' = [stage EXCEPT ![w] = "closing"]
  /\ slots' = [slots EXCEPT ![w] = Unset]
  /\ acting' = acting \ {w}
  /\ closer' = [closer EXCEPT ![w] = IF w \in acting THEN <<"release", "destroy", "refresh">> ELSE <<"destroy", "refresh">>]
  /\ UNCHANGED building

(* run_menu_action Disconnect. *)
Disconnect ==
  /\ Clicks
  /\ keyed \in ShellWindows /\ close_session_window(keyed)
  /\ UNCHANGED <<mainq, keyed, sheets, windowSide, shellSide>>

(* delete_profile: its window is closed, shown or not. *)
DeletePicked(w) ==
  /\ Clicks
  /\ slots[w] # Unset /\ close_session_window(w)
  /\ UNCHANGED <<mainq, keyed, sheets, windowSide, shellSide>>

(* request_close: the red button, or File > Close Window. *)
request_close(w) ==
  /\ Clicks
  /\ stage[w] \in {"shown", "closing"} /\ w \notin sheets
  /\ IF slots[w] # Unset /\ close_needs_confirmation(slots[w])
     THEN Defer("sheet", w) /\ UNCHANGED managerSide
     ELSE close_session_window(w) /\ UNCHANGED mainq
  /\ UNCHANGED <<keyed, sheets, windowSide, shellSide>>

HideConnections ==
  /\ Clicks
  /\ keyed = CONNECTIONS_WINDOW
  /\ Defer("hide", CONNECTIONS_WINDOW)
  /\ UNCHANGED <<managerSide, keyed, sheets, windowSide, shellSide>>

(* The sheet is answered, and its window becomes key. *)
AnswerSheet(w, confirmed) ==
  /\ Clicks
  /\ w \in sheets
  /\ sheets' = sheets \ {w}
  /\ KeyMoves(w, mainq)
  /\ IF confirmed /\ stage[w] = "shown" THEN close_session_window(w) ELSE UNCHANGED managerSide
  /\ UNCHANGED <<windowSide, shellSide>>

ToggleStats ==
  /\ Clicks
  /\ keyed \in Listed(slots)
  /\ slots' = [slots EXCEPT ![keyed].show_stats = ~@]
  /\ apply_view(keyed, slots'[keyed], slots')
  /\ UNCHANGED <<acting, stage, building, closer, mainq, keyed, sheets>>

(* reconnect with no actor left: the session starts again in its window.  The
   actor reports Connecting first of all. *)
Reopen ==
  /\ Clicks
  /\ keyed \in Listed(slots) \ acting
  /\ slots' = [slots EXCEPT ![keyed] = Fresh]
  /\ acting' = acting \cup {keyed}
  /\ UNCHANGED <<stage, building, closer, mainq, keyed, sheets, windowSide, shellSide>>

(* Window > Sessions, Cmd+1 to Cmd+9: the n-th session of now. *)
SelectSession(n) ==
  /\ Clicks
  /\ n \in DOMAIN menu.window
  /\ IF n \in DOMAIN sessions(slots) THEN Defer("focus", sessions(slots)[n]) ELSE UNCHANGED mainq
  /\ UNCHANGED <<managerSide, keyed, sheets, windowSide, shellSide>>

(* The Dock menu is drawn up when it opens; a window chosen from it may have
   gone since. *)
ChooseFromDock(w) ==
  /\ Clicks
  /\ stage[w] \notin {"new", "starting"}
  /\ Defer("focus", w)
  /\ UNCHANGED <<managerSide, keyed, sheets, windowSide, shellSide>>

ShowConnections ==
  /\ Clicks
  /\ Defer("connections", CONNECTIONS_WINDOW)
  /\ UNCHANGED <<managerSide, keyed, sheets, windowSide, shellSide>>

(* A click in the title bar gives its webview the keyboard. *)
ClickTitlebar(w) ==
  /\ Clicks
  /\ stage[w] = "shown" /\ w \notin sheets
  /\ responder' = [responder EXCEPT ![w] = "Titlebar"]
  /\ mainq' = Append(IF keyed = w THEN mainq ELSE request_menu_refresh(mainq), Closure("content", w))
  /\ keyed' = w
  /\ UNCHANGED <<managerSide, sheets, surface, identity, shellSide>>

User ==
  \/ \E w \in ShellWindows : \/ OpenWindow(w) \/ DeletePicked(w) \/ request_close(w) \/ ClickTitlebar(w)
                             \/ SelectSession(w) \/ ChooseFromDock(w)
                             \/ \E confirmed \in BOOLEAN : AnswerSheet(w, confirmed)
  \/ \E to \in ShellWindows \cup {CONNECTIONS_WINDOW, Unset} : MakeKey(to)
  \/ Disconnect \/ HideConnections \/ ToggleStats \/ Reopen \/ ShowConnections

(* The app at rest, with no window yet or with some already open. *)
ShellInit ==
  /\ slots \in [ShellWindows -> {Unset} \cup {[Fresh EXCEPT !.screen = screen] : screen \in ShellScreens}]
  /\ \A v, w \in ShellWindows : v < w /\ slots[w] # Unset => slots[v] # Unset
  /\ acting = {w \in Listed(slots) : slots[w].screen # "Error"}
  /\ stage = [w \in ShellWindows |-> IF slots[w] = Unset THEN "new" ELSE "shown"]
  /\ building = {} /\ closer = [w \in ShellWindows |-> <<>>]
  /\ mainq = <<>> /\ keyed \in {CONNECTIONS_WINDOW} \cup Listed(slots) /\ sheets = {}
  /\ surface = [w \in ShellWindows |-> IF slots[w] = Unset THEN "Webview" ELSE surface_for(slots[w])]
  /\ responder = [w \in ShellWindows |-> focus_for(surface[w])]
  /\ identity = [w \in ShellWindows |-> IF slots[w] = Unset THEN Unset ELSE IdentityOf(slots[w])]
  /\ menu = menu_spec(slots, keyed) /\ gallery = connections(slots)
  /\ alive = Live(slots)
  /\ throttle \in {[visible |-> TRUE, sampled |-> alive], [visible |-> FALSE, sampled |-> {}]}
  /\ reports = 0 /\ clicks = 0

ShellNext == MainThread \/ OtherThreads \/ User

ShellSpec == ShellInit /\ [][ShellNext]_shellVars

-----------------------------------------------------------------------------
(* Nothing is on its way: no closure queued, no window being built or closed,
   and every started session has reported. *)
Settled ==
  /\ mainq = <<>> /\ building = {}
  /\ \A w \in ShellWindows : /\ closer[w] = <<>> /\ stage[w] # "starting"
                             /\ slots[w] # Unset => slots[w].screen # "Profiles"

(* Whatever the order in which reports, clicks, closes and key changes met on
   the main thread, once it is idle everything around the windows agrees with
   the sessions: the menu bar and its check mark, the gallery, each window's
   title bar and the owner of its keyboard, the set of live windows, and every
   live session of a visible gallery has been sampled for its preview. *)
ShellIsCurrent ==
  Settled =>
    /\ menu = menu_spec(slots, keyed)
    /\ gallery = connections(slots)
    /\ \A w \in Listed(slots) : /\ identity[w] = IdentityOf(slots[w])
                              /\ responder[w] = focus_for(surface_for(slots[w]))
    /\ alive = Live(slots)
    /\ throttle.visible => alive \subseteq throttle.sampled
=============================================================================
