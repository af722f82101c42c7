------------------------------ MODULE LegTimers ------------------------------
(* What the actor's tick does on a live leg besides clipboard and statistics:
   the Display Control resize driver and the greeter typist of drift-rdp, across
   legs that start, are redirected and end. *)
EXTENDS PixelMath
CONSTANTS RESIZE_DEBOUNCE, TYPE_DELAY, \* in units of time
          Views,      \* view geometries the window may report
          Profiles,   \* connection profiles: mode, adaptive, retina, password
          Areas,      \* areas a server's Display Control capabilities may allow
          MaxClock    \* bound on the clock
Mode == {"RemoteLogin", "Headless", "DesktopSharing"}
ASSUME LegAssumption ==
    /\ RESIZE_DEBOUNCE \in Nat \ {0} /\ TYPE_DELAY \in Nat \ {0} /\ MaxClock \in Nat
    /\ Profiles \subseteq [mode : Mode, adaptive : BOOLEAN, retina : BOOLEAN, password : BOOLEAN]
    /\ \A v \in Views : {v.width, v.height} \subseteq Int /\ v.hidpi \in BOOLEAN
    /\ Areas \subseteq Nat
VARIABLES clock,     \* the injected Clock
          profile,   \* mode, display preferences and whether a Linux password is stored
          stage,     \* "down", "connecting", "greeter" or "desktop"
          legNumber, \* 1, or 2 after the redirect of Remote Login
          resize,    \* ResizeDriver: geometry, caps, current, due
          asked,     \* layout of the connection request
          display,   \* layout the server displays
          unsent,    \* whether the layout the driver took for the server's was never encoded
          typist,    \* GreeterTypist: armed, due
          lastChange,\* when the view's geometry last changed
          clicked,   \* when the first click of this leg was released
          typed      \* times the password was typed on this leg
timerVars == <<clock, profile, stage, legNumber, resize, asked, display, unsent, typist, lastChange, clicked, typed>>

Unset == [unset |-> TRUE]
NoTime == MaxClock + TYPE_DELAY + RESIZE_DEBOUNCE
Live == stage \in {"greeter", "desktop"}
DEFAULT_AREA == MAX_MONITOR_DIMENSION * MAX_MONITOR_DIMENSION
DefaultDesktop == [width |-> even(MAX_MONITOR_DIMENSION), height |-> MIN_MONITOR_DIMENSION,
                   desktop_scale_factor |-> 100, device_scale_factor |-> device_scale_for(100)]

--------------------------------------------------------------------------------
(* ResizeDriver *)
mode_has_display_control(mode) == mode # "DesktopSharing"
adaptive == profile.adaptive /\ mode_has_display_control(profile.mode)
Wants == adaptive /\ resize.geometry # Unset
desired == desired_layout(resize.geometry, profile.retina,
                          IF resize.caps = Unset THEN DEFAULT_AREA ELSE resize.caps.max_area)
on_geometry(geometry) ==
    IF resize.geometry = geometry THEN resize
    ELSE [resize EXCEPT !.geometry = geometry, !.due = IF adaptive THEN clock + RESIZE_DEBOUNCE ELSE @]
on_leg_activated(layout) == [resize EXCEPT !.caps = Unset, !.current = layout]
on_display_control_ready(caps) ==
    [resize EXCEPT !.caps = caps, !.due = IF Wants /\ @ = NoTime THEN clock ELSE @]
(* The driver after a poll, and whether a layout goes to the server. *)
\* Mutant: a layout that is due before the capabilities arrive counts as sent.
BugPoll ==
    IF resize.due # NoTime /\ clock < resize.due THEN [driver |-> resize, layout |-> FALSE]
    ELSE IF resize.caps = Unset
    THEN [driver |-> [resize EXCEPT !.due = NoTime, !.current = IF Wants THEN desired ELSE @], layout |-> FALSE]
    ELSE IF ~Wants \/ resize.current = desired THEN [driver |-> [resize EXCEPT !.due = NoTime], layout |-> FALSE]
    ELSE [driver |-> [resize EXCEPT !.due = NoTime, !.current = desired], layout |-> TRUE]
poll ==
    IF (resize.due # NoTime /\ clock < resize.due) \/ resize.caps = Unset
    THEN [driver |-> resize, layout |-> FALSE]
    ELSE IF ~Wants \/ resize.current = desired THEN [driver |-> [resize EXCEPT !.due = NoTime], layout |-> FALSE]
    ELSE [driver |-> [resize EXCEPT !.due = NoTime, !.current = desired], layout |-> TRUE]

(* GreeterTypist *)
disarm == [armed |-> FALSE, due |-> NoTime]
on_greeter == [armed |-> profile.password, due |-> NoTime]
on_input == IF typist.armed /\ typist.due = NoTime THEN [typist EXCEPT !.due = clock + TYPE_DELAY] ELSE typist
Types == typist.armed /\ typist.due # NoTime /\ clock >= typist.due

--------------------------------------------------------------------------------
LegInit ==
    /\ clock = 0
    /\ profile \in Profiles
    /\ stage = "down" /\ legNumber = 1
    /\ resize = [geometry |-> Unset, caps |-> Unset, current |-> Unset, due |-> NoTime]
    /\ asked = DefaultDesktop /\ display = DefaultDesktop /\ unsent = FALSE
    /\ typist = disarm
    /\ lastChange = NoTime /\ clicked = NoTime /\ typed = 0

(* SessionCommand::Resize, read on a live leg or remembered while disconnected. *)
ViewResized(geometry) ==
    /\ stage # "connecting"
    /\ resize' = on_geometry(geometry)
    /\ lastChange' = IF resize.geometry = geometry THEN lastChange ELSE clock
    /\ UNCHANGED <<clock, profile, stage, legNumber, asked, display, typist, clicked, typed, unsent>>
(* first_leg, and the request of the redirect's second leg. *)
Request(number) ==
    /\ stage' = "connecting" /\ legNumber' = number
    /\ asked' = IF Wants THEN desired ELSE DefaultDesktop
    /\ UNCHANGED <<clock, profile, resize, display, typist, lastChange, clicked, typed, unsent>>
ConnectLeg == stage = "down" /\ Request(1)
FollowRedirect == stage = "greeter" /\ Request(2)
ConnectFailed ==
    /\ stage = "connecting" /\ stage' = "down"
    /\ UNCHANGED <<clock, profile, legNumber, resize, asked, display, typist, lastChange, clicked, typed, unsent>>
(* on_activated: the server grants the size asked for or its own; the scale is
   the one asked for. Only leg 1 of Remote Login shows the greeter. *)
\* Mutant: only a new greeter resets the typist.
BugActivateLeg(granted) ==
    /\ stage = "connecting"
    /\ stage' = IF profile.mode = "RemoteLogin" /\ legNumber = 1 THEN "greeter" ELSE "desktop"
    /\ display' = [asked EXCEPT !.width = granted.width, !.height = granted.height]
    /\ resize' = on_leg_activated(display')
    /\ typist' = IF stage' = "greeter" THEN on_greeter ELSE typist
    /\ clicked' = NoTime /\ typed' = 0 /\ unsent' = FALSE
    /\ UNCHANGED <<clock, profile, legNumber, asked, lastChange>>
ActivateLeg(granted) ==
    /\ stage = "connecting"
    /\ stage' = IF profile.mode = "RemoteLogin" /\ legNumber = 1 THEN "greeter" ELSE "desktop"
    /\ display' = [asked EXCEPT !.width = granted.width, !.height = granted.height]
    /\ resize' = on_leg_activated(display')
    /\ typist' = IF stage' = "greeter" THEN on_greeter ELSE disarm
    /\ clicked' = NoTime /\ typed' = 0 /\ unsent' = FALSE
    /\ UNCHANGED <<clock, profile, legNumber, asked, lastChange>>
(* The channel's callback leaves the capabilities for after_channel_io. *)
DisplayControlReady(area) ==
    /\ Live /\ mode_has_display_control(profile.mode)
    /\ resize' = on_display_control_ready([max_area |-> area])
    /\ UNCHANGED <<clock, profile, stage, legNumber, asked, display, typist, lastChange, clicked, typed, unsent>>
(* The release of a left click, on its way to the remote. *)
ClickReleased ==
    /\ Live
    /\ typist' = on_input
    /\ clicked' = IF clicked = NoTime THEN clock ELSE clicked
    /\ UNCHANGED <<clock, profile, stage, legNumber, resize, asked, display, lastChange, typed, unsent>>
(* on_tick: the driver has taken its layout for the server's before encode_resize may
   find the channel gone or refuse to encode it, and nothing is sent. *)
OnTick(encoded) ==
    /\ Live
    /\ resize' = poll.driver
    /\ display' = IF poll.layout /\ encoded THEN resize'.current ELSE display
    /\ unsent' = IF poll.layout THEN ~encoded ELSE unsent
    /\ typist' = IF Types THEN disarm ELSE typist
    /\ typed' = IF Types THEN typed + 1 ELSE typed
    /\ UNCHANGED <<clock, profile, stage, legNumber, asked, lastChange, clicked>>
(* A write that fails ends the leg before the typist is polled. *)
OnTickWriteFails ==
    /\ Live /\ poll.layout
    /\ resize' = poll.driver
    /\ stage' = "down"
    /\ UNCHANGED <<clock, profile, legNumber, asked, display, typist, lastChange, clicked, typed, unsent>>
LegDies ==
    /\ Live /\ stage' = "down"
    /\ UNCHANGED <<clock, profile, legNumber, resize, asked, display, typist, lastChange, clicked, typed, unsent>>
ClockTicks ==
    /\ clock < MaxClock /\ clock' = clock + 1
    /\ UNCHANGED <<profile, stage, legNumber, resize, asked, display, typist, lastChange, clicked, typed, unsent>>

LegNext ==
    \/ \E geometry \in Views : ViewResized(geometry)
    \/ ConnectLeg \/ FollowRedirect \/ ConnectFailed
    \/ \E granted \in {asked, DefaultDesktop} : ActivateLeg(granted)
    \/ \E area \in Areas : DisplayControlReady(area)
    \/ ClickReleased \/ (\E encoded \in BOOLEAN : OnTick(encoded)) \/ OnTickWriteFails \/ LegDies \/ ClockTicks
LegSpec == LegInit /\ [][LegNext]_timerVars

--------------------------------------------------------------------------------
(* Once the channel is ready and no debounce runs, the server has the layout of
   the view's last geometry, however geometry changes, capabilities, redirects
   and reconnects were ordered. Only a layout that could not be encoded is not
   made up for: the driver holds it for sent until the geometry changes again. *)
Settled == Live /\ resize.caps # Unset /\ resize.due = NoTime /\ Wants /\ ~unsent
ShowsTheLastGeometry == Settled => display = desired
(* And that layout is within that server's own area cap, if any layout is. *)
FitsTheServer ==
    Settled => \/ display.width * display.height <= resize.caps.max_area
               \/ resize.caps.max_area < MIN_MONITOR_DIMENSION * MIN_MONITOR_DIMENSION
LayoutSettles == ShowsTheLastGeometry /\ FitsTheServer
(* A burst of geometry changes makes one layout: none is sent within the
   debounce of the last change, not even to catch up with a new channel. *)
BurstIsOneLayout ==
    [][Live /\ Live' /\ display' # display
          => clock >= lastChange + RESIZE_DEBOUNCE]_timerVars
(* The Linux password is typed at most once on a leg, only at the greeter, and
   only TYPE_DELAY after a click of that very leg: never into a user session
   that a redirect or a reconnect put in the greeter's place. *)
TypedOnlyAtTheGreeter ==
    [][typed' > typed => /\ stage = "greeter" /\ profile.password /\ typed = 0
                         /\ clicked # NoTime /\ clock >= clicked + TYPE_DELAY]_timerVars
(* The two timers of a live leg, the debounce and the typist's delay, fire when
   they should and never early. *)
TimersFireInTime == BurstIsOneLayout /\ TypedOnlyAtTheGreeter
================================================================================
