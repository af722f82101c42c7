# Drift verification

TLA+ models of Drift, a macOS remote desktop client written in Rust around IronRDP
(`src/crates/drift-*`) with a Tauri shell (`src/src-tauri`) and TypeScript pages (`src/ui`).
The models cover the parts of Drift in which several tasks, threads or machines take steps in an
order nobody wrote (the session actor, reconnection, the clipboard, frames from the wire to the
screen and into a film, the manager of session windows and the shell around it), the state that
must survive crashes (profiles and passwords), and the translations that must not lose anything
(keys, pixels, bit streams, progressive tiles).  TLC checks each of them on small instances; TLAPS
proves most of their safety properties for every value of the constants.

Contents

1. The system and its parts
2. The modules, and how they correspond to the code
3. The runs: what each one checks, with which bounds
4. Fairness
5. What is proved
6. Where code and documentation disagree
7. What is only checked, and what is not modelled
8. Plan


## 1. The system and its parts

    page (WebKit) <-- views --- SessionManager ---- commands ---> session actor ---- RDP ---> server
         |                       |        ^                        |   ^    |
         +--- Tauri commands ----+        +------ events ----------+   |    +-- frames --> render
                                 |            (one pump per session)   |                   thread, GPU
       pasteboard, sleep/wake, network --- session services -----------+------- acks ---------+

| Part | State it keeps | Operations | What is hard | What makes it correct |
|---|---|---|---|---|
| Session actor (`drift-rdp/src/actor.rs`, `session.rs`) | phase, command channel and `closed` watch, View, session pin, activation count | commands, connect, redirect, live leg, backoff, idle | the watch and the queue carry Close separately; commands are read by different loops in different phases, each handling other ones; a live leg's writes have no time limit | Close ends it unless a write never returns; what the app last said about visibility survives; the state shown is the phase it is in |
| Connection phases (`connect.rs`, `redirect.rs`, `rdstls.rs`, `tls.rs`) | leg, certificate expectation, leaf | TCP, TLS, certificate decision, NLA or RDSTLS, activation | three sources of trust over up to 1 + MAX_REDIRECTS legs, answers that are late or for another prompt | credentials only reach a trusted certificate |
| State gate (`drift-core/src/state.rs`) | the SessionState | `allows` | a refused transition is only logged | no transition the actor needs is refused |
| Reconnect policy (`drift-core/src/reconnect.rs`) | attempts, connected_since, network | on_connected, on_disconnect, reset, set_network_reachable | a budget forgiven by age; waiting for a network | budget kept; every wait has something to wait for |
| Clipboard (`drift-clipboard`, `drift-rdp/src/clipboard.rs`) | local copy, pending copy, last list sent, own writes, fetch, request in flight | local change, local written, focus, prefs, remote list, remote data, tick | responses carry no id; echoes in both directions; superseded fetches | the newest local copy is offered, what is written is one announced copy, an unanswered request ends |
| Frame acknowledgement (`drift-gfx/src/ack.rs`, `drift-rdp/src/gfx_ack.rs`, `graphics.rs`, `drift-render/src/thread.rs`) | outbox, in_flight, hidden, suspend_sent, a Notify permit | frame_ended, presented, drain, set_hidden, end_frame, shutdown | actor, render thread and GPU completion handlers share the outbox; legs change while frames are on their way | no lost wake-up, honest queue depth, one ack per presented frame, the server is never throttled for good |
| Session manager and windows (`src-tauri/src/manager.rs`, `windows.rs`, `commands.rs`, `host.rs`, `view.rs`) | slots by window, generations, closing set, PLATFORM's windows | connect, reconnect, answer, close, delete, quit; builder threads, pumps, close tasks | windows are built on threads, events are pumped by tasks, and both need the main thread, which a Dock quit blocks; a connect runs on two threads and takes its locks one by one | a session is released once and only with its own resources; no second session from one thread; close and quit end |
| Triggers and services (`drift-core/src/triggers.rs`, `src-tauri/src/services.rs`) | debounce, online, seeded sessions | sleep, wake, path changes to commands; the pasteboard poll | two observer threads, sends outside the lock, sessions that come and go during a fan-out | no session is left paused while online; every session knows the newest copy |
| Resize driver, layout (`drift-rdp/src/resize.rs`, `drift-core/src/layout.rs`) | last geometry, deadline, capabilities | geometry, caps, leg, timer | any order of four inputs; rounding | the last geometry reaches the server, legal for it |
| Greeter typist (`greeter.rs`) | armed, deadline | typing into the greeter | timers of a live leg | types once, at the greeter |
| Input (`drift-input`, `drift-macos/src/view.rs`, the actor's encoder) | held keys and their holders, modifiers, deferred Command, preferences, what the encoder holds | AppKit callbacks, text, focus, preferences | two Mac keys on one scancode, preference changes while keys are held, legs that drop within a batch | presses and releases alternate, nothing stays down |
| Graphics client, compositor (`drift-gfx`, `drift-render`) | surfaces and cache slots in two books, commands being recorded, pictures held | RDPGFX PDUs, EndFrame, GPU completion | the client's books are ahead of the render thread's, which is ahead of the GPU | every presented picture is the one the PDUs describe |
| Video decoding (`drift-video`) | parameter sets in force, session | access units, rebuild | rebuilds that fail; escaping in byte streams | pictures are decoded with the sets in force; bytes keep their meaning |
| Progressive codec (`drift-codec`) | contexts, tile states, references | payloads of REGIONs of tiles | parallel rounds over taken-out state | same as the sequential decoder |
| Recording (`recording.rs`, `capture.rs`, `encode.rs`, `mp4.rs`) | pool, channel, encoder, writer | start, frame, resize, stop, close | four actors, two bounded resources, joins | frames accounted for, in order; stopping ends |
| Profiles, secrets, frames (`profiles.rs`, `store.rs`, `secrets.rs`, `frames.rs`) | file, memory, keychain, frames | save, delete, duplicate, pin, sheet | a crash or failure between any two steps | saves are atomic, passwords neither lost nor left behind |
| Shell (`menu.rs`, `connections.rs`, `present.rs`, `windows.rs`) | menu, gallery, title bars, keyboard owner, previews sampled | reports, clicks, key changes, closes, deferred refreshes | everything is recomputed later than what changed it | when idle, all of it agrees with the sessions |
| Pages, statistics, test kit, IronRDP | none of their own that matters here | | | |

`PROJECT.json` lists these parts with what is modelled of each, and the hazards of the code at
their lines with the properties that would catch them.


## 2. The modules, and how they correspond to the code

`PROJECT.json` maps every definition to the lines it stands for.  Definitions keep the names of
the functions, fields and variants they model; operators named `Bug...` (or `Bug_...`) are
deliberately broken variants: putting one in place of its neighbour must make a run fail.

    SessionState    <-+                    +-- SessionActorProofs
    ReconnectPolicy <-+-- SessionActor <---+
                                           +-- MCSessionActor
    ClipboardSync <-- MCClipboardSync
    SessionManager <-+-- SessionManagerProofs
                     +-- MCSessionManager

    Keyboard <-- RemoteInput <-----------+
    PixelMath <- WindowLayout <- Pixels <+
         PixelMath <- LegTimers <--------+-- MCLeg      ReconnectTriggers <-+
    FrameAcks <--------------------------+              ClipboardPump <-----+
                                                        ProfileStore <------+-- MCApp
    Compositing <------------------------+              Shell <-------------+
    Recording <--------------------------+                  AtomicProfiles is instantiated
    Bitstream <-- VideoDecoder <---------+-- MCGraphics     by ProfileStore (refinement)
    ProgressiveTiles <- Progressive <----+
          ^                   +---- instantiates (refinement) --+
          +-- ProgressiveDecoder <------------------------------+

    FrameAcks <-+-- LegProofs                    ClipboardSync <-- ClipboardProofs
    LegTimers <-+
    Pixels <----+
    ReconnectTriggers <-+-- ServicesProofs       Recording <---+-- GraphicsProofs
    ClipboardPump <-----+                        Compositing <-+
    Shell <-------------+                        VideoDecoder <+
    RemoteInput <-- KeyboardProofs               ProfileStore <-- ProfileStoreProofs

MCLeg, MCApp and MCGraphics put several modules that share no state into one run: in a behaviour
one of them moves and the others rest, so that the state spaces add up instead of multiplying.

### SessionState, ReconnectPolicy

`SessionState` is the enum of `state.rs` and its gate: `ValidTarget` is the first match of
`allows`, `Arrow` the second.  A state is a flat record; size and scale of Connected and the
displayed delay are left out, no rule of the gate reads them.  What the gate allows is applied by
`set_state` in SessionActor, where it is checked that it refuses nothing the actor needs.

`ReconnectPolicy` has the operations of `reconnect.rs` as operators on a policy value.
`connected_since` is kept by age: none, recent, stable (older than `stable_after`).  The jittered
delay is some later moment, so `SessionActor` lets a deadline pass at any later step.

### SessionActor

The actor task, the forwarder task, the app, the user and the server.  `pc` is the await at which
the actor is; an action is the code from one await to the next, the whole handler with everything
it calls (`after_disconnect` with the policy's decision, the gate, the state event).

| Code | Model |
|---|---|
| `session.rs` handle, `actor.rs` forward | `Send`, `ForwardClose`, `DropHandles`, `ForwarderEnds`; the forwarder shows only in that `closed` is set before Close is queued |
| `collect_initial_state` | `CollectCommand`, `CollectDone` |
| `connect_one`, `connect_leg` with `until` | `ConnectOne`, `ConnectClosed`, `ConnectFails`, `TcpDone`, `TlsDone` |
| `decide_certificate` | `check_certificate`, `TlsDone`, `PromptCommand`, `PromptClose` |
| `on_activated` of the redirect loop and of the actor | `Activate`, `Activated` (its writes may fail before or after the visibility is applied) |
| `run_leg`, `on_command`, `apply_visibility`, `shutdown` | `LiveClose`, `LiveVisible`, `LiveCommand`, `LegEnded`, `OpenGfx`; a write is an await of its own (`LiveWrite`, `Written`, `WriteFails`, `ShutDown`, with `pc` at writing, hiding or closing), in which nothing else is polled and which need not return |
| `on_redirect` | `RedirectRefused`, `FollowRedirect` |
| `after_disconnect`, `wait_backoff`, `idle` | `after_disconnect`, `Backoff...`, `Idle...` |
| time | `Settle` (stable_after passes), `DeadlinePasses` |

An error is a member of `Errors`; `classify_io_error` and `classify_connector_error` map it to a
reason by the phase, as in the code.  The RDSTLS, TLS and CredSSP exchanges are one step each.
Input, Resize, Focus and clipboard commands change neither the life cycle nor visibility; they are
in RemoteInput, LegTimers and ClipboardSync.  `lastVisible`, `accepted`, `rejected` and `tries` are history variables.

### ClipboardSync

One leg.  `on_...` operators are the events of the state machine in `sync.rs`, `HandleCommand`,
`HandlePdu` and `Tick` the three callers (commands, channel callbacks, timer).  `formats.rs` is
`allowed_by`, `filter_local`, `outbound_formats`, `select_inbound`; conversion is modelled by what
survives: text and TIFF accept any bytes (the wrong ones become `Garbage`), PNG and DIB refuse.
The pasteboard keeps a TIFF beside a PNG, as `pasteboard.rs` writes it.  `PumpTick` is
`ClipboardPump` with its watcher and its seeding of a new session.  Time is kept as the three
comparisons the code makes (echo window, fetch timeout, which change is newest).  The list of own
writes keeps the last OWN_WRITES_KEPT of them (`remembered`).  `announced` is a history variable:
the copy whose list was accepted last, and whether a list was ignored since.

`Wiring` says how the module is used.  "app" is what the app does: it writes to the pasteboard only
for a key window and feeds neither LocalWritten nor Prefs back.  "any" is any caller `SyncInput`
allows: each write may be done or not and acknowledged or not, and the preference may change.  The
server (external) copies, takes lists, may announce a list straight back, and answers in order from
its clipboard of the moment; `SlowServer` lets an answer take longer than FETCH_TIMEOUT.

### FrameAcks

Actor, render thread and GPU completion handlers around one outbox.  `presented` is
`AckOutbox::presented` up to the unlock; the notifier runs later (`notifying`, `NotifyOne`) and
sets the one permit of `tokio::sync::Notify`.  `end_frame` either queues the frame or, for a
stopped thread, leaves its callback to `CallOnDrop` (`dropped`, `RunDropped`); a Shutdown drops
what is behind it.  The outbox is of a leg (`NewLeg` starts another), the render thread and the
permit outlive it.  The server keeps at most `Window` frames unacknowledged unless suspended.

### SessionManager

The main thread is not a variable: every action that needs it has the guard `MainFree`, which a
Dock quit turns off until the app exits, and a connect while it is between its locks.  Actions are
main-thread closures or sections under the manager's lock.  `connect_profile` takes three locks one
after the other, on the main thread for the user and on the thread that opened the Connections
window for DRIFT_AUTOCONNECT; `at` and `choice` are where each of the two is, and the history
variable `opener` is the thread that opened a window.

| Code | Model |
|---|---|
| `connect_profile`, `connect_plan`, `open_session_window` | `ConnectPlan`, `ConnectWindow`, `ConnectOpen` |
| `build_session_window`, `SessionManager::open`, `discard_window` | `BuildWindow`, `PrepareWindow`, `CreateRenderSink`, `AttachSession`, `InsertSlot`, `ShowWindow`, `BuildFails`, `DiscardClose`, `DiscardWindow` |
| `open` in an existing window | `Reconnect` |
| `pump` | `PumpRecv`, `PumpDeliver`, `PumpEnd`, `PumpRelease`, `PumpStops` |
| `close`, `finish`, `close_session_window` | `close`, `CloseFinishes`, `DestroyClosed`, `ForgetClosed` |
| `delete_profile` | `Delete` |
| `shutdown_and_exit`, `shutdown_blocking` | `Quit`, `DockQuit`, `ShutdownNext`, `Exit` |
| `toggle_stats`, `answer_certificate` | the same names |
| `sessionMain.ts`, the actor | `PageListens`, `ActorEmits`, `ActorExits` (external) |

The quit waits for the sessions it took out of the manager one after the other (`shutdown`), in the
order of their windows, as the code walks its map.  A session is named by its actor, which stands for the generation number as well (both are unique
per session).  `Callers = "any"` also calls `open` on a window with a live session, which its doc
allows and the app's commands never do.

### Keyboard, RemoteInput

`Keyboard` is the translator of `keyboard.rs`, `modifiers.rs`, `shortcuts.rs` and `unicode.rs`: a
record and one operator per method, with the key tables of the code.  `RemoteInput` puts it
between AppKit's callbacks on `RemoteView` (keys, flags, text, first responder, key window, mouse)
and the actor's `InputEncoder`, and keeps what the remote believes is held.  The events of one
callback are a batch of commands; a leg may end or activate between any two of them (`SendAll`),
and commands without a leg are dropped, as `remember` does.  What the user holds is chosen in
Init and pressed and released freely.

### PixelMath, WindowLayout, Pixels

Pure arithmetic: the layout asked of the server (`layout.rs`), the placement of the picture and a
click's pixel (`coords.rs`, the compositor's viewport), scrolling (`scroll.rs`), the bands and
panels of a window (`present.rs`, `windows.rs`), restored frames (`frames.rs`) and the preview's
downscaling (`connections.rs`).  `Pixels` has one probe per initial state and a scroll accumulator
that moves.  The floating-point scale of `layout.rs` appears as an error of at most one pixel in
each dimension, chosen by the probe (the proof allows any error); the loop that then shrinks the
size is the recursive function `shrink` on sizes of even width; the constants of the code are scaled down in the same
proportions.

### LegTimers

What the actor's tick does on a live leg: `ResizeDriver` with geometry, capabilities, debounce and
the layout the server has, and `GreeterTypist`, over legs that start, are redirected and end.
Time is a small clock; `RESIZE_DEBOUNCE` and `TYPE_DELAY` keep their order.  A
due layout may turn out not to be encodable, or Display Control not to be ready (`OnTick`): the
driver takes it for sent all the same, and `unsent` remembers that it was not.  `LayoutSettles` says
of a leg that has `Settled`, with no layout lost so, that it shows the last geometry and that this
fits the server's cap.

### ReconnectTriggers, ClipboardPump

`ReconnectTriggers` has the merger of `triggers.rs`, the two observer threads that feed it (the
path monitor's queue and the main thread), the fan-out of `services.rs`, which reads the sessions
and then sends to each by window name, and of each actor what NetworkReachable, ReconnectNow and
Cancel do in the phase that reads them.  The merger runs under a lock, the sends after it: a thread
keeps for every window what it still has to send, since the windows are told one by one.
`ClipboardPump` is the main-thread pasteboard poll: a tick reads the sessions once and sends while
windows close, are replaced and open; `seeded` remembers which actor was given a snapshot.

### ProfileStore, AtomicProfiles

File, temporary file, memory, Keychain and frames, changed by the page's commands on the main
thread and by the task that stores certificate pins.  A save is `Lock`, `CreateTemp`, `WriteTemp`,
`RenameTemp` (or `SaveFails`), the Keychain calls one by one (`SecretStep`, `SecretStepFails`) and
`Finish`.  `Relaunch` is a crash between any two of them, or a later start.  A password is a member of
`Passwords`, `Documents` are the files the app can read, `Unused` ids are those a new profile may get,
and `interrupted` is a history variable: the profiles one of whose commands was cut short, which
may have left something behind.  The page's sheet holds the profile as it was read.  `AtomicProfiles` is the promise: a profile changes in one step,
on disk and in memory at once, and a document of a newer version is left alone.  `ProfileStore`
implements it with the file as `saved` and the document in memory as `held`
(`SavesAreAtomic`).

### Shell

What the main thread keeps around the windows: menu bar, gallery, title bars (`identity`), keyboard
owner (`responder`), live windows and the previews sampled.  Pumps, builders and closers queue
closures on the main thread and wait for them; the main thread defers others to itself; each
closure recomputes what it refreshes from the manager as it is when it runs.

### Compositing

`GfxClient` checks each PDU against its books (`state.rs`) and queues calls, or refuses it, which
ends the leg, when the books or the decoder of its payload object; a video payload yields a picture,
none yet, or an error; `RenderCall` is the
compositor recording GPU commands, `HandleEndFrame` and its call the commit, `GpuComplete` the
GPU, which reads decoded pictures from buffers the decoder reuses when nobody holds them.
`reference` is the repository's own CPU model (`reference.rs`), which draws each PDU at once.
Images are strips one pixel high.  A pixel of the compositor's textures is a colour or the name of
the buffer it will be read from, so the names are numbers that are no colour
(`CompositingAssumption`); several destinations of one copy are written in their order, so the last
copy that covers a pixel decides it (`Everywhere`).

### Recording

Main thread (`BeginRecording`, `StartRecording`, `ToggleOff`, `StopRecording`, `ReleaseSession`,
`Join`), render thread (`ComposeFrame`, `Resize`), GPU completion (`Deliver`) and recording thread
(`RecordingThread`) around the capture pool, the bounded channel, the encoder, whose timeline
starts with its first frame (`Stamped`), and the writer of `mp4.rs`.

### Bitstream, VideoDecoder

`Bitstream` has the byte and bit operators of `annexb.rs` and `sps.rs`: start codes, length
prefixes, emulation prevention, Exp-Golomb codes, the header of a sequence parameter set and its
rewriting to BT.709 full range.  `VideoDecoder` is the tracker of parameter sets and the
VideoToolbox session (external), whose creation may fail; it also ranges over samples for
Bitstream, one per initial state.

### ProgressiveTiles, ProgressiveDecoder, Progressive

`ProgressiveTiles` is what a block does to one tile (`tile.rs`); coefficients are the term of
passes that made them.  `ProgressiveDecoder` is the sequential decoder `progressive.rs` says it
matches; `Progressive` is the parallel one with its maps, rounds and references under the graphics
client.  The refinement (`MirrorsSequential`) maps the maps to total functions.


## 3. The runs

`tlc -config X.cfg MCModule`; states are distinct ones.  Deadlock checking is off throughout: an
actor, a window or an app that has exited, and an app and a server that have nothing more to say
within the bounds, may stop.

| Run | States | Checks | Shows |
|---|---|---|---|
| actor_phases | 430,020 | TypeOK, CredentialsOnlyToTrusted, StateIsTruthful, WaitsOnlyForNetwork, CloseEndsActor, BackoffEnds | Remote Login, trust on first use, two certificates, a redirect, drops, refused credentials, backoff and network changes in every order: credentials reach only certificates that are pinned, named by the redirecting server or accepted by the user; the state shown is the phase; Close ends the actor even when `collect_initial_state` swallows it, and whatever the server does short of holding one write for ever; a backoff with a network ends by itself, one without waits for the network only |
| actor_view | 2,414,052 | RetriesAreBounded, VisibilityFollowsApp | Headless with a pinned certificate: no SetVisible is lost over drops, backoff and idle, a hidden tab is suppressed on a live leg, automatic reconnects are earned and keep to the budget |
| clip_sync | 708,001 | OffersAreCurrent, WrittenIsAnnounced | text, image, DIB and unknown copies on both sides with a focus change, wired as the app wires it, every request answered in time: a session that may sync has offered the newest local copy, and what it writes is one announced copy |
| clip_timeout | 1,514,836 | FetchEnds | a server that may never answer, any caller: the tick gives the request up |
| manager_sessions | 317,230 | EndedExactlyOnce, ResourcesMatchSessions | one profile connected, replaced in its window, closed, connected again and quit while its windows are built on threads |
| manager_connects | 1,252,285 | OneSessionPerProfile | the user connects and closes the profile the autoconnect thread is connecting, lookups and registration interleaved: neither thread opens a second session beside one of its own |
| manager_liveness | 65,436 | ShownIsCurrent, CloseCompletes, QuitCompletes | prompts answered, closes, deletes and quits with an actor that hangs or ends by itself: what the page was sent is current, closing windows go, a quit exits although the main thread may be the one that waits |
| leg_services | 379,136 | WireIsSound, NoStuckKeys, PixelsAreExact, LayoutSettles, TimersFireInTime, NoLostWakeup, AcksAreHonest, SuspendsOnce, NeverStalls | what serves one leg: input through legs that drop, coordinates and layouts, the two timers, frame acknowledgement over three threads and two legs |
| app_store | 1,001,334 | NeverLeftPaused, ResumedWhenOnline, EverySessionKnows, SavesAreAtomic, PasswordSurvives, NothingLeftBehind, ShellIsCurrent | the process around the sessions: triggers, clipboard poll, profiles with crashes and failing steps, menus and gallery |
| graphics | 256,330 | RenderedIsExact, FilmIsExact, ToggleReturns, VideoIsFaithful, MirrorsSequential | PDUs to pictures, frames to film, access units to pictures, tiles to surfaces |
| recording_deadlock | violation | StopFinalises | section 6, finding 1 |
| certificate_forgotten | violation | CertificateIsRemembered | finding 2 |

### Bounds, and why they are enough

- Actor: 3 or 4 commands from the app (`MaxSends`).  The longest scenarios the properties are about
  take three: hide, drop, show, reconnect; Accept for another certificate before the prompt, then
  the right one; NetworkDown, ReconnectNow, NetworkUp.  A leg may drop any number of times: drops,
  backoffs and redirects are not bounded by a counter of the model but by the code's own budget
  (`max_attempts` 1) and MAX_REDIRECTS (1, the code's value is 4; a leg beyond the second
  starts like the second, and the theorems of section 5 cover every value).  `tries` saturates above the budget.
- Clipboard: two copies over both sides, one focus change (or, for any caller, preference change).
  Superseding needs two remote copies or one on each side; a pending offer needs a copy and a focus
  change.  The list of own writes holds one entry (eight in the code), so that a second write evicts
  the first.
- Manager: two windows and two sessions of one profile in manager_sessions (replacement, reconnect
  after close), three of each in manager_connects (one of the autoconnect thread's, one the user
  connects meanwhile, one after a close), one of each in manager_liveness; one or two events per actor.  Sessions of different
  profiles share nothing but the quit.  manager_sessions has actors that end only when told and
  no Delete, see section 6.
- Input: one letter and two modifiers at a time, among them both Command keys and a Shift next to
  a Command, a mouse button, both ways to map Command.  Input is not counted: the user types for
  ever.  Two holders of one scancode are the two Command keys as Ctrl.
- Pixels: every layout request up to 15 pixels square with a range of 4 to 12 and eight area caps,
  every desktop and drawable up to 7 by 7, windows up to 14 by 12 half points, every pair of three
  screens; wheel gestures of up to four units.  The scaled ranges keep all the orders of the
  code's constants (below the minimum, between, above the maximum, odd and even).
- Timers: two geometries, two area caps (one below the minimum layout), three profiles, a clock of
  two steps: a debounce of one can be started again before it ends, a delay of two can end after the
  greeter, the leg or the geometry it began with has gone.
- Frames: three frames per leg, two legs, three visibility changes, a window of two: a full
  window, a hide-show-hide and a frame of the first leg presented during the second.
- Triggers: one session, no new trigger while a command is unread, a debounce of one step of a
  clock of one; path changes, wakes, presses, drops and redirects are not counted.  Sessions do not
  influence one another here; the order of the two observer threads and the actor is what matters,
  and it is free.
- Clipboard poll: two windows with different preferences, two actors each, two copies.
- Profiles: two ids, both modes, three commands, one pin, one crash or failure between any two
  steps; a document of a newer version among the initial ones.
- Shell: two windows, two reports and two clicks, at most two closures waiting; the session states
  that differ in what the shell shows (live, reconnecting, failed).
- Compositing: two surfaces, one cache slot, two picture buffers, three PDUs besides frame ends,
  overlapping and empty rectangles.  A picture buffer is reused with two; an overlapping copy
  needs one surface of three pixels.
- Recording: a pool of two, a channel of one, four frames, two recordings, two sizes.
- Video: two sequence and two picture parameter sets, four access units, any rebuild failing; every
  payload of up to three of the bytes 0, 1, 3 and some of four; sequence parameter sets of two
  profiles with and without every optional part.
- Progressive: one surface of two tiles, the last one cut off, two contexts, eight payloads chosen
  for repeated tiles, differences, upgrades before a first pass, REGIONs outside a frame and
  refused payloads; up to six messages.

### What the properties say beyond their code

`CredentialsOnlyToTrusted` relates the leaf of this leg to what the user answered, possibly on an
earlier leg or before the prompt.  `StateIsTruthful` says that the app sees where the actor is,
because no transition the actor needs is refused.  `WaitsOnlyForNetwork` is why a backoff without a deadline is not a
hang.  `WrittenIsAnnounced` ties what reaches the pasteboard to one remote announcement, `OffersAreCurrent`
what the server was offered to the last local change, over all the reasons for which an offer is
put off.  `OneSessionPerProfile` is what is left of "a profile never gets a second session" when two
threads connect: one of them alone never opens two.
`NoLostWakeup` and `NeverStalls` are the safety and the liveness side of the wake-up;
`AcksAreHonest` counts frames over four places.  `EndedExactlyOnce` is the contract of
`SessionHost::session_ended` under all races of close, replacement, end and abort;
`ResourcesMatchSessions` that none of them releases another's render thread.

`WireIsSound` says of the events on the wire what the translator's counters are for: holders are
counted, a press and a release alternate, a menu shortcut leaves no tap behind.  `NoStuckKeys` is
about the remote, not the translator, and survives dropped batches and legs.  `LayoutSettles` and
`TimersFireInTime` are the two directions of a debounce: it ends, and not early.
`NeverLeftPaused` holds although the two observers' commands may arrive in either order, because
whatever overtakes is itself followed by news; `ResumedWhenOnline` is its liveness.
`SavesAreAtomic` is a refinement, so it says what a relaunch at any step finds.
`RenderedIsExact` compares what is presented with a compositor that has no queue, no command
buffers and no shared pictures.  `MirrorsSequential` is a refinement for every message; one that is
refused ends the leg in both.


## 4. Fairness

Each module has a specification without fairness and, where a liveness property needs it, one with.

- SessionActor: weak fairness of the forwarder, of the connection phases, of the ready backoff and of
  its deadline, strong fairness of reading commands.  Tokio runs every ready task, `until` bounds
  every connection phase, and the clock advances.  `select!` polls its branches in random order, so
  a leg that is back in its loop again and again takes the command in the end, although each write
  in between takes it out of the loop: that is the strong fairness.  A write itself is the server's
  step and may never return (`CloseEndsActor` says so, finding 5 is the consequence).
- ClipboardSync: the actor's tick runs and FETCH_TIMEOUT passes.
- FrameAcks: the actor wakes, the render thread takes messages, completion handlers and dropped
  callbacks run, a callback that queued calls the notifier, acks arrive.
- SessionManager: each connect, builder thread, close task, pump and the quit run; the cap CLOSE_CAP
  passes.  It is strong for those whose steps wait for the main thread: that has one queue, so a
  closure handed to it runs although connects and commands come between again and again.
- ReconnectTriggers: the observer threads finish their sends and an actor reads its commands in
  backoff, idle and on a live leg.  A prompt or a connection phase may last for ever.
- Recording: the main thread finishes what it began, unless it waits for the thread it joins; the
  GPU completes what was committed; the recording thread takes what is in its channel.

Nothing is assumed of the app's commands, the user, the server, the actors as the manager sees
them, or the page: they may stop at any point.  Fairness is stated for the part that moves
(`part` in the MC modules).


## 5. What is proved

With TLAPS, for every value of the constants that satisfies the named assumptions of the modules.
These are as weak as the code allows: bounds, delays, budgets, pools and window sizes are any
natural numbers (positive where the code's constants are), Certs, Profiles, Ids, Views and windows
any sets, and the values that stand for "nothing" differ from those that stand for something.
`StoreAssumption` adds that Updates carry passwords or the two instructions of the sheet, and
`LegAssumption` that a view has whole sizes, `ProbeAssumption` that pictures, drawables and
previews are not empty, windows at least a point wide and the last window of a cascade still on the
first screen (the code moves each further by CASCADE and says "a handful of windows"), `ClipboardAssumption` that None is neither contents
nor a request, `InputAssumption` that the keys typed are of the code's table and no modifiers.
Nothing is assumed finite.

| Theorem | States | Argument |
|---|---|---|
| `SessionActorProofs!TypeCorrect` | Spec => []TypeOK | TypeOK is inductive; lemmas give the types `set_state`, `after_disconnect`, `Receive` and the policy's operators produce.  The leg stays within MAX_LEG because `FollowRedirect` is guarded by `leg - 1 < MAX_REDIRECTS` |
| `CredentialsAreSafe` | Spec => []CredentialsOnlyToTrusted | not inductive alone: which certificate is accepted depends on queued answers and remembered pins.  `TrustInv` adds that a queued Accept names an accepted certificate, that the session's pin is accepted, and that a leg's pin is the profile's or accepted |
| `BackoffAlwaysHasAnEnd` | Spec => []WaitsOnlyForNetwork | inductive with TypeOK: a deadline is "never" only when the policy decided WaitForNetwork, and every step that marks the network reachable leaves the backoff |
| `ShownStateIsTruthful` | Spec => []StateIsTruthful | the property names some phases only; `PhaseInv` is a table of what is shown in every one of them, which is what shows that the gate accepts the next state.  One lemma per operator that publishes, one case per action |
| `RetriesAreAlwaysEarned`, `BudgetIsKept` | Spec => []RetriesAreEarned; without NetworkDown, []RetriesAreBounded | `BudgetInv`: the retries made are at most the policy's count, and a backoff has already paid for the one to come.  NetworkDown is excluded because a reconnect caused by the network's return is not counted (section 6) |
| `HiddenTabsAreSuppressed`, `VisibilityIsKept` | Spec => []HiddenIsSuppressed; with a pinned profile, []VisibilityFollowsApp | `ViewInv`: the last visibility command in the channel is the app's last word, and without one the view is.  The pin is assumed because a prompt drops what it reads (section 6) |
| `LegProofs!NoWakeupIsLost` | Spec => []NoLostWakeup | `WakeInv`: with `notifying` a natural number, a queued ack always has its notification to come or the permit it left |
| `HiddenSuspendsOnce` | Spec => []SuspendsOnce | `SuspendInv` ties hidden to the view, suspend_sent to the number of acks since the hide, and both to the frames presented since |
| `AcksTellTheTruth` | Spec => []AcksAreHonest | `HonestInv`: a frame of this leg is in exactly one place of render queue, GPU, dropped callbacks, outbox and wire; `in_flight` is the cardinality of the first three; no queue holds a frame of a later leg |
| `ServicesProofs!NoSessionIsLeftPaused` | TriggersSpec => []NeverLeftPaused | `NewsInv`: while the merger is online no thread still has a Down to send without an Up behind it, and a session that believes Down has an Up in its queue or on its way (`Informed`) |
| `ProfileStoreProofs!StoreIsAtomic` | StoreSpec => SavesAreAtomic | the refinement: `AtomicInv` says that whoever is saving holds the lock, writes the document it read the store for and has that document in the temporary file before the rename; then a rename is an atomic step, every other one a stutter or a relaunch |
| `CommandsLeaveNothingBehind` | StoreSpec => []NothingLeftBehind | `TidyInv` adds what the Keychain holds between two calls of a script (`Leaves`), for profiles no command of which was interrupted |
| `RdpPasswordSurvives` | StoreSpec => PasswordSurvives, an action property | `Safe`: in a script a password is set under the new role before it is deleted under the old one, whatever is still to run |
| `SessionManagerProofs!SessionsEndOnce` | Spec => []EndedExactlyOnce | `SessionInv` says who will release a session: its builder, its window's slot, its pump, a close or the quit, one of them at a time; `WindowInv` what a window's slot, builder and closer say of each other |
| `ProfilesHaveOneSession` | Spec => []OneSessionPerProfile: of the windows one thread opened, no two have a running session of one profile | `ProfileInv`: a running session is its window's live one or the one its builder carries; a thread past its lookup of the registered windows has no window of that profile but those the other thread has registered since, because a thread connects one profile at a time |
| `NoSecondSession` | with `Autoconnect = NoProfile`, Spec => []NeverASecondSession | `OneOpenerInv`: the main thread opened every window, so the first theorem is about all of them.  The hypothesis is needed (section 6, finding 8) |
| `SessionsKeepTheirWindows` | with `~ActorsEnd` and no Delete, []ResourcesMatchSessions | `ResourceInv`, `KeptInv`: nobody who still has to release a session of a window can meet another session there.  Both hypotheses are needed: section 6 has the two races |
| `PagesShowTheirView` | with `Callers = "app"` and no Toggle, []ShownIsCurrent | `PageInv`: the view a pump carries is its window's, unless the user has answered the prompt of a view nobody touched since.  Toggles are excluded for the race in section 6 |
| `ServicesProofs!NewestCopyIsKnown` | PumpSpec => []EverySessionKnows | a seeded session is told nothing while the changeCount rests, so `TellsInv` says that what an earlier tick told it, perhaps in a send meant for the actor it replaced, still holds.  `ReadsEnough`: the most permissive preference covers all |
| `LayoutsAreLegal` | for all integers width, height, any area and any rounding error, fit_to_caps returns an even width, both sides in range, and the area within the cap or the smallest size | `shrink` is a recursive function, so it must first be shown to exist.  `Smallest` (every set of naturals has a least member, from WFMin) does this for all sizes at once: a smallest size without a result, or with an illegal one, has none |
| `PixelsAgree` | PixelSpec => []PixelsAreExact: layouts, clicks, the wheel, panels, window frames and previews of any size | `ClicksAreExact`: compared as fractions over a common denominator (`Near`), the pixel a click means and the one the compositor draws differ by at most what the rounding of the viewport's height and of its border add, which is less than twice the scale (`Drawn`, `BoxedAxis`), and not at all on the other axis.  `WheelIsExact`: the events of one push add up to its whole part, by induction over the events (`Chunked`).  `PreviewsAreExact`: a source pixel is in the one share of the source where it begins (`Weighs`).  `PanelsAreInside` and `WindowsAreFound` place rectangles by cases; LayoutsAreLegal is the part about layouts |
| `LastGeometryIsShown` | LegSpec => []LayoutSettles | `DriverInv`: an idle driver with a channel has nothing left to send, between legs as well; the area from LayoutsAreLegal |
| `TimersAreInTime` | LegSpec => TimersFireInTime, an action property | `DebounceInv`: a debounce under way lasts to the end of the burst; `TypistInv`: an armed typist is at the greeter, has not typed, and waits for the first click on this leg or for its delay |
| `GraphicsProofs!FilmsAreExact` | RecordingSpec => []FilmIsExact | `OrderInv`: file, encoder, channel and GPU hold rising ids, each place older than the ones behind it; `StopInv` ties the writer to its thread.  Lemmas on Append, Tail, SubSeq and concatenation of rising sequences |
| `RenderedExactly` | GfxSpec => []RenderedIsExact | `ReadsInv`: a pixel still to be read from a buffer is covered by commands, recorded or committed no later than the picture it is in, that keep the buffer alive, so the decoder cannot reuse it.  `ChainInv`: executing the queue on what the scene shows once all buffers are read leads to the CPU model, and passes every EndFrame with the picture the server had ended then.  `BooksInv`: the client's books fit the CPU model after every accepted PDU.  The lemmas say that reading late commutes with painting, cropping, copying and composing (`SeenDrawing`, `SeenCompose`), and that a copy with or without the scratch texture is the same between two surfaces (`Snapshot`) |
| `DecodedAsSent` | VideoSpec => [](DecodedWithCurrentSets /\ SessionMatchesActive) | `VideoInv`: a tracked pair is complete and the newest the server sent, since a pair that fails to build is forgotten and half a pair is never remembered; the session is the tracked pair's |
| `ServicesProofs!ShellStaysCurrent` | ShellSpec => []ShellIsCurrent | `ShellInv`: whatever is out of date has a closure on its way that will look at the manager again (`MenuInv`, `WindowsInv`, `LiveInv`), or belongs to a session that has not reported yet and will queue one.  `ManagerInv` says that a queued view still shows its session's screen, that what ended without its actor said why, and that a window without a session is destroyed after everything queued about it |
| `ClipboardProofs!FocusScoping` | Spec => OnlyFocusedAdvertises, an action property | `SyncInv`: types of all queues and fields, and that a Monitor Ready can only be the first message, met before any fetch.  One lemma per `on_...` operator says which queue it touches and how |
| `OffersFollowTheUser` | with `Wiring = "app"`, Spec => []OffersAreCurrent | `OffersInv`: a local change that may still have to be offered is marked pending, offered in the last list, or was taken for Drift's own write; `OnlyAppCommands`: no LocalWritten and no Prefs is in the mailbox.  Once a caller changes the preference or acknowledges writes, an offer may be withheld for a reason the state does not remember |
| `WritesAreAnnounced` | with `~ SlowServer`, Spec => WrittenIsAnnounced | `OneInv`: the request in flight is in exactly one of the two queues or with the server, so an answer is for it; `FreshInv`: unless a list was ignored, what the fetch has, what the server is preparing and every answer not known to be stale come from the accepted copy, or a newer list is ahead of the answer and will supersede it.  The hypothesis is needed (section 6) |
| `KeyboardProofs!SoundWire`, `NothingStuck` | InputSpec => []WireIsSound, InputSpec => []NoStuckKeys | `InputInv`: between two callbacks the translator is `Idle` (holders counted, only held modifiers sent or held back), every combo the menu took is still held back, what the remote holds is among what the view pressed (`Followed`), and a view without the focus presses nothing.  Each handler of `keyboard.rs` has a contract, `Handled`: replaying its events takes the wire from what was pressed to what is, and taps no Command key of a taken combo.  Its loops over the modifiers are folds; that a fold goes through its sequence from the left, and so keeps what each step keeps (`ChainKeeps`), is proved from the well-foundedness of the naturals.  `TailFollows` says that an encoder that missed any first part of a batch holds nothing more than one that missed none |

Of these theorems LayoutsAreLegal, ClicksAreExact, WheelIsExact, RetriesAreAlwaysEarned,
HiddenTabsAreSuppressed and DecodedAsSent are about what the runs check as parts of PixelsAreExact,
RetriesAreBounded, VisibilityFollowsApp and VideoIsFaithful; NoSecondSession proves what
finding 8 of section 6 refutes, without its cause; FocusScoping is proved only.  Every other one states a
property of a run.  The inductive invariants were checked with TLC over the reachable states of the runs' instances before
they were proved.



## 6. Where code and documentation disagree

Twelve were reproduced with TLC.  The first two have a run whose counterexample shows them.  Each of
the others is a definition that the code does not keep; TLC finds the counterexample when it is added
to the configuration named, with the changes named there.

1. **A window closed while it records blocks the main thread for ever** (`windows.rs:1003`, run
   recording_deadlock).  `release_session` stops the recording, which joins its thread, before it
   shuts the render thread down; the recording thread ends only when the compositor drops its end of
   the channel.  `recording.rs:19` says that dropping or stopping a recording finalises the file.
   Switching the recording off from the menu does return (`ToggleReturns`).
2. **Saving the sheet forgets a certificate** (`profiles.rs:216`, run certificate_forgotten).  A
   certificate trusted "for this profile" (`commands.rs:202`) while the profile's sheet is open is
   overwritten by the sheet's older copy of the profile.
3. **A tab shown while disconnected stays dark** (`actor.rs:642`; VisibleIsComposed as an INVARIANT
   of ActorView.cfg).  Activation tells the frame sink about visibility only when the tab is hidden:
   hide on a live leg, drop, show during the backoff, reconnect.
4. **A certificate prompt swallows what the app says** (`actor.rs:197`; ViewFollowsApp as an
   INVARIANT of ActorView.cfg with `ProfilePin = NoCert` and "Accept" among the Kinds).  While it is
   open every command but its answers and Close is dropped, visibility and network changes included,
   though `actor.rs:346` records what "must survive a disconnected phase".  VisibilityFollowsApp is
   checked with a pinned certificate, NeverLeftPaused excepts a session whose prompt swallowed the
   news.
5. **Close does not end an actor whose server stops reading** (`actor.rs:584`; CloseAlwaysEnds as a
   PROPERTY of ActorPhases.cfg).  The writes of a live leg, and that of `shutdown` itself, have no
   time limit and the actor looks at nothing else meanwhile; `session.rs:257` says that it exits
   after Close.  The manager's CLOSE_CAP aborts the pump, not the actor.
6. **A tab hidden before its graphics channel opens never suspends acknowledgements**
   (`graphics.rs:172`, against `actor.rs:13`; HiddenSuspendsAcks as an INVARIANT of ActorView.cfg).
7. **A cancelled session is reconnected** (`services.rs:197`; CancelledStaysStopped as an INVARIANT
   of App.cfg).  Whether to send ReconnectNow is decided from a view that may be old, which
   `services.rs:188-190` rules out.
8. **A profile gets two sessions** (`windows.rs:511`; NeverASecondSession as an INVARIANT of
   ManagerConnects.cfg) when the user connects the profile of DRIFT_AUTOCONNECT between that
   thread's lookup and its registration of the window; `manager.rs:289` says never.
9. **A toggled HUD is undone on the page** (`manager.rs:472`; ToggleSurvives as an INVARIANT of
   ManagerSessions.cfg), and by the same race on the window's surface, by an older view the pump
   carries; `manager.rs:250` says that the choice survives events.  ShownIsCurrent is checked
   without toggles, and ShellIsCurrent looks at the keyboard's owner, not at the HUD.
10. **Focus advertises before the server is ready** (`sync.rs:218`, against `sync.rs:8`;
    NothingBeforeReady as a PROPERTY of ClipSync.cfg).
11. **A fetched picture goes back to its server** (`sync.rs:282`, against `sync.rs:9`; NoEcho as a
    PROPERTY of ClipSync.cfg).  The app never sends LocalWritten, so its own writes are recognised
    by content only, and a picture is read back in another form.  The same withholds a user's copy
    of the content fetched last, which OffersAreCurrent excepts.
12. **A late clipboard answer is taken for the next request's** (`sync.rs:222`, against
    `sync.rs:18`; run clip_sync with `SlowServer = TRUE`).  The tick forgets a request it gives up
    instead of marking it stale.

Others were met while modelling.  The first four are definitions of the modules that the code does
not keep; the rest are described in the properties' comments or left out by the instances.

- PageShowsView: a view emitted before the page subscribes is lost (`sessionMain.ts:11`).
- ConnectGetsWindow: a connect during the close brings the dying window forward (`windows.rs:515`),
  and no window is left.
- TimesIncrease: a resize during a recording starts a new encoder, whose timeline starts at zero
  again although `encode.rs` gives times relative to the recording's first frame; frames still
  inside the old encoder are lost.
- DeleteForgetsFrame: a delete whose write of the frames fails has already taken the frame from
  memory; the file keeps it, and when the profile is saved and deleted again that delete finds no
  frame, writes nothing and succeeds (`frames.rs:137`; `commands.rs:156` says "and its window
  frame").  `NothingLeftBehind` excepts a profile one of whose commands was cut short.

Sessions and reconnection:

- Close in idle emits no final Disconnected (`actor.rs:331`; `session.rs:257` promises one).
- A reconnect caused by the network's return is not counted (`actor.rs:316`): RetriesAreBounded is
  checked with a network that never goes down.
- Sessions started during an outage, or still in their start-up grace, are not told that the Mac is
  offline; a RetryNow of a wake may reach them after a newer pause; the "Now" button is ignored
  while the network is believed down.
- The resize driver takes a layout for sent also when encoding it failed or yielded nothing
  (`actor.rs:685`): LayoutSettles excepts a leg whose last layout was lost so.

Clipboard:

- A list that arrives while unfocused, or is taken for an echo, is ignored and the older fetch goes
  on (`sync.rs:315`), so that it may be finished with answers from the newer copy.
  WrittenIsAnnounced excepts fetches during which a list was ignored.

Windows and shell:

- Delete while the window is being built leaves a session without a window (`commands.rs:165`):
  ConnectOpen, CreateRenderSink, Delete, InsertSlot, ShowWindow, DestroyClosed.
  ResourcesMatchSessions is checked without Delete.
- A session a builder has started but not recorded is not told to close by a quit
  (`manager.rs:346`); the process exits right after.
- An actor that ends by itself and a reconnect of its window race for the render thread
  (`manager.rs:179`): ResourcesMatchSessions is checked with actors that end only when told.
- A click on a menu item that names a session by position, in a menu not yet rebuilt, focuses
  another window.  A preview worker that outlives its session adds a preview again.  A session
  reopened in its window shows in menu and gallery only with its first event.
- Default frames of new windows cascade without limit, off the screen after some thirty windows.

Input and pixels:

- Mouse buttons are forgotten without a release when the focus is lost before the pointer has a
  position, though the comment on `focus_lost` says they are released.
- A Command combination the menu does not own reaches the remote; a view that becomes first
  responder in a window that is not key presses the modifiers held; a Caps Lock change during a
  backoff is lost.
- With bars around the picture a click may land one drawable pixel beside the pixel under it;
  `coords.rs` says exactly where the pixels are.

Profiles, graphics and video:

- After a failed Keychain step of a mode change the password stays under the old role and saving
  again does not move it; a delete whose Keychain step fails leaves passwords and frame behind and
  a retry finds no profile.  `NothingLeftBehind` excepts interrupted commands for that reason.
- Duplicating a profile whose name is near the length limit fails; `session_secrets` reads profile
  and Keychain without a lock; a failed write of the frames is not repeated for the same frame.
- An empty SurfaceToCache records an image of size 0 in the client's books while the compositor
  keeps the slot's old image.
- Parameter sets that arrive in separate access units never make the decoder ready.  The parser in
  `metablock.rs` is not used.


## 7. What is only checked, and what is not modelled

Only model-checked:

- all liveness (CloseEndsActor, BackoffEnds, FetchEnds, NeverStalls, CloseCompletes,
  QuitCompletes, ResumedWhenOnline, ToggleReturns) and anything about ENABLED, which TLAPS cannot do;
- Bitstream's recursive parsers and so VideoIsFaithful as a whole, whose part about the parameter
  sets in force is DecodedAsSent; the parallel rounds of Progressive and so MirrorsSequential.

Not modelled: the wire formats and the TLS, CredSSP and RDSTLS exchanges; ClearCodec, planar and
the wavelet arithmetic of RFX (the repository has reference images, golden files and fuzzers for
them); Metal, VideoToolbox, AVFoundation and AppKit beyond what the callbacks do; statistics;
wording, titles and localisation; the pages' rendering; the test kit, release tools and IronRDP.

Within the modelled parts: jitter and the exact backoff; failing texture allocation; surfaces of the progressive codec are one row of tiles, the branch for a grid
that changed its size cannot be reached through the client, and the limit on clipping work is left
out; the alert that Quit may show, during which no closure runs on the main thread; a window
smaller than its title bar, which its minimum size rules out; autoresizing between two layouts.


## 8. Plan

Beyond what section 7 leaves out, what is left is proof: that the parallel progressive decoder
mirrors the sequential one, and that escaping and unescaping a NAL unit are inverse, by the same
induction over folds as for the keyboard.
