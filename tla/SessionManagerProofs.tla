------------------------- MODULE SessionManagerProofs -------------------------
(***************************************************************************)
(* Proofs about SessionManager, for any number of profiles, windows, sessions *)
(* and events: session_ended runs exactly once for every session, the user's *)
(* connects give a profile one session, windows and sessions own each other, *)
(* and a page shows the view its window has.                                 *)
(*                                                                           *)
(* The inductive invariant follows each session from the thread that starts  *)
(* it to the one place that will release it (SessionOf), and each window     *)
(* from the connect that numbers it to its end (WindowOf).                   *)
(***************************************************************************)
EXTENDS SessionManager, FiniteSetTheorems, TLAPS

\* The builder thread of a window has recorded its session, or never will.
Recorded == {"show", "discard", "discarding", "done"}

\* The builder of window w has started a session and not recorded it yet.
Carries(w) == builder[w] \in {"attach", "insert"}

\* Sessions and windows are numbered in the order in which they start.
NumberingInv ==
    /\ \A a \in Started : \A b \in Actors : b < a => b \in Started
    /\ \A w \in Opened : \A v \in Windows : v < w => v \in Opened

\* What a window's record, builder and closer say of each other.
WindowOf(w) ==
    /\ target[w] = NoProfile <=> builder[w] = "none"
    /\ builder[w] = "none" => closer[w] = "none"
    /\ window_profiles[w] \in {NoProfile, target[w]}
    /\ HasSlot(w) => slot[w].profile = target[w] /\ builder[w] \in Recorded \ {"discarding"}
    /\ slot[w].live # NoActor =>
          HasSlot(w) /\ life[slot[w].live] # "none" /\ home[slot[w].live] = w
    /\ Carries(w) =>
          /\ building[w] \in Actors
          /\ home[building[w]] = w
          /\ life[building[w]] # "none" /\ pump[building[w]] = "none"
    /\ exists[w] = "shown" => builder[w] = "done"
    /\ target[w] \in saved /\ (window_profiles[w] = NoProfile \/ closer[w] \in {"wait", "forget"}) =>
          ~ HasSlot(w) /\ builder[w] \in Recorded \cup {"none"}

WindowInv == \A w \in Windows : WindowOf(w)

\* A profile has one window at a time that the same thread has opened; a thread that is about
\* to open one has none for that profile.
ProfileInv ==
    /\ \A v, w \in Windows :
          /\ window_profiles[v] = window_profiles[w] /\ window_profiles[v] # NoProfile
          /\ opener[v] = opener[w]
          => v = w
    /\ \A t \in Connectors :
          at[t] = "open" => \A w \in Windows : opener[w] = t => window_profiles[w] # choice[t]

\* Without autoconnect, the user opens every window.
OneOpenerInv == at["auto"] = "idle" /\ \A w \in Windows : opener[w] = "main"

\* Who will release session a: its builder has not recorded it; its window holds it; its pump
\* releases it; a close waits for it; the quit waits for it; or it is released.
SessionOf(a) ==
    /\ life[a] = "none" => pump[a] = "none"
    /\ life[a] # "none" => home[a] \in Windows /\ target[home[a]] # NoProfile
    /\ life[a] = "running" => Owns(a) \/ (Carries(home[a]) /\ building[home[a]] = a)
    /\ ended[a] \in {0, 1} /\ (pump[a] = "none" => ended[a] = 0)
    /\ pump[a] # "none" /\ Owns(a) =>
          pump[a] \in {"recv", "deliver"} /\ finish[a] = "none" /\ a \notin shutdown /\ ended[a] = 0
    /\ life[a] # "none" /\ pump[a] = "none" => ~ Owns(a)
    /\ pump[a] = "release" => finish[a] = "none" /\ a \notin shutdown /\ ended[a] = 0
    /\ finish[a] # "none" => pump[a] # "none" /\ a \notin shutdown
    /\ finish[a] = "wait" => ended[a] = 0
    /\ a \in shutdown => pump[a] # "none" /\ ended[a] = 0
    /\ aborted[a] => ended[a] = 1
    /\ pump[a] # "none" /\ ended[a] = 0 =>
          Owns(a) \/ pump[a] = "release" \/ finish[a] = "wait" \/ a \in shutdown

SessionInv == \A a \in Actors : SessionOf(a)

\* Nobody waits for a session before the quit.
QuitInv == quitting = "no" => shutdown = {}

\* A connect under way has a profile.
ChoiceInv == \A t \in Connectors : at[t] \in {"windows", "open"} => choice[t] # NoProfile

ManagerInv == ManagerTypeOK /\ NumberingInv /\ WindowInv /\ SessionInv /\ QuitInv /\ ChoiceInv

OneSessionInv == ProfileInv /\ OneSessionPerProfile

\* Without actors that end by themselves: what a window holds, and that nobody who still has to
\* release a session of window w can meet another one there.
HoldsOf(w) ==
    /\ builder[w] = "attach" /\ registered[w] => render[w] = building[w]
    /\ builder[w] = "insert" /\ registered[w] => render[w] = building[w] /\ link[w] = building[w]
    /\ slot[w].live # NoActor /\ registered[w] =>
          render[w] = slot[w].live /\ link[w] = slot[w].live
    /\ exists[w] = "shown" => registered[w]

LeavesOf(a) ==
    /\ pump[a] # "release"
    /\ pump[a] # "none" /\ Owns(a) => life[a] = "running"
    /\ pump[a] = "none" => life[a] \in {"none", "running"}
    /\ finish[a] = "wait" \/ a \in shutdown =>
          ~ HasSlot(home[a]) /\ builder[home[a]] \in Recorded

ResourceInv == (\A w \in Windows : HoldsOf(w)) /\ (\A a \in Actors : LeavesOf(a))

\* Without deletes: a window with a record is shown once its builder is done.
KeptInv ==
    /\ saved = Profiles
    /\ \A w \in Windows : builder[w] = "done" /\ HasSlot(w) => exists[w] = "shown"

\* Without toggles, and with a reopen only after the session ended: the view a pump carries is
\* its window's, unless the user has answered the prompt of an untouched view.
CarriedOf(a, w) ==
    home[a] = w /\ pump[a] = "deliver" /\ HasSlot(w) =>
        /\ slot[w].live = a
        /\ carried[a] = slot[w].view \/ slot[w].view = NewView
        /\ page[w] # Blank /\ page[w].certificate /\ slot[w].view.certificate =>
              clear_certificate(slot[w].view) = NewView

\* A page has the view of its window when no view is on its way to it.
PageOf(w) ==
    /\ page[w] # Blank => listens[w]
    /\ HasSlot(w) /\ Quiet(w) /\ page[w] # Blank /\ slot[w].view # NewView =>
          page[w] = slot[w].view

\* A session has a pump only once its window's builder has recorded one.
PumpOf(a) == pump[a] # "none" => builder[home[a]] \in Recorded

PageInv ==
    /\ \A w \in Windows : PageOf(w)
    /\ \A a \in Actors : PumpOf(a) /\ \A w \in Windows : CarriedOf(a, w)

-----------------------------------------------------------------------------
(* Types.                                                                    *)

\* A group of variables that a step leaves alone keeps its types.
LEMMA TypesRest ==
    /\ UserTypes /\ UNCHANGED user => UserTypes'
    /\ AppTypes /\ UNCHANGED appstate => AppTypes'
    /\ ConnectTypes /\ UNCHANGED connects => ConnectTypes'
    /\ SlotTypes /\ UNCHANGED slot => SlotTypes'
    /\ BuildTypes /\ UNCHANGED build => BuildTypes'
    /\ PlatformTypes /\ UNCHANGED platform => PlatformTypes'
    /\ PageTypes /\ UNCHANGED pages => PageTypes'
    /\ ActorTypes /\ UNCHANGED actor => ActorTypes'
    /\ PumpTypes /\ UNCHANGED pumps => PumpTypes'
    /\ CloseTypes /\ UNCHANGED << finish, ended, closers, shutdown >> => CloseTypes'
BY DEF UserTypes, user, AppTypes, appstate, ConnectTypes, connects, SlotTypes, BuildTypes, build, PlatformTypes, platform,
       PageTypes, pages, ActorTypes, actor, PumpTypes, pumps, CloseTypes, closers

\* The views the steps compute are views.
LEMMA ViewTypes ==
    /\ NewView \in View
    /\ NoSlot \in [profile : Profiles \cup {NoProfile}, view : View, live : Actors \cup {NoActor}]
    /\ \A view \in View :
          /\ clear_certificate(view) \in View
          /\ \A event \in SessionEvent : apply(view, event) \in View
<1>1. NewView \in View /\ \A view \in View : clear_certificate(view) \in View
  BY DEF NewView, View, clear_certificate
<1>2. \A view \in View, event \in SessionEvent : apply(view, event) \in View
  BY DEF View, apply, SessionEvent
<1> QED
  BY <1>1, <1>2 DEF NoSlot

\* Closing a window's session keeps the types of what it touches.
LEMMA CloseKeepsTypes ==
    ASSUME NEW w \in Windows, SlotTypes, ActorTypes, CloseTypes, close(w),
           UNCHANGED << home, events, emitted >>
    PROVE  /\ SlotTypes' /\ ActorTypes'
           /\ finish' \in [Actors -> {"none", "wait", "over"}]
           /\ slot[w].live \in Actors \cup {NoActor}
<1>1. SlotTypes'
  BY ViewTypes DEF SlotTypes, close
<1>2. ActorTypes'
  BY DEF ActorTypes, close, Told
<1>3. finish' \in [Actors -> {"none", "wait", "over"}]
  BY DEF CloseTypes, close
<1> QED
  BY <1>1, <1>2, <1>3 DEF SlotTypes

\* The same for a window that begins to close.
LEMMA ClosingKeepsTypes ==
    ASSUME NEW w \in Windows, ManagerTypeOK, close_session_window(w),
           UNCHANGED << window_profiles, quitting, home, events, emitted, ended, shutdown >>
    PROVE  AppTypes' /\ SlotTypes' /\ ActorTypes' /\ CloseTypes'
<1>1. AppTypes'
  BY DEF ManagerTypeOK, AppTypes, close_session_window
<1>2. /\ SlotTypes' /\ ActorTypes'
      /\ finish' \in [Actors -> {"none", "wait", "over"}]
      /\ slot[w].live \in Actors \cup {NoActor}
  BY CloseKeepsTypes DEF ManagerTypeOK, close_session_window
<1>3. CloseTypes'
  BY <1>2 DEF ManagerTypeOK, CloseTypes, close_session_window
<1> QED
  BY <1>1, <1>2, <1>3

\* Releasing a session keeps the types of what it touches.
LEMMA ReleaseKeepsTypes ==
    ASSUME NEW a \in Actors, ManagerTypeOK, session_ended(a), UNCHANGED << exists, registered >>
    PROVE  PlatformTypes' /\ ended' \in [Actors -> Nat]
<1>1. ended' \in [Actors -> Nat]
  BY DEF ManagerTypeOK, CloseTypes, session_ended
<1>2. /\ render' \in [Windows -> Actors \cup {NoActor}]
      /\ link' \in [Windows -> Actors \cup {NoActor}]
  BY DEF ManagerTypeOK, PlatformTypes, session_ended, release_session
<1> QED
  BY <1>1, <1>2 DEF ManagerTypeOK, PlatformTypes

\* The steps of connect_profile keep the types.
LEMMA ConnectTypeStep ==
    ASSUME ManagerTypeOK, NEW t \in Connectors, ConnectSteps(t)
    PROVE  ManagerTypeOK'
<1> USE TypesRest DEF ManagerTypeOK
<1>1. ASSUME NEW p \in Profiles, ConnectPlan(t, p) PROVE ManagerTypeOK'
  <2>1. UserTypes' /\ ConnectTypes'
    BY <1>1 DEF ConnectPlan, Returns, UserTypes, ConnectTypes
  <2> QED
    BY <1>1, <2>1 DEF ConnectPlan
<1>2. ASSUME ConnectWindow(t) PROVE ManagerTypeOK'
  <2>1. ConnectTypes'
    BY <1>2 DEF ConnectWindow, Returns, ConnectTypes
  <2> QED
    BY <1>2, <2>1 DEF ConnectWindow
<1>3. ASSUME ConnectOpen(t) PROVE ManagerTypeOK'
  <2>1. choice[t] \in Profiles \cup {NoProfile}
    BY DEF ConnectTypes
  <2>2. ConnectTypes' /\ AppTypes' /\ BuildTypes'
    BY <1>3, <2>1 DEF ConnectOpen, Returns, ConnectTypes, AppTypes, BuildTypes, BuilderStates
  <2> QED
    BY <1>3, <2>2 DEF ConnectOpen
<1> QED
  BY <1>1, <1>2, <1>3 DEF ConnectSteps

\* The user's steps keep the types.
LEMMA UserTypeStep ==
    ASSUME ManagerTypeOK, UserSteps
    PROVE  ManagerTypeOK'
<1> USE TypesRest DEF ManagerTypeOK
<1>2. ASSUME NEW p \in Profiles, Delete(p) PROVE ManagerTypeOK'
  <2>1. UserTypes'
    BY <1>2 DEF Delete, UserTypes
  <2>2. CASE \E w \in Windows : close_session_window(w)
    BY <1>2, <2>1, <2>2, ClosingKeepsTypes DEF Delete
  <2>3. CASE UNCHANGED << closing, slot, life, finish, closers >>
    <3>1. UNCHANGED << appstate, slot, actor, finish, ended, closers, shutdown >>
      BY <1>2, <2>3 DEF Delete, appstate, actor
    <3> QED
      BY <1>2, <2>1, <3>1 DEF Delete
  <2> QED
    BY <1>2, <2>2, <2>3 DEF Delete, window_for, window_of_profile
<1>3. ASSUME NEW w \in Windows, Reconnect(w) PROVE ManagerTypeOK'
  <2>1. SlotTypes'
    <3>1. PICK new \in Actors : slot' = [slot EXCEPT ![w].view = NewView, ![w].live = new]
      BY <1>3 DEF Reconnect
    <3>2. slot[w].profile \in Profiles \cup {NoProfile}
      BY DEF SlotTypes
    <3>3. /\ slot'[w] = [profile |-> slot[w].profile, view |-> NewView, live |-> new]
          /\ DOMAIN slot' = Windows /\ slot' = [v \in Windows |-> slot'[v]]
          /\ \A v \in Windows \ {w} : slot'[v] = slot[v]
      BY <3>1, ViewTypes DEF SlotTypes
    <3> QED
      BY <3>2, <3>3, ViewTypes DEF SlotTypes
  <2>5. PumpTypes'
    BY <1>3 DEF Reconnect, PumpTypes
  <2>2. PlatformTypes'
    BY <1>3 DEF Reconnect, PlatformTypes, Holds
  <2>3. ActorTypes'
    BY <1>3 DEF Reconnect, ActorTypes, Told
  <2>4. CloseTypes'
    BY <1>3 DEF Reconnect, CloseTypes, closers
  <2> QED
    BY <1>3, <2>1, <2>2, <2>3, <2>4, <2>5 DEF Reconnect
<1>4. ASSUME NEW w \in Windows, toggle_stats(w) PROVE ManagerTypeOK'
  <2>1. UserTypes'
    BY <1>4 DEF toggle_stats, UserTypes
  <2>2. SlotTypes' /\ slot'[w].view \in View
    BY <1>4 DEF toggle_stats, SlotTypes, View
  <2>3. PageTypes'
    BY <1>4, <2>2 DEF toggle_stats, PageTypes, apply_view
  <2> QED
    BY <1>4, <2>1, <2>2, <2>3 DEF toggle_stats
<1>5. ASSUME NEW w \in Windows, answer_certificate(w) PROVE ManagerTypeOK'
  <2>2. SlotTypes' /\ slot'[w].view \in View
    BY <1>5, ViewTypes DEF answer_certificate, SlotTypes
  <2>3. PageTypes'
    BY <1>5, <2>2 DEF answer_certificate, PageTypes, apply_view
  <2> QED
    BY <1>5, <2>2, <2>3 DEF answer_certificate
<1>6. ASSUME NEW w \in Windows, Close(w) PROVE ManagerTypeOK'
  <2>1. UserTypes'
    BY <1>6 DEF Close, UserTypes
  <2> QED
    BY <1>6, <2>1, ClosingKeepsTypes DEF Close
<1>7. ASSUME NEW next \in {"waiting", "blocking"}, ShutDown(next) PROVE ManagerTypeOK'
  <2>1. UserTypes' /\ AppTypes'
    BY <1>7 DEF ShutDown, UserTypes, AppTypes
  <2>2. SlotTypes'
    BY <1>7, ViewTypes DEF ShutDown, SlotTypes
  <2>3. ActorTypes'
    BY <1>7 DEF ShutDown, ActorTypes, Told
  <2>4. CloseTypes'
    BY <1>7 DEF ShutDown, CloseTypes, SlotTypes, closers
  <2> QED
    BY <1>7, <2>1, <2>2, <2>3, <2>4 DEF ShutDown
<1> QED
  BY <1>2, <1>3, <1>4, <1>5, <1>6, <1>7 DEF UserSteps, Quit, DockQuit

\* The steps of a window's builder and closer keep the types.
LEMMA WindowTypeStep ==
    ASSUME ManagerTypeOK, NEW w \in Windows, BuilderSteps(w) \/ CloserSteps(w) \/ PageListens(w)
    PROVE  ManagerTypeOK'
<1> USE TypesRest DEF ManagerTypeOK
<1>1. CASE BuildWindow(w)
  <2>1. BuildTypes' /\ PlatformTypes'
    BY <1>1 DEF BuildWindow, Advance, BuildTypes, BuilderStates, PlatformTypes
  <2> QED
    BY <1>1, <2>1 DEF BuildWindow
<1>2. CASE PrepareWindow(w)
  <2>1. BuildTypes' /\ PlatformTypes'
    BY <1>2 DEF PrepareWindow, Advance, BuildTypes, BuilderStates, PlatformTypes
  <2> QED
    BY <1>2, <2>1 DEF PrepareWindow
<1>3. CASE CreateRenderSink(w)
  <2>1. BuildTypes' /\ PlatformTypes'
    BY <1>3 DEF CreateRenderSink, Advance, BuildTypes, BuilderStates, PlatformTypes
  <2>2. ActorTypes'
    BY <1>3 DEF CreateRenderSink, ActorTypes
  <2> QED
    BY <1>3, <2>1, <2>2 DEF CreateRenderSink
<1>4. CASE AttachSession(w)
  <2>1. BuildTypes' /\ PlatformTypes'
    BY <1>4 DEF AttachSession, Advance, BuildTypes, BuilderStates, PlatformTypes
  <2> QED
    BY <1>4, <2>1 DEF AttachSession
<1>5. CASE InsertSlot(w)
  <2>1. BuildTypes' /\ SlotTypes'
    BY <1>5, ViewTypes DEF InsertSlot, Advance, BuildTypes, BuilderStates, SlotTypes
  <2>2. PumpTypes'
    BY <1>5 DEF InsertSlot, PumpTypes
  <2> QED
    BY <1>5, <2>1, <2>2 DEF InsertSlot
<1>6. CASE ShowWindow(w)
  <2>1. BuildTypes' /\ PlatformTypes'
    BY <1>6 DEF ShowWindow, Advance, BuildTypes, BuilderStates, PlatformTypes
  <2> QED
    BY <1>6, <2>1 DEF ShowWindow
<1>7. CASE BuildFails(w)
  <2>1. BuildTypes'
    BY <1>7 DEF BuildFails, Advance, BuildTypes, BuilderStates
  <2> QED
    BY <1>7, <2>1 DEF BuildFails
<1>8. CASE DiscardClose(w)
  <2>1. BuildTypes'
    BY <1>8 DEF DiscardClose, Advance, BuildTypes, BuilderStates
  <2>2. SlotTypes' /\ ActorTypes' /\ finish' \in [Actors -> {"none", "wait", "over"}]
    BY <1>8, CloseKeepsTypes DEF DiscardClose
  <2>3. CloseTypes'
    BY <1>8, <2>2 DEF DiscardClose, CloseTypes, closers
  <2> QED
    BY <1>8, <2>1, <2>2, <2>3 DEF DiscardClose
<1>9. ASSUME DestroyWindow(w) PROVE PlatformTypes' /\ PageTypes'
  BY <1>9 DEF DestroyWindow, PlatformTypes, PageTypes
<1>10. CASE DiscardWindow(w)
  <2>1. BuildTypes' /\ UserTypes' /\ AppTypes'
    BY <1>10 DEF DiscardWindow, Advance, BuildTypes, BuilderStates, UserTypes, AppTypes
  <2> QED
    BY <1>9, <1>10, <2>1 DEF DiscardWindow
<1>11. CASE DestroyClosed(w)
  <2>1. CloseTypes'
    BY <1>11 DEF DestroyClosed, CloseTypes
  <2> QED
    BY <1>9, <1>11, <2>1 DEF DestroyClosed
<1>12. CASE ForgetClosed(w)
  <2>1. AppTypes' /\ CloseTypes'
    BY <1>12 DEF ForgetClosed, AppTypes, CloseTypes
  <2> QED
    BY <1>12, <2>1 DEF ForgetClosed
<1>13. CASE PageListens(w)
  <2>1. PageTypes'
    BY <1>13 DEF PageListens, PageTypes
  <2> QED
    BY <1>13, <2>1 DEF PageListens
<1> QED
  BY <1>1, <1>2, <1>3, <1>4, <1>5, <1>6, <1>7, <1>8, <1>10, <1>11, <1>12, <1>13
     DEF BuilderSteps, CloserSteps

\* The steps of a session's actor, pump and close keep the types.
LEMMA SessionTypeStep ==
    ASSUME ManagerTypeOK, SessionInv, NEW a \in Actors,
           ActorEmits(a) \/ ActorExits(a) \/ PumpSteps(a) \/ CloseFinishes(a)
    PROVE  ManagerTypeOK'
<1> USE TypesRest, ManagerAssumption DEF ManagerTypeOK
<1>1. CASE ActorEmits(a)
  <2>1. ActorTypes'
    <3>1. PICK event \in SessionEvent : events' = [events EXCEPT ![a] = Append(@, event)]
      BY <1>1 DEF ActorEmits
    <3> QED
      BY <1>1, <3>1 DEF ActorEmits, ActorTypes
  <2> QED
    BY <1>1, <2>1 DEF ActorEmits
<1>2. CASE ActorExits(a)
  <2>1. ActorTypes'
    BY <1>2 DEF ActorExits, ActorTypes
  <2> QED
    BY <1>2, <2>1 DEF ActorExits
<1>3. CASE PumpRecv(a)
  <2>1. ActorTypes' /\ Head(events[a]) \in SessionEvent
    <3>1. events[a] \in Seq(SessionEvent) /\ events[a] # << >>
      BY <1>3 DEF PumpRecv, ActorTypes
    <3>2. Head(events[a]) \in SessionEvent /\ Tail(events[a]) \in Seq(SessionEvent)
      BY <3>1
    <3> QED
      BY <1>3, <3>2 DEF PumpRecv, ActorTypes
  <2> DEFINE view == apply(slot[home[a]].view, Head(events[a]))
  <2>2. CASE Owns(a) /\ slot' = [slot EXCEPT ![home[a]].view = view]
             /\ carried' = [carried EXCEPT ![a] = view] /\ pump' = [pump EXCEPT ![a] = "deliver"]
    <3>1. home[a] \in Windows
      BY <1>3 DEF PumpRecv, SessionInv, SessionOf
    <3>2. view \in View
      BY <2>1, <3>1, ViewTypes DEF SlotTypes
    <3>3. SlotTypes' /\ PumpTypes'
      BY <1>3, <2>2, <3>1, <3>2 DEF PumpRecv, SlotTypes, PumpTypes
    <3> QED
      BY <1>3, <2>1, <3>3 DEF PumpRecv
  <2>3. CASE UNCHANGED << slot, carried, pump >>
    <3>1. UNCHANGED << slot, pumps >>
      BY <1>3, <2>3 DEF PumpRecv, pumps
    <3> QED
      BY <1>3, <2>1, <3>1 DEF PumpRecv
  <2> QED
    BY <1>3, <2>2, <2>3 DEF PumpRecv
<1>4. CASE PumpDeliver(a)
  <2>1. PageTypes' /\ PumpTypes'
    BY <1>4, ViewTypes DEF PumpDeliver, apply_view, PageTypes, PumpTypes
  <2> QED
    BY <1>4, <2>1 DEF PumpDeliver
<1>5. CASE PumpEnd(a)
  <2>1. SlotTypes' /\ PumpTypes'
    BY <1>5 DEF PumpEnd, SlotTypes, PumpTypes
  <2> QED
    BY <1>5, <2>1 DEF PumpEnd
<1>6. CASE PumpRelease(a)
  <2>1. PumpTypes'
    BY <1>6 DEF PumpRelease, PumpTypes
  <2>2. PlatformTypes' /\ ended' \in [Actors -> Nat]
    BY <1>6, ReleaseKeepsTypes DEF PumpRelease
  <2>3. CloseTypes'
    BY <1>6, <2>2 DEF PumpRelease, CloseTypes, closers
  <2> QED
    BY <1>6, <2>1, <2>2, <2>3 DEF PumpRelease
<1>7. CASE PumpStops(a)
  <2>1. PumpTypes'
    BY <1>7 DEF PumpStops, PumpTypes
  <2> QED
    BY <1>7, <2>1 DEF PumpStops
<1>8. CASE CloseFinishes(a)
  <2>1. PumpTypes'
    BY <1>8 DEF CloseFinishes, Finished, PumpTypes
  <2>2. PlatformTypes' /\ ended' \in [Actors -> Nat]
    BY <1>8, ReleaseKeepsTypes DEF CloseFinishes
  <2>3. CloseTypes'
    BY <1>8, <2>2 DEF CloseFinishes, CloseTypes, closers
  <2> QED
    BY <1>8, <2>1, <2>2, <2>3 DEF CloseFinishes
<1> QED
  BY <1>1, <1>2, <1>3, <1>4, <1>5, <1>6, <1>7, <1>8 DEF PumpSteps

\* Every step keeps the types.
LEMMA TypeStep ==
    ASSUME ManagerTypeOK, SessionInv, [Next]_vars
    PROVE  ManagerTypeOK'
<1> USE TypesRest DEF ManagerTypeOK
<1>1. CASE ShutdownNext
  <2>1. PICK a \in Actors :
           Finished(a) /\ session_ended(a) /\ shutdown' = shutdown \ {a}
    BY <1>1 DEF ShutdownNext, CloseTypes
  <2>2. PumpTypes'
    BY <1>1, <2>1 DEF ShutdownNext, Finished, PumpTypes
  <2>3. PlatformTypes' /\ ended' \in [Actors -> Nat]
    BY <1>1, <2>1, ReleaseKeepsTypes DEF ShutdownNext
  <2>4. CloseTypes'
    BY <1>1, <2>1, <2>3 DEF ShutdownNext, CloseTypes, closers
  <2> QED
    BY <1>1, <2>2, <2>3, <2>4 DEF ShutdownNext
<1>2. CASE Exit
  <2>1. AppTypes'
    BY <1>2 DEF Exit, AppTypes
  <2> QED
    BY <1>2, <2>1 DEF Exit
<1>3. CASE UNCHANGED vars
  BY <1>3 DEF vars, user, appstate, connects, build, platform, pages, actor, pumps, closers
<1> QED
  BY <1>1, <1>2, <1>3, ConnectTypeStep, UserTypeStep, WindowTypeStep, SessionTypeStep DEF Next

-----------------------------------------------------------------------------
(* Numbers.                                                                  *)

\* The number after those of a set that has no gaps is new, and leaves no gap.
LEMMA NextNumber ==
    ASSUME NEW n \in Nat, NEW S \in SUBSET (1 .. n),
           \A i \in S : \A j \in 1 .. n : j < i => j \in S,
           NEW k \in 1 .. n, k = Cardinality(S) + 1
    PROVE  k \notin S /\ \A j \in 1 .. n : j < k => j \in S
<1>1. IsFiniteSet(S) /\ Cardinality(S) \in Nat
  <2>1. IsFiniteSet(1 .. n)
    BY FS_Interval
  <2>2. IsFiniteSet(S)
    BY <2>1, FS_Subset
  <2> QED
    BY <2>2, FS_CardinalityType
<1>2. ASSUME k \in S PROVE FALSE
  <2>1. 1 .. k \subseteq S
    BY <1>2
  <2>2. IsFiniteSet(1 .. k) /\ Cardinality(1 .. k) = k
    BY FS_Interval
  <2>3. Cardinality(1 .. k) <= Cardinality(S)
    BY <1>1, <2>1, FS_Subset
  <2> QED
    BY <1>1, <2>2, <2>3
<1>3. ASSUME NEW j \in 1 .. n, j < k, j \notin S PROVE FALSE
  <2>1. S \subseteq 1 .. (j - 1)
    BY <1>3
  <2>2. IsFiniteSet(1 .. (j - 1)) /\ Cardinality(1 .. (j - 1)) = j - 1
    <3>1. j \in Int /\ j - 1 \in Int /\ 1 \in Int /\ j >= 1
      OBVIOUS
    <3>2. /\ IsFiniteSet(1 .. (j - 1))
          /\ Cardinality(1 .. (j - 1)) = IF 1 > j - 1 THEN 0 ELSE (j - 1) - 1 + 1
      BY <3>1, FS_Interval
    <3> QED
      BY <3>1, <3>2
  <2>3. Cardinality(S) <= Cardinality(1 .. (j - 1))
    BY <2>1, <2>2, FS_Subset
  <2> QED
    BY <1>1, <1>3, <2>2, <2>3
<1> QED
  BY <1>2, <1>3

\* The number a new session gets is that of no started one.
LEMMA NewSession ==
    ASSUME NumberingInv, NEW new \in Actors, new = Cardinality(Started) + 1
    PROVE  life[new] = "none" /\ \A b \in Actors : b < new => b \in Started
<1>1. MaxActors \in Nat /\ Started \subseteq 1 .. MaxActors
  BY ManagerAssumption DEF Started, Actors
<1>2. new \notin Started /\ \A b \in 1 .. MaxActors : b < new => b \in Started
  BY <1>1, NextNumber DEF NumberingInv, Actors
<1> QED
  BY <1>2 DEF Started, Actors

\* The number a new window gets is that of no opened one.
LEMMA NewWindow ==
    ASSUME NumberingInv, NEW new \in Windows, new = Cardinality(Opened) + 1
    PROVE  target[new] = NoProfile /\ \A v \in Windows : v < new => v \in Opened
<1>1. MaxWindows \in Nat /\ Opened \subseteq 1 .. MaxWindows
  BY ManagerAssumption DEF Opened, Windows
<1>2. new \notin Opened /\ \A v \in 1 .. MaxWindows : v < new => v \in Opened
  BY <1>1, NextNumber DEF NumberingInv, Windows
<1> QED
  BY <1>2 DEF Opened, Windows

\* A step that starts no session and opens no window keeps the numbers without gaps.
LEMMA NumbersRest ==
    ASSUME NumberingInv,
           \A a \in Actors : life'[a] # "none" <=> life[a] # "none",
           UNCHANGED target
    PROVE  NumberingInv'
BY DEF NumberingInv, Started, Opened

-----------------------------------------------------------------------------
(* Steps that leave a window, or a session, alone.                           *)

\* A step leaves window w, its record, its builder and its closer alone.
WindowRests(w) ==
    /\ target'[w] = target[w] /\ builder'[w] = builder[w] /\ building'[w] = building[w]
    /\ window_profiles'[w] = window_profiles[w]
    /\ slot'[w].profile = slot[w].profile /\ slot'[w].live = slot[w].live
    /\ exists'[w] = exists[w] /\ closer'[w] = closer[w]

\* A step keeps the sessions that have started, in their windows, and no pump of a session that
\* its builder carries starts.
SessionsStay ==
    /\ \A a \in Actors : life[a] # "none" => life'[a] # "none" /\ home'[a] = home[a]
    /\ \A w \in Windows : Carries(w) => pump'[building[w]] = pump[building[w]]

LEMMA WindowStays ==
    ASSUME ManagerTypeOK, NEW w \in Windows, WindowOf(w), WindowRests(w), SessionsStay,
           saved' \subseteq saved
    PROVE  WindowOf(w)'
<1>1. slot[w].live \in Actors \cup {NoActor}
  BY DEF ManagerTypeOK, SlotTypes
<1> QED
  BY <1>1 DEF WindowOf, WindowRests, SessionsStay, HasSlot, Carries

\* A step leaves session a alone, except that it may be told to close or exit.
SessionRests(a) ==
    /\ home'[a] = home[a] /\ pump'[a] = pump[a] /\ finish'[a] = finish[a]
    /\ ended'[a] = ended[a] /\ aborted'[a] = aborted[a] /\ (a \in shutdown' <=> a \in shutdown)
    /\ life'[a] # "none" <=> life[a] # "none"
    /\ life'[a] = "running" => life[a] = "running"

\* A step leaves alone what session a needs of its window.
HomeRests(a) ==
    life[a] # "none" =>
        /\ Owns(a)' <=> Owns(a)
        /\ target'[home[a]] = target[home[a]]
        /\ Carries(home[a]) => Carries(home[a])' /\ building'[home[a]] = building[home[a]]

LEMMA SessionStays ==
    ASSUME NEW a \in Actors, SessionOf(a), SessionRests(a), HomeRests(a)
    PROVE  SessionOf(a)'
BY DEF SessionOf, SessionRests, HomeRests, Owns, Carries

\* A window left alone leaves its sessions what they need of it.
LEMMA HomeStays ==
    ASSUME NEW a \in Actors, SessionOf(a), home'[a] = home[a],
           life[a] # "none" => WindowRests(home[a])
    PROVE  HomeRests(a)
BY DEF SessionOf, WindowRests, HomeRests, Owns, Carries

\* A step that leaves every session and every window alone.
LEMMA QuietStep ==
    ASSUME ManagerInv, saved' \subseteq saved, UNCHANGED target,
           \A w \in Windows : WindowRests(w), \A a \in Actors : SessionRests(a)
    PROVE  NumberingInv' /\ WindowInv' /\ SessionInv'
<1> ManagerTypeOK /\ NumberingInv /\ WindowInv /\ SessionInv
  BY DEF ManagerInv
<1>1. NumberingInv'
  BY NumbersRest DEF SessionRests
<1>2. SessionsStay
  BY DEF SessionsStay, SessionRests, WindowInv, WindowOf
<1>3. WindowInv'
  BY <1>2, WindowStays DEF WindowInv
<1>4. ASSUME NEW a \in Actors PROVE SessionOf(a)'
  <2>1. SessionOf(a) /\ SessionRests(a)
    BY DEF SessionInv
  <2>2. HomeRests(a)
    BY <2>1, HomeStays DEF SessionRests, SessionOf
  <2> QED
    BY <2>1, <2>2, SessionStays
<1> QED
  BY <1>1, <1>3, <1>4 DEF SessionInv

\* A step of window w's builder or closer, or a command, that leaves every other window alone and
\* every session, except for what it needs of window w.
LEMMA OneWindowStep ==
    ASSUME ManagerInv, NEW w \in Windows, saved' \subseteq saved, UNCHANGED target,
           \A v \in Windows \ {w} : WindowRests(v),
           \A a \in Actors : SessionRests(a),
           \A a \in Actors : home[a] = w /\ SessionOf(a) => HomeRests(a),
           WindowOf(w)'
    PROVE  NumberingInv' /\ WindowInv' /\ SessionInv'
<1> ManagerTypeOK /\ NumberingInv /\ WindowInv /\ SessionInv
  BY DEF ManagerInv
<1>1. NumberingInv'
  BY NumbersRest DEF SessionRests
<1>2. SessionsStay
  BY DEF SessionsStay, SessionRests, WindowInv, WindowOf
<1>3. WindowInv'
  BY <1>2, WindowStays DEF WindowInv
<1>4. ASSUME NEW a \in Actors PROVE SessionOf(a)'
  <2>1. SessionOf(a) /\ SessionRests(a)
    BY DEF SessionInv
  <2>2. HomeRests(a)
    BY <2>1, HomeStays DEF SessionRests, SessionOf
  <2> QED
    BY <2>1, <2>2, SessionStays
<1> QED
  BY <1>1, <1>3, <1>4 DEF SessionInv

-----------------------------------------------------------------------------
(* The steps.                                                                *)

\* Toggles, answers, pages, actors and deliveries touch no window's record, builder or closer,
\* and of a session only its events, its view and whether it still runs.
LEMMA QuietSteps ==
    ASSUME ManagerInv,
           \/ \E w \in Windows : toggle_stats(w) \/ answer_certificate(w) \/ PageListens(w)
           \/ \E a \in Actors : ActorEmits(a) \/ ActorExits(a)
           \/ Exit
    PROVE  NumberingInv' /\ WindowInv' /\ SessionInv'
<1> SUFFICES /\ saved' \subseteq saved /\ UNCHANGED target
             /\ \A w \in Windows : WindowRests(w)
             /\ \A a \in Actors : SessionRests(a)
  BY QuietStep
<1> ManagerTypeOK
  BY DEF ManagerInv
<1>1. ASSUME NEW w \in Windows, toggle_stats(w) \/ answer_certificate(w)
      PROVE  /\ \A v \in Windows : slot'[v].profile = slot[v].profile /\ slot'[v].live = slot[v].live
             /\ UNCHANGED << saved, appstate, build, platform, actor, pumps, finish, ended, closers,
                             shutdown >>
  BY <1>1 DEF toggle_stats, answer_certificate, user, ManagerTypeOK, SlotTypes
<1>2. ASSUME NEW w \in Windows, PageListens(w)
      PROVE  UNCHANGED << saved, appstate, slot, build, platform, actor, pumps, finish, ended,
                          closers, shutdown >>
  BY <1>2 DEF PageListens, user
<1>3. ASSUME NEW a \in Actors, ActorEmits(a) \/ ActorExits(a)
      PROVE  /\ \A b \in Actors : /\ life'[b] # "none" <=> life[b] # "none"
                                  /\ life'[b] = "running" => life[b] = "running"
             /\ UNCHANGED << saved, appstate, slot, build, platform, home, pumps, finish, ended,
                             closers, shutdown >>
  BY <1>3 DEF ActorEmits, ActorExits, user, ManagerTypeOK, ActorTypes
<1>4. ASSUME Exit
      PROVE  UNCHANGED << saved, window_profiles, slot, build, platform, actor, pumps, finish, ended,
                          closers, shutdown >>
  BY <1>4 DEF Exit, user
<1> QED
  BY <1>1, <1>2, <1>3, <1>4
     DEF WindowRests, SessionRests, appstate, build, platform, actor, pumps, closers

\* The builder's steps before and after it records the session.
LEMMA BuilderStep ==
    ASSUME ManagerInv, NEW w \in Windows,
           BuildWindow(w) \/ PrepareWindow(w) \/ AttachSession(w) \/ ShowWindow(w) \/ BuildFails(w)
           \/ DiscardWindow(w) \/ DestroyClosed(w) \/ ForgetClosed(w)
    PROVE  NumberingInv' /\ WindowInv' /\ SessionInv'
<1> ManagerTypeOK /\ WindowInv /\ SessionInv /\ WindowOf(w)
  BY DEF ManagerInv, WindowInv
<1>1. /\ saved' = saved /\ UNCHANGED << target, building, slot, actor, pumps, finish, ended, shutdown >>
      /\ \A v \in Windows \ {w} :
            /\ builder'[v] = builder[v] /\ window_profiles'[v] = window_profiles[v]
            /\ exists'[v] = exists[v] /\ closer'[v] = closer[v]
  BY DEF BuildWindow, PrepareWindow, AttachSession, ShowWindow, BuildFails, DiscardWindow,
         DestroyClosed, ForgetClosed, DestroyWindow, Advance, user, build, platform, appstate,
         closers, ManagerTypeOK, BuildTypes, AppTypes, PlatformTypes, CloseTypes
<1>2. /\ Carries(w) <=> Carries(w)'
      /\ builder[w] = "none" <=> builder'[w] = "none"
      /\ builder[w] \in Recorded => builder'[w] \in Recorded
      /\ builder'[w] = "discarding" => builder[w] = "discarding"
      /\ builder[w] = "done" => builder'[w] = "done"
      /\ exists'[w] = "shown" => exists[w] = "shown" \/ builder'[w] = "done"
      /\ window_profiles'[w] \in {window_profiles[w], NoProfile}
      /\ closer'[w] \in {"wait", "forget"} => closer[w] \in {"wait", "forget"}
      /\ closer[w] = "none" => closer'[w] = "none"
      /\ window_profiles'[w] # window_profiles[w] =>
            builder[w] = "discarding" \/ closer[w] = "forget"
  BY DEF BuildWindow, PrepareWindow, AttachSession, ShowWindow, BuildFails, DiscardWindow,
         DestroyClosed, ForgetClosed, DestroyWindow, Advance, user, build, platform, appstate,
         closers, Carries, Recorded, ManagerTypeOK, BuildTypes, AppTypes, PlatformTypes, CloseTypes
<1>3. WindowOf(w)'
  BY <1>1, <1>2 DEF WindowOf, actor, pumps, HasSlot, Carries, Recorded
<1>4. \A v \in Windows \ {w} : WindowRests(v)
  BY <1>1 DEF WindowRests
<1>5. \A a \in Actors : SessionRests(a)
  BY <1>1 DEF SessionRests, actor, pumps
<1>6. \A a \in Actors : home[a] = w /\ SessionOf(a) => HomeRests(a)
  BY <1>1, <1>2 DEF HomeRests, Owns, actor
<1> QED
  BY <1>1, <1>3, <1>4, <1>5, <1>6, OneWindowStep

\* A step of the pump or the close of session a, which no builder carries: it leaves every other
\* session and every window alone.
LEMMA OneSessionStep ==
    ASSUME ManagerInv, NEW a \in Actors, UNCHANGED << saved, life, home, target >>,
           \A w \in Windows : WindowRests(w),
           \A b \in Actors \ {a} : SessionRests(b),
           pump[a] # "none", SessionOf(a)'
    PROVE  NumberingInv' /\ WindowInv' /\ SessionInv'
<1> ManagerTypeOK /\ NumberingInv /\ WindowInv /\ SessionInv
  BY DEF ManagerInv
<1>1. NumberingInv'
  BY NumbersRest
<1>2. SessionsStay
  <2>1. \A w \in Windows : Carries(w) => building[w] \in Actors \ {a}
    BY DEF WindowInv, WindowOf
  <2> QED
    BY <2>1 DEF SessionsStay, SessionRests
<1>3. WindowInv'
  BY <1>2, WindowStays DEF WindowInv
<1>4. ASSUME NEW b \in Actors \ {a} PROVE SessionOf(b)'
  <2>1. SessionOf(b) /\ SessionRests(b)
    BY DEF SessionInv
  <2>2. HomeRests(b)
    BY <2>1, HomeStays DEF SessionRests, SessionOf
  <2> QED
    BY <2>1, <2>2, SessionStays
<1> QED
  BY <1>1, <1>3, <1>4 DEF SessionInv

\* The pump folds an event, hands over a view, or stops: the window keeps its session.
LEMMA PumpStep ==
    ASSUME ManagerInv, NEW a \in Actors, PumpRecv(a) \/ PumpDeliver(a) \/ PumpStops(a)
    PROVE  NumberingInv' /\ WindowInv' /\ SessionInv'
<1> ManagerTypeOK /\ WindowInv /\ SessionOf(a)
  BY DEF ManagerInv, SessionInv
<1>1. /\ UNCHANGED << saved, life, home, build, platform, window_profiles, aborted, finish, ended,
                      closers, shutdown >>
      /\ pump[a] \in {"recv", "deliver"} /\ \A b \in Actors \ {a} : pump'[b] = pump[b]
      /\ \A w \in Windows : slot'[w].profile = slot[w].profile /\ slot'[w].live = slot[w].live
  BY DEF PumpRecv, PumpDeliver, PumpStops, ManagerTypeOK, PumpTypes, SlotTypes, user, appstate,
         actor, pumps
<1>2. pump'[a] \in {"recv", "deliver"} \/ (pump'[a] = "done" /\ aborted[a])
  BY DEF PumpRecv, PumpDeliver, PumpStops, ManagerTypeOK, PumpTypes
<1>3. \A w \in Windows : WindowRests(w)
  BY <1>1 DEF WindowRests, build, platform, closers
<1>4. SessionOf(a)'
  BY <1>1, <1>2, <1>3 DEF SessionOf, WindowRests, Owns, Carries, build
<1> QED
  BY <1>1, <1>3, <1>4, OneSessionStep DEF SessionRests, build

\* What releasing a session, by its pump or by whoever waited for it, leaves alone.
LEMMA ReleaseStep ==
    ASSUME ManagerInv, NEW a \in Actors,
           \/ PumpRelease(a)
           \/ CloseFinishes(a)
           \/ ShutdownNext /\ a \in shutdown /\ session_ended(a) /\ Finished(a)
              /\ shutdown' = shutdown \ {a}
    PROVE  NumberingInv' /\ WindowInv' /\ SessionInv'
<1> ManagerTypeOK /\ WindowInv /\ SessionOf(a)
  BY DEF ManagerInv, SessionInv
<1>1. /\ UNCHANGED << saved, life, home, build, window_profiles, exists, closers, slot >>
      /\ ended'[a] = ended[a] + 1
      /\ \A b \in Actors \ {a} :
            /\ pump'[b] = pump[b] /\ finish'[b] = finish[b] /\ ended'[b] = ended[b]
            /\ aborted'[b] = aborted[b] /\ (b \in shutdown' <=> b \in shutdown)
  BY DEF PumpRelease, CloseFinishes, ShutdownNext, Finished, session_ended, ManagerTypeOK, PumpTypes,
         CloseTypes, user, appstate, actor, pumps
<1>2. \/ pump[a] = "release" /\ pump'[a] = "done" /\ UNCHANGED << finish, aborted, shutdown >>
      \/ finish[a] = "wait" /\ finish'[a] = "over" /\ UNCHANGED << pump, shutdown >>
      \/ a \in shutdown /\ shutdown' = shutdown \ {a} /\ UNCHANGED << pump, finish >>
  BY DEF PumpRelease, CloseFinishes, ShutdownNext, ManagerTypeOK, PumpTypes, CloseTypes, pumps
<1>3. \A w \in Windows : WindowRests(w)
  BY <1>1 DEF WindowRests, build, closers
<1>4. ended[a] = 0 /\ pump[a] # "none" /\ ~ (life[a] # "none" /\ Owns(a))
  BY <1>2 DEF SessionOf
<1>5. SessionOf(a)'
  BY <1>1, <1>2, <1>4 DEF SessionOf, Owns, Carries, build
<1> QED
  BY <1>1, <1>3, <1>4, <1>5, OneSessionStep DEF SessionRests, build

\* The stream of a session has ended: its window loses it, or has lost it already.
LEMMA PumpEndStep ==
    ASSUME ManagerInv, NEW a \in Actors, PumpEnd(a)
    PROVE  NumberingInv' /\ WindowInv' /\ SessionInv'
<1> ManagerTypeOK /\ NumberingInv /\ WindowInv /\ SessionInv /\ SessionOf(a)
  BY DEF ManagerInv, SessionInv
<1> PICK h \in Windows : h = home[a]
  BY DEF PumpEnd, SessionOf
<1>1. /\ UNCHANGED << saved, life, home, build, window_profiles, exists, closers, aborted, finish,
                      ended, shutdown >>
      /\ pump[a] = "recv" /\ life[a] = "exited"
      /\ \A b \in Actors \ {a} : pump'[b] = pump[b]
  BY DEF PumpEnd, ManagerTypeOK, PumpTypes, SessionOf, user, appstate, actor, platform
<1>2. CASE ~ Owns(a) /\ pump' = [pump EXCEPT ![a] = "done"] /\ UNCHANGED slot
  <2>1. pump'[a] = "done"
    BY <1>2 DEF ManagerTypeOK, PumpTypes
  <2>2. \A w \in Windows : WindowRests(w)
    BY <1>1, <1>2 DEF WindowRests, build, closers
  <2>3. SessionOf(a)'
    BY <1>1, <1>2, <2>1 DEF SessionOf, Owns, Carries, build
  <2> QED
    BY <1>1, <2>2, <2>3, OneSessionStep DEF SessionRests, build
<1>3. CASE Owns(a) /\ slot' = [slot EXCEPT ![h].live = NoActor]
           /\ pump' = [pump EXCEPT ![a] = "release"]
  <2>1. /\ pump'[a] = "release" /\ slot'[h].live = NoActor /\ slot'[h].profile = slot[h].profile
        /\ \A w \in Windows \ {h} : slot'[w] = slot[w]
    BY <1>1, <1>3 DEF ManagerTypeOK, PumpTypes, SlotTypes
  <2>2. NumberingInv'
    BY <1>1, NumbersRest DEF build
  <2>3. SessionsStay
    BY <1>1 DEF SessionsStay, WindowInv, WindowOf
  <2>4. \A w \in Windows \ {h} : WindowOf(w)'
    BY <1>1, <2>1, <2>3, WindowStays DEF WindowInv, WindowRests, build, closers
  <2>5. WindowOf(h)'
    BY <1>1, <2>1, <2>3 DEF WindowInv, WindowOf, build, closers, HasSlot, Carries, SessionsStay
  <2>6. \A b \in Actors \ {a} : SessionRests(b)
    BY <1>1 DEF SessionRests
  <2>7. ASSUME NEW b \in Actors \ {a} PROVE HomeRests(b)
    <3>1. b # slot[h].live /\ b # NoActor
      BY <1>3 DEF Owns, Actors, NoActor
    <3> QED
      BY <1>1, <2>1, <3>1 DEF HomeRests, Owns, build, Carries, SessionInv, SessionOf
  <2>8. \A b \in Actors \ {a} : SessionOf(b)'
    BY <2>6, <2>7, SessionStays DEF SessionInv
  <2>9. SessionOf(a)'
    BY <1>1, <1>3, <2>1 DEF SessionOf, Owns, Carries, build, Actors, NoActor
  <2> QED
    BY <2>2, <2>4, <2>5, <2>8, <2>9 DEF WindowInv, SessionInv
<1> QED
  BY <1>2, <1>3 DEF PumpEnd

\* A window's session is taken from it and awaited: by its close, by the delete of its profile or
\* by its builder, which discards it.
LEMMA CloseStep ==
    ASSUME ManagerInv, NEW w \in Windows, close(w), saved' \subseteq saved,
           UNCHANGED << target, building, window_profiles, exists, home, pumps, ended, shutdown >>,
           \A v \in Windows \ {w} : builder'[v] = builder[v] /\ closer'[v] = closer[v],
           builder'[w] = builder[w] \/ (builder[w] = "discard" /\ builder'[w] = "discarding"),
           builder[w] # "none", target[w] \in saved' => builder[w] \in Recorded
    PROVE  NumberingInv' /\ WindowInv' /\ SessionInv'
<1> ManagerTypeOK /\ NumberingInv /\ WindowInv /\ SessionInv
  BY DEF ManagerInv
<1> PICK old \in Actors \cup {NoActor} : old = slot[w].live
  BY DEF ManagerTypeOK, SlotTypes
<1>1. /\ slot'[w] = NoSlot /\ \A v \in Windows \ {w} : slot'[v] = slot[v]
      /\ \A a \in Actors :
            /\ finish'[a] = IF a = old THEN "wait" ELSE finish[a]
            /\ life'[a] = IF a = old /\ life[a] = "running" THEN "told" ELSE life[a]
  BY DEF close, Told, ManagerTypeOK, SlotTypes
<1>2. NumberingInv'
  BY <1>1, NumbersRest
<1>3. SessionsStay
  BY <1>1 DEF SessionsStay, pumps
<1>4. \A v \in Windows \ {w} : WindowOf(v)'
  <2>1. \A v \in Windows \ {w} : WindowRests(v)
    BY <1>1 DEF WindowRests
  <2> QED
    BY <1>3, <2>1, WindowStays DEF WindowInv
<1>5. WindowOf(w)'
  <2>1. slot'[w].profile = NoProfile /\ slot'[w].live = NoActor
    BY <1>1 DEF NoSlot
  <2> QED
    BY <1>1, <1>3, <2>1 DEF WindowInv, WindowOf, HasSlot, Carries, SessionsStay, Recorded, pumps
<1>6. ASSUME NEW a \in Actors, a # old PROVE SessionOf(a)'
  <2>1. SessionRests(a)
    BY <1>1, <1>6 DEF SessionRests, pumps
  <2>2. HomeRests(a)
    <3>1. slot'[w].live # a
      BY <1>1 DEF NoSlot, Actors, NoActor
    <3> QED
      BY <1>1, <1>6, <3>1 DEF HomeRests, Owns, Carries, SessionInv, SessionOf
  <2> QED
    BY <2>1, <2>2, SessionStays DEF SessionInv
<1>7. ASSUME old \in Actors PROVE SessionOf(old)'
  <2>1. home[old] = w /\ life[old] # "none" /\ Owns(old) /\ SessionOf(old)
    BY <1>7 DEF WindowInv, WindowOf, Owns, SessionInv, Actors, NoActor
  <2>2. slot'[w].live # old
    BY <1>1, <1>7 DEF NoSlot, Actors, NoActor
  <2>3. ~ Carries(w) \/ building[w] # old
    BY <2>1 DEF WindowInv, WindowOf, SessionOf
  <2> QED
    BY <1>1, <1>7, <2>1, <2>2, <2>3 DEF SessionOf, Owns, Carries, pumps
<1> QED
  BY <1>2, <1>4, <1>5, <1>6, <1>7 DEF WindowInv, SessionInv

\* The user closes a window, a profile with its window is deleted, or the builder gives up.
LEMMA CloseSteps ==
    ASSUME ManagerInv,
           \/ \E p \in Profiles : Delete(p)
           \/ \E w \in Windows : Close(w) \/ DiscardClose(w)
    PROVE  NumberingInv' /\ WindowInv' /\ SessionInv'
<1> ManagerTypeOK /\ WindowInv
  BY DEF ManagerInv
<1>1. ASSUME NEW p \in Profiles, Delete(p), NEW w \in Windows, close_session_window(w),
             slot[w].profile = p \/ window_profiles[w] = p
      PROVE  NumberingInv' /\ WindowInv' /\ SessionInv'
  <2>1. target[w] = p /\ builder[w] # "none"
    BY <1>1, ManagerAssumption DEF WindowInv, WindowOf, HasSlot
  <2>2. /\ saved' = saved \ {p}
        /\ UNCHANGED << window_profiles, build, platform, home, pumps, ended, shutdown >>
    BY <1>1 DEF Delete
  <2>3. close(w) /\ \A v \in Windows \ {w} : closer'[v] = closer[v]
    BY <1>1 DEF close_session_window, ManagerTypeOK, CloseTypes
  <2>4. /\ saved' \subseteq saved /\ target[w] \notin saved'
        /\ UNCHANGED << target, building, window_profiles, exists, home, pumps, ended, shutdown >>
        /\ \A v \in Windows : builder'[v] = builder[v]
    BY <2>1, <2>2 DEF build, platform
  <2> QED
    BY <2>1, <2>3, <2>4, CloseStep
<1>2. ASSUME NEW p \in Profiles, Delete(p), UNCHANGED << closing, slot, life, finish, closers >>
      PROVE  NumberingInv' /\ WindowInv' /\ SessionInv'
  <2>1. /\ saved' \subseteq saved
        /\ UNCHANGED << window_profiles, slot, build, platform, home, life, pumps, finish, ended,
                        closers, shutdown >>
    BY <1>2 DEF Delete
  <2> QED
    BY <2>1, QuietStep DEF WindowRests, SessionRests, build, platform, pumps, closers
<1>3. ASSUME NEW w \in Windows, Close(w) PROVE NumberingInv' /\ WindowInv' /\ SessionInv'
  <2>1. builder[w] \in Recorded /\ builder[w] # "none"
    BY <1>3 DEF Close, WindowInv, WindowOf, Recorded
  <2>2. UNCHANGED << saved, window_profiles, build, platform, home, pumps, ended, shutdown >>
    BY <1>3 DEF Close
  <2>3. close(w) /\ \A v \in Windows \ {w} : closer'[v] = closer[v]
    BY <1>3 DEF Close, close_session_window, ManagerTypeOK, CloseTypes
  <2> QED
    BY <2>1, <2>2, <2>3, CloseStep DEF build, platform
<1>4. ASSUME NEW w \in Windows, DiscardClose(w) PROVE NumberingInv' /\ WindowInv' /\ SessionInv'
  <2>1. /\ builder[w] = "discard" /\ builder'[w] = "discarding"
        /\ \A v \in Windows \ {w} : builder'[v] = builder[v]
    BY <1>4 DEF DiscardClose, Advance, ManagerTypeOK, BuildTypes
  <2>2. UNCHANGED << user, appstate, target, building, platform, home, pumps, ended, closers, shutdown >>
    BY <1>4 DEF DiscardClose
  <2> QED
    BY <1>4, <2>1, <2>2, CloseStep DEF DiscardClose, Recorded, user, appstate, platform, closers
<1> QED
  BY <1>1, <1>2, <1>3, <1>4 DEF Delete, window_for, window_of_profile

\* The quit takes every window's session from it.
LEMMA ShutDownStep ==
    ASSUME ManagerInv, NEW next \in {"waiting", "blocking"}, ShutDown(next)
    PROVE  NumberingInv' /\ WindowInv' /\ SessionInv'
<1> ManagerTypeOK /\ NumberingInv /\ WindowInv /\ SessionInv /\ shutdown = {}
  BY DEF ManagerInv, QuitInv, ShutDown
<1>1. /\ \A w \in Windows : slot'[w].profile = NoProfile /\ slot'[w].live = NoActor
      /\ \A a \in Actors :
            /\ life'[a] # "none" <=> life[a] # "none"
            /\ life'[a] = "running" => life[a] = "running" /\ \A w \in Windows : slot[w].live # a
            /\ a \in shutdown' <=> \E w \in Windows : slot[w].live = a
      /\ UNCHANGED << saved, window_profiles, build, platform, home, pumps, finish, ended, closers >>
  BY DEF ShutDown, Told, NoSlot, ManagerTypeOK, SlotTypes, ActorTypes, Actors, NoActor
<1>2. NumberingInv'
  BY <1>1, NumbersRest DEF build
<1>3. ASSUME NEW w \in Windows PROVE WindowOf(w)'
  BY <1>1 DEF WindowInv, WindowOf, HasSlot, Carries, build, platform, pumps, closers
<1>4. ASSUME NEW a \in Actors PROVE SessionOf(a)'
  <2>1. a # NoActor /\ SessionOf(a)
    BY DEF Actors, NoActor, SessionInv
  <2>2. a \in shutdown' <=> life[a] # "none" /\ Owns(a)
    BY <1>1, <2>1 DEF WindowInv, WindowOf, Owns, SessionOf
  <2> QED
    BY <1>1, <2>1, <2>2 DEF SessionOf, Owns, Carries, build, pumps
<1> QED
  BY <1>2, <1>3, <1>4 DEF WindowInv, SessionInv

\* A connect that opens a window opens one nobody has used.
LEMMA ConnectStep ==
    ASSUME ManagerInv, NEW t \in Connectors, ConnectSteps(t)
    PROVE  NumberingInv' /\ WindowInv' /\ SessionInv'
<1> ManagerTypeOK /\ NumberingInv /\ WindowInv /\ SessionInv /\ ChoiceInv
  BY DEF ManagerInv
<1>1. UNCHANGED << saved, slot, building, platform, actor, pumps, finish, ended, closers, shutdown >>
  BY DEF ConnectSteps, ConnectPlan, ConnectWindow, ConnectOpen, user, build
<1>2. CASE UNCHANGED << window_profiles, builder, target >>
  BY <1>1, <1>2, QuietStep DEF WindowRests, SessionRests, platform, actor, pumps, closers
<1> DEFINE p == choice[t]
<1>3. ASSUME NEW w \in Windows, w = Cardinality(Opened) + 1, at[t] = "open",
             window_profiles' = [window_profiles EXCEPT ![w] = p],
             target' = [target EXCEPT ![w] = p], builder' = [builder EXCEPT ![w] = "build"]
      PROVE  NumberingInv' /\ WindowInv' /\ SessionInv'
  <2>1. target[w] = NoProfile /\ \A v \in Windows : v < w => v \in Opened
    BY <1>3, NewWindow
  <2>2. /\ target'[w] = p /\ window_profiles'[w] = p /\ builder'[w] = "build" /\ p # NoProfile
        /\ \A v \in Windows \ {w} : /\ target'[v] = target[v] /\ builder'[v] = builder[v]
                                    /\ window_profiles'[v] = window_profiles[v]
    BY <1>3 DEF ManagerTypeOK, AppTypes, BuildTypes, ChoiceInv
  <2>3. NumberingInv'
    BY <1>1, <2>1, <2>2 DEF NumberingInv, Started, Opened, actor, Windows
  <2>4. SessionsStay
    BY <1>1 DEF SessionsStay, actor, pumps
  <2>5. \A v \in Windows \ {w} : WindowOf(v)'
    BY <1>1, <2>2, <2>4, WindowStays DEF WindowInv, WindowRests, platform, closers
  <2>6. WindowOf(w)'
    <3>1. /\ builder[w] = "none" /\ ~ HasSlot(w) /\ slot[w].live = NoActor /\ exists[w] # "shown"
          /\ closer[w] = "none"
      BY <2>1 DEF WindowInv, WindowOf, Recorded
    <3> QED
      BY <1>1, <2>2, <3>1 DEF WindowOf, HasSlot, Carries, platform, closers
  <2>7. ASSUME NEW a \in Actors PROVE SessionOf(a)'
    <3>1. SessionOf(a) /\ SessionRests(a)
      BY <1>1 DEF SessionInv, SessionRests, actor, pumps
    <3>2. HomeRests(a)
      BY <1>1, <2>1, <2>2, <3>1 DEF HomeRests, SessionOf, Owns, Carries, actor
    <3> QED
      BY <3>1, <3>2, SessionStays
  <2> QED
    BY <2>3, <2>5, <2>6, <2>7 DEF WindowInv, SessionInv
<1>4. CASE ConnectOpen(t)
  BY <1>3, <1>4 DEF ConnectOpen
<1> QED
  BY <1>2, <1>4 DEF ConnectSteps, ConnectPlan, ConnectWindow, appstate, build

\* The builder starts a session, which nobody but the builder knows.
LEMMA StartStep ==
    ASSUME ManagerInv, NEW w \in Windows, CreateRenderSink(w)
    PROVE  NumberingInv' /\ WindowInv' /\ SessionInv'
<1> ManagerTypeOK /\ NumberingInv /\ WindowInv /\ SessionInv
  BY DEF ManagerInv
<1>1. PICK new \in Actors :
         /\ new = Cardinality(Started) + 1
         /\ home' = [home EXCEPT ![new] = w] /\ life' = [life EXCEPT ![new] = "running"]
         /\ building' = [building EXCEPT ![w] = new]
  BY DEF CreateRenderSink
<1>2. life[new] = "none" /\ \A b \in Actors : b < new => b \in Started
  BY <1>1, NewSession
<1>3. /\ UNCHANGED << user, appstate, slot, target, exists, pumps, finish, ended, closers, shutdown >>
      /\ builder[w] = "open" /\ builder'[w] = "attach" /\ building'[w] = new
      /\ home'[new] = w /\ life'[new] = "running"
      /\ \A v \in Windows \ {w} : builder'[v] = builder[v] /\ building'[v] = building[v]
      /\ \A a \in Actors \ {new} : home'[a] = home[a] /\ life'[a] = life[a]
  BY <1>1 DEF CreateRenderSink, Advance, ManagerTypeOK, BuildTypes, ActorTypes
<1>4. NumberingInv'
  BY <1>2, <1>3 DEF NumberingInv, Started, Opened, Actors
<1>5. SessionsStay
  BY <1>2, <1>3 DEF SessionsStay, pumps
<1>6. \A v \in Windows \ {w} : WindowOf(v)'
  <2>1. \A v \in Windows \ {w} : WindowRests(v)
    BY <1>3 DEF WindowRests, appstate, closers
  <2> QED
    BY <1>3, <1>5, <2>1, WindowStays DEF WindowInv, user
<1>7. ~ HasSlot(w) /\ slot[w].live = NoActor /\ pump[new] = "none" /\ target[w] # NoProfile
  BY <1>2, <1>3 DEF WindowInv, WindowOf, Recorded, SessionInv, SessionOf
<1>8. WindowOf(w)'
  BY <1>3, <1>7 DEF WindowInv, WindowOf, HasSlot, Carries, Recorded, user, appstate, pumps, closers
<1>9. \A a \in Actors \ {new} : SessionOf(a)'
  <2>1. ASSUME NEW a \in Actors \ {new} PROVE SessionRests(a) /\ HomeRests(a)
    BY <1>3 DEF SessionRests, HomeRests, Owns, Carries, SessionInv, SessionOf, pumps
  <2> QED
    BY <2>1, SessionStays DEF SessionInv
<1>10. SessionOf(new)'
  <2>1. new # NoActor /\ SessionOf(new)
    BY DEF Actors, NoActor, SessionInv
  <2> QED
    BY <1>2, <1>3, <1>7, <2>1 DEF SessionOf, Owns, Carries, pumps
<1> QED
  BY <1>4, <1>6, <1>8, <1>9, <1>10 DEF WindowInv, SessionInv

\* The builder records its session: from here on the window, and then the pump, a close or the
\* quit, will release it.
LEMMA InsertStep ==
    ASSUME ManagerInv, NEW w \in Windows, InsertSlot(w)
    PROVE  NumberingInv' /\ WindowInv' /\ SessionInv'
<1> ManagerTypeOK /\ NumberingInv /\ WindowInv /\ SessionInv
  BY DEF ManagerInv
<1> PICK new \in Actors : new = building[w]
  BY DEF InsertSlot, Advance, WindowInv, WindowOf, Carries
<1>1. /\ UNCHANGED << user, appstate, target, building, platform, actor, aborted, finish, ended,
                      closers, shutdown >>
      /\ builder[w] = "insert" /\ builder'[w] = "show"
      /\ slot'[w].profile = target[w] /\ slot'[w].live = new
      /\ pump'[new] = "recv" /\ \A a \in Actors \ {new} : pump'[a] = pump[a]
      /\ \A v \in Windows \ {w} : builder'[v] = builder[v] /\ slot'[v] = slot[v]
  BY DEF InsertSlot, Advance, ManagerTypeOK, BuildTypes, SlotTypes, PumpTypes
<1>2. /\ home[new] = w /\ life[new] # "none" /\ pump[new] = "none"
      /\ ~ HasSlot(w) /\ slot[w].live = NoActor /\ target[w] # NoProfile
  BY <1>1 DEF WindowInv, WindowOf, Carries, Recorded
<1>3. NumberingInv'
  BY <1>1, NumbersRest DEF actor
<1>4. \A v \in Windows \ {w} : WindowOf(v)'
  <2>1. ASSUME NEW v \in Windows \ {w}, Carries(v) PROVE pump'[building[v]] = pump[building[v]]
    BY <1>1, <1>2, <2>1 DEF WindowInv, WindowOf
  <2>2. ASSUME NEW v \in Windows \ {w} PROVE slot[v].live \in Actors \cup {NoActor}
    BY DEF ManagerTypeOK, SlotTypes
  <2> QED
    BY <1>1, <2>1, <2>2
       DEF WindowInv, WindowOf, HasSlot, Carries, user, appstate, platform, actor, closers
<1>5. WindowOf(w)'
  BY <1>1, <1>2 DEF WindowInv, WindowOf, HasSlot, Carries, Recorded, user, appstate, platform, actor,
                    closers
<1>6. \A a \in Actors \ {new} : SessionOf(a)'
  <2>1. ASSUME NEW a \in Actors \ {new} PROVE SessionRests(a)
    BY <1>1 DEF SessionRests, actor
  <2>2. ASSUME NEW a \in Actors \ {new}, life[a] # "none", home[a] # w PROVE HomeRests(a)
    BY <1>1, <2>2 DEF HomeRests, Owns, Carries, SessionInv, SessionOf, actor
  <2>3. ASSUME NEW a \in Actors \ {new}, life[a] # "none", home[a] = w PROVE SessionOf(a)'
    <3>1. ~ Owns(a) /\ ~ Owns(a)' /\ life[a] # "running" /\ SessionOf(a)
      BY <1>1, <1>2, <2>3 DEF Owns, SessionInv, SessionOf, Actors, NoActor, actor
    <3> QED
      BY <1>1, <1>2, <2>3, <3>1 DEF SessionOf, actor
  <2>4. ASSUME NEW a \in Actors \ {new}, life[a] = "none" PROVE HomeRests(a)
    BY <2>4 DEF HomeRests
  <2> QED
    BY <2>1, <2>2, <2>3, <2>4, SessionStays DEF SessionInv
<1>7. SessionOf(new)'
  BY <1>1, <1>2 DEF SessionInv, SessionOf, Owns, actor
<1> QED
  BY <1>3, <1>4, <1>5, <1>6, <1>7 DEF WindowInv, SessionInv

\* A window gets a new session; the one it had, if any, is released on the spot.
LEMMA ReconnectStep ==
    ASSUME ManagerInv, NEW w \in Windows, Reconnect(w)
    PROVE  NumberingInv' /\ WindowInv' /\ SessionInv'
<1> ManagerTypeOK /\ NumberingInv /\ WindowInv /\ SessionInv
  BY DEF ManagerInv
<1> PICK old \in Actors \cup {NoActor} : old = slot[w].live
  BY DEF ManagerTypeOK, SlotTypes
<1>1. PICK new \in Actors :
         /\ new = Cardinality(Started) + 1
         /\ home' = [home EXCEPT ![new] = w]
         /\ life' = [Told({old}) EXCEPT ![new] = "running"]
         /\ slot' = [slot EXCEPT ![w].view = NewView, ![w].live = new]
         /\ pump' = [pump EXCEPT ![new] = "recv"]
         /\ aborted' = [a \in Actors |-> aborted[a] \/ a = old]
         /\ ended' = [a \in Actors |-> IF a = old THEN ended[a] + 1 ELSE ended[a]]
  BY DEF Reconnect
<1>2. life[new] = "none" /\ pump[new] = "none" /\ \A b \in Actors : b < new => b \in Started
  BY <1>1, NewSession DEF SessionInv, SessionOf
<1>3. /\ exists[w] = "shown" /\ HasSlot(w)
      /\ UNCHANGED << user, appstate, build, exists, registered, finish, closers, shutdown >>
      /\ slot'[w].profile = slot[w].profile /\ slot'[w].live = new
      /\ \A v \in Windows \ {w} : slot'[v] = slot[v]
  BY <1>1 DEF Reconnect, ManagerTypeOK, SlotTypes
<1>4. old \in Actors => home[old] = w /\ life[old] # "none" /\ old # new
  BY <1>2 DEF WindowInv, WindowOf, Actors, NoActor
<1>5. /\ home'[new] = w /\ life'[new] = "running" /\ pump'[new] = "recv"
      /\ ended'[new] = ended[new] /\ aborted'[new] = aborted[new]
      /\ \A a \in Actors \ {new} :
            /\ home'[a] = home[a] /\ pump'[a] = pump[a]
            /\ life'[a] # "none" <=> life[a] # "none"
            /\ life'[a] = "running" => life[a] = "running" /\ a # old
      /\ \A a \in Actors \ {new, old} : ended'[a] = ended[a] /\ aborted'[a] = aborted[a]
  BY <1>1, <1>4 DEF Told, ManagerTypeOK, ActorTypes, PumpTypes, CloseTypes
<1>6. NumberingInv'
  BY <1>2, <1>3, <1>5 DEF NumberingInv, Started, Opened, build, Actors
<1>7. SessionsStay
  BY <1>2, <1>5 DEF SessionsStay, WindowInv, WindowOf
<1>8. \A v \in Windows \ {w} : WindowOf(v)'
  <2>1. \A v \in Windows \ {w} : WindowRests(v)
    BY <1>3 DEF WindowRests, build, appstate, closers
  <2> QED
    BY <1>3, <1>7, <2>1, WindowStays DEF WindowInv, user
<1>9. builder[w] = "done" /\ target[w] # NoProfile
  BY <1>3 DEF WindowInv, WindowOf
<1>10. WindowOf(w)'
  BY <1>3, <1>5, <1>9 DEF WindowInv, WindowOf, HasSlot, Carries, user, appstate, build, closers
<1>11. ASSUME NEW a \in Actors \ {new, old} PROVE SessionOf(a)'
  <2>1. SessionRests(a)
    BY <1>3, <1>5, <1>11 DEF SessionRests
  <2>2. HomeRests(a)
    BY <1>3, <1>5, <1>11 DEF HomeRests, Owns, Carries, SessionInv, SessionOf, build
  <2> QED
    BY <2>1, <2>2, SessionStays DEF SessionInv
<1>12. ASSUME old \in Actors PROVE SessionOf(old)'
  <2>1. SessionOf(old) /\ Owns(old) /\ pump[old] # "none"
    BY <1>4, <1>12 DEF SessionInv, SessionOf, Owns
  <2>2. ended'[old] = 1
    BY <1>1, <1>12, <2>1 DEF SessionOf
  <2>3. aborted'[old]
    BY <1>1, <1>12
  <2> QED
    BY <1>3, <1>4, <1>5, <1>12, <2>1, <2>2, <2>3 DEF SessionOf, Owns, build
<1>13. SessionOf(new)'
  <2>1. new # NoActor /\ SessionOf(new)
    BY DEF Actors, NoActor, SessionInv
  <2> QED
    BY <1>2, <1>3, <1>5, <1>9, <2>1 DEF SessionOf, Owns, build
<1> QED
  BY <1>6, <1>8, <1>10, <1>11, <1>12, <1>13 DEF WindowInv, SessionInv

-----------------------------------------------------------------------------
(* Every session is released exactly once.                                   *)

LEMMA ManagerInit == Init => ManagerInv
<1> SUFFICES ASSUME Init PROVE ManagerInv
  OBVIOUS
<1> USE ManagerAssumption DEF Init
<1>1. /\ UserTypes /\ AppTypes /\ ConnectTypes /\ BuildTypes /\ PlatformTypes /\ ActorTypes
      /\ CloseTypes
  BY DEF UserTypes, AppTypes, ConnectTypes, Connectors, BuildTypes, PlatformTypes, ActorTypes, CloseTypes, BuilderStates,
         NoActor
<1>2. SlotTypes /\ PageTypes /\ PumpTypes
  BY ViewTypes DEF SlotTypes, PageTypes, PumpTypes
<1>3. NumberingInv /\ QuitInv /\ ChoiceInv
  BY DEF NumberingInv, QuitInv, ChoiceInv, Started, Opened
<1>4. WindowInv
  BY DEF WindowInv, WindowOf, NoSlot, HasSlot, Carries
<1>5. SessionInv
  BY DEF SessionInv, SessionOf
<1> QED
  BY <1>1, <1>2, <1>3, <1>4, <1>5 DEF ManagerInv, ManagerTypeOK

\* Only connect_profile moves connect_profile.
LEMMA ConnectsRest ==
    ASSUME UserSteps
           \/ (\E w \in Windows : BuilderSteps(w) \/ CloserSteps(w) \/ PageListens(w))
           \/ (\E a \in Actors : ActorEmits(a) \/ ActorExits(a) \/ PumpSteps(a) \/ CloseFinishes(a))
           \/ ShutdownNext \/ Exit \/ UNCHANGED vars
    PROVE  UNCHANGED << at, choice, opener >>
<1>1. CASE UserSteps
  BY <1>1 DEF UserSteps, Delete, Reconnect, toggle_stats, answer_certificate, Close, Quit, DockQuit,
              ShutDown, connects
<1>2. ASSUME NEW w \in Windows, BuilderSteps(w) \/ CloserSteps(w) \/ PageListens(w)
      PROVE  UNCHANGED connects
  BY <1>2 DEF BuilderSteps, CloserSteps, PageListens, BuildWindow, PrepareWindow, CreateRenderSink,
              AttachSession, InsertSlot, ShowWindow, BuildFails, DiscardClose, DiscardWindow,
              DestroyClosed, ForgetClosed
<1>3. ASSUME NEW a \in Actors, ActorEmits(a) \/ ActorExits(a) \/ PumpSteps(a) \/ CloseFinishes(a)
      PROVE  UNCHANGED connects
  BY <1>3 DEF ActorEmits, ActorExits, PumpSteps, CloseFinishes, PumpRecv, PumpDeliver, PumpEnd,
              PumpRelease, PumpStops
<1>4. CASE ShutdownNext \/ Exit \/ UNCHANGED vars
  BY <1>4 DEF ShutdownNext, Exit, vars, connects
<1> QED
  BY <1>1, <1>2, <1>3, <1>4 DEF connects

LEMMA ChoiceStep ==
    ASSUME ManagerTypeOK, ChoiceInv, Next
    PROVE  ChoiceInv'
<1>1. ASSUME NEW t \in Connectors, ConnectSteps(t) PROVE ChoiceInv'
  BY <1>1, ManagerAssumption DEF ConnectSteps, ConnectPlan, ConnectWindow, ConnectOpen, Returns,
                                 ChoiceInv, ManagerTypeOK, ConnectTypes
<1> QED
  BY <1>1, ConnectsRest DEF Next, ChoiceInv

LEMMA ManagerStep ==
    ASSUME ManagerInv, [Next]_vars
    PROVE  ManagerInv'
<1>1. ManagerTypeOK'
  BY TypeStep DEF ManagerInv
<1>2. CASE UNCHANGED vars
  <2>1. /\ UNCHANGED << saved, target, shutdown, quitting, at, choice >>
        /\ \A w \in Windows : WindowRests(w)
        /\ \A a \in Actors : SessionRests(a)
    BY <1>2 DEF vars, WindowRests, SessionRests
  <2> QED
    BY <1>1, <2>1, QuietStep DEF ManagerInv, QuitInv, ChoiceInv
<1>3. CASE Next
  <2>1. NumberingInv' /\ WindowInv' /\ SessionInv'
    <3>1. CASE ShutdownNext
      <4>1. PICK a \in shutdown :
               Finished(a) /\ session_ended(a) /\ shutdown' = shutdown \ {a}
        BY <3>1 DEF ShutdownNext
      <4>2. a \in Actors
        BY DEF ManagerInv, ManagerTypeOK, CloseTypes
      <4> QED
        BY <3>1, <4>1, <4>2, ReleaseStep
    <3> QED
      BY <1>3, <3>1, QuietSteps, BuilderStep, PumpStep, ReleaseStep, PumpEndStep, CloseSteps,
         ShutDownStep, ConnectStep, StartStep, InsertStep, ReconnectStep
         DEF Next, UserSteps, BuilderSteps, PumpSteps, CloserSteps, Quit, DockQuit
  <2>2. QuitInv'
    <3>1. CASE \E next \in {"waiting", "blocking"} : ShutDown(next)
      BY <3>1 DEF QuitInv, ShutDown
    <3>2. CASE ShutdownNext \/ Exit
      BY <3>2 DEF QuitInv, ShutdownNext, Exit, appstate
    <3>3. CASE (\E t \in Connectors : ConnectSteps(t)) \/ (\E p \in Profiles : Delete(p))
      BY <3>3 DEF ManagerInv, QuitInv, ConnectSteps, ConnectPlan, ConnectWindow, ConnectOpen, Delete,
             appstate
    <3>4. CASE \E w \in Windows : Reconnect(w) \/ toggle_stats(w) \/ answer_certificate(w) \/ Close(w)
      BY <3>4 DEF ManagerInv, QuitInv, Reconnect, toggle_stats, answer_certificate, Close, appstate
    <3>5. CASE \E w \in Windows : BuilderSteps(w) \/ CloserSteps(w) \/ PageListens(w)
      BY <3>5 DEF ManagerInv, QuitInv, BuilderSteps, CloserSteps, PageListens, BuildWindow,
             PrepareWindow, CreateRenderSink, AttachSession, InsertSlot, ShowWindow, BuildFails,
             DiscardClose, DiscardWindow, DestroyClosed, ForgetClosed, appstate
    <3>6. CASE \E a \in Actors : ActorEmits(a) \/ ActorExits(a) \/ PumpSteps(a) \/ CloseFinishes(a)
      BY <3>6 DEF ManagerInv, QuitInv, ActorEmits, ActorExits, PumpSteps, CloseFinishes, PumpRecv,
             PumpDeliver, PumpEnd, PumpRelease, PumpStops, appstate
    <3> QED
      BY <1>3, <3>1, <3>2, <3>3, <3>4, <3>5, <3>6 DEF Next, UserSteps, Quit, DockQuit
  <2>3. ChoiceInv'
    BY <1>3, ChoiceStep DEF ManagerInv
  <2> QED
    BY <1>1, <2>1, <2>2, <2>3 DEF ManagerInv
<1> QED
  BY <1>2, <1>3

LEMMA ManagerInvariant == Spec => []ManagerInv
<1> QED
  BY ManagerInit, ManagerStep, PTL DEF Spec

\* session_ended runs exactly once for every session that started, whoever ends it: its actor,
\* the user, a session that replaces it, the quit, or the cap (SessionHost::session_ended).
THEOREM SessionsEndOnce == Spec => []EndedExactlyOnce
<1>1. ManagerInv => EndedExactlyOnce
  <2> SUFFICES ASSUME ManagerInv, NEW a \in Actors
               PROVE  ended[a] <= 1 /\ (Settled(a) => ended[a] = 1)
    BY DEF EndedExactlyOnce
  <2>1. SessionOf(a) /\ ended[a] \in Nat
    BY DEF ManagerInv, SessionInv, ManagerTypeOK, CloseTypes
  <2> QED
    BY <2>1 DEF SessionOf, Settled
<1> QED
  BY <1>1, ManagerInvariant, PTL

-----------------------------------------------------------------------------
(* A profile has one session for each thread that connects.                  *)

\* A running session of a saved profile has its profile's one window.
LEMMA RunningHasWindow ==
    ASSUME ManagerInv, NEW a \in Actors, life[a] = "running", target[home[a]] \in saved
    PROVE  home[a] \in Windows /\ window_profiles[home[a]] = target[home[a]]
<1>1. home[a] \in Windows /\ WindowOf(home[a]) /\ SessionOf(a)
  BY DEF ManagerInv, WindowInv, SessionInv, SessionOf
<1>2. HasSlot(home[a]) \/ Carries(home[a])
  BY <1>1 DEF WindowOf, SessionOf, Owns, Actors, NoActor
<1> QED
  BY <1>1, <1>2 DEF WindowOf, Carries, Recorded

\* A session that starts in window w, where no other one keeps running, is the only one of its
\* profile and its window's opener.
LEMMA OnlySession ==
    ASSUME ManagerInv, OneSessionInv, NEW w \in Windows, NEW new \in Actors,
           UNCHANGED << target, opener >>, life[new] = "none", home'[new] = w,
           \A a \in Actors \ {new} :
              home'[a] = home[a] /\ (life'[a] = "running" => life[a] = "running" /\ home[a] # w),
           target[w] \in saved, window_profiles[w] = target[w]
    PROVE  OneSessionPerProfile'
<1>1. ASSUME NEW a \in Actors \ {new}, life'[a] = "running",
             target'[home'[a]] = target'[home'[new]], opener'[home'[a]] = opener'[home'[new]]
      PROVE  FALSE
  <2>1. /\ life[a] = "running" /\ home[a] # w
        /\ target[home[a]] = target[w] /\ opener[home[a]] = opener[w]
    BY <1>1
  <2>2. home[a] \in Windows /\ window_profiles[home[a]] = window_profiles[w]
    BY <2>1, RunningHasWindow
  <2>3. target[w] # NoProfile
    BY ManagerAssumption DEF ManagerInv, ManagerTypeOK, UserTypes
  <2> QED
    BY <2>1, <2>2, <2>3 DEF OneSessionInv, ProfileInv
<1>2. ASSUME NEW a \in Actors \ {new}, NEW b \in Actors \ {new}, life'[a] = "running",
             life'[b] = "running",
             target'[home'[a]] = target'[home'[b]], opener'[home'[a]] = opener'[home'[b]]
      PROVE  a = b
  BY <1>2 DEF OneSessionInv, OneSessionPerProfile
<1> QED
  BY <1>1, <1>2 DEF OneSessionPerProfile

\* A step that starts no session keeps one session per profile and opener.
LEMMA NoNewSession ==
    ASSUME ManagerInv, OneSessionPerProfile,
           \A a \in Actors : life'[a] = "running" =>
              /\ life[a] = "running" /\ home'[a] = home[a]
              /\ target'[home[a]] = target[home[a]] /\ opener'[home[a]] = opener[home[a]]
    PROVE  OneSessionPerProfile'
BY DEF OneSessionPerProfile

LEMMA ProfileStep ==
    ASSUME ManagerInv, OneSessionInv, [Next]_vars
    PROVE  OneSessionInv'
<1> ManagerTypeOK /\ NumberingInv /\ WindowInv /\ SessionInv /\ ChoiceInv
  BY DEF ManagerInv
<1>1. ASSUME NEW t \in Connectors, ConnectSteps(t) PROVE OneSessionInv'
  <2>1. UNCHANGED << home, life >>
    BY <1>1 DEF ConnectSteps, ConnectPlan, ConnectWindow, ConnectOpen, actor
  <2>2. CASE (\E p \in Profiles : ConnectPlan(t, p)) \/ ConnectWindow(t)
    <3>1. /\ UNCHANGED << window_profiles, target, opener >>
          /\ \A u \in Connectors : at'[u] = "open" =>
                IF at[u] = "open" THEN choice'[u] = choice[u]
                ELSE \A w \in Windows : window_profiles[w] # choice'[u]
      BY <2>2 DEF ConnectPlan, ConnectWindow, Returns, window_of_profile, appstate, build,
                  ManagerTypeOK, ConnectTypes
    <3> QED
      BY <2>1, <3>1 DEF OneSessionInv, ProfileInv, OneSessionPerProfile
  <2>3. CASE ConnectOpen(t)
    <3>1. PICK w \in Windows :
             /\ w = Cardinality(Opened) + 1
             /\ window_profiles' = [window_profiles EXCEPT ![w] = choice[t]]
             /\ target' = [target EXCEPT ![w] = choice[t]]
             /\ opener' = [opener EXCEPT ![w] = t]
      BY <2>3 DEF ConnectOpen
    <3>2. target[w] = NoProfile /\ window_profiles[w] = NoProfile
      BY <3>1, NewWindow DEF WindowInv, WindowOf
    <3>3. /\ window_profiles'[w] = choice[t] /\ opener'[w] = t /\ at[t] = "open"
          /\ \A v \in Windows \ {w} :
                window_profiles'[v] = window_profiles[v] /\ opener'[v] = opener[v]
          /\ at'[t] = "idle"
          /\ \A u \in Connectors \ {t} : at'[u] = at[u] /\ choice'[u] = choice[u]
      BY <2>3, <3>1 DEF ConnectOpen, Returns, ManagerTypeOK, AppTypes, ConnectTypes
    <3>4. ProfileInv'
      BY <3>3 DEF OneSessionInv, ProfileInv
    <3>5. OneSessionPerProfile'
      <4>1. ASSUME NEW a \in Actors, life'[a] = "running"
            PROVE  /\ life[a] = "running" /\ home'[a] = home[a]
                   /\ target'[home[a]] = target[home[a]] /\ opener'[home[a]] = opener[home[a]]
        <5>1. home[a] \in Windows /\ target[home[a]] # NoProfile
          BY <2>1, <4>1 DEF SessionInv, SessionOf
        <5> QED
          BY <2>1, <3>1, <3>2, <4>1, <5>1 DEF ManagerTypeOK, BuildTypes, ConnectTypes
      <4> QED
        BY <4>1, NoNewSession DEF OneSessionInv
    <3> QED
      BY <3>4, <3>5 DEF OneSessionInv
  <2> QED
    BY <1>1, <2>2, <2>3 DEF ConnectSteps
<1>2. ASSUME NEW w \in Windows, CreateRenderSink(w) PROVE OneSessionInv'
  <2>1. PICK new \in Actors :
           /\ new = Cardinality(Started) + 1
           /\ home' = [home EXCEPT ![new] = w] /\ life' = [life EXCEPT ![new] = "running"]
    BY <1>2 DEF CreateRenderSink
  <2>2. /\ UNCHANGED << window_profiles, target, connects >>
        /\ builder[w] = "open" /\ target[w] \in saved
    BY <1>2 DEF CreateRenderSink, Advance, appstate
  <2>3. ProfileInv'
    BY <2>2 DEF OneSessionInv, ProfileInv, connects
  <2>4. ~ HasSlot(w) /\ slot[w].live = NoActor /\ window_profiles[w] = target[w]
    BY <2>2 DEF WindowInv, WindowOf, Recorded
  <2>5. ASSUME NEW a \in Actors, life[a] = "running", home[a] = w PROVE FALSE
    BY <2>2, <2>4, <2>5 DEF SessionInv, SessionOf, Owns, Carries, Actors, NoActor
  <2>6. OneSessionPerProfile'
    BY <2>1, <2>2, <2>4, <2>5, NewSession, OnlySession DEF connects, ManagerTypeOK, ActorTypes
  <2> QED
    BY <2>3, <2>6 DEF OneSessionInv
<1>3. ASSUME NEW w \in Windows, Reconnect(w) PROVE OneSessionInv'
  <2>1. PICK new \in Actors :
           /\ new = Cardinality(Started) + 1
           /\ home' = [home EXCEPT ![new] = w]
           /\ life' = [Told({slot[w].live}) EXCEPT ![new] = "running"]
    BY <1>3 DEF Reconnect
  <2>2. /\ UNCHANGED << window_profiles, target, connects >> /\ exists[w] = "shown" /\ HasSlot(w)
        /\ slot[w].profile \in saved
    BY <1>3 DEF Reconnect, appstate, build
  <2>3. ProfileInv'
    BY <2>2 DEF OneSessionInv, ProfileInv, connects
  <2>4. builder[w] = "done" /\ target[w] \in saved /\ window_profiles[w] = target[w]
    BY <2>2 DEF WindowInv, WindowOf
  <2>5. \A a \in Actors : life[a] = "running" /\ home[a] = w => a = slot[w].live
    BY <2>4 DEF SessionInv, SessionOf, Owns, Carries
  <2>6. \A a \in Actors \ {new} :
           home'[a] = home[a] /\ (life'[a] = "running" => life[a] = "running" /\ home[a] # w)
    BY <2>1, <2>5 DEF ManagerTypeOK, ActorTypes, Told
  <2>7. OneSessionPerProfile'
    BY <2>1, <2>2, <2>4, <2>6, NewSession, OnlySession DEF connects, ManagerTypeOK, ActorTypes
  <2> QED
    BY <2>3, <2>7 DEF OneSessionInv
<1>4. ASSUME UNCHANGED << home, target, at, choice, opener >>,
             \A w \in Windows : window_profiles'[w] \in {window_profiles[w], NoProfile},
             \A a \in Actors : life'[a] = "running" => life[a] = "running"
      PROVE  OneSessionInv'
  <2>1. OneSessionPerProfile'
    BY <1>4, NoNewSession DEF OneSessionInv
  <2>2. ProfileInv'
    BY <1>4, ManagerAssumption DEF OneSessionInv, ProfileInv, ChoiceInv
  <2> QED
    BY <2>1, <2>2 DEF OneSessionInv
<1>5. ASSUME NEW w \in Windows,
             toggle_stats(w) \/ answer_certificate(w) \/ PageListens(w) \/ BuildWindow(w)
             \/ PrepareWindow(w) \/ AttachSession(w) \/ InsertSlot(w) \/ ShowWindow(w) \/ BuildFails(w)
             \/ DestroyClosed(w)
      PROVE  UNCHANGED << home, target, window_profiles, life >>
  BY <1>5 DEF toggle_stats, answer_certificate, PageListens, BuildWindow, PrepareWindow, AttachSession,
              InsertSlot, ShowWindow, BuildFails, DestroyClosed, appstate, build, actor
<1>6. ASSUME NEW w \in Windows, DiscardWindow(w) \/ ForgetClosed(w)
      PROVE  /\ UNCHANGED << home, target, life >>
             /\ \A v \in Windows : window_profiles'[v] \in {window_profiles[v], NoProfile}
  BY <1>6 DEF DiscardWindow, ForgetClosed, build, actor, ManagerTypeOK, AppTypes
<1>7. ASSUME \/ \E w \in Windows : Close(w) \/ DiscardClose(w)
             \/ \E p \in Profiles : Delete(p)
             \/ \E next \in {"waiting", "blocking"} : ShutDown(next)
      PROVE  /\ UNCHANGED << home, target, window_profiles >>
             /\ \A a \in Actors : life'[a] = "running" => life[a] = "running"
  BY <1>7 DEF Close, DiscardClose, Delete, ShutDown, close_session_window, close, Told, appstate, build
<1>8. ASSUME NEW a \in Actors,
             ActorEmits(a) \/ ActorExits(a) \/ PumpSteps(a) \/ CloseFinishes(a)
      PROVE  /\ UNCHANGED << home, target, window_profiles >>
             /\ \A b \in Actors : life'[b] = "running" => life[b] = "running"
  BY <1>8 DEF ActorEmits, ActorExits, PumpSteps, PumpRecv, PumpDeliver, PumpEnd, PumpRelease, PumpStops,
              CloseFinishes, appstate, build, actor, ManagerTypeOK, ActorTypes
<1>9. ASSUME ShutdownNext \/ Exit \/ UNCHANGED vars
      PROVE  UNCHANGED << home, target, window_profiles, life >>
  BY <1>9 DEF ShutdownNext, Exit, appstate, build, actor, vars
<1> QED
  BY <1>1, <1>2, <1>3, <1>4, <1>5, <1>6, <1>7, <1>8, <1>9, ConnectsRest
     DEF Next, UserSteps, BuilderSteps, CloserSteps, Quit, DockQuit

\* The user's connects never give a profile a second session (connect_plan), whatever window they
\* are made from, however far its first window is built or closed, and whatever the autoconnect
\* thread does between their lookups.
THEOREM ProfilesHaveOneSession == Spec => []OneSessionPerProfile
<1>1. Init => OneSessionInv
  BY DEF Init, OneSessionInv, ProfileInv, OneSessionPerProfile
<1>2. OneSessionInv => OneSessionPerProfile
  BY DEF OneSessionInv
<1> QED
  BY <1>1, <1>2, ManagerInvariant, ProfileStep, PTL DEF Spec

LEMMA OneOpenerStep ==
    ASSUME Autoconnect = NoProfile, ManagerTypeOK, OneOpenerInv, [Next]_vars
    PROVE  OneOpenerInv'
<1>1. ASSUME NEW t \in Connectors, ConnectSteps(t) PROVE OneOpenerInv'
  <2>1. t = "main" /\ at'["auto"] = at["auto"]
    BY <1>1 DEF ConnectSteps, ConnectPlan, ConnectWindow, ConnectOpen, Returns, OneOpenerInv,
                ManagerTypeOK, ConnectTypes, Connectors
  <2>2. \A w \in Windows : opener'[w] \in {opener[w], t}
    BY <1>1 DEF ConnectSteps, ConnectPlan, ConnectWindow, ConnectOpen, ManagerTypeOK, ConnectTypes
  <2> QED
    BY <2>1, <2>2 DEF OneOpenerInv
<1> QED
  BY <1>1, ConnectsRest DEF Next, OneOpenerInv

\* Without autoconnect the claim of connect_plan holds as it stands: a profile never gets a second
\* session.
THEOREM NoSecondSession ==
    ASSUME Autoconnect = NoProfile
    PROVE  Spec => []NeverASecondSession
<1>1. Init => OneOpenerInv
  BY DEF Init, OneOpenerInv, Connectors
<1>2. ManagerInv /\ OneOpenerInv /\ OneSessionPerProfile => NeverASecondSession
  BY DEF ManagerInv, SessionInv, SessionOf, OneOpenerInv, OneSessionPerProfile, NeverASecondSession
<1>3. ManagerInv => ManagerTypeOK
  BY DEF ManagerInv
<1> QED
  BY <1>1, <1>2, <1>3, ManagerInvariant, OneOpenerStep, ProfilesHaveOneSession, PTL DEF Spec

-----------------------------------------------------------------------------
(* Windows and sessions own each other.                                      *)

\* A step leaves alone what window w holds, or takes its session from it.
HoldsRests(w) ==
    /\ registered'[w] = registered[w] /\ render'[w] = render[w] /\ link'[w] = link[w]
    /\ builder'[w] = builder[w] /\ building'[w] = building[w]
    /\ slot'[w].live \in {slot[w].live, NoActor}
    /\ exists'[w] = exists[w]

LEMMA HoldsStays ==
    ASSUME NEW w \in Windows, HoldsOf(w), HoldsRests(w)
    PROVE  HoldsOf(w)'
BY DEF HoldsOf, HoldsRests

\* A window whose builder is past its session and that has none cannot hold the wrong one.
LEMMA HoldsNothing ==
    ASSUME NEW w \in Windows, builder'[w] \notin {"attach", "insert"}, slot'[w].live = NoActor,
           exists'[w] = "shown" => registered'[w]
    PROVE  HoldsOf(w)'
BY DEF HoldsOf

\* A step leaves session a alone, and its window without a session if it had none.
LeavesRests(a) ==
    /\ pump'[a] = pump[a] /\ life'[a] = life[a] /\ home'[a] = home[a]
    /\ (finish'[a] = "wait" \/ a \in shutdown') => (finish[a] = "wait" \/ a \in shutdown)
    /\ life[a] # "none" =>
          /\ Owns(a)' => Owns(a)
          /\ ~ HasSlot(home[a]) /\ builder[home[a]] \in Recorded =>
                ~ HasSlot(home[a])' /\ builder'[home[a]] \in Recorded

LEMMA LeavesStays ==
    ASSUME NEW a \in Actors, SessionOf(a), LeavesOf(a), LeavesRests(a)
    PROVE  LeavesOf(a)'
BY DEF LeavesOf, LeavesRests, SessionOf, HasSlot

\* What a window holds when the user, its page, its actor or its pump does something that leaves
\* the window its session, or takes it away.
LEMMA ResourceRests ==
    ASSUME ManagerInv, ResourceInv,
           \A w \in Windows : HoldsRests(w), \A a \in Actors : LeavesRests(a)
    PROVE  ResourceInv'
<1>1. ASSUME NEW w \in Windows PROVE HoldsOf(w)'
  BY HoldsStays DEF ResourceInv
<1>2. ASSUME NEW a \in Actors PROVE LeavesOf(a)'
  BY LeavesStays DEF ResourceInv, ManagerInv, SessionInv
<1> QED
  BY <1>1, <1>2 DEF ResourceInv

\* The builder's and the closer's steps that start and record no session.
LEMMA BuilderResources ==
    ASSUME ManagerInv, ResourceInv, NEW w \in Windows,
           BuildWindow(w) \/ PrepareWindow(w) \/ AttachSession(w) \/ ShowWindow(w) \/ BuildFails(w)
           \/ DiscardWindow(w) \/ DestroyClosed(w) \/ ForgetClosed(w)
    PROVE  ResourceInv'
<1> ManagerTypeOK /\ WindowInv /\ SessionInv /\ WindowOf(w) /\ HoldsOf(w)
  BY DEF ManagerInv, WindowInv, ResourceInv
<1>1. /\ UNCHANGED << slot, building, actor, pumps, finish, shutdown >>
      /\ \A v \in Windows \ {w} :
            /\ builder'[v] = builder[v] /\ registered'[v] = registered[v] /\ render'[v] = render[v]
            /\ link'[v] = link[v] /\ exists'[v] = exists[v]
  BY DEF BuildWindow, PrepareWindow, AttachSession, ShowWindow, BuildFails, DiscardWindow,
         DestroyClosed, ForgetClosed, DestroyWindow, Advance, build, platform,
         ManagerTypeOK, BuildTypes, PlatformTypes
<1>2. builder[w] \in Recorded => builder'[w] \in Recorded
  BY DEF BuildWindow, PrepareWindow, AttachSession, ShowWindow, BuildFails, DiscardWindow,
         DestroyClosed, ForgetClosed, Advance, Recorded, build, ManagerTypeOK, BuildTypes
<1>3. HoldsOf(w)'
  <2>1. CASE BuildWindow(w) \/ PrepareWindow(w)
    <3>1. builder'[w] \in {"prepare", "open"} /\ slot[w].live = NoActor
          /\ exists'[w] \in {exists[w], "hidden"} /\ (registered[w] => registered'[w])
      BY <2>1 DEF BuildWindow, PrepareWindow, Advance, platform, WindowOf, HasSlot, Recorded,
                  ManagerTypeOK, BuildTypes, PlatformTypes
    <3> QED
      BY <1>1, <3>1, HoldsNothing DEF HoldsOf
  <2>2. CASE AttachSession(w)
    <3>1. builder[w] = "attach" /\ builder'[w] = "insert" /\ slot[w].live = NoActor
          /\ registered'[w] = registered[w] /\ render'[w] = render[w] /\ exists'[w] = exists[w]
          /\ (registered[w] => link'[w] = building[w])
      BY <2>2 DEF AttachSession, Advance, WindowOf, HasSlot, Recorded, ManagerTypeOK, BuildTypes,
                  PlatformTypes
    <3> QED
      BY <1>1, <3>1 DEF HoldsOf
  <2>3. CASE ShowWindow(w) \/ BuildFails(w)
    <3>1. builder'[w] \in {"done", "discard"} /\ registered'[w] = registered[w]
          /\ render'[w] = render[w] /\ link'[w] = link[w]
          /\ (exists'[w] = "shown" => exists[w] = "shown" \/ registered[w])
      BY <2>3 DEF ShowWindow, BuildFails, Advance, platform, ManagerTypeOK, BuildTypes, PlatformTypes
    <3> QED
      BY <1>1, <3>1 DEF HoldsOf
  <2>4. CASE DiscardWindow(w) \/ DestroyClosed(w)
    <3>1. ~ registered'[w] /\ exists'[w] = "no"
      BY <2>4 DEF DiscardWindow, DestroyClosed, DestroyWindow, ManagerTypeOK, PlatformTypes
    <3> QED
      BY <3>1 DEF HoldsOf
  <2>5. CASE ForgetClosed(w)
    <3>1. HoldsRests(w)
      BY <2>5 DEF ForgetClosed, HoldsRests, build, platform
    <3> QED
      BY <3>1, HoldsStays
  <2> QED
    BY <2>1, <2>2, <2>3, <2>4, <2>5
<1>4. \A v \in Windows \ {w} : HoldsOf(v)'
  <2>1. \A v \in Windows \ {w} : HoldsRests(v)
    BY <1>1 DEF HoldsRests
  <2> QED
    BY <2>1, HoldsStays DEF ResourceInv
<1>5. ASSUME NEW a \in Actors PROVE LeavesOf(a)'
  <2>1. SessionOf(a) /\ LeavesOf(a)
    BY DEF SessionInv, ResourceInv
  <2>2. LeavesRests(a)
    BY <1>1, <1>2, <2>1 DEF LeavesRests, SessionOf, Owns, HasSlot, actor, pumps
  <2> QED
    BY <2>1, <2>2, LeavesStays
<1> QED
  BY <1>3, <1>4, <1>5 DEF ResourceInv

\* A session that starts is held by its window from the start, and recorded with what it holds.
LEMMA StartResources ==
    ASSUME ManagerInv, ResourceInv, NEW w \in Windows, CreateRenderSink(w)
    PROVE  ResourceInv'
<1> ManagerTypeOK /\ NumberingInv /\ WindowOf(w) /\ SessionInv
  BY DEF ManagerInv, WindowInv
<1>1. PICK new \in Actors :
         /\ new = Cardinality(Started) + 1
         /\ home' = [home EXCEPT ![new] = w] /\ life' = [life EXCEPT ![new] = "running"]
         /\ building' = [building EXCEPT ![w] = new] /\ render' = [render EXCEPT ![w] = new]
  BY DEF CreateRenderSink
<1>2. /\ UNCHANGED << slot, exists, registered, link, pumps, finish, shutdown >>
      /\ builder[w] = "open" /\ builder'[w] = "attach"
      /\ building'[w] = new /\ render'[w] = new /\ home'[new] = w /\ life'[new] = "running"
      /\ \A v \in Windows \ {w} :
            builder'[v] = builder[v] /\ building'[v] = building[v] /\ render'[v] = render[v]
      /\ \A a \in Actors \ {new} : home'[a] = home[a] /\ life'[a] = life[a]
  BY <1>1 DEF CreateRenderSink, Advance, ManagerTypeOK, BuildTypes, ActorTypes, PlatformTypes
<1>3. life[new] = "none" /\ SessionOf(new) /\ slot[w].live = NoActor
  BY <1>1, <1>2, NewSession DEF SessionInv, WindowOf, Recorded
<1>4. HoldsOf(w)'
  BY <1>2, <1>3 DEF HoldsOf, ResourceInv
<1>5. \A v \in Windows \ {w} : HoldsOf(v)'
  <2>1. \A v \in Windows \ {w} : HoldsRests(v)
    BY <1>2 DEF HoldsRests
  <2> QED
    BY <2>1, HoldsStays DEF ResourceInv
<1>6. ASSUME NEW a \in Actors \ {new} PROVE LeavesOf(a)'
  <2>1. SessionOf(a) /\ LeavesOf(a)
    BY DEF SessionInv, ResourceInv
  <2>2. LeavesRests(a)
    BY <1>2, <2>1 DEF LeavesRests, SessionOf, Owns, HasSlot, Recorded, pumps
  <2> QED
    BY <2>1, <2>2, LeavesStays
<1>7. LeavesOf(new)'
  BY <1>2, <1>3 DEF LeavesOf, SessionOf, pumps
<1> QED
  BY <1>4, <1>5, <1>6, <1>7 DEF ResourceInv

LEMMA InsertResources ==
    ASSUME ManagerInv, ResourceInv, NEW w \in Windows, InsertSlot(w)
    PROVE  ResourceInv'
<1> ManagerTypeOK /\ WindowInv /\ WindowOf(w) /\ SessionInv
  BY DEF ManagerInv, WindowInv
<1> PICK new \in Actors : new = building[w]
  BY DEF InsertSlot, Advance, WindowOf, Carries
<1>1. /\ UNCHANGED << building, platform, actor, finish, shutdown >>
      /\ builder[w] = "insert" /\ builder'[w] = "show" /\ slot'[w].live = new
      /\ pump'[new] = "recv" /\ \A a \in Actors \ {new} : pump'[a] = pump[a]
      /\ \A v \in Windows \ {w} : builder'[v] = builder[v] /\ slot'[v] = slot[v]
  BY DEF InsertSlot, Advance, ManagerTypeOK, BuildTypes, SlotTypes, PumpTypes
<1>2. home[new] = w /\ life[new] # "none" /\ pump[new] = "none" /\ SessionOf(new) /\ LeavesOf(new)
  BY <1>1 DEF WindowOf, Carries, SessionInv, ResourceInv
<1>3. HoldsOf(w)'
  BY <1>1 DEF HoldsOf, ResourceInv, platform
<1>4. \A v \in Windows \ {w} : HoldsOf(v)'
  <2>1. \A v \in Windows \ {w} : HoldsRests(v)
    BY <1>1 DEF HoldsRests, platform
  <2> QED
    BY <2>1, HoldsStays DEF ResourceInv
<1>5. ASSUME NEW a \in Actors \ {new} PROVE LeavesOf(a)'
  <2>1. SessionOf(a) /\ LeavesOf(a)
    BY DEF SessionInv, ResourceInv
  <2>2. LeavesRests(a)
    BY <1>1, <2>1 DEF LeavesRests, SessionOf, Owns, HasSlot, Recorded, actor
  <2> QED
    BY <2>1, <2>2, LeavesStays
<1>6. LeavesOf(new)'
  BY <1>1, <1>2 DEF LeavesOf, SessionOf, actor
<1> QED
  BY <1>3, <1>4, <1>5, <1>6 DEF ResourceInv

\* A session that replaces another gets the window after the old one has been released.
LEMMA ReconnectResources ==
    ASSUME ManagerInv, ResourceInv, NEW w \in Windows, Reconnect(w)
    PROVE  ResourceInv'
<1> ManagerTypeOK /\ NumberingInv /\ WindowOf(w) /\ SessionInv
  BY DEF ManagerInv, WindowInv
<1> PICK old \in Actors \cup {NoActor} : old = slot[w].live
  BY DEF ManagerTypeOK, SlotTypes
<1>1. PICK new \in Actors :
         /\ new = Cardinality(Started) + 1
         /\ home' = [home EXCEPT ![new] = w] /\ life' = [Told({old}) EXCEPT ![new] = "running"]
         /\ slot' = [slot EXCEPT ![w].view = NewView, ![w].live = new]
         /\ pump' = [pump EXCEPT ![new] = "recv"]
         /\ render' = [render EXCEPT ![w] = new] /\ link' = [link EXCEPT ![w] = new]
  BY DEF Reconnect, Holds
<1>2. life[new] = "none" /\ SessionOf(new)
  BY <1>1, NewSession DEF SessionInv
<1>3. /\ UNCHANGED << build, exists, registered, finish, shutdown >>
      /\ exists[w] = "shown" /\ HasSlot(w) /\ registered[w]
      /\ slot'[w].profile = slot[w].profile /\ slot'[w].live = new
      /\ render'[w] = new /\ link'[w] = new
      /\ \A v \in Windows \ {w} :
            slot'[v] = slot[v] /\ render'[v] = render[v] /\ link'[v] = link[v]
      /\ home'[new] = w /\ life'[new] = "running" /\ pump'[new] = "recv"
      /\ \A a \in Actors \ {new} : home'[a] = home[a] /\ pump'[a] = pump[a]
      /\ \A a \in Actors \ {new, old} : life'[a] = life[a]
  BY <1>1 DEF Reconnect, Told, ManagerTypeOK, SlotTypes, PlatformTypes, ActorTypes, PumpTypes
<1>4. HoldsOf(w)'
  BY <1>3 DEF HoldsOf, ResourceInv, WindowOf, build
<1>5. \A v \in Windows \ {w} : HoldsOf(v)'
  <2>1. \A v \in Windows \ {w} : HoldsRests(v)
    BY <1>3 DEF HoldsRests, build
  <2> QED
    BY <2>1, HoldsStays DEF ResourceInv
<1>6. ASSUME NEW a \in Actors \ {new, old} PROVE LeavesOf(a)'
  <2>1. SessionOf(a) /\ LeavesOf(a)
    BY DEF SessionInv, ResourceInv
  <2>2. LeavesRests(a)
    BY <1>3, <2>1 DEF LeavesRests, SessionOf, Owns, HasSlot, build
  <2> QED
    BY <2>1, <2>2, LeavesStays
<1>7. ASSUME old \in Actors, old # new PROVE LeavesOf(old)'
  <2>1. home[old] = w /\ life[old] # "none" /\ SessionOf(old) /\ LeavesOf(old)
    BY <1>7 DEF WindowOf, SessionInv, ResourceInv, Actors, NoActor
  <2>2. finish[old] # "wait" /\ old \notin shutdown /\ pump[old] # "none"
    BY <1>3, <2>1 DEF LeavesOf, SessionOf, Owns
  <2> QED
    BY <1>3, <1>7, <2>1, <2>2 DEF LeavesOf, Owns, build
<1>8. LeavesOf(new)'
  BY <1>2, <1>3 DEF LeavesOf, SessionOf
<1> QED
  BY <1>4, <1>5, <1>6, <1>7, <1>8 DEF ResourceInv

\* A window's session is taken from it: nobody can start another one there.
LEMMA CloseResources ==
    ASSUME ManagerInv, ResourceInv, NEW w \in Windows, close(w),
           UNCHANGED << building, platform, home, pumps, shutdown >>,
           \A v \in Windows \ {w} : builder'[v] = builder[v],
           builder'[w] = builder[w] \/ (builder[w] = "discard" /\ builder'[w] = "discarding")
    PROVE  ResourceInv'
<1> ManagerTypeOK /\ WindowOf(w) /\ SessionInv
  BY DEF ManagerInv, WindowInv
<1> PICK old \in Actors \cup {NoActor} : old = slot[w].live
  BY DEF ManagerTypeOK, SlotTypes
<1>1. /\ slot'[w].profile = NoProfile /\ slot'[w].live = NoActor
      /\ \A v \in Windows \ {w} : slot'[v] = slot[v]
      /\ \A a \in Actors :
            /\ finish'[a] = IF a = old THEN "wait" ELSE finish[a]
            /\ a # old => life'[a] = life[a]
  BY DEF close, Told, NoSlot, ManagerTypeOK, SlotTypes
<1>2. HoldsOf(w)'
  BY <1>1 DEF HoldsOf, ResourceInv, platform
<1>3. \A v \in Windows \ {w} : HoldsOf(v)'
  <2>1. \A v \in Windows \ {w} : HoldsRests(v)
    BY <1>1 DEF HoldsRests, platform
  <2> QED
    BY <2>1, HoldsStays DEF ResourceInv
<1>4. builder[w] \in Recorded => builder'[w] \in Recorded
  BY DEF Recorded
<1>5. ASSUME NEW a \in Actors, a # old PROVE LeavesOf(a)'
  <2>1. SessionOf(a) /\ LeavesOf(a) /\ a # NoActor
    BY DEF SessionInv, ResourceInv, Actors, NoActor
  <2>2. LeavesRests(a)
    BY <1>1, <1>4, <1>5, <2>1 DEF LeavesRests, SessionOf, Owns, HasSlot, pumps
  <2> QED
    BY <2>1, <2>2, LeavesStays
<1>6. ASSUME old \in Actors PROVE LeavesOf(old)'
  <2>1. /\ home[old] = w /\ HasSlot(w) /\ builder[w] \in Recorded /\ life[old] # "none"
        /\ old # NoActor /\ SessionOf(old) /\ LeavesOf(old)
    BY <1>6 DEF WindowOf, SessionInv, ResourceInv, Actors, NoActor
  <2> QED
    BY <1>1, <1>4, <1>6, <2>1 DEF LeavesOf, SessionOf, Owns, HasSlot, pumps
<1> QED
  BY <1>2, <1>3, <1>5, <1>6 DEF ResourceInv

LEMMA CloseStepsResources ==
    ASSUME ManagerInv, ResourceInv,
           \/ \E p \in Profiles : Delete(p)
           \/ \E w \in Windows : Close(w) \/ DiscardClose(w)
    PROVE  ResourceInv'
<1> ManagerTypeOK
  BY DEF ManagerInv
<1>1. ASSUME NEW p \in Profiles, Delete(p), UNCHANGED << closing, slot, life, finish, closers >>
      PROVE  ResourceInv'
  <2>1. UNCHANGED << slot, build, platform, home, life, pumps, finish, shutdown >>
    BY <1>1 DEF Delete
  <2> QED
    BY <2>1, ResourceRests DEF HoldsRests, LeavesRests, Owns, HasSlot, build, platform, pumps
<1>2. ASSUME NEW w \in Windows, close_session_window(w),
             UNCHANGED << build, platform, home, pumps, shutdown >>
      PROVE  ResourceInv'
  BY <1>2, CloseResources DEF close_session_window, build
<1>3. ASSUME NEW w \in Windows, DiscardClose(w) PROVE ResourceInv'
  <2>1. /\ builder[w] = "discard" /\ builder'[w] = "discarding"
        /\ \A v \in Windows \ {w} : builder'[v] = builder[v]
    BY <1>3 DEF DiscardClose, Advance, ManagerTypeOK, BuildTypes
  <2> QED
    BY <1>3, <2>1, CloseResources DEF DiscardClose
<1> QED
  BY <1>1, <1>2, <1>3 DEF Delete, Close, window_for, window_of_profile

LEMMA ShutDownResources ==
    ASSUME ManagerInv, ResourceInv, NEW next \in {"waiting", "blocking"}, ShutDown(next)
    PROVE  ResourceInv'
<1> ManagerTypeOK /\ WindowInv /\ SessionInv
  BY DEF ManagerInv
<1>1. /\ \A w \in Windows : slot'[w].profile = NoProfile /\ slot'[w].live = NoActor
      /\ \A a \in Actors : \A w \in Windows : slot[w].live # a => life'[a] = life[a] \/ a \in shutdown'
      /\ \A a \in Actors : a \in shutdown' <=> \E w \in Windows : slot[w].live = a
      /\ \A a \in Actors : a \notin shutdown' => life'[a] = life[a]
      /\ UNCHANGED << build, platform, home, pumps, finish >>
  BY DEF ShutDown, Told, NoSlot, ManagerTypeOK, SlotTypes, ActorTypes, Actors, NoActor
<1>2. \A w \in Windows : HoldsRests(w)
  BY <1>1 DEF HoldsRests, build, platform
<1>3. ASSUME NEW a \in Actors PROVE LeavesOf(a)'
  <2>1. a # NoActor /\ SessionOf(a) /\ LeavesOf(a)
    BY DEF Actors, NoActor, SessionInv, ResourceInv
  <2>2. CASE a \in shutdown'
    <3>1. life[a] # "none" /\ home[a] \in Windows /\ slot[home[a]].live = a
      BY <1>1, <2>1, <2>2 DEF WindowInv, WindowOf, SessionOf
    <3>2. builder[home[a]] \in Recorded
      BY <2>1, <3>1 DEF WindowInv, WindowOf
    <3> QED
      BY <1>1, <2>1, <3>1, <3>2 DEF LeavesOf, SessionOf, Owns, HasSlot, build, pumps
  <2>3. CASE a \notin shutdown'
    <3>1. LeavesRests(a)
      BY <1>1, <2>1, <2>3 DEF LeavesRests, SessionOf, Owns, HasSlot, build, pumps
    <3> QED
      BY <2>1, <3>1, LeavesStays
  <2> QED
    BY <2>2, <2>3
<1> QED
  BY <1>2, <1>3, HoldsStays DEF ResourceInv

\* Whoever waited for a session releases it in a window that has none and gets none.
LEMMA ReleaseResources ==
    ASSUME ManagerInv, ResourceInv, NEW a \in Actors, session_ended(a),
           finish[a] = "wait" \/ a \in shutdown,
           UNCHANGED << slot, build, exists, registered, actor, pump >>,
           \A b \in Actors : finish'[b] = "wait" => finish[b] = "wait", shutdown' \subseteq shutdown
    PROVE  ResourceInv'
<1> ManagerTypeOK /\ WindowInv /\ SessionOf(a) /\ LeavesOf(a)
  BY DEF ManagerInv, SessionInv, ResourceInv
<1> PICK h \in Windows : h = home[a]
  BY DEF SessionOf
<1>1. ~ HasSlot(h) /\ builder[h] \in Recorded /\ slot[h].live = NoActor
  BY DEF LeavesOf, WindowInv, WindowOf
<1>2. \A w \in Windows \ {h} : render'[w] = render[w] /\ link'[w] = link[w]
  BY DEF session_ended, release_session, ManagerTypeOK, PlatformTypes
<1>3. \A w \in Windows \ {h} : HoldsOf(w)'
  <2>1. \A w \in Windows \ {h} : HoldsRests(w)
    BY <1>2 DEF HoldsRests, build
  <2> QED
    BY <2>1, HoldsStays DEF ResourceInv
<1>4. HoldsOf(h)'
  BY <1>1, HoldsNothing DEF Recorded, build, ResourceInv, HoldsOf
<1>5. \A b \in Actors : LeavesOf(b)'
  <2>1. \A b \in Actors : LeavesRests(b)
    BY DEF LeavesRests, Owns, HasSlot, actor, build
  <2> QED
    BY <2>1, LeavesStays DEF ManagerInv, SessionInv, ResourceInv
<1> QED
  BY <1>3, <1>4, <1>5 DEF ResourceInv

\* No session ends by itself, so no pump takes a window's session from it.
LEMMA PumpResources ==
    ASSUME ManagerInv, ResourceInv, NEW a \in Actors, PumpSteps(a)
    PROVE  ResourceInv'
<1> ManagerTypeOK /\ SessionInv /\ SessionOf(a) /\ LeavesOf(a)
  BY DEF ManagerInv, SessionInv, ResourceInv
<1>1. /\ UNCHANGED << build, platform, home, life, finish, shutdown >>
      /\ \A w \in Windows : slot'[w].profile = slot[w].profile /\ slot'[w].live = slot[w].live
      /\ pump[a] # "none" /\ pump'[a] \in {"recv", "deliver", "done"}
      /\ \A b \in Actors \ {a} : pump'[b] = pump[b]
  <2>1. CASE PumpRecv(a)
    <3>1. \A w \in Windows : slot'[w].profile = slot[w].profile /\ slot'[w].live = slot[w].live
      BY <2>1 DEF PumpRecv, ManagerTypeOK, SlotTypes
    <3>2. /\ pump[a] = "recv" /\ pump'[a] \in {"recv", "deliver"}
          /\ \A b \in Actors \ {a} : pump'[b] = pump[b]
      BY <2>1 DEF PumpRecv, ManagerTypeOK, PumpTypes
    <3> QED
      BY <2>1, <3>1, <3>2 DEF PumpRecv
  <2>2. CASE PumpDeliver(a) \/ PumpStops(a)
    BY <2>2 DEF PumpDeliver, PumpStops, ManagerTypeOK, PumpTypes, actor
  <2>3. CASE PumpEnd(a)
    <3>1. ~ Owns(a)
      BY <2>3 DEF PumpEnd, LeavesOf
    <3> QED
      BY <2>3, <3>1 DEF PumpEnd, ManagerTypeOK, PumpTypes, actor
  <2>4. CASE PumpRelease(a)
    BY <2>4 DEF PumpRelease, LeavesOf
  <2> QED
    BY <2>1, <2>2, <2>3, <2>4 DEF PumpSteps
<1>2. \A w \in Windows : HoldsOf(w)'
  <2>1. \A w \in Windows : HoldsRests(w)
    BY <1>1 DEF HoldsRests, build, platform
  <2> QED
    BY <2>1, HoldsStays DEF ResourceInv
<1>3. \A b \in Actors \ {a} : LeavesOf(b)'
  <2>1. \A b \in Actors \ {a} : LeavesRests(b)
    BY <1>1 DEF LeavesRests, Owns, HasSlot, build, SessionInv, SessionOf
  <2> QED
    BY <2>1, LeavesStays DEF SessionInv, ResourceInv
<1>4. LeavesOf(a)'
  BY <1>1 DEF LeavesOf, SessionOf, Owns, HasSlot, build
<1> QED
  BY <1>2, <1>3, <1>4 DEF ResourceInv

LEMMA ResourceStep ==
    ASSUME ~ ActorsEnd, ManagerInv, ResourceInv, [Next]_vars
    PROVE  ResourceInv'
<1> ManagerTypeOK /\ WindowInv /\ SessionInv
  BY DEF ManagerInv
<1>1. ASSUME NEW t \in Connectors, ConnectSteps(t) PROVE ResourceInv'
  <2>1. UNCHANGED << slot, building, platform, actor, pumps, finish, shutdown >>
    BY <1>1 DEF ConnectSteps, ConnectPlan, ConnectWindow, ConnectOpen, build
  <2>2. CASE UNCHANGED << window_profiles, builder, target >>
    BY <2>1, <2>2, ResourceRests DEF HoldsRests, LeavesRests, Owns, HasSlot, platform, actor, pumps
  <2>3. ASSUME NEW w \in Windows, w = Cardinality(Opened) + 1,
               builder' = [builder EXCEPT ![w] = "build"]
        PROVE  ResourceInv'
    <3>1. /\ builder[w] = "none" /\ slot[w].live = NoActor /\ exists[w] # "shown"
      BY <2>3, NewWindow DEF ManagerInv, WindowInv, WindowOf, Recorded
    <3>2. builder'[w] = "build" /\ \A v \in Windows \ {w} : builder'[v] = builder[v]
      BY <2>3 DEF ManagerTypeOK, BuildTypes
    <3>3. HoldsOf(w)'
      BY <2>1, <3>1, <3>2, HoldsNothing DEF platform
    <3>4. \A v \in Windows \ {w} : HoldsOf(v)'
      <4>1. \A v \in Windows \ {w} : HoldsRests(v)
        BY <2>1, <3>2 DEF HoldsRests, platform
      <4> QED
        BY <4>1, HoldsStays DEF ResourceInv
    <3>5. \A a \in Actors : LeavesOf(a)'
      <4>1. \A a \in Actors : LeavesRests(a)
        BY <2>1, <3>1, <3>2 DEF LeavesRests, Owns, HasSlot, Recorded, actor, pumps, SessionInv, SessionOf
      <4> QED
        BY <4>1, LeavesStays DEF SessionInv, ResourceInv
    <3> QED
      BY <3>3, <3>4, <3>5 DEF ResourceInv
  <2> QED
    BY <1>1, <2>2, <2>3 DEF ConnectSteps, ConnectPlan, ConnectWindow, ConnectOpen, appstate, build
<1>2. ASSUME NEW w \in Windows, toggle_stats(w) \/ answer_certificate(w) \/ PageListens(w)
      PROVE  ResourceInv'
  <2>1. /\ UNCHANGED << build, platform, actor, pumps, finish, shutdown >>
        /\ \A v \in Windows : slot'[v].profile = slot[v].profile /\ slot'[v].live = slot[v].live
    BY <1>2 DEF toggle_stats, answer_certificate, PageListens, ManagerTypeOK, SlotTypes
  <2> QED
    BY <2>1, ResourceRests
       DEF HoldsRests, LeavesRests, Owns, HasSlot, build, platform, actor, pumps, SessionInv, SessionOf
<1>3. ASSUME NEW a \in Actors, ActorEmits(a) PROVE ResourceInv'
  <2>1. UNCHANGED << slot, build, platform, home, life, pumps, finish, shutdown >>
    BY <1>3 DEF ActorEmits
  <2> QED
    BY <2>1, ResourceRests DEF HoldsRests, LeavesRests, Owns, HasSlot, build, platform, pumps
<1>4. ASSUME NEW a \in Actors, ActorExits(a) PROVE ResourceInv'
  <2>1. /\ UNCHANGED << slot, build, platform, home, pumps, finish, shutdown >>
        /\ life[a] = "told" /\ life'[a] = "exited" /\ \A b \in Actors \ {a} : life'[b] = life[b]
    BY <1>4 DEF ActorExits, ManagerTypeOK, ActorTypes
  <2>2. \A w \in Windows : HoldsOf(w)'
    <3>1. \A w \in Windows : HoldsRests(w)
      BY <2>1 DEF HoldsRests, build, platform
    <3> QED
      BY <3>1, HoldsStays DEF ResourceInv
  <2>3. \A b \in Actors \ {a} : LeavesOf(b)'
    <3>1. \A b \in Actors \ {a} : LeavesRests(b)
      BY <2>1 DEF LeavesRests, Owns, HasSlot, build, pumps
    <3> QED
      BY <3>1, LeavesStays DEF SessionInv, ResourceInv
  <2>4. LeavesOf(a)'
    BY <2>1 DEF LeavesOf, Owns, HasSlot, build, pumps, ResourceInv
  <2> QED
    BY <2>2, <2>3, <2>4 DEF ResourceInv
<1>5. ASSUME NEW a \in Actors, CloseFinishes(a) PROVE ResourceInv'
  <2>1. \A b \in Actors : finish'[b] = "wait" => finish[b] = "wait"
    BY <1>5 DEF CloseFinishes, ManagerTypeOK, CloseTypes
  <2> QED
    BY <1>5, <2>1, ReleaseResources DEF CloseFinishes
<1>6. ASSUME ShutdownNext PROVE ResourceInv'
  <2>1. PICK a \in shutdown : session_ended(a) /\ shutdown' = shutdown \ {a}
    BY <1>6 DEF ShutdownNext
  <2>2. a \in Actors
    BY DEF ManagerTypeOK, CloseTypes
  <2> QED
    BY <1>6, <2>1, <2>2, ReleaseResources DEF ShutdownNext
<1>7. ASSUME Exit \/ UNCHANGED vars PROVE ResourceInv'
  <2>1. UNCHANGED << slot, build, platform, home, life, pumps, finish, shutdown >>
    BY <1>7 DEF Exit, vars, build, platform, actor, pumps
  <2> QED
    BY <2>1, ResourceRests DEF HoldsRests, LeavesRests, Owns, HasSlot, build, platform, pumps
<1> QED
  BY <1>1, <1>2, <1>3, <1>4, <1>5, <1>6, <1>7, BuilderResources, StartResources, InsertResources,
     ReconnectResources, CloseStepsResources, ShutDownResources, PumpResources
     DEF Next, UserSteps, BuilderSteps, CloserSteps, Quit, DockQuit

\* Without deletes, no step hides a window that has a record, or records one for a window that is
\* gone.
LEMMA KeptStep ==
    ASSUME "Delete" \notin Commands, ManagerInv, KeptInv, [Next]_vars
    PROVE  KeptInv'
<1> ManagerTypeOK /\ WindowInv /\ saved = Profiles
  BY DEF ManagerInv, KeptInv
<1> DEFINE Kept(w) == builder[w] = "done" /\ HasSlot(w) => exists[w] = "shown"
<1>1. \A w \in Windows : Kept(w)
  BY DEF KeptInv
<1>2. SUFFICES saved' = saved /\ \A w \in Windows : Kept(w)'
  BY DEF KeptInv
<1>3. ASSUME UNCHANGED << saved, exists >>,
             \A w \in Windows : builder'[w] = "done" => builder[w] = "done",
             \A w \in Windows : slot'[w].profile \in {slot[w].profile, NoProfile}
                                \/ builder'[w] # "done"
      PROVE  saved' = saved /\ \A w \in Windows : Kept(w)'
  BY <1>1, <1>3 DEF HasSlot
<1>4. ASSUME NEW t \in Connectors, ConnectSteps(t)
      PROVE  saved' = saved /\ \A w \in Windows : Kept(w)'
  <2>1. /\ UNCHANGED << saved, slot, exists >>
        /\ \A w \in Windows : builder'[w] = "done" => builder[w] = "done"
    BY <1>4 DEF ConnectSteps, ConnectPlan, ConnectWindow, ConnectOpen, user, build, platform,
                ManagerTypeOK, BuildTypes
  <2> QED
    BY <2>1, <1>3
<1>5. ASSUME NEW w \in Windows,
             Reconnect(w) \/ toggle_stats(w) \/ answer_certificate(w) \/ Close(w) \/ PageListens(w)
      PROVE  saved' = saved /\ \A v \in Windows : Kept(v)'
  <2>1. /\ UNCHANGED << saved, exists, builder >>
        /\ \A v \in Windows : slot'[v].profile \in {slot[v].profile, NoProfile}
    BY <1>5 DEF Reconnect, toggle_stats, answer_certificate, Close, PageListens, close_session_window,
                close, NoSlot, user, build, platform, ManagerTypeOK, SlotTypes
  <2> QED
    BY <2>1, <1>3
<1>6. ASSUME \/ \E next \in {"waiting", "blocking"} : ShutDown(next)
             \/ ShutdownNext \/ Exit \/ UNCHANGED vars
      PROVE  saved' = saved /\ \A v \in Windows : Kept(v)'
  <2>1. /\ UNCHANGED << saved, exists, builder >>
        /\ \A v \in Windows : slot'[v].profile \in {slot[v].profile, NoProfile}
    BY <1>6 DEF ShutDown, ShutdownNext, Exit, NoSlot, user, build, platform, vars, ManagerTypeOK, SlotTypes
  <2> QED
    BY <2>1, <1>3
<1>7. ASSUME NEW a \in Actors, ActorEmits(a) \/ ActorExits(a) \/ PumpSteps(a) \/ CloseFinishes(a)
      PROVE  saved' = saved /\ \A v \in Windows : Kept(v)'
  <2>1. UNCHANGED << saved, exists, builder >>
    BY <1>7 DEF ActorEmits, ActorExits, PumpSteps, CloseFinishes, PumpRecv, PumpDeliver, PumpEnd,
                PumpRelease, PumpStops, user, build, platform
  <2>2. \A v \in Windows : slot'[v].profile = slot[v].profile
    BY <1>7 DEF ActorEmits, ActorExits, PumpSteps, CloseFinishes, PumpRecv, PumpDeliver, PumpEnd,
                PumpRelease, PumpStops, ManagerTypeOK, SlotTypes
  <2> QED
    BY <2>1, <2>2, <1>3
<1>8. ASSUME NEW w \in Windows,
             PrepareWindow(w) \/ CreateRenderSink(w) \/ AttachSession(w) \/ InsertSlot(w)
             \/ BuildFails(w) \/ DiscardClose(w) \/ ForgetClosed(w)
      PROVE  saved' = saved /\ \A v \in Windows : Kept(v)'
  <2>1. /\ UNCHANGED << saved, exists >>
        /\ \A v \in Windows : builder'[v] = "done" => builder[v] = "done"
    BY <1>8 DEF PrepareWindow, CreateRenderSink, AttachSession, InsertSlot, BuildFails, DiscardClose,
                ForgetClosed, Advance, user, build, platform, ManagerTypeOK, BuildTypes
  <2>2. \A v \in Windows : slot'[v].profile \in {slot[v].profile, NoProfile} \/ builder'[v] # "done"
    BY <1>8 DEF PrepareWindow, CreateRenderSink, AttachSession, InsertSlot, BuildFails, DiscardClose,
                ForgetClosed, Advance, close, NoSlot, ManagerTypeOK, BuildTypes, SlotTypes
  <2> QED
    BY <2>1, <2>2, <1>3
<1>9. ASSUME NEW w \in Windows,
             BuildWindow(w) \/ ShowWindow(w) \/ DiscardWindow(w) \/ DestroyClosed(w)
      PROVE  saved' = saved /\ \A v \in Windows : Kept(v)'
  <2>1. /\ UNCHANGED << saved, slot >>
        /\ \A v \in Windows \ {w} : builder'[v] = builder[v] /\ exists'[v] = exists[v]
    BY <1>9 DEF BuildWindow, ShowWindow, DiscardWindow, DestroyClosed, DestroyWindow, Advance, user,
                build, ManagerTypeOK, BuildTypes, PlatformTypes
  <2>2. Kept(w)'
    <3>1. CASE BuildWindow(w)
      BY <3>1 DEF BuildWindow, Advance, ManagerTypeOK, BuildTypes
    <3>2. CASE ShowWindow(w)
      BY <3>2 DEF ShowWindow, ManagerTypeOK, PlatformTypes
    <3>3. CASE DiscardWindow(w)
      BY <2>1, <3>3 DEF DiscardWindow, Advance, WindowInv, WindowOf, HasSlot
    <3>4. CASE DestroyClosed(w)
      <4>1. closer[w] = "wait" /\ builder[w] # "none" /\ target[w] \in saved
        BY <3>4 DEF DestroyClosed, WindowInv, WindowOf, ManagerTypeOK, BuildTypes
      <4> QED
        BY <2>1, <4>1 DEF WindowInv, WindowOf, HasSlot
    <3> QED
      BY <1>9, <3>1, <3>2, <3>3, <3>4
  <2> QED
    BY <1>1, <2>1, <2>2 DEF HasSlot
<1> QED
  BY <1>4, <1>5, <1>6, <1>7, <1>8, <1>9
     DEF Next, UserSteps, BuilderSteps, CloserSteps, Quit, DockQuit, Delete

\* Windows and sessions own each other, however builders fail and closes, reopens and the quit
\* meet (SessionManager::open, discard_window), as long as no actor ends by itself, whose pump
\* would release what a reopen just took, and no profile is deleted while its window is built.
THEOREM SessionsKeepTheirWindows ==
    ASSUME ~ ActorsEnd, "Delete" \notin Commands
    PROVE  Spec => []ResourcesMatchSessions
<1>1. Init => ResourceInv /\ KeptInv
  BY DEF Init, ResourceInv, HoldsOf, LeavesOf, KeptInv, NoSlot, HasSlot
<1>2. ManagerInv /\ ResourceInv /\ KeptInv => ResourcesMatchSessions
  <2> SUFFICES ASSUME ManagerInv, ResourceInv, KeptInv PROVE ResourcesMatchSessions
    OBVIOUS
  <2>1. LiveKeepsItsResources
    BY DEF LiveKeepsItsResources, ResourceInv, HoldsOf
  <2>2. NoOrphanSession
    <3>1. ASSUME NEW w \in Windows, builder[w] = "done", exists[w] = "no" PROVE ~ HasSlot(w)
      BY <3>1 DEF KeptInv
    <3>2. ASSUME NEW w \in Windows, builder[w] = "done", ~ HasSlot(w), NEW a \in Actors, home[a] = w
          PROVE  life[a] # "running"
      BY <3>2 DEF ManagerInv, WindowInv, WindowOf, SessionInv, SessionOf, Owns, Carries, Actors, NoActor
    <3> QED
      BY <3>1, <3>2 DEF NoOrphanSession
  <2> QED
    BY <2>1, <2>2 DEF ResourcesMatchSessions
<1> QED
  BY <1>1, <1>2, ManagerInvariant, ResourceStep, KeptStep, PTL DEF Spec

-----------------------------------------------------------------------------
(* Pages show what their windows have.                                       *)

\* A step sends nothing to window w's page and changes no view of it, except that the window may
\* lose its record.
PageRests(w) ==
    /\ page'[w] = page[w] /\ (listens[w] => listens'[w])
    /\ (slot'[w].profile = slot[w].profile /\ slot'[w].view = slot[w].view) \/ ~ HasSlot(w)'
    /\ \A a \in Actors : home[a] = w /\ pump[a] = "deliver" => home'[a] = w /\ pump'[a] = "deliver"

\* A step leaves the view that session a carries to window w, if any, alone.
CarriedRests(a, w) ==
    /\ home'[a] = w /\ pump'[a] = "deliver" =>
          home[a] = w /\ pump[a] = "deliver" /\ carried'[a] = carried[a]
    /\ slot'[w] = slot[w] \/ ~ HasSlot(w)'
    /\ page'[w] \in {page[w], Blank}

\* A step keeps the pumps where their windows' builders have been.
PumpRests(a) ==
    pump'[a] # "none" =>
        /\ pump[a] # "none" /\ home'[a] = home[a]
        /\ builder[home[a]] \in Recorded => builder'[home[a]] \in Recorded

LEMMA PageStays ==
    ASSUME NEW w \in Windows, PageOf(w), PageRests(w)
    PROVE  PageOf(w)'
BY DEF PageOf, PageRests, Quiet, HasSlot

LEMMA CarriedStays ==
    ASSUME NEW a \in Actors, NEW w \in Windows, CarriedOf(a, w), CarriedRests(a, w)
    PROVE  CarriedOf(a, w)'
BY DEF CarriedOf, CarriedRests, HasSlot

LEMMA PumpStays ==
    ASSUME NEW a \in Actors, PumpOf(a), PumpRests(a)
    PROVE  PumpOf(a)'
BY DEF PumpOf, PumpRests

LEMMA PageResting ==
    ASSUME PageInv, \A w \in Windows : PageRests(w), \A a \in Actors : PumpRests(a),
           \A a \in Actors, w \in Windows : CarriedRests(a, w)
    PROVE  PageInv'
BY PageStays, CarriedStays, PumpStays DEF PageInv

\* A pump that hands over a view is that of its window's session: the window has no other one.
LEMMA OneCarrier ==
    ASSUME PageInv, NEW w \in Windows, HasSlot(w), NEW a \in Actors, slot[w].live # a, home[a] = w
    PROVE  pump[a] # "deliver"
BY DEF PageInv, CarriedOf

LEMMA RecvPage ==
    ASSUME ManagerInv, PageInv, NEW a \in Actors, PumpRecv(a)
    PROVE  PageInv'
<1> ManagerTypeOK /\ SessionInv /\ SessionOf(a)
  BY DEF ManagerInv, SessionInv
<1> PICK w \in Windows : w = home[a]
  BY DEF PumpRecv, SessionOf
<1>1. UNCHANGED << build, home, pages >> /\ pump[a] = "recv" /\ life[a] # "none"
  BY DEF PumpRecv, SessionOf
<1>2. \A b \in Actors : PumpOf(b)'
  <2>1. \A b \in Actors : PumpRests(b)
    BY <1>1 DEF PumpRests, PumpRecv, build, ManagerTypeOK, PumpTypes
  <2> QED
    BY <2>1, PumpStays DEF PageInv
<1>3. CASE UNCHANGED << slot, carried, pump >>
  <2>1. \A v \in Windows : PageRests(v)
    BY <1>1, <1>3 DEF PageRests, pages
  <2>2. \A b \in Actors, v \in Windows : CarriedRests(b, v)
    BY <1>1, <1>3 DEF CarriedRests, pages
  <2> QED
    BY <1>2, <2>1, <2>2, PageStays, CarriedStays DEF PageInv
<1>4. ASSUME NEW event \in SessionEvent, NEW view, view = apply(slot[w].view, event),
             slot[w].live = a, view # slot[w].view, slot' = [slot EXCEPT ![w].view = view],
             carried' = [carried EXCEPT ![a] = view], pump' = [pump EXCEPT ![a] = "deliver"]
      PROVE  PageInv'
  <2>1. /\ slot'[w].live = a /\ slot'[w].view = view /\ slot'[w].profile = slot[w].profile
        /\ \A v \in Windows \ {w} : slot'[v] = slot[v]
        /\ carried'[a] = view /\ pump'[a] = "deliver"
        /\ \A b \in Actors \ {a} : carried'[b] = carried[b] /\ pump'[b] = pump[b]
    BY <1>4 DEF ManagerTypeOK, SlotTypes, PumpTypes
  <2>2. \A v \in Windows \ {w} : PageOf(v)'
    <3>1. \A v \in Windows \ {w} : PageRests(v)
      BY <1>1, <2>1 DEF PageRests, pages
    <3> QED
      BY <3>1, PageStays DEF PageInv
  <2>3. PageOf(w)'
    BY <1>1, <2>1 DEF PageInv, PageOf, Quiet, pages
  <2>4. ASSUME NEW b \in Actors, NEW v \in Windows, b # a \/ v # w PROVE CarriedOf(b, v)'
    <3>1. CASE v # w
      <4>1. CarriedRests(b, v)
        BY <1>1, <2>1, <3>1 DEF CarriedRests, pages
      <4> QED
        BY <4>1, CarriedStays DEF PageInv
    <3>2. CASE v = w /\ b # a
      <4>1. home[b] = w /\ HasSlot(w) => pump[b] # "deliver"
        BY <1>4, <3>2, OneCarrier
      <4> QED
        BY <1>1, <2>1, <3>2, <4>1 DEF CarriedOf, HasSlot
    <3> QED
      BY <2>4, <3>1, <3>2
  <2>5. ASSUME HasSlot(w), page[w] # Blank, page[w].certificate, view.certificate
        PROVE  clear_certificate(view) = NewView
    <3>1. slot[w].view \in View
      BY DEF ManagerTypeOK, SlotTypes
    <3>2. view = [slot[w].view EXCEPT !.certificate = TRUE]
      BY <1>4, <2>5, <3>1 DEF apply, View
    <3>3. slot[w].view.certificate = FALSE
      BY <1>4, <3>1, <3>2 DEF View
    <3>4. Quiet(w)
      BY <1>1, <1>4, <2>5, OneCarrier DEF Quiet
    <3>5. slot[w].view = NewView
      BY <2>5, <3>3, <3>4 DEF PageInv, PageOf
    <3>6. view \in View /\ view.state = "Idle" /\ view.show_stats = FALSE
      <4>1. PICK old \in View : old = slot[w].view /\ old.state = "Idle" /\ old.show_stats = FALSE
        BY <3>1, <3>5 DEF NewView
      <4>2. view = [old EXCEPT !.certificate = TRUE]
        BY <3>2, <4>1
      <4> QED
        BY <4>1, <4>2 DEF View
    <3>7. /\ clear_certificate(view) \in View
          /\ clear_certificate(view).state = "Idle" /\ clear_certificate(view).show_stats = FALSE
          /\ clear_certificate(view).certificate = FALSE
      BY <3>6 DEF View, clear_certificate
    <3> QED
      BY <3>7 DEF View, NewView
  <2>6. CarriedOf(a, w)'
    BY <1>1, <2>1, <2>5 DEF CarriedOf, HasSlot, pages
  <2> QED
    BY <1>2, <2>2, <2>3, <2>4, <2>6 DEF PageInv
<1>5. Head(events[a]) \in SessionEvent
  <2>1. events[a] \in Seq(SessionEvent) /\ events[a] # << >>
    BY DEF PumpRecv, ManagerTypeOK, ActorTypes
  <2> QED
    BY <2>1
<1> QED
  BY <1>3, <1>4, <1>5 DEF PumpRecv, Owns

LEMMA DeliverPage ==
    ASSUME ManagerInv, PageInv, NEW a \in Actors, PumpDeliver(a)
    PROVE  PageInv'
<1> ManagerTypeOK /\ SessionInv /\ SessionOf(a)
  BY DEF ManagerInv, SessionInv
<1> PICK w \in Windows : w = home[a]
  BY DEF PumpDeliver, SessionOf
<1>1. /\ UNCHANGED << build, home, slot, listens >>
      /\ pump[a] = "deliver" /\ pump'[a] = "recv"
      /\ \A b \in Actors \ {a} : pump'[b] = pump[b] /\ carried'[b] = carried[b]
      /\ \A v \in Windows \ {w} : page'[v] = page[v]
      /\ page'[w] = IF listens[w] THEN carried[a] ELSE page[w]
  BY DEF PumpDeliver, apply_view, actor, ManagerTypeOK, PumpTypes, PageTypes
<1>2. \A b \in Actors : PumpOf(b)'
  BY <1>1 DEF PageInv, PumpOf, build
<1>3. \A v \in Windows \ {w} : PageOf(v)'
  <2>1. \A v \in Windows \ {w} : PageRests(v)
    BY <1>1 DEF PageRests
  <2> QED
    BY <2>1, PageStays DEF PageInv
<1>4. PageOf(w)'
  BY <1>1 DEF PageInv, PageOf, CarriedOf, HasSlot
<1>5. ASSUME NEW b \in Actors, NEW v \in Windows PROVE CarriedOf(b, v)'
  <2>1. CASE b = a
    BY <1>1, <2>1 DEF CarriedOf
  <2>2. CASE b # a /\ v # w
    <3>1. CarriedRests(b, v)
      BY <1>1, <2>2 DEF CarriedRests
    <3> QED
      BY <3>1, CarriedStays DEF PageInv
  <2>3. CASE b # a /\ v = w
    <3>1. HasSlot(w) => slot[w].live = a
      BY <1>1 DEF PageInv, CarriedOf
    <3>2. home[b] = w /\ HasSlot(w) => pump[b] # "deliver"
      BY <2>3, <3>1, OneCarrier
    <3> QED
      BY <1>1, <2>3, <3>2 DEF CarriedOf, HasSlot
  <2> QED
    BY <2>1, <2>2, <2>3
<1> QED
  BY <1>2, <1>3, <1>4, <1>5 DEF PageInv

LEMMA AnswerPage ==
    ASSUME ManagerInv, PageInv, NEW w \in Windows, answer_certificate(w)
    PROVE  PageInv'
<1> ManagerTypeOK
  BY DEF ManagerInv
<1> PICK view \in View : view = slot[w].view
  BY DEF ManagerTypeOK, SlotTypes
<1>1. clear_certificate(view) \in View /\ ~ clear_certificate(view).certificate
  BY DEF clear_certificate, View
<1>2. /\ UNCHANGED << build, home, pumps, listens >>
      /\ page[w] # Blank /\ page[w].certificate /\ view.certificate
      /\ slot'[w].view = clear_certificate(view) /\ slot'[w].profile = slot[w].profile
      /\ slot'[w].live = slot[w].live
      /\ \A v \in Windows \ {w} : slot'[v] = slot[v] /\ page'[v] = page[v]
      /\ page'[w] = clear_certificate(view)
  <2>1. listens[w]
    BY DEF answer_certificate, PageInv, PageOf
  <2> QED
    BY <2>1 DEF answer_certificate, apply_view, actor, ManagerTypeOK, SlotTypes, PageTypes
<1>3. \A b \in Actors : PumpOf(b)'
  BY <1>2 DEF PageInv, PumpOf, build, pumps
<1>4. \A v \in Windows \ {w} : PageOf(v)'
  <2>1. \A v \in Windows \ {w} : PageRests(v)
    BY <1>2 DEF PageRests, pumps
  <2> QED
    BY <2>1, PageStays DEF PageInv
<1>5. PageOf(w)'
  BY <1>2 DEF PageInv, PageOf
<1>6. ASSUME NEW b \in Actors, NEW v \in Windows \ {w} PROVE CarriedOf(b, v)'
  <2>1. CarriedRests(b, v)
    BY <1>2 DEF CarriedRests, pumps
  <2> QED
    BY <2>1, CarriedStays DEF PageInv
<1>7. ASSUME NEW b \in Actors PROVE CarriedOf(b, w)'
  BY <1>1, <1>2 DEF PageInv, CarriedOf, HasSlot, pumps
<1> QED
  BY <1>3, <1>4, <1>5, <1>6, <1>7 DEF PageInv

\* A step that takes no view to a page, and starts no session: windows keep or lose their records
\* and pages, pumps go on or stop.
LEMMA OtherPages ==
    ASSUME ManagerInv, PageInv,
           \/ \E t \in Connectors : ConnectSteps(t)
           \/ \E p \in Profiles : Delete(p)
           \/ \E w \in Windows : Close(w) \/ PageListens(w) \/ CloserSteps(w) \/ BuildWindow(w)
                                 \/ PrepareWindow(w) \/ CreateRenderSink(w) \/ AttachSession(w)
                                 \/ ShowWindow(w) \/ BuildFails(w) \/ DiscardClose(w)
                                 \/ DiscardWindow(w)
           \/ \E next \in {"waiting", "blocking"} : ShutDown(next)
           \/ \E a \in Actors : ActorEmits(a) \/ ActorExits(a) \/ PumpRelease(a) \/ PumpStops(a)
                                \/ CloseFinishes(a)
           \/ ShutdownNext \/ Exit \/ UNCHANGED vars
    PROVE  PageInv'
<1> ManagerTypeOK /\ NumberingInv /\ WindowInv /\ SessionInv
  BY DEF ManagerInv
<1> DEFINE Stopped == \A a \in Actors : pump'[a] = pump[a] \/ (pump'[a] = "done" /\ pump[a] \in {"recv", "release"})
           Kept == \A w \in Windows : slot'[w] = slot[w] \/ slot'[w].profile = NoProfile
           Built == \A w \in Windows : builder[w] \in Recorded => builder'[w] \in Recorded
           Homes == \A a \in Actors : pump[a] # "none" => home'[a] = home[a]
           Sent == \A w \in Windows :
                      \/ page'[w] = page[w] /\ (listens[w] => listens'[w])
                      \/ page'[w] = Blank
<1>1. ASSUME Stopped, Kept, Built, Homes, Sent, UNCHANGED carried PROVE PageInv'
  <2>1. ASSUME NEW w \in Windows PROVE PageOf(w)'
    <3>1. Quiet(w)' => Quiet(w)
      BY <1>1 DEF Quiet
    <3> QED
      BY <1>1, <3>1 DEF PageInv, PageOf, HasSlot
  <2>2. ASSUME NEW a \in Actors PROVE PumpOf(a)'
    <3>1. PumpRests(a)
      BY <1>1 DEF PumpRests, PageInv, PumpOf, SessionInv, SessionOf
    <3> QED
      BY <3>1, PumpStays DEF PageInv
  <2>3. ASSUME NEW a \in Actors, NEW w \in Windows PROVE CarriedOf(a, w)'
    <3>1. CarriedRests(a, w)
      BY <1>1 DEF CarriedRests, HasSlot
    <3> QED
      BY <3>1, CarriedStays DEF PageInv
  <2> QED
    BY <2>1, <2>2, <2>3 DEF PageInv
<1>2. ASSUME NEW t \in Connectors, ConnectSteps(t) PROVE PageInv'
  <2>1. UNCHANGED << slot, pages, actor, pumps >>
    BY <1>2 DEF ConnectSteps, ConnectPlan, ConnectWindow, ConnectOpen
  <2>2. Built
    <3>1. CASE UNCHANGED << window_profiles, builder, target >>
      BY <3>1
    <3>2. ASSUME NEW w \in Windows, w = Cardinality(Opened) + 1,
                 builder' = [builder EXCEPT ![w] = "build"]
          PROVE  Built
      <4>1. builder[w] = "none"
        BY <3>2, NewWindow DEF WindowInv, WindowOf
      <4> QED
        BY <3>2, <4>1 DEF Recorded, ManagerTypeOK, BuildTypes
    <3> QED
      BY <1>2, <3>1, <3>2 DEF ConnectSteps, ConnectPlan, ConnectWindow, ConnectOpen, appstate, build
  <2> QED
    BY <1>1, <2>1, <2>2 DEF pages, actor, pumps
<1>3. ASSUME NEW w \in Windows, CreateRenderSink(w) PROVE PageInv'
  <2>1. UNCHANGED << slot, pages, pumps >> /\ Built
    BY <1>3 DEF CreateRenderSink, Advance, Recorded, ManagerTypeOK, BuildTypes
  <2>2. PICK new \in Actors : new = Cardinality(Started) + 1 /\ home' = [home EXCEPT ![new] = w]
    BY <1>3 DEF CreateRenderSink
  <2>3. pump[new] = "none"
    BY <2>2, NewSession DEF SessionInv, SessionOf
  <2>4. Homes
    BY <2>2, <2>3 DEF ManagerTypeOK, ActorTypes
  <2> QED
    BY <1>1, <2>1, <2>4 DEF pages, pumps
<1>4. ASSUME \/ \E p \in Profiles : Delete(p)
             \/ \E w \in Windows : Close(w) \/ DiscardClose(w)
             \/ \E next \in {"waiting", "blocking"} : ShutDown(next)
      PROVE  PageInv'
  <2>1. UNCHANGED << home, pages, pumps >>
    BY <1>4 DEF Delete, Close, DiscardClose, ShutDown
  <2>2. Kept
    <3>1. ASSUME NEW w \in Windows, close(w) PROVE Kept
      BY <3>1 DEF close, NoSlot, ManagerTypeOK, SlotTypes
    <3>2. ASSUME NEW next \in {"waiting", "blocking"}, ShutDown(next) PROVE Kept
      BY <3>2 DEF ShutDown, NoSlot
    <3>3. ASSUME NEW p \in Profiles, Delete(p)
          PROVE  UNCHANGED slot \/ \E w \in Windows : close_session_window(w)
      BY <3>3 DEF Delete, window_for, window_of_profile
    <3> QED
      BY <1>4, <3>1, <3>2, <3>3 DEF Close, DiscardClose, close_session_window
  <2>3. Built
    BY <1>4 DEF Delete, Close, DiscardClose, ShutDown, Advance, Recorded, build, ManagerTypeOK, BuildTypes
  <2> QED
    BY <1>1, <2>1, <2>2, <2>3 DEF pages, pumps
<1>5. ASSUME NEW w \in Windows,
             PageListens(w) \/ BuildWindow(w) \/ PrepareWindow(w) \/ AttachSession(w) \/ ShowWindow(w)
             \/ BuildFails(w) \/ DiscardWindow(w) \/ DestroyClosed(w) \/ ForgetClosed(w)
      PROVE  PageInv'
  <2>1. UNCHANGED << slot, home, pumps >>
    BY <1>5 DEF PageListens, BuildWindow, PrepareWindow, AttachSession, ShowWindow, BuildFails,
                DiscardWindow, DestroyClosed, ForgetClosed, actor
  <2>2. Built
    BY <1>5 DEF PageListens, BuildWindow, PrepareWindow, AttachSession, ShowWindow, BuildFails,
                DiscardWindow, DestroyClosed, ForgetClosed, Advance, Recorded, build, ManagerTypeOK,
                BuildTypes
  <2>3. Sent
    BY <1>5 DEF PageListens, BuildWindow, PrepareWindow, AttachSession, ShowWindow, BuildFails,
                DiscardWindow, DestroyClosed, ForgetClosed, DestroyWindow, pages, ManagerTypeOK,
                PageTypes
  <2> QED
    BY <1>1, <2>1, <2>2, <2>3 DEF pumps
<1>6. ASSUME \/ \E a \in Actors : ActorEmits(a) \/ ActorExits(a) \/ PumpRelease(a) \/ PumpStops(a)
                                  \/ CloseFinishes(a)
             \/ ShutdownNext \/ Exit \/ UNCHANGED vars
      PROVE  PageInv'
  <2>1. UNCHANGED << slot, home, pages, build, carried >>
    BY <1>6 DEF ActorEmits, ActorExits, PumpRelease, PumpStops, CloseFinishes, ShutdownNext, Exit, vars,
                actor, pumps, pages, build
  <2>2. Stopped
    BY <1>6 DEF ActorEmits, ActorExits, PumpRelease, PumpStops, CloseFinishes, ShutdownNext, Exit, vars,
                pumps, ManagerTypeOK, PumpTypes
  <2> QED
    BY <1>1, <2>1, <2>2 DEF pages, build
<1> QED
  BY <1>2, <1>3, <1>4, <1>5, <1>6 DEF CloserSteps

\* A session that starts in a window has sent no page anything.
LEMMA StartPages ==
    ASSUME Callers = "app", ManagerInv, PageInv, NEW w \in Windows, Reconnect(w) \/ InsertSlot(w)
    PROVE  PageInv'
<1> ManagerTypeOK /\ NumberingInv /\ WindowInv /\ WindowOf(w) /\ SessionInv
  BY DEF ManagerInv, WindowInv
<1>1. PICK new \in Actors :
         /\ \A a \in Actors \ {new} : home'[a] = home[a] /\ pump'[a] = pump[a]
         /\ home'[new] = w /\ pump[new] = "none" /\ pump'[new] = "recv"
         /\ UNCHANGED << pages, carried >> /\ slot'[w].view = NewView
         /\ \A v \in Windows \ {w} : slot'[v] = slot[v]
         /\ \A v \in Windows : builder[v] \in Recorded => builder'[v] \in Recorded
         /\ builder'[w] \in Recorded
         /\ \A a \in Actors : home[a] = w => pump[a] # "deliver"
  <2>1. CASE Reconnect(w)
    <3>1. PICK new \in Actors :
             /\ new = Cardinality(Started) + 1 /\ home' = [home EXCEPT ![new] = w]
             /\ slot' = [slot EXCEPT ![w].view = NewView, ![w].live = new]
             /\ pump' = [pump EXCEPT ![new] = "recv"]
      BY <2>1 DEF Reconnect
    <3>2. pump[new] = "none"
      BY <3>1, NewSession DEF SessionInv, SessionOf
    <3>3. /\ slot[w].live = NoActor /\ HasSlot(w) /\ exists[w] = "shown"
          /\ UNCHANGED << pages, carried, build >>
      BY <2>1 DEF Reconnect
    <3>4. \A a \in Actors : home[a] = w => pump[a] # "deliver"
      BY <3>3, OneCarrier DEF Actors, NoActor
    <3>5. builder'[w] \in Recorded
      BY <3>3 DEF WindowOf, Recorded, build
    <3>6. /\ \A a \in Actors \ {new} : home'[a] = home[a] /\ pump'[a] = pump[a]
          /\ home'[new] = w /\ pump'[new] = "recv"
      BY <3>1 DEF ManagerTypeOK, ActorTypes, PumpTypes
    <3>7. slot'[w].view = NewView /\ \A v \in Windows \ {w} : slot'[v] = slot[v]
      BY <3>1 DEF ManagerTypeOK, SlotTypes
    <3> QED
      BY <3>2, <3>3, <3>4, <3>5, <3>6, <3>7 DEF build
  <2>2. CASE InsertSlot(w)
    <3>1. PICK new \in Actors : new = building[w]
      BY <2>2 DEF InsertSlot, Advance, WindowOf, Carries
    <3>2. /\ builder[w] = "insert" /\ builder'[w] = "show"
          /\ \A v \in Windows \ {w} : builder'[v] = builder[v] /\ slot'[v] = slot[v]
          /\ slot'[w].view = NewView /\ UNCHANGED << pages, home, carried >>
          /\ pump'[new] = "recv" /\ \A a \in Actors \ {new} : pump'[a] = pump[a]
      BY <2>2, <3>1 DEF InsertSlot, Advance, actor, ManagerTypeOK, BuildTypes, SlotTypes, PumpTypes
    <3>3. home[new] = w /\ pump[new] = "none"
      BY <3>1, <3>2 DEF WindowOf, Carries
    <3>4. \A a \in Actors : home[a] = w => pump[a] # "deliver"
      BY <3>2 DEF PageInv, PumpOf, Recorded
    <3> QED
      BY <3>2, <3>3, <3>4 DEF Recorded
  <2> QED
    BY <2>1, <2>2
<1>2. ASSUME NEW v \in Windows \ {w} PROVE PageOf(v)'
  <2>1. PageRests(v)
    BY <1>1 DEF PageRests, pages
  <2> QED
    BY <2>1, PageStays DEF PageInv
<1>3. PageOf(w)'
  BY <1>1 DEF PageInv, PageOf, pages
<1>4. \A a \in Actors : PumpOf(a)'
  BY <1>1 DEF PageInv, PumpOf, SessionInv, SessionOf
<1>5. ASSUME NEW a \in Actors, NEW v \in Windows PROVE CarriedOf(a, v)'
  <2>1. CASE v = w
    BY <1>1, <2>1 DEF CarriedOf
  <2>2. CASE v # w
    <3>1. CarriedRests(a, v)
      BY <1>1, <2>2 DEF CarriedRests, pages
    <3> QED
      BY <3>1, CarriedStays DEF PageInv
  <2> QED
    BY <2>1, <2>2
<1> QED
  BY <1>2, <1>3, <1>4, <1>5 DEF PageInv

\* A session that has ended leaves its window the view it had.
LEMMA EndPages ==
    ASSUME ManagerInv, PageInv, NEW a \in Actors, PumpEnd(a)
    PROVE  PageInv'
<1> ManagerTypeOK /\ SessionInv /\ SessionOf(a)
  BY DEF ManagerInv, SessionInv
<1> PICK w \in Windows : w = home[a]
  BY DEF PumpEnd, SessionOf
<1>1. /\ UNCHANGED << build, home, pages, carried >>
      /\ pump[a] = "recv" /\ pump'[a] \in {"release", "done"}
      /\ \A b \in Actors \ {a} : pump'[b] = pump[b]
      /\ \A v \in Windows : slot'[v].profile = slot[v].profile /\ slot'[v].view = slot[v].view
      /\ \A v \in Windows \ {w} : slot'[v] = slot[v]
      /\ slot'[w] = slot[w] \/ slot[w].live = a
  BY DEF PumpEnd, Owns, actor, ManagerTypeOK, PumpTypes, SlotTypes
<1>2. \A b \in Actors : PumpOf(b)'
  BY <1>1 DEF PageInv, PumpOf, build
<1>3. \A v \in Windows : PageOf(v)'
  <2>1. \A v \in Windows : PageRests(v)
    BY <1>1 DEF PageRests, pages
  <2> QED
    BY <2>1, PageStays DEF PageInv
<1>4. ASSUME NEW b \in Actors, NEW v \in Windows PROVE CarriedOf(b, v)'
  <2>1. CASE slot'[v] = slot[v]
    <3>1. CarriedRests(b, v)
      BY <1>1, <2>1 DEF CarriedRests, pages
    <3> QED
      BY <3>1, CarriedStays DEF PageInv
  <2>2. CASE v = w /\ slot[w].live = a
    <3>1. home[b] = w /\ HasSlot(w) => pump[b] # "deliver"
      BY <1>1, <2>2, OneCarrier
    <3> QED
      BY <1>1, <2>2, <3>1 DEF CarriedOf, HasSlot
  <2> QED
    BY <1>1, <2>1, <2>2
<1> QED
  BY <1>2, <1>3, <1>4 DEF PageInv

LEMMA PageStep ==
    ASSUME Callers = "app", "Toggle" \notin Commands, ManagerInv, PageInv, [Next]_vars
    PROVE  PageInv'
BY RecvPage, DeliverPage, AnswerPage, OtherPages, StartPages, EndPages
   DEF Next, UserSteps, BuilderSteps, CloserSteps, PumpSteps, Quit, DockQuit, toggle_stats

\* A page that has been sent anything shows the manager's view of its window whenever no pump is
\* about to send it another (manager.rs, pump and answer_certificate), as long as open() is called
\* as the app calls it, after the session ended, and no statistics toggle meets a carried view.
THEOREM PagesShowTheirView ==
    ASSUME Callers = "app", "Toggle" \notin Commands
    PROVE  Spec => []ShownIsCurrent
<1>1. Init => PageInv
  BY DEF Init, PageInv, PageOf, PumpOf, CarriedOf
<1>2. PageInv => ShownIsCurrent
  BY DEF PageInv, PageOf, ShownIsCurrent
<1> QED
  BY <1>1, <1>2, ManagerInvariant, PageStep, PTL DEF Spec
=============================================================================
