------------------------------ MODULE RemoteInput ------------------------------
(***************************************************************************)
(* Keyboard and pointer input of one session view: AppKit's callbacks on     *)
(* RemoteView, the InputController with its keyboard translator, the         *)
(* session actor's InputEncoder, and what the remote believes is held.       *)
(*                                                                           *)
(* The events of one callback are queued commands; the actor handles them in *)
(* order, on a live leg only.  A leg may end, or activate, between two of    *)
(* them.  Key events reach the view when it is the first responder of the    *)
(* key window; modifiers also change while it is not.                        *)
(***************************************************************************)
EXTENDS Keyboard

CONSTANTS
    Keys,       \* non-modifier keys the user types with
    Users,      \* what users work with: modifier keys and pointer buttons
    Prefs       \* keyboard preferences a profile may have

MouseButton == {"Left", "Right", "Middle", "X1", "X2"}

ASSUME InputAssumption ==
    /\ Keys \subseteq kvk /\ \A k \in Keys : ~is_modifier(k)
    /\ Users \subseteq [mods : SUBSET ModifierKey, buttons : SUBSET MouseButton]
    /\ Prefs \subseteq [cmd_as : {"Super", "Ctrl"}, mac_layout : BOOLEAN]

\* The translation table gives two keys one scancode only when Command stands in for Control.
ASSUME ScancodesDistinct ==
    \A keyboard \in {"Ansi", "Iso", "Jis"}, cmd_as \in {"Super", "Ctrl"} :
        LET codes == [k \in kvk |-> scancode_for(k, keyboard, cmd_as)]
            lone == {k \in kvk : codes[k] # {}} \ (IF cmd_as = "Ctrl" THEN {"COMMAND", "RIGHT_COMMAND"} ELSE {})
        IN  Cardinality({codes[k] : k \in lone}) = Cardinality(lone)

VARIABLES
    kb,                             \* the Keyboard
    user, hardware,                 \* the user, and the modifier keys held
    responder, keyWindow,           \* AppKit: first responder, window is key
    focused, marked,                \* Ivars: focused, marked_len > 0
    desktop, last, buttons,         \* InputController: desktop attached, a last position, buttons held
    live, activated,                \* the actor: on a live leg, activations > 0
    keys, held_buttons,             \* InputEncoder, and what the remote believes is held
    alternates,     \* history: presses and releases of every scancode the view sent alternate
    taken,          \* history: Command keys held back whose combo the menu took
    tapped          \* history: one of those was tapped on the remote

viewVars == <<responder, keyWindow, focused, marked>>
pointerVars == <<desktop, last, buttons>>
wireVars == <<live, activated, keys, held_buttons>>
historyVars == <<alternates, taken, tapped>>
inputVars == <<kb, user, hardware, viewVars, pointerVars, wireVars, historyVars>>

\* Every scancode those keys and Ctrl+Alt+Del can send.
Scancodes ==
    (UNION {scancode_for(k, "Ansi", p.cmd_as) : k \in Keys \union {kvk_of(m) : m \in ModifierKey}, p \in Prefs})
        \union {\h1D, \h38, ext(\h53)}

\* The flags words of an event while the keys of mods are held.  Caps Lock is left out: no property
\* looks at it.
FlagWords(mods) == {Flags(mods, synthetic, FALSE) : synthetic \in BOOLEAN}

InputInit ==
    /\ kb \in {NewKeyboard(p, "Ansi", Scancodes) : p \in Prefs}
    /\ user \in Users /\ hardware = {}
    /\ responder = FALSE /\ keyWindow = FALSE /\ focused = FALSE /\ marked = FALSE
    /\ desktop = FALSE /\ last = FALSE /\ buttons = {}
    /\ live = FALSE /\ activated = FALSE
    /\ keys = {} /\ held_buttons = {}
    /\ alternates = TRUE /\ taken = {} /\ tapped = FALSE

(***************************************************************************)
(* The session actor.                                                        *)
(***************************************************************************)
Button(b, down) == [type |-> "MouseButton", button |-> b, down |-> down]

\* One event through the encoder E = [keys, buttons], and at the remote, whose session goes on.
encode(E, event) ==
    CASE event.type = "Key" ->
            [E EXCEPT !.keys = IF event.down THEN @ \union {event.sc} ELSE @ \ {event.sc}]
      [] event.type = "MouseButton" ->
            [E EXCEPT !.buttons = IF event.down THEN @ \union {event.button} ELSE @ \ {event.button}]
      [] event.type = "ReleaseAll" -> [keys |-> {}, buttons |-> {}]
      [] OTHER -> E

encode_all(E, events) == FoldLeft(encode, E, events)

\* The actor handles the commands on a live leg.
send_input_events(events) ==
    LET E == encode_all([keys |-> keys, buttons |-> held_buttons], events)
    IN  keys' = E.keys /\ held_buttons' = E.buttons

\* Mutant: nothing is released after a reconnect.
BugActivate(events) == live' = TRUE /\ activated' = TRUE /\ send_input_events(events)

\* on_activated: every activation but the first sends ReleaseAll; then the commands of events.
Activate(events) ==
    /\ live' = TRUE /\ activated' = TRUE
    /\ send_input_events((IF activated THEN <<[type |-> "ReleaseAll"]>> ELSE <<>>) \o events)

\* Commands are dropped without a leg (remember); a leg may end or activate within the batch.
SendAll(events) ==
    \/ live /\ send_input_events(events) /\ UNCHANGED <<live, activated>>
    \/ ~live /\ UNCHANGED wireVars
    \/ \E n \in 1..Len(events) - 1 :
        \/ live /\ send_input_events(SubSeq(events, 1, n)) /\ live' = FALSE /\ UNCHANGED activated
        \/ ~live /\ Activate(SubSeq(events, n + 1, Len(events)))

LegActivates == ~live /\ Activate(<<>>) /\ UNCHANGED <<kb, user, hardware, viewVars, pointerVars, historyVars>>

LegEnds == live /\ live' = FALSE
           /\ UNCHANGED <<kb, user, hardware, viewVars, pointerVars, historyVars, activated, keys, held_buttons>>

(***************************************************************************)
(* emit: the handler queues one command per event.                           *)
(***************************************************************************)
\* W = [held, ok]: a press needs a released key, a release a pressed one.
Step(W, e) ==
    IF e.type # "Key" THEN W
    ELSE [held |-> IF e.down THEN W.held \union {e.sc} ELSE W.held \ {e.sc},
          ok |-> W.ok /\ (e.down <=> e.sc \notin W.held)]
Replay(W, events) == FoldLeft(Step, W, events)

emit(K) ==
    LET taps == {m \in taken \ K.cmd_pending : \E i \in 1..Len(K.out) - 1, sc \in ScancodeOf(kb, m) :
                    K.out[i] = Key(sc, TRUE) /\ K.out[i + 1] = Key(sc, FALSE)}
    IN  /\ kb' = [K EXCEPT !.out = <<>>]
        /\ alternates' = (alternates /\ Replay([held |-> RemotePressed(kb), ok |-> TRUE], K.out).ok)
        /\ taken' = taken \intersect K.cmd_pending
        /\ tapped' = (tapped \/ taps # {})
        /\ SendAll(K.out)

KeyFocus == responder /\ keyWindow

\* The user presses or releases a modifier; the view hears of it when it has the keys.
FlagsChanged ==
    /\ \E m \in user.mods :
        /\ hardware' = IF m \in hardware THEN hardware \ {m} ELSE hardware \union {m}
        /\ IF KeyFocus THEN \E flags \in FlagWords(hardware') : emit(flags_changed(kb, kvk_of(m), flags))
           ELSE UNCHANGED <<kb, wireVars, historyVars>>
    /\ UNCHANGED <<user, viewVars, pointerVars>>

\* interpretKeyEvents: calls back with text, a composition or a command for the key.
handle_key_down(k, flags, is_repeat) ==
    IF route_key_down(kb.prefs, k, flags, marked) = "Scancode"
    THEN emit(key_down(kb, k, flags, is_repeat)) /\ UNCHANGED marked
    ELSE \/ \E text \in BOOLEAN : emit(insert_text(kb, text)) /\ marked' = FALSE
         \/ emit(key_down_scancode(kb, k, flags)) /\ UNCHANGED marked
         \/ emit(kb) /\ marked' \in BOOLEAN

\* key_equivalent: a shortcut the menu takes leaves Command alone; what it does not take comes to
\* keyDown: after all, and every other combo goes to the remote as scancodes.
key_equivalent(k, flags, is_repeat) ==
    IF menu_shortcut(k, flags)
    THEN \/ /\ kb' = menu_shortcut_taken(kb) /\ taken' = kb.cmd_pending
            /\ UNCHANGED <<marked, wireVars, alternates, tapped>>
         \/ /\ emit(key_down([kb EXCEPT !.cmd_consumed = kb.cmd_pending], k, flags, is_repeat))
            /\ UNCHANGED marked
    ELSE emit(key_down(kb, k, flags, is_repeat)) /\ UNCHANGED marked

\* performKeyEquivalent: sees only combos of Command or Control; the rest is passed on to keyDown:.
handle_key_equivalent(k, flags, is_repeat) ==
    IF {"Command", "Control"} \intersect flags.classes = {} THEN handle_key_down(k, flags, is_repeat)
    ELSE key_equivalent(k, flags, is_repeat)

KeyDown ==
    /\ KeyFocus
    /\ \E k \in Keys, flags \in FlagWords(hardware), is_repeat \in BOOLEAN :
         handle_key_equivalent(k, flags, is_repeat)
    /\ UNCHANGED <<user, hardware, responder, keyWindow, focused, pointerVars>>

\* keyUp:, and the local monitor for the key-ups AppKit swallows while Command is held.
KeyUp ==
    /\ KeyFocus
    /\ \E k \in Keys : emit(key_up(kb, k))
    /\ UNCHANGED <<user, hardware, viewVars, pointerVars>>

\* insertText: outside a key event (character palette, dictation); unmarkText.
InsertText ==
    /\ emit(insert_text(kb, TRUE)) /\ marked' = FALSE
    /\ UNCHANGED <<user, hardware, responder, keyWindow, focused, pointerVars>>

CtrlAltDel == emit(ctrl_alt_del(kb)) /\ UNCHANGED <<user, hardware, viewVars, pointerVars>>

SetPrefs ==
    /\ \E p \in Prefs : kb' = set_prefs(kb, p)
    /\ UNCHANGED <<user, hardware, viewVars, pointerVars, wireVars, historyVars>>

(***************************************************************************)
(* Focus.                                                                    *)
(***************************************************************************)
FocusGained ==
    /\ \E flags \in FlagWords(hardware) : emit(focus_gained(kb, flags))
    /\ focused' = TRUE /\ UNCHANGED <<user, hardware, marked, pointerVars>>

\* InputController::focus_lost: the buttons are released at the last position, if there is one.
ReleaseHeld ==
    LET ups == IF last THEN SetToSeq({Button(b, FALSE) : b \in buttons}) ELSE <<>>
    IN  [focus_lost(kb) EXCEPT !.out = @ \o ups]

FocusLost ==
    /\ emit(ReleaseHeld) /\ buttons' = {} /\ marked' = FALSE /\ focused' = FALSE
    /\ UNCHANGED <<user, hardware, desktop, last>>

BecomeFirstResponder == ~responder /\ responder' = TRUE /\ FocusGained /\ UNCHANGED keyWindow

ResignFirstResponder == responder /\ responder' = FALSE /\ FocusLost /\ UNCHANGED keyWindow

WindowDidBecomeKey ==
    /\ ~keyWindow /\ keyWindow' = TRUE /\ UNCHANGED responder
    /\ IF responder THEN FocusGained ELSE UNCHANGED <<kb, user, hardware, focused, marked, pointerVars, wireVars, historyVars>>

WindowDidResignKey ==
    /\ keyWindow /\ keyWindow' = FALSE /\ UNCHANGED responder
    /\ IF responder THEN FocusLost ELSE UNCHANGED <<kb, user, hardware, focused, marked, pointerVars, wireVars, historyVars>>

\* release_session: release_all, then the link is cut and the desktop detached.  The window's next
\* session has an encoder of its own.
ReleaseSession ==
    /\ kb' = [ReleaseHeld EXCEPT !.out = <<>>] /\ taken' = {}
    /\ live' = FALSE /\ activated' = FALSE /\ keys' = {} /\ held_buttons' = {}
    /\ buttons' = {} /\ desktop' = FALSE /\ last' = FALSE
    /\ UNCHANGED <<user, hardware, viewVars, alternates, tapped>>

(***************************************************************************)
(* The pointer.  Events are dropped until a desktop is attached.             *)
(***************************************************************************)
\* view_point: every pointer event places the pointer on the desktop.
mouse_moved == desktop /\ last' = TRUE

MouseMove ==
    /\ mouse_moved /\ ~last /\ user.buttons # {}
    /\ UNCHANGED <<kb, user, hardware, viewVars, desktop, buttons, wireVars, historyVars>>

\* mouse_button: a press completes what the keyboard has pending first.
pointer_button(b, down) ==
    /\ emit(Send(IF down THEN prepare_pointer_button(kb) ELSE kb, Button(b, down)))
    /\ buttons' = IF down THEN buttons \union {b} ELSE buttons \ {b}

MouseDown ==
    /\ mouse_moved
    /\ \E b \in user.buttons : pointer_button(b, TRUE)
    /\ UNCHANGED <<user, hardware, viewVars, desktop>>

MouseUp ==
    /\ mouse_moved
    /\ \E b \in buttons : pointer_button(b, FALSE)
    /\ UNCHANGED <<user, hardware, viewVars, desktop>>

\* The pointer's last position was on the desktop as it was.
Replaced(attached) == desktop' = attached /\ last' = FALSE

\* set_desktop (activation, resize) and set_view_geometry place the desktop anew.
SetDesktop ==
    /\ Replaced(TRUE)
    /\ UNCHANGED <<kb, user, hardware, viewVars, buttons, wireVars, historyVars>>

ClearDesktop ==
    /\ Replaced(FALSE)
    /\ UNCHANGED <<kb, user, hardware, viewVars, buttons, wireVars, historyVars>>

InputNext ==
    \/ LegActivates \/ LegEnds
    \/ FlagsChanged \/ KeyDown \/ KeyUp \/ InsertText \/ CtrlAltDel \/ SetPrefs
    \/ BecomeFirstResponder \/ ResignFirstResponder \/ WindowDidBecomeKey \/ WindowDidResignKey
    \/ ReleaseSession
    \/ MouseMove \/ MouseDown \/ MouseUp \/ SetDesktop \/ ClearDesktop

InputSpec == InputInit /\ [][InputNext]_inputVars

(***************************************************************************)
(* Properties.                                                               *)
(***************************************************************************)
\* The type invariant.
InputTypeOK ==
    /\ hardware \subseteq user.mods /\ kb.mods \subseteq ModifierKey /\ kb.cmd_consumed \subseteq kb.cmd_pending /\ kb.cmd_pending \subseteq kb.mods
    /\ DOMAIN kb.held_keys \subseteq Keys /\ kb.out = <<>>
    /\ {responder, keyWindow, focused, marked, desktop, last, live, activated} \subseteq BOOLEAN
    /\ keys \subseteq Scancodes /\ buttons \union held_buttons \subseteq user.buttons
    /\ KeyFocus => focused

\* The reference count of a scancode is the number of Mac keys that hold it: held keys and the
\* modifiers sent, so that the last holder's release, and no other, reaches the remote.
HoldersCounted ==
    \A sc \in Scancodes :
        kb.pressed[sc] = Cardinality({k \in DOMAIN kb.held_keys : kb.held_keys[k] = sc})
                            + Cardinality({m \in ModifierKey : kb.mod_sent[m] = sc})

\* "Every scancode press is followed by exactly one release before it is pressed again, and no
\* release is sent for a key the remote does not consider pressed" (the module's documentation),
\* through deferred Command keys, text, preference changes and focus changes.
WireAlternates == alternates

\* A Command combo the menu took leaves nothing behind: releasing the Command key taps nothing.
MenuCombosStayLocal == ~tapped

\* While the view has no focus and a leg is up, the remote holds no key, however much of what the
\* view sent was dropped while there was no leg.
NoStuckKeys == live /\ ~focused => keys = {}

\* The wire is sound: scancodes are counted, alternate, and leave nothing behind on the remote.
WireIsSound == HoldersCounted /\ WireAlternates /\ MenuCombosStayLocal
=============================================================================
