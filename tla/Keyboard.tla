-------------------------------- MODULE Keyboard --------------------------------
(***************************************************************************)
(* drift-input's keyboard translator.  A Keyboard is a record; each method   *)
(* is an operator from records to records.  The field out is the vector of   *)
(* events the method returns: methods append to it, the caller empties it.   *)
(*                                                                           *)
(* A scancode is a number; the extended (0xE0) codes are 256 and up.  A      *)
(* flags word is a record: the modifier classes held, the side-specific      *)
(* device bits, and Caps Lock.                                               *)
(***************************************************************************)
EXTENDS Naturals, Sequences, SequencesExt, FiniteSets, FiniteSetsExt

ext(code) == 256 + code

\* Keys whose job is to produce text, with their scancodes (is_text_key and its part of the table).
TextKeys ==
    [ANSI_A |-> \h1E, ANSI_S |-> \h1F, ANSI_D |-> \h20, ANSI_F |-> \h21, ANSI_H |-> \h23,
     ANSI_G |-> \h22, ANSI_Z |-> \h2C, ANSI_X |-> \h2D, ANSI_C |-> \h2E, ANSI_V |-> \h2F,
     ANSI_B |-> \h30, ANSI_Q |-> \h10, ANSI_W |-> \h11, ANSI_E |-> \h12, ANSI_R |-> \h13,
     ANSI_Y |-> \h15, ANSI_T |-> \h14, ANSI_1 |-> \h02, ANSI_2 |-> \h03, ANSI_3 |-> \h04,
     ANSI_4 |-> \h05, ANSI_6 |-> \h07, ANSI_5 |-> \h06, ANSI_EQUAL |-> \h0D, ANSI_9 |-> \h0A,
     ANSI_7 |-> \h08, ANSI_MINUS |-> \h0C, ANSI_8 |-> \h09, ANSI_0 |-> \h0B,
     ANSI_RIGHT_BRACKET |-> \h1B, ANSI_O |-> \h18, ANSI_U |-> \h16, ANSI_LEFT_BRACKET |-> \h1A,
     ANSI_I |-> \h17, ANSI_P |-> \h19, ANSI_L |-> \h26, ANSI_J |-> \h24, ANSI_QUOTE |-> \h28,
     ANSI_K |-> \h25, ANSI_SEMICOLON |-> \h27, ANSI_BACKSLASH |-> \h2B, ANSI_COMMA |-> \h33,
     ANSI_SLASH |-> \h35, ANSI_N |-> \h31, ANSI_M |-> \h32, ANSI_PERIOD |-> \h34, ANSI_GRAVE |-> \h29,
     ANSI_KEYPAD_DECIMAL |-> \h53, ANSI_KEYPAD_MULTIPLY |-> \h37, ANSI_KEYPAD_PLUS |-> \h4E,
     ANSI_KEYPAD_DIVIDE |-> ext(\h35), ANSI_KEYPAD_MINUS |-> \h4A, ANSI_KEYPAD_EQUALS |-> \h59,
     ANSI_KEYPAD_0 |-> \h52, ANSI_KEYPAD_1 |-> \h4F, ANSI_KEYPAD_2 |-> \h50, ANSI_KEYPAD_3 |-> \h51,
     ANSI_KEYPAD_4 |-> \h4B, ANSI_KEYPAD_5 |-> \h4C, ANSI_KEYPAD_6 |-> \h4D, ANSI_KEYPAD_7 |-> \h47,
     ANSI_KEYPAD_8 |-> \h48, ANSI_KEYPAD_9 |-> \h49, SPACE |-> \h39, ISO_SECTION |-> \h56,
     JIS_YEN |-> \h7D, JIS_UNDERSCORE |-> \h73, JIS_KEYPAD_COMMA |-> \h7E]

\* The other keys of the table.
OtherKeys ==
    [ANSI_KEYPAD_ENTER |-> ext(\h1C), RETURN |-> \h1C, TAB |-> \h0F, DELETE |-> \h0E, ESCAPE |-> \h01,
     SHIFT |-> \h2A, CAPS_LOCK |-> \h3A, OPTION |-> \h38, CONTROL |-> \h1D, RIGHT_SHIFT |-> \h36,
     RIGHT_OPTION |-> ext(\h38), RIGHT_CONTROL |-> ext(\h1D), F1 |-> \h3B, F2 |-> \h3C, F3 |-> \h3D,
     F4 |-> \h3E, F5 |-> \h3F, F6 |-> \h40, F7 |-> \h41, F8 |-> \h42, F9 |-> \h43, F10 |-> \h44,
     F11 |-> \h57, F12 |-> \h58, F13 |-> \h64, F14 |-> \h65, F15 |-> \h66, F16 |-> \h67, F17 |-> \h68,
     F18 |-> \h69, F19 |-> \h6A, F20 |-> \h6B, VOLUME_UP |-> ext(\h30), VOLUME_DOWN |-> ext(\h2E),
     MUTE |-> ext(\h20), CONTEXTUAL_MENU |-> ext(\h5D), HELP |-> ext(\h52), HOME |-> ext(\h47),
     PAGE_UP |-> ext(\h49), FORWARD_DELETE |-> ext(\h53), END |-> ext(\h4F), PAGE_DOWN |-> ext(\h51),
     LEFT_ARROW |-> ext(\h4B), RIGHT_ARROW |-> ext(\h4D), DOWN_ARROW |-> ext(\h50),
     UP_ARROW |-> ext(\h48), JIS_EISU |-> \h71, JIS_KANA |-> \h72]

base_scancode ==
    [k \in DOMAIN TextKeys \union DOMAIN OtherKeys |->
        IF k \in DOMAIN TextKeys THEN TextKeys[k] ELSE OtherKeys[k]]

\* The virtual key codes: fn and keypad Clear have no scancode.
kvk == DOMAIN base_scancode \union {"COMMAND", "RIGHT_COMMAND", "FUNCTION", "ANSI_KEYPAD_CLEAR"}

\* A set holding the scancode of a key, or empty.
scancode_for(k, keyboard, cmd_as) ==
    CASE k = "ISO_SECTION" /\ keyboard = "Iso"      -> {\h29}
      [] k = "ANSI_GRAVE" /\ keyboard = "Iso"       -> {\h56}
      [] k = "COMMAND" /\ cmd_as = "Super"          -> {ext(\h5B)}
      [] k = "RIGHT_COMMAND" /\ cmd_as = "Super"    -> {ext(\h5C)}
      [] k = "COMMAND" /\ cmd_as = "Ctrl"           -> {\h1D}
      [] k = "RIGHT_COMMAND" /\ cmd_as = "Ctrl"     -> {ext(\h1D)}
      [] OTHER -> IF k \in DOMAIN base_scancode THEN {base_scancode[k]} ELSE {}

is_modifier(k) ==
    k \in {"SHIFT", "RIGHT_SHIFT", "CONTROL", "RIGHT_CONTROL", "OPTION", "RIGHT_OPTION",
           "COMMAND", "RIGHT_COMMAND", "CAPS_LOCK", "FUNCTION"}

is_text_key(k) == k \in DOMAIN TextKeys

(***************************************************************************)
(* Modifiers.                                                                *)
(***************************************************************************)
ALL == <<"LeftShift", "RightShift", "LeftControl", "RightControl",
         "LeftOption", "RightOption", "LeftCommand", "RightCommand">>

ModifierKey == Range(ALL)

kvk_of(m) ==
    [LeftShift |-> "SHIFT", RightShift |-> "RIGHT_SHIFT", LeftControl |-> "CONTROL",
     RightControl |-> "RIGHT_CONTROL", LeftOption |-> "OPTION", RightOption |-> "RIGHT_OPTION",
     LeftCommand |-> "COMMAND", RightCommand |-> "RIGHT_COMMAND"][m]

is_command(m) == m \in {"LeftCommand", "RightCommand"}

ClassOf(m) ==
    [LeftShift |-> "Shift", RightShift |-> "Shift", LeftControl |-> "Control",
     RightControl |-> "Control", LeftOption |-> "Option", RightOption |-> "Option",
     LeftCommand |-> "Command", RightCommand |-> "Command"][m]

\* The flags word AppKit reports while the keys of mods are held; a synthetic event has no device bits.
Flags(mods, synthetic, capsLock) ==
    [classes |-> {ClassOf(m) : m \in mods}, device |-> IF synthetic THEN {} ELSE mods, caps |-> capsLock]

\* The keys physically held according to one flags word: device bits pick the sides, else the
\* changed key, else the sides already held, else the left one.
held_modifiers(flags, changed, previous) ==
    LET sides(class) == {m \in ModifierKey : ClassOf(m) = class}
        held(class) ==
            LET first == <<sides(class) \intersect flags.device, sides(class) \intersect changed,
                           sides(class) \intersect previous, sides(class) \intersect {ALL[i] : i \in {1, 3, 5, 7}}>>
            IN  first[Min({i \in 1..4 : first[i] # {}})]
    IN  UNION {held(class) : class \in flags.classes}

(***************************************************************************)
(* The translator.                                                           *)
(***************************************************************************)
NoScancode == 0

\* pressed counts the holders of a scancode, 0 for a code not in the map; caps is a set of at most one.
NewKeyboard(prefs, keyboard, scancodes) ==
    [prefs |-> prefs, keyboard |-> keyboard, mods |-> {}, mod_sent |-> [m \in ModifierKey |-> NoScancode],
     cmd_pending |-> {}, cmd_consumed |-> {}, held_keys |-> <<>>,
     pressed |-> [sc \in scancodes |-> 0], caps |-> {}, out |-> <<>>]

Key(sc, down) == [type |-> "Key", sc |-> sc, down |-> down]
Unicode == [type |-> "Unicode"]
SyncToggles(capsLock) == [type |-> "SyncToggles", caps |-> capsLock]

Send(K, event) == [K EXCEPT !.out = Append(@, event)]

\* Mutant: the press is sent again for a second holder.
BugPress(K, sc) == [Send(K, Key(sc, TRUE)) EXCEPT !.pressed[sc] = @ + 1]

\* The count is a u8 that saturates; it never exceeds the number of keys.
press(K, sc) ==
    LET J == IF K.pressed[sc] = 0 THEN Send(K, Key(sc, TRUE)) ELSE K
    IN  [J EXCEPT !.pressed[sc] = @ + 1]

release(K, sc) ==
    IF K.pressed[sc] = 0 THEN K
    ELSE LET J == [K EXCEPT !.pressed[sc] = @ - 1]
         IN  IF J.pressed[sc] = 0 THEN Send(J, Key(sc, FALSE)) ELSE J

ScancodeOf(K, m) == scancode_for(kvk_of(m), K.keyboard, K.prefs.cmd_as)

\* Presses m's scancode and remembers it for the release.
PressAs(K, m) ==
    LET sc == CHOOSE c \in ScancodeOf(K, m) : TRUE
    IN  [press(K, sc) EXCEPT !.mod_sent[m] = sc]

press_modifier(K, m) ==
    IF is_command(m)
    THEN [K EXCEPT !.cmd_pending = @ \union {m}, !.cmd_consumed = @ \ {m}]
    ELSE IF ScancodeOf(K, m) = {} THEN K ELSE PressAs(K, m)

\* A deferred Command key released alone is a tap, unless the menu took its combo.
release_modifier(K, m) ==
    IF m \in K.cmd_pending
    THEN LET J == [K EXCEPT !.cmd_pending = @ \ {m}, !.cmd_consumed = @ \ {m}]
             sc == CHOOSE c \in ScancodeOf(K, m) : TRUE
         IN  IF m \in K.cmd_consumed \/ ScancodeOf(K, m) = {} THEN J ELSE release(press(J, sc), sc)
    ELSE IF K.mod_sent[m] = NoScancode THEN K
    ELSE release([K EXCEPT !.mod_sent[m] = NoScancode], K.mod_sent[m])

SendDeferred(K, m) == IF m \in K.cmd_pending /\ ScancodeOf(K, m) # {} THEN PressAs(K, m) ELSE K

flush_command(K) == [FoldLeft(SendDeferred, K, ALL) EXCEPT !.cmd_pending = {}, !.cmd_consumed = {}]

\* The loops of apply_modifiers: releases, last class first; presses.
release_all(K, ups) ==
    FoldLeft(LAMBDA J, m : IF m \in ups THEN release_modifier(J, m) ELSE J, K, Reverse(ALL))
press_all(K, downs) ==
    FoldLeft(LAMBDA J, m : IF m \in downs THEN press_modifier(J, m) ELSE J, K, ALL)

apply_modifiers(K, flags, changed) ==
    LET new == held_modifiers(flags, changed, K.mods)
    IN  [press_all(release_all(K, K.mods \ new), new \ K.mods) EXCEPT !.mods = new]

sync_caps(K, flags, force) ==
    LET J == [K EXCEPT !.caps = {flags.caps}]
    IN  IF force \/ K.caps = {~flags.caps} THEN Send(J, SyncToggles(flags.caps)) ELSE J

flags_changed(K, k, flags) ==
    apply_modifiers(sync_caps(K, flags, k = "CAPS_LOCK"), flags, {m \in ModifierKey : kvk_of(m) = k})

\* "Type using Mac layout" routes text keys and compositions to the text input system.
route_key_down(prefs, k, flags, composing) ==
    IF ~prefs.mac_layout \/ {"Command", "Control"} \intersect flags.classes # {} THEN "Scancode"
    ELSE IF composing \/ is_text_key(k) THEN "Text" ELSE "Scancode"

key_down_scancode(K, k, flags) ==
    LET J == apply_modifiers(sync_caps(K, flags, FALSE), flags, {})
        codes == scancode_for(k, K.keyboard, K.prefs.cmd_as)
        sc == CHOOSE c \in codes : TRUE
    IN  IF is_modifier(k) \/ k \in DOMAIN J.held_keys \/ codes = {} THEN J
        ELSE [press(flush_command(J), sc) EXCEPT
                 !.held_keys = [h \in DOMAIN @ \union {k} |-> IF h = k THEN sc ELSE @[h]]]

\* The caller interprets the event itself when the route is Text.
key_down(K, k, flags, is_repeat) == IF is_repeat THEN K ELSE key_down_scancode(K, k, flags)

key_up(K, k) ==
    IF k \notin DOMAIN K.held_keys THEN K
    ELSE release([K EXCEPT !.held_keys = [h \in DOMAIN @ \ {k} |-> @[h]]], K.held_keys[k])

RemotePressed(K) == {sc \in DOMAIN K.pressed : K.pressed[sc] > 0}

TEXT_LEVEL_MODIFIERS == <<\h2A, \h36, \h38, ext(\h38)>>

\* Shift, Option and AltGr are lifted around the text (one character stands for any non-empty text).
insert_text(K, text) ==
    LET each(J, down) == FoldLeft(LAMBDA L, sc : IF sc \in RemotePressed(K) THEN Send(L, Key(sc, down)) ELSE L,
                                  J, TEXT_LEVEL_MODIFIERS)
    IN  IF text THEN each(Send(each(K, FALSE), Unicode), TRUE) ELSE K

menu_shortcut_taken(K) == [K EXCEPT !.cmd_consumed = K.cmd_pending]

prepare_pointer_button(K) == flush_command(K)

focus_lost(K) ==
    LET held == SetToSeq(RemotePressed(K))
    IN  [K EXCEPT !.out = @ \o [i \in 1..Len(held) |-> Key(held[i], FALSE)],
                  !.pressed = [sc \in DOMAIN @ |-> 0], !.held_keys = <<>>, !.mods = {},
                  !.mod_sent = [m \in ModifierKey |-> NoScancode], !.cmd_pending = {}, !.cmd_consumed = {}]

focus_gained(K, flags) == apply_modifiers(sync_caps(K, flags, TRUE), flags, {})

ctrl_alt_del(K) ==
    LET down == press(press(press(K, \h1D), \h38), ext(\h53))
    IN  release(release(release(down, ext(\h53)), \h38), \h1D)

set_prefs(K, prefs) == [K EXCEPT !.prefs = prefs]

\* Cmd with a listed key and no Control or Option goes to the menu; Shift only with D.
menu_shortcut(k, flags) ==
    /\ "Command" \in flags.classes
    /\ {"Control", "Option"} \intersect flags.classes = {}
    /\ IF "Shift" \in flags.classes THEN k = "ANSI_D"
       ELSE k \in {"ANSI_N", "ANSI_E", "ANSI_W", "ANSI_Q", "ANSI_GRAVE", "ANSI_0", "ANSI_1", "ANSI_2",
                   "ANSI_3", "ANSI_4", "ANSI_5", "ANSI_6", "ANSI_7", "ANSI_8", "ANSI_9"}

=============================================================================
