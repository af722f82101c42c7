----------------------------- MODULE ClipboardSync -----------------------------
(***************************************************************************)
(* Clipboard synchronisation of one session leg (drift-clipboard's          *)
(* ClipboardSync, the CLIPRDR glue of drift-rdp, the pasteboard and the     *)
(* pump that polls it), against a server that copies, asks and answers.     *)
(*                                                                          *)
(* A value stands for one copied text or picture.  An item is one           *)
(* representation of a value, contents a set of items.  Time is kept only   *)
(* as far as the code compares it: `newest` is the order of the last local  *)
(* change and the last accepted announcement (l.at > fetch.announced),      *)
(* last_sent.recent is "within ECHO_WINDOW", inflight.late is "older than   *)
(* FETCH_TIMEOUT".                                                          *)
(***************************************************************************)
EXTENDS Naturals, Sequences

CONSTANTS
    Values,         \* what can be copied, on either side
    Oversized,      \* the values above the size cap
    Garbage,        \* what decoding bytes as the wrong format yields
    None,           \* Rust's Option::None
    LocalCopies,    \* contents the user can put on the Mac pasteboard
    RemoteFormats,  \* the format lists the server's applications offer
    InitialPrefs,   \* the profile's clipboard preference
    Wiring,         \* "app": writes need a key window, nobody feeds LocalWritten or Prefs
                    \* back; "any": any write may be done or not, acknowledged or not, and
                    \* the preference may change: whatever caller SyncInput allows
    SlowServer,     \* whether an answer may take longer than FETCH_TIMEOUT
    OWN_WRITES_KEPT, \* how many of our own writes are remembered
    MaxCopies,      \* bound: copies made on both sides together
    MaxToggles      \* bound: focus and preference changes

FormatKind == {"UnicodeText", "AnsiText", "Png", "Tiff", "Dib"}
ItemKind == {"Text", "Png", "Tiff"}
ClipboardPrefs == {"Off", "Text", "TextAndImages"}
Items == [kind : ItemKind, val : Values \cup {Garbage}]

ASSUME ClipboardAssumption ==
    /\ Oversized \subseteq Values
    /\ Garbage \notin Values
    /\ LocalCopies \subseteq SUBSET [kind : ItemKind, val : Values]
    /\ RemoteFormats \subseteq SUBSET (FormatKind \cup {"Other"})
    /\ InitialPrefs \in ClipboardPrefs
    /\ Wiring \in {"app", "any"}
    /\ SlowServer \in BOOLEAN
    /\ OWN_WRITES_KEPT \in Nat \ {0}
    /\ MaxCopies \in Nat
    /\ MaxToggles \in Nat
    /\ \A contents \in SUBSET Items : None # contents
    /\ None \notin [contents : SUBSET Items, user : BOOLEAN]
    /\ None \notin [kinds : SUBSET FormatKind, recent : BOOLEAN]
    /\ None \notin [kind : FormatKind, stale : BOOLEAN, late : BOOLEAN]
    /\ None \notin [copy : {None} \cup [kinds : RemoteFormats, val : Values], missed : BOOLEAN]

VARIABLES
    prefs, focused, ready,
    local,          \* the latest local change: its contents, and whether the user made it
    last_count,     \* last_local_change_count
    newest,         \* which is later: the last local change or the last announcement
    pending_local, advertised, last_sent, own_writes, unacked_write, fetch, inflight,
    pasteboard,     \* the Mac pasteboard: what is on it, its changeCount, who wrote last
    last_seen,      \* the pump's PasteboardWatcher
    key,            \* whether the session's window is the key window
    seeded,         \* whether the pump has told this session about the pasteboard
    mailbox,        \* commands on their way from the app to the actor
    writes,         \* ClipboardRemote events on their way to the main thread
    toServer, toClient,
    server,         \* the server's own clipboard, None while the client owns it
    answer,         \* the answer the server is preparing
    accepted,       \* whether the server has taken our first format list
    announced,      \* history: the copy whose list the sync state last accepted (None when the
                    \* list was an echo of ours), until we advertise, and whether a list has
                    \* been ignored since
    copies, toggles

sync == << prefs, focused, ready, local, last_count, newest, pending_local, advertised,
           last_sent, own_writes, unacked_write, fetch, inflight >>
mac == << pasteboard, last_seen, seeded, key >>
remote == << server, answer, accepted >>
bounds == << copies, toggles >>
vars == << prefs, focused, ready, local, last_count, newest, pending_local, advertised,
           last_sent, own_writes, unacked_write, fetch, inflight, pasteboard, last_seen,
           seeded, key, mailbox, writes, toServer, toClient, server, answer, accepted,
           announced, copies, toggles >>

-----------------------------------------------------------------------------
(* Formats: what may cross, and what conversion makes of it.                *)

is_image(kind) == kind \in {"Png", "Tiff", "Dib"}

allowed_by(kind, level) ==
    \/ level = "TextAndImages"
    \/ level = "Text" /\ ~ is_image(kind)

item_kind(item) == IF item.kind = "Text" THEN "UnicodeText" ELSE item.kind

filter_local(contents, level) ==
    {i \in contents : allowed_by(item_kind(i), level) /\ i.val \notin Oversized}

\* TIFF is offered only when there is no PNG; PNG is offered as DIB too.
outbound_formats(contents, level) ==
    LET has(kind) == \E i \in contents : i.kind = kind
    IN  {k \in FormatKind :
            /\ allowed_by(k, level)
            /\ \/ k = "UnicodeText" /\ has("Text")
               \/ k \in {"Png", "Dib"} /\ has("Png")
               \/ k = "Tiff" /\ has("Tiff") /\ ~ has("Png")}

\* The first allowed kind of a preference order that the list offers, at most one.
preferred(order, formats, level) ==
    LET offered == {i \in DOMAIN order : order[i] \in formats /\ allowed_by(order[i], level)}
    IN  IF offered = {} THEN << >>
        ELSE << order[CHOOSE i \in offered : \A j \in offered : i <= j] >>

select_inbound(formats, level) ==
    preferred(<< "UnicodeText", "AnsiText" >>, formats, level)
        \o preferred(<< "Png", "Tiff", "Dib" >>, formats, level)

\* Text decoding and TIFF accept any bytes; PNG and DIB check what they are given.
\* The result is the set of decoded items: empty when the payload is refused.
decode_inbound(kind, data) ==
    LET val == IF data.kind = kind THEN data.val ELSE Garbage
        item == IF kind \in {"UnicodeText", "AnsiText"} THEN "Text"
                ELSE IF kind = "Tiff" THEN "Tiff" ELSE "Png"
    IN  IF \/ data.val \in Oversized
           \/ kind \in {"Png", "Dib"} /\ data.kind # kind
        THEN {} ELSE {[kind |-> item, val |-> val]}

-----------------------------------------------------------------------------
(* The sync state machine's own steps.                                      *)

can_sync == ready /\ focused /\ prefs # "Off"

\* Mutant: the answer to a superseded request is taken for the new one's.
BugSuperseded == inflight

superseded == IF inflight = None THEN None ELSE [inflight EXCEPT !.stale = TRUE]

supersede_fetch == fetch' = None /\ inflight' = superseded

send_list(formats) ==
    /\ last_sent' = [kinds |-> formats, recent |-> TRUE]
    /\ toServer' = Append(toServer, [type |-> "List", kinds |-> formats])
    /\ announced' = None

advertise_local(contents, level) ==
    LET kept == filter_local(contents, level)
    IN  /\ advertised' = kept
        /\ pending_local' = FALSE
        /\ supersede_fetch
        /\ send_list(outbound_formats(kept, level))

Quiet == UNCHANGED << fetch, inflight, last_sent, toServer, announced >>

on_initial_request ==
    /\ ready' = TRUE
    /\ \/ /\ focused /\ prefs # "Off" /\ local # None
          /\ advertise_local(local.contents, prefs)
       \/ /\ ~ (focused /\ prefs # "Off" /\ local # None)
          /\ pending_local' = (local # None /\ prefs # "Off")
          /\ advertised' = {}
          /\ send_list({})
          /\ UNCHANGED << fetch, inflight >>
    /\ UNCHANGED << prefs, focused, local, last_count, newest, own_writes, unacked_write,
                    writes >>

own(change) ==
    \/ \E i \in DOMAIN own_writes : own_writes[i] = change.count
    \/ unacked_write = change.contents

on_local_change(change) ==
    \/ last_count = change.count /\ UNCHANGED << sync, writes, toServer, announced >>
    \/ /\ last_count # change.count
       /\ last_count' = change.count
       /\ newest' = "local"
       /\ local' = [contents |-> change.contents, user |-> change.user]
       /\ \/ /\ own(change) \/ prefs = "Off"
             /\ UNCHANGED << pending_local, advertised >>
             /\ Quiet
          \/ /\ ~ own(change) /\ prefs # "Off" /\ ~ can_sync
             /\ pending_local' = TRUE
             /\ UNCHANGED advertised
             /\ Quiet
          \/ /\ ~ own(change) /\ can_sync
             /\ advertise_local(change.contents, prefs)
       /\ UNCHANGED << prefs, focused, ready, own_writes, unacked_write, writes >>

\* The most recent writes, the oldest forgotten first.
remembered(count) ==
    LET all == Append(own_writes, count)
    IN  IF Len(all) > OWN_WRITES_KEPT THEN Tail(all) ELSE all

on_local_written(count) ==
    /\ unacked_write' = None
    /\ own_writes' = remembered(count)
    /\ UNCHANGED << prefs, focused, ready, local, last_count, newest, pending_local,
                    advertised, writes >>
    /\ Quiet

\* Mutant: the focus is looked at before it is taken, and what was pending is forgotten.
BugFocus(gained) ==
    /\ focused' = gained
    /\ \/ /\ gained /\ pending_local /\ can_sync
          /\ advertise_local(IF local = None THEN {} ELSE local.contents, prefs)
       \/ /\ ~ (gained /\ pending_local /\ can_sync)
          /\ pending_local' = FALSE
          /\ UNCHANGED advertised
          /\ Quiet
    /\ UNCHANGED << prefs, ready, local, last_count, newest, own_writes, unacked_write,
                    writes >>

on_focus(gained) ==
    /\ focused' = gained
    /\ \/ /\ gained /\ pending_local
          /\ advertise_local(IF local = None THEN {} ELSE local.contents, prefs)
       \/ /\ ~ (gained /\ pending_local)
          /\ UNCHANGED << pending_local, advertised >>
          /\ Quiet
    /\ UNCHANGED << prefs, ready, local, last_count, newest, own_writes, unacked_write,
                    writes >>

on_prefs(level) ==
    \/ level = prefs /\ UNCHANGED << sync, writes, toServer, announced >>
    \/ /\ level # prefs
       /\ prefs' = level
       /\ \/ /\ ~ (ready /\ focused)
             /\ pending_local' = (local # None)
             /\ UNCHANGED advertised
             /\ Quiet
          \/ /\ ready /\ focused /\ level = "Off"
             /\ supersede_fetch
             /\ advertised' = {}
             /\ send_list({})
             /\ UNCHANGED pending_local
          \/ /\ ready /\ focused /\ level # "Off" /\ local # None
             /\ advertise_local(local.contents, level)
          \/ /\ ready /\ focused /\ level # "Off" /\ local = None
             /\ UNCHANGED << pending_local, advertised >>
             /\ Quiet
       /\ UNCHANGED << focused, ready, local, last_count, newest, own_writes,
                       unacked_write, writes >>

complete_fetch(items) ==
    IF items = {} \/ newest = "local"
    THEN UNCHANGED << unacked_write, writes >>
    ELSE unacked_write' = items /\ writes' = Append(writes, items)

\* f is the fetch after the answer (if any) went into it; the request is not in flight.
next_fetch_step(f) ==
    \/ f = None /\ fetch' = None /\ inflight' = None
       /\ UNCHANGED << unacked_write, writes, toServer >>
    \/ /\ f # None /\ f.queue # << >>
       /\ fetch' = [f EXCEPT !.queue = Tail(f.queue)]
       /\ inflight' = [kind |-> Head(f.queue), stale |-> FALSE, late |-> FALSE]
       /\ toServer' = Append(toServer, [type |-> "Request", kind |-> Head(f.queue)])
       /\ UNCHANGED << unacked_write, writes >>
    \/ /\ f # None /\ f.queue = << >>
       /\ fetch' = None
       /\ inflight' = None
       /\ complete_fetch(f.items)
       /\ UNCHANGED toServer

echo(list) == last_sent # None /\ last_sent.recent /\ last_sent.kinds = list.kinds

\* A new fetch waits for the answer to the superseded request.
start_fetch(f) ==
    \/ /\ inflight # None
       /\ fetch' = f
       /\ inflight' = superseded
       /\ UNCHANGED << unacked_write, writes, toServer >>
    \/ inflight = None /\ next_fetch_step(f)

on_remote_list(list) ==
    \/ /\ ~ can_sync \/ echo(list)
       /\ announced' = IF announced = None THEN None ELSE [announced EXCEPT !.missed = TRUE]
       /\ UNCHANGED << sync, writes, toServer >>
    \/ /\ can_sync /\ ~ echo(list)
       /\ announced' = [copy |-> list.of, missed |-> FALSE]
       /\ LET queue == select_inbound(list.kinds, prefs)
          IN  \/ /\ queue = << >>
                 /\ supersede_fetch
                 /\ UNCHANGED << newest, unacked_write, writes, toServer >>
              \/ /\ queue # << >>
                 /\ newest' = "remote"
                 /\ start_fetch([queue |-> queue, items |-> {}])
       /\ UNCHANGED << prefs, focused, ready, local, last_count, pending_local, advertised,
                       last_sent, own_writes >>

on_remote_data(data) ==
    \/ inflight = None /\ UNCHANGED << sync, writes, toServer, announced >>
    \/ /\ inflight # None
       /\ LET items == IF inflight.stale \/ data.kind = "Error"
                       THEN {} ELSE decode_inbound(inflight.kind, data)
          IN  next_fetch_step(IF fetch = None THEN None
                              ELSE [fetch EXCEPT !.items = @ \cup items])
       /\ UNCHANGED << prefs, focused, ready, local, last_count, newest, pending_local,
                       advertised, last_sent, own_writes, announced >>

\* Mutant: the tick forgets the fetch but keeps waiting for its request.
BugTick == IF inflight # None /\ inflight.late THEN fetch' = None /\ UNCHANGED inflight
           ELSE UNCHANGED << fetch, inflight >>

\* The tick abandons a fetch whose request is older than FETCH_TIMEOUT.
on_tick ==
    IF inflight # None /\ inflight.late
    THEN fetch' = None /\ inflight' = None
    ELSE UNCHANGED << fetch, inflight >>

-----------------------------------------------------------------------------
(* The actor: commands from the app, callbacks from the channel, the timer. *)

HandleCommand ==
    /\ mailbox # << >>
    /\ mailbox' = Tail(mailbox)
    /\ LET cmd == Head(mailbox)
       IN  \/ cmd.type = "LocalChanged" /\ on_local_change(cmd)
           \/ cmd.type = "LocalWritten" /\ on_local_written(cmd.count)
           \/ cmd.type = "Focus" /\ on_focus(cmd.gained)
           \/ cmd.type = "Prefs" /\ on_prefs(cmd.level)
    /\ UNCHANGED << mac, toClient, remote, bounds >>

\* The callbacks of a processed PDU are drained before the next one is read.
HandlePdu ==
    /\ toClient # << >>
    /\ toClient' = Tail(toClient)
    /\ LET pdu == Head(toClient)
       IN  \/ pdu.type = "MonitorReady" /\ on_initial_request
           \/ pdu.type = "List" /\ on_remote_list(pdu)
           \/ pdu.type = "Data" /\ on_remote_data(pdu)
    /\ UNCHANGED << mac, mailbox, remote, bounds >>

Tick ==
    /\ on_tick
    /\ UNCHANGED << prefs, focused, ready, local, last_count, newest, pending_local,
                    advertised, last_sent, own_writes, unacked_write, mac, mailbox, writes,
                    toServer, toClient, remote, announced, bounds >>

-----------------------------------------------------------------------------
(* The app: the pasteboard, the pump on the main thread, focus.             *)

\* The pasteboard stores a TIFF beside a PNG; reading prefers the PNG, and makes one of a
\* lone TIFF.
stored(contents) ==
    contents \cup IF \E i \in contents : i.kind = "Tiff" THEN {}
                  ELSE {[kind |-> "Tiff", val |-> i.val] : i \in {j \in contents : j.kind = "Png"}}

read(level) ==
    LET on == pasteboard.contents
        text == {i \in on : i.kind = "Text"}
        png == {i \in on : i.kind = "Png"}
        tiff == {i \in on : i.kind = "Tiff"}
    IN  CASE level = "Off" -> {}
          [] level = "Text" -> text
          [] level = "TextAndImages" ->
                text \cup IF png # {} THEN png
                          ELSE tiff \cup {[kind |-> "Png", val |-> i.val] : i \in tiff}

LocalChanged == [type |-> "LocalChanged", count |-> pasteboard.count,
                 contents |-> read(prefs), user |-> pasteboard.user]

\* ClipboardPump::tick: a change goes to the session, else a new session is seeded.
PumpTick ==
    /\ \/ pasteboard.count # last_seen
       \/ ~ seeded
    /\ last_seen' = pasteboard.count
    /\ seeded' = TRUE
    /\ mailbox' = IF \/ prefs = "Off"
                     \/ pasteboard.count = last_seen /\ read(prefs) = {}
                  THEN mailbox ELSE Append(mailbox, LocalChanged)
    /\ UNCHANGED << sync, pasteboard, key, writes, toServer, toClient, remote, announced, bounds >>

\* The main thread executes a ClipboardRemote event, in the app only for a key window.
WritePasteboard ==
    /\ writes # << >>
    /\ writes' = Tail(writes)
    /\ \/ (Wiring = "app" => ~ key) /\ UNCHANGED << pasteboard, mailbox >>
       \/ /\ Wiring = "app" => key
          /\ pasteboard' = [contents |-> stored(Head(writes)), count |-> pasteboard.count + 1,
                            user |-> FALSE]
          /\ \/ UNCHANGED mailbox
             \/ /\ Wiring = "any"
                /\ mailbox' = Append(mailbox, [type |-> "LocalWritten", count |-> pasteboard.count + 1])
    /\ UNCHANGED << sync, last_seen, seeded, key, toServer, toClient, remote, announced, bounds >>

UserCopies(contents) ==
    /\ copies < MaxCopies
    /\ copies' = copies + 1
    /\ pasteboard' = [contents |-> contents, count |-> pasteboard.count + 1, user |-> TRUE]
    /\ UNCHANGED << sync, last_seen, seeded, key, mailbox, writes, toServer, toClient, remote,
                    announced, toggles >>

AppFocus(gained) ==
    /\ gained # key
    /\ toggles < MaxToggles
    /\ toggles' = toggles + 1
    /\ key' = gained
    /\ mailbox' = Append(mailbox, [type |-> "Focus", gained |-> gained])
    /\ UNCHANGED << sync, pasteboard, last_seen, seeded, writes, toServer, toClient, remote,
                    announced, copies >>

AppPrefs(level) ==
    /\ Wiring = "any"
    /\ toggles < MaxToggles
    /\ toggles' = toggles + 1
    /\ mailbox' = Append(mailbox, [type |-> "Prefs", level |-> level])
    /\ UNCHANGED << sync, mac, writes, toServer, toClient, remote, announced, copies >>

-----------------------------------------------------------------------------
(* The server, as far as the client can tell.                               *)

ServerCopies(kinds, val) ==
    /\ accepted
    /\ copies < MaxCopies
    /\ copies' = copies + 1
    /\ server' = [kinds |-> kinds, val |-> val]
    /\ toClient' = Append(toClient, [type |-> "List", kinds |-> kinds, of |-> server'])
    /\ UNCHANGED << sync, mac, mailbox, writes, toServer, answer, accepted, announced, toggles >>

\* The server takes our list, and may announce it straight back.
ServerTakesList ==
    /\ toServer # << >> /\ Head(toServer).type = "List"
    /\ toServer' = Tail(toServer)
    /\ accepted' = TRUE
    /\ server' = None
    /\ \/ UNCHANGED toClient
       \/ /\ Head(toServer).kinds # {}
          /\ toClient' = Append(toClient, [type |-> "List", kinds |-> Head(toServer).kinds,
                                           of |-> None])
    /\ UNCHANGED << sync, mac, mailbox, writes, answer, announced, bounds >>

\* Requests are answered in order, from the server's clipboard of the moment it looks; by
\* the time the answer leaves, something else may have been copied and announced.
ServerLooks ==
    /\ answer = None
    /\ toServer # << >> /\ Head(toServer).type = "Request"
    /\ toServer' = Tail(toServer)
    /\ \/ answer' = [type |-> "Data", kind |-> "Error", val |-> Garbage]
       \/ /\ server # None /\ Head(toServer).kind \in server.kinds
          /\ answer' = [type |-> "Data", kind |-> Head(toServer).kind, val |-> server.val]
    /\ UNCHANGED << sync, mac, mailbox, writes, toClient, server, accepted, announced, bounds >>

ServerAnswers ==
    /\ answer # None
    /\ toClient' = Append(toClient, answer)
    /\ answer' = None
    /\ UNCHANGED << sync, mac, mailbox, writes, toServer, server, accepted, announced, bounds >>

-----------------------------------------------------------------------------
(* Time, as far as the code looks at it.                                    *)

EchoWindowEnds ==
    /\ last_sent # None /\ last_sent.recent
    /\ last_sent' = [last_sent EXCEPT !.recent = FALSE]
    /\ UNCHANGED << prefs, focused, ready, local, last_count, newest, pending_local,
                    advertised, own_writes, unacked_write, fetch, inflight, mac, mailbox,
                    writes, toServer, toClient, remote, announced, bounds >>

FetchTimesOut ==
    /\ SlowServer
    /\ inflight # None /\ ~ inflight.late
    /\ inflight' = [inflight EXCEPT !.late = TRUE]
    /\ UNCHANGED << prefs, focused, ready, local, last_count, newest, pending_local,
                    advertised, last_sent, own_writes, unacked_write, fetch, mac, mailbox,
                    writes, toServer, toClient, remote, announced, bounds >>

-----------------------------------------------------------------------------
\* A new leg: the channel starts unready, the server's Monitor Ready is on its way, and
\* something may be on the pasteboard already.
Init ==
    /\ prefs = InitialPrefs
    /\ focused \in BOOLEAN
    /\ ready = FALSE
    /\ local = None
    /\ last_count = None
    /\ newest = "none"
    /\ pending_local = FALSE
    /\ advertised = {}
    /\ last_sent = None
    /\ own_writes = << >>
    /\ unacked_write = None
    /\ fetch = None
    /\ inflight = None
    /\ pasteboard \in [contents : LocalCopies \cup {{}}, count : {0}, user : {TRUE}]
    /\ last_seen = 0
    /\ seeded = FALSE
    /\ key = focused
    /\ mailbox = << >>
    /\ writes = << >>
    /\ toServer = << >>
    /\ toClient = << [type |-> "MonitorReady"] >>
    /\ server = None
    /\ answer = None
    /\ accepted = FALSE
    /\ announced = None
    /\ copies = 0
    /\ toggles = 0

Next ==
    \/ HandleCommand
    \/ HandlePdu
    \/ Tick
    \/ PumpTick
    \/ WritePasteboard
    \/ \E contents \in LocalCopies : UserCopies(contents)
    \/ \E gained \in BOOLEAN : AppFocus(gained)
    \/ \E level \in ClipboardPrefs : AppPrefs(level)
    \/ \E kinds \in RemoteFormats, val \in Values : ServerCopies(kinds, val)
    \/ ServerTakesList
    \/ ServerLooks
    \/ ServerAnswers
    \/ EchoWindowEnds
    \/ FetchTimesOut

Spec == Init /\ [][Next]_vars

\* The actor's loop runs its tick forever and time passes; nothing is assumed of the server.
FairSpec == Spec /\ WF_vars(Tick) /\ WF_vars(FetchTimesOut)

-----------------------------------------------------------------------------
(* Properties.                                                              *)

Option(S) == S \cup {None}

\* The type invariant.
ClipTypeOK ==
    /\ prefs \in ClipboardPrefs
    /\ focused \in BOOLEAN
    /\ ready \in BOOLEAN
    /\ local \in Option([contents : SUBSET Items, user : BOOLEAN])
    /\ newest \in {"none", "local", "remote"}
    /\ pending_local \in BOOLEAN
    /\ advertised \in SUBSET Items
    /\ last_sent \in Option([kinds : SUBSET FormatKind, recent : BOOLEAN])
    /\ own_writes \in Seq(Nat)
    /\ unacked_write \in Option(SUBSET Items)
    /\ fetch \in Option([queue : Seq(FormatKind), items : SUBSET Items])
    /\ inflight \in Option([kind : FormatKind, stale : BOOLEAN, late : BOOLEAN])
    /\ pasteboard \in [contents : SUBSET Items, count : Nat, user : BOOLEAN]

\* "IronRDP allows one Format Data Request in flight and its response carries no format id"
\* (sync.rs:18): as long as the server answers in time, exactly the request the state tracks
\* is on the wire or being answered, so an answer can only be for that request.
OneRequest ==
    Len(SelectSeq(toServer, LAMBDA m : m.type = "Request"))
        + (IF answer = None THEN 0 ELSE 1)
        + Len(SelectSeq(toClient, LAMBDA m : m.type = "Data"))
    = IF inflight = None THEN 0 ELSE 1

\* The items a remote copy can be turned into.
ItemsOf(copy) == UNION {decode_inbound(k, [kind |-> k, val |-> copy.val]) : k \in copy.kinds \cap FormatKind}

\* What next_fetch_step hands to the pasteboard is the remote copy whose list was accepted
\* last and that copy only, never parts of two, and nothing has been advertised since: in
\* whatever order lists, answers, local copies, focus and preferences arrive.  It needs a
\* server that answers in time (sync.rs:222 forgets a request it gives up), and it is not kept
\* once a list has been ignored while a fetch was running (sync.rs:315 returns without
\* superseding it): the answers may then be parts of a newer copy.
WrittenIsAnnounced ==
    [][Len(writes') > Len(writes) =>
        /\ announced # None
        /\ \/ announced.missed
           \/ announced.copy # None /\ writes'[Len(writes')] \subseteq ItemsOf(announced.copy)]_vars

\* Only the focused session tells its server about local copies (sync.rs:15): a list that
\* offers anything is sent only while it has focus.
OnlyFocusedAdvertises ==
    [][ Len(toServer') > Len(toServer) =>
          LET sent == toServer'[Len(toServer')]
          IN  sent.type = "List" /\ sent.kinds # {} => focused']_vars

\* The last list sent offers what the session may offer of the last local change.
Offered ==
    /\ advertised = filter_local(local.contents, prefs)
    /\ last_sent # None /\ last_sent.kinds = outbound_formats(advertised, prefs)

\* Local changes seen while the session could not sync are advertised once it can (sync.rs:15):
\* whenever a session may sync, and its last local change is later than the last remote copy it
\* took, the list its server has is that change's, in whatever order readiness, focus, copies
\* and fetches came.  The exception is the app's: a change equal to what was fetched last counts
\* as Drift's own write.
OffersAreCurrent ==
    can_sync /\ newest = "local" /\ local.contents # unacked_write => Offered

\* A request that is never answered does not block the clipboard: with the tick running,
\* whatever the server does, the request is eventually given up or answered.
FetchEnds == [](inflight # None => <>(inflight = None))

-----------------------------------------------------------------------------
(* What comments say of the code and the code does not do.                  *)

\* sync.rs:8: "until then nothing is advertised".  Violated: a session that gains focus before
\* the server's request for the format list advertises its pending copy.
NothingBeforeReady ==
    [][Len(toServer') > Len(toServer) => ready']_vars

\* sync.rs:9: "pasteboard changes whose changeCount is one of our own writes are ignored".
\* Violated by the app, which never feeds LocalWritten back: a picture is stored in two forms,
\* so what was written is not what is read, and goes back to the server it came from.
NoEcho ==
    [][HandleCommand /\ Head(mailbox).type = "LocalChanged" /\ ~ Head(mailbox).user
        => UNCHANGED toServer]_vars

=============================================================================
