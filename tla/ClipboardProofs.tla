---------------------------- MODULE ClipboardProofs ----------------------------
(***************************************************************************)
(* Proofs about ClipboardSync, for any values, formats, preference and       *)
(* bounds: a session without focus offers nothing, one that may sync offers  *)
(* its last local change, and with a server that answers in time what is     *)
(* written is one announced copy.                                            *)
(***************************************************************************)
EXTENDS ClipboardSync, WellFoundedInduction, TLAPS

-----------------------------------------------------------------------------
(* Types: ClipTypeOK with the channels, the server and the history.        *)

Inflight == [kind : FormatKind, stale : BOOLEAN, late : BOOLEAN]
Fetch == [queue : Seq(FormatKind), items : SUBSET Items]
Copy == [kinds : RemoteFormats, val : Values]
Announced == [copy : Option(Copy), missed : BOOLEAN]
Data == [type : {"Data"}, kind : FormatKind \cup {"Error"}, val : Values \cup {Garbage}]
Change == [type : {"LocalChanged"}, count : Nat, contents : SUBSET Items, user : BOOLEAN]
Written == [type : {"LocalWritten"}, count : Nat]
Focus == [type : {"Focus"}, gained : BOOLEAN]
Prefs == [type : {"Prefs"}, level : ClipboardPrefs]
Command == Change \cup Written \cup Focus \cup Prefs
OurList == [type : {"List"}, kinds : SUBSET FormatKind]
Request == [type : {"Request"}, kind : FormatKind]
Sent == OurList \cup Request
MonitorReady == [type : {"MonitorReady"}]
TheirList == [type : {"List"}, kinds : SUBSET (FormatKind \cup {"Other"}), of : Option(Copy)]
Received == MonitorReady \cup TheirList \cup Data

SessionTypes ==
    /\ prefs \in ClipboardPrefs
    /\ focused \in BOOLEAN
    /\ ready \in BOOLEAN
    /\ local \in Option([contents : SUBSET Items, user : BOOLEAN])
    /\ newest \in {"none", "local", "remote"}
    /\ advertised \in SUBSET Items
    /\ last_sent \in Option([kinds : SUBSET FormatKind, recent : BOOLEAN])
    /\ own_writes \in Seq(Nat)
    /\ unacked_write \in Option(SUBSET Items)
    /\ fetch \in Option(Fetch)
    /\ inflight \in Option(Inflight)
    /\ announced \in Option(Announced)

OutsideTypes ==
    /\ pasteboard \in [contents : SUBSET Items, count : Nat, user : BOOLEAN]
    /\ mailbox \in Seq(Command)
    /\ writes \in Seq(SUBSET Items)
    /\ toServer \in Seq(Sent)
    /\ toClient \in Seq(Received)
    /\ server \in Option(Copy)
    /\ answer \in Option(Data)

Types == SessionTypes /\ OutsideTypes

LEMMA Distinct ==
    /\ \A contents \in SUBSET Items : contents # None
    /\ None \notin Inflight
    /\ None \notin Announced
BY ClipboardAssumption DEF Inflight, Announced, Copy, Option

\* What the four kinds of command and the messages of either side look like.
LEMMA Commands ==
    ASSUME NEW c \in Command
    PROVE  /\ c.type = "LocalChanged" => c \in Change /\ c.count \in Nat /\ c.contents \in SUBSET Items
                                         /\ c.user \in BOOLEAN
           /\ c.type = "LocalWritten" => c.count \in Nat
           /\ c.type = "Focus" => c.gained \in BOOLEAN
           /\ c.type = "Prefs" => c.level \in ClipboardPrefs
BY DEF Command, Change, Written, Focus, Prefs

LEMMA Messages ==
    /\ \A formats \in SUBSET FormatKind : [type |-> "List", kinds |-> formats] \in Sent
    /\ \A k \in FormatKind : [type |-> "Request", kind |-> k] \in Sent
    /\ \A k \in SUBSET (FormatKind \cup {"Other"}), of \in Option(Copy) :
          [type |-> "List", kinds |-> k, of |-> of] \in Received
    /\ \A d \in Data : d \in Received /\ d.type = "Data"
BY DEF Sent, OurList, Request, Received, TheirList, Data

LEMMA MessageFields ==
    /\ \A m \in Received : m.type = "List" => /\ m.kinds \in SUBSET (FormatKind \cup {"Other"})
                                              /\ m.of \in Option(Copy)
    /\ \A m \in Received : m.type = "Data" => m \in Data
    /\ \A m \in Sent : m.type = "List" => m.kinds \in SUBSET FormatKind
    /\ \A m \in Sent : m.type = "Request" => m.kind \in FormatKind
BY DEF Received, MonitorReady, TheirList, Data, Sent, OurList, Request

\* Queues: what Append and Tail do, element by element.
LEMMA Queues ==
    ASSUME NEW S, NEW q \in Seq(S)
    PROVE  /\ Len(q) \in Nat /\ DOMAIN q = 1 .. Len(q)
           /\ \A i \in DOMAIN q : q[i] \in S
           /\ q # << >> => /\ Head(q) \in S /\ Head(q) = q[1] /\ 1 \in DOMAIN q
                           /\ Tail(q) \in Seq(S) /\ Len(Tail(q)) = Len(q) - 1
                           /\ DOMAIN Tail(q) = 1 .. Len(q) - 1
                           /\ \A i \in DOMAIN Tail(q) : Tail(q)[i] = q[i + 1] /\ i + 1 \in DOMAIN q
OBVIOUS

LEMMA Appending ==
    ASSUME NEW S, NEW q \in Seq(S), NEW e \in S
    PROVE  /\ Append(q, e) \in Seq(S) /\ Len(Append(q, e)) = Len(q) + 1
           /\ DOMAIN Append(q, e) = 1 .. Len(q) + 1
           /\ DOMAIN q \subseteq DOMAIN Append(q, e)
           /\ \A i \in DOMAIN q : Append(q, e)[i] = q[i]
           /\ Append(q, e)[Len(q) + 1] = e
           /\ \A i \in DOMAIN Append(q, e) : i \in DOMAIN q \/ i = Len(q) + 1
OBVIOUS

-----------------------------------------------------------------------------
(* The operators on formats.                                               *)

\* filter_local and outbound_formats select, they do not invent.
LEMMA OffersTypes ==
    ASSUME NEW contents \in SUBSET Items, NEW level
    PROVE  filter_local(contents, level) \in SUBSET Items /\ outbound_formats(contents, level) \in SUBSET FormatKind
<1>1. outbound_formats(contents, level) \in SUBSET FormatKind
  BY DEF outbound_formats
<1> QED BY <1>1 DEF filter_local

\* The least-number principle, for the first kind that is offered.
LEMMA Earliest ==
    ASSUME NEW S \in SUBSET Nat, S # {}
    PROVE  \E i \in S : \A j \in S : i <= j
<1> DEFINE Less == OpToRel(<, Nat)
<1>1. IsWellFoundedOn(Less, Nat)
  BY NatLessThanWellFounded
<1>2. \A i, j \in Nat : j < i => << j, i >> \in Less
  BY DEF OpToRel
<1> HIDE DEF Less
<1>3. \E i \in S : \A j \in S : ~ (<< j, i >> \in Less)
  BY <1>1, WFMin
<1>4. PICK i \in S : \A j \in S : ~ (<< j, i >> \in Less)
  BY <1>3
<1>5. ASSUME NEW j \in S
      PROVE  i <= j
  <2>1. ~ (j < i)
    BY <1>2, <1>4
  <2> QED
    BY <2>1
<1> QED
  BY <1>5

\* The first of the offered kinds is a kind of the order.
LEMMA PreferredType ==
    ASSUME NEW order \in Seq(FormatKind), NEW formats, NEW level
    PROVE  preferred(order, formats, level) \in Seq(FormatKind)
<1> DEFINE offered == {i \in DOMAIN order : order[i] \in formats /\ allowed_by(order[i], level)}
           first == CHOOSE i \in offered : \A j \in offered : i <= j
<1>1. CASE offered = {}
  BY <1>1 DEF preferred
<1>2. CASE offered # {}
  <2>1. offered \in SUBSET Nat
    BY Queues
  <2>2. \E i \in offered : \A j \in offered : i <= j
    BY <1>2, <2>1, Earliest
  <2>3. first \in offered
    BY <2>2
  <2>4. order[first] \in FormatKind
    BY <2>3, Queues
  <2> QED
    BY <1>2, <2>4 DEF preferred
<1> QED BY <1>1, <1>2

LEMMA SelectType ==
    ASSUME NEW formats, NEW level
    PROVE  select_inbound(formats, level) \in Seq(FormatKind)
<1>1. << "UnicodeText", "AnsiText" >> \in Seq(FormatKind) /\ << "Png", "Tiff", "Dib" >> \in Seq(FormatKind)
  BY DEF FormatKind
<1>2. /\ preferred(<< "UnicodeText", "AnsiText" >>, formats, level) \in Seq(FormatKind)
      /\ preferred(<< "Png", "Tiff", "Dib" >>, formats, level) \in Seq(FormatKind)
  BY <1>1, PreferredType
<1> QED BY <1>2 DEF select_inbound

LEMMA DecodeType ==
    ASSUME NEW kind \in FormatKind, NEW data \in Data
    PROVE  decode_inbound(kind, data) \in SUBSET Items
BY DEF decode_inbound, Data, Items, ItemKind

-----------------------------------------------------------------------------
(* What each handler does, as far as the arguments below look at it.       *)

\* Every format list we send ends the fetch that was running.
Offer(formats) ==
    /\ fetch' = None
    /\ inflight' \in {inflight, superseded}
    /\ announced' = None
    /\ toServer' = Append(toServer, [type |-> "List", kinds |-> formats])

Silent == UNCHANGED << fetch, inflight, announced, toServer >>

\* A command: nothing, or one list, which offers something only with focus.
CommandShape ==
    /\ UNCHANGED writes
    /\ newest' \in {newest, "local"}
    /\ ready' = ready
    /\ \/ Silent
       \/ \E formats \in SUBSET FormatKind : Offer(formats) /\ (formats = {} \/ focused')

LEMMA Superseding ==
    ASSUME inflight \in Option(Inflight)
    PROVE  /\ superseded \in Option(Inflight)
           /\ inflight = None => superseded = None
           /\ inflight # None => /\ superseded # None
                                 /\ superseded.kind = inflight.kind
                                 /\ superseded.late = inflight.late
                                 /\ superseded.stale
BY Distinct DEF superseded, Option, Inflight

LEMMA Advertising ==
    ASSUME Types, NEW contents \in SUBSET Items, NEW level, advertise_local(contents, level)
    PROVE  /\ Offer(outbound_formats(filter_local(contents, level), level))
           /\ outbound_formats(filter_local(contents, level), level) \in SUBSET FormatKind
           /\ advertised' = filter_local(contents, level) /\ advertised' \in SUBSET Items
           /\ last_sent' \in Option([kinds : SUBSET FormatKind, recent : BOOLEAN])
           /\ fetch' \in Option(Fetch) /\ inflight' \in Option(Inflight)
           /\ announced' \in Option(Announced)
           /\ toServer' \in Seq(Sent)
<1> DEFINE formats == outbound_formats(filter_local(contents, level), level)
<1>1. formats \in SUBSET FormatKind /\ filter_local(contents, level) \in SUBSET Items
  BY OffersTypes
<1>2. inflight \in Option(Inflight) /\ toServer \in Seq(Sent)
  BY DEF Types, SessionTypes, OutsideTypes
<1>3. Offer(formats)
  BY DEF advertise_local, supersede_fetch, send_list, Offer
<1>4. [type |-> "List", kinds |-> formats] \in Sent
  BY <1>1, Messages
<1>5. toServer' \in Seq(Sent)
  BY <1>2, <1>3, <1>4, Appending DEF Offer
<1>6. inflight' \in Option(Inflight)
  BY <1>2, <1>3, Superseding DEF Offer
<1> QED
  BY <1>1, <1>3, <1>5, <1>6 DEF advertise_local, send_list, supersede_fetch, Option

\* The same for the empty list.
LEMMA ClearingOffer ==
    ASSUME Types, send_list({}), fetch' = None, inflight' \in {inflight, superseded}
    PROVE  /\ Offer({})
           /\ last_sent' \in Option([kinds : SUBSET FormatKind, recent : BOOLEAN])
           /\ fetch' \in Option(Fetch) /\ inflight' \in Option(Inflight)
           /\ announced' \in Option(Announced)
           /\ toServer' \in Seq(Sent)
<1>1. inflight \in Option(Inflight) /\ toServer \in Seq(Sent)
  BY DEF Types, SessionTypes, OutsideTypes
<1>2. Offer({})
  BY DEF send_list, Offer
<1>3. {} \in SUBSET FormatKind /\ [type |-> "List", kinds |-> {}] \in Sent
  BY Messages
<1>4. toServer' \in Seq(Sent)
  BY <1>1, <1>2, <1>3, Appending DEF Offer
<1>5. inflight' \in Option(Inflight)
  BY <1>1, Superseding
<1> QED
  BY <1>2, <1>4, <1>5 DEF send_list, Option

LEMMA Keeping ==
    ASSUME Types, Quiet
    PROVE  /\ Silent
           /\ last_sent' \in Option([kinds : SUBSET FormatKind, recent : BOOLEAN])
           /\ fetch' \in Option(Fetch) /\ inflight' \in Option(Inflight)
           /\ announced' \in Option(Announced)
           /\ toServer' \in Seq(Sent)
BY DEF Quiet, Silent, Types, SessionTypes, OutsideTypes

LEMMA LocalChangeShape ==
    ASSUME Types, NEW change \in Change, on_local_change(change)
    PROVE  SessionTypes' /\ toServer' \in Seq(Sent) /\ CommandShape
<1>1. change.contents \in SUBSET Items /\ change.user \in BOOLEAN
  BY DEF Change
<1>2. CASE UNCHANGED << sync, writes, toServer, announced >>
  BY <1>2 DEF sync, Types, SessionTypes, OutsideTypes, CommandShape, Silent
<1>3. CASE /\ newest' = "local"
           /\ local' = [contents |-> change.contents, user |-> change.user]
           /\ UNCHANGED << prefs, focused, ready, own_writes, unacked_write, writes >>
           /\ Quiet /\ UNCHANGED advertised
  BY <1>1, <1>3, Keeping DEF Types, SessionTypes, CommandShape, Option
<1>4. CASE /\ newest' = "local"
           /\ local' = [contents |-> change.contents, user |-> change.user]
           /\ UNCHANGED << prefs, focused, ready, own_writes, unacked_write, writes >>
           /\ can_sync /\ advertise_local(change.contents, prefs)
  BY <1>1, <1>4, Advertising DEF Types, SessionTypes, CommandShape, can_sync, Option
<1> QED
  BY <1>2, <1>3, <1>4 DEF on_local_change

\* The list of own writes gains the new one and loses at most the oldest.
LEMMA Remembering ==
    ASSUME own_writes \in Seq(Nat), NEW count \in Nat
    PROVE  remembered(count) \in Seq(Nat)
<1> DEFINE all == Append(own_writes, count)
<1>1. all \in Seq(Nat) /\ all # << >>
  BY Appending, Queues
<1> HIDE DEF all
<1>2. Tail(all) \in Seq(Nat)
  BY <1>1
<1> QED
  BY <1>1, <1>2 DEF remembered, all

LEMMA WrittenShape ==
    ASSUME Types, NEW count \in Nat, on_local_written(count)
    PROVE  SessionTypes' /\ toServer' \in Seq(Sent) /\ CommandShape
<1>1. own_writes' \in Seq(Nat)
  BY Remembering DEF on_local_written, Types, SessionTypes
<1> QED
  BY <1>1, Keeping DEF on_local_written, Types, SessionTypes, CommandShape, Option

LEMMA FocusShape ==
    ASSUME Types, NEW gained \in BOOLEAN, on_focus(gained)
    PROVE  SessionTypes' /\ toServer' \in Seq(Sent) /\ CommandShape
<1>1. CASE UNCHANGED advertised /\ Quiet
  BY <1>1, Keeping DEF on_focus, Types, SessionTypes, CommandShape
<1>2. CASE gained /\ advertise_local(IF local = None THEN {} ELSE local.contents, prefs)
  <2>1. PICK contents \in SUBSET Items : advertise_local(contents, prefs)
    BY <1>2 DEF Types, SessionTypes, Option
  <2> QED
    BY <1>2, <2>1, Advertising DEF on_focus, Types, SessionTypes, CommandShape
<1> QED
  BY <1>1, <1>2 DEF on_focus

LEMMA PrefsShape ==
    ASSUME Types, NEW level \in ClipboardPrefs, on_prefs(level)
    PROVE  SessionTypes' /\ toServer' \in Seq(Sent) /\ CommandShape
<1>1. CASE UNCHANGED << sync, writes, toServer, announced >>
  BY <1>1 DEF sync, Types, SessionTypes, OutsideTypes, CommandShape, Silent
<1> DEFINE Rest == /\ prefs' = level
                   /\ UNCHANGED << focused, ready, local, last_count, newest, own_writes,
                                   unacked_write, writes >>
<1>2. CASE Rest /\ Quiet /\ UNCHANGED advertised
  BY <1>2, Keeping DEF Types, SessionTypes, CommandShape
<1>3. CASE Rest /\ supersede_fetch /\ advertised' = {} /\ send_list({})
  <2>1. fetch' = None /\ inflight' \in {inflight, superseded}
    BY <1>3 DEF supersede_fetch
  <2> QED
    BY <1>3, <2>1, ClearingOffer DEF Types, SessionTypes, CommandShape
<1>4. CASE Rest /\ focused /\ local # None /\ advertise_local(local.contents, level)
  <2>1. local.contents \in SUBSET Items
    BY <1>4 DEF Types, SessionTypes, Option
  <2> QED
    BY <1>4, <2>1, Advertising DEF Types, SessionTypes, CommandShape
<1> QED
  BY <1>1, <1>2, <1>3, <1>4 DEF on_prefs

\* The first list: MonitorReady finds no fetch running (StartInv below).
LEMMA InitialShape ==
    ASSUME Types, fetch = None, on_initial_request
    PROVE  /\ SessionTypes' /\ toServer' \in Seq(Sent)
           /\ ready' /\ UNCHANGED << writes, newest >>
           /\ \E formats \in SUBSET FormatKind : Offer(formats) /\ (formats = {} \/ focused')
<1>1. CASE focused /\ local # None /\ advertise_local(local.contents, prefs)
  <2>1. local.contents \in SUBSET Items
    BY <1>1 DEF Types, SessionTypes, Option
  <2> QED
    BY <1>1, <2>1, Advertising DEF on_initial_request, Types, SessionTypes
<1>2. CASE advertised' = {} /\ send_list({}) /\ UNCHANGED << fetch, inflight >>
  <2>1. fetch' = None /\ inflight' \in {inflight, superseded}
    BY <1>2
  <2> QED
    BY <1>2, <2>1, ClearingOffer DEF on_initial_request, Types, SessionTypes
<1> QED
  BY <1>1, <1>2 DEF on_initial_request

\* A fetch moves on: it is over, or the next request goes out.
Finished(f) ==
    /\ fetch' = None /\ inflight' = None
    /\ UNCHANGED toServer
    /\ \/ UNCHANGED << writes, unacked_write >>
       \/ /\ f # None /\ f.queue = << >> /\ f.items # {} /\ newest # "local"
          /\ unacked_write' = f.items
          /\ writes' = Append(writes, f.items)

Asked(f) ==
    /\ f # None /\ f.queue # << >>
    /\ fetch' \in Fetch /\ fetch'.items = f.items
    /\ UNCHANGED << writes, unacked_write >>
    /\ \E kind \in FormatKind :
          /\ inflight' = [kind |-> kind, stale |-> FALSE, late |-> FALSE]
          /\ toServer' = Append(toServer, [type |-> "Request", kind |-> kind])

LEMMA FetchStep ==
    ASSUME Types, NEW f \in Option(Fetch), next_fetch_step(f)
    PROVE  /\ Finished(f) \/ Asked(f)
           /\ fetch' \in Option(Fetch) /\ inflight' \in Option(Inflight)
           /\ unacked_write' \in Option(SUBSET Items)
           /\ writes' \in Seq(SUBSET Items) /\ toServer' \in Seq(Sent)
<1> USE DEF Option
<1>1. /\ unacked_write \in Option(SUBSET Items) /\ writes \in Seq(SUBSET Items)
      /\ toServer \in Seq(Sent)
  BY DEF Types, SessionTypes, OutsideTypes
<1>2. CASE f = None
  BY <1>1, <1>2 DEF next_fetch_step, Finished
<1>3. CASE f # None /\ f.queue # << >>
  <2>1. f \in Fetch /\ f.queue \in Seq(FormatKind) /\ f.items \in SUBSET Items
    BY <1>3 DEF Fetch
  <2>2. Head(f.queue) \in FormatKind /\ Tail(f.queue) \in Seq(FormatKind)
    BY <1>3, <2>1
  <2>3. /\ fetch' = [f EXCEPT !.queue = Tail(f.queue)]
        /\ inflight' = [kind |-> Head(f.queue), stale |-> FALSE, late |-> FALSE]
        /\ toServer' = Append(toServer, [type |-> "Request", kind |-> Head(f.queue)])
        /\ UNCHANGED << unacked_write, writes >>
    BY <1>3 DEF next_fetch_step
  <2>4. fetch' \in Fetch /\ fetch'.items = f.items
    BY <2>1, <2>2, <2>3 DEF Fetch
  <2>5. [type |-> "Request", kind |-> Head(f.queue)] \in Sent
    BY <2>2, Messages
  <2>6. toServer' \in Seq(Sent)
    BY <1>1, <2>3, <2>5, Appending
  <2>7. inflight' \in Inflight
    BY <2>2, <2>3 DEF Inflight
  <2>8. Asked(f)
    BY <1>3, <2>2, <2>3, <2>4 DEF Asked
  <2> QED
    BY <1>1, <2>3, <2>4, <2>6, <2>7, <2>8
<1>4. CASE f # None /\ f.queue = << >>
  <2>1. f.items \in SUBSET Items
    BY <1>4 DEF Fetch
  <2>2. fetch' = None /\ inflight' = None /\ complete_fetch(f.items) /\ UNCHANGED toServer
    BY <1>4 DEF next_fetch_step
  <2>3. CASE UNCHANGED << unacked_write, writes >>
    BY <1>1, <2>2, <2>3 DEF Finished
  <2>4. CASE /\ f.items # {} /\ newest # "local"
             /\ unacked_write' = f.items /\ writes' = Append(writes, f.items)
    <3>1. writes' \in Seq(SUBSET Items)
      BY <1>1, <2>1, <2>4, Appending
    <3> QED
      BY <1>1, <1>4, <2>1, <2>2, <2>4, <3>1 DEF Finished
  <2> QED
    BY <2>2, <2>3, <2>4 DEF complete_fetch
<1> QED
  BY <1>2, <1>3, <1>4

\* A list of the server's: ignored, or accepted with a fresh fetch, which waits for the
\* superseded answer if there is one to come.
Ignored ==
    /\ announced' = IF announced = None THEN None ELSE [announced EXCEPT !.missed = TRUE]
    /\ UNCHANGED << fetch, inflight, newest, ready, writes, unacked_write, own_writes, toServer >>

Accepted(list) ==
    /\ ready
    /\ announced' = [copy |-> list.of, missed |-> FALSE]
    /\ UNCHANGED << ready, writes, unacked_write, own_writes >>
    /\ fetch' # None => fetch'.items = {} /\ newest' = "remote"
    /\ newest' \in {newest, "remote"}
    /\ \/ inflight' = superseded /\ UNCHANGED toServer
       \/ /\ inflight = None
          /\ \E kind \in FormatKind :
                /\ inflight' = [kind |-> kind, stale |-> FALSE, late |-> FALSE]
                /\ toServer' = Append(toServer, [type |-> "Request", kind |-> kind])

LEMMA ListShape ==
    ASSUME Types, NEW list \in Received, list.type = "List", on_remote_list(list)
    PROVE  /\ SessionTypes' /\ toServer' \in Seq(Sent) /\ writes' \in Seq(SUBSET Items)
           /\ Ignored \/ Accepted(list)
<1>1. list.of \in Option(Copy)
  BY MessageFields
<1>2. CASE /\ announced' = IF announced = None THEN None ELSE [announced EXCEPT !.missed = TRUE]
           /\ UNCHANGED << sync, writes, toServer >>
  <2>1. announced' \in Option(Announced)
    BY <1>2 DEF Types, SessionTypes, Announced, Option
  <2> QED
    BY <1>2, <2>1 DEF sync, Types, SessionTypes, OutsideTypes, Ignored
<1>3. CASE can_sync /\ ~ echo(list)
  <2>0. /\ announced' = [copy |-> list.of, missed |-> FALSE]
        /\ UNCHANGED << prefs, focused, ready, local, last_count, pending_local, advertised,
                        last_sent, own_writes >>
    BY <1>3 DEF on_remote_list
  <2> DEFINE queue == select_inbound(list.kinds, prefs)
             f == [queue |-> queue, items |-> {}]
  <2>1. announced' \in Option(Announced)
    BY <1>1, <2>0 DEF Announced, Option
  <2>2. inflight \in Option(Inflight) /\ superseded \in Option(Inflight)
    BY Superseding DEF Types, SessionTypes
  <2>3. queue \in Seq(FormatKind) /\ f \in Fetch /\ f \in Option(Fetch)
    BY SelectType DEF Fetch, Option
  <2>4. CASE queue = << >>
    <3>1. fetch' = None /\ inflight' = superseded /\ UNCHANGED << newest, unacked_write, writes, toServer >>
      BY <1>3, <2>4 DEF on_remote_list, supersede_fetch
    <3> QED
      BY <1>3, <2>0, <2>1, <2>2, <3>1 DEF Types, SessionTypes, OutsideTypes, Accepted, can_sync, Option
  <2>5. CASE queue # << >>
    <3>1. newest' = "remote" /\ start_fetch(f)
      BY <1>3, <2>5 DEF on_remote_list
    <3>2. CASE /\ fetch' = f /\ inflight' = superseded
               /\ UNCHANGED << unacked_write, writes, toServer >>
      BY <1>3, <2>0, <2>1, <2>2, <2>3, <3>1, <3>2
         DEF Types, SessionTypes, OutsideTypes, Accepted, can_sync, Option
    <3>3. CASE inflight = None /\ next_fetch_step(f)
      <4> HIDE DEF f
      <4>1. Finished(f) \/ Asked(f)
        BY <2>3, <3>3, FetchStep
      <4>2. f.queue # << >> /\ f.items = {}
        BY <2>5 DEF f
      <4>3. /\ fetch' \in Option(Fetch) /\ inflight' \in Option(Inflight)
            /\ unacked_write' \in Option(SUBSET Items)
            /\ writes' \in Seq(SUBSET Items) /\ toServer' \in Seq(Sent)
        BY <2>3, <3>3, FetchStep
      <4>4. CASE Asked(f)
        BY <1>3, <2>0, <2>1, <3>1, <3>3, <4>2, <4>3, <4>4 DEF Asked, Accepted, Types, SessionTypes, can_sync
      <4>5. CASE Finished(f)
        <5>1. superseded = None
          BY <3>3, Superseding DEF Types, SessionTypes
        <5> QED
          BY <1>3, <2>0, <2>1, <3>1, <3>3, <4>2, <4>3, <4>5, <5>1
             DEF Finished, Accepted, Types, SessionTypes, can_sync
      <4> QED
        BY <4>1, <4>4, <4>5
    <3> QED
      BY <3>1, <3>2, <3>3 DEF start_fetch
  <2> QED
    BY <2>4, <2>5
<1> QED
  BY <1>2, <1>3 DEF on_remote_list

\* An answer: nobody waits for it, or it goes into the fetch unless its request is stale.
Taken(data) ==
    /\ inflight # None
    /\ UNCHANGED << newest, ready, own_writes, announced >>
    /\ \E f \in Option(Fetch) :
          /\ f # None => /\ fetch # None
                         /\ f.items \subseteq fetch.items
                              \cup IF inflight.stale \/ data.kind = "Error" THEN {}
                                   ELSE decode_inbound(inflight.kind, data)
          /\ Finished(f) \/ Asked(f)

LEMMA DataShape ==
    ASSUME Types, NEW data \in Data, on_remote_data(data)
    PROVE  /\ SessionTypes' /\ toServer' \in Seq(Sent) /\ writes' \in Seq(SUBSET Items)
           /\ \/ inflight = None /\ UNCHANGED << sync, writes, toServer, announced >>
              \/ Taken(data)
<1>1. CASE inflight = None /\ UNCHANGED << sync, writes, toServer, announced >>
  BY <1>1 DEF sync, Types, SessionTypes, OutsideTypes
<1>2. CASE inflight # None
  <2> DEFINE items == IF inflight.stale \/ data.kind = "Error"
                      THEN {} ELSE decode_inbound(inflight.kind, data)
             f == IF fetch = None THEN None ELSE [fetch EXCEPT !.items = @ \cup items]
  <2>1. /\ next_fetch_step(f)
        /\ UNCHANGED << prefs, focused, ready, local, last_count, newest, pending_local,
                        advertised, last_sent, own_writes, announced >>
    BY <1>2 DEF on_remote_data
  <2>2. inflight.kind \in FormatKind
    BY <1>2 DEF Types, SessionTypes, Option, Inflight
  <2>3. items \in SUBSET Items
    BY <2>2, DecodeType
  <2>4. fetch \in Option(Fetch)
    BY DEF Types, SessionTypes
  <2> HIDE DEF items
  <2>5. /\ f \in Option(Fetch)
        /\ f # None => fetch # None /\ f.items = fetch.items \cup items
    BY <2>3, <2>4 DEF Option, Fetch
  <2> HIDE DEF f
  <2>6. Finished(f) \/ Asked(f)
    BY <2>1, <2>5, FetchStep
  <2>7. /\ fetch' \in Option(Fetch) /\ inflight' \in Option(Inflight)
        /\ unacked_write' \in Option(SUBSET Items)
        /\ writes' \in Seq(SUBSET Items) /\ toServer' \in Seq(Sent)
    BY <2>1, <2>5, FetchStep
  <2>8. Taken(data)
    <3>1. f # None => f.items \subseteq fetch.items \cup items
      BY <2>5
    <3> QED
      BY <1>2, <2>1, <2>5, <2>6, <3>1 DEF Taken, items
  <2>9. SessionTypes'
    BY <2>1, <2>7 DEF Types, SessionTypes
  <2> QED
    BY <2>7, <2>8, <2>9
<1> QED
  BY <1>1, <1>2 DEF on_remote_data

-----------------------------------------------------------------------------
(* The types are kept by every step; a MonitorReady finds no fetch running. *)

StartInv ==
    /\ ~ ready => fetch = None
    /\ \A i \in DOMAIN toClient : toClient[i].type = "MonitorReady" => i = 1 /\ ~ ready

LEMMA StoredType ==
    ASSUME NEW contents \in SUBSET Items
    PROVE  stored(contents) \in SUBSET Items
BY DEF stored, Items, ItemKind

LEMMA ReadType ==
    ASSUME Types, NEW level \in ClipboardPrefs
    PROVE  read(level) \in SUBSET Items
<1>1. pasteboard.contents \in SUBSET Items
  BY DEF Types, OutsideTypes
<1> DEFINE tiff == {i \in pasteboard.contents : i.kind = "Tiff"}
           made == {[kind |-> "Png", val |-> i.val] : i \in tiff}
<1>2. made \in SUBSET Items
  BY <1>1 DEF Items, ItemKind
<1> HIDE DEF made
<1>3. CASE level = "Off"
  BY <1>3 DEF read
<1>4. CASE level = "Text"
  BY <1>1, <1>4 DEF read
<1>5. CASE level = "TextAndImages"
  BY <1>1, <1>2, <1>5 DEF read, made
<1> QED
  BY <1>3, <1>4, <1>5 DEF ClipboardPrefs

LEMMA TypesInit == Init => Types /\ StartInv
<1> SUFFICES ASSUME Init
             PROVE  Types /\ StartInv
  OBVIOUS
<1>1. pasteboard \in [contents : SUBSET Items, count : Nat, user : BOOLEAN]
  <2>1. LocalCopies \cup {{}} \subseteq SUBSET Items
    BY ClipboardAssumption DEF Items
  <2>2. pasteboard \in [contents : LocalCopies \cup {{}}, count : {0}, user : {TRUE}]
    BY DEF Init
  <2>3. /\ pasteboard.contents \in LocalCopies \cup {{}} /\ pasteboard.count = 0 /\ pasteboard.user = TRUE
        /\ pasteboard = [contents |-> pasteboard.contents, count |-> pasteboard.count, user |-> pasteboard.user]
    BY <2>2
  <2>4. pasteboard.contents \in SUBSET Items
    BY <2>1, <2>3, Zenon
  <2>5. pasteboard.count = 0
    BY <2>3, Zenon
  <2>6. pasteboard.count \in Nat
    BY <2>5
  <2>7. pasteboard.user \in BOOLEAN
    BY <2>3, Zenon
  <2>8. pasteboard = [contents |-> pasteboard.contents, count |-> pasteboard.count, user |-> pasteboard.user]
    BY <2>3, Zenon
  <2> QED
    BY <2>4, <2>6, <2>7, <2>8
<1>2. toClient = << [type |-> "MonitorReady"] >> /\ [type |-> "MonitorReady"] \in Received
  BY DEF Init, Received, MonitorReady
<1>3. toClient \in Seq(Received) /\ DOMAIN toClient = {1}
  BY <1>2
<1>4. prefs \in ClipboardPrefs /\ focused \in BOOLEAN
  BY ClipboardAssumption DEF Init
<1>5. SessionTypes
  <2>1. own_writes \in Seq(Nat)
    BY DEF Init
  <2> QED
    BY <1>4, <2>1 DEF Init, SessionTypes, Option
<1>6. OutsideTypes
  BY <1>1, <1>3 DEF Init, OutsideTypes, Option
<1>7. StartInv
  BY <1>3 DEF Init, StartInv
<1> QED
  BY <1>5, <1>6, <1>7 DEF Types

LEMMA CommandTypes ==
    ASSUME Types, HandleCommand
    PROVE  /\ Types' /\ CommandShape
           /\ mailbox # << >> /\ mailbox' = Tail(mailbox)
           /\ UNCHANGED << pasteboard, key, toClient, server, answer >>
<1>1. /\ mailbox # << >> /\ mailbox' = Tail(mailbox)
      /\ UNCHANGED << pasteboard, key, toClient, server, answer >>
  BY DEF HandleCommand, mac, remote
<1> DEFINE cmd == Head(mailbox)
<1>2. cmd \in Command /\ mailbox' \in Seq(Command)
  BY <1>1, Queues DEF Types, OutsideTypes
<1>3. SessionTypes' /\ toServer' \in Seq(Sent) /\ CommandShape
  <2>1. CASE cmd.type = "LocalChanged" /\ on_local_change(cmd)
    BY <1>2, <2>1, Commands, LocalChangeShape
  <2>2. CASE cmd.type = "LocalWritten" /\ on_local_written(cmd.count)
    BY <1>2, <2>2, Commands, WrittenShape
  <2>3. CASE cmd.type = "Focus" /\ on_focus(cmd.gained)
    BY <1>2, <2>3, Commands, FocusShape
  <2>4. CASE cmd.type = "Prefs" /\ on_prefs(cmd.level)
    BY <1>2, <2>4, Commands, PrefsShape
  <2> QED
    BY <2>1, <2>2, <2>3, <2>4 DEF HandleCommand
<1>4. writes' = writes
  BY <1>3 DEF CommandShape
<1> QED
  BY <1>1, <1>2, <1>3, <1>4 DEF Types, OutsideTypes

\* The three callbacks, with what is left of the queue of PDUs.
PduShape ==
    LET pdu == Head(toClient)
    IN  \/ /\ pdu.type = "MonitorReady" /\ fetch = None
           /\ ready' /\ UNCHANGED << writes, unacked_write, own_writes, newest >>
           /\ \E formats \in SUBSET FormatKind : Offer(formats) /\ (formats = {} \/ focused')
        \/ pdu.type = "List" /\ (Ignored \/ Accepted(pdu))
        \/ /\ pdu.type = "Data" /\ pdu \in Data
           /\ \/ inflight = None /\ UNCHANGED << sync, writes, toServer, announced >>
              \/ Taken(pdu)

LEMMA PduTypes ==
    ASSUME Types, StartInv, HandlePdu
    PROVE  /\ Types' /\ PduShape
           /\ toClient # << >> /\ toClient' = Tail(toClient)
           /\ UNCHANGED << pasteboard, key, mailbox, server, answer >>
<1>1. /\ toClient # << >> /\ toClient' = Tail(toClient)
      /\ UNCHANGED << pasteboard, key, mailbox, server, answer >>
  BY DEF HandlePdu, mac, remote
<1> DEFINE pdu == Head(toClient)
<1>2. pdu \in Received /\ toClient' \in Seq(Received) /\ pdu = toClient[1] /\ 1 \in DOMAIN toClient
  BY <1>1, Queues DEF Types, OutsideTypes
<1>3. SessionTypes' /\ toServer' \in Seq(Sent) /\ writes' \in Seq(SUBSET Items) /\ PduShape
  <2>1. CASE pdu.type = "MonitorReady" /\ on_initial_request
    <3>1. fetch = None
      BY <1>2, <2>1 DEF StartInv
    <3>2. UNCHANGED << writes, unacked_write, own_writes >> /\ writes \in Seq(SUBSET Items)
      BY <2>1 DEF on_initial_request, Types, OutsideTypes
    <3> QED
      BY <2>1, <3>1, <3>2, InitialShape DEF PduShape
  <2>2. CASE pdu.type = "List" /\ on_remote_list(pdu)
    BY <1>2, <2>2, ListShape DEF PduShape
  <2>3. CASE pdu.type = "Data" /\ on_remote_data(pdu)
    <3>1. pdu \in Data
      BY <1>2, <2>3, MessageFields
    <3> QED
      BY <2>3, <3>1, DataShape DEF PduShape
  <2> QED
    BY <2>1, <2>2, <2>3 DEF HandlePdu
<1> QED
  BY <1>1, <1>2, <1>3 DEF Types, OutsideTypes

LEMMA TypesStep ==
    ASSUME Types, StartInv, [Next]_vars
    PROVE  Types'
<1> USE DEF Types
<1>1. CASE HandleCommand
  BY <1>1, CommandTypes
<1>2. CASE HandlePdu
  BY <1>2, PduTypes
<1>3. CASE Tick
  BY <1>3 DEF Tick, on_tick, SessionTypes, OutsideTypes, mac, remote, bounds, Option
<1>4. CASE PumpTick
  <2>1. LocalChanged \in Command
    BY ReadType DEF LocalChanged, Command, Change, SessionTypes, OutsideTypes
  <2>2. mailbox' \in Seq(Command)
    BY <1>4, <2>1, Appending DEF PumpTick, OutsideTypes
  <2> QED
    BY <1>4, <2>2 DEF PumpTick, SessionTypes, OutsideTypes, sync, remote, bounds
<1>5. CASE WritePasteboard
  <2>1. writes' \in Seq(SUBSET Items) /\ Head(writes) \in SUBSET Items
    BY <1>5, Queues DEF WritePasteboard, OutsideTypes
  <2>2. pasteboard' \in [contents : SUBSET Items, count : Nat, user : BOOLEAN]
    <3>1. stored(Head(writes)) \in SUBSET Items
      BY <2>1, StoredType
    <3>2. pasteboard \in [contents : SUBSET Items, count : Nat, user : BOOLEAN] /\ pasteboard.count + 1 \in Nat
      BY DEF OutsideTypes
    <3>3. \/ pasteboard' = pasteboard
          \/ pasteboard' = [contents |-> stored(Head(writes)), count |-> pasteboard.count + 1, user |-> FALSE]
      BY <1>5 DEF WritePasteboard
    <3>4. ASSUME NEW c \in SUBSET Items, NEW n \in Nat
          PROVE  [contents |-> c, count |-> n, user |-> FALSE] \in [contents : SUBSET Items, count : Nat, user : BOOLEAN]
      OBVIOUS
    <3>5. pasteboard.count + 1 \in Nat
      BY <3>2
    <3>6. [contents |-> stored(Head(writes)), count |-> pasteboard.count + 1, user |-> FALSE]
             \in [contents : SUBSET Items, count : Nat, user : BOOLEAN]
      BY <3>1, <3>4, <3>5, Zenon
    <3>7. pasteboard \in [contents : SUBSET Items, count : Nat, user : BOOLEAN]
      BY <3>2, Zenon
    <3> QED
      BY <3>3, <3>6, <3>7, Zenon
  <2>3. [type |-> "LocalWritten", count |-> pasteboard.count + 1] \in Command
    BY DEF Command, Written, OutsideTypes
  <2>4. mailbox' \in Seq(Command)
    <3>1. mailbox \in Seq(Command)
      BY DEF OutsideTypes
    <3>2. Append(mailbox, [type |-> "LocalWritten", count |-> pasteboard.count + 1]) \in Seq(Command)
      BY <2>3, <3>1, Appending
    <3> QED
      BY <1>5, <3>1, <3>2 DEF WritePasteboard
  <2> QED
    BY <1>5, <2>1, <2>2, <2>4 DEF WritePasteboard, SessionTypes, OutsideTypes, sync, remote, bounds
<1>6. ASSUME NEW contents \in LocalCopies, UserCopies(contents)
      PROVE  Types'
  <2>1. contents \in SUBSET Items
    BY ClipboardAssumption DEF Items
  <2>2. pasteboard' \in [contents : SUBSET Items, count : Nat, user : BOOLEAN]
    BY <1>6, <2>1 DEF UserCopies, OutsideTypes
  <2> QED
    BY <1>6, <2>2 DEF UserCopies, SessionTypes, OutsideTypes, sync, remote
<1>7. ASSUME NEW gained \in BOOLEAN, AppFocus(gained)
      PROVE  Types'
  <2>1. [type |-> "Focus", gained |-> gained] \in Command
    BY DEF Command, Focus
  <2>2. mailbox' \in Seq(Command)
    BY <1>7, <2>1, Appending DEF AppFocus, OutsideTypes
  <2> QED
    BY <1>7, <2>2 DEF AppFocus, SessionTypes, OutsideTypes, sync, remote
<1>8. ASSUME NEW level \in ClipboardPrefs, AppPrefs(level)
      PROVE  Types'
  <2>1. [type |-> "Prefs", level |-> level] \in Command
    BY DEF Command, Prefs
  <2>2. mailbox' \in Seq(Command)
    BY <1>8, <2>1, Appending DEF AppPrefs, OutsideTypes
  <2> QED
    BY <1>8, <2>2 DEF AppPrefs, SessionTypes, OutsideTypes, sync, mac, remote
<1>9. ASSUME NEW kinds \in RemoteFormats, NEW val \in Values, ServerCopies(kinds, val)
      PROVE  Types'
  <2>1. server' \in Copy
    BY <1>9 DEF ServerCopies, Copy
  <2>2. kinds \in SUBSET (FormatKind \cup {"Other"}) /\ server' \in Option(Copy)
    BY <2>1, ClipboardAssumption DEF Option
  <2>3. [type |-> "List", kinds |-> kinds, of |-> server'] \in Received
    BY <2>2, Messages
  <2>4. toClient' \in Seq(Received)
    BY <1>9, <2>3, Appending DEF ServerCopies, OutsideTypes
  <2> QED
    BY <1>9, <2>2, <2>4 DEF ServerCopies, SessionTypes, OutsideTypes, sync, mac
<1>10. CASE ServerTakesList
  <2>1. Head(toServer).kinds \in SUBSET (FormatKind \cup {"Other"}) /\ None \in Option(Copy)
    BY <1>10, Queues, MessageFields DEF ServerTakesList, OutsideTypes, Option
  <2>2. [type |-> "List", kinds |-> Head(toServer).kinds, of |-> None] \in Received
    BY <2>1, Messages
  <2>3. toClient' \in Seq(Received)
    <3>1. toClient \in Seq(Received)
      BY DEF OutsideTypes
    <3>2. Append(toClient, [type |-> "List", kinds |-> Head(toServer).kinds, of |-> None]) \in Seq(Received)
      BY <2>2, <3>1, Appending
    <3> QED
      BY <1>10, <3>1, <3>2 DEF ServerTakesList
  <2>4. toServer' \in Seq(Sent)
    BY <1>10, Queues DEF ServerTakesList, OutsideTypes
  <2> QED
    BY <1>10, <2>3, <2>4 DEF ServerTakesList, SessionTypes, OutsideTypes, sync, mac, bounds, Option
<1>11. CASE ServerLooks
  <2>1. toServer' \in Seq(Sent) /\ Head(toServer).kind \in FormatKind
    BY <1>11, Queues, MessageFields DEF ServerLooks, OutsideTypes
  <2>2. answer' \in Data
    BY <1>11, <2>1 DEF ServerLooks, OutsideTypes, Data, Copy, Option
  <2> QED
    BY <1>11, <2>1, <2>2 DEF ServerLooks, SessionTypes, OutsideTypes, sync, mac, bounds, Option
<1>12. CASE ServerAnswers
  <2>1. answer \in Received
    BY <1>12, Messages DEF ServerAnswers, OutsideTypes, Option
  <2>2. toClient' \in Seq(Received)
    BY <1>12, <2>1, Appending DEF ServerAnswers, OutsideTypes
  <2> QED
    BY <1>12, <2>2 DEF ServerAnswers, SessionTypes, OutsideTypes, sync, mac, bounds, Option
<1>13. CASE EchoWindowEnds
  <2>1. last_sent' \in Option([kinds : SUBSET FormatKind, recent : BOOLEAN])
    BY <1>13 DEF EchoWindowEnds, SessionTypes, Option
  <2> QED
    BY <1>13, <2>1 DEF EchoWindowEnds, SessionTypes, OutsideTypes, mac, remote, bounds
<1>14. CASE FetchTimesOut
  <2>1. inflight' \in Option(Inflight)
    BY <1>14 DEF FetchTimesOut, SessionTypes, Option, Inflight
  <2> QED
    BY <1>14, <2>1 DEF FetchTimesOut, SessionTypes, OutsideTypes, mac, remote, bounds
<1>15. CASE UNCHANGED vars
  BY <1>15 DEF vars, SessionTypes, OutsideTypes
<1> QED
  BY <1>1, <1>2, <1>3, <1>4, <1>5, <1>6, <1>7, <1>8, <1>9, <1>10, <1>11, <1>12, <1>13, <1>14, <1>15
     DEF Next

LEMMA StartStep ==
    ASSUME Types, StartInv, [Next]_vars
    PROVE  StartInv'
<1>0. toClient \in Seq(Received)
  BY DEF Types, OutsideTypes
<1>1. CASE HandleCommand
  <2>1. toClient' = toClient /\ ready' = ready /\ (Silent \/ fetch' = None)
    BY <1>1, CommandTypes DEF CommandShape, Offer
  <2> QED
    BY <2>1 DEF StartInv, Silent
<1>2. CASE HandlePdu
  <2>1. PduShape /\ toClient # << >> /\ toClient' = Tail(toClient)
    BY <1>2, PduTypes
  <2>2. \A i \in DOMAIN toClient' : toClient'[i].type # "MonitorReady"
    <3>1. ASSUME NEW i \in DOMAIN toClient'
          PROVE  toClient'[i] = toClient[i + 1] /\ i + 1 \in DOMAIN toClient /\ i + 1 # 1
      BY <1>0, <2>1, Queues
    <3> QED
      BY <3>1 DEF StartInv
  <2>3. ~ ready' => fetch' = None
    <3>1. CASE ready'
      BY <3>1
    <3>2. CASE Ignored
      BY <3>2 DEF Ignored, StartInv
    <3>3. CASE Accepted(Head(toClient))
      BY <3>3 DEF Accepted
    <3>4. CASE UNCHANGED << sync, writes, toServer, announced >>
      BY <3>4 DEF StartInv, sync
    <3>5. CASE Taken(Head(toClient))
      BY <3>5 DEF Taken, Finished, Asked, StartInv
    <3> QED
      BY <2>1, <3>1, <3>2, <3>3, <3>4, <3>5 DEF PduShape
  <2> QED
    BY <2>2, <2>3 DEF StartInv
<1>3. CASE Tick
  BY <1>3 DEF Tick, on_tick, StartInv
<1>4. CASE UNCHANGED << fetch, ready, toClient >>
  BY <1>4 DEF StartInv
<1>5. CASE /\ UNCHANGED << fetch, ready >>
           /\ \E m \in Received : m.type # "MonitorReady" /\ toClient' = Append(toClient, m)
  <2>1. PICK m \in Received : m.type # "MonitorReady" /\ toClient' = Append(toClient, m)
    BY <1>5
  <2>2. ASSUME NEW i \in DOMAIN toClient', toClient'[i].type = "MonitorReady"
        PROVE  i = 1 /\ ~ ready
    <3>1. i \in DOMAIN toClient \/ toClient'[i] = m
      BY <1>0, <2>1, Appending
    <3>2. i \in DOMAIN toClient /\ toClient'[i] = toClient[i]
      BY <1>0, <2>1, <2>2, <3>1, Appending
    <3> QED
      BY <2>2, <3>2 DEF StartInv
  <2> QED
    BY <1>5, <2>2 DEF StartInv
<1>6. ASSUME NEW kinds \in RemoteFormats, NEW val \in Values, ServerCopies(kinds, val)
      PROVE  StartInv'
  <2>1. server' \in Option(Copy) /\ kinds \in SUBSET (FormatKind \cup {"Other"})
    BY <1>6, ClipboardAssumption DEF ServerCopies, Copy, Option
  <2>2. [type |-> "List", kinds |-> kinds, of |-> server'] \in Received
    BY <2>1, Messages
  <2> QED
    BY <1>5, <1>6, <2>2 DEF ServerCopies, sync
<1>7. CASE ServerTakesList
  <2>1. Head(toServer).kinds \in SUBSET (FormatKind \cup {"Other"}) /\ None \in Option(Copy)
    BY <1>7, Queues, MessageFields DEF ServerTakesList, Types, OutsideTypes, Option
  <2>2. [type |-> "List", kinds |-> Head(toServer).kinds, of |-> None] \in Received
    BY <2>1, Messages
  <2> QED
    BY <1>4, <1>5, <1>7, <2>2 DEF ServerTakesList, sync
<1>8. CASE ServerAnswers
  <2>1. answer \in Received /\ answer.type = "Data"
    BY <1>8, Messages DEF ServerAnswers, Types, OutsideTypes, Option
  <2> QED
    BY <1>5, <1>8, <2>1 DEF ServerAnswers, sync
<1>9. CASE PumpTick \/ WritePasteboard \/ ServerLooks \/ EchoWindowEnds \/ FetchTimesOut \/ UNCHANGED vars
  BY <1>4, <1>9 DEF PumpTick, WritePasteboard, ServerLooks, EchoWindowEnds, FetchTimesOut, vars, sync
<1>10. ASSUME \/ \E contents \in LocalCopies : UserCopies(contents)
              \/ \E gained \in BOOLEAN : AppFocus(gained)
              \/ \E level \in ClipboardPrefs : AppPrefs(level)
       PROVE  StartInv'
  BY <1>4, <1>10 DEF UserCopies, AppFocus, AppPrefs, sync
<1> QED
  BY <1>1, <1>2, <1>3, <1>6, <1>7, <1>8, <1>9, <1>10 DEF Next

\* The steps outside the session: they touch its state only through the tick and time.
Outside ==
    /\ UNCHANGED << newest, ready, own_writes, announced, unacked_write, advertised, last_count >>
    /\ fetch' \in {fetch, None}
    /\ \/ writes' = writes
       \/ writes # << >> /\ writes' = Tail(writes)
    /\ \/ toServer' = toServer
       \/ toServer # << >> /\ toServer' = Tail(toServer)

LEMMA OutsideSteps ==
    ASSUME [Next]_vars
    PROVE  HandleCommand \/ HandlePdu \/ Outside
<1>1. CASE Tick
  BY <1>1 DEF Tick, on_tick, Outside
<1>2. CASE PumpTick \/ WritePasteboard
  BY <1>2 DEF PumpTick, WritePasteboard, Outside, sync
<1>3. ASSUME \/ \E contents \in LocalCopies : UserCopies(contents)
             \/ \E gained \in BOOLEAN : AppFocus(gained)
             \/ \E level \in ClipboardPrefs : AppPrefs(level)
             \/ \E kinds \in RemoteFormats, val \in Values : ServerCopies(kinds, val)
      PROVE  Outside
  BY <1>3 DEF UserCopies, AppFocus, AppPrefs, ServerCopies, Outside, sync
<1>4. CASE ServerTakesList \/ ServerLooks \/ ServerAnswers
  BY <1>4 DEF ServerTakesList, ServerLooks, ServerAnswers, Outside, sync
<1>5. CASE EchoWindowEnds \/ FetchTimesOut \/ UNCHANGED vars
  BY <1>5 DEF EchoWindowEnds, FetchTimesOut, vars, Outside
<1> QED
  BY <1>1, <1>2, <1>3, <1>4, <1>5 DEF Next

-----------------------------------------------------------------------------
(* Only the focused session advertises: for every server and every wiring   *)
(* of the app.                                                              *)

SyncInv == Types /\ StartInv

\* What one step may do to the list the server sees.
OnlyFocusedStep ==
    Len(toServer') > Len(toServer) =>
        LET sent == toServer'[Len(toServer')]
        IN  sent.type = "List" /\ sent.kinds # {} => focused'

\* What one appended message is, as the last of the queue.
LEMMA Sending ==
    ASSUME Types, NEW m \in Sent, toServer' = Append(toServer, m)
    PROVE  toServer'[Len(toServer')] = m
<1>1. toServer \in Seq(Sent)
  BY DEF Types, OutsideTypes
<1>2. Append(toServer, m)[Len(toServer) + 1] = m /\ Len(Append(toServer, m)) = Len(toServer) + 1
  BY <1>1, Appending
<1> QED
  BY <1>2

LEMMA RequestsOfferNothing ==
    ASSUME Types, NEW kind \in FormatKind,
           toServer' = Append(toServer, [type |-> "Request", kind |-> kind])
    PROVE  OnlyFocusedStep
<1>1. [type |-> "Request", kind |-> kind] \in Sent
  BY Messages
<1>2. toServer'[Len(toServer')] = [type |-> "Request", kind |-> kind]
  BY <1>1, Sending
<1> QED
  BY <1>2 DEF OnlyFocusedStep

LEMMA OffersAreFocused ==
    ASSUME Types, NEW formats \in SUBSET FormatKind, Offer(formats), formats = {} \/ focused'
    PROVE  OnlyFocusedStep
<1>1. [type |-> "List", kinds |-> formats] \in Sent
  BY Messages
<1>2. toServer'[Len(toServer')] = [type |-> "List", kinds |-> formats]
  BY <1>1, Sending DEF Offer
<1> QED
  BY <1>2 DEF OnlyFocusedStep

LEMMA FocusStep ==
    ASSUME SyncInv, [Next]_vars
    PROVE  OnlyFocusedStep
<1> USE DEF SyncInv
<1>1. /\ Len(toServer) \in Nat
      /\ toServer # << >> => Len(Tail(toServer)) = Len(toServer) - 1
  BY DEF Types, OutsideTypes
<1>2. UNCHANGED toServer => OnlyFocusedStep
  BY <1>1 DEF OnlyFocusedStep
<1>3. ASSUME NEW formats \in SUBSET FormatKind, Offer(formats) /\ (formats = {} \/ focused')
      PROVE  OnlyFocusedStep
  BY <1>3, OffersAreFocused
<1>4. CASE HandleCommand
  BY <1>2, <1>3, <1>4, CommandTypes DEF CommandShape, Silent
<1>5. CASE HandlePdu
  <2>1. PduShape
    BY <1>5, PduTypes
  <2>2. CASE Ignored \/ UNCHANGED << sync, writes, toServer, announced >>
    BY <1>2, <2>2 DEF Ignored
  <2>3. CASE Accepted(Head(toClient))
    BY <1>2, <2>3, RequestsOfferNothing DEF Accepted
  <2>4. CASE Taken(Head(toClient))
    BY <1>2, <2>4, RequestsOfferNothing DEF Taken, Finished, Asked
  <2> QED
    BY <1>3, <2>1, <2>2, <2>3, <2>4 DEF PduShape
<1>6. CASE Outside
  BY <1>1, <1>2, <1>6 DEF Outside, OnlyFocusedStep
<1> QED
  BY <1>4, <1>5, <1>6, OutsideSteps

LEMMA SyncInvariant == Spec => []SyncInv
<1>1. Init => SyncInv
  BY TypesInit DEF SyncInv
<1>2. SyncInv /\ [Next]_vars => SyncInv'
  BY TypesStep, StartStep DEF SyncInv
<1> QED
  BY <1>1, <1>2, PTL DEF Spec

\* sync.rs:15: a list that offers anything leaves a focused session, however the app is wired.
THEOREM FocusScoping == Spec => OnlyFocusedAdvertises
<1>1. SyncInv /\ [Next]_vars => [OnlyFocusedStep]_vars
  BY FocusStep
<1>2. OnlyFocusedAdvertises <=> [][OnlyFocusedStep]_vars
  BY PTL DEF OnlyFocusedAdvertises, OnlyFocusedStep
<1> QED
  BY <1>1, <1>2, SyncInvariant, PTL DEF Spec

-----------------------------------------------------------------------------
(* What is offered, as the app wires the session: nobody feeds Drift's own  *)
(* writes or a change of the preference back.                               *)

\* What the list on offer depends on.
offering == << prefs, focused, ready, local, pending_local, advertised, last_sent >>

OnlyAppCommands == \A i \in DOMAIN mailbox : mailbox[i].type \in {"LocalChanged", "Focus"}

\* A local change that is not on offer is pending, and nothing is pending while the session
\* may sync.
OffersInv ==
    /\ own_writes = << >>
    /\ pending_local \in BOOLEAN
    /\ newest = "local" => local # None
    /\ ready /\ focused => ~ pending_local
    /\ prefs # "Off" /\ newest = "local" /\ local.contents # unacked_write
         => Offered \/ pending_local

LEMMA OffersInit == Init => OffersInv /\ OnlyAppCommands
<1> SUFFICES ASSUME Init
             PROVE  OffersInv /\ OnlyAppCommands
  OBVIOUS
<1>1. mailbox = << >> /\ own_writes = << >>
  BY DEF Init
<1>2. OnlyAppCommands
  BY <1>1 DEF OnlyAppCommands
<1>3. /\ pending_local \in BOOLEAN /\ newest # "local" /\ ~ ready
  BY DEF Init
<1> QED
  BY <1>1, <1>2, <1>3 DEF OffersInv

\* What advertise_local sends is what the last local change has to offer.
LEMMA AdvertisedIsOffered ==
    ASSUME NEW contents, advertise_local(contents, prefs), UNCHANGED prefs,
           local'.contents = contents
    PROVE  Offered' /\ pending_local' = FALSE
<1> DEFINE formats == outbound_formats(filter_local(contents, prefs), prefs)
<1>1. last_sent' = [kinds |-> formats, recent |-> TRUE]
  BY DEF advertise_local, send_list
<1>2. formats \in SUBSET FormatKind
  BY DEF outbound_formats
<1>3. last_sent' # None
  <2>1. ASSUME NEW f \in SUBSET FormatKind
        PROVE  [kinds |-> f, recent |-> TRUE] # None
    <3>1. [kinds |-> f, recent |-> TRUE] \in [kinds : SUBSET FormatKind, recent : BOOLEAN]
      OBVIOUS
    <3> QED
      BY <3>1, ClipboardAssumption
  <2> HIDE DEF formats
  <2> QED
    BY <1>1, <1>2, <2>1
<1>4. advertised' = filter_local(contents, prefs) /\ pending_local' = FALSE
  BY DEF advertise_local
<1>5. filter_local(local.contents, prefs)' = filter_local(contents, prefs)
  BY DEF filter_local
<1>6. outbound_formats(advertised, prefs)' = formats
  BY <1>4 DEF outbound_formats
<1>7. last_sent'.kinds = formats
  BY <1>1
<1> QED
  BY <1>3, <1>4, <1>5, <1>6, <1>7, Zenon DEF Offered

\* What leaves the offer alone keeps it, unless the fetched copy takes its place.
LEMMA OfferKept ==
    ASSUME OffersInv, UNCHANGED << offering, own_writes >>,
           \/ newest' = "remote"
           \/ UNCHANGED << newest, unacked_write >>
           \/ newest # "local" /\ UNCHANGED newest
    PROVE  OffersInv'
BY DEF OffersInv, offering, Offered, filter_local, outbound_formats

LEMMA OffersChange ==
    ASSUME Types, OffersInv, NEW change \in Change, on_local_change(change)
    PROVE  OffersInv'
<1>1. CASE UNCHANGED << sync, writes, toServer, announced >>
  BY <1>1, OfferKept DEF sync, offering
<1>2. CASE last_count # change.count
  <2>1. /\ newest' = "local"
        /\ local' = [contents |-> change.contents, user |-> change.user]
        /\ UNCHANGED << prefs, focused, ready, own_writes, unacked_write, writes >>
    BY <1>2 DEF on_local_change, sync
  <2>2. local' # None /\ local'.contents = change.contents
    BY <2>1, ClipboardAssumption DEF Change
  <2>3. CASE own(change) \/ prefs = "Off"
    <3>1. UNCHANGED pending_local
      BY <1>2, <2>3 DEF on_local_change, can_sync, sync
    <3>2. own(change) => change.contents = unacked_write
      BY DEF own, OffersInv
    <3> QED
      BY <2>1, <2>2, <2>3, <3>1, <3>2 DEF OffersInv
  <2>4. CASE ~ own(change) /\ prefs # "Off" /\ ~ can_sync
    <3>1. pending_local' = TRUE
      BY <1>2, <2>4 DEF on_local_change, can_sync, sync
    <3> QED
      BY <2>1, <2>2, <2>4, <3>1 DEF OffersInv, can_sync
  <2>5. CASE can_sync /\ advertise_local(change.contents, prefs)
    <3>1. Offered' /\ pending_local' = FALSE
      BY <2>1, <2>2, <2>5, AdvertisedIsOffered
    <3> QED
      BY <2>1, <2>2, <3>1 DEF OffersInv
  <2> QED
    BY <1>2, <2>3, <2>4, <2>5 DEF on_local_change, can_sync, sync
<1> QED
  BY <1>1, <1>2 DEF on_local_change

LEMMA OffersFocus ==
    ASSUME Types, OffersInv, NEW gained \in BOOLEAN, on_focus(gained)
    PROVE  OffersInv'
<1> DEFINE contents == IF local = None THEN {} ELSE local.contents
<1>1. /\ focused' = gained
      /\ UNCHANGED << prefs, ready, local, newest, own_writes, unacked_write >>
  BY DEF on_focus
<1>2. CASE gained /\ pending_local /\ advertise_local(contents, prefs)
  <2>1. pending_local' = FALSE
    BY <1>2 DEF advertise_local
  <2>2. CASE newest = "local"
    <3>1. contents = local.contents
      BY <2>2 DEF OffersInv
    <3>2. Offered'
      BY <1>1, <1>2, <3>1, AdvertisedIsOffered
    <3> QED
      BY <1>1, <2>1, <2>2, <3>2 DEF OffersInv
  <2> QED
    BY <1>1, <2>1, <2>2 DEF OffersInv
<1>3. CASE ~ (gained /\ pending_local) /\ UNCHANGED << pending_local, advertised >> /\ Quiet
  BY <1>1, <1>3 DEF OffersInv, Quiet, Offered, filter_local, outbound_formats
<1> QED
  BY <1>2, <1>3 DEF on_focus

LEMMA OffersInitialRequest ==
    ASSUME Types, OffersInv, on_initial_request
    PROVE  OffersInv'
<1>1. UNCHANGED << prefs, focused, local, newest, own_writes, unacked_write >>
  BY DEF on_initial_request
<1>2. CASE focused /\ local # None /\ advertise_local(local.contents, prefs)
  <2>1. Offered' /\ pending_local' = FALSE
    BY <1>1, <1>2, AdvertisedIsOffered
  <2> QED
    BY <1>1, <2>1 DEF OffersInv
<1>3. CASE /\ ~ (focused /\ prefs # "Off" /\ local # None)
           /\ pending_local' = (local # None /\ prefs # "Off")
  BY <1>1, <1>3 DEF OffersInv
<1> QED
  BY <1>2, <1>3 DEF on_initial_request

\* A fetch writes only what is newer than the last local change.
LEMMA OffersFetch ==
    ASSUME NEW f, next_fetch_step(f)
    PROVE  unacked_write' = unacked_write \/ newest # "local"
BY DEF next_fetch_step, complete_fetch

LEMMA OffersPdu ==
    ASSUME Types, OffersInv, HandlePdu
    PROVE  OffersInv'
<1> DEFINE pdu == Head(toClient)
<1>1. CASE on_initial_request
  BY <1>1, OffersInitialRequest
<1>2. CASE on_remote_list(pdu)
  <2>1. UNCHANGED << offering, own_writes >>
    BY <1>2 DEF on_remote_list, sync, offering
  <2>2. newest' = "remote" \/ UNCHANGED << newest, unacked_write >>
    BY <1>2 DEF on_remote_list, sync
  <2> QED
    BY <2>1, <2>2, OfferKept
<1>3. CASE on_remote_data(pdu)
  <2>1. UNCHANGED << offering, own_writes, newest >>
    BY <1>3 DEF on_remote_data, sync, offering
  <2>2. unacked_write' = unacked_write \/ newest # "local"
    BY <1>3, OffersFetch DEF on_remote_data, sync
  <2> QED
    BY <2>1, <2>2, OfferKept
<1> QED
  BY <1>1, <1>2, <1>3 DEF HandlePdu

LEMMA OffersCommand ==
    ASSUME Types, OffersInv, OnlyAppCommands, HandleCommand
    PROVE  OffersInv'
<1> DEFINE cmd == Head(mailbox)
<1>1. mailbox \in Seq(Command) /\ mailbox # << >>
  BY DEF HandleCommand, Types, OutsideTypes
<1>2. cmd \in Command /\ cmd.type \in {"LocalChanged", "Focus"}
  BY <1>1, Queues DEF OnlyAppCommands
<1>3. CASE cmd.type = "LocalChanged" /\ on_local_change(cmd)
  BY <1>2, <1>3, Commands, OffersChange
<1>4. CASE cmd.type = "Focus" /\ on_focus(cmd.gained)
  BY <1>2, <1>4, Commands, OffersFocus
<1> QED
  BY <1>2, <1>3, <1>4 DEF HandleCommand

\* The app sends nothing but pasteboard changes and focus.
LEMMA AppCommandsStep ==
    ASSUME Types, OnlyAppCommands, [Next]_vars, Wiring = "app"
    PROVE  OnlyAppCommands'
<1>1. mailbox \in Seq(Command)
  BY DEF Types, OutsideTypes
<1>2. CASE UNCHANGED mailbox
  BY <1>2 DEF OnlyAppCommands
<1>3. CASE mailbox # << >> /\ mailbox' = Tail(mailbox)
  BY <1>1, <1>3, Queues DEF OnlyAppCommands
<1>4. ASSUME NEW m \in Command, m.type \in {"LocalChanged", "Focus"}, mailbox' = Append(mailbox, m)
      PROVE  OnlyAppCommands'
  BY <1>1, <1>4, Appending DEF OnlyAppCommands
<1>5. CASE PumpTick
  <2>1. LocalChanged \in Command /\ LocalChanged.type = "LocalChanged"
    BY ReadType DEF LocalChanged, Command, Change, Types, SessionTypes, OutsideTypes
  <2> QED
    BY <1>2, <1>4, <1>5, <2>1 DEF PumpTick
<1>6. ASSUME NEW gained \in BOOLEAN, AppFocus(gained)
      PROVE  OnlyAppCommands'
  <2>1. [type |-> "Focus", gained |-> gained] \in Command
    BY DEF Command, Focus
  <2> QED
    BY <1>4, <1>6, <2>1 DEF AppFocus
<1>7. CASE HandleCommand
  BY <1>3, <1>7 DEF HandleCommand
<1>8. CASE WritePasteboard
  BY <1>2, <1>8 DEF WritePasteboard
<1>9. ASSUME \/ \E contents \in LocalCopies : UserCopies(contents)
             \/ \E level \in ClipboardPrefs : AppPrefs(level)
             \/ \E kinds \in RemoteFormats, val \in Values : ServerCopies(kinds, val)
      PROVE  OnlyAppCommands'
  BY <1>2, <1>9 DEF UserCopies, AppPrefs, ServerCopies
<1>10. CASE HandlePdu \/ Tick \/ ServerTakesList \/ ServerLooks \/ ServerAnswers
  BY <1>2, <1>10 DEF HandlePdu, Tick, ServerTakesList, ServerLooks, ServerAnswers
<1>11. CASE EchoWindowEnds \/ FetchTimesOut \/ UNCHANGED vars
  BY <1>2, <1>11 DEF EchoWindowEnds, FetchTimesOut, vars
<1> QED
  BY <1>5, <1>6, <1>7, <1>8, <1>9, <1>10, <1>11 DEF Next

LEMMA OffersStep ==
    ASSUME Types, OffersInv, OnlyAppCommands, [Next]_vars
    PROVE  OffersInv'
<1>1. CASE HandleCommand
  BY <1>1, OffersCommand
<1>2. CASE HandlePdu
  BY <1>2, OffersPdu
<1>3. CASE UNCHANGED << offering, own_writes, newest, unacked_write >>
  BY <1>3, OfferKept
<1>4. CASE EchoWindowEnds
  <2>1. last_sent \in Option([kinds : SUBSET FormatKind, recent : BOOLEAN])
    BY DEF Types, SessionTypes
  <2>2. last_sent \in [kinds : SUBSET FormatKind, recent : BOOLEAN]
    BY <1>4, <2>1 DEF EchoWindowEnds, Option
  <2>3. last_sent' \in [kinds : SUBSET FormatKind, recent : BOOLEAN] /\ last_sent'.kinds = last_sent.kinds
    BY <1>4, <2>2 DEF EchoWindowEnds
  <2>4. last_sent' # None
    BY <2>3, ClipboardAssumption
  <2> QED
    BY <1>4, <2>3, <2>4 DEF EchoWindowEnds, OffersInv, Offered, filter_local, outbound_formats
<1>5. CASE Tick \/ PumpTick \/ WritePasteboard \/ FetchTimesOut \/ UNCHANGED vars
  BY <1>3, <1>5 DEF Tick, PumpTick, WritePasteboard, FetchTimesOut, vars, sync, offering
<1>6. CASE ServerTakesList \/ ServerLooks \/ ServerAnswers
  BY <1>3, <1>6 DEF ServerTakesList, ServerLooks, ServerAnswers, sync, offering
<1>7. ASSUME \/ \E contents \in LocalCopies : UserCopies(contents)
             \/ \E gained \in BOOLEAN : AppFocus(gained)
             \/ \E level \in ClipboardPrefs : AppPrefs(level)
             \/ \E kinds \in RemoteFormats, val \in Values : ServerCopies(kinds, val)
      PROVE  OffersInv'
  BY <1>3, <1>7 DEF UserCopies, AppFocus, AppPrefs, ServerCopies, sync, offering
<1> QED
  BY <1>1, <1>2, <1>4, <1>5, <1>6, <1>7 DEF Next

\* sync.rs:15, as the app wires it: whatever the server, the focus and the user do in whatever
\* order, a session that may sync offers its last local change, unless a remote copy it took
\* is later or the change is what it fetched.
THEOREM OffersFollowTheUser ==
    ASSUME Wiring = "app"
    PROVE  Spec => []OffersAreCurrent
<1>1. SyncInv /\ OffersInv /\ OnlyAppCommands /\ [Next]_vars => OffersInv' /\ OnlyAppCommands'
  BY OffersStep, AppCommandsStep DEF SyncInv
<1>2. Spec => [](OffersInv /\ OnlyAppCommands)
  BY <1>1, OffersInit, SyncInvariant, PTL DEF Spec
<1>3. OffersInv => OffersAreCurrent
  BY DEF OffersInv, OffersAreCurrent, can_sync
<1> QED
  BY <1>2, <1>3, PTL

-----------------------------------------------------------------------------
(* One request at a time, with a server that answers in time.              *)

Without(q, type) == \A i \in DOMAIN q : q[i].type # type

AtMostOne(q, type, kinds) ==
    /\ \A i, j \in DOMAIN q : q[i].type = type /\ q[j].type = type => i = j
    /\ \A i \in DOMAIN q : q[i].type = type => q[i].kind \in kinds

LEMMA QueueTail ==
    ASSUME NEW S, NEW q \in Seq(S), q # << >>, NEW type, NEW kinds
    PROVE  /\ Without(q, type) => Without(Tail(q), type)
           /\ AtMostOne(q, type, kinds) => AtMostOne(Tail(q), type, kinds)
           /\ AtMostOne(q, type, kinds) /\ Head(q).type = type => Without(Tail(q), type)
           /\ Head(q).type # type /\ ~ Without(q, type) => ~ Without(Tail(q), type)
           /\ AtMostOne(q, type, kinds) /\ Head(q).type = type => Head(q).kind \in kinds
           /\ Head(q).type = type => ~ Without(q, type)
<1>1. /\ DOMAIN q = 1 .. Len(q) /\ Len(q) \in Nat /\ 1 \in DOMAIN q /\ Head(q) = q[1]
      /\ DOMAIN Tail(q) = 1 .. Len(q) - 1
      /\ \A i \in DOMAIN Tail(q) : Tail(q)[i] = q[i + 1] /\ i + 1 \in DOMAIN q
  BY Queues
<1>2. AtMostOne(q, type, kinds) => AtMostOne(Tail(q), type, kinds)
  BY <1>1 DEF AtMostOne
<1>3. AtMostOne(q, type, kinds) /\ Head(q).type = type => Without(Tail(q), type)
  BY <1>1 DEF AtMostOne, Without
<1>4. ASSUME Head(q).type # type, NEW i \in DOMAIN q, q[i].type = type
      PROVE  ~ Without(Tail(q), type)
  <2>1. i - 1 \in DOMAIN Tail(q) /\ (i - 1) + 1 = i
    BY <1>1, <1>4
  <2>2. Tail(q)[i - 1] = q[i]
    BY <1>1, <2>1
  <2> QED
    BY <1>4, <2>1, <2>2 DEF Without
<1> QED
  BY <1>1, <1>2, <1>3, <1>4 DEF Without, AtMostOne

LEMMA QueueAppend ==
    ASSUME NEW S, NEW q \in Seq(S), NEW e \in S, NEW type, NEW kinds
    PROVE  /\ Without(q, type) /\ e.type # type => Without(Append(q, e), type)
           /\ ~ Without(q, type) => ~ Without(Append(q, e), type)
           /\ e.type = type => ~ Without(Append(q, e), type)
           /\ AtMostOne(q, type, kinds) /\ e.type # type => AtMostOne(Append(q, e), type, kinds)
           /\ Without(q, type) /\ e.kind \in kinds => AtMostOne(Append(q, e), type, kinds)
           /\ Without(q, type) => AtMostOne(q, type, kinds)
<1>1. /\ DOMAIN q \subseteq DOMAIN Append(q, e)
      /\ \A i \in DOMAIN q : Append(q, e)[i] = q[i]
      /\ Append(q, e)[Len(q) + 1] = e /\ Len(q) + 1 \in DOMAIN Append(q, e)
      /\ \A i \in DOMAIN Append(q, e) : i \in DOMAIN q \/ i = Len(q) + 1
  BY Appending
<1> QED
  BY <1>1 DEF Without, AtMostOne

\* sync.rs:18: the request the state tracks is on the wire, being answered or answered, and
\* nothing else is.
OneInv ==
    /\ inflight # None => ~ inflight.late
    /\ inflight = None => Without(toServer, "Request") /\ answer = None /\ Without(toClient, "Data")
    /\ Without(toServer, "Request") \/ (answer = None /\ Without(toClient, "Data"))
    /\ answer = None \/ Without(toClient, "Data")
    /\ AtMostOne(toServer, "Request", {inflight.kind})
    /\ AtMostOne(toClient, "Data", {"Error", inflight.kind})
    /\ answer # None => answer.kind \in {"Error", inflight.kind}

LEMMA OneInit == Init => OneInv
<1> SUFFICES ASSUME Init
             PROVE  OneInv
  OBVIOUS
<1>1. toClient = << [type |-> "MonitorReady"] >> /\ toServer = << >> /\ inflight = None /\ answer = None
  BY DEF Init
<1>2. DOMAIN toClient = {1} /\ toClient[1].type = "MonitorReady" /\ DOMAIN toServer = {}
  BY <1>1
<1> QED
  BY <1>1, <1>2 DEF OneInv, Without, AtMostOne

\* The tracked request stays the same: the same kind, not late, or none at all.
SameRequest ==
    /\ inflight = None <=> inflight' = None
    /\ inflight # None => inflight'.kind = inflight.kind /\ inflight'.late = inflight.late

LEMMA RequestIsKept ==
    ASSUME Types, inflight' \in {inflight, superseded}
    PROVE  SameRequest /\ (inflight # None /\ inflight' = superseded => inflight'.stale)
BY Superseding DEF Types, SessionTypes, SameRequest

\* The pipeline of a request, when only lists move or an element leaves a queue.
LEMMA OneQuiet ==
    ASSUME Types, OneInv, SameRequest, UNCHANGED answer,
           \/ UNCHANGED toServer
           \/ toServer # << >> /\ Head(toServer).type # "Request" /\ toServer' = Tail(toServer)
           \/ \E formats \in SUBSET FormatKind :
                 toServer' = Append(toServer, [type |-> "List", kinds |-> formats]),
           \/ UNCHANGED toClient
           \/ toClient # << >> /\ Head(toClient).type # "Data" /\ toClient' = Tail(toClient)
           \/ \E m \in Received : m.type # "Data" /\ toClient' = Append(toClient, m)
    PROVE  OneInv'
<1>1. toServer \in Seq(Sent) /\ toClient \in Seq(Received)
  BY DEF Types, OutsideTypes
<1>2. /\ Without(toServer, "Request") => Without(toServer', "Request")
      /\ \A kinds : AtMostOne(toServer, "Request", kinds) => AtMostOne(toServer', "Request", kinds)
  <2>1. ASSUME NEW formats \in SUBSET FormatKind,
               toServer' = Append(toServer, [type |-> "List", kinds |-> formats])
        PROVE  /\ Without(toServer, "Request") => Without(toServer', "Request")
               /\ \A kinds : AtMostOne(toServer, "Request", kinds) => AtMostOne(toServer', "Request", kinds)
    <3>1. [type |-> "List", kinds |-> formats] \in Sent
      BY Messages
    <3> QED
      BY <1>1, <2>1, <3>1, QueueAppend
  <2>2. CASE toServer # << >> /\ toServer' = Tail(toServer)
    BY <1>1, <2>2, QueueTail
  <2> QED
    BY <2>1, <2>2
<1>3. /\ Without(toClient, "Data") => Without(toClient', "Data")
      /\ \A kinds : AtMostOne(toClient, "Data", kinds) => AtMostOne(toClient', "Data", kinds)
  <2>1. ASSUME NEW m \in Received, m.type # "Data", toClient' = Append(toClient, m)
        PROVE  /\ Without(toClient, "Data") => Without(toClient', "Data")
               /\ \A kinds : AtMostOne(toClient, "Data", kinds) => AtMostOne(toClient', "Data", kinds)
    BY <1>1, <2>1, QueueAppend
  <2>2. CASE toClient # << >> /\ toClient' = Tail(toClient)
    BY <1>1, <2>2, QueueTail
  <2> QED
    BY <2>1, <2>2
<1>4. CASE inflight = None
  <2>1. /\ inflight' = None /\ answer' = None
        /\ Without(toServer', "Request") /\ Without(toClient', "Data")
    BY <1>2, <1>3, <1>4 DEF OneInv, SameRequest
  <2> QED
    BY <2>1 DEF OneInv, AtMostOne, Without
<1>5. CASE inflight # None
  <2>1. inflight' # None /\ inflight'.kind = inflight.kind /\ ~ inflight'.late
    BY <1>5 DEF SameRequest, OneInv
  <2> QED
    BY <1>2, <1>3, <2>1 DEF OneInv
<1> QED
  BY <1>4, <1>5

\* A new request goes out when nothing is pending.
LEMMA OneAsked ==
    ASSUME Types, NEW kind \in FormatKind,
           Without(toServer, "Request"), answer' = None, Without(toClient', "Data"),
           inflight' = [kind |-> kind, stale |-> FALSE, late |-> FALSE],
           toServer' = Append(toServer, [type |-> "Request", kind |-> kind])
    PROVE  OneInv' /\ inflight' # None
<1>1. toServer \in Seq(Sent) /\ [type |-> "Request", kind |-> kind] \in Sent
  BY Messages DEF Types, OutsideTypes
<1>2. inflight' \in Inflight /\ inflight'.kind = kind /\ ~ inflight'.late
  BY DEF Inflight
<1>3. inflight' # None
  BY <1>2, Distinct
<1>4. AtMostOne(toServer', "Request", {kind})
  BY <1>1, QueueAppend
<1>5. AtMostOne(toClient', "Data", {"Error", kind})
  BY DEF Without, AtMostOne
<1> QED
  BY <1>2, <1>3, <1>4, <1>5 DEF OneInv

\* An answer that arrives is the only thing pending, and it is for the tracked request.
LEMMA AnswerIsAlone ==
    ASSUME Types, OneInv, toClient # << >>, Head(toClient).type = "Data"
    PROVE  /\ inflight # None /\ answer = None /\ Without(toServer, "Request")
           /\ Without(Tail(toClient), "Data")
           /\ Head(toClient).kind \in {"Error", inflight.kind}
<1>1. toClient \in Seq(Received)
  BY DEF Types, OutsideTypes
<1>2. /\ ~ Without(toClient, "Data") /\ Without(Tail(toClient), "Data")
      /\ Head(toClient).kind \in {"Error", inflight.kind}
  BY <1>1, QueueTail DEF OneInv
<1> QED
  BY <1>2 DEF OneInv

LEMMA OnePdu ==
    ASSUME Types, StartInv, OneInv, HandlePdu
    PROVE  OneInv'
<1> DEFINE pdu == Head(toClient)
<1>1. PduShape /\ toClient # << >> /\ toClient' = Tail(toClient) /\ answer' = answer
  BY PduTypes
<1>2. pdu.type # "Data" => (Without(toClient, "Data") => Without(toClient', "Data"))
  BY <1>1, QueueTail DEF Types, OutsideTypes
<1>3. CASE pdu.type = "MonitorReady" /\ \E formats \in SUBSET FormatKind : Offer(formats)
  BY <1>1, <1>3, RequestIsKept, OneQuiet DEF Offer
<1>4. CASE pdu.type = "List" /\ Ignored
  <2>1. SameRequest /\ UNCHANGED toServer
    BY <1>4 DEF Ignored, SameRequest
  <2> QED
    BY <1>1, <1>4, <2>1, OneQuiet
<1>5. CASE pdu.type = "List" /\ Accepted(pdu)
  <2>1. CASE inflight' = superseded /\ UNCHANGED toServer
    BY <1>1, <1>5, <2>1, RequestIsKept, OneQuiet
  <2>2. CASE inflight = None
    <3>1. Without(toServer, "Request") /\ answer' = None /\ Without(toClient', "Data")
      BY <1>1, <1>2, <1>5, <2>2 DEF OneInv
    <3> QED
      BY <1>5, <2>1, <3>1, OneAsked DEF Accepted
  <2> QED
    BY <1>5, <2>1, <2>2 DEF Accepted
<1>6. CASE pdu.type = "Data"
  <2>1. /\ inflight # None /\ answer' = None /\ Without(toServer, "Request")
        /\ Without(toClient', "Data")
    BY <1>1, <1>6, AnswerIsAlone
  <2>2. PICK f \in Option(Fetch) : Finished(f) \/ Asked(f)
    BY <1>1, <1>6, <2>1 DEF PduShape, Taken
  <2>3. CASE Finished(f)
    <3>1. inflight' = None /\ toServer' = toServer
      BY <2>3 DEF Finished
    <3> QED
      BY <2>1, <3>1 DEF OneInv, AtMostOne, Without
  <2>4. CASE Asked(f)
    BY <2>1, <2>4, OneAsked DEF Asked
  <2> QED
    BY <2>2, <2>3, <2>4
<1> QED
  BY <1>1, <1>3, <1>4, <1>5, <1>6 DEF PduShape

LEMMA OneStep ==
    ASSUME Types, StartInv, OneInv, [Next]_vars, ~ SlowServer
    PROVE  OneInv'
<1>0. toServer \in Seq(Sent) /\ toClient \in Seq(Received)
  BY DEF Types, OutsideTypes
<1>1. CASE HandleCommand
  <2>1. CommandShape /\ UNCHANGED << toClient, answer >>
    BY <1>1, CommandTypes
  <2>2. CASE Silent
    <3>1. SameRequest /\ UNCHANGED toServer
      BY <2>2 DEF Silent, SameRequest
    <3> QED
      BY <2>1, <3>1, OneQuiet
  <2>3. ASSUME NEW formats \in SUBSET FormatKind, Offer(formats)
        PROVE  OneInv'
    BY <2>1, <2>3, RequestIsKept, OneQuiet DEF Offer
  <2> QED
    BY <2>1, <2>2, <2>3 DEF CommandShape
<1>2. CASE HandlePdu
  BY <1>2, OnePdu
<1>3. CASE UNCHANGED << inflight, toServer, toClient, answer >>
  BY <1>3 DEF OneInv
<1>4. CASE Tick
  <2>1. inflight' = inflight
    BY <1>4 DEF Tick, on_tick, OneInv
  <2> QED
    BY <1>3, <1>4, <2>1 DEF Tick, remote
<1>5. CASE PumpTick \/ WritePasteboard \/ EchoWindowEnds \/ FetchTimesOut \/ UNCHANGED vars
  BY <1>3, <1>5 DEF PumpTick, WritePasteboard, EchoWindowEnds, FetchTimesOut, vars, sync, remote
<1>6. ASSUME \/ \E contents \in LocalCopies : UserCopies(contents)
             \/ \E gained \in BOOLEAN : AppFocus(gained)
             \/ \E level \in ClipboardPrefs : AppPrefs(level)
      PROVE  OneInv'
  BY <1>3, <1>6 DEF UserCopies, AppFocus, AppPrefs, sync, remote
<1>7. ASSUME NEW kinds \in RemoteFormats, NEW val \in Values, ServerCopies(kinds, val)
      PROVE  OneInv'
  <2> DEFINE m == [type |-> "List", kinds |-> kinds, of |-> server']
  <2>1. server' \in Option(Copy) /\ kinds \in SUBSET (FormatKind \cup {"Other"})
    BY <1>7, ClipboardAssumption DEF ServerCopies, Copy, Option
  <2>2. m \in Received /\ m.type # "Data" /\ toClient' = Append(toClient, m)
    BY <1>7, <2>1, Messages DEF ServerCopies
  <2>3. SameRequest /\ UNCHANGED << toServer, answer >>
    BY <1>7 DEF ServerCopies, sync, SameRequest
  <2> HIDE DEF m
  <2> QED
    BY <2>2, <2>3, OneQuiet
<1>8. CASE ServerTakesList
  <2> DEFINE m == [type |-> "List", kinds |-> Head(toServer).kinds, of |-> None]
  <2>1. Head(toServer).kinds \in SUBSET (FormatKind \cup {"Other"}) /\ None \in Option(Copy)
    BY <1>0, <1>8, Queues, MessageFields DEF ServerTakesList, Option
  <2>2. m \in Received /\ m.type # "Data"
    BY <2>1, Messages
  <2>3. /\ toServer # << >> /\ Head(toServer).type # "Request" /\ toServer' = Tail(toServer)
        /\ toClient' = toClient \/ toClient' = Append(toClient, m)
        /\ UNCHANGED answer /\ SameRequest
    BY <1>8 DEF ServerTakesList, sync, SameRequest
  <2> HIDE DEF m
  <2> QED
    BY <2>2, <2>3, OneQuiet
<1>9. CASE ServerLooks
  <2>1. /\ toServer # << >> /\ Head(toServer).type = "Request" /\ toServer' = Tail(toServer)
        /\ answer' # None => answer'.kind \in {"Error", Head(toServer).kind}
        /\ UNCHANGED << inflight, toClient >>
    BY <1>9 DEF ServerLooks, sync
  <2>2. /\ ~ Without(toServer, "Request") /\ Without(toServer', "Request")
        /\ Head(toServer).kind \in {inflight.kind}
    BY <1>0, <2>1, QueueTail DEF OneInv
  <2>3. inflight # None /\ answer = None /\ Without(toClient, "Data")
    BY <2>2 DEF OneInv
  <2>4. AtMostOne(toServer', "Request", {inflight.kind})
    BY <2>2 DEF AtMostOne, Without
  <2> QED
    BY <2>1, <2>2, <2>3, <2>4 DEF OneInv
<1>10. CASE ServerAnswers
  <2>1. /\ answer # None /\ answer' = None /\ toClient' = Append(toClient, answer)
        /\ UNCHANGED << inflight, toServer >>
    BY <1>10 DEF ServerAnswers, sync
  <2>2. answer \in Received /\ answer.type = "Data"
    BY <2>1, Messages DEF Types, OutsideTypes, Option
  <2>3. /\ inflight # None /\ Without(toServer, "Request") /\ Without(toClient, "Data")
        /\ answer.kind \in {"Error", inflight.kind}
    BY <2>1 DEF OneInv
  <2>4. AtMostOne(toClient', "Data", {"Error", inflight.kind})
    BY <1>0, <2>1, <2>2, <2>3, QueueAppend
  <2> QED
    BY <2>1, <2>3, <2>4 DEF OneInv
<1> QED
  BY <1>1, <1>2, <1>4, <1>5, <1>6, <1>7, <1>8, <1>9, <1>10 DEF Next

-----------------------------------------------------------------------------
(* What the answers carry, with a server that answers in time.             *)

Live == announced # None /\ ~ announced.missed
Awaited == inflight # None /\ ~ inflight.stale
InCopy(item) == announced.copy # None /\ item \in ItemsOf(announced.copy)
Right(data) ==
    \/ data.kind = "Error"
    \/ /\ announced.copy # None
       /\ data.kind \in announced.copy.kinds
       /\ data.val = announced.copy.val

\* Nothing the session has announced is behind, or ahead of, a place in the server's queue.
LastList(i) == \A j \in DOMAIN toClient : i < j => toClient[j].type # "List"
NoListBefore(i) == \A j \in DOMAIN toClient : j < i => toClient[j].type # "List"

\* A list overtakes no answer: until the next list arrives, the server has the announced
\* copy or nothing, and its answer to a request that is not stale comes from that copy.
FreshInv ==
    /\ fetch # None => announced # None
    /\ Live /\ fetch # None => \A item \in fetch.items : InCopy(item)
    /\ Live /\ Without(toClient, "List") => server \in {None, announced.copy}
    /\ \A i \in DOMAIN toClient :
          toClient[i].type = "List" /\ LastList(i) => server \in {None, toClient[i].of}
    /\ Live /\ Awaited /\ answer # None /\ Without(toClient, "List") => Right(answer)
    /\ Live /\ Awaited => \A i \in DOMAIN toClient :
          toClient[i].type = "Data" /\ NoListBefore(i) => Right(toClient[i])

LEMMA FreshInit == Init => FreshInv
<1> SUFFICES ASSUME Init
             PROVE  FreshInv
  OBVIOUS
<1>1. toClient = << [type |-> "MonitorReady"] >> /\ announced = None /\ fetch = None
  BY DEF Init
<1>2. DOMAIN toClient = {1} /\ toClient[1].type = "MonitorReady"
  BY <1>1
<1> QED
  BY <1>1, <1>2 DEF FreshInv, Live

\* The lists that are left after the first PDU still end with what the server has.
LEMMA ListsTail ==
    ASSUME Types, FreshInv, toClient # << >>, toClient' = Tail(toClient), server' = server
    PROVE  \A i \in DOMAIN toClient' :
             toClient'[i].type = "List" /\ LastList(i)' => server' \in {None, toClient'[i].of}
<1>1. /\ DOMAIN toClient = 1 .. Len(toClient) /\ Len(toClient) \in Nat
      /\ DOMAIN toClient' = 1 .. Len(toClient) - 1
      /\ \A i \in DOMAIN toClient' : toClient'[i] = toClient[i + 1] /\ i + 1 \in DOMAIN toClient
  BY Queues DEF Types, OutsideTypes
<1>2. SUFFICES ASSUME NEW i \in DOMAIN toClient', toClient'[i].type = "List", LastList(i)'
               PROVE  server \in {None, toClient'[i].of}
  OBVIOUS
<1>3. LastList(i + 1)
  <2>1. SUFFICES ASSUME NEW j \in DOMAIN toClient, i + 1 < j
                 PROVE  toClient[j].type # "List"
    BY DEF LastList
  <2>2. j - 1 \in DOMAIN toClient' /\ i < j - 1 /\ (j - 1) + 1 = j
    BY <1>1, <2>1
  <2>3. toClient'[j - 1] = toClient[j]
    BY <1>1, <2>2
  <2> QED
    BY <1>2, <2>2, <2>3 DEF LastList
<1> QED
  BY <1>1, <1>2, <1>3 DEF FreshInv

\* Whatever ends the announcement ends the fetch with it.
LEMMA FreshForgotten ==
    ASSUME Types, FreshInv, announced' = None, fetch' = None, server' = server,
           toClient' = toClient \/ (toClient # << >> /\ toClient' = Tail(toClient))
    PROVE  FreshInv'
<1>1. CASE toClient' = toClient
  BY <1>1 DEF FreshInv, Live, LastList
<1>2. CASE toClient # << >> /\ toClient' = Tail(toClient)
  <2>1. \A i \in DOMAIN toClient' :
           toClient'[i].type = "List" /\ LastList(i)' => server' \in {None, toClient'[i].of}
    BY <1>2, ListsTail
  <2> QED
    BY <2>1 DEF FreshInv, Live
<1> QED
  BY <1>1, <1>2

\* Decoding the right payload gives an item of the copy.
LEMMA DecodeRight ==
    ASSUME Types, Live, NEW kind \in FormatKind, NEW data \in Data, Right(data), data.kind = kind
    PROVE  \A item \in decode_inbound(kind, data) : InCopy(item)
<1>1. /\ announced.copy # None /\ kind \in announced.copy.kinds \cap FormatKind
      /\ data.val = announced.copy.val
  BY DEF Right, FormatKind
<1>2. decode_inbound(kind, data) = decode_inbound(kind, [kind |-> kind, val |-> announced.copy.val])
  BY <1>1 DEF decode_inbound
<1> QED
  BY <1>1, <1>2 DEF InCopy, ItemsOf

\* The answer at the head is for the tracked request, and no list came before it.
LEMMA ItemsAreRight ==
    ASSUME Types, OneInv, FreshInv, Live, fetch # None,
           toClient # << >>, Head(toClient).type = "Data", NEW items,
           items \subseteq fetch.items
              \cup IF inflight.stale \/ Head(toClient).kind = "Error" THEN {}
                   ELSE decode_inbound(inflight.kind, Head(toClient))
    PROVE  \A item \in items : InCopy(item)
<1> DEFINE data == Head(toClient)
<1>1. /\ 1 \in DOMAIN toClient /\ toClient[1] = data /\ data \in Received
      /\ \A j \in DOMAIN toClient : ~ (j < 1)
  BY Queues DEF Types, OutsideTypes
<1>2. data \in Data
  BY <1>1, MessageFields
<1>3. inflight # None /\ data.kind \in {"Error", inflight.kind}
  BY AnswerIsAlone
<1>4. \A item \in fetch.items : InCopy(item)
  BY DEF FreshInv
<1> HIDE DEF data
<1>5. CASE inflight.stale \/ data.kind = "Error"
  BY <1>4, <1>5 DEF data
<1>6. CASE ~ inflight.stale /\ data.kind # "Error"
  <2>1. Right(data)
    BY <1>1, <1>3, <1>6 DEF FreshInv, Awaited, NoListBefore, data
  <2>2. inflight.kind \in FormatKind
    BY <1>3 DEF Types, SessionTypes, Option, Inflight
  <2>3. \A item \in decode_inbound(inflight.kind, data) : InCopy(item)
    BY <1>2, <1>3, <1>6, <2>1, <2>2, DecodeRight
  <2> QED
    BY <1>4, <1>6, <2>3 DEF data
<1> QED
  BY <1>5, <1>6

LEMMA FreshPdu ==
    ASSUME Types, StartInv, OneInv, FreshInv, HandlePdu, Types'
    PROVE  FreshInv'
<1> DEFINE pdu == Head(toClient)
<1>1. PduShape /\ toClient # << >> /\ toClient' = Tail(toClient) /\ UNCHANGED << answer, server >>
  BY PduTypes
<1>2. toClient \in Seq(Received)
  BY DEF Types, OutsideTypes
<1>3. \A i \in DOMAIN toClient' :
         toClient'[i].type = "List" /\ LastList(i)' => server' \in {None, toClient'[i].of}
  BY <1>1, ListsTail
<1>4. CASE \E formats \in SUBSET FormatKind : Offer(formats)
  BY <1>1, <1>4, FreshForgotten DEF Offer
<1>5. CASE Ignored
  <2>1. fetch' = fetch /\ announced' = IF announced = None THEN None ELSE [announced EXCEPT !.missed = TRUE]
    BY <1>5 DEF Ignored
  <2>2. CASE announced = None
    BY <1>1, <2>1, <2>2, FreshForgotten DEF FreshInv
  <2>3. CASE announced # None
    <3>1. announced \in Announced
      BY <2>3 DEF Types, SessionTypes, Option
    <3>2. announced' \in Announced /\ announced'.missed = TRUE
      BY <2>1, <2>3, <3>1 DEF Announced
    <3>3. announced' # None /\ ~ Live'
      BY <3>2, Distinct DEF Live
    <3> QED
      BY <1>3, <3>3 DEF FreshInv
  <2> QED
    BY <2>2, <2>3
<1>6. CASE pdu.type = "List" /\ Accepted(pdu)
  <2>1. announced' = [copy |-> pdu.of, missed |-> FALSE] /\ announced'.copy = pdu.of
    BY <1>6 DEF Accepted
  <2>2. announced' # None
    <3>1. pdu.of \in Option(Copy)
      BY <1>1, <1>2, <1>6, Queues, MessageFields
    <3>2. announced' \in Announced
      BY <2>1, <3>1 DEF Announced
    <3> QED
      BY <3>2, Distinct
  <2>3. fetch' # None => fetch'.items = {}
    BY <1>6 DEF Accepted
  <2>4. Without(toClient', "List") => server' \in {None, announced'.copy}
    <3>1. SUFFICES ASSUME Without(toClient', "List")
                   PROVE  server \in {None, pdu.of}
      BY <1>1, <2>1
    <3>2. /\ 1 \in DOMAIN toClient /\ toClient[1] = pdu
          /\ \A j \in DOMAIN toClient : 1 < j => j - 1 \in DOMAIN toClient' /\ toClient'[j - 1] = toClient[j]
      <4>1. /\ DOMAIN toClient = 1 .. Len(toClient) /\ Len(toClient) \in Nat
            /\ DOMAIN toClient' = 1 .. Len(toClient) - 1
            /\ \A i \in DOMAIN toClient' : toClient'[i] = toClient[i + 1]
            /\ 1 \in DOMAIN toClient /\ toClient[1] = pdu
        BY <1>1, <1>2, Queues
      <4>2. ASSUME NEW j \in DOMAIN toClient, 1 < j
            PROVE  j - 1 \in DOMAIN toClient' /\ toClient'[j - 1] = toClient[j]
        <5>1. j - 1 \in DOMAIN toClient' /\ (j - 1) + 1 = j
          BY <4>1, <4>2
        <5>2. toClient'[j - 1] = toClient[(j - 1) + 1]
          BY <4>1, <5>1
        <5> QED
          BY <5>1, <5>2
      <4> QED
        BY <4>1, <4>2
    <3>3. LastList(1)
      BY <3>1, <3>2 DEF LastList, Without
    <3> QED
      BY <1>6, <3>2, <3>3 DEF FreshInv
  <2>5. \/ ~ Awaited'
        \/ answer' = None /\ Without(toClient', "Data")
    <3>1. CASE inflight = None
      BY <1>1, <1>2, <3>1, QueueTail DEF OneInv
    <3>2. CASE inflight # None
      <4>1. inflight' = superseded
        BY <1>6, <3>2 DEF Accepted
      <4> QED
        BY <3>2, <4>1, RequestIsKept DEF Awaited
    <3> QED
      BY <3>1, <3>2
  <2> QED
    BY <1>3, <2>2, <2>3, <2>4, <2>5 DEF FreshInv, Without
<1>7. CASE pdu.type = "Data"
  <2>1. inflight # None /\ answer' = None /\ Without(toClient', "Data")
    BY <1>1, <1>7, AnswerIsAlone
  <2>2. Taken(pdu)
    BY <1>1, <1>7, <2>1 DEF PduShape
  <2>3. announced' = announced
    BY <2>2 DEF Taken
  <2>4. PICK f \in Option(Fetch) :
           /\ f # None => /\ fetch # None
                          /\ f.items \subseteq fetch.items
                               \cup IF inflight.stale \/ pdu.kind = "Error" THEN {}
                                    ELSE decode_inbound(inflight.kind, pdu)
           /\ Finished(f) \/ Asked(f)
    BY <2>2 DEF Taken
  <2>5. fetch' # None => f # None /\ fetch'.items = f.items
    BY <2>4 DEF Finished, Asked
  <2>6. fetch' # None => announced' # None
    BY <2>3, <2>4, <2>5 DEF FreshInv
  <2>7. ASSUME Live', fetch' # None
        PROVE  \A item \in fetch'.items : InCopy(item)'
    <3>1. Live
      BY <2>3, <2>7 DEF Live
    <3>2. \A item \in f.items : InCopy(item)
      BY <1>1, <1>7, <2>4, <2>5, <2>7, <3>1, ItemsAreRight
    <3> QED
      BY <2>3, <2>5, <2>7, <3>2 DEF InCopy
  <2>8. Live' /\ Without(toClient', "List") => server' \in {None, announced'.copy}
    <3>1. Without(toClient', "List") => Without(toClient, "List")
      BY <1>1, <1>2, <1>7, QueueTail
    <3> QED
      BY <1>1, <2>3, <3>1 DEF FreshInv, Live
  <2> QED
    BY <1>3, <2>1, <2>6, <2>7, <2>8 DEF FreshInv, Without
<1> QED
  BY <1>1, <1>4, <1>5, <1>6, <1>7 DEF PduShape

\* A list behind the others: the newest, and the server has what it says.
LEMMA FreshList ==
    ASSUME Types, FreshInv, NEW m \in Received, m.type = "List", toClient' = Append(toClient, m),
           server' \in {None, m.of}, UNCHANGED << fetch, announced, inflight, answer >>
    PROVE  FreshInv'
<1>1. toClient \in Seq(Received)
  BY DEF Types, OutsideTypes
<1>2. /\ DOMAIN toClient \subseteq DOMAIN toClient'
      /\ \A i \in DOMAIN toClient : toClient'[i] = toClient[i] /\ i < Len(toClient) + 1
      /\ Len(toClient) + 1 \in DOMAIN toClient' /\ toClient'[Len(toClient) + 1] = m
      /\ \A i \in DOMAIN toClient' : i \in DOMAIN toClient \/ i = Len(toClient) + 1
  BY <1>1, Queues, Appending
<1>3. ~ Without(toClient', "List")
  BY <1>2 DEF Without
<1>4. ASSUME NEW i \in DOMAIN toClient', LastList(i)'
      PROVE  toClient'[i] = m
  BY <1>2, <1>4 DEF LastList
<1>5. ASSUME NEW i \in DOMAIN toClient', toClient'[i].type = "Data", NoListBefore(i)'
      PROVE  i \in DOMAIN toClient /\ toClient[i].type = "Data" /\ NoListBefore(i)
  BY <1>2, <1>5 DEF NoListBefore
<1> QED
  BY <1>2, <1>3, <1>4, <1>5 DEF FreshInv, Live, Awaited, InCopy, Right

LEMMA FreshStep ==
    ASSUME Types, StartInv, OneInv, FreshInv, [Next]_vars, ~ SlowServer
    PROVE  FreshInv'
<1>0. toServer \in Seq(Sent) /\ toClient \in Seq(Received) /\ Types'
  BY TypesStep DEF Types, OutsideTypes
<1>1. CASE UNCHANGED << fetch, announced, inflight, answer, server, toClient >>
  BY <1>1 DEF FreshInv, Live, Awaited, InCopy, Right, LastList, NoListBefore
<1>2. CASE HandleCommand
  <2>1. CommandShape /\ UNCHANGED << toClient, answer, server >>
    BY <1>2, CommandTypes
  <2> QED
    BY <1>1, <2>1, FreshForgotten DEF CommandShape, Silent, Offer
<1>3. CASE HandlePdu
  BY <1>0, <1>3, FreshPdu
<1>4. CASE Tick
  <2>1. UNCHANGED << fetch, inflight >>
    BY <1>4 DEF Tick, on_tick, OneInv
  <2> QED
    BY <1>1, <1>4, <2>1 DEF Tick, remote
<1>5. CASE PumpTick \/ WritePasteboard \/ EchoWindowEnds \/ FetchTimesOut \/ UNCHANGED vars
  BY <1>1, <1>5 DEF PumpTick, WritePasteboard, EchoWindowEnds, FetchTimesOut, vars, sync, remote
<1>6. ASSUME \/ \E contents \in LocalCopies : UserCopies(contents)
             \/ \E gained \in BOOLEAN : AppFocus(gained)
             \/ \E level \in ClipboardPrefs : AppPrefs(level)
      PROVE  FreshInv'
  BY <1>1, <1>6 DEF UserCopies, AppFocus, AppPrefs, sync, remote
<1>7. ASSUME NEW kinds \in RemoteFormats, NEW val \in Values, ServerCopies(kinds, val)
      PROVE  FreshInv'
  <2> DEFINE m == [type |-> "List", kinds |-> kinds, of |-> server']
  <2>1. server' \in Option(Copy) /\ kinds \in SUBSET (FormatKind \cup {"Other"})
    BY <1>7, ClipboardAssumption DEF ServerCopies, Copy, Option
  <2>2. m \in Received /\ m.type = "List" /\ m.of = server' /\ toClient' = Append(toClient, m)
    BY <1>7, <2>1, Messages DEF ServerCopies
  <2>3. UNCHANGED << fetch, announced, inflight, answer >>
    BY <1>7 DEF ServerCopies, sync
  <2> HIDE DEF m
  <2> QED
    BY <2>2, <2>3, FreshList
<1>8. CASE ServerTakesList
  <2> DEFINE m == [type |-> "List", kinds |-> Head(toServer).kinds, of |-> None]
  <2>1. Head(toServer).kinds \in SUBSET (FormatKind \cup {"Other"}) /\ None \in Option(Copy)
    BY <1>0, <1>8, Queues, MessageFields DEF ServerTakesList, Option
  <2>2. m \in Received /\ m.type = "List" /\ m.of = None
    BY <2>1, Messages
  <2>3. /\ server' = None /\ UNCHANGED << fetch, announced, inflight, answer >>
        /\ toClient' = toClient \/ toClient' = Append(toClient, m)
    BY <1>8 DEF ServerTakesList, sync
  <2> HIDE DEF m
  <2>4. CASE toClient' = toClient
    BY <2>3, <2>4 DEF FreshInv, Live, Awaited, InCopy, Right, LastList, NoListBefore
  <2> QED
    BY <2>2, <2>3, <2>4, FreshList
<1>9. CASE ServerLooks
  <2>1. /\ UNCHANGED << fetch, announced, inflight, server, toClient >>
        /\ \/ answer'.kind = "Error"
           \/ server # None /\ answer'.kind \in server.kinds /\ answer'.val = server.val
    BY <1>9 DEF ServerLooks, sync
  <2>2. Live' /\ Without(toClient', "List") => Right(answer)'
    BY <2>1 DEF FreshInv, Live, Right
  <2> QED
    BY <2>1, <2>2 DEF FreshInv, Live, Awaited, InCopy, Right, LastList, NoListBefore
<1>10. CASE ServerAnswers
  <2>1. /\ answer # None /\ answer' = None /\ toClient' = Append(toClient, answer)
        /\ UNCHANGED << fetch, announced, inflight, server >>
    BY <1>10 DEF ServerAnswers, sync
  <2>2. answer \in Received /\ answer.type = "Data"
    BY <2>1, Messages DEF Types, OutsideTypes, Option
  <2>3. /\ DOMAIN toClient \subseteq DOMAIN toClient'
        /\ \A i \in DOMAIN toClient : toClient'[i] = toClient[i] /\ i < Len(toClient) + 1
        /\ toClient'[Len(toClient) + 1] = answer
        /\ \A i \in DOMAIN toClient' : i \in DOMAIN toClient \/ i = Len(toClient) + 1
    BY <1>0, <2>1, <2>2, Queues, Appending
  <2>4. Without(toClient', "List") => Without(toClient, "List")
    BY <2>3 DEF Without
  <2>5. ASSUME NEW i \in DOMAIN toClient', toClient'[i].type = "List", LastList(i)'
        PROVE  server' \in {None, toClient'[i].of}
    <3>1. i \in DOMAIN toClient /\ toClient'[i] = toClient[i] /\ LastList(i)
      BY <2>2, <2>3, <2>5 DEF LastList
    <3> QED
      BY <2>1, <2>5, <3>1 DEF FreshInv
  <2>6. ASSUME Live', Awaited', NEW i \in DOMAIN toClient', toClient'[i].type = "Data", NoListBefore(i)'
        PROVE  Right(toClient[i])'
    <3>1. Live /\ Awaited
      BY <2>1, <2>6 DEF Live, Awaited
    <3>2. CASE i \in DOMAIN toClient
      <4>1. toClient'[i] = toClient[i] /\ NoListBefore(i)
        BY <2>3, <2>6, <3>2 DEF NoListBefore
      <4> QED
        BY <2>1, <2>6, <3>1, <3>2, <4>1 DEF FreshInv, Right
    <3>3. CASE i = Len(toClient) + 1
      <4>1. Without(toClient, "List") /\ toClient'[i] = answer
        BY <2>3, <2>6, <3>3 DEF NoListBefore, Without
      <4> QED
        BY <2>1, <3>1, <4>1 DEF FreshInv, Right
    <3> QED
      BY <2>3, <3>2, <3>3
  <2> QED
    BY <2>1, <2>4, <2>5, <2>6 DEF FreshInv, Live, InCopy
<1> QED
  BY <1>2, <1>3, <1>4, <1>5, <1>6, <1>7, <1>8, <1>9, <1>10 DEF Next

WrittenStep ==
    Len(writes') > Len(writes) =>
        /\ announced # None
        /\ \/ announced.missed
           \/ announced.copy # None /\ writes'[Len(writes')] \subseteq ItemsOf(announced.copy)

LEMMA WritesAreRight ==
    ASSUME Types, StartInv, OneInv, FreshInv, [Next]_vars
    PROVE  WrittenStep
<1>1. /\ writes \in Seq(SUBSET Items) /\ Len(writes) \in Nat
      /\ writes # << >> => Len(Tail(writes)) = Len(writes) - 1
  BY DEF Types, OutsideTypes
<1>2. CASE UNCHANGED writes
  BY <1>1, <1>2 DEF WrittenStep
<1>3. CASE HandleCommand
  BY <1>2, <1>3, CommandTypes DEF CommandShape
<1>4. CASE Outside
  BY <1>1, <1>4 DEF Outside, WrittenStep
<1>5. CASE HandlePdu
  <2>1. PduShape /\ toClient # << >>
    BY <1>5, PduTypes
  <2> DEFINE pdu == Head(toClient)
  <2>2. CASE Ignored \/ Accepted(pdu) \/ UNCHANGED << sync, writes, toServer, announced >>
    BY <1>2, <2>2 DEF Ignored, Accepted
  <2>3. CASE pdu.type = "Data" /\ Taken(pdu)
    <3>1. PICK f \in Option(Fetch) :
             /\ f # None => /\ fetch # None
                            /\ f.items \subseteq fetch.items
                                 \cup IF inflight.stale \/ pdu.kind = "Error" THEN {}
                                      ELSE decode_inbound(inflight.kind, pdu)
             /\ Finished(f) \/ Asked(f)
      BY <2>3 DEF Taken
    <3>2. CASE f # None /\ f.items # {} /\ writes' = Append(writes, f.items)
      <4>1. f.items \in SUBSET Items
        BY <3>2 DEF Option, Fetch
      <4>2. writes'[Len(writes')] = f.items
        BY <1>1, <3>2, <4>1, Appending
      <4>3. announced # None
        BY <3>1, <3>2 DEF FreshInv
      <4>4. ~ announced.missed => \A item \in f.items : InCopy(item)
        BY <2>1, <2>3, <3>1, <3>2, <4>3, ItemsAreRight DEF Live
      <4> QED
        BY <3>2, <4>2, <4>3, <4>4 DEF WrittenStep, InCopy
    <3> QED
      BY <1>2, <3>1, <3>2 DEF Finished, Asked
  <2> QED
    BY <1>2, <2>1, <2>2, <2>3 DEF PduShape
<1> QED
  BY <1>3, <1>4, <1>5, OutsideSteps

\* sync.rs:18-20: with a server that answers in time, what is written to the pasteboard is
\* the announced copy, whole or in part, and never parts of two, whatever was copied,
\* announced, superseded or clicked on meanwhile.
THEOREM WritesAreAnnounced ==
    ASSUME ~ SlowServer
    PROVE  Spec => WrittenIsAnnounced
<1>1. SyncInv /\ OneInv /\ FreshInv /\ [Next]_vars => OneInv' /\ FreshInv'
  BY OneStep, FreshStep DEF SyncInv
<1>2. Spec => [](OneInv /\ FreshInv)
  BY <1>1, OneInit, FreshInit, SyncInvariant, PTL DEF Spec
<1>3. SyncInv /\ OneInv /\ FreshInv /\ [Next]_vars => [WrittenStep]_vars
  BY WritesAreRight DEF SyncInv
<1>4. WrittenIsAnnounced <=> [][WrittenStep]_vars
  BY PTL DEF WrittenIsAnnounced, WrittenStep
<1> QED
  BY <1>2, <1>3, <1>4, SyncInvariant, PTL DEF Spec
================================================================================
