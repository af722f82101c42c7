--------------------------- MODULE ServicesProofs ---------------------------
(***************************************************************************)
(* Proofs about the services around the sessions, for any windows, delay   *)
(* and bounds.  ReconnectTriggers: once the network is back, no session is *)
(* left believing that it is down, whichever thread ran first.             *)
(* ClipboardPump: after a tick that nothing overtook, every session that   *)
(* syncs knows the newest copy.  Shell: once the main thread is idle,      *)
(* menus, gallery, title bars, keyboard owners and previews agree with the *)
(* sessions.                                                               *)
(***************************************************************************)
EXTENDS ReconnectTriggers, ClipboardPump, Shell, SequenceTheorems, TLAPS

Up == "NetworkReachable(true)"
Down == "NetworkReachable(false)"

-----------------------------------------------------------------------------
(* Types.                                                                  *)

ThreadState == [action : TriggerAction \cup {NoAction}, sends : [Windows -> Seq(Command)]]

LEMMA SequenceFacts ==
    ASSUME NEW S, NEW q \in Seq(S), q # <<>>
    PROVE  /\ Head(q) \in S /\ Tail(q) \in Seq(S) /\ Len(q) \in Nat
           /\ Head(q) = q[1] /\ 1 \in 1 .. Len(q) /\ Len(Tail(q)) = Len(q) - 1
           /\ \A i \in 1 .. Len(Tail(q)) : Tail(q)[i] = q[i + 1]
OBVIOUS

LEMMA ActorTypes ==
    ASSUME NEW a \in Actor
    PROVE  /\ \A b \in BOOLEAN : [a EXCEPT !.reachable = b] \in Actor
           /\ \A p \in Phase : [a EXCEPT !.phase = p] \in Actor
           /\ \A q \in Seq(Command) : [a EXCEPT !.queue = q] \in Actor
           /\ \A p \in Phase, b \in BOOLEAN : [a EXCEPT !.phase = p, !.activated = b] \in Actor
           /\ \A p \in Phase, b \in BOOLEAN : [a EXCEPT !.phase = p, !.deadline = b] \in Actor
           /\ \A p \in Phase, b \in BOOLEAN : [a EXCEPT !.phase = p, !.reachable = b] \in Actor
           /\ a.live \in BOOLEAN /\ a.reachable \in BOOLEAN /\ a.queue \in Seq(Command)
           /\ a.phase \in Phase /\ a.generation \in Nat
BY DEF Actor

LEMMA FreshActor ==
    ASSUME NEW n \in Nat
    PROVE  /\ [NoActor EXCEPT !.live = TRUE, !.phase = "starting", !.generation = n] \in Actor
           /\ [NoActor EXCEPT !.generation = n] \in Actor
           /\ NoActor \in Actor
<1>1. TRUE \in BOOLEAN /\ FALSE \in BOOLEAN /\ <<>> \in Seq(Command)
  OBVIOUS
<1>2. NoActor \in Actor
  BY <1>1 DEF NoActor, Actor, Phase
<1>3. \A a \in Actor : /\ [a EXCEPT !.live = TRUE, !.phase = "starting", !.generation = n] \in Actor
                       /\ [a EXCEPT !.generation = n] \in Actor
  BY <1>1 DEF Actor, Phase
<1> QED
  BY <1>2, <1>3

\* What a command leaves of an actor that reads it.
LEMMA ReadTypes ==
    ASSUME NEW a \in Actor, a.queue # <<>>
    PROVE  /\ Pop(a) \in Actor /\ Head(a.queue) \in Command
           /\ Reach(Pop(a), Head(a.queue)) \in Actor
           /\ Pop(a).reachable = a.reachable
<1>1. Head(a.queue) \in Command /\ Tail(a.queue) \in Seq(Command)
  BY ActorTypes, SequenceFacts
<1>2. Pop(a) \in Actor /\ Pop(a).reachable = a.reachable
  BY <1>1 DEF Pop, Actor
<1>3. Reach(Pop(a), Head(a.queue)) \in Actor
  BY <1>2, ActorTypes DEF Reach
<1> QED
  BY <1>1, <1>2, <1>3

-----------------------------------------------------------------------------
(* The inductive invariant.  Only the path monitor's thread ever says      *)
(* Down, and it is serial: when the merger goes online that thread has     *)
(* sent every Down, and its RetryNow has yet to be fanned out.             *)

\* The path thread is about to tell w that the network is up.
UpToCome(w) ==
    \/ threads["path"].action = "RetryNow"
    \/ \E i \in 1 .. Len(threads["path"].sends[w]) : threads["path"].sends[w][i] = Up

\* Behind every Down the actor has not read there is an Up, and so there is if it believes one.
Settles(a) ==
    /\ \A i \in 1 .. Len(a.queue) :
          a.queue[i] = Down => \E j \in 1 .. Len(a.queue) : j > i /\ a.queue[j] = Up
    /\ ~a.reachable => \E j \in 1 .. Len(a.queue) : a.queue[j] = Up

\* A thread that says no Down.
SaysNoDown(t) ==
    /\ threads[t].action # "PauseReconnect"
    /\ \A w \in Windows : \A i \in 1 .. Len(threads[t].sends[w]) : threads[t].sends[w][i] # Down

\* A session is told, or has been.
Informed(w) == actors[w].live /\ ~lost[w] => UpToCome(w) \/ Settles(actors[w])

NewsInv ==
    /\ \A t \in Thread : threads[t].action # NoAction => \A w \in Windows : threads[t].sends[w] = <<>>
    /\ SaysNoDown("main")
    /\ ~merger.online => merger.last_retry = Never
    /\ \A w \in Windows : actors[w].phase = "starting" => actors[w].reachable
    /\ merger.online => SaysNoDown("path") /\ \A w \in Windows : Informed(w)

TriggersInv == TriggersTypeOK /\ NewsInv

\* Settling only depends on the queue and the belief.
LEMMA SettlesKept ==
    ASSUME NEW a, NEW b, b.queue = a.queue, b.reachable = a.reachable, Settles(a)
    PROVE  Settles(b)
BY DEF Settles

\* An actor that believes Up may forget any command.
LEMMA DropSettles ==
    ASSUME NEW a \in Actor, a.queue # <<>>, Settles(a),
           NEW b, b.queue = Tail(a.queue),
           \/ b.reachable /\ b.reachable \in BOOLEAN
           \/ b.reachable = a.reachable /\ Head(a.queue) # Up
    PROVE  Settles(b)
<1>1. a.queue \in Seq(Command)
  BY ActorTypes
<1>2. /\ Len(a.queue) \in Nat /\ Head(a.queue) = a.queue[1] /\ Len(b.queue) = Len(a.queue) - 1
      /\ \A i \in 1 .. Len(b.queue) : b.queue[i] = a.queue[i + 1] /\ i + 1 \in 1 .. Len(a.queue)
      /\ \A j \in 1 .. Len(a.queue) : j > 1 => j - 1 \in 1 .. Len(b.queue) /\ b.queue[j - 1] = a.queue[j]
  BY <1>1, SequenceFacts
<1>3. ASSUME NEW i \in 1 .. Len(b.queue), b.queue[i] = Down
      PROVE  \E j \in 1 .. Len(b.queue) : j > i /\ b.queue[j] = Up
  <2>1. PICK j \in 1 .. Len(a.queue) : j > i + 1 /\ a.queue[j] = Up
    BY <1>2, <1>3 DEF Settles
  <2>2. j - 1 \in 1 .. Len(b.queue) /\ b.queue[j - 1] = Up /\ j - 1 > i
    BY <1>2, <2>1
  <2> QED
    BY <2>2
<1>4. ASSUME ~b.reachable
      PROVE  \E j \in 1 .. Len(b.queue) : b.queue[j] = Up
  <2>1. ~a.reachable /\ a.queue[1] # Up
    BY <1>2, <1>4
  <2>2. PICK j \in 1 .. Len(a.queue) : a.queue[j] = Up
    BY <2>1 DEF Settles
  <2>3. j - 1 \in 1 .. Len(b.queue) /\ b.queue[j - 1] = Up
    BY <1>2, <2>1, <2>2
  <2> QED
    BY <2>3
<1> QED
  BY <1>3, <1>4 DEF Settles

LEMMA ReadSettles ==
    ASSUME NEW a \in Actor, a.queue # <<>>, Settles(a)
    PROVE  Settles(Reach(Pop(a), Head(a.queue)))
<1> DEFINE c == Head(a.queue)
           b == Reach(Pop(a), c)
<1>1. Pop(a) \in Actor /\ Pop(a).queue = Tail(a.queue) /\ Pop(a).reachable = a.reachable
  BY ReadTypes DEF Pop, Actor
<1>2. CASE c = Up
  <2>1. b.queue = Tail(a.queue) /\ b.reachable /\ b.reachable \in BOOLEAN
    BY <1>1, <1>2 DEF Reach, Up, Actor
  <2> QED
    BY <2>1, DropSettles
<1>3. CASE c = Down
  <2>1. b.queue = Tail(a.queue) /\ b.reachable = FALSE
    BY <1>1, <1>3 DEF Reach, Down, Actor
  <2>2. a.queue \in Seq(Command)
    BY ActorTypes
  <2>3. 1 \in 1 .. Len(a.queue) /\ a.queue[1] = Down /\ Len(a.queue) \in Nat
    BY <1>3, <2>2, SequenceFacts
  <2>4. PICK j \in 1 .. Len(a.queue) : a.queue[j] = Up
    BY <2>3 DEF Settles
  <2> HIDE DEF b
  <2>5. /\ Len(b.queue) = Len(a.queue) - 1
        /\ \A i \in 1 .. Len(b.queue) : b.queue[i] = a.queue[i + 1] /\ i + 1 \in 1 .. Len(a.queue)
        /\ \A k \in 1 .. Len(a.queue) : k > 1 => k - 1 \in 1 .. Len(b.queue) /\ b.queue[k - 1] = a.queue[k]
    BY <2>1, <2>2, <2>3, SequenceFacts
  <2>6. ASSUME NEW i \in 1 .. Len(b.queue), b.queue[i] = Down
        PROVE  \E k \in 1 .. Len(b.queue) : k > i /\ b.queue[k] = Up
    <3>1. PICK k \in 1 .. Len(a.queue) : k > i + 1 /\ a.queue[k] = Up
      BY <2>5, <2>6 DEF Settles
    <3>2. k - 1 \in 1 .. Len(b.queue) /\ b.queue[k - 1] = Up /\ k - 1 > i
      BY <2>3, <2>5, <3>1
    <3> QED
      BY <3>2
  <2>7. j > 1
    BY <2>3, <2>4 DEF Up, Down
  <2>8. j - 1 \in 1 .. Len(b.queue) /\ b.queue[j - 1] = Up
    BY <2>4, <2>5, <2>7
  <2>9. Settles(b)
    BY <2>6, <2>8 DEF Settles
  <2> QED
    BY <2>9 DEF b
<1>4. CASE c # Up /\ c # Down
  <2>1. b = Pop(a)
    BY <1>4 DEF Reach, Up, Down
  <2> QED
    BY <1>1, <1>4, <2>1, DropSettles
<1> QED
  BY <1>2, <1>3, <1>4

LEMMA SendSettles ==
    ASSUME NEW a \in Actor, NEW c \in Command, c # Down,
           NEW b, b.queue = Append(a.queue, c), b.reachable = a.reachable
    PROVE  (c = Up \/ Settles(a)) => Settles(b)
<1>1. a.queue \in Seq(Command)
  BY ActorTypes
<1>2. /\ Len(a.queue) \in Nat /\ Len(b.queue) = Len(a.queue) + 1 /\ b.queue[Len(a.queue) + 1] = c
      /\ \A i \in 1 .. Len(a.queue) : b.queue[i] = a.queue[i]
  BY <1>1
<1>3. \A i \in 1 .. Len(b.queue) : b.queue[i] = Down => i \in 1 .. Len(a.queue) /\ a.queue[i] = Down
  BY <1>2
<1>4. CASE c = Up
  <2>1. Len(a.queue) + 1 \in 1 .. Len(b.queue) /\ b.queue[Len(a.queue) + 1] = Up
    BY <1>2, <1>4
  <2>2. \A i \in 1 .. Len(a.queue) : Len(a.queue) + 1 > i
    BY <1>2
  <2> QED
    BY <1>3, <2>1, <2>2 DEF Settles
<1>5. ASSUME Settles(a) PROVE Settles(b)
  <2>1. \A j \in 1 .. Len(a.queue) : j \in 1 .. Len(b.queue) /\ b.queue[j] = a.queue[j]
    BY <1>2
  <2> QED
    BY <1>3, <1>5, <2>1 DEF Settles
<1> QED
  BY <1>4, <1>5

LEMMA FreshSettles ==
    ASSUME NEW a, a.queue = <<>>, a.reachable = TRUE
    PROVE  Settles(a)
BY DEF Settles

\* One actor moves and the observer threads do not.
LEMMA ActorMoves ==
    ASSUME TriggersInv, NEW w \in Windows, NEW b \in Actor,
           actors' = [actors EXCEPT ![w] = b], UNCHANGED <<time, merger, threads>>,
           shown' \in [Windows -> BOOLEAN], cancelled' \in [Windows -> BOOLEAN],
           lost' \in [Windows -> BOOLEAN],
           \A v \in Windows : v # w => lost'[v] = lost[v],
           b.phase = "starting" => b.reachable,
           b.live /\ ~lost'[w] => \/ Settles(b)
                                  \/ actors[w].live /\ ~lost[w] /\ (Settles(actors[w]) => Settles(b))
    PROVE  TriggersInv'
<1>1. actors' \in [Windows -> Actor] /\ actors'[w] = b /\ \A v \in Windows : v # w => actors'[v] = actors[v]
  BY DEF TriggersInv, TriggersTypeOK
<1>2. TriggersTypeOK'
  BY <1>1 DEF TriggersInv, TriggersTypeOK
<1>3. ASSUME NEW v \in Windows, merger.online PROVE Informed(v)'
  <2>1. Informed(v) /\ UpToCome(v)' = UpToCome(v)
    BY <1>3 DEF TriggersInv, NewsInv, UpToCome
  <2>2. CASE v # w
    BY <1>1, <2>1, <2>2 DEF Informed
  <2>3. CASE v = w
    BY <1>1, <2>1, <2>3 DEF Informed
  <2> QED
    BY <2>2, <2>3
<1>4. NewsInv'
  BY <1>1, <1>3 DEF TriggersInv, NewsInv, SaysNoDown
<1> QED
  BY <1>2, <1>4 DEF TriggersInv

-----------------------------------------------------------------------------
(* The steps.                                                              *)

MergerState == [online : BOOLEAN, last_retry : Nat]

LEMMA RetryFacts ==
    ASSUME NEW m \in MergerState, time \in Nat
    PROVE  /\ retry(m).merger \in MergerState /\ retry(m).merger.online = m.online
           /\ retry(m).action \in {"RetryNow", NoAction}
           /\ m.last_retry = Never => retry(m).action = "RetryNow"
BY DEF retry, MergerState

\* The merger: what goes offline forgets its last retry, and so what comes online retries.
LEMMA MergerFacts ==
    ASSUME NEW m \in MergerState, time \in Nat, ~m.online => m.last_retry = Never
    PROVE  /\ LET r == on_trigger(m, "NetworkOffline") IN
                 /\ r.merger \in MergerState /\ ~r.merger.online /\ r.merger.last_retry = Never
                 /\ r.action \in {"PauseReconnect", NoAction}
           /\ LET r == on_trigger(m, "NetworkOnline") IN
                 /\ r.merger \in MergerState /\ r.merger.online
                 /\ r.action \in {"RetryNow", NoAction}
                 /\ m.online => r.action = NoAction
                 /\ ~m.online => r.action = "RetryNow"
           /\ LET r == on_trigger(m, "Wake") IN
                 /\ r.merger \in MergerState /\ r.merger.online = m.online
                 /\ ~m.online => r.merger = m
                 /\ r.action \in {"RetryNow", NoAction}
<1>n. Never \in Nat
  BY TriggersAssumption DEF Never
<1>1. LET r == on_trigger(m, "NetworkOffline") IN
      /\ r.merger \in MergerState /\ ~r.merger.online /\ r.merger.last_retry = Never
      /\ r.action \in {"PauseReconnect", NoAction}
  <2>1. CASE m.online
    BY <1>n, <2>1 DEF on_trigger, MergerState
  <2>2. CASE ~m.online
    BY <2>2 DEF on_trigger
  <2> QED
    BY <2>1, <2>2
<1>2. LET r == on_trigger(m, "NetworkOnline") IN
      /\ r.merger \in MergerState /\ r.merger.online
      /\ r.action \in {"RetryNow", NoAction}
      /\ m.online => r.action = NoAction
      /\ ~m.online => r.action = "RetryNow"
  <2>1. CASE m.online
    BY <2>1 DEF on_trigger
  <2>2. CASE ~m.online
    <3> DEFINE u == [m EXCEPT !.online = TRUE]
    <3>1. u \in MergerState /\ u.online /\ u.last_retry = Never
      BY <2>2 DEF MergerState
    <3>2. on_trigger(m, "NetworkOnline") = retry(u)
      BY <2>2 DEF on_trigger
    <3> HIDE DEF u
    <3> QED
      BY <2>2, <3>1, <3>2, RetryFacts
  <2> QED
    BY <2>1, <2>2
<1>3. LET r == on_trigger(m, "Wake") IN
      /\ r.merger \in MergerState /\ r.merger.online = m.online
      /\ ~m.online => r.merger = m
      /\ r.action \in {"RetryNow", NoAction}
  BY RetryFacts DEF on_trigger
<1> QED
  BY <1>1, <1>2, <1>3

\* The part of the invariant a thread's own step has to restore.
LEMMA ThreadMoves ==
    ASSUME TriggersInv, NEW t \in Thread, NEW s \in ThreadState,
           threads' = [threads EXCEPT ![t] = s], UNCHANGED <<time, actors, shown, cancelled, lost>>,
           merger' \in MergerState, ~merger'.online => merger'.last_retry = Never,
           s.action # NoAction => \A w \in Windows : s.sends[w] = <<>>,
           (t = "main" \/ merger'.online) =>
               /\ s.action # "PauseReconnect"
               /\ \A w \in Windows : \A i \in 1 .. Len(s.sends[w]) : s.sends[w][i] # Down,
           t = "main" => merger'.online = merger.online,
           t = "path" /\ merger'.online =>
               \A w \in Windows : \/ s.action = "RetryNow"
                                  \/ ~actors[w].live
                                  \/ \E i \in 1 .. Len(s.sends[w]) : s.sends[w][i] = Up
                                  \/ merger.online /\ ~UpToCome(w)
    PROVE  TriggersInv'
<1>1. /\ threads' \in [Thread -> ThreadState] /\ threads'[t] = s
      /\ \A u \in Thread : u # t => threads'[u] = threads[u]
  BY DEF TriggersInv, TriggersTypeOK, ThreadState
<1>2. TriggersTypeOK'
  BY <1>1 DEF TriggersInv, TriggersTypeOK, ThreadState, MergerState
<1>3. SaysNoDown("main")' /\ (merger'.online => SaysNoDown("path")')
  <2>1. t = "main" \/ t = "path"
    BY DEF Thread
  <2>2. CASE t = "main"
    BY <1>1, <2>2 DEF TriggersInv, NewsInv, SaysNoDown, Thread
  <2>3. CASE t = "path"
    BY <1>1, <2>3 DEF TriggersInv, NewsInv, SaysNoDown, Thread
  <2> QED
    BY <2>1, <2>2, <2>3
<1>4. ASSUME NEW w \in Windows, merger'.online PROVE Informed(w)'
  <2>1. CASE t = "main"
    <3>1. threads'["path"] = threads["path"] /\ merger.online
      BY <1>1, <1>4, <2>1 DEF Thread
    <3>2. Informed(w)
      BY <3>1 DEF TriggersInv, NewsInv
    <3> QED
      BY <3>1, <3>2 DEF Informed, UpToCome
  <2>2. CASE t = "path"
    <3>1. CASE s.action = "RetryNow" \/ \E i \in 1 .. Len(s.sends[w]) : s.sends[w][i] = Up
      BY <1>1, <2>2, <3>1 DEF Informed, UpToCome
    <3>2. CASE ~actors[w].live
      BY <3>2 DEF Informed
    <3>3. CASE merger.online /\ ~UpToCome(w)
      BY <3>3 DEF TriggersInv, NewsInv, Informed
    <3> QED
      BY <1>4, <2>2, <3>1, <3>2, <3>3
  <2> QED
    BY <2>1, <2>2 DEF Thread
<1>5. \A u \in Thread : threads'[u].action # NoAction => \A w \in Windows : threads'[u].sends[w] = <<>>
  BY <1>1 DEF TriggersInv, NewsInv
<1>6. NewsInv'
  BY <1>3, <1>4, <1>5 DEF TriggersInv, NewsInv
<1> QED
  BY <1>2, <1>6 DEF TriggersInv

LEMMA FeedStep ==
    ASSUME TriggersInv, NEW t \in Thread, NEW trigger \in Trigger,
           t = "main" => trigger = "Wake", t = "path" => trigger # "Wake", FeedTrigger(t, trigger)
    PROVE  TriggersInv'
<1> DEFINE r == on_trigger(merger, trigger)
           s == [threads[t] EXCEPT !.action = r.action]
<1>1. merger \in MergerState /\ time \in Nat /\ (~merger.online => merger.last_retry = Never)
  BY DEF TriggersInv, TriggersTypeOK, NewsInv, MergerState
<1>2. /\ merger' = r.merger /\ threads[t] = IdleThread /\ UNCHANGED <<time, actors, shown, cancelled, lost>>
      /\ threads' = [threads EXCEPT ![t] = s]
  BY DEF FeedTrigger, Busy, TriggersInv, TriggersTypeOK
<1>3. /\ r.merger \in MergerState /\ (~r.merger.online => r.merger.last_retry = Never)
      /\ r.action \in TriggerAction \cup {NoAction}
      /\ trigger = "Wake" => r.action # "PauseReconnect" /\ r.merger.online = merger.online
      /\ r.merger.online => r.action # "PauseReconnect"
      /\ trigger # "Wake" /\ r.merger.online => r.action = "RetryNow" \/ merger.online
  <2>1. CASE trigger = "NetworkOffline"
    <3>1. /\ r.merger \in MergerState /\ ~r.merger.online /\ r.merger.last_retry = Never
          /\ r.action \in {"PauseReconnect", NoAction}
      BY <1>1, <2>1, MergerFacts
    <3> HIDE DEF r
    <3> QED
      BY <2>1, <3>1 DEF TriggerAction
  <2>2. CASE trigger = "NetworkOnline"
    <3>1. /\ r.merger \in MergerState /\ r.merger.online /\ r.action \in {"RetryNow", NoAction}
          /\ ~merger.online => r.action = "RetryNow"
      BY <1>1, <2>2, MergerFacts
    <3> HIDE DEF r
    <3> QED
      BY <2>2, <3>1 DEF TriggerAction, NoAction
  <2>3. CASE trigger = "Wake"
    <3>1. /\ r.merger \in MergerState /\ r.merger.online = merger.online
          /\ ~merger.online => r.merger = merger
          /\ r.action \in {"RetryNow", NoAction}
      BY <1>1, <2>3, MergerFacts
    <3>2. r.action # "PauseReconnect"
      BY <3>1 DEF NoAction
    <3>3. ~r.merger.online => r.merger.last_retry = Never
      BY <1>1, <3>1, Zenon
    <3> HIDE DEF r
    <3> QED
      BY <2>3, <3>1, <3>2, <3>3 DEF TriggerAction
  <2> QED
    BY <2>1, <2>2, <2>3 DEF Trigger
<1> HIDE DEF r
<1>4. \A w \in Windows : threads[t].sends[w] = <<>>
  BY <1>2 DEF IdleThread
<1>5. s \in ThreadState /\ s.action = r.action /\ s.sends = threads[t].sends
  BY <1>3 DEF TriggersInv, TriggersTypeOK, ThreadState
<1> HIDE DEF s
<1>6. \A w \in Windows : s.sends[w] = <<>>
  BY <1>4, <1>5, Zenon
<1>7. t = "path" => \A w \in Windows : ~UpToCome(w)
  BY <1>2, <1>4 DEF UpToCome, IdleThread, NoAction
<1>8. \A w \in Windows : \A i \in 1 .. Len(s.sends[w]) : s.sends[w][i] # Down
  <2>1. Len(<<>>) = 0
    OBVIOUS
  <2> QED
    BY <1>6, <2>1
<1>9. t = "main" => merger'.online = merger.online
  BY <1>2, <1>3
<1>10. (t = "main" \/ merger'.online) => s.action # "PauseReconnect"
  BY <1>2, <1>3, <1>5
<1>11. t = "path" /\ merger'.online =>
          \A w \in Windows : \/ s.action = "RetryNow"
                             \/ ~actors[w].live
                             \/ \E i \in 1 .. Len(s.sends[w]) : s.sends[w][i] = Up
                             \/ merger.online /\ ~UpToCome(w)
  <2>1. t = "path" /\ merger'.online =>
           \A w \in Windows : s.action = "RetryNow" \/ (merger.online /\ ~UpToCome(w))
    BY <1>2, <1>3, <1>5, <1>7
  <2> QED
    BY <2>1, Zenon
<1>12. merger' \in MergerState /\ (~merger'.online => merger'.last_retry = Never)
  BY <1>2, <1>3
<1>13. (t = "main" \/ merger'.online) =>
          /\ s.action # "PauseReconnect"
          /\ \A w \in Windows : \A i \in 1 .. Len(s.sends[w]) : s.sends[w][i] # Down
  BY <1>8, <1>10
<1> QED
  BY <1>2, <1>5, <1>6, <1>9, <1>11, <1>12, <1>13, ThreadMoves, Zenon

LEMMA CommandFacts ==
    ASSUME NEW action \in TriggerAction, NEW b \in BOOLEAN
    PROVE  /\ trigger_commands(action, b) \in Seq(Command)
           /\ action = "RetryNow" =>
                 /\ 1 \in 1 .. Len(trigger_commands(action, b)) /\ trigger_commands(action, b)[1] = Up
                 /\ \A i \in 1 .. Len(trigger_commands(action, b)) : trigger_commands(action, b)[i] # Down
<1>1. CASE action = "PauseReconnect"
  BY <1>1 DEF trigger_commands, Command
<1>2. CASE action = "RetryNow" /\ b
  <2>1. trigger_commands(action, b) = <<Up, "ReconnectNow">>
    BY <1>2 DEF trigger_commands, Up
  <2> DEFINE c == <<Up, "ReconnectNow">>
  <2>2. Len(c) = 2 /\ c[1] = Up /\ c[2] = "ReconnectNow" /\ c \in Seq(Command)
    BY DEF Command, Up
  <2>3. 1 .. 2 = {1, 2}
    OBVIOUS
  <2> HIDE DEF c
  <2> QED
    BY <1>2, <2>1, <2>2, <2>3 DEF c, Up, Down
<1>3. CASE action = "RetryNow" /\ ~b
  <2>1. trigger_commands(action, b) = <<Up>>
    BY <1>3 DEF trigger_commands, Up
  <2> QED
    BY <1>3, <2>1 DEF Command, Up, Down
<1> QED
  BY <1>1, <1>2, <1>3 DEF TriggerAction

LEMMA SnapshotStep ==
    ASSUME TriggersInv, NEW t \in Thread, SnapshotSessions(t)
    PROVE  TriggersInv'
<1> DEFINE a == threads[t].action
           s == [action |-> NoAction,
                 sends |-> [w \in Windows |-> IF actors[w].live THEN trigger_commands(a, shown[w]) ELSE <<>>]]
<1>1. /\ a \in TriggerAction /\ threads' = [threads EXCEPT ![t] = s] /\ merger' = merger
      /\ UNCHANGED <<time, actors, shown, cancelled, lost>>
  BY DEF SnapshotSessions, TriggersInv, TriggersTypeOK
<1>2. \A w \in Windows : shown[w] \in BOOLEAN /\ trigger_commands(a, shown[w]) \in Seq(Command)
  BY <1>1, CommandFacts DEF TriggersInv, TriggersTypeOK
<1>3. s \in ThreadState /\ s.action = NoAction
  BY <1>2 DEF ThreadState
<1>4. \A w \in Windows : s.sends[w] = IF actors[w].live THEN trigger_commands(a, shown[w]) ELSE <<>>
  OBVIOUS
<1>5. merger \in MergerState /\ (~merger.online => merger.last_retry = Never)
  BY DEF TriggersInv, TriggersTypeOK, NewsInv, MergerState
<1>6. t = "main" \/ merger.online => a = "RetryNow"
  BY <1>1 DEF TriggersInv, NewsInv, SaysNoDown, TriggerAction, Thread
<1> HIDE DEF a, s
<1>7. ASSUME a = "RetryNow", NEW w \in Windows
      PROVE  /\ \A i \in 1 .. Len(s.sends[w]) : s.sends[w][i] # Down
             /\ ~actors[w].live \/ \E i \in 1 .. Len(s.sends[w]) : s.sends[w][i] = Up
  <2>1. CASE actors[w].live
    BY <1>1, <1>2, <1>4, <1>7, <2>1, CommandFacts
  <2>2. CASE ~actors[w].live
    BY <1>4, <2>2
  <2> QED
    BY <2>1, <2>2
<1>8. (t = "main" \/ merger'.online) =>
         /\ s.action # "PauseReconnect"
         /\ \A w \in Windows : \A i \in 1 .. Len(s.sends[w]) : s.sends[w][i] # Down
  BY <1>1, <1>3, <1>6, <1>7 DEF NoAction
<1>9. t = "path" /\ merger'.online =>
         \A w \in Windows : \/ s.action = "RetryNow"
                            \/ ~actors[w].live
                            \/ \E i \in 1 .. Len(s.sends[w]) : s.sends[w][i] = Up
                            \/ merger.online /\ ~UpToCome(w)
  <2>1. t = "path" /\ merger'.online =>
           \A w \in Windows : ~actors[w].live \/ \E i \in 1 .. Len(s.sends[w]) : s.sends[w][i] = Up
    BY <1>1, <1>6, <1>7
  <2> QED
    BY <2>1, Zenon
<1>10. merger' \in MergerState /\ (~merger'.online => merger'.last_retry = Never)
       /\ (t = "main" => merger'.online = merger.online)
  BY <1>1, <1>5
<1> QED
  BY <1>1, <1>3, <1>8, <1>9, <1>10, ThreadMoves, Zenon

\* A send: the thread has one command less, and the actor it is for one more.
LEMMA SendStep ==
    ASSUME TriggersInv, NEW t \in Thread, SendNext(t)
    PROVE  TriggersInv'
<1>1. PICK w \in Windows :
         /\ threads[t].sends[w] # <<>>
         /\ IF actors[w].live THEN Enqueue(w, Head(threads[t].sends[w])) ELSE UNCHANGED actors
         /\ threads' = [threads EXCEPT ![t].sends[w] = Tail(@)]
         /\ UNCHANGED <<time, merger, shown, cancelled, lost>>
  BY DEF SendNext
<1>t. /\ threads[t] \in ThreadState /\ threads \in [Thread -> ThreadState]
      /\ threads[t].sends[w] \in Seq(Command) /\ actors[w] \in Actor /\ actors \in [Windows -> Actor]
  BY DEF TriggersInv, TriggersTypeOK, ThreadState
<1> DEFINE q == threads[t].sends[w]
           c == Head(q)
           s == [threads[t] EXCEPT !.sends[w] = Tail(q)]
           b == [actors[w] EXCEPT !.queue = Append(actors[w].queue, c)]
<1>2. /\ c \in Command /\ Tail(q) \in Seq(Command) /\ Len(q) \in Nat
      /\ c = q[1] /\ 1 \in 1 .. Len(q) /\ Len(Tail(q)) = Len(q) - 1
      /\ \A i \in 1 .. Len(Tail(q)) : Tail(q)[i] = q[i + 1] /\ i + 1 \in 1 .. Len(q)
      /\ \A i \in 1 .. Len(q) : i > 1 => i - 1 \in 1 .. Len(Tail(q)) /\ Tail(q)[i - 1] = q[i]
  <2>1. q \in Seq(Command) /\ q # <<>>
    BY <1>t, <1>1
  <2> HIDE DEF q
  <2> QED
    BY <2>1, SequenceFacts
<1>3. /\ s \in ThreadState /\ s.action = threads[t].action /\ s.sends[w] = Tail(q)
      /\ \A v \in Windows : v # w => s.sends[v] = threads[t].sends[v]
  BY <1>t, <1>2 DEF ThreadState
<1>4. threads' = [threads EXCEPT ![t] = s]
  BY <1>1, <1>t
<1>5. b \in Actor /\ b.queue = Append(actors[w].queue, c) /\ b.reachable = actors[w].reachable
      /\ b.live = actors[w].live /\ b.phase = actors[w].phase
  <2> HIDE DEF c
  <2>1. Append(actors[w].queue, c) \in Seq(Command)
    BY <1>t, <1>2 DEF Actor
  <2> QED
    BY <1>t, <2>1 DEF Actor
<1>6. actors' = IF actors[w].live THEN [actors EXCEPT ![w] = b] ELSE actors
  BY <1>1, <1>t DEF Enqueue
<1>7. threads[t].action = NoAction
  BY <1>1 DEF TriggersInv, NewsInv
<1> HIDE DEF q, c, s, b
<1>8. /\ threads' \in [Thread -> ThreadState] /\ threads'[t] = s
      /\ \A u \in Thread : u # t => threads'[u] = threads[u]
  BY <1>3, <1>4, <1>t
<1>9. /\ actors' \in [Windows -> Actor] /\ \A v \in Windows : v # w => actors'[v] = actors[v]
      /\ actors'[w] = IF actors[w].live THEN b ELSE actors[w]
  BY <1>5, <1>6, <1>t
<1>10. TriggersTypeOK'
  BY <1>1, <1>8, <1>9 DEF TriggersInv, TriggersTypeOK, ThreadState
<1>11. \A u \in Thread : threads'[u].action = threads[u].action
  BY <1>3, <1>8
<1>12. ASSUME NEW u \in Thread, SaysNoDown(u) PROVE SaysNoDown(u)'
  <2>1. CASE u # t
    BY <1>8, <1>12, <2>1 DEF SaysNoDown
  <2>2. CASE u = t
    <3>1. \A v \in Windows : \A i \in 1 .. Len(s.sends[v]) : s.sends[v][i] # Down
      <4>1. \A v \in Windows : \A i \in 1 .. Len(threads[t].sends[v]) : threads[t].sends[v][i] # Down
        BY <1>12, <2>2 DEF SaysNoDown
      <4>2. \A i \in 1 .. Len(Tail(q)) : Tail(q)[i] # Down
        BY <1>2, <4>1 DEF q
      <4> QED
        BY <1>3, <4>1, <4>2
    <3> QED
      BY <1>3, <1>8, <1>12, <2>2, <3>1 DEF SaysNoDown
  <2> QED
    BY <2>1, <2>2
<1>13. \A u \in Thread : threads'[u].action # NoAction => \A v \in Windows : threads'[u].sends[v] = <<>>
  BY <1>3, <1>7, <1>8 DEF TriggersInv, NewsInv
<1>14. \A v \in Windows : actors'[v].phase = "starting" => actors'[v].reachable
  BY <1>5, <1>9 DEF TriggersInv, NewsInv
<1>15. ASSUME merger.online, NEW v \in Windows PROVE Informed(v)'
  <2>1. Informed(v) /\ SaysNoDown(t)
    BY <1>15 DEF TriggersInv, NewsInv, Thread
  <2>2. CASE v # w
    <3>1. UpToCome(v)' <=> UpToCome(v)
      BY <1>3, <1>8, <2>2 DEF UpToCome, Thread
    <3> QED
      BY <1>1, <1>9, <2>1, <2>2, <3>1 DEF Informed
  <2>3. CASE v = w /\ actors[w].live /\ ~lost[w]
    <3>1. c # Down
      BY <1>1, <1>2, <2>1 DEF SaysNoDown, q
    <3>2. (c = Up \/ Settles(actors[w])) => Settles(b)
      BY <1>2, <1>5, <1>t, <3>1, SendSettles
    <3>3. CASE UpToCome(w) /\ c # Up
      <4>1. CASE t = "path"
        <5>1. PICK i \in 1 .. Len(q) : q[i] = Up
          BY <1>7, <3>3, <4>1 DEF UpToCome, q, NoAction
        <5>2. i > 1
          BY <1>2, <3>3, <5>1
        <5>3. i - 1 \in 1 .. Len(s.sends[w]) /\ s.sends[w][i - 1] = Up
          BY <1>2, <1>3, <5>1, <5>2
        <5> QED
          BY <1>8, <2>3, <4>1, <5>3 DEF Informed, UpToCome
      <4>2. CASE t # "path"
        BY <1>8, <2>3, <3>3, <4>2 DEF Informed, UpToCome, Thread
      <4> QED
        BY <4>1, <4>2
    <3>4. CASE c = Up \/ Settles(actors[w])
      BY <1>9, <2>3, <3>2, <3>4 DEF Informed
    <3> QED
      BY <2>1, <2>3, <3>3, <3>4 DEF Informed
  <2>4. CASE v = w /\ ~(actors[w].live /\ ~lost[w])
    BY <1>1, <1>5, <1>9, <2>4 DEF Informed
  <2> QED
    BY <2>2, <2>3, <2>4
<1>16. NewsInv'
  BY <1>1, <1>12, <1>13, <1>14, <1>15 DEF TriggersInv, NewsInv, Thread
<1> QED
  BY <1>10, <1>16 DEF TriggersInv

\* A button press.
LEMMA PressStep ==
    ASSUME TriggersInv, NEW w \in Windows, NEW c \in {"Cancel", "ReconnectNow"}, Enqueue(w, c),
           UNCHANGED <<time, merger, threads, shown, lost>>, cancelled' \in [Windows -> BOOLEAN]
    PROVE  TriggersInv'
<1>t. actors[w] \in Actor /\ lost \in [Windows -> BOOLEAN] /\ shown \in [Windows -> BOOLEAN]
      /\ actors[w].queue \in Seq(Command) /\ c \in Command /\ c # Down
  BY ActorTypes DEF TriggersInv, TriggersTypeOK, Command, Down
<1> DEFINE b == [actors[w] EXCEPT !.queue = Append(actors[w].queue, c)]
<1>1. /\ b \in Actor /\ b.queue = Append(actors[w].queue, c) /\ b.reachable = actors[w].reachable
      /\ b.live = actors[w].live /\ b.phase = actors[w].phase
  <2>1. Append(actors[w].queue, c) \in Seq(Command)
    BY <1>t
  <2> QED
    BY <1>t, <2>1 DEF Actor
<1>2. actors' = [actors EXCEPT ![w] = b]
  BY DEF Enqueue
<1> HIDE DEF b
<1>3. Settles(actors[w]) => Settles(b)
  BY <1>t, <1>1, SendSettles
<1>4. b.phase = "starting" => b.reachable
  BY <1>1 DEF TriggersInv, NewsInv
<1> QED
  BY <1>t, <1>1, <1>2, <1>3, <1>4, ActorMoves

\* The actor's own steps: it reads a command in one of its phases, or changes its phase.
LEMMA ReadStep ==
    ASSUME TriggersInv, NEW w \in Windows,
           ReadStarting(w) \/ ReadPrompting(w) \/ ReadLive(w) \/ ReadBackoff(w) \/ ReadIdle(w)
    PROVE  TriggersInv'
<1> DEFINE a == actors[w]
           c == Head(a.queue)
           r == Reach(Pop(a), c)
<1>t. /\ a \in Actor /\ lost \in [Windows -> BOOLEAN] /\ shown \in [Windows -> BOOLEAN]
      /\ cancelled \in [Windows -> BOOLEAN] /\ a.queue \in Seq(Command)
      /\ a.phase = "starting" => a.reachable
  BY ActorTypes DEF TriggersInv, TriggersTypeOK, NewsInv
<1>1. a.live /\ a.queue # <<>> /\ UNCHANGED <<time, merger, threads, shown>>
  BY DEF ReadStarting, ReadPrompting, ReadLive, ReadBackoff, ReadIdle, Reads, ActorStep
<1>2. /\ Pop(a) \in Actor /\ c \in Command /\ r \in Actor
      /\ Pop(a).queue = Tail(a.queue) /\ Pop(a).reachable = a.reachable /\ Pop(a).phase = a.phase
  BY <1>t, <1>1, ReadTypes DEF Pop, Actor
<1>3. Settles(a) => Settles(r)
  BY <1>t, <1>1, ReadSettles
<1>4. r.phase = a.phase /\ r.queue = Tail(a.queue)
  BY <1>2 DEF Reach, Actor
<1>5. CASE ReadStarting(w)
  <2>1. a.phase = "starting" /\ actors' = [actors EXCEPT ![w] = Pop(a)] /\ UNCHANGED <<cancelled, lost>>
    BY <1>5 DEF ReadStarting, Reads, ActorStep
  <2>2. Pop(a).reachable /\ Pop(a).reachable \in BOOLEAN
    BY <1>t, <1>2, <2>1 DEF Actor
  <2> HIDE DEF a
  <2>3. Settles(a) => Settles(Pop(a))
    BY <1>t, <1>1, <1>2, <2>2, DropSettles
  <2> USE DEF a
  <2> QED
    BY <1>t, <1>1, <1>2, <2>1, <2>2, <2>3, ActorMoves
<1>6. CASE ReadPrompting(w)
  <2>1. /\ a.phase = "prompting" /\ actors' = [actors EXCEPT ![w] = Pop(a)] /\ cancelled' = cancelled
        /\ lost' = [lost EXCEPT ![w] = lost[w] \/ c \in {Up, Down}]
    BY <1>6 DEF ReadPrompting, Reads, ActorStep, Up, Down
  <2>2. /\ lost' \in [Windows -> BOOLEAN] /\ \A v \in Windows : v # w => lost'[v] = lost[v]
        /\ ~lost'[w] => ~lost[w] /\ c # Up
    BY <1>t, <2>1
  <2> HIDE DEF a, c
  <2>3. c # Up /\ Settles(a) => Settles(Pop(a))
    BY <1>t, <1>1, <1>2, DropSettles DEF c
  <2>4. Pop(a).phase # "starting"
    BY <1>2, <2>1
  <2> USE DEF a
  <2> QED
    BY <1>t, <1>1, <1>2, <2>1, <2>2, <2>3, <2>4, ActorMoves
<1>7. CASE ReadLive(w)
  <2>1. a.phase = "live" /\ actors' = [actors EXCEPT ![w] = r] /\ UNCHANGED <<cancelled, lost>>
    BY <1>7 DEF ReadLive, Reads, ActorStep
  <2> HIDE DEF r
  <2> QED
    BY <1>t, <1>1, <1>2, <1>3, <1>4, <2>1, ActorMoves
<1>8. CASE ReadBackoff(w)
  <2> HIDE DEF r
  <2>1. PICK p \in {"idle", "connecting", "backoff"} :
           actors' = [actors EXCEPT ![w] = [r EXCEPT !.phase = p]]
    BY <1>8 DEF ReadBackoff, ActorStep, r
  <2>2. cancelled' \in [Windows -> BOOLEAN] /\ lost' = lost
    BY <1>8, <1>t DEF ReadBackoff
  <2> DEFINE b == [r EXCEPT !.phase = p]
  <2>3. /\ b \in Actor /\ b.phase # "starting" /\ b.queue = r.queue /\ b.reachable = r.reachable
    BY <1>2 DEF Actor, Phase
  <2> HIDE DEF b
  <2>4. Settles(r) => Settles(b)
    BY <2>3, SettlesKept
  <2> QED
    BY <1>t, <1>1, <1>3, <2>1, <2>2, <2>3, <2>4, ActorMoves DEF b
<1>9. CASE ReadIdle(w)
  <2>1. a.phase = "idle" /\ UNCHANGED <<cancelled, lost>>
        /\ actors' = [actors EXCEPT ![w] = IF c = "ReconnectNow"
                                           THEN [r EXCEPT !.phase = "connecting", !.reachable = TRUE] ELSE r]
    BY <1>9 DEF ReadIdle, Reads, ActorStep
  <2> HIDE DEF r
  <2>2. CASE c # "ReconnectNow"
    BY <1>t, <1>1, <1>2, <1>3, <1>4, <2>1, <2>2, ActorMoves
  <2>3. CASE c = "ReconnectNow"
    <3> DEFINE b == [r EXCEPT !.phase = "connecting", !.reachable = TRUE]
    <3>1. TRUE \in BOOLEAN /\ "connecting" \in Phase
      BY DEF Phase
    <3>2. b \in Actor /\ b.phase # "starting" /\ b.queue = Tail(a.queue) /\ b.reachable = TRUE
      BY <1>2, <1>4, <3>1 DEF Actor
    <3> HIDE DEF a, b
    <3>3. b.reachable /\ b.reachable \in BOOLEAN
      BY <3>2
    <3>4. Settles(a) => Settles(b)
      BY <1>t, <1>1, <3>2, <3>3, DropSettles
    <3> USE DEF a
    <3>5. actors' = [actors EXCEPT ![w] = b]
      BY <2>1, <2>3 DEF b
    <3> QED
      BY <1>t, <1>1, <2>1, <3>2, <3>4, <3>5, ActorMoves
  <2> QED
    BY <2>2, <2>3
<1> QED
  BY <1>5, <1>6, <1>7, <1>8, <1>9

\* A move between phases reads nothing and keeps what the actor believes.
LEMMA QuietMove ==
    ASSUME TriggersInv, NEW w \in Windows, NEW p, NEW b \in Actor, Quietly(w, p, b),
           b.phase # "starting", b.queue = actors[w].queue, b.reachable = actors[w].reachable
    PROVE  TriggersInv'
<1>t. /\ actors[w] \in Actor /\ lost \in [Windows -> BOOLEAN] /\ shown \in [Windows -> BOOLEAN]
      /\ cancelled \in [Windows -> BOOLEAN] /\ actors[w].reachable \in BOOLEAN
  BY ActorTypes DEF TriggersInv, TriggersTypeOK
<1>1. /\ actors[w].live /\ actors' = [actors EXCEPT ![w] = b]
      /\ UNCHANGED <<time, merger, threads, shown, cancelled, lost>>
  BY DEF Quietly, ActorStep
<1>2. Settles(actors[w]) => Settles(b)
  BY SettlesKept
<1> QED
  BY <1>t, <1>1, <1>2, ActorMoves

LEMMA QuietStep ==
    ASSUME TriggersInv, NEW w \in Windows,
           \/ GraceOver(w) \/ Prompted(w) \/ Answered(w) \/ Activated(w) \/ Redirected(w) \/ LegEnded(w)
           \/ BackoffElapsed(w)
    PROVE  TriggersInv'
<1> DEFINE Moves(n) == [actors[w] EXCEPT !.phase = n]
           Activates(n) == [actors[w] EXCEPT !.phase = n, !.activated = TRUE]
           Waits(n) == [actors[w] EXCEPT !.phase = n, !.deadline = actors[w].reachable]
           Keeps(b) == /\ b \in Actor /\ b.phase # "starting"
                       /\ b.queue = actors[w].queue /\ b.reachable = actors[w].reachable
<1>t. actors[w] \in Actor /\ actors[w].reachable \in BOOLEAN /\ TRUE \in BOOLEAN
  BY ActorTypes DEF TriggersInv, TriggersTypeOK
<1>1. ASSUME NEW n \in Phase, n # "starting" PROVE Keeps(Moves(n)) /\ Keeps(Activates(n)) /\ Keeps(Waits(n))
  BY <1>1, <1>t DEF Actor
<1>2. \A n \in {"connecting", "prompting", "live", "backoff", "idle"} : n \in Phase /\ n # "starting"
  BY DEF Phase
<1>3. ASSUME NEW p, NEW b, Quietly(w, p, b), Keeps(b) PROVE TriggersInv'
  BY <1>3, QuietMove
<1> HIDE DEF Keeps
<1>4. CASE GraceOver(w)
  BY <1>1, <1>2, <1>3, <1>4 DEF GraceOver
<1>5. CASE Prompted(w)
  BY <1>1, <1>2, <1>3, <1>5 DEF Prompted
<1>6. CASE Answered(w)
  BY <1>1, <1>2, <1>3, <1>6 DEF Answered
<1>7. CASE Activated(w)
  BY <1>1, <1>2, <1>3, <1>7 DEF Activated
<1>8. CASE Redirected(w)
  BY <1>1, <1>2, <1>3, <1>8 DEF Redirected
<1>9. CASE LegEnded(w)
  BY <1>1, <1>2, <1>3, <1>9 DEF LegEnded
<1>10. CASE BackoffElapsed(w)
  BY <1>1, <1>2, <1>3, <1>10 DEF BackoffElapsed
<1> QED
  BY <1>4, <1>5, <1>6, <1>7, <1>8, <1>9, <1>10

\* A session starts reachable and with nothing to read; a closed one is not live.
LEMMA SessionStep ==
    ASSUME TriggersInv, NEW w \in Windows, StartSession(w) \/ CloseSession(w)
    PROVE  TriggersInv'
<1>t. /\ actors[w].generation \in Nat /\ lost \in [Windows -> BOOLEAN] /\ shown \in [Windows -> BOOLEAN]
      /\ cancelled \in [Windows -> BOOLEAN]
  BY ActorTypes DEF TriggersInv, TriggersTypeOK
<1>1. /\ shown' \in [Windows -> BOOLEAN] /\ cancelled' \in [Windows -> BOOLEAN]
      /\ lost' \in [Windows -> BOOLEAN] /\ UNCHANGED <<time, merger, threads>>
      /\ \A v \in Windows : v # w => lost'[v] = lost[v]
  BY <1>t DEF StartSession, CloseSession
<1>2. PICK b \in Actor : actors' = [actors EXCEPT ![w] = b] /\ b.queue = <<>> /\ b.reachable = TRUE
  <2>1. CASE StartSession(w)
    <3> DEFINE b == [NoActor EXCEPT !.live = TRUE, !.phase = "starting", !.generation = actors[w].generation + 1]
    <3>1. actors[w].generation + 1 \in Nat
      BY <1>t
    <3>2. b \in Actor
      BY <3>1, FreshActor
    <3>3. b.queue = <<>> /\ b.reachable = TRUE
      BY DEF NoActor
    <3> QED
      BY <2>1, <3>2, <3>3 DEF StartSession
  <2>2. CASE CloseSession(w)
    <3> DEFINE b == [NoActor EXCEPT !.generation = actors[w].generation]
    <3>1. b \in Actor
      BY <1>t, FreshActor
    <3>2. b.queue = <<>> /\ b.reachable = TRUE
      BY DEF NoActor
    <3> QED
      BY <2>2, <3>1, <3>2 DEF CloseSession
  <2> QED
    BY <2>1, <2>2
<1>3. Settles(b) /\ b.reachable
  BY <1>2, FreshSettles
<1> QED
  BY <1>1, <1>2, <1>3, ActorMoves

\* Neither the view nor the clock carries news.
LEMMA OtherStep ==
    ASSUME TriggersInv, (\E w \in Windows : ViewCatchesUp(w)) \/ Tick \/ UNCHANGED triggerVars
    PROVE  TriggersInv'
<1>1. UNCHANGED <<merger, threads, actors, cancelled, lost>>
  BY DEF ViewCatchesUp, Tick, triggerVars
<1>t. time \in Nat /\ shown \in [Windows -> BOOLEAN]
  BY DEF TriggersInv, TriggersTypeOK
<1>2. time' \in Nat /\ shown' \in [Windows -> BOOLEAN]
  <2>1. ASSUME NEW w \in Windows, ViewCatchesUp(w) PROVE time' \in Nat /\ shown' \in [Windows -> BOOLEAN]
    <3>1. time' = time /\ shown' = [shown EXCEPT ![w] = ~shown[w]]
      BY <2>1 DEF ViewCatchesUp
    <3>2. (~shown[w]) \in BOOLEAN
      OBVIOUS
    <3> QED
      BY <1>t, <3>1, <3>2
  <2>2. CASE Tick
    BY <1>t, <2>2 DEF Tick
  <2>3. CASE UNCHANGED triggerVars
    BY <1>t, <2>3 DEF triggerVars
  <2> QED
    BY <2>1, <2>2, <2>3
<1> QED
  BY <1>1, <1>2 DEF TriggersInv, TriggersTypeOK, NewsInv, SaysNoDown, Informed, UpToCome

LEMMA TriggersStep == TriggersInv /\ [TriggersNext]_triggerVars => TriggersInv'
<1> SUFFICES ASSUME TriggersInv, [TriggersNext]_triggerVars PROVE TriggersInv'
  OBVIOUS
<1>1. ASSUME NEW status \in PathStatus, PathUpdate(status) PROVE TriggersInv'
  BY <1>1, FeedStep DEF PathUpdate, trigger_of, Thread, Trigger
<1>2. CASE DidWake
  BY <1>2, FeedStep DEF DidWake, Thread, Trigger
<1>3. ASSUME NEW t \in Thread, SnapshotSessions(t) \/ SendNext(t) PROVE TriggersInv'
  BY <1>3, SnapshotStep, SendStep
<1>4. ASSUME NEW w \in Windows, PressCancel(w) \/ PressReconnect(w) PROVE TriggersInv'
  <2>1. cancelled \in [Windows -> BOOLEAN]
    BY DEF TriggersInv, TriggersTypeOK
  <2>2. CASE PressCancel(w)
    BY <2>1, <2>2, PressStep DEF PressCancel
  <2>3. CASE PressReconnect(w)
    <3>1. cancelled' \in [Windows -> BOOLEAN]
      BY <2>1, <2>3 DEF PressReconnect
    <3> QED
      BY <2>3, <3>1, PressStep DEF PressReconnect
  <2> QED
    BY <1>4, <2>2, <2>3
<1> QED
  BY <1>1, <1>2, <1>3, <1>4, ReadStep, QuietStep, SessionStep, OtherStep DEF TriggersNext

LEMMA TriggersStart == TriggersInit => TriggersInv
<1> SUFFICES ASSUME TriggersInit PROVE TriggersInv
  OBVIOUS
<1>1. <<>> \in Seq(Command) /\ Len(<<>>) = 0 /\ FALSE \in BOOLEAN /\ TRUE \in BOOLEAN /\ Never \in Nat
  BY TriggersAssumption DEF Never
<1>2. IdleThread \in ThreadState /\ IdleThread.action = NoAction /\ \A w \in Windows : IdleThread.sends[w] = <<>>
  BY <1>1 DEF IdleThread, ThreadState
<1>3. NoActor \in Actor /\ NoActor.phase = "idle" /\ ~NoActor.live
  <2>1. 0 \in Nat
    OBVIOUS
  <2> QED
    BY <2>1, FreshActor DEF NoActor
<1>4. merger \in MergerState /\ merger.online
  BY <1>1 DEF TriggersInit, MergerState
<1>5. \A t \in Thread : threads[t] = IdleThread
  BY DEF TriggersInit
<1>6. \A w \in Windows : actors[w] = NoActor
  BY DEF TriggersInit
<1>7. TriggersTypeOK
  BY <1>1, <1>2, <1>3, <1>4 DEF TriggersInit, TriggersTypeOK, ThreadState, MergerState
<1>8. SaysNoDown("main") /\ SaysNoDown("path")
  BY <1>1, <1>2, <1>5 DEF SaysNoDown, Thread, NoAction
<1>9. NewsInv
  BY <1>2, <1>3, <1>4, <1>5, <1>6, <1>8 DEF NewsInv, Informed
<1> QED
  BY <1>7, <1>9 DEF TriggersInv

(* No session is left paused (apply_trigger, TriggerFeed::trigger): when   *)
(* the network is back and nothing is on its way to a session any more, it *)
(* does not believe the network to be down - for any number of sessions    *)
(* that come and go during a fan-out, although the two observer threads    *)
(* send outside the merger's lock.                                         *)
THEOREM NoSessionIsLeftPaused == TriggersSpec => []NeverLeftPaused
<1>1. TriggersInit => TriggersInv
  BY TriggersStart
<1>2. TriggersInv /\ [TriggersNext]_triggerVars => TriggersInv'
  BY TriggersStep
<1>3. TriggersInv => NeverLeftPaused
  <2> SUFFICES ASSUME TriggersInv, NEW w \in Windows, merger.online, actors[w].live, ~actors[w].reachable, ~lost[w]
               PROVE  Underway(w)
    BY DEF NeverLeftPaused
  <2>1. UpToCome(w) \/ Settles(actors[w])
    BY DEF TriggersInv, NewsInv, Informed
  <2>2. CASE UpToCome(w)
    <3>1. "path" \in Thread /\ threads["path"].sends[w] \in Seq(Command)
      BY DEF Thread, TriggersInv, TriggersTypeOK
    <3>2. threads["path"].action # NoAction \/ threads["path"].sends[w] # <<>>
      BY <2>2, <3>1 DEF UpToCome, NoAction
    <3> QED
      BY <3>1, <3>2 DEF Underway
  <2>3. CASE Settles(actors[w])
    <3>1. actors[w].queue \in Seq(Command)
      BY ActorTypes DEF TriggersInv, TriggersTypeOK
    <3>2. PICK j \in DOMAIN actors[w].queue : actors[w].queue[j] = Up
      BY <2>3, <3>1 DEF Settles
    <3> QED
      BY <3>2 DEF Underway, Up
  <2> QED
    BY <2>1, <2>2, <2>3
<1> QED
  BY <1>1, <1>2, <1>3, PTL DEF TriggersSpec

-----------------------------------------------------------------------------
(* The clipboard.  The difficulty is what a tick leaves out: a session it   *)
(* remembers as seeded is told nothing while the changeCount rests, so what *)
(* it was told by an earlier tick, perhaps in a send meant for the actor it *)
(* replaced, must still hold.                                               *)

CountInv ==
    /\ last_seen <= pasteboard.count
    /\ \A s \in seeded : s[2] <= actorsSoFar[s[1]]
    /\ \A w \in PumpWindows : generation[w] <= actorsSoFar[w]
(* A tick nothing overtook has seen the changeCount and every live session. *)
FreshInv ==
    ~stale => /\ pasteboard.count = last_seen
              /\ \A w \in live_sessions : key(w) \in seeded
(* The send to w that is under way carries all that w's preference allows. *)
CarriesWhatIsMissing(w) ==
    w \in delivery.to /\ generation[w] # 0 /\ key(w) \in seeded =>
        delivery.contents \cap Allowed(PumpPrefs[w]) = read(PumpPrefs[w])
(* A seeded session nobody is about to tell knows all that it should. *)
KnowsOnceTold(w) ==
    w \notin delivery.to /\ w \in syncing(live_sessions) /\ key(w) \in seeded =>
        told[w] \cap Allowed(PumpPrefs[w]) = read(PumpPrefs[w])
(* What was told, and what is being told, is on the pasteboard. *)
OnlyWhatIsThere(w) ==
    /\ generation[w] # 0 /\ key(w) \notin seeded => told[w] \subseteq pasteboard.kinds
    /\ w \in delivery.to => delivery.contents \subseteq pasteboard.kinds
TellsInv ==
    pasteboard.count = last_seen =>
        \A w \in PumpWindows : /\ CarriesWhatIsMissing(w)
                               /\ KnowsOnceTold(w)
                               /\ OnlyWhatIsThere(w)
PumpInv == PumpTypeOK /\ CountInv /\ FreshInv /\ TellsInv

-----------------------------------------------------------------------------
(* The tick reads as much as the most permissive of the live sessions wants. *)
LEMMA ReadsEnough ==
    ASSUME NEW windows \in SUBSET PumpWindows, NEW w \in windows
    PROVE  Allowed(PumpPrefs[w]) \subseteq Allowed(most_permissive(windows))
<1> DEFINE Most(v) == \A u \in windows : rank(PumpPrefs[u]) <= rank(PumpPrefs[v])
           best == CHOOSE v \in windows : Most(v)
<1>1. \A v \in windows : PumpPrefs[v] \in {"Off", "Text", "TextAndImages"}
    BY PumpAssumption
<1>2. \A v \in windows : rank(PumpPrefs[v]) \in 0 .. 2
    BY <1>1 DEF rank
<1>3. \E v \in windows : Most(v)
    <2>1. CASE \E v \in windows : rank(PumpPrefs[v]) = 2
        BY <2>1, <1>2
    <2>2. CASE /\ \A v \in windows : rank(PumpPrefs[v]) # 2
               /\ \E v \in windows : rank(PumpPrefs[v]) = 1
        BY <2>2, <1>2
    <2>3. CASE \A v \in windows : rank(PumpPrefs[v]) \notin {1, 2}
        BY <2>3, <1>2
    <2> QED BY <2>1, <2>2, <2>3
<1>4. best \in windows /\ rank(PumpPrefs[w]) <= rank(PumpPrefs[best])
    BY <1>3
<1>5. most_permissive(windows) = PumpPrefs[best]
    BY DEF most_permissive
<1> HIDE DEF best
<1> QED BY <1>1, <1>4, <1>5 DEF rank, Allowed, Kinds

LEMMA NothingWanted ==
    ASSUME NEW windows \in SUBSET PumpWindows, most_permissive(windows) = "Off"
    PROVE  syncing(windows) = {}
<1> SUFFICES ASSUME NEW w \in windows, PumpPrefs[w] # "Off" PROVE FALSE
    BY DEF syncing
<1>1. Allowed(PumpPrefs[w]) = {} BY ReadsEnough DEF Allowed
<1> QED BY <1>1, PumpAssumption DEF Allowed, Kinds

-----------------------------------------------------------------------------
(* Types.                                                                  *)
LEMMA TypesAtFirst == PumpInit => PumpTypeOK
<1> SUFFICES ASSUME PumpInit PROVE PumpTypeOK OBVIOUS
<1>1. MaxCopies \in Nat /\ MaxActors \in Nat BY PumpAssumption
<1>2. pasteboard \in [count : 0 .. MaxCopies, kinds : SUBSET Kinds]
    <2> PICK kinds \in SUBSET Kinds : pasteboard = [count |-> 0, kinds |-> kinds]
        BY DEF PumpInit
    <2> QED BY <1>1
<1>3. /\ generation \in [PumpWindows -> 0 .. MaxActors]
      /\ actorsSoFar \in [PumpWindows -> 0 .. MaxActors]
      /\ told \in [PumpWindows -> SUBSET Kinds]
    BY <1>1 DEF PumpInit
<1>4. delivery \in [to : SUBSET PumpWindows, contents : SUBSET Kinds]
    BY DEF PumpInit, NoDelivery
<1>5. last_seen \in 0 .. MaxCopies BY <1>1 DEF PumpInit
<1>6. seeded = {} /\ running \in BOOLEAN /\ stale \in BOOLEAN BY DEF PumpInit
<1> QED BY <1>2, <1>3, <1>4, <1>5, <1>6 DEF PumpTypeOK

LEMMA TypesStay == PumpTypeOK /\ [PumpNext]_pumpVars => PumpTypeOK'
<1> SUFFICES ASSUME PumpTypeOK, [PumpNext]_pumpVars PROVE PumpTypeOK' OBVIOUS
<1> USE DEF PumpTypeOK
<1>0. MaxCopies \in Nat /\ MaxActors \in Nat BY PumpAssumption
<1>1. ASSUME NEW kinds \in SUBSET Kinds, Copy(kinds) PROVE PumpTypeOK'
    BY <1>0, <1>1 DEF Copy
<1>2. ASSUME NEW w \in PumpWindows, ActorStarts(w) PROVE PumpTypeOK'
    <2>1. actorsSoFar[w] + 1 \in 0 .. MaxActors BY <1>0, <1>2 DEF ActorStarts
    <2>2. generation' \in [PumpWindows -> 0 .. MaxActors]
        BY <1>2, <2>1 DEF ActorStarts
    <2>3. actorsSoFar' \in [PumpWindows -> 0 .. MaxActors]
        BY <1>2, <2>1 DEF ActorStarts
    <2>4. told' \in [PumpWindows -> SUBSET Kinds]
        BY <1>2 DEF ActorStarts
    <2> QED BY <1>2, <2>2, <2>3, <2>4 DEF ActorStarts
<1>3. ASSUME NEW w \in PumpWindows, ActorEnds(w) PROVE PumpTypeOK'
    <2>1. generation' \in [PumpWindows -> 0 .. MaxActors]
        BY <1>0, <1>3 DEF ActorEnds
    <2> QED BY <1>3, <2>1 DEF ActorEnds
<1>4. ASSUME NEW w \in PumpWindows, PumpSend(w) PROVE PumpTypeOK'
    BY <1>4 DEF PumpSend
<1>5. ASSUME PumpTick PROVE PumpTypeOK'
    <2>1. \A w \in live_sessions : generation[w] \in 1 .. MaxActors
        BY <1>0 DEF live_sessions
    <2>2. seeded' \subseteq PumpWindows \X (1 .. MaxActors)
        BY <1>5, <2>1 DEF PumpTick, key, live_sessions
    <2>3. /\ read(most_permissive(live_sessions)) \subseteq Kinds
          /\ syncing(live_sessions) \subseteq PumpWindows
        BY DEF read, syncing, live_sessions
    <2>4. delivery' \in [to : SUBSET PumpWindows, contents : SUBSET Kinds]
        BY <1>5, <2>3 DEF PumpTick, NoDelivery
    <2> QED BY <1>0, <1>5, <2>2, <2>4 DEF PumpTick
<1>6. CASE AppQuits BY <1>6 DEF AppQuits
<1>7. CASE UNCHANGED pumpVars BY <1>7 DEF pumpVars
<1> QED BY <1>1, <1>2, <1>3, <1>4, <1>5, <1>6, <1>7 DEF PumpNext

-----------------------------------------------------------------------------
(* What each step leaves of the invariant.                                 *)
LEMMA CopyStep ==
    ASSUME PumpInv, PumpTypeOK', NEW kinds \in SUBSET Kinds, Copy(kinds)
    PROVE  PumpInv'
<1> USE DEF PumpInv, PumpTypeOK
<1>1. CountInv' BY PumpAssumption DEF CountInv, Copy
<1>2. FreshInv' BY DEF FreshInv, Copy
<1>3. pasteboard'.count # last_seen' BY PumpAssumption DEF CountInv, Copy
<1> QED BY <1>1, <1>2, <1>3 DEF TellsInv

LEMMA StartStep ==
    ASSUME PumpInv, PumpTypeOK', NEW w \in PumpWindows, ActorStarts(w)
    PROVE  PumpInv'
<1> USE DEF PumpInv, PumpTypeOK
<1>1. generation'[w] = actorsSoFar[w] + 1 /\ actorsSoFar'[w] = actorsSoFar[w] + 1
    BY DEF ActorStarts
<1>2. \A v \in PumpWindows \ {w} : /\ generation'[v] = generation[v]
                                   /\ actorsSoFar'[v] = actorsSoFar[v]
                                   /\ told'[v] = told[v]
    BY DEF ActorStarts
<1>3. \A v \in PumpWindows : actorsSoFar[v] \in Nat /\ generation[v] \in Nat
    BY PumpAssumption
<1>4. CountInv'
    <2>1. \A s \in seeded : s[1] \in PumpWindows /\ s[2] \in Nat
        BY PumpAssumption
    <2>2. \A s \in seeded : s[2] <= actorsSoFar'[s[1]]
        BY <1>1, <1>2, <1>3, <2>1 DEF CountInv
    <2>3. \A v \in PumpWindows : generation'[v] <= actorsSoFar'[v]
        BY <1>1, <1>2, <1>3 DEF CountInv
    <2> QED BY <2>2, <2>3 DEF CountInv, ActorStarts
<1>5. key(w)' \notin seeded
    <2>1. key(w)' = <<w, actorsSoFar[w] + 1>> BY <1>1 DEF key
    <2> QED BY <1>3, <2>1 DEF CountInv
<1>6. FreshInv' BY DEF FreshInv, ActorStarts
<1>7. ASSUME pasteboard'.count = last_seen', NEW v \in PumpWindows
      PROVE  /\ CarriesWhatIsMissing(v)' /\ KnowsOnceTold(v)' /\ OnlyWhatIsThere(v)'
    <2>1. CarriesWhatIsMissing(v) /\ KnowsOnceTold(v) /\ OnlyWhatIsThere(v)
        BY <1>7 DEF TellsInv, ActorStarts
    <2>2. CASE v = w
        <3>1. told'[w] = {} BY DEF ActorStarts
        <3> QED BY <1>5, <2>1, <2>2, <3>1
             DEF CarriesWhatIsMissing, KnowsOnceTold, OnlyWhatIsThere, ActorStarts
    <2>3. CASE v # w
        BY <1>2, <2>1, <2>3
        DEF CarriesWhatIsMissing, KnowsOnceTold, OnlyWhatIsThere, ActorStarts, key, read,
            syncing, live_sessions
    <2> QED BY <2>2, <2>3
<1> QED BY <1>4, <1>6, <1>7 DEF TellsInv

LEMMA EndStep ==
    ASSUME PumpInv, PumpTypeOK', NEW w \in PumpWindows, ActorEnds(w)
    PROVE  PumpInv'
<1> USE DEF PumpInv, PumpTypeOK
<1>1. generation'[w] = 0 /\ \A v \in PumpWindows \ {w} : generation'[v] = generation[v]
    BY DEF ActorEnds
<1>2. CountInv'
    <2>1. 0 <= actorsSoFar[w] BY PumpAssumption
    <2> QED BY <1>1, <2>1 DEF CountInv, ActorEnds
<1>3. live_sessions' = live_sessions \ {w} BY <1>1 DEF live_sessions
<1>4. FreshInv' BY <1>1, <1>3 DEF FreshInv, ActorEnds, key, live_sessions
<1>5. ASSUME pasteboard'.count = last_seen', NEW v \in PumpWindows
      PROVE  /\ CarriesWhatIsMissing(v)' /\ KnowsOnceTold(v)' /\ OnlyWhatIsThere(v)'
    <2>1. CarriesWhatIsMissing(v) /\ KnowsOnceTold(v) /\ OnlyWhatIsThere(v)
        BY <1>5 DEF TellsInv, ActorEnds
    <2> QED BY <1>1, <1>3, <2>1
         DEF CarriesWhatIsMissing, KnowsOnceTold, OnlyWhatIsThere, ActorEnds, key, read, syncing
<1> QED BY <1>2, <1>4, <1>5 DEF TellsInv

LEMMA TellStep ==
    ASSUME PumpInv, PumpTypeOK', NEW w \in PumpWindows, PumpSend(w)
    PROVE  PumpInv'
<1> USE DEF PumpInv, PumpTypeOK
<1>1. CountInv' BY DEF CountInv, PumpSend
<1>2. FreshInv' BY DEF FreshInv, PumpSend, key, live_sessions
<1>3. /\ delivery'.to = delivery.to \ {w} /\ delivery'.contents = delivery.contents
      /\ w \in delivery.to
    BY DEF PumpSend
<1>4. /\ \A v \in PumpWindows \ {w} : told'[v] = told[v]
      /\ generation[w] # 0 => told'[w] = delivery.contents
    BY DEF PumpSend
<1>5. ASSUME pasteboard'.count = last_seen', NEW v \in PumpWindows
      PROVE  /\ CarriesWhatIsMissing(v)' /\ KnowsOnceTold(v)' /\ OnlyWhatIsThere(v)'
    <2>1. CarriesWhatIsMissing(v) /\ KnowsOnceTold(v) /\ OnlyWhatIsThere(v)
        BY <1>5 DEF TellsInv, PumpSend
    <2>2. live_sessions' = live_sessions /\ key(v)' = key(v)
        BY DEF PumpSend, live_sessions, key
    <2>3. CASE v = w
        BY <1>3, <1>4, <2>1, <2>2, <2>3
        DEF CarriesWhatIsMissing, KnowsOnceTold, OnlyWhatIsThere, PumpSend, read, syncing,
            live_sessions
    <2>4. CASE v # w
        BY <1>3, <1>4, <2>1, <2>2, <2>4
        DEF CarriesWhatIsMissing, KnowsOnceTold, OnlyWhatIsThere, PumpSend, read, syncing,
            live_sessions
    <2> QED BY <2>3, <2>4
<1> QED BY <1>1, <1>2, <1>5 DEF TellsInv

LEMMA TickStep ==
    ASSUME PumpInv, PumpTypeOK', PumpTick
    PROVE  PumpInv'
<1> USE DEF PumpInv, PumpTypeOK
<1> DEFINE level == most_permissive(live_sessions)
           moved == pasteboard.count # last_seen
           fresh == {w \in syncing(live_sessions) : key(w) \notin seeded}
<1>1. /\ delivery.to = {}
      /\ last_seen' = pasteboard.count /\ seeded' = {key(w) : w \in live_sessions}
      /\ pasteboard' = pasteboard /\ generation' = generation /\ told' = told
      /\ actorsSoFar' = actorsSoFar
      /\ delivery' = IF moved /\ level # "Off"
                     THEN [to |-> syncing(live_sessions), contents |-> read(level)]
                     ELSE IF read(level) = {} THEN NoDelivery
                     ELSE [to |-> fresh, contents |-> read(level)]
    BY DEF PumpTick
<1>2. /\ live_sessions' = live_sessions /\ \A w \in PumpWindows : key(w)' = key(w)
      /\ live_sessions \in SUBSET PumpWindows
    BY <1>1 DEF live_sessions, key
<1>3. \A w \in live_sessions : Allowed(PumpPrefs[w]) \subseteq Allowed(level)
    BY <1>2, ReadsEnough
<1>4. CountInv'
    BY <1>1, PumpAssumption DEF CountInv, key, live_sessions
<1>5. FreshInv' BY <1>1, <1>2 DEF FreshInv, live_sessions
<1>6. delivery'.contents \subseteq read(level)
    BY <1>1 DEF NoDelivery
<1>7. read(level) \subseteq pasteboard.kinds BY DEF read
<1>8. \A w \in live_sessions : read(level) \cap Allowed(PumpPrefs[w]) = read(PumpPrefs[w])
    BY <1>3 DEF read
<1>9. delivery'.to # {} => delivery'.contents = read(level)
    BY <1>1 DEF NoDelivery
<1> HIDE DEF level, moved, fresh
<1>10. ASSUME NEW w \in PumpWindows
       PROVE  /\ CarriesWhatIsMissing(w)' /\ KnowsOnceTold(w)' /\ OnlyWhatIsThere(w)'
    <2>1. CarriesWhatIsMissing(w)'
        BY <1>1, <1>8, <1>9 DEF CarriesWhatIsMissing, read, live_sessions
    <2>2. OnlyWhatIsThere(w)'
        <3>1. generation'[w] # 0 => key(w)' \in seeded'
            BY <1>1, <1>2 DEF live_sessions
        <3> QED BY <1>1, <1>6, <1>7, <3>1 DEF OnlyWhatIsThere
    <2>3. KnowsOnceTold(w)'
        <3> SUFFICES ASSUME w \notin delivery'.to, w \in syncing(live_sessions)
                     PROVE  told[w] \cap Allowed(PumpPrefs[w]) = read(PumpPrefs[w])
            BY <1>1, <1>2 DEF KnowsOnceTold, read, syncing
        <3>1. w \in live_sessions /\ generation[w] # 0
            BY DEF syncing, live_sessions
        <3>2. level # "Off" BY <1>2, NothingWanted DEF level
        <3>3. ~moved BY <1>1, <3>2
        <3>4. KnowsOnceTold(w) /\ OnlyWhatIsThere(w)
            BY <3>3 DEF TellsInv, moved
        <3>5. CASE key(w) \in seeded
            BY <1>1, <3>4, <3>5 DEF KnowsOnceTold
        <3>6. CASE key(w) \notin seeded
            <4>1. w \in fresh BY <3>6 DEF fresh
            <4>2. read(level) = {} BY <1>1, <3>3, <4>1
            <4>3. read(PumpPrefs[w]) = {} BY <1>8, <3>1, <4>2
            <4>4. told[w] \subseteq pasteboard.kinds
                BY <3>1, <3>4, <3>6 DEF OnlyWhatIsThere
            <4> QED BY <4>3, <4>4 DEF read
        <3> QED BY <3>5, <3>6
    <2> QED BY <2>1, <2>2, <2>3
<1> QED BY <1>4, <1>5, <1>10 DEF TellsInv

-----------------------------------------------------------------------------
LEMMA PumpInvHolds == PumpSpec => []PumpInv
<1>1. PumpInit => PumpInv
    <2> SUFFICES ASSUME PumpInit PROVE PumpInv OBVIOUS
    <2>1. PumpTypeOK BY TypesAtFirst
    <2>2. CountInv BY PumpAssumption DEF CountInv, PumpInit
    <2>3. FreshInv BY DEF FreshInv, PumpInit, live_sessions
    <2>4. TellsInv
        BY DEF TellsInv, CarriesWhatIsMissing, KnowsOnceTold, OnlyWhatIsThere, PumpInit,
               NoDelivery
    <2> QED BY <2>1, <2>2, <2>3, <2>4 DEF PumpInv
<1>2. PumpInv /\ [PumpNext]_pumpVars => PumpInv'
    <2> SUFFICES ASSUME PumpInv, [PumpNext]_pumpVars PROVE PumpInv' OBVIOUS
    <2>0. PumpTypeOK' BY TypesStay DEF PumpInv
    <2>1. CASE \E kinds \in SUBSET Kinds : Copy(kinds) BY <2>0, <2>1, CopyStep
    <2>2. CASE \E w \in PumpWindows : ActorStarts(w) BY <2>0, <2>2, StartStep
    <2>3. CASE \E w \in PumpWindows : ActorEnds(w) BY <2>0, <2>3, EndStep
    <2>4. CASE \E w \in PumpWindows : PumpSend(w) BY <2>0, <2>4, TellStep
    <2>5. CASE PumpTick BY <2>0, <2>5, TickStep
    <2>6. CASE AppQuits \/ UNCHANGED pumpVars
        <3>1. UNCHANGED <<pasteboard, last_seen, seeded, generation, actorsSoFar, delivery,
                          told, stale>>
            BY <2>6 DEF AppQuits, pumpVars
        <3>2. CountInv' /\ FreshInv'
            BY <3>1 DEF PumpInv, CountInv, FreshInv, live_sessions, key
        <3>3. TellsInv'
            BY <3>1 DEF PumpInv, TellsInv, CarriesWhatIsMissing, KnowsOnceTold,
                        OnlyWhatIsThere, read, syncing, live_sessions, key
        <3> QED BY <2>0, <3>2, <3>3 DEF PumpInv
    <2> QED BY <2>1, <2>2, <2>3, <2>4, <2>5, <2>6 DEF PumpNext
<1> QED BY <1>1, <1>2, PTL DEF PumpSpec

(* After a tick that no copy and no new actor overtook, every live session that
   syncs knows what the pasteboard holds of the kinds its preference allows:
   ClipboardPump::tick forgets nobody, whichever windows came, went or had their
   actor replaced while it, or an earlier one, was sending. *)
THEOREM NewestCopyIsKnown == PumpSpec => []EverySessionKnows
<1>1. PumpInv => EverySessionKnows
    <2> SUFFICES ASSUME PumpInv, ~stale, delivery.to = {},
                        NEW w \in syncing(live_sessions)
                 PROVE  told[w] \cap Allowed(PumpPrefs[w]) = read(PumpPrefs[w])
        BY DEF EverySessionKnows
    <2>1. w \in live_sessions /\ w \in PumpWindows BY DEF syncing, live_sessions
    <2>2. key(w) \in seeded /\ pasteboard.count = last_seen
        BY <2>1 DEF PumpInv, FreshInv
    <2> QED BY <2>1, <2>2 DEF PumpInv, TellsInv, KnowsOnceTold
<1> QED BY <1>1, PumpInvHolds, PTL

-----------------------------------------------------------------------------
(* Shell.  Whatever is out of date has a closure on its way that will look  *)
(* at the manager again, or belongs to a session whose first report will    *)
(* queue one.                                                               *)

View == [screen : ShellScreens \cup {"Profiles"}, show_stats : BOOLEAN, stats : BOOLEAN]

\* What is in a queue.
Elements(queue) == {queue[i] : i \in DOMAIN queue}
Waiting == Elements(mainq)
Awaits(op, w) == \E e \in Waiting : e.op = op /\ e.window = w
AwaitsAny(op) == \E e \in Waiting : e.op = op

-----------------------------------------------------------------------------
(* The invariant. *)

\* What a closing task has yet to queue.
Closings == {<<>>, <<"refresh">>, <<"destroy", "refresh">>, <<"release", "destroy", "refresh">>}
WillDestroy(todo) == todo \in {<<"destroy", "refresh">>, <<"release", "destroy", "refresh">>}
DestroyComing(w) == Awaits("destroy", w) \/ WillDestroy(closer[w])

Fronts == {"Webview", "Overlay", "Remote", "Banner", "Stats"}
ManagerTypes ==
  /\ slots \in [ShellWindows -> {Unset} \cup View]
  /\ acting \subseteq ShellWindows /\ building \subseteq ShellWindows
  /\ stage \in [ShellWindows -> {"new", "starting", "shown", "closing", "gone"}]
  /\ closer \in [ShellWindows -> Closings]
WindowTypes ==
  /\ surface \in [ShellWindows -> Fronts]
  /\ responder \in [ShellWindows -> {"Page", "Remote", "Titlebar"}]
  /\ identity = [w \in ShellWindows |-> identity[w]]
ShellTypes ==
  /\ alive \subseteq ShellWindows
  /\ throttle \in [visible : BOOLEAN, sampled : SUBSET ShellWindows]
TypeInv == ManagerTypes /\ WindowTypes /\ ShellTypes /\ mainq \in Seq(Waiting)

\* A session's window is open, and the session that ended says why; a window that is closing has
\* no session and never again gets one.
WindowInv(w) ==
  /\ slots[w] # Unset => stage[w] \in {"starting", "shown"}
  /\ w \in acting => slots[w] # Unset
  /\ slots[w] # Unset /\ w \notin acting => slots[w].screen = "Error"
  /\ w \in building => stage[w] # "new"
  /\ closer[w] # <<>> => slots[w] = Unset /\ stage[w] \in {"closing", "gone"}

\* A queued view shows the screen of its session, or the window is on its way out; what destroys
\* or discards a window finds no session there.
EntryInv(e) ==
  /\ e.op \in {"apply", "show", "discard", "release", "destroy"} => e.window \in ShellWindows
  /\ e.op \in {"apply", "show", "discard"} => stage[e.window] # "new"
  /\ e.op \in {"discard", "destroy"} => slots[e.window] = Unset
  /\ e.op = "destroy" => closer[e.window] # <<>>
  /\ e.op = "apply" /\ slots[e.window] # Unset =>
       e.window \in acting /\ e.view.screen = slots[e.window].screen
  /\ e.op = "apply" /\ slots[e.window] = Unset /\ Registered(e.window) => DestroyComing(e.window)
  /\ e.op = "release" /\ slots[e.window] # Unset => slots[e.window].screen \in {"Error", "Profiles"}

ManagerInv == /\ \A w \in ShellWindows : WindowInv(w)
              /\ \A e \in Waiting : EntryInv(e)

\* A session that has not reported since it was started.
Unreported(w) == slots[w] # Unset /\ slots[w].screen = "Profiles"

IdentityInv(w) ==
  slots[w] # Unset => \/ identity[w] = IdentityOf(slots[w])
                      \/ Awaits("apply", w) \/ Awaits("show", w) \/ w \in building \/ Unreported(w)
SurfaceInv(w) ==
  slots[w] # Unset => \/ focus_for(surface[w]) = focus_for(surface_for(slots[w]))
                      \/ Awaits("apply", w) \/ Unreported(w)
ResponderInv(w) ==
  stage[w] # "gone" => \/ responder[w] = focus_for(surface[w])
                       \/ stage[w] # "new" /\ Awaits("content", w)
WindowsInv == \A w \in ShellWindows : IdentityInv(w) /\ SurfaceInv(w) /\ ResponderInv(w)

AliveInv(w) == IF slots[w] # Unset
                 THEN (w \in alive <=> status_for(slots[w]) = "Live") \/ Awaits("apply", w)
                 ELSE w \in alive => DestroyComing(w)
SampledInv(w) ==
  throttle.visible /\ w \in alive /\ w \in Live(slots) => w \in throttle.sampled \/ AwaitsAny("tick")
LiveInv == \A w \in ShellWindows : AliveInv(w) /\ SampledInv(w)

\* Something is on its way that ends with refresh_shell.
ShellComing ==
  \/ \E e \in Waiting : e.op \in {"refresh", "discard", "show"} \/ (e.op = "apply" /\ Registered(e.window))
  \/ building # {}
  \/ \E w \in ShellWindows : closer[w] # <<>> \/ Unreported(w)
MenuInv == /\ menu = menu_spec(slots, keyed) \/ AwaitsAny("menus") \/ ShellComing
           /\ gallery = connections(slots) \/ ShellComing

ShellInv == TypeInv /\ ManagerInv /\ WindowsInv /\ LiveInv /\ MenuInv

-----------------------------------------------------------------------------
(* Queues. *)

LEMMA AppendElements ==
  ASSUME NEW queue, queue \in Seq(Elements(queue)), NEW c
  PROVE  /\ Elements(Append(queue, c)) = Elements(queue) \cup {c}
         /\ Append(queue, c) \in Seq(Elements(Append(queue, c)))
<1> DEFINE S == Elements(queue) \cup {c}
           longer == Append(queue, c)
<1>1. queue \in Seq(S) /\ c \in S
  BY DEF Elements
<1>2. longer \in Seq(S) /\ DOMAIN longer = 1 .. Len(queue) + 1 /\ DOMAIN queue = 1 .. Len(queue)
  BY <1>1
<1>3. longer[Len(queue) + 1] = c /\ \A i \in 1 .. Len(queue) : longer[i] = queue[i]
  BY <1>1
<1>4. Len(queue) \in Nat
  BY <1>1
<1>5. Elements(longer) \subseteq S
  BY <1>2, <1>3, <1>4 DEF Elements
<1>6. S \subseteq Elements(longer)
  BY <1>2, <1>3, <1>4 DEF Elements
<1> QED
  BY <1>2, <1>5, <1>6

LEMMA TailElements ==
  ASSUME NEW queue, queue \in Seq(Elements(queue)), queue # <<>>
  PROVE  /\ Head(queue) \in Elements(queue)
         /\ Elements(Tail(queue)) \subseteq Elements(queue)
         /\ Elements(queue) \ {Head(queue)} \subseteq Elements(Tail(queue))
         /\ Tail(queue) \in Seq(Elements(Tail(queue)))
<1> DEFINE S == Elements(queue)
           rest == Tail(queue)
<1>1. Len(queue) \in Nat \ {0} /\ DOMAIN queue = 1 .. Len(queue) /\ Head(queue) = queue[1]
  OBVIOUS
<1>2. rest \in Seq(S) /\ Len(rest) = Len(queue) - 1 /\ DOMAIN rest = 1 .. Len(queue) - 1
  BY <1>1
<1>3. \A i \in 1 .. Len(queue) - 1 : rest[i] = queue[i + 1]
  BY <1>1
<1>4. Head(queue) \in S /\ Elements(rest) \subseteq S
  BY <1>1, <1>2, <1>3 DEF Elements
<1>5. ASSUME NEW e \in S, e # Head(queue) PROVE e \in Elements(rest)
  <2>1. PICK i \in 1 .. Len(queue) : queue[i] = e
    BY <1>1, <1>5 DEF Elements
  <2>2. i - 1 \in DOMAIN rest /\ rest[i - 1] = e
    BY <1>1, <1>2, <1>3, <1>5, <2>1
  <2> QED
    BY <2>2 DEF Elements
<1>6. \A i \in 1 .. Len(queue) - 1 : rest[i] \in Elements(rest)
  BY <1>2 DEF Elements
<1>7. Len(rest) = Len(queue) - 1 /\ rest \in Seq(S) /\ Len(queue) - 1 \in Nat
  BY <1>1, <1>2
<1>8. rest \in Seq(Elements(rest))
  <2> HIDE DEF rest, S
  <2>1. rest \in [1 .. Len(queue) - 1 -> S]
    BY <1>7, LenProperties
  <2>2. rest \in [1 .. Len(queue) - 1 -> Elements(rest)]
    BY <1>6, <2>1
  <2> QED
    BY <1>7, <2>2
<1> QED
  BY <1>4, <1>5, <1>8

\* A step takes what is in gone out of the queue, which may hold it twice, and puts what is in new into it.
Step(gone, new) == /\ Waiting' \subseteq Waiting \cup new
                   /\ (Waiting \ gone) \cup new \subseteq Waiting'
                   /\ mainq' \in Seq(Waiting')
First == IF mainq = <<>> THEN {} ELSE {Head(mainq)}

LEMMA QueueSteps ==
  ASSUME TypeInv
  PROVE  /\ UNCHANGED mainq => Step({}, {})
         /\ \A c : mainq' = Append(mainq, c) => Step({}, {c})
         /\ mainq # <<>> =>
              /\ Head(mainq) \in Waiting
              /\ Ran => Step({Head(mainq)}, {})
              /\ \A c : mainq' = Append(Tail(mainq), c) => Step({Head(mainq)}, {c})
<1> USE DEF Step, Waiting
<1>1. mainq \in Seq(Elements(mainq))
  BY DEF TypeInv
<1>2. UNCHANGED mainq => Step({}, {})
  BY <1>1
<1>3. ASSUME NEW c, mainq' = Append(mainq, c) PROVE Step({}, {c})
  <2>1. Elements(mainq') = Elements(mainq) \cup {c} /\ mainq' \in Seq(Elements(mainq'))
    BY <1>1, <1>3, AppendElements, Zenon
  <2> QED
    BY <2>1
<1>4. ASSUME mainq # <<>> PROVE Head(mainq) \in Waiting
  BY <1>1, <1>4, TailElements, Zenon
<1>5. ASSUME mainq # <<>>, Ran PROVE Step({Head(mainq)}, {})
  BY <1>1, <1>5, TailElements, Zenon DEF Ran
<1>6. ASSUME mainq # <<>>, NEW c, mainq' = Append(Tail(mainq), c) PROVE Step({Head(mainq)}, {c})
  <2>1. Tail(mainq) \in Seq(Elements(Tail(mainq)))
    BY <1>1, <1>6, TailElements, Zenon
  <2>2. Elements(mainq') = Elements(Tail(mainq)) \cup {c} /\ mainq' \in Seq(Elements(mainq'))
    BY <1>6, <2>1, AppendElements, Zenon
  <2>3. Elements(Tail(mainq)) \subseteq Waiting /\ Waiting \ {Head(mainq)} \subseteq Elements(Tail(mainq))
    BY <1>1, <1>6, TailElements, Zenon
  <2> QED
    BY <2>2, <2>3
<1> QED
  BY <1>2, <1>3, <1>4, <1>5, <1>6

Menus == Closure("menus", Unset)

LEMMA KeySteps ==
  ASSUME TypeInv, NEW to
  PROVE  /\ KeyMoves(to, mainq) => \/ keyed' = keyed /\ Step({}, {})
                                   \/ Step({}, {Menus})
         /\ mainq # <<>> /\ KeyMoves(to, Tail(mainq)) =>
              \/ keyed' = keyed /\ Step({Head(mainq)}, {})
              \/ Step({Head(mainq)}, {Menus})
BY QueueSteps DEF KeyMoves, request_menu_refresh, Menus, Ran

LEMMA ClosureFacts ==
  ASSUME NEW op, NEW w, NEW view
  PROVE  /\ Closure(op, w).op = op /\ Closure(op, w).window = w
         /\ Apply(w, view).op = "apply" /\ Apply(w, view).window = w /\ Apply(w, view).view = view
         /\ Menus.op = "menus"
BY DEF Closure, Apply, Menus

-----------------------------------------------------------------------------
(* The sessions, their windows and what is queued about them. *)

\* A closure that says nothing the invariant restricts.
Plain == {"refresh", "focus", "content", "menus", "sheet", "connections", "hide", "tick"}

LEMMA ManagerRests ==
  ASSUME TypeInv, ManagerInv, UNCHANGED managerSide, NEW gone, NEW new, Step(gone, new),
         \A e \in new : e.op \in Plain, \A e \in gone : e.op # "destroy"
  PROVE  ManagerInv'
<1>1. \A w \in ShellWindows : WindowInv(w)'
  BY DEF ManagerInv, WindowInv, managerSide
<1>2. \A w : DestroyComing(w) => DestroyComing(w)'
  BY DEF DestroyComing, Awaits, Step, managerSide, WillDestroy
<1>3. ASSUME NEW e \in Waiting' PROVE EntryInv(e)'
  <2>1. CASE e \in new
    BY <2>1 DEF EntryInv, Plain
  <2>2. CASE e \in Waiting
    BY <1>2, <2>2 DEF ManagerInv, EntryInv, managerSide, Registered
  <2> QED
    BY <2>1, <2>2 DEF Step
<1> QED
  BY <1>1, <1>3 DEF ManagerInv

-----------------------------------------------------------------------------
(* What a step leaves alone stays current. *)

LEMMA WindowsRest ==
  ASSUME TypeInv, WindowsInv, UNCHANGED <<slots, stage, building, windowSide>>,
         NEW gone, NEW new, Step(gone, new),
         \A e \in gone : e.op \notin {"apply", "show", "content"}
  PROVE  WindowsInv'
<1>1. \A w : \A op \in {"apply", "show", "content"} : Awaits(op, w) => Awaits(op, w)'
  BY DEF Awaits, Step
<1> QED
  BY <1>1 DEF WindowsInv, IdentityInv, SurfaceInv, ResponderInv, Unreported, windowSide

LEMMA LiveRests ==
  ASSUME TypeInv, LiveInv, UNCHANGED <<slots, closer, alive, throttle>>,
         NEW gone, NEW new, Step(gone, new),
         \A e \in gone : e.op \notin {"apply", "destroy", "tick"}
  PROVE  LiveInv'
<1>1. \A w : \A op \in {"apply", "destroy"} : Awaits(op, w) => Awaits(op, w)'
  BY DEF Awaits, Step
<1>2. AwaitsAny("tick") => AwaitsAny("tick")'
  BY DEF AwaitsAny, Step
<1>3. \A w : DestroyComing(w) => DestroyComing(w)'
  BY <1>1 DEF DestroyComing, WillDestroy
<1>4. ASSUME NEW w \in ShellWindows PROVE AliveInv(w)'
  BY <1>1, <1>3 DEF LiveInv, AliveInv
<1>5. ASSUME NEW w \in ShellWindows PROVE SampledInv(w)'
  BY <1>2 DEF LiveInv, SampledInv, Live, Listed
<1> QED
  BY <1>4, <1>5 DEF LiveInv

LEMMA MenuRests ==
  ASSUME TypeInv, MenuInv, UNCHANGED <<slots, stage, building, closer, menu, gallery>>,
         NEW gone, NEW new, Step(gone, new),
         \A e \in gone : e.op \notin {"apply", "show", "discard", "refresh", "menus"},
         UNCHANGED keyed \/ Menus \in new
  PROVE  MenuInv'
<1>1. ShellComing => ShellComing'
  BY DEF ShellComing, Step, Registered, Unreported
<1>2. AwaitsAny("menus") => AwaitsAny("menus")'
  BY DEF AwaitsAny, Step
<1>3. Menus \in new => AwaitsAny("menus")'
  BY ClosureFacts DEF AwaitsAny, Step
<1>4. UNCHANGED keyed => (menu = menu_spec(slots, keyed) => menu' = menu_spec(slots', keyed'))
  OBVIOUS
<1>5. gallery = connections(slots) => gallery' = connections(slots')
  OBVIOUS
<1> QED
  BY <1>1, <1>2, <1>3, <1>4, <1>5 DEF MenuInv

\* Nothing but the queue and the key window changes.
LEMMA QuietShellStep ==
  ASSUME ShellInv, UNCHANGED <<managerSide, windowSide, shellSide>>,
         NEW gone, NEW new, Step(gone, new),
         \A e \in gone : e.op \in {"focus", "sheet", "connections", "hide"},
         \A e \in new : e.op \in Plain,
         UNCHANGED keyed \/ Menus \in new
  PROVE  ShellInv'
<1>1. TypeInv'
  BY DEF ShellInv, TypeInv, ManagerTypes, WindowTypes, ShellTypes, managerSide, windowSide, shellSide, Step
<1>2. ManagerInv'
  BY ManagerRests DEF ShellInv
<1>3. WindowsInv'
  BY WindowsRest DEF ShellInv, managerSide
<1>4. LiveInv'
  BY LiveRests DEF ShellInv, managerSide, shellSide
<1>5. MenuInv'
  BY MenuRests DEF ShellInv, managerSide, shellSide
<1> QED
  BY <1>1, <1>2, <1>3, <1>4, <1>5 DEF ShellInv

LEMMA QuietRuns ==
  ASSUME ShellInv, RunSheet \/ RunConnections \/ RunHide
  PROVE  ShellInv'
<1> USE DEF ShellInv
<1>1. mainq # <<>> /\ Head(mainq).op \in {"sheet", "connections", "hide"}
  BY DEF RunSheet, RunConnections, RunHide, Runs
<1>2. \/ \E to : KeyMoves(to, Tail(mainq))
      \/ Ran /\ UNCHANGED keyed
  BY DEF RunSheet, RunConnections, RunHide
<1>3. UNCHANGED <<managerSide, windowSide, shellSide>>
  BY DEF RunSheet, RunConnections, RunHide
<1>4. \/ keyed' = keyed /\ Step({Head(mainq)}, {})
      \/ Step({Head(mainq)}, {Menus})
  BY <1>1, <1>2, KeySteps, QueueSteps
<1> QED
  BY <1>1, <1>3, <1>4, QuietShellStep, ClosureFacts DEF Plain

LEMMA QuietClicks ==
  ASSUME ShellInv, NEW w, NEW to,
         \/ MakeKey(to) \/ HideConnections \/ SelectSession(w) \/ ChooseFromDock(w) \/ ShowConnections
         \/ UNCHANGED shellVars
  PROVE  ShellInv'
<1> USE DEF ShellInv
<1>1. \/ KeyMoves(to, mainq)
      \/ UNCHANGED keyed /\ UNCHANGED mainq
      \/ UNCHANGED keyed /\ (\E v : \E op \in Plain : Defer(op, v))
  BY DEF MakeKey, HideConnections, SelectSession, ChooseFromDock, ShowConnections, shellVars, Plain
<1>2. UNCHANGED <<managerSide, windowSide, shellSide>>
  BY DEF MakeKey, HideConnections, SelectSession, ChooseFromDock, ShowConnections, shellVars
<1>3. CASE KeyMoves(to, mainq)
  BY <1>2, <1>3, KeySteps, QuietShellStep, ClosureFacts DEF Plain
<1>4. CASE UNCHANGED keyed /\ UNCHANGED mainq
  BY <1>2, <1>4, QueueSteps, QuietShellStep
<1>5. CASE UNCHANGED keyed /\ (\E v : \E op \in Plain : Defer(op, v))
  <2>1. PICK v, op : op \in Plain /\ mainq' = Append(mainq, Closure(op, v))
    BY <1>5 DEF Defer
  <2>2. Step({}, {Closure(op, v)})
    BY <2>1, QueueSteps
  <2>3. \A e \in {Closure(op, v)} : e.op \in Plain
    BY <2>1, ClosureFacts
  <2>4. UNCHANGED keyed
    BY <1>5
  <2> QED
    BY <1>2, <2>2, <2>3, <2>4, QuietShellStep
<1> QED
  BY <1>1, <1>3, <1>4, <1>5

-----------------------------------------------------------------------------
(* The keyboard owner of a window. *)

LEMMA FocusFacts ==
  ASSUME NEW view
  PROVE  /\ surface_for(view) \in Fronts
         /\ focus_for(surface_for(view)) = IF view.screen \in {"Live", "GreeterHint"} THEN "Remote" ELSE "Page"
         /\ \A front : focus_for(front) \in {"Page", "Remote"}
BY DEF surface_for, hud_for, focus_for, Fronts

\* A closure that gives a window's content the keyboard, or does nothing for a window that is not there.
LEMMA ContentFocused ==
  ASSUME ShellInv, mainq # <<>>, Head(mainq).op \in {"focus", "content"},
         NEW new, Step({Head(mainq)}, new), \A e \in new : e.op \in Plain,
         UNCHANGED keyed \/ Menus \in new,
         IF Registered(Target) THEN focus_surface(Target) ELSE UNCHANGED responder,
         UNCHANGED <<managerSide, surface, identity, shellSide>>
  PROVE  ShellInv'
<1> USE DEF ShellInv
<1>1. TypeInv'
  <2>1. responder' \in [ShellWindows -> {"Page", "Remote", "Titlebar"}]
    BY FocusFacts DEF TypeInv, WindowTypes, focus_surface
  <2> QED
    BY <2>1 DEF TypeInv, ManagerTypes, WindowTypes, ShellTypes, managerSide, shellSide, Step
<1>2. ManagerInv'
  BY ManagerRests
<1>3. ASSUME NEW w \in ShellWindows PROVE IdentityInv(w)' /\ SurfaceInv(w)'
  <2>1. \A op \in {"apply", "show"} : Awaits(op, w) => Awaits(op, w)'
    BY DEF Awaits, Step
  <2> QED
    BY <2>1 DEF WindowsInv, IdentityInv, SurfaceInv, Unreported, managerSide
<1>4. ASSUME NEW w \in ShellWindows PROVE ResponderInv(w)'
  <2>1. CASE w # Target
    <3>1. responder'[w] = responder[w]
      BY <2>1 DEF focus_surface, TypeInv, WindowTypes
    <3>2. Awaits("content", w) => Awaits("content", w)'
      BY <2>1 DEF Awaits, Step, Target
    <3> QED
      BY <3>1, <3>2 DEF WindowsInv, ResponderInv, managerSide
  <2>2. CASE w = Target /\ Registered(w)
    <3>1. responder'[w] = focus_for(surface[w])
      BY <2>2 DEF focus_surface, TypeInv, WindowTypes
    <3> QED
      BY <3>1 DEF ResponderInv
  <2>3. CASE w = Target /\ ~Registered(w)
    <3>1. stage[w] \in {"new", "gone"} /\ responder' = responder
      BY <2>3 DEF Registered, TypeInv, ManagerTypes
    <3> QED
      BY <3>1 DEF WindowsInv, ResponderInv, managerSide
  <2> QED
    BY <2>1, <2>2, <2>3
<1>5. LiveInv'
  BY LiveRests DEF managerSide, shellSide
<1>6. MenuInv'
  BY MenuRests DEF managerSide, shellSide
<1> QED
  BY <1>1, <1>2, <1>3, <1>4, <1>5, <1>6 DEF WindowsInv

LEMMA FocusRuns ==
  ASSUME ShellInv, RunFocus \/ RunContent
  PROVE  ShellInv'
<1>1. CASE RunContent
  <2>1. mainq # <<>> /\ Head(mainq).op = "content" /\ Step({Head(mainq)}, {})
    BY <1>1, QueueSteps DEF RunContent, Runs, ShellInv
  <2>2. IF Registered(Target) THEN focus_surface(Target) ELSE UNCHANGED responder
    BY <1>1 DEF RunContent
  <2>3. UNCHANGED <<managerSide, surface, identity, shellSide>> /\ UNCHANGED keyed
    BY <1>1 DEF RunContent
  <2>4. \A e \in {} : e.op \in Plain
    OBVIOUS
  <2>6. UNCHANGED keyed \/ Menus \in {}
    BY <2>3
  <2>5. Head(mainq).op \in {"focus", "content"}
    BY <2>1
  <2> QED
    BY <2>1, <2>2, <2>3, <2>4, <2>5, <2>6, ContentFocused
<1>2. CASE RunFocus
  <2>1. mainq # <<>> /\ Head(mainq).op = "focus"
    BY <1>2 DEF RunFocus, Runs
  <2>2. \/ keyed' = keyed /\ Step({Head(mainq)}, {})
        \/ Step({Head(mainq)}, {Menus})
    BY <1>2, <2>1, QueueSteps, KeySteps DEF RunFocus, ShellInv
  <2>3. IF Registered(Target) THEN focus_surface(Target) ELSE UNCHANGED responder
    BY <1>2 DEF RunFocus
  <2>4. UNCHANGED <<managerSide, surface, identity, shellSide>>
    BY <1>2 DEF RunFocus
  <2>5. Head(mainq).op \in {"focus", "content"} /\ \A e \in {} : e.op \in Plain
    BY <2>1
  <2>6. Menus \in {Menus} /\ \A e \in {Menus} : e.op \in Plain
    BY ClosureFacts DEF Plain
  <2>7. CASE keyed' = keyed /\ Step({Head(mainq)}, {})
    BY <2>1, <2>7, <2>3, <2>4, <2>5, ContentFocused
  <2>8. CASE Step({Head(mainq)}, {Menus})
    BY <2>1, <2>8, <2>3, <2>4, <2>5, <2>6, ContentFocused, Zenon
  <2> QED
    BY <2>2, <2>7, <2>8
<1> QED
  BY <1>1, <1>2

\* The title bar asks for the keyboard, and gives it to the content next.
LEMMA TitlebarClicked ==
  ASSUME ShellInv, NEW w \in ShellWindows, ClickTitlebar(w)
  PROVE  ShellInv'
<1> USE DEF ShellInv
<1> DEFINE asks == Closure("content", w)
<1>1. UNCHANGED <<managerSide, sheets, surface, identity, shellSide>> /\ stage[w] = "shown"
  BY DEF ClickTitlebar
<1>2. PICK new : /\ Step({}, new) /\ asks \in new /\ \A e \in new : e.op \in Plain
                 /\ UNCHANGED keyed \/ Menus \in new
  <2>1. CASE keyed = w
    <3>1. Step({}, {asks}) /\ UNCHANGED keyed
      BY <2>1, QueueSteps DEF ClickTitlebar
    <3> QED
      BY <3>1, ClosureFacts DEF Plain
  <2>2. CASE keyed # w
    <3>1. mainq' = Append(Append(mainq, Menus), asks)
      BY <2>2 DEF ClickTitlebar, request_menu_refresh, Menus
    <3> DEFINE queue == Append(mainq, Menus)
    <3>2. Elements(queue) = Waiting \cup {Menus} /\ queue \in Seq(Elements(queue))
      BY AppendElements DEF TypeInv, Waiting
    <3>3. Elements(mainq') = Elements(queue) \cup {asks} /\ mainq' \in Seq(Elements(mainq'))
      <4> HIDE DEF queue, asks
      <4>1. mainq' = Append(queue, asks)
        BY <3>1 DEF queue
      <4> QED
        BY <3>2, <4>1, AppendElements
    <3>4. Step({}, {Menus, asks})
      BY <3>2, <3>3 DEF Step, Waiting
    <3> QED
      BY <3>4, ClosureFacts DEF Plain
  <2> QED
    BY <2>1, <2>2
<1>3. responder' = [responder EXCEPT ![w] = "Titlebar"]
  BY DEF ClickTitlebar
<1>4. TypeInv'
  BY <1>1, <1>2, <1>3 DEF TypeInv, ManagerTypes, WindowTypes, ShellTypes, managerSide, shellSide, Step
<1>5. ManagerInv'
  BY <1>1, <1>2, ManagerRests
<1>6. ASSUME NEW v \in ShellWindows PROVE IdentityInv(v)' /\ SurfaceInv(v)' /\ ResponderInv(v)'
  <2>1. \A op \in {"apply", "show", "content"} : Awaits(op, v) => Awaits(op, v)'
    BY <1>2 DEF Awaits, Step
  <2>2. Awaits("content", w)' /\ stage'[w] # "new"
    BY <1>1, <1>2, ClosureFacts DEF Awaits, Step, managerSide
  <2>3. IdentityInv(v)' /\ SurfaceInv(v)'
    BY <1>1, <2>1 DEF WindowsInv, IdentityInv, SurfaceInv, Unreported, managerSide
  <2>4. ResponderInv(v)'
    BY <1>1, <1>3, <2>1, <2>2 DEF WindowsInv, ResponderInv, managerSide, TypeInv, WindowTypes
  <2> QED
    BY <2>3, <2>4
<1>7. LiveInv'
  BY <1>1, <1>2, LiveRests DEF managerSide, shellSide
<1>8. MenuInv'
  BY <1>1, <1>2, MenuRests DEF managerSide, shellSide
<1> QED
  BY <1>4, <1>5, <1>6, <1>7, <1>8 DEF WindowsInv

-----------------------------------------------------------------------------
(* Menus and gallery. *)

LEMMA MenuRuns ==
  ASSUME ShellInv, RunMenus \/ RunRefresh
  PROVE  ShellInv'
<1> USE DEF ShellInv
<1>1. /\ mainq # <<>> /\ Head(mainq).op \in {"menus", "refresh"}
      /\ UNCHANGED <<managerSide, keyed, sheets, windowSide, alive, throttle>>
      /\ Ran
  BY DEF RunMenus, RunRefresh, Runs
<1>2. Step({Head(mainq)}, {})
  BY <1>1, QueueSteps
<1>3. TypeInv'
  BY <1>1, <1>2 DEF TypeInv, ManagerTypes, WindowTypes, ShellTypes, managerSide, windowSide, Step
<1>4. ManagerInv'
  BY <1>1, <1>2, ManagerRests
<1>5. WindowsInv'
  BY <1>1, <1>2, WindowsRest DEF managerSide
<1>6. LiveInv'
  BY <1>1, <1>2, LiveRests DEF managerSide
<1>7. MenuInv'
  <2>1. CASE RunRefresh
    BY <2>1 DEF RunRefresh, refresh_shell, push_connections, refresh_menus, MenuInv, managerSide
  <2>2. CASE RunMenus
    <3>1. Head(mainq).op = "menus" /\ gallery' = gallery
      BY <2>2 DEF RunMenus, Runs
    <3>2. menu' = menu_spec(slots', keyed') /\ slots' = slots
      BY <2>2 DEF RunMenus, refresh_menus, managerSide
    <3>3. ShellComing => ShellComing'
      BY <1>1, <1>2, <3>1 DEF ShellComing, Step, Registered, Unreported, managerSide
    <3> QED
      BY <3>1, <3>2, <3>3 DEF MenuInv
  <2> QED
    BY <2>1, <2>2
<1> QED
  BY <1>3, <1>4, <1>5, <1>6, <1>7

\* A window's closures refresh all of the shell.
LEMMA Refreshed ==
  ASSUME refresh_shell(slots', keyed')
  PROVE  MenuInv'
BY DEF refresh_shell, push_connections, refresh_menus, MenuInv

-----------------------------------------------------------------------------
(* The sampling of previews. *)

\* A step that moves only the throttle and the queue's ticks.
LEMMA ThrottleMoves ==
  ASSUME ShellInv, UNCHANGED <<managerSide, keyed, windowSide, menu, gallery, alive>>,
         NEW gone, NEW new, Step(gone, new),
         \A e \in gone : e.op = "tick", \A e \in new : e.op = "tick",
         throttle' \in [visible : BOOLEAN, sampled : SUBSET ShellWindows],
         \/ throttle'.visible => Live(slots) \subseteq throttle'.sampled
         \/ \E e \in new : e.op = "tick"
  PROVE  ShellInv'
<1> USE DEF ShellInv
<1>1. TypeInv'
  BY DEF TypeInv, ManagerTypes, WindowTypes, ShellTypes, managerSide, windowSide, Step
<1>2. ManagerInv'
  BY ManagerRests DEF Plain
<1>3. WindowsInv'
  BY WindowsRest DEF managerSide
<1>4. MenuInv'
  BY MenuRests DEF managerSide
<1>5. ASSUME NEW w \in ShellWindows PROVE AliveInv(w)'
  <2>1. \A op \in {"apply", "destroy"} : Awaits(op, w) => Awaits(op, w)'
    BY DEF Awaits, Step
  <2>2. DestroyComing(w) => DestroyComing(w)'
    BY <2>1 DEF DestroyComing, WillDestroy, managerSide
  <2> QED
    BY <2>1, <2>2 DEF LiveInv, AliveInv, managerSide
<1>6. ASSUME NEW w \in ShellWindows PROVE SampledInv(w)'
  <2>1. (\E e \in new : e.op = "tick") => AwaitsAny("tick")'
    BY DEF AwaitsAny, Step
  <2>2. w \in Live(slots)' => w \in Live(slots)
    BY DEF Live, Listed, managerSide
  <2> QED
    BY <2>1, <2>2 DEF SampledInv
<1> QED
  BY <1>1, <1>2, <1>3, <1>4, <1>5, <1>6 DEF LiveInv

LEMMA SampleFacts ==
  ASSUME NEW t \in [visible : BOOLEAN, sampled : SUBSET ShellWindows], NEW table, NEW w
  PROVE  /\ sample_thumbnails(t, table) \in [visible : BOOLEAN, sampled : SUBSET ShellWindows]
         /\ sample_thumbnails(t, table).visible = t.visible
         /\ t.sampled \subseteq sample_thumbnails(t, table).sampled
         /\ t.visible => Live(table) \subseteq sample_thumbnails(t, table).sampled
         /\ ended(t, w) \in [visible : BOOLEAN, sampled : SUBSET ShellWindows]
         /\ ended(t, w).visible = t.visible /\ ended(t, w).sampled = t.sampled \ {w}
BY DEF sample_thumbnails, ended, Live, Listed

LEMMA ThrottleSteps ==
  ASSUME ShellInv, NEW w, NEW visible \in BOOLEAN, RunTick \/ IntervalEnds(w) \/ connections_visible(visible)
  PROVE  ShellInv'
<1> USE DEF ShellInv
<1>1. throttle \in [visible : BOOLEAN, sampled : SUBSET ShellWindows]
  BY DEF TypeInv, ShellTypes
<1>2. UNCHANGED <<managerSide, keyed, windowSide, menu, gallery, alive>>
  BY DEF RunTick, IntervalEnds, connections_visible
<1>3. CASE RunTick
  <2>1. throttle' = sample_thumbnails(throttle, slots)
    BY <1>3 DEF RunTick
  <2>2. Step({Head(mainq)}, {}) /\ Head(mainq).op = "tick"
    BY <1>3, QueueSteps DEF RunTick, Runs
  <2>3. throttle'.visible => Live(slots) \subseteq throttle'.sampled
    BY <1>1, <2>1, SampleFacts
  <2>4. throttle' \in [visible : BOOLEAN, sampled : SUBSET ShellWindows]
    BY <1>1, <2>1, SampleFacts
  <2> QED
    BY <1>2, <2>2, <2>3, <2>4, ThrottleMoves
<1>4. CASE IntervalEnds(w)
  <2>1. throttle' = ended(throttle, w)
    BY <1>4 DEF IntervalEnds
  <2>2. Step({}, {Closure("tick", Unset)})
    BY <1>4, QueueSteps DEF IntervalEnds
  <2>3. throttle' \in [visible : BOOLEAN, sampled : SUBSET ShellWindows]
    BY <1>1, <2>1, SampleFacts
  <2> QED
    BY <1>2, <2>2, <2>3, ThrottleMoves, ClosureFacts
<1>5. CASE connections_visible(visible)
  <2> DEFINE t == set_visible(throttle, visible)
  <2>1. t \in [visible : BOOLEAN, sampled : SUBSET ShellWindows] /\ t.visible = visible
    BY <1>1 DEF set_visible
  <2>2. throttle' = IF visible THEN sample_thumbnails(t, slots) ELSE t
    BY <1>5 DEF connections_visible
  <2>3. Step({}, {})
    BY <1>5, QueueSteps DEF connections_visible
  <2>4. /\ throttle' \in [visible : BOOLEAN, sampled : SUBSET ShellWindows]
        /\ throttle'.visible => Live(slots) \subseteq throttle'.sampled
    <3> HIDE DEF t
    <3> QED
      BY <2>1, <2>2, SampleFacts
  <2> QED
    BY <1>2, <2>3, <2>4, ThrottleMoves
<1> QED
  BY <1>3, <1>4, <1>5

LEMMA StatusFacts ==
  ASSUME NEW view
  PROVE  /\ status_for(view) = "Live" <=> view.screen \in {"Live", "GreeterHint"}
         /\ view.screen \in {"Error", "Profiles"} => status_for(view) # "Live"
BY DEF status_for

\* The actor's end: what it leaves is not live.
LEMMA ReleaseRuns ==
  ASSUME ShellInv, RunRelease
  PROVE  ShellInv'
<1> USE DEF ShellInv
<1> DEFINE gone == Target
<1>1. /\ mainq # <<>> /\ Head(mainq).op = "release" /\ Head(mainq) \in Waiting
      /\ Step({Head(mainq)}, {})
  BY QueueSteps DEF RunRelease, Runs
<1>2. /\ UNCHANGED <<managerSide, keyed, sheets, windowSide, menu, gallery>>
      /\ alive' = alive \ {gone} /\ throttle' = ended(throttle, gone)
  BY DEF RunRelease
<1>3. throttle \in [visible : BOOLEAN, sampled : SUBSET ShellWindows]
  BY DEF TypeInv, ShellTypes
<1>4. TypeInv'
  <2>1. ShellTypes'
    BY <1>2, <1>3, SampleFacts DEF TypeInv, ShellTypes
  <2> QED
    BY <1>1, <1>2, <2>1 DEF TypeInv, ManagerTypes, WindowTypes, managerSide, windowSide, Step
<1>5. ManagerInv'
  BY <1>1, <1>2, ManagerRests
<1>6. WindowsInv'
  BY <1>1, <1>2, WindowsRest DEF managerSide
<1>7. MenuInv'
  BY <1>1, <1>2, MenuRests DEF managerSide
<1>8. gone \in ShellWindows /\ (slots[gone] # Unset => status_for(slots[gone]) # "Live")
  BY <1>1, StatusFacts DEF ManagerInv, EntryInv, Target
<1>9. ASSUME NEW w \in ShellWindows PROVE AliveInv(w)'
  <2>1. \A op \in {"apply", "destroy"} : Awaits(op, w) => Awaits(op, w)'
    BY <1>1 DEF Awaits, Step
  <2>2. DestroyComing(w) => DestroyComing(w)'
    BY <1>2, <2>1 DEF DestroyComing, WillDestroy, managerSide
  <2> QED
    BY <1>2, <1>8, <2>1, <2>2 DEF LiveInv, AliveInv, managerSide
<1>10. ASSUME NEW w \in ShellWindows PROVE SampledInv(w)'
  <2>1. AwaitsAny("tick") => AwaitsAny("tick")'
    BY <1>1 DEF AwaitsAny, Step
  <2>2. w \in Live(slots)' => w \in Live(slots)
    BY <1>2 DEF Live, Listed, managerSide
  <2> QED
    BY <1>2, <1>3, <2>1, <2>2, SampleFacts DEF SampledInv, LiveInv
<1> QED
  BY <1>4, <1>5, <1>6, <1>7, <1>9, <1>10 DEF LiveInv

-----------------------------------------------------------------------------
(* A view is applied to its window. *)

LEMMA ApplyFacts ==
  ASSUME TypeInv, NEW w \in ShellWindows, NEW view, Registered(w), apply_view(w, view, slots')
  PROVE  /\ surface' \in [ShellWindows -> Fronts] /\ surface'[w] = surface_for(view)
         /\ responder' \in [ShellWindows -> {"Page", "Remote", "Titlebar"}]
         /\ responder'[w] = focus_for(surface'[w])
         /\ identity' = [v \in ShellWindows |-> identity'[v]]
         /\ slots'[w] # Unset => identity'[w] = IdentityOf(slots'[w])
         /\ \A v \in ShellWindows \ {w} :
              surface'[v] = surface[v] /\ responder'[v] = responder[v] /\ identity'[v] = identity[v]
         /\ alive' = IF status_for(view) = "Live" THEN alive \cup {w} ELSE alive \ {w}
         /\ throttle' \in [visible : BOOLEAN, sampled : SUBSET ShellWindows]
         /\ \/ throttle' = throttle /\ alive' \subseteq alive
            \/ throttle'.visible => Live(slots') \subseteq throttle'.sampled
         /\ refresh_shell(slots', keyed)
<1>1. /\ surface' = [surface EXCEPT ![w] = surface_for(view)]
      /\ responder' = [responder EXCEPT ![w] = focus_for(surface'[w])]
      /\ identity' = [identity EXCEPT ![w] = window_identity(w, slots')]
      /\ alive' = IF status_for(view) = "Live" THEN alive \cup {w} ELSE alive \ {w}
      /\ throttle' = IF status_for(view) = "Live" /\ w \notin alive
                       THEN sample_thumbnails(went_live(throttle, w), slots') ELSE throttle
      /\ refresh_shell(slots', keyed)
  BY DEF apply_view, push_identity
<1>2. surface' \in [ShellWindows -> Fronts] /\ surface'[w] = surface_for(view)
  BY <1>1, FocusFacts DEF TypeInv, WindowTypes
<1>3. responder' \in [ShellWindows -> {"Page", "Remote", "Titlebar"}] /\ responder'[w] = focus_for(surface'[w])
  BY <1>1, FocusFacts DEF TypeInv, WindowTypes
<1>4. identity' = [v \in ShellWindows |-> identity'[v]]
  BY <1>1 DEF TypeInv, WindowTypes
<1>5. slots'[w] # Unset => identity'[w] = IdentityOf(slots'[w])
  <2>1. identity'[w] = window_identity(w, slots')
    BY <1>1 DEF TypeInv, WindowTypes
  <2> QED
    BY <2>1 DEF window_identity
<1>6. \A v \in ShellWindows \ {w} :
        surface'[v] = surface[v] /\ responder'[v] = responder[v] /\ identity'[v] = identity[v]
  BY <1>1 DEF TypeInv, WindowTypes
<1>7. throttle \in [visible : BOOLEAN, sampled : SUBSET ShellWindows]
  BY DEF TypeInv, ShellTypes
<1>8. /\ throttle' \in [visible : BOOLEAN, sampled : SUBSET ShellWindows]
      /\ \/ throttle' = throttle /\ alive' \subseteq alive
         \/ throttle'.visible => Live(slots') \subseteq throttle'.sampled
  <2>1. CASE status_for(view) = "Live" /\ w \notin alive
    <3> DEFINE t == went_live(throttle, w)
    <3>1. t \in [visible : BOOLEAN, sampled : SUBSET ShellWindows]
      BY <1>7, SampleFacts DEF went_live
    <3> HIDE DEF t
    <3>2. throttle' = sample_thumbnails(t, slots')
      BY <1>1, <2>1 DEF t
    <3> QED
      BY <3>1, <3>2, SampleFacts
  <2>2. CASE ~(status_for(view) = "Live" /\ w \notin alive)
    BY <1>1, <1>7, <2>2
  <2> QED
    BY <2>1, <2>2
<1> QED
  BY <1>1, <1>2, <1>3, <1>4, <1>5, <1>6, <1>8

\* The window shows the screen of its session, and everything around it the manager's view.
LEMMA Applied ==
  ASSUME ShellInv, NEW w \in ShellWindows, NEW view, Registered(w), apply_view(w, view, slots'),
         UNCHANGED <<acting, stage, building, closer, keyed>>,
         NEW gone, Step(gone, {}), \A e \in gone : e.op = "apply" /\ e.window = w,
         slots' \in [ShellWindows -> {Unset} \cup View],
         \A v \in ShellWindows \ {w} : slots'[v] = slots[v],
         slots[w] = Unset => slots'[w] = Unset /\ DestroyComing(w),
         slots[w] # Unset => /\ slots'[w] # Unset /\ slots'[w].screen = slots[w].screen
                             /\ view.screen = slots[w].screen
  PROVE  ShellInv'
<1> USE DEF ShellInv
<1>1. TypeInv'
  <2>1. ManagerTypes'
    BY DEF TypeInv, ManagerTypes
  <2>2. WindowTypes'
    BY ApplyFacts DEF TypeInv, WindowTypes
  <2>3. ShellTypes'
    BY ApplyFacts DEF TypeInv, ShellTypes
  <2> QED
    BY <2>1, <2>2, <2>3 DEF TypeInv, Step
<1>2. \A v : DestroyComing(v) => DestroyComing(v)'
  BY DEF DestroyComing, Awaits, Step, WillDestroy
<1>3. ManagerInv'
  <2>1. \A v \in ShellWindows : WindowInv(v)'
    BY DEF ManagerInv, WindowInv
  <2>2. ASSUME NEW e \in Waiting' PROVE EntryInv(e)'
    <3>1. EntryInv(e)
      BY <2>2 DEF Step, ManagerInv
    <3> QED
      BY <1>2, <3>1 DEF EntryInv, Registered
  <2> QED
    BY <2>1, <2>2 DEF ManagerInv
<1>4. ASSUME NEW v \in ShellWindows, v # w PROVE \A op : Awaits(op, v) => Awaits(op, v)'
  BY <1>4 DEF Awaits, Step
<1>5. ASSUME NEW v \in ShellWindows PROVE IdentityInv(v)' /\ SurfaceInv(v)' /\ ResponderInv(v)'
  <2>1. CASE v = w
    <3>1. slots'[w] # Unset => focus_for(surface'[w]) = focus_for(surface_for(slots'[w]))
      BY ApplyFacts, FocusFacts
    <3> QED
      BY <2>1, <3>1, ApplyFacts DEF IdentityInv, SurfaceInv, ResponderInv
  <2>2. CASE v # w
    BY <1>4, <2>2, ApplyFacts DEF WindowsInv, IdentityInv, SurfaceInv, ResponderInv, Unreported
  <2> QED
    BY <2>1, <2>2
<1>6. ASSUME NEW v \in ShellWindows PROVE AliveInv(v)'
  <2>1. CASE v = w
    <3>1. slots'[w] # Unset => (w \in alive' <=> status_for(slots'[w]) = "Live")
      BY ApplyFacts, StatusFacts
    <3>2. slots'[w] = Unset => DestroyComing(w)'
      BY <1>2
    <3> QED
      BY <2>1, <3>1, <3>2 DEF AliveInv
  <2>2. CASE v # w
    <3>1. v \in alive' <=> v \in alive
      BY <2>2, ApplyFacts
    <3> QED
      BY <1>2, <1>4, <2>2, <3>1 DEF LiveInv, AliveInv
  <2> QED
    BY <2>1, <2>2
<1>7. ASSUME NEW v \in ShellWindows PROVE SampledInv(v)'
  <2>1. CASE throttle'.visible => Live(slots') \subseteq throttle'.sampled
    BY <2>1 DEF SampledInv
  <2>2. CASE throttle' = throttle /\ alive' \subseteq alive
    <3>1. AwaitsAny("tick") => AwaitsAny("tick")'
      BY DEF AwaitsAny, Step
    <3>2. v \in Live(slots') => v \in Live(slots)
      BY StatusFacts DEF Live, Listed
    <3> QED
      BY <2>2, <3>1, <3>2 DEF SampledInv, LiveInv
  <2> QED
    BY <2>1, <2>2, ApplyFacts
<1>8. MenuInv'
  BY ApplyFacts, Refreshed
<1> QED
  BY <1>1, <1>3, <1>5, <1>6, <1>7, <1>8 DEF WindowsInv, LiveInv

\* A closure that has nothing to say any more: its window has gone.
LEMMA GoneRests ==
  ASSUME ShellInv, NEW w \in ShellWindows, stage[w] = "gone", NEW gone, NEW new, Step(gone, new),
         \A e \in gone : e.op = "apply" /\ e.window = w, new = {},
         UNCHANGED <<managerSide, keyed, windowSide, shellSide>>
  PROVE  ShellInv'
<1> USE DEF ShellInv
<1>1. slots[w] = Unset
  BY DEF ManagerInv, WindowInv
<1>2. TypeInv'
  BY DEF TypeInv, ManagerTypes, WindowTypes, ShellTypes, managerSide, windowSide, shellSide, Step
<1>3. ManagerInv'
  BY ManagerRests
<1>4. \A op : \A v : v # w => (Awaits(op, v) => Awaits(op, v)')
  BY DEF Awaits, Step
<1>5. ASSUME NEW v \in ShellWindows PROVE IdentityInv(v)' /\ SurfaceInv(v)' /\ ResponderInv(v)'
  BY <1>1, <1>4 DEF WindowsInv, IdentityInv, SurfaceInv, ResponderInv, Unreported, managerSide, windowSide
<1>6. \A v : DestroyComing(v) => DestroyComing(v)'
  BY DEF DestroyComing, Awaits, Step, WillDestroy, managerSide
<1>7. ASSUME NEW v \in ShellWindows PROVE AliveInv(v)'
  BY <1>1, <1>4, <1>6 DEF LiveInv, AliveInv, managerSide, shellSide
<1>8. ASSUME NEW v \in ShellWindows PROVE SampledInv(v)'
  <2>1. AwaitsAny("tick") => AwaitsAny("tick")'
    BY DEF AwaitsAny, Step
  <2> QED
    BY <2>1 DEF LiveInv, SampledInv, Live, Listed, managerSide, shellSide
<1>9. MenuInv'
  <2>1. ShellComing => ShellComing'
    BY DEF ShellComing, Step, Registered, Unreported, managerSide
  <2>2. AwaitsAny("menus") => AwaitsAny("menus")'
    BY DEF AwaitsAny, Step
  <2>3. /\ menu = menu_spec(slots, keyed) => menu' = menu_spec(slots', keyed')
        /\ gallery = connections(slots) => gallery' = connections(slots')
    BY DEF managerSide, shellSide
  <2> QED
    BY <2>1, <2>2, <2>3 DEF MenuInv, shellSide
<1> QED
  BY <1>2, <1>3, <1>5, <1>7, <1>8, <1>9 DEF WindowsInv, LiveInv

LEMMA ApplyRuns ==
  ASSUME ShellInv, RunApply
  PROVE  ShellInv'
<1> DEFINE entry == Head(mainq)
<1>1. /\ mainq # <<>> /\ entry.op = "apply" /\ entry \in Waiting /\ Step({entry}, {})
      /\ \A e \in {entry} : e.op = "apply" /\ e.window = Target
  BY QueueSteps DEF RunApply, Runs, ShellInv, Target
<1>2. /\ apply_view(Target, entry.view, slots) /\ UNCHANGED <<managerSide, keyed>>
  BY DEF RunApply
<1>3. EntryInv(entry) /\ entry.window = Target
  BY <1>1 DEF ShellInv, ManagerInv, Target
<1> HIDE DEF entry
<1>4. Target \in ShellWindows /\ stage[Target] # "new"
  BY <1>1, <1>3 DEF EntryInv
<1>5. CASE Registered(Target)
  <2>1. apply_view(Target, entry.view, slots') /\ UNCHANGED <<acting, stage, building, closer, keyed>>
    BY <1>2 DEF managerSide
  <2>2. slots' \in [ShellWindows -> {Unset} \cup View] /\ \A v \in ShellWindows \ {Target} : slots'[v] = slots[v]
    BY <1>2 DEF ShellInv, TypeInv, ManagerTypes, managerSide
  <2>3. slots[Target] = Unset => slots'[Target] = Unset /\ DestroyComing(Target)
    BY <1>1, <1>2, <1>3, <1>5 DEF EntryInv, managerSide
  <2>4. slots[Target] # Unset => /\ slots'[Target] # Unset /\ slots'[Target].screen = slots[Target].screen
                                 /\ entry.view.screen = slots[Target].screen
    BY <1>1, <1>2, <1>3 DEF EntryInv, managerSide
  <2> QED
    BY <1>1, <1>4, <1>5, <2>1, <2>2, <2>3, <2>4, Applied
<1>6. CASE ~Registered(Target)
  <2>1. UNCHANGED <<managerSide, keyed, windowSide, shellSide>>
    BY <1>2, <1>6 DEF apply_view
  <2>2. stage[Target] = "gone"
    BY <1>4, <1>6 DEF Registered, ShellInv, TypeInv, ManagerTypes
  <2> QED
    BY <1>1, <1>4, <2>1, <2>2, GoneRests
<1> QED
  BY <1>5, <1>6

LEMMA StatsToggled ==
  ASSUME ShellInv, ToggleStats
  PROVE  ShellInv'
<1>0. PICK w : w = keyed
  OBVIOUS
<1>1. /\ w \in ShellWindows /\ slots[w] # Unset
      /\ slots' = [slots EXCEPT ![w].show_stats = ~@]
      /\ apply_view(w, slots'[w], slots')
      /\ UNCHANGED <<acting, stage, building, closer, keyed>> /\ UNCHANGED mainq
  BY <1>0 DEF ToggleStats, Listed
<1>2. slots[w] \in View /\ Registered(w)
  BY <1>1 DEF ShellInv, TypeInv, ManagerTypes, ManagerInv, WindowInv, Registered
<1>3. /\ slots' \in [ShellWindows -> {Unset} \cup View] /\ slots'[w] \in View
      /\ slots'[w].screen = slots[w].screen
      /\ \A v \in ShellWindows \ {w} : slots'[v] = slots[v]
  BY <1>1, <1>2 DEF ShellInv, TypeInv, ManagerTypes, View
<1>4. slots'[w] # Unset
  BY <1>3, ShellAssumption DEF View
<1>5. Step({}, {})
  BY <1>1, QueueSteps DEF ShellInv
<1> QED
  <2>1. \A e \in {} : e.op = "apply" /\ e.window = w
    OBVIOUS
  <2>2. slots[w] = Unset => slots'[w] = Unset /\ DestroyComing(w)
    BY <1>1
  <2>3. PICK view : view = slots'[w]
    OBVIOUS
  <2>4. apply_view(w, view, slots')
    BY <1>1, <2>3 DEF apply_view
  <2>5. slots[w] # Unset => /\ slots'[w] # Unset /\ slots'[w].screen = slots[w].screen
                            /\ view.screen = slots[w].screen
    BY <1>3, <1>4, <2>3
  <2>6. w \in ShellWindows /\ UNCHANGED <<acting, stage, building, closer, keyed>>
    BY <1>1
  <2>7. slots' \in [ShellWindows -> {Unset} \cup View] /\ \A v \in ShellWindows \ {w} : slots'[v] = slots[v]
    BY <1>3
  <2>8. Registered(w)
    BY <1>2
  <2> QED
    BY <1>5, <2>1, <2>2, <2>4, <2>5, <2>6, <2>7, <2>8, Applied

-----------------------------------------------------------------------------
(* A window is shown, discarded or destroyed. *)

LEMMA ShowRuns ==
  ASSUME ShellInv, RunShow
  PROVE  ShellInv'
<1> USE DEF ShellInv
<1>0. PICK entry : entry = Head(mainq)
  OBVIOUS
<1>1. PICK w : w = entry.window
  OBVIOUS
<1>2. /\ mainq # <<>> /\ entry.op = "show" /\ entry \in Waiting /\ Target = w
      /\ UNCHANGED <<slots, acting, building, closer, surface, alive, throttle>>
  BY <1>0, <1>1, QueueSteps DEF RunShow, Runs, Target
<1>3. w \in ShellWindows /\ stage[w] # "new"
  BY <1>1, <1>2 DEF ManagerInv, EntryInv
<1>4. \A op : \A v : (v # w \/ op # "show") /\ Awaits(op, v) => \E e \in Waiting \ {entry} : e.op = op /\ e.window = v
  BY <1>1, <1>2 DEF Awaits
<1>5. CASE Registered(w)
  <2>1. /\ stage' = [stage EXCEPT ![w] = IF @ = "starting" THEN "shown" ELSE @]
        /\ keyed' = w /\ KeyMoves(w, Tail(mainq)) /\ focus_surface(w) /\ push_identity(w, slots)
        /\ refresh_shell(slots', keyed')
    BY <1>2, <1>5 DEF RunShow, KeyMoves
  <2>2. PICK new : Step({entry}, new) /\ new \in {{}, {Menus}} /\ \A e \in new : e.op \in Plain
    <3>1. Step({entry}, {}) \/ Step({entry}, {Menus})
      BY <1>0, <1>2, <2>1, KeySteps
    <3>2. (\A e \in {} : e.op \in Plain) /\ (\A e \in {Menus} : e.op \in Plain)
      BY ClosureFacts DEF Plain
    <3> QED
      BY <3>1, <3>2
  <2>3. ASSUME NEW op, NEW v, v # w \/ op # "show", Awaits(op, v) PROVE Awaits(op, v)'
    <3>1. PICK e \in Waiting \ {entry} : e.op = op /\ e.window = v
      BY <1>4, <2>3
    <3> QED
      BY <2>2, <3>1 DEF Awaits, Step
  <2>4. /\ stage' \in [ShellWindows -> {"new", "starting", "shown", "closing", "gone"}]
        /\ \A v : (Registered(v) <=> Registered(v)')
        /\ \A v \in ShellWindows : /\ stage'[v] \in {"new", "gone", "closing"} <=> stage[v] \in {"new", "gone", "closing"}
                                   /\ stage'[v] = "new" <=> stage[v] = "new"
                                   /\ stage'[v] = "gone" <=> stage[v] = "gone"
    BY <1>3, <2>1 DEF TypeInv, ManagerTypes, Registered
  <2>5. TypeInv'
    <3>1. ManagerTypes'
      BY <1>2, <2>4 DEF TypeInv, ManagerTypes
    <3>2. WindowTypes'
      BY <1>2, <2>1, FocusFacts DEF TypeInv, WindowTypes, focus_surface, push_identity
    <3> QED
      BY <1>2, <2>2, <3>1, <3>2 DEF TypeInv, ShellTypes, Step
  <2>6. \A v : DestroyComing(v) => DestroyComing(v)'
    BY <1>2, <2>3 DEF DestroyComing, WillDestroy
  <2>7. ManagerInv'
    <3>1. ASSUME NEW v \in ShellWindows PROVE WindowInv(v)'
      BY <1>2, <2>4 DEF ManagerInv, WindowInv, TypeInv, ManagerTypes
    <3>2. ASSUME NEW e \in Waiting' PROVE EntryInv(e)'
      <4>1. CASE e \in Waiting
        <5>1. EntryInv(e)
          BY <4>1 DEF ManagerInv
        <5> QED
          BY <1>2, <2>4, <2>6, <5>1 DEF EntryInv
      <4>2. CASE e \in new
        BY <2>2, <4>2 DEF EntryInv, Plain
      <4> QED
        BY <2>2, <4>1, <4>2 DEF Step
    <3> QED
      BY <3>1, <3>2 DEF ManagerInv
  <2>8. ASSUME NEW v \in ShellWindows PROVE IdentityInv(v)' /\ SurfaceInv(v)' /\ ResponderInv(v)'
    <3>1. CASE v = w
      <4>1. responder'[w] = focus_for(surface'[w])
        BY <1>2, <1>3, <2>1 DEF focus_surface, TypeInv, WindowTypes
      <4>2. slots'[w] # Unset => identity'[w] = IdentityOf(slots'[w])
        BY <1>2, <1>3, <2>1 DEF push_identity, window_identity, TypeInv, WindowTypes
      <4> QED
        BY <1>2, <2>3, <3>1, <4>1, <4>2 DEF WindowsInv, IdentityInv, SurfaceInv, ResponderInv, Unreported
    <3>2. CASE v # w
      <4>1. responder'[v] = responder[v] /\ identity'[v] = identity[v]
        BY <1>3, <2>1, <3>2 DEF focus_surface, push_identity, TypeInv, WindowTypes
      <4> QED
        BY <1>2, <2>3, <2>4, <3>2, <4>1 DEF WindowsInv, IdentityInv, SurfaceInv, ResponderInv, Unreported
    <3> QED
      BY <3>1, <3>2
  <2>9. \A e \in {entry} : e.op \notin {"apply", "destroy", "tick"}
    BY <1>2
  <2> QED
    BY <1>2, <2>1, <2>2, <2>5, <2>7, <2>8, <2>9, LiveRests, Refreshed DEF WindowsInv
<1>6. CASE ~Registered(w)
  <2> DEFINE late == Closure("discard", w)
  <2>1. UNCHANGED <<stage, keyed, responder, identity, menu, gallery>> /\ mainq' = Append(Tail(mainq), late)
    BY <1>2, <1>6 DEF RunShow
  <2>2. Step({entry}, {late})
    BY <1>0, <1>2, <2>1, QueueSteps
  <2>3. ASSUME NEW op, NEW v, v # w \/ op # "show", Awaits(op, v) PROVE Awaits(op, v)'
    <3>1. PICK e \in Waiting \ {entry} : e.op = op /\ e.window = v
      BY <1>4, <2>3
    <3> QED
      BY <2>2, <3>1 DEF Awaits, Step
  <2>4. stage[w] = "gone" /\ slots[w] = Unset
    BY <1>3, <1>6 DEF Registered, TypeInv, ManagerTypes, ManagerInv, WindowInv
  <2>5. TypeInv'
    BY <1>2, <2>1, <2>2 DEF TypeInv, ManagerTypes, WindowTypes, ShellTypes, Step
  <2>6. \A v : DestroyComing(v) => DestroyComing(v)'
    BY <1>2, <2>3 DEF DestroyComing, WillDestroy
  <2>7. ManagerInv'
    <3>1. ASSUME NEW v \in ShellWindows PROVE WindowInv(v)'
      BY <1>2, <2>1 DEF ManagerInv, WindowInv
    <3>2. ASSUME NEW e \in Waiting' PROVE EntryInv(e)'
      <4>1. CASE e \in Waiting
        <5>1. EntryInv(e)
          BY <4>1 DEF ManagerInv
        <5> QED
          BY <1>2, <2>1, <2>6, <5>1 DEF EntryInv, Registered
      <4>2. CASE e = late
        BY <1>2, <1>3, <2>1, <2>4, <4>2, ClosureFacts DEF EntryInv
      <4> QED
        BY <2>2, <4>1, <4>2 DEF Step
    <3> QED
      BY <3>1, <3>2 DEF ManagerInv
  <2>8. ASSUME NEW v \in ShellWindows PROVE IdentityInv(v)' /\ SurfaceInv(v)' /\ ResponderInv(v)'
    BY <1>2, <2>1, <2>3, <2>4 DEF WindowsInv, IdentityInv, SurfaceInv, ResponderInv, Unreported
  <2>9. MenuInv'
    BY <2>2, ClosureFacts DEF MenuInv, ShellComing, Step
  <2>10. \A e \in {entry} : e.op \notin {"apply", "destroy", "tick"}
    BY <1>2
  <2> QED
    BY <1>2, <2>2, <2>5, <2>7, <2>8, <2>9, <2>10, LiveRests DEF WindowsInv
<1> QED
  BY <1>5, <1>6

LEMMA DiscardRuns ==
  ASSUME ShellInv, RunDiscard
  PROVE  ShellInv'
<1> USE DEF ShellInv
<1>0. PICK entry : entry = Head(mainq)
  OBVIOUS
<1>1. PICK w : w = entry.window
  OBVIOUS
<1>2. /\ mainq # <<>> /\ entry.op = "discard" /\ entry \in Waiting /\ Step({entry}, {})
      /\ UNCHANGED <<slots, acting, building, closer, keyed, windowSide, alive, throttle>>
      /\ stage' = [stage EXCEPT ![w] = "gone"] /\ refresh_shell(slots', keyed')
  BY <1>0, <1>1, QueueSteps DEF RunDiscard, Runs, Target
<1>3. w \in ShellWindows /\ slots[w] = Unset
  BY <1>1, <1>2 DEF ManagerInv, EntryInv
<1>4. stage'[w] = "gone" /\ \A v \in ShellWindows \ {w} : stage'[v] = stage[v]
  BY <1>2, <1>3 DEF TypeInv, ManagerTypes
<1>5. TypeInv'
  BY <1>2, <1>3 DEF TypeInv, ManagerTypes, WindowTypes, ShellTypes, windowSide, Step
<1>6. \A v : DestroyComing(v) => DestroyComing(v)'
  BY <1>2 DEF DestroyComing, Awaits, Step, WillDestroy
<1>7. ASSUME NEW v \in ShellWindows PROVE WindowInv(v)'
  BY <1>2, <1>3, <1>4 DEF ManagerInv, WindowInv
<1>8. ASSUME NEW e \in Waiting' PROVE EntryInv(e)'
  <2>1. EntryInv(e)
    BY <1>2 DEF ManagerInv, Step
  <2> QED
    BY <1>2, <1>4, <1>6, <2>1 DEF EntryInv, Registered
<1>9. ASSUME NEW v \in ShellWindows PROVE IdentityInv(v)' /\ SurfaceInv(v)' /\ ResponderInv(v)'
  <2>1. \A op \in {"apply", "show", "content"} : Awaits(op, v) => Awaits(op, v)'
    BY <1>2 DEF Awaits, Step
  <2> QED
    BY <1>2, <1>3, <1>4, <2>1 DEF WindowsInv, IdentityInv, SurfaceInv, ResponderInv, Unreported, windowSide
<1>10. \A e \in {entry} : e.op \notin {"apply", "destroy", "tick"}
  BY <1>2
<1> QED
  BY <1>2, <1>5, <1>7, <1>8, <1>9, <1>10, LiveRests, Refreshed DEF WindowsInv, ManagerInv

LEMMA DestroyRuns ==
  ASSUME ShellInv, RunDestroy
  PROVE  ShellInv'
<1> USE DEF ShellInv
<1>0. PICK entry : entry = Head(mainq)
  OBVIOUS
<1>1. PICK w : w = entry.window
  OBVIOUS
<1>2. /\ mainq # <<>> /\ entry.op = "destroy" /\ entry \in Waiting
      /\ UNCHANGED <<slots, acting, building, closer, windowSide, menu, gallery>>
      /\ stage' = [stage EXCEPT ![w] = "gone"]
      /\ alive' = alive \ {w} /\ throttle' = ended(throttle, w)
  BY <1>0, <1>1, QueueSteps DEF RunDestroy, Runs, Target
<1>3. PICK new : Step({entry}, new) /\ new \in {{}, {Menus}} /\ \A e \in new : e.op \in Plain
  <2>1. Ran \/ mainq' = Append(Tail(mainq), Menus)
    BY DEF RunDestroy, Ran, request_menu_refresh, Menus
  <2>2. Step({entry}, {}) \/ Step({entry}, {Menus})
    BY <1>0, <1>2, <2>1, QueueSteps
  <2>3. (\A e \in {} : e.op \in Plain) /\ (\A e \in {Menus} : e.op \in Plain)
    BY ClosureFacts DEF Plain
  <2> QED
    BY <2>2, <2>3
<1>4. w \in ShellWindows /\ slots[w] = Unset /\ closer[w] # <<>>
  BY <1>1, <1>2 DEF ManagerInv, EntryInv
<1>5. stage'[w] = "gone" /\ \A v \in ShellWindows \ {w} : stage'[v] = stage[v]
  BY <1>2, <1>4 DEF TypeInv, ManagerTypes
<1>6. /\ throttle' \in [visible : BOOLEAN, sampled : SUBSET ShellWindows]
      /\ throttle'.visible = throttle.visible /\ throttle'.sampled = throttle.sampled \ {w}
  BY <1>2, SampleFacts DEF TypeInv, ShellTypes
<1>7. TypeInv'
  BY <1>2, <1>3, <1>4, <1>6 DEF TypeInv, ManagerTypes, WindowTypes, ShellTypes, windowSide, Step
<1>8. ASSUME NEW op, NEW v, v # w \/ op # "destroy", Awaits(op, v) PROVE Awaits(op, v)'
  <2>1. PICK e \in Waiting : e.op = op /\ e.window = v
    BY <1>8 DEF Awaits
  <2>2. e # entry
    BY <1>1, <1>2, <1>8, <2>1
  <2> QED
    BY <1>3, <2>1, <2>2 DEF Awaits, Step
<1>9. \A v : v # w /\ DestroyComing(v) => DestroyComing(v)'
  BY <1>2, <1>8 DEF DestroyComing, WillDestroy
<1>10. ManagerInv'
  <2>1. ASSUME NEW v \in ShellWindows PROVE WindowInv(v)'
    BY <1>2, <1>4, <1>5 DEF ManagerInv, WindowInv
  <2>2. ASSUME NEW e \in Waiting' PROVE EntryInv(e)'
    <3>1. CASE e \in Waiting
      <4>1. EntryInv(e)
        BY <3>1 DEF ManagerInv
      <4> QED
        BY <1>2, <1>5, <1>9, <4>1 DEF EntryInv, Registered
    <3>2. CASE e \in new
      BY <1>3, <3>2 DEF EntryInv, Plain
    <3> QED
      BY <1>3, <3>1, <3>2 DEF Step
  <2> QED
    BY <2>1, <2>2 DEF ManagerInv
<1>11. ASSUME NEW v \in ShellWindows PROVE IdentityInv(v)' /\ SurfaceInv(v)' /\ ResponderInv(v)'
  BY <1>2, <1>4, <1>5, <1>8 DEF WindowsInv, IdentityInv, SurfaceInv, ResponderInv, Unreported, windowSide
<1>12. ASSUME NEW v \in ShellWindows PROVE AliveInv(v)'
  <2>1. CASE v = w
    BY <1>2, <1>4, <2>1 DEF AliveInv
  <2>2. CASE v # w
    BY <1>2, <1>8, <1>9, <2>2 DEF LiveInv, AliveInv
  <2> QED
    BY <2>1, <2>2
<1>13. ASSUME NEW v \in ShellWindows PROVE SampledInv(v)'
  <2>1. AwaitsAny("tick") => AwaitsAny("tick")'
    BY <1>2, <1>3 DEF AwaitsAny, Step
  <2>2. v \in Live(slots') => v \in Live(slots)
    BY <1>2
  <2> QED
    BY <1>2, <1>6, <2>1, <2>2 DEF LiveInv, SampledInv
<1>14. MenuInv'
  BY <1>2, <1>4 DEF MenuInv, ShellComing
<1> QED
  BY <1>7, <1>10, <1>11, <1>12, <1>13, <1>14 DEF WindowsInv, LiveInv

-----------------------------------------------------------------------------
(* The other threads. *)

LEMMA FoldedFacts ==
  ASSUME NEW view \in View
  PROVE  /\ \A screen \in ShellScreens : Folded(view, screen) \in View
         /\ [view EXCEPT !.stats = TRUE] \in View
BY DEF View, Folded

LEMMA FreshFacts == Fresh \in View /\ Fresh.screen = "Profiles" /\ Unset \notin View
BY ShellAssumption DEF View, Fresh

\* A report changes a session's view and queues it for its window, behind nothing else about it.
LEMMA ReportStep ==
  ASSUME ShellInv, NEW w \in ShellWindows, NEW view \in View, PumpReports(w, view)
  PROVE  ShellInv'
<1> USE DEF ShellInv
<1> DEFINE entry == Apply(w, view)
<1>1. /\ w \in acting /\ PumpFree(w) /\ slots' = [slots EXCEPT ![w] = view]
      /\ UNCHANGED <<acting, stage, building, closer, keyed, sheets, windowSide, shellSide>>
      /\ Step({}, {entry})
  BY QueueSteps DEF PumpReports
<1>2. slots[w] # Unset /\ stage[w] \in {"starting", "shown"} /\ view # Unset
  BY <1>1, FreshFacts DEF ManagerInv, WindowInv
<1>3. slots'[w] = view /\ \A v \in ShellWindows \ {w} : slots'[v] = slots[v]
  BY <1>1 DEF TypeInv, ManagerTypes
<1>4. ~Awaits("apply", w) /\ ~Awaits("release", w)
  BY <1>1 DEF PumpFree, Queued, Awaits, Waiting, Elements
<1>5. TypeInv'
  BY <1>1 DEF TypeInv, ManagerTypes, WindowTypes, ShellTypes, windowSide, shellSide, Step
<1>6. \A op, v : Awaits(op, v) => Awaits(op, v)'
  BY <1>1 DEF Awaits, Step
<1>7. Awaits("apply", w)'
  BY <1>1, ClosureFacts DEF Awaits, Step
<1>8. \A v : DestroyComing(v) => DestroyComing(v)'
  BY <1>1, <1>6 DEF DestroyComing, WillDestroy
<1>9. ASSUME NEW v \in ShellWindows PROVE WindowInv(v)'
  BY <1>1, <1>2, <1>3 DEF ManagerInv, WindowInv
<1>10. ASSUME NEW e \in Waiting' PROVE EntryInv(e)'
  <2>1. CASE e \in Waiting
    <3>1. EntryInv(e) /\ ~(e.op \in {"apply", "release", "discard", "destroy"} /\ e.window = w)
      BY <1>2, <1>4, <2>1 DEF ManagerInv, EntryInv, Awaits
    <3> QED
      BY <1>1, <1>3, <1>8, <3>1 DEF EntryInv, Registered
  <2>2. CASE e = entry
    BY <1>1, <1>2, <1>3, <2>2, ClosureFacts DEF EntryInv
  <2> QED
    BY <1>1, <2>1, <2>2 DEF Step
<1>11. ASSUME NEW v \in ShellWindows PROVE IdentityInv(v)' /\ SurfaceInv(v)' /\ ResponderInv(v)'
  BY <1>1, <1>3, <1>6, <1>7 DEF WindowsInv, IdentityInv, SurfaceInv, ResponderInv, Unreported, windowSide
<1>12. ASSUME NEW v \in ShellWindows PROVE AliveInv(v)'
  BY <1>1, <1>2, <1>3, <1>6, <1>7, <1>8 DEF LiveInv, AliveInv, shellSide
<1>13. ASSUME NEW v \in ShellWindows PROVE SampledInv(v)'
  <2>1. AwaitsAny("tick") => AwaitsAny("tick")'
    BY <1>1 DEF AwaitsAny, Step
  <2>2. v \in alive /\ v \in Live(slots') => v \in Live(slots)
    BY <1>2, <1>3, <1>4 DEF LiveInv, AliveInv, Live, Listed
  <2> QED
    BY <1>1, <2>1, <2>2 DEF LiveInv, SampledInv, shellSide
<1>14. MenuInv'
  <2>1. entry \in Waiting' /\ entry.op = "apply" /\ Registered(entry.window)'
    BY <1>1, <1>2, ClosureFacts DEF Step, Registered
  <2> QED
    BY <2>1 DEF MenuInv, ShellComing
<1> QED
  BY <1>5, <1>9, <1>10, <1>11, <1>12, <1>13, <1>14 DEF WindowsInv, LiveInv, ManagerInv

LEMMA ShellEndStep ==
  ASSUME ShellInv, NEW w \in ShellWindows, PumpEnds(w)
  PROVE  ShellInv'
<1> USE DEF ShellInv
<1> DEFINE entry == Closure("release", w)
<1>1. /\ w \in acting /\ PumpFree(w) /\ slots[w].screen = "Error" /\ acting' = acting \ {w}
      /\ UNCHANGED <<slots, stage, building, closer, keyed, sheets, windowSide, shellSide>>
      /\ Step({}, {entry})
  BY QueueSteps DEF PumpEnds
<1>2. ~Awaits("apply", w)
  BY <1>1 DEF PumpFree, Queued, Awaits, Waiting, Elements
<1>3. TypeInv'
  BY <1>1 DEF TypeInv, ManagerTypes, WindowTypes, ShellTypes, windowSide, shellSide, Step
<1>4. \A v : DestroyComing(v) => DestroyComing(v)'
  BY <1>1 DEF DestroyComing, Awaits, Step, WillDestroy
<1>5. ASSUME NEW v \in ShellWindows PROVE WindowInv(v)'
  BY <1>1 DEF ManagerInv, WindowInv
<1>6. ASSUME NEW e \in Waiting' PROVE EntryInv(e)'
  <2>1. CASE e \in Waiting
    <3>1. EntryInv(e) /\ ~(e.op = "apply" /\ e.window = w)
      BY <1>2, <2>1 DEF ManagerInv, Awaits
    <3> QED
      BY <1>1, <1>4, <3>1 DEF EntryInv, Registered
  <2>2. CASE e = entry
    BY <1>1, <2>2, ClosureFacts DEF EntryInv
  <2> QED
    BY <1>1, <2>1, <2>2 DEF Step
<1>7. \A e \in {} : e.op \notin {"apply", "show", "content", "destroy", "tick", "discard", "refresh", "menus"}
  OBVIOUS
<1>8. WindowsInv'
  BY <1>1, <1>7, WindowsRest
<1>9. LiveInv'
  BY <1>1, <1>7, LiveRests DEF shellSide
<1>10. MenuInv'
  BY <1>1, <1>7, MenuRests DEF shellSide
<1> QED
  BY <1>3, <1>5, <1>6, <1>8, <1>9, <1>10 DEF ManagerInv

LEMMA BuilderStep ==
  ASSUME ShellInv, NEW w \in ShellWindows, BuilderShows(w)
  PROVE  ShellInv'
<1> USE DEF ShellInv
<1> DEFINE entry == Closure("show", w)
<1>1. /\ w \in building /\ building' = building \ {w}
      /\ UNCHANGED <<slots, acting, stage, closer, keyed, sheets, windowSide, shellSide>>
      /\ Step({}, {entry})
  BY QueueSteps DEF BuilderShows
<1>2. TypeInv'
  BY <1>1 DEF TypeInv, ManagerTypes, WindowTypes, ShellTypes, windowSide, shellSide, Step
<1>3. \A v : DestroyComing(v) => DestroyComing(v)'
  BY <1>1 DEF DestroyComing, Awaits, Step, WillDestroy
<1>4. ASSUME NEW v \in ShellWindows PROVE WindowInv(v)'
  BY <1>1 DEF ManagerInv, WindowInv
<1>5. ASSUME NEW e \in Waiting' PROVE EntryInv(e)'
  <2>1. CASE e \in Waiting
    BY <1>1, <1>3, <2>1 DEF ManagerInv, EntryInv, Registered
  <2>2. CASE e = entry
    BY <1>1, <2>2, ClosureFacts DEF EntryInv, ManagerInv, WindowInv
  <2> QED
    BY <1>1, <2>1, <2>2 DEF Step
<1>6. \A op, v : Awaits(op, v) => Awaits(op, v)'
  BY <1>1 DEF Awaits, Step
<1>7. entry \in Waiting' /\ entry.op = "show" /\ entry.window = w
  BY <1>1, ClosureFacts DEF Step
<1>8. ASSUME NEW v \in ShellWindows PROVE IdentityInv(v)' /\ SurfaceInv(v)' /\ ResponderInv(v)'
  <2>1. Awaits("show", w)'
    BY <1>7 DEF Awaits
  <2> QED
    BY <1>1, <1>6, <2>1 DEF WindowsInv, IdentityInv, SurfaceInv, ResponderInv, Unreported, windowSide
<1>9. LiveInv'
  <2>1. \A e \in {} : e.op \notin {"apply", "destroy", "tick"}
    OBVIOUS
  <2> QED
    BY <1>1, <2>1, LiveRests DEF shellSide
<1>10. MenuInv'
  BY <1>7 DEF MenuInv, ShellComing
<1> QED
  BY <1>2, <1>4, <1>5, <1>8, <1>9, <1>10 DEF WindowsInv, ManagerInv

\* What is left to queue after the next closure.
LEMMA ClosingFacts ==
  ASSUME NEW todo \in Closings, todo # <<>>
  PROVE  /\ Tail(todo) \in Closings
         /\ Head(todo) \in {"release", "destroy", "refresh"}
         /\ Head(todo) = "refresh" => Tail(todo) = <<>>
         /\ Head(todo) # "refresh" => Tail(todo) # <<>>
         /\ WillDestroy(todo) => Head(todo) = "destroy" \/ WillDestroy(Tail(todo))
<1>1. CASE todo = <<"refresh">>
  <2>1. Head(todo) = "refresh" /\ Tail(todo) = <<>>
    BY <1>1
  <2>2. ~WillDestroy(todo)
    BY <1>1 DEF WillDestroy
  <2> QED
    BY <2>1, <2>2 DEF Closings
<1>2. CASE todo = <<"destroy", "refresh">>
  <2>1. Head(todo) = "destroy" /\ Tail(todo) = <<"refresh">>
    BY <1>2
  <2> QED
    BY <2>1 DEF Closings
<1>3. CASE todo = <<"release", "destroy", "refresh">>
  <2>1. Head(todo) = "release" /\ Tail(todo) = <<"destroy", "refresh">>
    BY <1>3
  <2> QED
    BY <2>1 DEF Closings, WillDestroy
<1> QED
  BY <1>1, <1>2, <1>3 DEF Closings

LEMMA CloserStep ==
  ASSUME ShellInv, NEW w \in ShellWindows, CloserContinues(w)
  PROVE  ShellInv'
<1> USE DEF ShellInv
<1>0. PICK op : op = Head(closer[w])
  OBVIOUS
<1> DEFINE entry == Closure(op, w)
<1>1. /\ closer[w] # <<>> /\ closer' = [closer EXCEPT ![w] = Tail(closer[w])]
      /\ UNCHANGED <<slots, acting, stage, building, keyed, sheets, windowSide, shellSide>>
      /\ Step({}, {entry})
  BY <1>0, QueueSteps DEF CloserContinues
<1>2. ~Awaits("destroy", w) /\ ~Awaits("release", w)
  BY DEF CloserContinues, Queued, Awaits, Waiting, Elements
<1>3. slots[w] = Unset /\ stage[w] \in {"closing", "gone"} /\ closer[w] \in Closings
  BY <1>1 DEF ManagerInv, WindowInv, TypeInv, ManagerTypes
<1>4. /\ closer'[w] \in Closings /\ op \in {"release", "destroy", "refresh"}
      /\ op # "refresh" => closer'[w] # <<>>
      /\ WillDestroy(closer[w]) => op = "destroy" \/ WillDestroy(closer'[w])
      /\ \A v \in ShellWindows \ {w} : closer'[v] = closer[v]
  BY <1>0, <1>1, <1>3, ClosingFacts DEF TypeInv, ManagerTypes
<1>5. entry \in Waiting' /\ entry.op = op /\ entry.window = w
  BY <1>1, ClosureFacts DEF Step
<1>6. TypeInv'
  <2>1. closer' \in [ShellWindows -> Closings]
    BY <1>1, <1>4 DEF TypeInv, ManagerTypes
  <2> QED
    BY <1>1, <2>1 DEF TypeInv, ManagerTypes, WindowTypes, ShellTypes, windowSide, shellSide, Step
<1>7. \A o, v : Awaits(o, v) => Awaits(o, v)'
  BY <1>1 DEF Awaits, Step
<1>8. ASSUME NEW v \in ShellWindows, DestroyComing(v) PROVE DestroyComing(v)'
  <2>1. CASE v # w
    BY <1>4, <1>7, <1>8, <2>1 DEF DestroyComing, WillDestroy
  <2>2. CASE v = w
    <3>1. WillDestroy(closer[w])
      BY <1>2, <1>8, <2>2 DEF DestroyComing
    <3>2. CASE op = "destroy"
      BY <1>5, <2>2, <3>2 DEF DestroyComing, Awaits
    <3>3. CASE WillDestroy(closer'[w])
      BY <2>2, <3>3 DEF DestroyComing, WillDestroy
    <3> QED
      BY <1>4, <3>1, <3>2, <3>3
  <2> QED
    BY <2>1, <2>2
<1>9. ASSUME NEW v \in ShellWindows PROVE WindowInv(v)'
  BY <1>1, <1>3, <1>4 DEF ManagerInv, WindowInv
<1>10. ASSUME NEW e \in Waiting' PROVE EntryInv(e)'
  <2>1. CASE e \in Waiting
    <3>1. EntryInv(e) /\ ~(e.op = "destroy" /\ e.window = w)
      BY <1>2, <2>1 DEF ManagerInv, Awaits
    <3> QED
      BY <1>1, <1>4, <1>8, <3>1 DEF EntryInv, Registered
  <2>2. CASE e = entry
    BY <1>1, <1>3, <1>4, <1>5, <2>2 DEF EntryInv
  <2> QED
    BY <1>1, <2>1, <2>2 DEF Step
<1>11. \A e \in {} : e.op \notin {"apply", "show", "content"}
  OBVIOUS
<1>12. WindowsInv'
  BY <1>1, <1>11, WindowsRest
<1>13. ASSUME NEW v \in ShellWindows PROVE AliveInv(v)'
  BY <1>1, <1>7, <1>8 DEF LiveInv, AliveInv, shellSide
<1>14. ASSUME NEW v \in ShellWindows PROVE SampledInv(v)'
  <2>1. AwaitsAny("tick") => AwaitsAny("tick")'
    BY <1>1 DEF AwaitsAny, Step
  <2> QED
    BY <1>1, <2>1 DEF LiveInv, SampledInv, Live, Listed, shellSide
<1>15. MenuInv'
  <2>1. CASE op = "refresh"
    BY <1>5, <2>1 DEF MenuInv, ShellComing
  <2>2. CASE op # "refresh"
    BY <1>4, <2>2 DEF MenuInv, ShellComing
  <2> QED
    BY <2>1, <2>2
<1> QED
  BY <1>6, <1>9, <1>10, <1>12, <1>13, <1>14, <1>15 DEF LiveInv, ManagerInv

-----------------------------------------------------------------------------
(* Windows are closed, sessions started. *)

\* The manager forgets the session; whatever key window the click made.
LEMMA CloseStep ==
  ASSUME ShellInv, NEW w \in ShellWindows, close_session_window(w),
         NEW new, Step({}, new), \A e \in new : e.op \in Plain,
         UNCHANGED <<windowSide, shellSide>>
  PROVE  ShellInv'
<1> USE DEF ShellInv
<1>1. /\ stage[w] \in {"starting", "shown"} /\ stage' = [stage EXCEPT ![w] = "closing"]
      /\ slots' = [slots EXCEPT ![w] = Unset] /\ acting' = acting \ {w} /\ UNCHANGED building
  BY DEF close_session_window
<1>2. /\ stage'[w] = "closing" /\ slots'[w] = Unset
      /\ \A v \in ShellWindows \ {w} : stage'[v] = stage[v] /\ slots'[v] = slots[v]
  BY <1>1 DEF TypeInv, ManagerTypes
<1>3. /\ closer'[w] \in Closings /\ WillDestroy(closer'[w]) /\ closer'[w] # <<>>
      /\ closer' = [closer EXCEPT ![w] = closer'[w]]
  <2>1. closer' = [closer EXCEPT ![w] = IF w \in acting THEN <<"release", "destroy", "refresh">>
                                                        ELSE <<"destroy", "refresh">>]
    BY DEF close_session_window
  <2>2. closer'[w] = IF w \in acting THEN <<"release", "destroy", "refresh">> ELSE <<"destroy", "refresh">>
    BY <2>1 DEF TypeInv, ManagerTypes
  <2>3. closer' = [closer EXCEPT ![w] = closer'[w]]
    BY <2>1, <2>2 DEF TypeInv, ManagerTypes
  <2>4. Len(closer'[w]) # 0
    BY <2>2
  <2> QED
    BY <2>2, <2>3, <2>4 DEF Closings, WillDestroy
<1>4. \A v \in ShellWindows \ {w} : closer'[v] = closer[v]
  BY <1>3 DEF TypeInv, ManagerTypes
<1>5. TypeInv'
  <2>1. closer' \in [ShellWindows -> Closings]
    BY <1>3 DEF TypeInv, ManagerTypes
  <2> QED
    BY <1>1, <2>1 DEF TypeInv, ManagerTypes, WindowTypes, ShellTypes, windowSide, shellSide, Step
<1>6. \A o, v : Awaits(o, v) => Awaits(o, v)'
  BY DEF Awaits, Step
<1>7. DestroyComing(w)'
  BY <1>3 DEF DestroyComing, WillDestroy
<1>8. ASSUME NEW v \in ShellWindows, DestroyComing(v) PROVE DestroyComing(v)'
  BY <1>4, <1>6, <1>7, <1>8 DEF DestroyComing, WillDestroy
<1>9. ASSUME NEW v \in ShellWindows PROVE WindowInv(v)'
  BY <1>1, <1>2, <1>3, <1>4 DEF ManagerInv, WindowInv
<1>10. ASSUME NEW e \in Waiting' PROVE EntryInv(e)'
  <2>1. CASE e \in Waiting
    <3>1. EntryInv(e)
      BY <2>1 DEF ManagerInv
    <3>2. CASE e.window = w
      BY <1>1, <1>2, <1>3, <1>7, <3>1, <3>2 DEF EntryInv
    <3>3. CASE e.window # w
      BY <1>1, <1>2, <1>4, <1>8, <3>1, <3>3 DEF EntryInv, Registered
    <3> QED
      BY <3>2, <3>3
  <2>2. CASE e \in new
    BY <2>2 DEF EntryInv, Plain
  <2> QED
    BY <2>1, <2>2 DEF Step
<1>11. ASSUME NEW v \in ShellWindows PROVE IdentityInv(v)' /\ SurfaceInv(v)' /\ ResponderInv(v)'
  BY <1>1, <1>2, <1>6 DEF WindowsInv, IdentityInv, SurfaceInv, ResponderInv, Unreported, windowSide
<1>12. ASSUME NEW v \in ShellWindows PROVE AliveInv(v)'
  <2>1. CASE v = w
    BY <1>2, <1>7, <2>1 DEF AliveInv
  <2>2. CASE v # w
    BY <1>2, <1>6, <1>8, <2>2 DEF LiveInv, AliveInv, shellSide
  <2> QED
    BY <2>1, <2>2
<1>13. ASSUME NEW v \in ShellWindows PROVE SampledInv(v)'
  <2>1. AwaitsAny("tick") => AwaitsAny("tick")'
    BY DEF AwaitsAny, Step
  <2>2. v \in Live(slots') => v \in Live(slots)
    BY <1>2 DEF Live, Listed
  <2> QED
    BY <2>1, <2>2 DEF LiveInv, SampledInv, shellSide
<1>14. MenuInv'
  BY <1>3 DEF MenuInv, ShellComing
<1> QED
  BY <1>5, <1>9, <1>10, <1>11, <1>12, <1>13, <1>14 DEF WindowsInv, LiveInv, ManagerInv

LEMMA WillDestroyFacts ==
  ASSUME NEW todo, WillDestroy(todo)
  PROVE  todo # <<>>
<1>1. Len(todo) # 0
  BY DEF WillDestroy
<1> QED
  BY <1>1

\* Nothing is queued for a window that has never been used.
LEMMA NewWindow ==
  ASSUME TypeInv, ManagerInv, NEW w \in ShellWindows, stage[w] = "new"
  PROVE  /\ slots[w] = Unset /\ w \notin acting /\ w \notin building /\ closer[w] = <<>>
         /\ ~DestroyComing(w)
         /\ \A e \in Waiting : e.window = w => e.op \notin {"apply", "show", "discard", "destroy"}
<1>1. slots[w] = Unset /\ w \notin acting /\ w \notin building /\ closer[w] = <<>>
  BY DEF ManagerInv, WindowInv
<1>2. \A e \in Waiting : e.window = w => e.op \notin {"apply", "show", "discard", "destroy"}
  BY <1>1 DEF ManagerInv, EntryInv
<1>3. ~DestroyComing(w)
  BY <1>1, <1>2, WillDestroyFacts DEF DestroyComing, Awaits
<1> QED
  BY <1>1, <1>2, <1>3

LEMMA OpenStep ==
  ASSUME ShellInv, NEW w \in ShellWindows, OpenWindow(w)
  PROVE  ShellInv'
<1> USE DEF ShellInv
<1> DEFINE failed == Closure("discard", w)
<1>1. /\ stage[w] = "new" /\ stage' = [stage EXCEPT ![w] = "starting"]
      /\ UNCHANGED <<closer, keyed, sheets, windowSide, shellSide>>
  BY DEF OpenWindow
<1>2. stage'[w] = "starting" /\ \A v \in ShellWindows \ {w} : stage'[v] = stage[v]
  BY <1>1 DEF TypeInv, ManagerTypes
<1>3. /\ slots[w] = Unset /\ w \notin acting /\ w \notin building /\ closer[w] = <<>>
      /\ ~DestroyComing(w) /\ w \notin alive
      /\ \A e \in Waiting : e.window = w => e.op \notin {"apply", "show", "discard", "destroy"}
  BY <1>1, NewWindow DEF LiveInv, AliveInv
<1>4. CASE /\ slots' = [slots EXCEPT ![w] = Fresh] /\ acting' = acting \cup {w}
           /\ building' = building \cup {w} /\ UNCHANGED mainq
  <2>1. Step({}, {})
    BY <1>4, QueueSteps
  <2>2. slots'[w] = Fresh /\ \A v \in ShellWindows \ {w} : slots'[v] = slots[v]
    BY <1>4 DEF TypeInv, ManagerTypes
  <2>3. TypeInv'
    BY <1>1, <1>4, <2>1, FreshFacts DEF TypeInv, ManagerTypes, WindowTypes, ShellTypes, windowSide, shellSide, Step
  <2>4. \A o, v : Awaits(o, v) => Awaits(o, v)'
    BY <2>1 DEF Awaits, Step
  <2>5. ASSUME NEW v, DestroyComing(v) PROVE DestroyComing(v)'
    BY <1>1, <2>4, <2>5 DEF DestroyComing, WillDestroy
  <2>6. ASSUME NEW v \in ShellWindows PROVE WindowInv(v)'
    BY <1>1, <1>2, <1>3, <1>4, <2>2, FreshFacts DEF ManagerInv, WindowInv
  <2>7. ASSUME NEW e \in Waiting' PROVE EntryInv(e)'
    <3>1. EntryInv(e) /\ e \in Waiting
      BY <2>1 DEF Step, ManagerInv
    <3>2. CASE e.window = w
      BY <1>2, <1>3, <2>2, <3>1, <3>2, FreshFacts DEF EntryInv
    <3>3. CASE e.window # w
      BY <1>1, <1>2, <1>4, <2>2, <2>5, <3>1, <3>3 DEF EntryInv, Registered
    <3> QED
      BY <3>2, <3>3
  <2>8. ASSUME NEW v \in ShellWindows PROVE IdentityInv(v)' /\ SurfaceInv(v)' /\ ResponderInv(v)'
    BY <1>1, <1>2, <1>4, <2>2, <2>4, FreshFacts
       DEF WindowsInv, IdentityInv, SurfaceInv, ResponderInv, Unreported, windowSide
  <2>9. ASSUME NEW v \in ShellWindows PROVE AliveInv(v)'
    <3>1. CASE v = w
      BY <1>1, <1>3, <2>2, <3>1, FreshFacts, StatusFacts DEF AliveInv, shellSide
    <3>2. CASE v # w
      BY <1>1, <2>2, <2>4, <2>5, <3>2 DEF LiveInv, AliveInv, shellSide
    <3> QED
      BY <3>1, <3>2
  <2>10. ASSUME NEW v \in ShellWindows PROVE SampledInv(v)'
    <3>1. AwaitsAny("tick") => AwaitsAny("tick")'
      BY <2>1 DEF AwaitsAny, Step
    <3>2. v \in Live(slots') => v \in Live(slots)
      BY <2>2, FreshFacts, StatusFacts DEF Live, Listed
    <3> QED
      BY <1>1, <3>1, <3>2 DEF LiveInv, SampledInv, shellSide
  <2>11. MenuInv'
    BY <1>4 DEF MenuInv, ShellComing
  <2> QED
    BY <2>3, <2>6, <2>7, <2>8, <2>9, <2>10, <2>11 DEF WindowsInv, LiveInv, ManagerInv
<1>5. CASE Defer("discard", w) /\ UNCHANGED <<slots, acting, building>>
  <2>1. Step({}, {failed})
    BY <1>5, QueueSteps DEF Defer
  <2>2. failed \in Waiting' /\ failed.op = "discard" /\ failed.window = w
    BY <2>1, ClosureFacts DEF Step
  <2>3. TypeInv'
    BY <1>1, <1>5, <2>1 DEF TypeInv, ManagerTypes, WindowTypes, ShellTypes, windowSide, shellSide, Step
  <2>4. \A o, v : Awaits(o, v) => Awaits(o, v)'
    BY <2>1 DEF Awaits, Step
  <2>5. ASSUME NEW v, DestroyComing(v) PROVE DestroyComing(v)'
    BY <1>1, <2>4, <2>5 DEF DestroyComing, WillDestroy
  <2>6. ASSUME NEW v \in ShellWindows PROVE WindowInv(v)'
    BY <1>1, <1>2, <1>3, <1>5 DEF ManagerInv, WindowInv
  <2>7. ASSUME NEW e \in Waiting' PROVE EntryInv(e)'
    <3>1. CASE e \in Waiting
      <4>1. EntryInv(e)
        BY <3>1 DEF ManagerInv
      <4>2. CASE e.window = w
        BY <1>2, <1>3, <1>5, <3>1, <4>1, <4>2 DEF EntryInv
      <4>3. CASE e.window # w
        BY <1>1, <1>2, <1>5, <2>5, <4>1, <4>3 DEF EntryInv, Registered
      <4> QED
        BY <4>2, <4>3
    <3>2. CASE e = failed
      BY <1>2, <1>3, <1>5, <2>2, <3>2 DEF EntryInv
    <3> QED
      BY <2>1, <3>1, <3>2 DEF Step
  <2>8. ASSUME NEW v \in ShellWindows PROVE IdentityInv(v)' /\ SurfaceInv(v)' /\ ResponderInv(v)'
    BY <1>1, <1>2, <1>5, <2>4 DEF WindowsInv, IdentityInv, SurfaceInv, ResponderInv, Unreported, windowSide
  <2>9. \A e \in {} : e.op \notin {"apply", "destroy", "tick"}
    OBVIOUS
  <2>10. LiveInv'
    BY <1>1, <1>5, <2>1, <2>9, LiveRests DEF shellSide
  <2>11. MenuInv'
    BY <2>2 DEF MenuInv, ShellComing
  <2> QED
    BY <2>3, <2>6, <2>7, <2>8, <2>10, <2>11 DEF WindowsInv, ManagerInv
<1> QED
  BY <1>4, <1>5 DEF OpenWindow

\* A session starts again in its window; its first report will refresh the shell.
LEMMA ReopenStep ==
  ASSUME ShellInv, Reopen
  PROVE  ShellInv'
<1> USE DEF ShellInv
<1>0. PICK w : w = keyed
  OBVIOUS
<1>1. /\ w \in ShellWindows /\ slots[w] # Unset /\ w \notin acting
      /\ slots' = [slots EXCEPT ![w] = Fresh] /\ acting' = acting \cup {w}
      /\ UNCHANGED <<stage, building, closer, keyed, sheets, windowSide, shellSide>>
      /\ Step({}, {})
  BY <1>0, QueueSteps DEF Reopen, Listed
<1>2. slots'[w] = Fresh /\ \A v \in ShellWindows \ {w} : slots'[v] = slots[v]
  BY <1>1 DEF TypeInv, ManagerTypes
<1>3. TypeInv'
  BY <1>1, FreshFacts DEF TypeInv, ManagerTypes, WindowTypes, ShellTypes, windowSide, shellSide, Step
<1>4. \A o, v : Awaits(o, v) => Awaits(o, v)'
  BY <1>1 DEF Awaits, Step
<1>5. ASSUME NEW v, DestroyComing(v) PROVE DestroyComing(v)'
  BY <1>1, <1>4, <1>5 DEF DestroyComing, WillDestroy
<1>6. ~Awaits("apply", w)
  BY <1>1 DEF ManagerInv, EntryInv, Awaits
<1>7. ASSUME NEW v \in ShellWindows PROVE WindowInv(v)'
  BY <1>1, <1>2, FreshFacts DEF ManagerInv, WindowInv
<1>8. ASSUME NEW e \in Waiting' PROVE EntryInv(e)'
  <2>1. EntryInv(e) /\ e \in Waiting
    BY <1>1 DEF Step, ManagerInv
  <2>2. CASE e.window = w
    BY <1>1, <1>2, <1>6, <2>1, <2>2, FreshFacts DEF EntryInv, Awaits
  <2>3. CASE e.window # w
    BY <1>1, <1>2, <1>5, <2>1, <2>3 DEF EntryInv, Registered
  <2> QED
    BY <2>2, <2>3
<1>9. ASSUME NEW v \in ShellWindows PROVE IdentityInv(v)' /\ SurfaceInv(v)' /\ ResponderInv(v)'
  BY <1>1, <1>2, <1>4, FreshFacts DEF WindowsInv, IdentityInv, SurfaceInv, ResponderInv, Unreported, windowSide
<1>10. status_for(slots[w]) # "Live" /\ status_for(Fresh) # "Live"
  BY <1>1, FreshFacts, StatusFacts DEF ManagerInv, WindowInv
<1>11. ASSUME NEW v \in ShellWindows PROVE AliveInv(v)'
  <2>1. CASE v = w
    BY <1>1, <1>2, <1>6, <1>10, <2>1, FreshFacts DEF LiveInv, AliveInv, shellSide
  <2>2. CASE v # w
    BY <1>1, <1>2, <1>4, <1>5, <2>2 DEF LiveInv, AliveInv, shellSide
  <2> QED
    BY <2>1, <2>2
<1>12. ASSUME NEW v \in ShellWindows PROVE SampledInv(v)'
  <2>1. AwaitsAny("tick") => AwaitsAny("tick")'
    BY <1>1 DEF AwaitsAny, Step
  <2>2. v \in Live(slots') => v \in Live(slots)
    BY <1>2, <1>10 DEF Live, Listed
  <2> QED
    BY <1>1, <2>1, <2>2 DEF LiveInv, SampledInv, shellSide
<1>13. MenuInv'
  BY <1>1, <1>2, FreshFacts DEF MenuInv, ShellComing, Unreported
<1> QED
  BY <1>3, <1>7, <1>8, <1>9, <1>11, <1>12, <1>13 DEF WindowsInv, LiveInv, ManagerInv

LEMMA CloseClicks ==
  ASSUME ShellInv, NEW w, NEW confirmed,
         Disconnect \/ (w \in ShellWindows /\ (DeletePicked(w) \/ request_close(w) \/ AnswerSheet(w, confirmed)))
  PROVE  ShellInv'
<1>1. \A e \in {} : e.op \in Plain
  OBVIOUS
<1>2. \A e \in {Menus} : e.op \in Plain
  BY ClosureFacts DEF Plain
<1>3. TypeInv
  BY DEF ShellInv
<1>4. CASE Disconnect
  <2>1. PICK v : v = keyed
    OBVIOUS
  <2>2. v \in ShellWindows /\ close_session_window(v) /\ UNCHANGED <<windowSide, shellSide>>
    BY <1>4, <2>1 DEF Disconnect
  <2>3. Step({}, {})
    BY <1>3, <1>4, QueueSteps DEF Disconnect
  <2> QED
    BY <1>1, <2>2, <2>3, CloseStep
<1>5. CASE w \in ShellWindows /\ DeletePicked(w)
  <2>1. close_session_window(w) /\ UNCHANGED <<windowSide, shellSide>>
    BY <1>5 DEF DeletePicked
  <2>2. Step({}, {})
    BY <1>3, <1>5, QueueSteps DEF DeletePicked
  <2> QED
    BY <1>1, <1>5, <2>1, <2>2, CloseStep
<1>6. CASE w \in ShellWindows /\ request_close(w)
  <2>1. UNCHANGED <<keyed, sheets, windowSide, shellSide>>
    BY <1>6 DEF request_close
  <2>2. CASE Defer("sheet", w) /\ UNCHANGED managerSide
    <3>1. Step({}, {Closure("sheet", w)})
      BY <1>3, <2>2, QueueSteps DEF Defer
    <3>2. \A e \in {Closure("sheet", w)} : e.op \in Plain
      BY ClosureFacts DEF Plain
    <3>3. \A e \in {} : e.op \in {"focus", "sheet", "connections", "hide"}
      OBVIOUS
    <3> QED
      BY <2>1, <2>2, <3>1, <3>2, <3>3, QuietShellStep
  <2>3. CASE close_session_window(w) /\ UNCHANGED mainq
    <3>1. Step({}, {})
      BY <1>3, <2>3, QueueSteps
    <3> QED
      BY <1>1, <1>6, <2>1, <2>3, <3>1, CloseStep
  <2> QED
    BY <1>6, <2>2, <2>3 DEF request_close
<1>7. CASE w \in ShellWindows /\ AnswerSheet(w, confirmed)
  <2>1. KeyMoves(w, mainq) /\ UNCHANGED <<windowSide, shellSide>>
    BY <1>7 DEF AnswerSheet
  <2>2. \/ keyed' = keyed /\ Step({}, {})
        \/ Step({}, {Menus})
    BY <1>3, <2>1, KeySteps
  <2>3. CASE close_session_window(w)
    BY <1>1, <1>2, <1>7, <2>1, <2>2, <2>3, CloseStep
  <2>4. CASE UNCHANGED managerSide
    <3>1. \A e \in {} : e.op \in {"focus", "sheet", "connections", "hide"}
      OBVIOUS
    <3> QED
      BY <1>1, <1>2, <2>1, <2>2, <2>4, <3>1, QuietShellStep
  <2> QED
    BY <1>7, <2>3, <2>4 DEF AnswerSheet
<1> QED
  BY <1>4, <1>5, <1>6, <1>7

-----------------------------------------------------------------------------

LEMMA ReportSteps ==
  ASSUME ShellInv, NEW w \in ShellWindows, NEW screen, (screen \in ShellScreens /\ PumpState(w, screen)) \/ PumpStats(w)
  PROVE  ShellInv'
<1>1. slots[w] \in View
  BY DEF PumpState, PumpStats, ShellInv, TypeInv, ManagerTypes, ManagerInv, WindowInv
<1>2. CASE screen \in ShellScreens /\ PumpState(w, screen)
  <2>1. PICK view : view = Folded(slots[w], screen)
    OBVIOUS
  <2>2. view \in View /\ PumpReports(w, view)
    BY <1>1, <1>2, <2>1, FoldedFacts DEF PumpState
  <2> QED
    BY <2>2, ReportStep
<1>3. CASE PumpStats(w)
  <2>1. PICK view : view = [slots[w] EXCEPT !.stats = TRUE]
    OBVIOUS
  <2>2. view \in View /\ PumpReports(w, view)
    BY <1>1, <1>3, <2>1, FoldedFacts DEF PumpStats
  <2> QED
    BY <2>2, ReportStep
<1> QED
  BY <1>2, <1>3

LEMMA ShellStep == ShellInv /\ [ShellNext]_shellVars => ShellInv'
<1> SUFFICES ASSUME ShellInv, [ShellNext]_shellVars PROVE ShellInv'
  OBVIOUS
<1>1. CASE MainThread
  <2>1. CASE RunTick
    BY <2>1, ThrottleSteps
  <2> QED
    BY <1>1, <2>1, QuietRuns, FocusRuns, MenuRuns, ReleaseRuns, ApplyRuns, ShowRuns, DiscardRuns, DestroyRuns
       DEF MainThread
<1>2. CASE OtherThreads
  <2>1. ASSUME NEW visible \in BOOLEAN, connections_visible(visible) PROVE ShellInv'
    BY <2>1, ThrottleSteps
  <2>2. ASSUME NEW w \in ShellWindows, IntervalEnds(w) PROVE ShellInv'
    BY <2>2, ThrottleSteps
  <2>3. ASSUME NEW w \in ShellWindows, PumpStats(w) PROVE ShellInv'
    BY <2>3, ReportSteps
  <2> QED
    BY <1>2, <2>1, <2>2, <2>3, ReportSteps, ShellEndStep, BuilderStep, CloserStep DEF OtherThreads
<1>3. CASE User
  <2>1. ASSUME NEW w, SelectSession(w) \/ ChooseFromDock(w) PROVE ShellInv'
    BY <2>1, QuietClicks
  <2>2. ASSUME NEW to, MakeKey(to) PROVE ShellInv'
    BY <2>2, QuietClicks
  <2>3. CASE HideConnections \/ ShowConnections
    BY <2>3, QuietClicks
  <2>4. CASE Disconnect
    BY <2>4, CloseClicks
  <2>5. ASSUME NEW w \in ShellWindows, DeletePicked(w) \/ request_close(w) PROVE ShellInv'
    BY <2>5, CloseClicks
  <2>6. ASSUME NEW w \in ShellWindows, NEW confirmed \in BOOLEAN, AnswerSheet(w, confirmed) PROVE ShellInv'
    BY <2>6, CloseClicks
  <2> QED
    BY <1>3, <2>1, <2>2, <2>3, <2>4, <2>5, <2>6, OpenStep, TitlebarClicked, StatsToggled, ReopenStep DEF User
<1>4. CASE UNCHANGED shellVars
  BY <1>4, QuietClicks
<1> QED
  BY <1>1, <1>2, <1>3, <1>4 DEF ShellNext

LEMMA ShellStart == ShellInit => ShellInv
<1> SUFFICES ASSUME ShellInit PROVE ShellInv
  OBVIOUS
<1>1. /\ Waiting = {} /\ mainq \in Seq(Waiting) /\ building = {}
      /\ \A w \in ShellWindows : closer[w] = <<>>
  BY DEF ShellInit, Waiting, Elements
<1>2. slots \in [ShellWindows -> {Unset} \cup View]
  <2>1. \A screen \in ShellScreens : [Fresh EXCEPT !.screen = screen] \in View
    BY DEF View, Fresh
  <2> QED
    BY <2>1 DEF ShellInit
<1>3. /\ \A w \in ShellWindows : stage[w] = IF slots[w] = Unset THEN "new" ELSE "shown"
      /\ acting = {w \in Listed(slots) : slots[w].screen # "Error"}
      /\ \A w \in ShellWindows : responder[w] = focus_for(surface[w])
      /\ \A w \in ShellWindows : slots[w] # Unset => /\ identity[w] = IdentityOf(slots[w])
                                                     /\ surface[w] = surface_for(slots[w])
  BY DEF ShellInit
<1>4. /\ alive = Live(slots) /\ menu = menu_spec(slots, keyed) /\ gallery = connections(slots)
      /\ throttle.visible => throttle.sampled = alive
  BY DEF ShellInit
<1>5. TypeInv
  <2>1. ManagerTypes
    BY <1>1, <1>2, <1>3 DEF ShellInit, ManagerTypes, Listed, Closings
  <2>2. WindowTypes
    <3>1. surface = [w \in ShellWindows |-> IF slots[w] = Unset THEN "Webview" ELSE surface_for(slots[w])]
      BY DEF ShellInit
    <3>2. surface \in [ShellWindows -> Fronts]
      BY <3>1, FocusFacts DEF Fronts
    <3>3. responder \in [ShellWindows -> {"Page", "Remote", "Titlebar"}]
      BY FocusFacts DEF ShellInit
    <3>4. identity = [w \in ShellWindows |-> identity[w]]
      BY DEF ShellInit
    <3> QED
      BY <3>2, <3>3, <3>4 DEF WindowTypes
  <2>3. ShellTypes
    <3>1. alive \subseteq ShellWindows
      BY <1>4 DEF Live, Listed
    <3>2. throttle \in {[visible |-> TRUE, sampled |-> alive], [visible |-> FALSE, sampled |-> {}]}
      BY DEF ShellInit
    <3>3. alive \in SUBSET ShellWindows /\ {} \in SUBSET ShellWindows
      BY <3>1
    <3>4. throttle \in [visible : BOOLEAN, sampled : SUBSET ShellWindows]
      <4> DEFINE Throttles == [visible : BOOLEAN, sampled : SUBSET ShellWindows]
      <4>1. [visible |-> TRUE, sampled |-> alive] \in Throttles
        BY <3>3
      <4>2. [visible |-> FALSE, sampled |-> {}] \in Throttles
        BY <3>3
      <4> HIDE DEF Throttles
      <4>3. throttle \in Throttles
        BY <3>2, <4>1, <4>2, Zenon
      <4> QED
        BY <4>3 DEF Throttles
    <3> QED
      BY <3>1, <3>4 DEF ShellTypes
  <2> QED
    BY <1>1, <2>1, <2>2, <2>3 DEF TypeInv
<1>6. ManagerInv
  BY <1>1, <1>3 DEF ManagerInv, WindowInv, Listed
<1>7. WindowsInv
  BY <1>3 DEF WindowsInv, IdentityInv, SurfaceInv, ResponderInv
<1>8. LiveInv
  BY <1>4 DEF LiveInv, AliveInv, SampledInv, Live, Listed
<1>9. MenuInv
  BY <1>4 DEF MenuInv
<1> QED
  BY <1>5, <1>6, <1>7, <1>8, <1>9 DEF ShellInv

LEMMA SettledIsCurrent == ShellInv => ShellIsCurrent
<1> SUFFICES ASSUME ShellInv, Settled PROVE ShellIsCurrent
  BY DEF ShellIsCurrent
<1> USE DEF ShellInv
<1>1. Waiting = {} /\ building = {}
  BY DEF Settled, Waiting, Elements
<1>2. \A w \in ShellWindows : closer[w] = <<>> /\ ~Unreported(w)
  BY DEF Settled, Unreported
<1>3. \A op, w : ~Awaits(op, w)
  BY <1>1 DEF Awaits
<1>4. \A op : ~AwaitsAny(op)
  BY <1>1 DEF AwaitsAny
<1>5. ~ShellComing
  BY <1>1, <1>2 DEF ShellComing
<1>6. menu = menu_spec(slots, keyed) /\ gallery = connections(slots)
  BY <1>4, <1>5 DEF MenuInv
<1>7. \A w \in Listed(slots) : identity[w] = IdentityOf(slots[w]) /\ responder[w] = focus_for(surface_for(slots[w]))
  BY <1>1, <1>2, <1>3 DEF WindowsInv, IdentityInv, SurfaceInv, ResponderInv, Listed, ManagerInv, WindowInv
<1>8. alive = Live(slots)
  <2>1. \A w \in ShellWindows : ~DestroyComing(w)
    BY <1>2, <1>3, WillDestroyFacts DEF DestroyComing
  <2> QED
    BY <1>3, <2>1 DEF LiveInv, AliveInv, Live, Listed, TypeInv, ShellTypes
<1>9. throttle.visible => alive \subseteq throttle.sampled
  BY <1>4, <1>8 DEF LiveInv, SampledInv, TypeInv, ShellTypes
<1> QED
  BY <1>6, <1>7, <1>8, <1>9 DEF ShellIsCurrent

\* However reports, clicks, closes and key changes meet on the main thread (windows.rs apply_view,
\* present.rs, menu.rs, connections.rs), once it is idle the menu bar, the gallery, the title bars,
\* the keyboard owners and the previews agree with the sessions: for any number of windows.
THEOREM ShellStaysCurrent == ShellSpec => []ShellIsCurrent
<1>1. ShellInit => ShellInv
  BY ShellStart
<1>2. ShellInv /\ [ShellNext]_shellVars => ShellInv'
  BY ShellStep
<1>3. ShellInv => ShellIsCurrent
  BY SettledIsCurrent
<1> QED
  BY <1>1, <1>2, <1>3, PTL DEF ShellSpec
================================================================================
