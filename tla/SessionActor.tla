---------------------------- MODULE SessionActor ----------------------------
(***************************************************************************)
(* The session actor (crates/drift-rdp/src/actor.rs) with the connection   *)
(* phases it drives (connect.rs), the redirect loop (redirect.rs) and the  *)
(* reconnect policy (ReconnectPolicy), next to the task that forwards the  *)
(* app's commands.                                                         *)
(*                                                                         *)
(* pc is where the actor task awaits:                                      *)
(*   collect   collect_initial_state      connect  entry of connect_one    *)
(*   tcp, tls, prompt, auth               the phases of connect_leg        *)
(*   activating  the writes of on_activated                                *)
(*   live      run_leg                    backoff  wait_backoff            *)
(*   idle      idle                       exit     the task has returned   *)
(* and, on a live leg, in a write to the server that nothing bounds:       *)
(*   writing   write_all of run_leg's handlers                             *)
(*   hiding    the Suppress Output of apply_visibility(false)              *)
(*   closing   shutdown                                                    *)
(* Between two awaits the actor runs alone, so each action below is the    *)
(* code from one await to the next.                                        *)
(*                                                                         *)
(* Commands that touch neither the life cycle nor visibility (Input,       *)
(* Resize, Focus, ClipboardLocalChanged) belong to other modules.          *)
(***************************************************************************)
EXTENDS SessionState, ReconnectPolicy, Sequences

CONSTANTS
    Mode,         \* the profile's ConnectMode
    Certs,        \* leaf certificates servers may present
    NoCert,       \* "no certificate": None of an Option<CertFingerprint>
    ProfilePin,   \* the profile's cert_pin, or NoCert
    Kinds,        \* the kinds of command the app sends in this instance
    Errors,       \* the transport and protocol errors that may happen
    MaxSends      \* bound: commands the app sends

Modes == {"RemoteLogin", "Headless", "DesktopSharing"}

AllKinds == {"Close", "Cancel", "ReconnectNow", "NetworkUp", "NetworkDown", "Show", "Hide",
             "Accept", "Reject"}

IoErrors == {"HostUnreach", "ETimedOut", "Eof", "Reset", "TimedOut", "OtherIo"}
AllErrors == IoErrors \cup {"RdstlsAuthFailed", "Credssp", "Malformed"}

ASSUME ActorAssumption ==
    /\ Mode \in Modes
    /\ NoCert \notin Certs
    /\ ProfilePin \in Certs \cup {NoCert}
    /\ Kinds \subseteq AllKinds
    /\ Errors \subseteq AllErrors
    /\ MaxSends \in Nat

VARIABLES
    pc,          \* where the actor awaits
    cmds,        \* the forwarded command channel
    closed,      \* the `closed` watch
    fwd,         \* the forwarder: "run", "closing", "dropping", "dropped"
    leg,         \* RedirectLoop.leg = Io.leg
    expect,      \* the leg's CertExpectation
    leaf,        \* the leaf certificate the current leg's server presented
    sessionPin,  \* Io.session_pin
    policy,      \* the ReconnectPolicy
    deadline,    \* of the backoff: "none", "pending", "due", "never"
    dropReason,  \* why the connection the backoff is about ended
    activated,   \* activations > 0
    view,        \* View.visible
    sinkVisible, \* what the tab's frame sink was last told
    gfxOpen,     \* the leg's graphics DVC has a channel id
    acksHidden,  \* the hidden flag of the leg's GfxClient
    sent,        \* commands sent so far
    lastVisible, \* history: the app's last SetVisible
    accepted,    \* history: certificates the user accepted
    rejected,    \* history: transitions the gate refused
    tries        \* history: automatic reconnects since the last reset

mailbox == <<cmds, closed, fwd>>
trust == <<expect, leaf, sessionPin>>
visibility == <<view, sinkVisible, gfxOpen, acksHidden>>
app == <<sent, lastVisible, accepted>>
vars == <<state, pc, mailbox, leg, trust, policy, deadline, dropReason, activated,
          visibility, app, rejected, tries>>

-----------------------------------------------------------------------------
(* Values.                                                                 *)

Command(kind, cert) == [kind |-> kind, cert |-> cert]

SessionCommand == [kind : AllKinds, cert : Certs \cup {NoCert}]

\* What the app may send: an Accept names a certificate, the others none.
Sendable == {Command(k, NoCert) : k \in Kinds \ {"Accept"}}
            \cup {Command(k, c) : k \in Kinds \cap {"Accept"}, c \in Certs}

CertExpectation == [kind : {"Pinned", "TrustOnFirstUse", "Exact"}, cert : Certs \cup {NoCert}]

Expectation(pin) == IF pin = NoCert THEN [kind |-> "TrustOnFirstUse", cert |-> NoCert]
                                    ELSE [kind |-> "Pinned", cert |-> pin]

auth_stage == IF leg = 1 THEN "Nla" ELSE "Rdstls"

classify_io_error(e, stage) ==
    CASE e = "HostUnreach" -> "LocalNetworkDenied"
      [] e = "ETimedOut" -> "Timeout"
      [] e \in {"Eof", "Reset"} /\ stage = "Nla" -> "AuthFailed"
      [] e = "TimedOut" -> "Timeout"
      [] e = "Eof" /\ stage # "Tcp" -> "TlsEof"
      [] OTHER -> "Network"

classify_connector_error(e, stage) ==
    CASE e = "RdstlsAuthFailed" -> "RdstlsFailed"
      [] e = "Credssp" -> "AuthFailed"
      [] e = "Malformed" -> "ProtocolError"
      [] OTHER -> classify_io_error(e, stage)

\* The errors each phase can meet; `until` adds the timeout of the phase.
PhaseErrors(stage) ==
    Errors \ ((IF stage = "Nla" THEN {} ELSE {"Credssp"})
              \cup (IF stage = "Rdstls" THEN {} ELSE {"RdstlsAuthFailed"}))

PhaseFailures(stage) ==
    {classify_connector_error(e, stage) : e \in PhaseErrors(stage)} \cup {"Timeout"}

\* How a live leg ends on its own: a transport or protocol error, or a Terminate output.
LegEnds == {classify_connector_error(e, "Activation") : e \in PhaseErrors("Activation")}
           \cup {"LoggedOffRemotely", "ServerShutdown"}

-----------------------------------------------------------------------------
(* Io::set_state: an equal state is silent, a rejected one only logged.    *)
set_state(next) ==
    /\ state' = IF allows(state, next) THEN next ELSE state
    /\ rejected' = IF next = state \/ allows(state, next) THEN rejected
                   ELSE rejected \cup {<<state.tag, next.tag, next.reason>>}

terminal_state(reason) ==
    IF is_retryable(reason) THEN Disconnected(reason) ELSE Failed(reason)

Exit ==
    /\ set_state(Disconnected("UserClosed"))
    /\ pc' = "exit"

\* Mutant: the terminal state is not shown.
BugStop(end) == pc' = "idle" /\ UNCHANGED <<state, rejected>>

Stop(end) ==
    /\ set_state(end)
    /\ pc' = "idle"

\* `tries` follows the policy's own resets: a stable connection forgives the history.
ForgiveTries(p) == tries' = IF p.since = "stable" THEN 0 ELSE tries

(* after_disconnect up to its next await, with the policy p and the        *)
(* activation flag `up` of that moment.                                    *)
after_disconnect(reason, p, up) ==
    \/ /\ reason = "UserClosed"
       /\ Exit
       /\ policy' = p
       /\ UNCHANGED <<deadline, dropReason, tries>>
    \/ /\ reason # "UserClosed" /\ ~up
       /\ Stop(terminal_state(reason))
       /\ policy' = p
       /\ UNCHANGED <<deadline, dropReason, tries>>
    \/ /\ reason # "UserClosed" /\ up
       /\ LET d == on_disconnect(p, is_retryable(reason)) IN
          /\ policy' = d.policy
          /\ ForgiveTries(p)
          /\ \/ /\ d.do = "GiveUp"
                /\ Stop(terminal_state(reason))
                /\ UNCHANGED <<deadline, dropReason>>
             \/ /\ d.do # "GiveUp"
                /\ set_state(Reconnecting(d.attempt, reason))
                /\ pc' = "backoff"
                /\ deadline' = IF d.do = "Retry" THEN "pending" ELSE "never"
                /\ dropReason' = reason

\* connect_loop starts again from first_leg.
StartConnection ==
    /\ pc' = "connect"
    /\ leg' = 1
    /\ expect' = Expectation(ProfilePin)
    /\ leaf' = NoCert
    /\ deadline' = "none"

-----------------------------------------------------------------------------
(* The app and the forwarder task.  Delays of the forwarder are delays of  *)
(* the app, so it is only visible in the order of its two effects: it sets *)
(* `closed` before it passes Close on (or drops the channel).              *)

Queued(c) ==
    /\ cmds' = Append(cmds, c)
    /\ UNCHANGED <<closed, fwd>>

Send(c) ==
    /\ pc # "exit" /\ fwd = "run" /\ sent < MaxSends
    /\ sent' = sent + 1
    /\ IF c.kind = "Close" THEN /\ closed' = TRUE
                                /\ fwd' = "closing"
                                /\ cmds' = cmds
                           ELSE Queued(c)
    /\ lastVisible' = (c.kind = "Show" \/ (lastVisible /\ c.kind # "Hide"))
    /\ accepted' = IF c.kind = "Accept" THEN accepted \cup {c.cert} ELSE accepted
    /\ UNCHANGED <<state, pc, leg, trust, policy, deadline, dropReason, activated, visibility,
                   rejected, tries>>

ForwardClose ==
    /\ fwd = "closing"
    /\ cmds' = Append(cmds, Command("Close", NoCert))
    /\ fwd' = "run"
    /\ UNCHANGED <<state, pc, closed, leg, trust, policy, deadline, dropReason, activated,
                   visibility, app, rejected, tries>>

\* Every SessionHandle is gone.
DropHandles ==
    /\ pc # "exit" /\ fwd = "run"
    /\ closed' = TRUE
    /\ fwd' = "dropping"
    /\ UNCHANGED <<state, pc, cmds, leg, trust, policy, deadline, dropReason, activated,
                   visibility, app, rejected, tries>>

ForwarderEnds ==
    /\ fwd = "dropping"
    /\ fwd' = "dropped"
    /\ UNCHANGED <<state, pc, cmds, closed, leg, trust, policy, deadline, dropReason, activated,
                   visibility, app, rejected, tries>>

\* recv() yields the command c.
Receive(c) ==
    /\ cmds # <<>> /\ c = Head(cmds)
    /\ cmds' = Tail(cmds)
    /\ UNCHANGED <<closed, fwd>>

\* Mutant: a hung-up channel is not taken for Close.
BugReceiveClose == Receive(Command("Close", NoCert))

\* recv() yields Close, or None once the forwarder is gone and the channel is empty.
ReceiveClose ==
    \/ Receive(Command("Close", NoCert))
    \/ cmds = <<>> /\ fwd = "dropped" /\ UNCHANGED mailbox

ReceiveKind(kinds) == \E c \in SessionCommand : c.kind \in kinds /\ Receive(c)

\* Mutant: visibility is not recorded.
BugRemember == ReceiveKind({"Show", "Hide", "Accept", "Reject"}) /\ view' = view

\* remember(), for the part of the app's state this module keeps.
remember ==
    \/ Receive(Command("Show", NoCert)) /\ view' = TRUE
    \/ Receive(Command("Hide", NoCert)) /\ view' = FALSE
    \/ ReceiveKind({"Accept", "Reject"}) /\ view' = view

-----------------------------------------------------------------------------
(* connect_loop: the initial state, then the phases of one leg.            *)

CollectCommand ==
    /\ pc = "collect"
    /\ \/ remember
       \/ ReceiveKind({"Cancel", "ReconnectNow", "NetworkUp", "NetworkDown"}) /\ view' = view
    /\ UNCHANGED <<state, pc, leg, trust, policy, deadline, dropReason, activated, sinkVisible,
                   gfxOpen, acksHidden, app, rejected, tries>>

\* The grace is over, or Close / None: the Close is gone, only `closed` remembers it.
CollectDone ==
    /\ pc = "collect"
    /\ ReceiveClose \/ UNCHANGED mailbox
    /\ StartConnection
    /\ UNCHANGED <<state, sessionPin, policy, dropReason, activated, visibility, app, rejected,
                   tries>>

\* connect_one: `closed` is checked, the leg gets its channels, connect_leg reports Tcp.
ConnectOne ==
    /\ pc = "connect"
    /\ \/ /\ closed
          /\ after_disconnect("UserClosed", policy, activated)
          /\ UNCHANGED <<gfxOpen, acksHidden>>
       \/ /\ ~closed
          /\ set_state(Connecting(leg, "Tcp"))
          /\ pc' = "tcp"
          /\ gfxOpen' = FALSE
          /\ acksHidden' = FALSE
          /\ UNCHANGED <<policy, deadline, dropReason, tries>>
    /\ UNCHANGED <<mailbox, leg, trust, activated, view, sinkVisible, app>>

\* The select of connect_one sees `closed` while connect_leg is under way.
ConnectClosed ==
    /\ pc \in {"tcp", "tls", "prompt", "auth"} /\ closed
    /\ after_disconnect("UserClosed", policy, activated)
    /\ UNCHANGED <<mailbox, leg, trust, activated, visibility, app>>

ConnectFails ==
    /\ pc \in {"tcp", "tls", "auth"}
    /\ \E reason \in PhaseFailures(CASE pc = "tcp" -> "Tcp"
                                     [] pc = "tls" -> "Tls"
                                     [] pc = "auth" -> auth_stage) :
          after_disconnect(reason, policy, activated)
    /\ UNCHANGED <<mailbox, leg, trust, activated, visibility, app>>

TcpDone ==
    /\ pc = "tcp"
    /\ set_state(Connecting(leg, "Tls"))
    /\ pc' = "tls"
    /\ UNCHANGED <<mailbox, leg, trust, policy, deadline, dropReason, activated, visibility, app,
                   tries>>

EnterAuth ==
    /\ set_state(Connecting(leg, auth_stage))
    /\ pc' = "auth"
    /\ UNCHANGED <<policy, deadline, dropReason, tries>>

check_certificate(e, cert) ==
    IF e.kind = "TrustOnFirstUse" THEN "Unknown"
    ELSE IF e.cert = cert THEN "Trusted" ELSE "Mismatch"

\* The handshake ends with some leaf; decide_certificate accepts the session's pin silently.
TlsDone ==
    /\ pc = "tls"
    /\ \E cert \in Certs :
          /\ leaf' = cert
          /\ LET verdict == check_certificate(expect, cert) IN
             \/ /\ verdict = "Trusted" \/ (verdict = "Unknown" /\ cert = sessionPin)
                /\ EnterAuth
             \/ /\ verdict = "Mismatch"
                /\ after_disconnect("CertMismatch", policy, activated)
             \/ /\ verdict = "Unknown" /\ cert # sessionPin
                /\ pc' = "prompt"
                /\ UNCHANGED <<state, policy, deadline, dropReason, rejected, tries>>
    /\ UNCHANGED <<mailbox, leg, expect, sessionPin, activated, visibility, app>>

\* Mutant: any acceptance answers the prompt.
BugMatches(c) == c.kind = "Accept"

\* decide_certificate answers only to the prompted fingerprint; other commands are dropped.
Matches(c) == c.kind = "Accept" /\ c.cert = leaf

PromptCommand ==
    /\ pc = "prompt"
    /\ \E c \in SessionCommand :
          /\ c.kind # "Close" /\ Receive(c)
          /\ \/ /\ Matches(c)
                /\ sessionPin' = leaf
                /\ EnterAuth
             \/ /\ c.kind = "Reject"
                /\ sessionPin' = sessionPin
                /\ after_disconnect("CertMismatch", policy, activated)
             \/ /\ ~Matches(c) /\ c.kind # "Reject"
                /\ UNCHANGED <<state, pc, sessionPin, policy, deadline, dropReason, rejected,
                               tries>>
    /\ UNCHANGED <<leg, expect, leaf, activated, visibility, app>>

PromptClose ==
    /\ pc = "prompt"
    /\ ReceiveClose
    /\ after_disconnect("UserClosed", policy, activated)
    /\ UNCHANGED <<leg, trust, activated, visibility, app>>

-----------------------------------------------------------------------------
(* A live leg.                                                             *)

\* Where the actor is while run_leg runs.
Up == {"live", "writing", "hiding", "closing"}

\* RedirectLoop::on_activated: the state a freshly activated leg shows, if any.
activated_state ==
    IF Mode = "RemoteLogin" /\ leg = 1 THEN state
    ELSE IF Mode = "RemoteLogin" /\ leg = 2 THEN AwaitingGreeterLogin ELSE Connected

\* Graphics::set_visible: through the GfxClient once its channel is open, else the sink alone.
GraphicsVisible(visible) ==
    /\ sinkVisible' = visible
    /\ acksHidden' = IF gfxOpen THEN ~visible ELSE acksHidden

\* connect_leg succeeds: on_activated of the redirect loop, then the actor's, up to its writes.
Activate ==
    /\ pc = "auth"
    /\ set_state(activated_state)
    /\ pc' = "activating"
    /\ policy' = on_connected(policy)
    /\ UNCHANGED <<mailbox, leg, trust, deadline, dropReason, activated, visibility, app, tries>>

\* A hidden tab is suppressed; for a visible one nothing is sent.
ApplyView == IF view THEN UNCHANGED <<sinkVisible, acksHidden>> ELSE GraphicsVisible(FALSE)

\* on_activated wrote everything, or a write failed before or after the visibility.
Activated ==
    /\ pc = "activating"
    /\ activated' = TRUE
    /\ \/ /\ ApplyView
          /\ pc' = "live"
          /\ UNCHANGED <<state, policy, deadline, dropReason, rejected, tries>>
       \/ /\ ApplyView \/ UNCHANGED <<sinkVisible, acksHidden>>
          /\ \E e \in Errors \cap IoErrors :
                after_disconnect(classify_io_error(e, "Activation"), policy, TRUE)
    /\ UNCHANGED <<mailbox, leg, trust, view, gfxOpen, app>>

\* The server creates the graphics channel.
OpenGfx ==
    /\ pc = "live" /\ ~gfxOpen
    /\ gfxOpen' = TRUE
    /\ UNCHANGED <<state, pc, mailbox, leg, trust, policy, deadline, dropReason, activated, view,
                   sinkVisible, acksHidden, app, rejected, tries>>

LegEnded ==
    /\ pc = "live"
    /\ \E reason \in LegEnds : after_disconnect(reason, policy, activated)
    /\ UNCHANGED <<mailbox, leg, trust, activated, visibility, app>>

\* Mutant: one redirect too many.
BugMayRedirect == leg - 1 <= MAX_REDIRECTS

MayRedirect == leg - 1 < MAX_REDIRECTS

\* on_redirect refuses: too many legs, no credentials or a malformed target certificate.
RedirectRefused ==
    /\ pc = "live"
    /\ after_disconnect(IF MayRedirect THEN "ProtocolError" ELSE "RedirectLoop",
                        policy, activated)
    /\ UNCHANGED <<mailbox, leg, trust, activated, visibility, app>>

\* The next leg trusts the PDU's target certificate, else the profile's or the session's pin.
LegPin == IF ProfilePin # NoCert THEN ProfilePin ELSE sessionPin

FollowRedirect ==
    /\ pc = "live" /\ MayRedirect
    /\ leg' = leg + 1
    /\ \E target \in Certs \cup {NoCert} :
          expect' = IF target = NoCert THEN Expectation(LegPin)
                                       ELSE [kind |-> "Exact", cert |-> target]
    /\ leaf' = NoCert
    /\ pc' = "connect"
    /\ UNCHANGED <<state, mailbox, sessionPin, policy, deadline, dropReason, activated,
                   visibility, app, rejected, tries>>

\* A handler of run_leg (a PDU's answer, an acknowledgement, input, a layout, the clipboard)
\* writes to the server.
LiveWrite ==
    /\ pc = "live"
    /\ pc' = "writing"
    /\ UNCHANGED <<state, mailbox, leg, trust, policy, deadline, dropReason, activated, visibility,
                   app, rejected, tries>>

\* The server has read what was written; acks stop after the Suppress Output.
Written ==
    /\ pc \in {"writing", "hiding"}
    /\ IF pc = "hiding" THEN GraphicsVisible(FALSE) ELSE UNCHANGED <<sinkVisible, acksHidden>>
    /\ pc' = "live"
    /\ UNCHANGED <<state, mailbox, leg, trust, policy, deadline, dropReason, activated, view,
                   gfxOpen, app, rejected, tries>>

WriteFails ==
    /\ pc \in {"writing", "hiding"}
    /\ \E e \in Errors \cap IoErrors :
          after_disconnect(classify_io_error(e, "Activation"), policy, activated)
    /\ UNCHANGED <<mailbox, leg, trust, activated, visibility, app>>

\* on_command: shutdown() begins with a write.
LiveClose ==
    /\ pc = "live"
    /\ ReceiveClose
    /\ pc' = "closing"
    /\ UNCHANGED <<state, leg, trust, policy, deadline, dropReason, activated, visibility, app,
                   rejected, tries>>

\* shutdown() has written or failed to, and waited for the server for a bounded time.
ShutDown ==
    /\ pc = "closing"
    /\ after_disconnect("UserClosed", policy, activated)
    /\ UNCHANGED <<mailbox, leg, trust, activated, visibility, app>>

\* SetVisible: acks resume before the Suppress Output is written.
LiveVisible ==
    /\ pc = "live"
    /\ \E v \in BOOLEAN :
          /\ Receive(Command(IF v THEN "Show" ELSE "Hide", NoCert))
          /\ view' = v
          /\ IF v /\ ~view THEN GraphicsVisible(TRUE) ELSE UNCHANGED <<sinkVisible, acksHidden>>
          /\ pc' = IF v = view THEN "live" ELSE IF v THEN "writing" ELSE "hiding"
    /\ UNCHANGED <<state, leg, trust, policy, deadline, dropReason, activated, gfxOpen, app,
                   rejected, tries>>

LiveCommand ==
    /\ pc = "live"
    /\ \/ Receive(Command("NetworkUp", NoCert)) /\ policy' = set_network_reachable(policy, TRUE)
       \/ Receive(Command("NetworkDown", NoCert)) /\ policy' = set_network_reachable(policy, FALSE)
       \/ ReceiveKind({"Accept", "Reject", "Cancel", "ReconnectNow"}) /\ policy' = policy
    /\ UNCHANGED <<state, pc, leg, trust, deadline, dropReason, activated, visibility, app,
                   rejected, tries>>

-----------------------------------------------------------------------------
(* wait_backoff and idle.                                                  *)

MoreTries == tries' = IF tries > max_attempts THEN tries ELSE tries + 1

BackoffReconnect ==
    /\ MoreTries
    /\ StartConnection
    /\ UNCHANGED <<state, sessionPin, dropReason, activated, visibility, app, rejected>>

\* Mutant: the deadline is only looked at when a command arrives.
BugBackoffReady ==
    /\ pc = "backoff" /\ deadline = "due" /\ policy.network /\ cmds # <<>>
    /\ BackoffReconnect
    /\ UNCHANGED <<policy, mailbox>>

BackoffReady ==
    /\ pc = "backoff" /\ deadline = "due" /\ policy.network
    /\ BackoffReconnect
    /\ UNCHANGED <<policy, mailbox>>

BackoffClose ==
    /\ pc = "backoff"
    /\ ReceiveClose
    /\ Exit
    /\ UNCHANGED <<leg, trust, policy, deadline, dropReason, activated, visibility, app, tries>>

BackoffCancel ==
    /\ pc = "backoff"
    /\ Receive(Command("Cancel", NoCert))
    /\ policy' = reset(policy)
    /\ tries' = 0
    /\ Stop(Disconnected(dropReason))
    /\ UNCHANGED <<leg, trust, deadline, dropReason, activated, visibility, app>>

BackoffNow ==
    /\ pc = "backoff"
    /\ Receive(Command("ReconnectNow", NoCert))
    /\ IF policy.network THEN BackoffReconnect
       ELSE UNCHANGED <<state, pc, leg, trust, deadline, dropReason, activated, visibility, app,
                        rejected, tries>>
    /\ UNCHANGED policy

\* Mutant: the network's return is recorded but does not reconnect.
BugBackoffNetwork ==
    /\ pc = "backoff"
    /\ \E up \in BOOLEAN :
          /\ Receive(Command(IF up THEN "NetworkUp" ELSE "NetworkDown", NoCert))
          /\ policy' = set_network_reachable(policy, up)
    /\ UNCHANGED <<state, pc, leg, trust, deadline, dropReason, activated, visibility, app,
                   rejected, tries>>

BackoffNetwork ==
    /\ pc = "backoff"
    /\ \/ /\ Receive(Command("NetworkUp", NoCert))
          /\ policy' = set_network_reachable(policy, TRUE)
          /\ BackoffReconnect
       \/ /\ Receive(Command("NetworkDown", NoCert))
          /\ policy' = set_network_reachable(policy, FALSE)
          /\ UNCHANGED <<state, pc, leg, trust, deadline, dropReason, activated, visibility, app,
                         rejected, tries>>

BackoffRemember ==
    /\ pc = "backoff"
    /\ remember
    /\ UNCHANGED <<state, pc, leg, trust, policy, deadline, dropReason, activated, sinkVisible,
                   gfxOpen, acksHidden, app, rejected, tries>>

\* Close leaves the loop; no state is reported.
IdleClose ==
    /\ pc = "idle"
    /\ ReceiveClose
    /\ pc' = "exit"
    /\ UNCHANGED <<state, leg, trust, policy, deadline, dropReason, activated, visibility, app,
                   rejected, tries>>

IdleReconnect ==
    /\ pc = "idle"
    /\ Receive(Command("ReconnectNow", NoCert))
    /\ policy' = set_network_reachable(reset(policy), TRUE)
    /\ tries' = 0
    /\ StartConnection
    /\ UNCHANGED <<state, sessionPin, dropReason, activated, visibility, app, rejected>>

IdleCommand ==
    /\ pc = "idle"
    /\ \/ /\ Receive(Command("NetworkUp", NoCert)) /\ view' = view
          /\ policy' = set_network_reachable(policy, TRUE)
       \/ /\ Receive(Command("NetworkDown", NoCert)) /\ view' = view
          /\ policy' = set_network_reachable(policy, FALSE)
       \/ /\ \/ remember
             \/ Receive(Command("Cancel", NoCert)) /\ view' = view
          /\ policy' = policy
    /\ UNCHANGED <<state, pc, leg, trust, deadline, dropReason, activated, sinkVisible, gfxOpen,
                   acksHidden, app, rejected, tries>>

-----------------------------------------------------------------------------
(* Time.                                                                   *)

\* stable_after has passed since the last activation.
Settle ==
    /\ pc # "exit" /\ policy.since = "recent"
    /\ policy' = Settled(policy)
    /\ UNCHANGED <<state, pc, mailbox, leg, trust, deadline, dropReason, activated, visibility,
                   app, rejected, tries>>

DeadlinePasses ==
    /\ pc = "backoff" /\ deadline = "pending"
    /\ deadline' = "due"
    /\ UNCHANGED <<state, pc, mailbox, leg, trust, policy, dropReason, activated, visibility, app,
                   rejected, tries>>

-----------------------------------------------------------------------------
Init ==
    /\ StateInit
    /\ pc = "collect"
    /\ cmds = <<>> /\ closed = FALSE /\ fwd = "run"
    /\ leg = 1
    /\ expect = Expectation(ProfilePin) /\ leaf = NoCert /\ sessionPin = NoCert
    /\ policy = NewPolicy
    /\ deadline = "none" /\ dropReason = "none"
    /\ activated = FALSE
    /\ view = TRUE /\ sinkVisible = TRUE /\ gfxOpen = FALSE /\ acksHidden = FALSE
    /\ sent = 0 /\ lastVisible = TRUE /\ accepted = {}
    /\ rejected = {} /\ tries = 0

App == (\E c \in Sendable : Send(c)) \/ DropHandles
Forwarder == ForwardClose \/ ForwarderEnds
Connect == CollectDone \/ ConnectOne \/ ConnectClosed \/ ConnectFails \/ TcpDone \/ TlsDone
           \/ Activate
Commands == CollectCommand \/ PromptCommand \/ PromptClose \/ LiveClose \/ LiveVisible
            \/ LiveCommand \/ BackoffClose \/ BackoffCancel \/ BackoffNow \/ BackoffNetwork
            \/ BackoffRemember \/ IdleClose \/ IdleReconnect \/ IdleCommand
Server == OpenGfx \/ LegEnded \/ RedirectRefused \/ FollowRedirect \/ Activated \/ LiveWrite
          \/ Written \/ WriteFails \/ ShutDown

Next == App \/ Forwarder \/ Connect \/ Commands \/ Server \/ BackoffReady \/ Settle
        \/ DeadlinePasses

(* Tokio runs every ready task, and select! picks among ready branches at  *)
(* random, so a leg that is live again and again reads its commands in the *)
(* end; `until` bounds every connection phase; the clock advances.         *)
(* Nothing is assumed of the app, the user or the server: a write to a     *)
(* live leg may never return.                                              *)
Fairness ==
    /\ WF_vars(Forwarder) /\ WF_vars(Connect) /\ SF_vars(Commands)
    /\ WF_vars(BackoffReady) /\ WF_vars(DeadlinePasses)

Spec == Init /\ [][Next]_vars
FairSpec == Spec /\ Fairness

-----------------------------------------------------------------------------
(* Properties.                                                             *)

\* The type invariant: every variable holds a value of its Rust type.
TypeOK ==
    /\ state \in States
    /\ pc \in {"collect", "connect", "tcp", "tls", "prompt", "auth", "activating", "live",
              "writing", "hiding", "closing", "backoff", "idle", "exit"}
    /\ cmds \in Seq(SessionCommand) /\ closed \in BOOLEAN
    /\ fwd \in {"run", "closing", "dropping", "dropped"}
    /\ leg \in 1..MAX_LEG
    /\ expect \in CertExpectation
    /\ leaf \in Certs \cup {NoCert} /\ sessionPin \in Certs \cup {NoCert}
    /\ policy \in Policy
    /\ deadline \in {"none", "pending", "due", "never"}
    /\ dropReason \in DisconnectReason \cup {"none"}
    /\ activated \in BOOLEAN
    /\ view \in BOOLEAN /\ sinkVisible \in BOOLEAN /\ gfxOpen \in BOOLEAN
    /\ acksHidden \in BOOLEAN
    /\ sent \in Nat /\ lastVisible \in BOOLEAN /\ accepted \subseteq Certs
    /\ tries \in Nat

(* Credentials only travel to a server whose leaf certificate is the       *)
(* profile's pin, the certificate the redirecting server named, or one the *)
(* user accepted for exactly that fingerprint - whatever was queued before *)
(* the prompt (connect_leg: "before any credential leaves the machine").   *)
CredentialsOnlyToTrusted ==
    pc \in {"auth", "activating"} \cup Up =>
        /\ leaf \in Certs
        /\ \/ leaf \in accepted
           \/ leaf = ProfilePin
           \/ expect.kind = "Exact" /\ leaf = expect.cert

(* The app's picture of the session is where the actor really is: no       *)
(* transition the actor needs is ever refused by the gate on the way.      *)
StateShowsPhase ==
    /\ pc \in {"tcp", "tls", "prompt", "auth"} =>
          state = Connecting(leg, CASE pc = "tcp" -> "Tcp"
                                    [] pc = "auth" -> auth_stage
                                    [] OTHER -> "Tls")
    /\ pc \in Up => state = IF Mode = "RemoteLogin" /\ leg = 1 THEN Connecting(1, "Nla")
                             ELSE activated_state
    /\ pc = "backoff" => state.tag = "Reconnecting" /\ state.reason = dropReason
    /\ pc = "idle" => state.tag \in Stopped

(* The only transition the gate ever refuses is the last one of a session  *)
(* the user closes while it is already stopped.                            *)
OnlyClosingIsRejected ==
    \A r \in rejected : r[1] \in Stopped /\ r[2] = "Disconnected" /\ r[3] = "UserClosed"

(* What the app is shown is the truth: the published state is the actor's  *)
(* phase (Io::set_state), because the gate refuses nothing but the last    *)
(* word of a session that has already stopped.                             *)
StateIsTruthful == StateShowsPhase /\ OnlyClosingIsRejected

(* A backoff without a deadline (WaitForNetwork) is only entered and kept  *)
(* while the policy believes the network is down, so the NetworkReachable  *)
(* that ends it is still to come.                                          *)
WaitsOnlyForNetwork ==
    pc = "backoff" /\ deadline \in {"never", "none"} => deadline = "never" /\ ~policy.network

(* A tab that is hidden when its leg is live is not composed.              *)
HiddenIsSuppressed == pc = "live" /\ ~view => ~sinkVisible

(* A tab that is visible when its leg is live is composed.                 *)
VisibleIsComposed == pc = "live" /\ view => sinkVisible

(* What the code says of acknowledgements: they are suspended while the    *)
(* tab is hidden (actor.rs), on every leg whose graphics channel is open.  *)
HiddenSuspendsAcks == pc = "live" /\ ~view /\ gfxOpen => acksHidden

VisibilityPending ==
    \E i \in 1..Len(cmds) : cmds[i].kind \in {"Show", "Hide"}

(* The actor's View survives every disconnected phase: once the commands   *)
(* are read, it is what the app last said.                                 *)
ViewFollowsApp ==
    pc \in {"live", "backoff", "idle"} /\ ~VisibilityPending => view = lastVisible

(* No more automatic reconnects than the budget since the last reset.      *)
AttemptsWithinBudget == tries <= max_attempts

(* An automatic reconnect is only shown and made after a connection that   *)
(* had been activated, for a retryable reason, with a positive number.     *)
RetriesAreEarned ==
    pc = "backoff" => activated /\ is_retryable(dropReason) /\ state.attempt > 0

(* ReconnectPolicy::on_disconnect: only what was earned is retried, and no *)
(* oftener than the budget allows while the network stays up.              *)
RetriesAreBounded == AttemptsWithinBudget /\ RetriesAreEarned

(* What the app last said of visibility survives every disconnected phase  *)
(* (Actor::remember), and a hidden tab's next leg is suppressed            *)
(* (Actor::on_activated).                                                  *)
VisibilityFollowsApp == HiddenIsSuppressed /\ ViewFollowsApp

\* The awaits that only the server can end: writes that have no time limit, during which the
\* actor looks neither at its commands nor at `closed`.
Writes == {"activating", "writing", "hiding", "closing"}

(* Close (or dropping every handle) ends the actor, wherever it is and     *)
(* even when collect_initial_state swallowed the command itself - unless a *)
(* server that has stopped reading holds it in one write for ever.         *)
CloseEndsActor == <>[](pc \in Writes) \/ (closed ~> (pc = "exit"))

(* What the code says of Close: the actor exits after it                   *)
(* (SessionCommand::Close, session.rs).                                    *)
CloseAlwaysEnds == closed ~> (pc = "exit")

(* A backoff ends by itself as long as the network is believed reachable.  *)
BackoffEnds == (pc = "backoff" /\ policy.network) ~> (pc # "backoff" \/ ~policy.network)
=============================================================================
