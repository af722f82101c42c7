------------------------- MODULE SessionActorProofs -------------------------
(***************************************************************************)
(* Theorems about SessionActor, for every mode, budget, number of          *)
(* redirects, set of certificates and choice of commands and errors: its   *)
(* values are of their types, credentials only travel to trusted servers,  *)
(* an endless backoff always has the network's return to wait for, the     *)
(* state shown is the phase the actor is in, reconnects stay within the    *)
(* budget, and what the app said of visibility is kept.                    *)
(***************************************************************************)
EXTENDS SessionActor, TLAPS

-----------------------------------------------------------------------------
(* Types of the values the operators return.                               *)

LEMMA StateTypes ==
    /\ Idle \in States /\ AwaitingGreeterLogin \in States /\ Connected \in States
    /\ \A r \in DisconnectReason : Disconnected(r) \in States /\ Failed(r) \in States
    /\ \A r \in DisconnectReason : terminal_state(r) \in States
    /\ \A l \in Nat, s \in ConnectStage : Connecting(l, s) \in States
    /\ \A n \in Nat, r \in DisconnectReason : Reconnecting(n, r) \in States
BY DEF Idle, AwaitingGreeterLogin, Connected, Disconnected, Failed, Connecting, Reconnecting,
       Variant, States, Tags, terminal_state, ConnectStage, DisconnectReason

LEMMA ReasonTypes ==
    /\ \A s \in ConnectStage : PhaseFailures(s) \subseteq DisconnectReason \ {"UserClosed"}
    /\ LegEnds \subseteq DisconnectReason \ {"UserClosed"}
    /\ \A e \in IoErrors : classify_io_error(e, "Activation") \in DisconnectReason \ {"UserClosed"}
<1>1. \A e \in AllErrors, s \in ConnectStage :
         /\ classify_io_error(e, s) \in DisconnectReason \ {"UserClosed"}
         /\ classify_connector_error(e, s) \in DisconnectReason \ {"UserClosed"}
  BY DEF classify_io_error, classify_connector_error, DisconnectReason, Retryable, ConnectStage
<1>2. \A s \in ConnectStage : PhaseErrors(s) \subseteq AllErrors
  BY ActorAssumption DEF PhaseErrors
<1>3. {"Timeout", "LoggedOffRemotely", "ServerShutdown"} \subseteq DisconnectReason \ {"UserClosed"}
  BY DEF DisconnectReason, Retryable
<1>a. "Activation" \in ConnectStage
  BY DEF ConnectStage
<1>m. \A s \in ConnectStage : \A e \in PhaseErrors(s) :
         classify_connector_error(e, s) \in DisconnectReason \ {"UserClosed"}
  BY <1>1, <1>2
<1> HIDE DEF PhaseErrors, classify_connector_error, DisconnectReason
<1>4. \A s \in ConnectStage : PhaseFailures(s) \subseteq DisconnectReason \ {"UserClosed"}
  <2> SUFFICES ASSUME NEW s \in ConnectStage, NEW r \in PhaseFailures(s)
               PROVE  r \in DisconnectReason \ {"UserClosed"}
    OBVIOUS
  <2>1. r = "Timeout" \/ \E e \in PhaseErrors(s) : r = classify_connector_error(e, s)
    BY DEF PhaseFailures
  <2> QED
    BY <1>m, <1>3, <2>1
<1>5. LegEnds \subseteq DisconnectReason \ {"UserClosed"}
  <2> SUFFICES ASSUME NEW r \in LegEnds
               PROVE  r \in DisconnectReason \ {"UserClosed"}
    OBVIOUS
  <2>1. \/ r \in {"LoggedOffRemotely", "ServerShutdown"}
        \/ \E e \in PhaseErrors("Activation") : r = classify_connector_error(e, "Activation")
    BY DEF LegEnds
  <2> QED
    BY <1>a, <1>m, <1>3, <2>1
<1>6. \A e \in IoErrors : classify_io_error(e, "Activation") \in DisconnectReason \ {"UserClosed"}
  BY <1>1, <1>a DEF AllErrors
<1> QED
  BY <1>4, <1>5, <1>6

LEMMA PolicyTypes ==
    ASSUME NEW p \in Policy
    PROVE  /\ on_connected(p) \in Policy /\ Settled(p) \in Policy /\ reset(p) \in Policy
           /\ \A up \in BOOLEAN : set_network_reachable(p, up) \in Policy
           /\ \A r \in BOOLEAN :
                /\ on_disconnect(p, r).policy \in Policy
                /\ on_disconnect(p, r).attempt \in Nat
                /\ on_disconnect(p, r).do \in {"Retry", "WaitForNetwork", "GiveUp"}
<1>1. /\ on_connected(p) \in Policy /\ Settled(p) \in Policy /\ reset(p) \in Policy
      /\ Taken(p) \in Policy
      /\ \A up \in BOOLEAN : set_network_reachable(p, up) \in Policy
  BY DEF Policy, on_connected, Settled, reset, set_network_reachable, Taken
<1>2. ASSUME NEW q \in Policy
      PROVE  /\ next_decision(q).policy \in Policy
             /\ next_decision(q).attempt \in Nat
             /\ next_decision(q).do \in {"Retry", "WaitForNetwork", "GiveUp"}
  BY BudgetAssumption DEF Policy, next_decision, Decision
<1>3. ASSUME NEW r \in BOOLEAN
      PROVE  \/ on_disconnect(p, r) = next_decision(Taken(p))
             \/ on_disconnect(p, r) = Decision("GiveUp", 0, Taken(p))
  BY DEF on_disconnect
<1>4. /\ Decision("GiveUp", 0, Taken(p)).policy = Taken(p)
      /\ Decision("GiveUp", 0, Taken(p)).attempt = 0
      /\ Decision("GiveUp", 0, Taken(p)).do = "GiveUp"
  BY DEF Decision
<1> QED
  BY <1>1, <1>2, <1>3, <1>4

LEMMA SetStateType ==
    ASSUME state \in States, NEW n \in States, set_state(n)
    PROVE  state' \in States
BY DEF set_state

Phases == {"collect", "connect", "tcp", "tls", "prompt", "auth", "activating", "live",
           "writing", "hiding", "closing", "backoff", "idle", "exit"}

\* The variables after_disconnect assigns.
EndTypes ==
    /\ state' \in States /\ pc' \in Phases /\ policy' \in Policy
    /\ deadline' \in {"none", "pending", "due", "never"}
    /\ dropReason' \in DisconnectReason \cup {"none"}
    /\ tries' \in Nat

LEMMA AfterDisconnectType ==
    ASSUME TypeOK, NEW r \in DisconnectReason, NEW p \in Policy, NEW up \in BOOLEAN,
           after_disconnect(r, p, up)
    PROVE  EndTypes
<1> USE DEF TypeOK, EndTypes, Phases
<1>u. "UserClosed" \in DisconnectReason
  BY DEF DisconnectReason
<1>r. is_retryable(r) \in BOOLEAN
  BY DEF is_retryable
<1>1. CASE r = "UserClosed"
  BY <1>1, <1>u, StateTypes, SetStateType DEF after_disconnect, Exit
<1>2. CASE r # "UserClosed" /\ ~up
  BY <1>2, StateTypes, SetStateType DEF after_disconnect, Stop
<1>3. CASE r # "UserClosed" /\ up
  <2> DEFINE d == on_disconnect(p, is_retryable(r))
  <2>1. d.policy \in Policy /\ d.attempt \in Nat
    BY <1>r, PolicyTypes
  <2>2. /\ policy' = d.policy
        /\ ForgiveTries(p)
        /\ \/ Stop(terminal_state(r)) /\ UNCHANGED <<deadline, dropReason>>
           \/ /\ set_state(Reconnecting(d.attempt, r))
              /\ pc' = "backoff"
              /\ deadline' \in {"pending", "never"}
              /\ dropReason' = r
    BY <1>3 DEF after_disconnect
  <2> HIDE DEF d
  <2>3. tries' \in Nat
    BY <2>2 DEF ForgiveTries
  <2>4. CASE Stop(terminal_state(r)) /\ UNCHANGED <<deadline, dropReason>>
    BY <2>1, <2>2, <2>3, <2>4, StateTypes, SetStateType DEF Stop
  <2>5. CASE /\ set_state(Reconnecting(d.attempt, r))
             /\ pc' = "backoff"
             /\ deadline' \in {"pending", "never"}
             /\ dropReason' = r
    BY <2>1, <2>2, <2>3, <2>5, StateTypes, SetStateType
  <2> QED
    BY <2>2, <2>4, <2>5
<1> QED
  BY <1>1, <1>2, <1>3

\* The variables recv() and the forwarder assign.
MailTypes ==
    /\ cmds' \in Seq(SessionCommand) /\ closed' \in BOOLEAN
    /\ fwd' \in {"run", "closing", "dropping", "dropped"}

LEMMA CommandType ==
    ASSUME NEW k \in AllKinds, NEW c \in Certs \cup {NoCert}
    PROVE  Command(k, c) \in SessionCommand
BY DEF Command, SessionCommand

LEMMA ReceiveType ==
    ASSUME TypeOK, NEW c, Receive(c)
    PROVE  MailTypes /\ c \in SessionCommand
BY DEF TypeOK, Receive, MailTypes

LEMMA ReceiveCloseType ==
    ASSUME TypeOK, ReceiveClose
    PROVE  MailTypes
BY ReceiveType DEF TypeOK, ReceiveClose, MailTypes, mailbox

LEMMA RememberType ==
    ASSUME TypeOK, remember
    PROVE  MailTypes /\ view' \in BOOLEAN
BY ReceiveType DEF TypeOK, remember, ReceiveKind

LEMMA ExpectationType ==
    ASSUME NEW pin \in Certs \cup {NoCert}
    PROVE  Expectation(pin) \in CertExpectation
BY DEF Expectation, CertExpectation

LEMMA StageTypes ==
    /\ auth_stage \in ConnectStage /\ "Tcp" \in ConnectStage /\ "Tls" \in ConnectStage
    /\ MAX_LEG \in Nat /\ 1 \in 1..MAX_LEG
    /\ {"UserClosed", "CertMismatch", "ProtocolError", "RedirectLoop"} \subseteq DisconnectReason
BY RedirectsAssumption DEF auth_stage, ConnectStage, MAX_LEG, DisconnectReason

\* What StartConnection assigns.
LEMMA StartType ==
    ASSUME TypeOK, StartConnection
    PROVE  /\ pc' \in Phases /\ leg' \in 1..MAX_LEG /\ expect' \in CertExpectation
           /\ leaf' \in Certs \cup {NoCert} /\ deadline' \in {"none", "pending", "due", "never"}
BY ActorAssumption, ExpectationType, StageTypes DEF StartConnection, Phases

-----------------------------------------------------------------------------
LEMMA TypeInit == Init => TypeOK
<1> SUFFICES ASSUME Init PROVE TypeOK
  OBVIOUS
<1>1. expect \in CertExpectation
  BY ActorAssumption, ExpectationType DEF Init
<1>2. state \in States
  BY StateTypes DEF Init, StateInit
<1>3. policy \in Policy
  BY DEF Init, NewPolicy, Policy
<1>4. cmds \in Seq(SessionCommand)
  BY DEF Init
<1>5. leg \in 1..MAX_LEG /\ sent \in Nat /\ tries \in Nat
  BY StageTypes DEF Init
<1>6. /\ closed \in BOOLEAN /\ activated \in BOOLEAN /\ view \in BOOLEAN
      /\ sinkVisible \in BOOLEAN /\ gfxOpen \in BOOLEAN /\ acksHidden \in BOOLEAN
      /\ lastVisible \in BOOLEAN
  BY DEF Init
<1> QED
  BY <1>1, <1>2, <1>3, <1>4, <1>5, <1>6 DEF Init, TypeOK

LEMMA TypeStep == TypeOK /\ [Next]_vars => TypeOK'
<1> SUFFICES ASSUME TypeOK, [Next]_vars PROVE TypeOK'
  OBVIOUS
<1> USE DEF mailbox, trust, visibility, app
<1>z. CASE UNCHANGED vars
  <2>1. /\ UNCHANGED <<state, pc, leg, policy, deadline, dropReason, activated, tries>>
        /\ UNCHANGED <<cmds, closed, fwd>> /\ UNCHANGED <<expect, leaf, sessionPin>>
        /\ UNCHANGED <<view, sinkVisible, gfxOpen, acksHidden>>
        /\ UNCHANGED <<sent, lastVisible, accepted>>
    BY <1>z DEF vars
  <2> QED
    BY <2>1 DEF TypeOK
<1>1. CASE App
  <2>1. ASSUME NEW c \in Sendable, Send(c) PROVE TypeOK'
    <3>1. c \in SessionCommand /\ (c.kind = "Accept" => c.cert \in Certs)
      BY ActorAssumption, CommandType DEF Sendable, Command
    <3>s. cmds \in Seq(SessionCommand) /\ sent \in Nat /\ accepted \subseteq Certs
          /\ lastVisible \in BOOLEAN
      BY DEF TypeOK
    <3>2. CASE c.kind = "Close"
      BY <2>1, <3>2, <3>s DEF Send, MailTypes, TypeOK
    <3>3. CASE c.kind # "Close"
      <4>1. cmds' \in Seq(SessionCommand) /\ UNCHANGED <<closed, fwd>>
        BY <2>1, <3>1, <3>3, <3>s DEF Send, Queued
      <4>2. lastVisible' \in BOOLEAN
        BY <2>1, <3>s DEF Send
      <4>3. accepted' \subseteq Certs
        BY <2>1, <3>1, <3>s DEF Send
      <4> QED
        BY <2>1, <4>1, <4>2, <4>3, <3>s DEF Send, TypeOK
    <3> QED
      BY <3>2, <3>3
  <2>2. CASE DropHandles
    BY <2>2 DEF DropHandles, TypeOK
  <2> QED
    BY <1>1, <2>1, <2>2 DEF App
<1>2. CASE Forwarder
  <2>1. Command("Close", NoCert) \in SessionCommand
    BY CommandType DEF AllKinds
  <2>2. CASE ForwardClose
    BY <2>1, <2>2 DEF ForwardClose, TypeOK
  <2>3. CASE ForwarderEnds
    BY <2>3 DEF ForwarderEnds, TypeOK
  <2> QED
    BY <1>2, <2>2, <2>3 DEF Forwarder
<1>3. CASE Connect
  <2>1. CASE CollectDone
    <3>1. MailTypes
      BY <2>1, ReceiveCloseType DEF CollectDone, MailTypes, TypeOK
    <3> QED
      BY <2>1, <3>1, StartType DEF CollectDone, MailTypes, Phases, TypeOK
  <2>2. CASE ConnectOne
    <3>1. CASE closed
      <4>1. EndTypes
        BY <2>2, <3>1, StageTypes, AfterDisconnectType DEF ConnectOne, TypeOK
      <4> QED
        BY <2>2, <3>1, <4>1 DEF ConnectOne, EndTypes, Phases, TypeOK
    <3>2. CASE ~closed
      <4>1. leg \in Nat
        BY StageTypes DEF TypeOK
      <4>2. state' \in States
        BY <2>2, <3>2, <4>1, StageTypes, StateTypes, SetStateType DEF ConnectOne, TypeOK
      <4> QED
        BY <2>2, <3>2, <4>2 DEF ConnectOne, Phases, TypeOK
    <3> QED
      BY <3>1, <3>2
  <2>3. CASE ConnectClosed
    <3>1. EndTypes
      BY <2>3, StageTypes, AfterDisconnectType DEF ConnectClosed, TypeOK
    <3> QED
      BY <2>3, <3>1 DEF ConnectClosed, EndTypes, Phases, TypeOK
  <2>4. CASE ConnectFails
    <3> DEFINE stage == CASE pc = "tcp" -> "Tcp" [] pc = "tls" -> "Tls" [] pc = "auth" -> auth_stage
    <3>1. stage \in ConnectStage
      BY <2>4, StageTypes DEF ConnectFails
    <3>2. PICK reason \in PhaseFailures(stage) : after_disconnect(reason, policy, activated)
      BY <2>4 DEF ConnectFails
    <3>3. reason \in DisconnectReason
      BY <3>1, ReasonTypes
    <3>4. EndTypes
      BY <3>2, <3>3, AfterDisconnectType DEF TypeOK
    <3> QED
      BY <2>4, <3>4 DEF ConnectFails, EndTypes, Phases, TypeOK
  <2>5. CASE TcpDone
    <3>1. leg \in Nat
      BY StageTypes DEF TypeOK
    <3>2. state' \in States
      BY <2>5, <3>1, StageTypes, StateTypes, SetStateType DEF TcpDone, TypeOK
    <3> QED
      BY <2>5, <3>2 DEF TcpDone, TypeOK
  <2>6. CASE TlsDone
    <3>1. PICK cert \in Certs :
             /\ leaf' = cert
             /\ \/ EnterAuth
                \/ after_disconnect("CertMismatch", policy, activated)
                \/ pc' = "prompt" /\ UNCHANGED <<state, policy, deadline, dropReason, rejected, tries>>
      BY <2>6 DEF TlsDone
    <3>2. leg \in Nat
      BY StageTypes DEF TypeOK
    <3>3. ASSUME EnterAuth PROVE EndTypes
      BY <3>2, <3>3, StageTypes, StateTypes, SetStateType DEF EnterAuth, EndTypes, Phases, TypeOK
    <3>4. EndTypes
      BY <3>1, <3>3, StageTypes, AfterDisconnectType DEF EndTypes, Phases, TypeOK
    <3> QED
      BY <2>6, <3>1, <3>4 DEF TlsDone, EndTypes, Phases, TypeOK
  <2>7. CASE Activate
    <3>1. state' \in States
      BY <2>7, StateTypes, SetStateType DEF Activate, activated_state, TypeOK
    <3> QED
      BY <2>7, <3>1, PolicyTypes DEF Activate, TypeOK
  <2> QED
    BY <1>3, <2>1, <2>2, <2>3, <2>4, <2>5, <2>6, <2>7 DEF Connect
<1>4. CASE Commands
  <2>1. CASE CollectCommand
    <3>1. MailTypes /\ view' \in BOOLEAN
      BY <2>1, ReceiveType, RememberType DEF CollectCommand, ReceiveKind, TypeOK
    <3> QED
      BY <2>1, <3>1 DEF CollectCommand, MailTypes, TypeOK
  <2>2. CASE PromptCommand
    <3>1. PICK c \in SessionCommand :
             /\ Receive(c)
             /\ \/ sessionPin' = leaf /\ EnterAuth
                \/ /\ sessionPin' = sessionPin
                   /\ after_disconnect("CertMismatch", policy, activated)
                \/ UNCHANGED <<state, pc, sessionPin, policy, deadline, dropReason, rejected, tries>>
      BY <2>2 DEF PromptCommand
    <3>2. leg \in Nat
      BY StageTypes DEF TypeOK
    <3>3. ASSUME EnterAuth PROVE EndTypes
      BY <3>2, <3>3, StageTypes, StateTypes, SetStateType DEF EnterAuth, EndTypes, Phases, TypeOK
    <3>4. EndTypes
      BY <3>1, <3>3, StageTypes, AfterDisconnectType DEF EndTypes, Phases, TypeOK
    <3>5. MailTypes
      BY <3>1, ReceiveType
    <3>6. sessionPin' \in Certs \cup {NoCert}
      BY <3>1 DEF TypeOK
    <3> QED
      BY <2>2, <3>4, <3>5, <3>6 DEF PromptCommand, MailTypes, EndTypes, Phases, TypeOK
  <2>3. CASE PromptClose
    <3>1. EndTypes /\ MailTypes
      BY <2>3, StageTypes, AfterDisconnectType, ReceiveCloseType DEF PromptClose, TypeOK
    <3> QED
      BY <2>3, <3>1 DEF PromptClose, EndTypes, MailTypes, Phases, TypeOK
  <2>4. CASE LiveClose
    BY <2>4, ReceiveCloseType DEF LiveClose, MailTypes, TypeOK
  <2>5. CASE LiveVisible
    <3>1. MailTypes /\ view' \in BOOLEAN
      BY <2>5, ReceiveType DEF LiveVisible
    <3>2. sinkVisible' \in BOOLEAN /\ acksHidden' \in BOOLEAN
      BY <2>5 DEF LiveVisible, GraphicsVisible, TypeOK
    <3> QED
      BY <2>5, <3>1, <3>2 DEF LiveVisible, MailTypes, TypeOK
  <2>6. CASE LiveCommand
    <3>1. MailTypes /\ policy' \in Policy
      BY <2>6, ReceiveType, PolicyTypes DEF LiveCommand, ReceiveKind, TypeOK
    <3> QED
      BY <2>6, <3>1 DEF LiveCommand, MailTypes, TypeOK
  <2>7. CASE BackoffClose
    <3>1. MailTypes /\ state' \in States
      BY <2>7, ReceiveCloseType, StageTypes, StateTypes, SetStateType DEF BackoffClose, Exit, TypeOK
    <3> QED
      BY <2>7, <3>1 DEF BackoffClose, Exit, MailTypes, TypeOK
  <2>8. CASE BackoffCancel
    <3>1. MailTypes /\ policy' \in Policy
      BY <2>8, ReceiveType, PolicyTypes DEF BackoffCancel, TypeOK
    <3>2. Disconnected(dropReason) \in States
      BY DEF Disconnected, Variant, States, Tags, TypeOK
    <3>3. state' \in States
      BY <2>8, <3>2, SetStateType DEF BackoffCancel, Stop, TypeOK
    <3> QED
      BY <2>8, <3>1, <3>3 DEF BackoffCancel, Stop, MailTypes, TypeOK
  <2>9. CASE BackoffNow
    <3>1. MailTypes
      BY <2>9, ReceiveType DEF BackoffNow
    <3>2. CASE policy.network
      <4>1. BackoffReconnect /\ UNCHANGED policy
        BY <2>9, <3>2 DEF BackoffNow
      <4> QED
        BY <3>1, <4>1, StartType, BudgetAssumption
           DEF BackoffReconnect, MoreTries, MailTypes, Phases, TypeOK
    <3>3. CASE ~policy.network
      BY <2>9, <3>1, <3>3 DEF BackoffNow, MailTypes, TypeOK
    <3> QED
      BY <3>2, <3>3
  <2>10. CASE BackoffNetwork
    <3>1. MailTypes /\ policy' \in Policy
      BY <2>10, ReceiveType, PolicyTypes DEF BackoffNetwork, TypeOK
    <3>2. CASE BackoffReconnect
      BY <3>1, <3>2, StartType, BudgetAssumption
         DEF BackoffReconnect, MoreTries, MailTypes, Phases, TypeOK
    <3>3. CASE ~BackoffReconnect
      BY <2>10, <3>1, <3>3 DEF BackoffNetwork, MailTypes, TypeOK
    <3> QED
      BY <3>2, <3>3
  <2>11. CASE BackoffRemember
    BY <2>11, RememberType DEF BackoffRemember, MailTypes, TypeOK
  <2>12. CASE IdleClose
    BY <2>12, ReceiveCloseType DEF IdleClose, MailTypes, TypeOK
  <2>13. CASE IdleReconnect
    <3>1. MailTypes
      BY <2>13, ReceiveType DEF IdleReconnect
    <3>2. policy' \in Policy
      <4>1. reset(policy) \in Policy
        BY PolicyTypes DEF TypeOK
      <4> QED
        BY <2>13, <4>1, PolicyTypes DEF IdleReconnect
    <3> QED
      BY <2>13, <3>1, <3>2, StartType DEF IdleReconnect, MailTypes, Phases, TypeOK
  <2>14. CASE IdleCommand
    <3>1. MailTypes /\ view' \in BOOLEAN
      BY <2>14, ReceiveType, RememberType DEF IdleCommand, TypeOK
    <3>2. policy' \in Policy
      BY <2>14, PolicyTypes DEF IdleCommand, TypeOK
    <3> QED
      BY <2>14, <3>1, <3>2 DEF IdleCommand, MailTypes, TypeOK
  <2> QED
    BY <1>4, <2>1, <2>2, <2>3, <2>4, <2>5, <2>6, <2>7, <2>8, <2>9, <2>10, <2>11, <2>12, <2>13,
       <2>14 DEF Commands
<1>5. CASE Server
  <2>1. CASE OpenGfx
    BY <2>1 DEF OpenGfx, TypeOK
  <2>2. CASE LegEnded
    <3>1. EndTypes
      BY <2>2, ReasonTypes, AfterDisconnectType DEF LegEnded, TypeOK
    <3> QED
      BY <2>2, <3>1 DEF LegEnded, EndTypes, Phases, TypeOK
  <2>3. CASE RedirectRefused
    <3>1. EndTypes
      BY <2>3, StageTypes, AfterDisconnectType DEF RedirectRefused, TypeOK
    <3> QED
      BY <2>3, <3>1 DEF RedirectRefused, EndTypes, Phases, TypeOK
  <2>4. CASE FollowRedirect
    <3>1. leg' \in 1..MAX_LEG
      BY <2>4, RedirectsAssumption DEF FollowRedirect, MayRedirect, MAX_LEG, TypeOK
    <3>2. LegPin \in Certs \cup {NoCert}
      BY ActorAssumption DEF LegPin, TypeOK
    <3>3. expect' \in CertExpectation
      BY <2>4, <3>2, ExpectationType DEF FollowRedirect, CertExpectation
    <3> QED
      BY <2>4, <3>1, <3>3 DEF FollowRedirect, TypeOK
  <2>5. CASE Activated
    <3>1. sinkVisible' \in BOOLEAN /\ acksHidden' \in BOOLEAN
      BY <2>5 DEF Activated, ApplyView, GraphicsVisible, TypeOK
    <3>2. EndTypes
      BY <2>5, ReasonTypes, AfterDisconnectType DEF Activated, EndTypes, Phases, TypeOK
    <3> QED
      BY <2>5, <3>1, <3>2 DEF Activated, EndTypes, Phases, TypeOK
  <2>6. CASE LiveWrite
    BY <2>6 DEF LiveWrite, TypeOK
  <2>7. CASE Written
    <3>1. sinkVisible' \in BOOLEAN /\ acksHidden' \in BOOLEAN
      BY <2>7 DEF Written, GraphicsVisible, TypeOK
    <3> QED
      BY <2>7, <3>1 DEF Written, TypeOK
  <2>8. CASE WriteFails
    <3>1. EndTypes
      BY <2>8, ReasonTypes, AfterDisconnectType DEF WriteFails, TypeOK
    <3> QED
      BY <2>8, <3>1 DEF WriteFails, EndTypes, Phases, TypeOK
  <2>9. CASE ShutDown
    <3>1. EndTypes
      BY <2>9, StageTypes, AfterDisconnectType DEF ShutDown, TypeOK
    <3> QED
      BY <2>9, <3>1 DEF ShutDown, EndTypes, Phases, TypeOK
  <2> QED
    BY <1>5, <2>1, <2>2, <2>3, <2>4, <2>5, <2>6, <2>7, <2>8, <2>9 DEF Server
<1>6. CASE BackoffReady
  BY <1>6, StartType, BudgetAssumption
     DEF BackoffReady, BackoffReconnect, MoreTries, Phases, TypeOK
<1>7. CASE Settle
  BY <1>7, PolicyTypes DEF Settle, TypeOK
<1>8. CASE DeadlinePasses
  BY <1>8 DEF DeadlinePasses, TypeOK
<1> QED
  BY <1>z, <1>1, <1>2, <1>3, <1>4, <1>5, <1>6, <1>7, <1>8 DEF Next

(* Every variable of the actor keeps its type, whatever the app, the       *)
(* server and the network do (actor.rs, all of run()).                     *)
THEOREM TypeCorrect == Spec => []TypeOK
<1>1. Init => TypeOK
  BY TypeInit
<1>2. TypeOK /\ [Next]_vars => TypeOK'
  BY TypeStep
<1> QED
  BY <1>1, <1>2, PTL DEF Spec
-----------------------------------------------------------------------------
(* Trust.  A queued Accept names a certificate the user accepted, so does  *)
(* the session's pin, and a pin expected of a leg is one of those or the   *)
(* profile's.                                                              *)

AcceptsQueued ==
    \A i \in 1..Len(cmds) : cmds[i].kind = "Accept" => cmds[i].cert \in accepted

TrustInv ==
    /\ AcceptsQueued
    /\ sessionPin \in accepted \cup {NoCert}
    /\ expect.kind = "Pinned" => expect.cert \in accepted \cup {ProfilePin}
    /\ CredentialsOnlyToTrusted

CredentialPhases == {"auth", "activating", "live", "writing", "hiding", "closing"}

LEMMA EndsOutside ==
    ASSUME NEW r, NEW p, NEW up, after_disconnect(r, p, up)
    PROVE  pc' \in {"exit", "idle", "backoff"}
BY DEF after_disconnect, Exit, Stop

LEMMA ReceiveKeepsAccepts ==
    ASSUME TypeOK, AcceptsQueued, NEW c, Receive(c)
    PROVE  /\ \A i \in 1..Len(cmds') : cmds'[i].kind = "Accept" => cmds'[i].cert \in accepted
           /\ c.kind = "Accept" => c.cert \in accepted
<1>1. cmds \in Seq(SessionCommand) /\ cmds # <<>> /\ c = cmds[1] /\ cmds' = Tail(cmds)
  BY DEF TypeOK, Receive
<1>2. Len(cmds) \in Nat /\ Len(cmds) >= 1
  BY <1>1
<1>3. /\ Len(cmds') = Len(cmds) - 1
      /\ \A i \in 1..Len(cmds') : cmds'[i] = cmds[i + 1]
  BY <1>1
<1> QED
  BY <1>1, <1>2, <1>3 DEF AcceptsQueued

LEMMA ReceiveCloseKeepsAccepts ==
    ASSUME TypeOK, AcceptsQueued, ReceiveClose, accepted' = accepted
    PROVE  AcceptsQueued'
<1>1. CASE Receive(Command("Close", NoCert))
  BY <1>1, ReceiveKeepsAccepts DEF AcceptsQueued
<1>2. CASE UNCHANGED mailbox
  BY <1>2 DEF AcceptsQueued, mailbox
<1> QED
  BY <1>1, <1>2 DEF ReceiveClose

LEMMA RememberKeepsAccepts ==
    ASSUME TypeOK, AcceptsQueued, remember, accepted' = accepted
    PROVE  AcceptsQueued'
BY ReceiveKeepsAccepts DEF remember, ReceiveKind, AcceptsQueued

LEMMA KindKeepsAccepts ==
    ASSUME TypeOK, AcceptsQueued, NEW kinds, ReceiveKind(kinds), accepted' = accepted
    PROVE  AcceptsQueued'
BY ReceiveKeepsAccepts DEF ReceiveKind, AcceptsQueued

LEMMA CommandKeepsAccepts ==
    ASSUME TypeOK, AcceptsQueued, NEW k, Receive(Command(k, NoCert)), accepted' = accepted
    PROVE  AcceptsQueued'
BY ReceiveKeepsAccepts DEF AcceptsQueued

\* A step that leaves the certificates alone and enters no credential phase.
LEMMA TrustKept ==
    ASSUME TrustInv, AcceptsQueued', UNCHANGED trust, UNCHANGED accepted,
           pc' \in CredentialPhases => pc \in CredentialPhases
    PROVE  TrustInv'
BY DEF TrustInv, trust, CredentialsOnlyToTrusted, CredentialPhases, Up

\* A new connection starts from the profile's pin.
LEMMA StartKeepsTrust ==
    ASSUME TrustInv, AcceptsQueued', StartConnection, sessionPin' = sessionPin,
           UNCHANGED accepted
    PROVE  TrustInv'
BY DEF TrustInv, StartConnection, Expectation, CredentialsOnlyToTrusted, Up

LEMMA TrustInit == Init => TrustInv
<1> SUFFICES ASSUME Init PROVE TrustInv
  OBVIOUS
<1>1. AcceptsQueued
  BY DEF Init, AcceptsQueued
<1> QED
  BY <1>1 DEF Init, TrustInv, Expectation, CredentialsOnlyToTrusted, Up

LEMMA TrustStep == TypeOK /\ TrustInv /\ [Next]_vars => TrustInv'
<1> SUFFICES ASSUME TypeOK, TrustInv, [Next]_vars PROVE TrustInv'
  OBVIOUS
<1>q. AcceptsQueued
  BY DEF TrustInv
<1>m. UNCHANGED <<cmds, accepted>> => AcceptsQueued'
  BY <1>q DEF AcceptsQueued
<1>z. CASE UNCHANGED vars
  <2>1. UNCHANGED pc /\ UNCHANGED mailbox /\ UNCHANGED trust /\ UNCHANGED app
    BY <1>z DEF vars
  <2> QED
    BY <2>1, <1>m, TrustKept DEF mailbox, app
<1>1. CASE App
  <2>1. ASSUME NEW c \in Sendable, Send(c) PROVE TrustInv'
    <3>1. UNCHANGED trust /\ UNCHANGED pc /\ accepted \subseteq accepted'
      BY <2>1 DEF Send
    <3>2. cmds' = cmds \/ (cmds' = Append(cmds, c) /\ (c.kind = "Accept" => c.cert \in accepted'))
      BY <2>1 DEF Send, Queued
    <3>3. cmds \in Seq(SessionCommand) /\ c \in SessionCommand
      BY ActorAssumption, CommandType DEF TypeOK, Sendable, Command
    <3>4. AcceptsQueued'
      <4>1. CASE cmds' = cmds
        BY <1>q, <3>1, <4>1 DEF AcceptsQueued
      <4>2. CASE cmds' = Append(cmds, c) /\ (c.kind = "Accept" => c.cert \in accepted')
        <5>1. /\ Len(cmds) \in Nat /\ Len(cmds') = Len(cmds) + 1
              /\ \A i \in 1..Len(cmds) : cmds'[i] = cmds[i]
              /\ cmds'[Len(cmds) + 1] = c
          BY <3>3, <4>2
        <5>2. \A i \in 1..Len(cmds') : i \in 1..Len(cmds) \/ i = Len(cmds) + 1
          BY <5>1
        <5> QED
          BY <1>q, <3>1, <4>2, <5>1, <5>2 DEF AcceptsQueued
      <4> QED
        BY <3>2, <4>1, <4>2
    <3> QED
      BY <3>1, <3>4 DEF TrustInv, trust, CredentialsOnlyToTrusted, Up
  <2>2. CASE DropHandles
    BY <2>2, <1>m, TrustKept DEF DropHandles, app
  <2> QED
    BY <1>1, <2>1, <2>2 DEF App
<1>2. CASE Forwarder
  <2>1. CASE ForwardClose
    <3>1. cmds \in Seq(SessionCommand) /\ Command("Close", NoCert) \in SessionCommand
      BY CommandType DEF TypeOK, AllKinds
    <3>2. cmds' = Append(cmds, Command("Close", NoCert)) /\ accepted' = accepted
      BY <2>1 DEF ForwardClose, app
    <3>3. Command("Close", NoCert).kind # "Accept"
      BY DEF Command
    <3>4. /\ Len(cmds) \in Nat /\ Len(cmds') = Len(cmds) + 1
          /\ \A i \in 1..Len(cmds) : cmds'[i] = cmds[i]
          /\ cmds'[Len(cmds) + 1] = Command("Close", NoCert)
      BY <3>1, <3>2
    <3>5. \A i \in 1..Len(cmds') : i \in 1..Len(cmds) \/ i = Len(cmds) + 1
      BY <3>4
    <3>6. AcceptsQueued'
      BY <1>q, <3>2, <3>3, <3>4, <3>5 DEF AcceptsQueued
    <3> QED
      BY <2>1, <3>6, TrustKept DEF ForwardClose, app
  <2>2. CASE ForwarderEnds
    BY <2>2, <1>m, TrustKept DEF ForwarderEnds, app
  <2> QED
    BY <1>2, <2>1, <2>2 DEF Forwarder
<1>3. CASE Connect
  <2>1. CASE CollectDone
    <3>1. AcceptsQueued'
      BY <2>1, <1>q, <1>m, ReceiveCloseKeepsAccepts DEF CollectDone, app, mailbox
    <3> QED
      BY <2>1, <3>1, StartKeepsTrust DEF CollectDone, app
  <2>2. CASE ConnectOne
    <3>1. pc' \notin CredentialPhases
      BY <2>2, EndsOutside DEF ConnectOne, CredentialPhases
    <3> QED
      BY <2>2, <3>1, <1>m, TrustKept DEF ConnectOne, app, mailbox
  <2>3. CASE ConnectClosed
    <3>1. pc' \notin CredentialPhases
      BY <2>3, EndsOutside DEF ConnectClosed, CredentialPhases
    <3> QED
      BY <2>3, <3>1, <1>m, TrustKept DEF ConnectClosed, app, mailbox
  <2>4. CASE ConnectFails
    <3>1. pc' \notin CredentialPhases
      BY <2>4, EndsOutside DEF ConnectFails, CredentialPhases
    <3> QED
      BY <2>4, <3>1, <1>m, TrustKept DEF ConnectFails, app, mailbox
  <2>5. CASE TcpDone
    BY <2>5, <1>m, TrustKept DEF TcpDone, CredentialPhases, app, mailbox
  <2>6. CASE TlsDone
    <3>1. UNCHANGED <<cmds, accepted, expect, sessionPin>>
      BY <2>6 DEF TlsDone, app, mailbox
    <3>2. PICK cert \in Certs :
             /\ leaf' = cert
             /\ \/ /\ \/ check_certificate(expect, cert) = "Trusted"
                      \/ check_certificate(expect, cert) = "Unknown" /\ cert = sessionPin
                   /\ pc' = "auth"
                \/ after_disconnect("CertMismatch", policy, activated)
                \/ pc' = "prompt"
      BY <2>6 DEF TlsDone, EnterAuth
    <3>3. expect.kind \in {"Pinned", "TrustOnFirstUse", "Exact"} /\ NoCert \notin Certs
      BY ActorAssumption DEF TypeOK, CertExpectation
    <3>4. ASSUME pc' = "auth"
          PROVE  /\ leaf' \in Certs
                 /\ \/ leaf' \in accepted
                    \/ leaf' = ProfilePin
                    \/ expect.kind = "Exact" /\ leaf' = expect.cert
      <4>0. pc' \notin {"exit", "idle", "backoff"} /\ pc' # "prompt"
        BY <3>4
      <4>d. ~ after_disconnect("CertMismatch", policy, activated)
        BY <4>0, EndsOutside
      <4>1. CASE check_certificate(expect, cert) = "Trusted"
        BY <3>2, <3>3, <4>1 DEF check_certificate, TrustInv
      <4>2. CASE cert = sessionPin
        BY <3>2, <3>3, <4>2 DEF TrustInv
      <4> QED
        BY <3>2, <4>0, <4>d, <4>1, <4>2
    <3>5. pc' \in CredentialPhases => pc' = "auth"
      BY <3>2, EndsOutside DEF CredentialPhases
    <3> QED
      BY <3>1, <3>4, <3>5, <1>m DEF TrustInv, CredentialsOnlyToTrusted, CredentialPhases, Up
  <2>7. CASE Activate
    BY <2>7, <1>m, TrustKept DEF Activate, CredentialPhases, app, mailbox
  <2> QED
    BY <1>3, <2>1, <2>2, <2>3, <2>4, <2>5, <2>6, <2>7 DEF Connect
<1>4. CASE Commands
  <2>1. CASE CollectCommand
    BY <2>1, <1>q, TrustKept, RememberKeepsAccepts, KindKeepsAccepts DEF CollectCommand, app
  <2>2. CASE PromptCommand
    <3>0. UNCHANGED <<accepted, expect, leaf>>
      BY <2>2 DEF PromptCommand, app
    <3>1. PICK c \in SessionCommand :
             /\ Receive(c)
             /\ \/ c.kind = "Accept" /\ c.cert = leaf /\ sessionPin' = leaf
                \/ /\ sessionPin' = sessionPin
                   /\ after_disconnect("CertMismatch", policy, activated)
                \/ sessionPin' = sessionPin /\ pc' = pc
      BY <2>2 DEF PromptCommand, Matches
    <3>2. AcceptsQueued' /\ (c.kind = "Accept" => c.cert \in accepted)
      BY <1>q, <3>0, <3>1, ReceiveKeepsAccepts DEF AcceptsQueued
    <3>a. accepted \subseteq Certs
      BY DEF TypeOK
    <3>3. CASE c.kind = "Accept" /\ c.cert = leaf /\ sessionPin' = leaf
      BY <3>0, <3>a, <3>2, <3>3 DEF TrustInv, CredentialsOnlyToTrusted
    <3>4. CASE sessionPin' = sessionPin /\ pc' \notin CredentialPhases
      BY <3>0, <3>2, <3>4, TrustKept DEF trust
    <3>5. pc \notin CredentialPhases
      BY <2>2 DEF PromptCommand, CredentialPhases
    <3> QED
      BY <3>1, <3>3, <3>4, <3>5, EndsOutside DEF CredentialPhases
  <2>3. CASE PromptClose
    <3>1. AcceptsQueued'
      BY <2>3, <1>q, ReceiveCloseKeepsAccepts DEF PromptClose, app
    <3>2. pc' \notin CredentialPhases
      BY <2>3, EndsOutside DEF PromptClose, CredentialPhases
    <3> QED
      BY <2>3, <3>1, <3>2, TrustKept DEF PromptClose, app
  <2>4. CASE LiveClose
    <3>1. AcceptsQueued'
      BY <2>4, <1>q, ReceiveCloseKeepsAccepts DEF LiveClose, app
    <3> QED
      BY <2>4, <3>1, TrustKept DEF LiveClose, CredentialPhases, app
  <2>5. CASE LiveVisible
    <3>1. AcceptsQueued'
      BY <2>5, <1>q, CommandKeepsAccepts DEF LiveVisible, app
    <3>2. pc \in CredentialPhases
      BY <2>5 DEF LiveVisible, CredentialPhases
    <3> QED
      BY <2>5, <3>1, <3>2, TrustKept DEF LiveVisible, app
  <2>6. CASE LiveCommand
    <3>1. AcceptsQueued'
      BY <2>6, <1>q, CommandKeepsAccepts, KindKeepsAccepts DEF LiveCommand, app
    <3> QED
      BY <2>6, <3>1, TrustKept DEF LiveCommand, app
  <2>7. CASE BackoffClose
    <3>1. AcceptsQueued'
      BY <2>7, <1>q, ReceiveCloseKeepsAccepts DEF BackoffClose, app
    <3> QED
      BY <2>7, <3>1, TrustKept DEF BackoffClose, Exit, CredentialPhases, app
  <2>8. CASE BackoffCancel
    <3>1. AcceptsQueued'
      BY <2>8, <1>q, CommandKeepsAccepts DEF BackoffCancel, app
    <3> QED
      BY <2>8, <3>1, TrustKept DEF BackoffCancel, Stop, CredentialPhases, app
  <2>9. CASE BackoffNow
    <3>0. UNCHANGED accepted
      BY <2>9 DEF BackoffNow, BackoffReconnect, app
    <3>1. AcceptsQueued'
      BY <2>9, <3>0, <1>q, CommandKeepsAccepts DEF BackoffNow
    <3>2. BackoffReconnect \/ (UNCHANGED trust /\ UNCHANGED pc)
      BY <2>9 DEF BackoffNow
    <3> QED
      BY <3>0, <3>1, <3>2, TrustKept, StartKeepsTrust DEF BackoffReconnect
  <2>10. CASE BackoffNetwork
    <3>0. UNCHANGED accepted
      BY <2>10 DEF BackoffNetwork, BackoffReconnect, app
    <3>1. AcceptsQueued'
      BY <2>10, <3>0, <1>q, CommandKeepsAccepts DEF BackoffNetwork
    <3>2. BackoffReconnect \/ (UNCHANGED trust /\ UNCHANGED pc)
      BY <2>10 DEF BackoffNetwork
    <3> QED
      BY <3>0, <3>1, <3>2, TrustKept, StartKeepsTrust DEF BackoffReconnect
  <2>11. CASE BackoffRemember
    BY <2>11, <1>q, TrustKept, RememberKeepsAccepts DEF BackoffRemember, app
  <2>12. CASE IdleClose
    <3>1. AcceptsQueued'
      BY <2>12, <1>q, ReceiveCloseKeepsAccepts DEF IdleClose, app
    <3> QED
      BY <2>12, <3>1, TrustKept DEF IdleClose, CredentialPhases, app
  <2>13. CASE IdleReconnect
    <3>1. AcceptsQueued'
      BY <2>13, <1>q, CommandKeepsAccepts DEF IdleReconnect, app
    <3> QED
      BY <2>13, <3>1, StartKeepsTrust DEF IdleReconnect, app
  <2>14. CASE IdleCommand
    <3>1. AcceptsQueued'
      BY <2>14, <1>q, CommandKeepsAccepts, RememberKeepsAccepts DEF IdleCommand, app
    <3> QED
      BY <2>14, <3>1, TrustKept DEF IdleCommand, app
  <2> QED
    BY <1>4, <2>1, <2>2, <2>3, <2>4, <2>5, <2>6, <2>7, <2>8, <2>9, <2>10, <2>11, <2>12, <2>13,
       <2>14 DEF Commands
<1>5. CASE Server
  <2>1. CASE OpenGfx
    BY <2>1, <1>m, TrustKept DEF OpenGfx, app, mailbox
  <2>2. CASE LegEnded
    <3>1. pc' \notin CredentialPhases
      BY <2>2, EndsOutside DEF LegEnded, CredentialPhases
    <3> QED
      BY <2>2, <3>1, <1>m, TrustKept DEF LegEnded, app, mailbox
  <2>3. CASE RedirectRefused
    <3>1. pc' \notin CredentialPhases
      BY <2>3, EndsOutside DEF RedirectRefused, CredentialPhases
    <3> QED
      BY <2>3, <3>1, <1>m, TrustKept DEF RedirectRefused, app, mailbox
  <2>4. CASE FollowRedirect
    <3>1. UNCHANGED <<cmds, accepted, sessionPin>> /\ pc' = "connect"
      BY <2>4 DEF FollowRedirect, app, mailbox
    <3>2. PICK target \in Certs \cup {NoCert} :
             expect' = IF target = NoCert THEN Expectation(LegPin)
                                          ELSE [kind |-> "Exact", cert |-> target]
      BY <2>4 DEF FollowRedirect
    <3>3. expect'.kind = "Pinned" => expect'.cert \in accepted \cup {ProfilePin}
      BY <3>2 DEF Expectation, LegPin, TrustInv
    <3> QED
      BY <3>1, <3>3, <1>m DEF TrustInv, CredentialsOnlyToTrusted, Up
  <2>5. CASE Activated \/ LiveWrite \/ Written
    <3>1. pc \in CredentialPhases
      BY <2>5 DEF Activated, LiveWrite, Written, CredentialPhases
    <3> QED
      BY <2>5, <3>1, <1>m, TrustKept DEF Activated, LiveWrite, Written, app, mailbox
  <2>6. CASE WriteFails \/ ShutDown
    <3>1. pc' \notin CredentialPhases
      BY <2>6, EndsOutside DEF WriteFails, ShutDown, CredentialPhases
    <3> QED
      BY <2>6, <3>1, <1>m, TrustKept DEF WriteFails, ShutDown, app, mailbox
  <2> QED
    BY <1>5, <2>1, <2>2, <2>3, <2>4, <2>5, <2>6 DEF Server
<1>6. CASE BackoffReady
  <2>1. UNCHANGED <<cmds, accepted>>
    BY <1>6 DEF BackoffReady, BackoffReconnect, app, mailbox
  <2> QED
    BY <1>6, <2>1, <1>m, StartKeepsTrust DEF BackoffReady, BackoffReconnect
<1>7. CASE Settle
  BY <1>7, <1>m, TrustKept DEF Settle, app, mailbox
<1>8. CASE DeadlinePasses
  BY <1>8, <1>m, TrustKept DEF DeadlinePasses, app, mailbox
<1> QED
  BY <1>z, <1>1, <1>2, <1>3, <1>4, <1>5, <1>6, <1>7, <1>8 DEF Next

(* No credential leaves the machine for a server whose certificate is not  *)
(* the profile's pin, the redirecting server's target or one the user      *)
(* accepted (connect_leg's certificate check, decide_certificate and       *)
(* on_redirect), for any number of legs, reconnects, prompts and stale     *)
(* answers in the channel.                                                 *)
THEOREM CredentialsAreSafe == Spec => []CredentialsOnlyToTrusted
<1>1. Init => TypeOK /\ TrustInv
  BY TypeInit, TrustInit
<1>2. TypeOK /\ TrustInv /\ [Next]_vars => TypeOK' /\ TrustInv'
  BY TypeStep, TrustStep
<1>3. TrustInv => CredentialsOnlyToTrusted
  BY DEF TrustInv
<1> QED
  BY <1>1, <1>2, <1>3, PTL DEF Spec

-----------------------------------------------------------------------------
(* The backoff's deadline.                                                 *)

\* A disconnect enters the backoff with a deadline, or with the network down.
LEMMA BackoffIsEarned ==
    ASSUME NEW r, NEW p \in Policy, NEW up, after_disconnect(r, p, up)
    PROVE  WaitsOnlyForNetwork'
<1>1. CASE pc' # "backoff"
  BY <1>1 DEF WaitsOnlyForNetwork
<1>2. CASE pc' = "backoff"
  <2> DEFINE d == on_disconnect(p, is_retryable(r))
  <2>1. d.do # "GiveUp" /\ policy' = d.policy
        /\ deadline' = IF d.do = "Retry" THEN "pending" ELSE "never"
    BY <1>2 DEF after_disconnect, Exit, Stop
  <2>2. CASE d.do = "Retry"
    BY <2>1, <2>2 DEF WaitsOnlyForNetwork
  <2>3. CASE d.do # "Retry"
    <3>1. is_retryable(r) /\ ~ Taken(p).network /\ d.policy = Taken(p)
      BY <2>1, <2>3 DEF on_disconnect, next_decision, Decision
    <3>2. deadline' = "never" /\ ~ policy'.network
      BY <2>1, <2>3, <3>1
    <3> QED
      BY <3>2 DEF WaitsOnlyForNetwork
  <2> QED
    BY <2>2, <2>3
<1> QED
  BY <1>1, <1>2

LEMMA BackoffKept ==
    ASSUME WaitsOnlyForNetwork, UNCHANGED <<pc, deadline>>,
           pc # "backoff" \/ policy'.network = policy.network
    PROVE  WaitsOnlyForNetwork'
BY DEF WaitsOnlyForNetwork

LEMMA NotBackoff == pc' # "backoff" => WaitsOnlyForNetwork'
BY DEF WaitsOnlyForNetwork

LEMMA WaitsStep == TypeOK /\ WaitsOnlyForNetwork /\ [Next]_vars => WaitsOnlyForNetwork'
<1> SUFFICES ASSUME TypeOK, WaitsOnlyForNetwork, [Next]_vars PROVE WaitsOnlyForNetwork'
  OBVIOUS
<1>p. policy \in Policy
  BY DEF TypeOK
<1>z. CASE UNCHANGED vars
  BY <1>z, BackoffKept DEF vars
<1>1. CASE App
  BY <1>1, BackoffKept DEF App, Send, DropHandles
<1>2. CASE Forwarder
  BY <1>2, BackoffKept DEF Forwarder, ForwardClose, ForwarderEnds
<1>3. CASE Connect
  <2>1. CASE CollectDone
    BY <2>1, NotBackoff DEF CollectDone, StartConnection
  <2>2. CASE ConnectOne
    BY <2>2, <1>p, BackoffIsEarned, NotBackoff DEF ConnectOne
  <2>3. CASE ConnectClosed \/ ConnectFails
    BY <2>3, <1>p, BackoffIsEarned DEF ConnectClosed, ConnectFails
  <2>4. CASE TcpDone \/ Activate
    BY <2>4, NotBackoff DEF TcpDone, Activate
  <2>5. CASE TlsDone
    BY <2>5, <1>p, BackoffIsEarned, NotBackoff DEF TlsDone, EnterAuth
  <2> QED
    BY <1>3, <2>1, <2>2, <2>3, <2>4, <2>5 DEF Connect
<1>4. CASE Commands
  <2>1. CASE CollectCommand
    BY <2>1, BackoffKept DEF CollectCommand
  <2>2. CASE PromptCommand
    BY <2>2, <1>p, BackoffIsEarned, NotBackoff DEF PromptCommand, EnterAuth
  <2>3. CASE PromptClose
    BY <2>3, <1>p, BackoffIsEarned DEF PromptClose
  <2>4. CASE LiveClose \/ LiveVisible
    BY <2>4, NotBackoff DEF LiveClose, LiveVisible
  <2>5. CASE LiveCommand
    BY <2>5, NotBackoff DEF LiveCommand
  <2>6. CASE BackoffClose \/ BackoffCancel
    BY <2>6, NotBackoff DEF BackoffClose, BackoffCancel, Exit, Stop
  <2>7. CASE BackoffNow
    BY <2>7, BackoffKept, NotBackoff DEF BackoffNow, BackoffReconnect, StartConnection
  <2>8. CASE BackoffNetwork
    <3>1. CASE BackoffReconnect
      BY <3>1, NotBackoff DEF BackoffReconnect, StartConnection
    <3>2. CASE /\ policy' = set_network_reachable(policy, FALSE)
               /\ UNCHANGED <<pc, deadline>>
      <4>1. ~ policy'.network
        BY <1>p, <3>2 DEF set_network_reachable, Policy
      <4> QED
        BY <3>2, <4>1 DEF WaitsOnlyForNetwork
    <3> QED
      BY <2>8, <3>1, <3>2 DEF BackoffNetwork
  <2>9. CASE BackoffRemember
    BY <2>9, BackoffKept DEF BackoffRemember
  <2>10. CASE IdleClose \/ IdleReconnect \/ IdleCommand
    BY <2>10, NotBackoff DEF IdleClose, IdleReconnect, IdleCommand, StartConnection
  <2> QED
    BY <1>4, <2>1, <2>2, <2>3, <2>4, <2>5, <2>6, <2>7, <2>8, <2>9, <2>10 DEF Commands
<1>5. CASE Server
  <2>1. CASE OpenGfx \/ FollowRedirect \/ LiveWrite \/ Written
    BY <2>1, NotBackoff DEF OpenGfx, FollowRedirect, LiveWrite, Written
  <2>2. CASE LegEnded \/ RedirectRefused \/ WriteFails \/ ShutDown
    BY <2>2, <1>p, BackoffIsEarned DEF LegEnded, RedirectRefused, WriteFails, ShutDown
  <2>3. CASE Activated
    BY <2>3, <1>p, BackoffIsEarned, NotBackoff DEF Activated
  <2> QED
    BY <1>5, <2>1, <2>2, <2>3 DEF Server
<1>6. CASE BackoffReady
  BY <1>6, NotBackoff DEF BackoffReady, BackoffReconnect, StartConnection
<1>7. CASE Settle
  <2>1. policy'.network = policy.network
    BY <1>7, <1>p DEF Settle, Settled, Policy
  <2> QED
    BY <1>7, <2>1, BackoffKept DEF Settle
<1>8. CASE DeadlinePasses
  BY <1>8 DEF DeadlinePasses, WaitsOnlyForNetwork
<1> QED
  BY <1>z, <1>1, <1>2, <1>3, <1>4, <1>5, <1>6, <1>7, <1>8 DEF Next

(* A session never sleeps in a backoff that nothing can end: without a     *)
(* deadline (after_disconnect's WaitForNetwork) it only waits while the    *)
(* policy believes the network is down, so that NetworkReachable is still  *)
(* to come, through every command wait_backoff handles or ignores.         *)
THEOREM BackoffAlwaysHasAnEnd == Spec => []WaitsOnlyForNetwork
<1>1. Init => TypeOK /\ WaitsOnlyForNetwork
  BY TypeInit DEF Init, WaitsOnlyForNetwork
<1>2. TypeOK /\ WaitsOnlyForNetwork /\ [Next]_vars => TypeOK' /\ WaitsOnlyForNetwork'
  BY TypeStep, WaitsStep
<1> QED
  BY <1>1, <1>2, PTL DEF Spec

-----------------------------------------------------------------------------
(* The state shown is the phase.  PhaseTable gives, for each await of the  *)
(* actor, the states it may show there: the published state is determined  *)
(* by the phase everywhere but at the entry of connect_one, which five     *)
(* paths reach.                                                            *)

ShownWhileConnecting ==
    pc \in {"tcp", "tls", "prompt", "auth"} =>
        state = Connecting(leg, CASE pc = "tcp" -> "Tcp"
                                  [] pc = "auth" -> auth_stage
                                  [] OTHER -> "Tls")

\* The greeter's leg shows nothing new; the leg after it awaits the login.
ShownOnceActive ==
    pc \in {"activating", "live", "writing", "hiding", "closing"} =>
        state = IF Mode = "RemoteLogin" /\ leg = 1 THEN Connecting(1, "Nla")
                ELSE IF Mode = "RemoteLogin" /\ leg = 2 THEN AwaitingGreeterLogin
                ELSE Connected

ShownBeforeConnecting ==
    pc = "connect" =>
        \/ leg = 1 /\ state.tag \in {"Idle", "Reconnecting"} \cup Stopped
        \/ leg = 2 /\ state = Connecting(1, "Nla")
        \/ leg >= 2 /\ state.tag \in {"AwaitingGreeterLogin", "Connected"}

ShownInBackoff ==
    pc = "backoff" =>
        /\ state.tag = "Reconnecting" /\ state.reason = dropReason
        /\ activated /\ is_retryable(dropReason) /\ state.attempt > 0

PhaseTable ==
    /\ pc = "collect" => state = Idle
    /\ ShownBeforeConnecting
    /\ ShownWhileConnecting
    /\ ShownOnceActive
    /\ ShownInBackoff
    /\ pc = "idle" => state.tag \in Stopped

PhaseInv == PhaseTable /\ OnlyClosingIsRejected

LEMMA AllowedIsShown ==
    ASSUME NEW n, allows(state, n), set_state(n)
    PROVE  state' = n /\ rejected' = rejected
BY DEF set_state

\* The fields of the variants.
LEMMA VariantFields ==
    /\ \A l, s : Connecting(l, s).tag = "Connecting" /\ Connecting(l, s).leg = l
    /\ \A n, r : /\ Reconnecting(n, r).tag = "Reconnecting" /\ Reconnecting(n, r).attempt = n
                 /\ Reconnecting(n, r).reason = r
    /\ \A r : /\ Disconnected(r).tag = "Disconnected" /\ Disconnected(r).reason = r
              /\ Failed(r).tag = "Failed"
    /\ Idle.tag = "Idle" /\ Connected.tag = "Connected"
    /\ AwaitingGreeterLogin.tag = "AwaitingGreeterLogin"
BY DEF Connecting, Reconnecting, Disconnected, Failed, Idle, Connected, AwaitingGreeterLogin,
       Variant

\* The last word of a session is refused only by a session that has stopped.
LEMMA ExitIsShown ==
    ASSUME state \in States, OnlyClosingIsRejected, set_state(Disconnected("UserClosed"))
    PROVE  OnlyClosingIsRejected'
<1> DEFINE n == Disconnected("UserClosed")
<1>1. n.tag = "Disconnected" /\ n.reason = "UserClosed"
  BY VariantFields
<1> HIDE DEF n
<1>2. state.tag \in Tags
  BY DEF States
<1>3. allows(state, n) \/ state.tag \in Stopped
  BY <1>1, <1>2 DEF allows, ValidTarget, Arrow, Tags, Active, Stopped
<1>4. \/ rejected' = rejected
      \/ state.tag \in Stopped /\ rejected' = rejected \cup {<<state.tag, n.tag, n.reason>>}
  BY <1>3 DEF set_state, n
<1> QED
  BY <1>1, <1>4 DEF OnlyClosingIsRejected

\* What a connected or connecting session shows when its connection ends.
Ended ==
    /\ OnlyClosingIsRejected'
    /\ pc' \in {"exit", "idle", "backoff"}
    /\ pc' = "idle" => state'.tag \in Stopped
    /\ ShownInBackoff'

LEMMA EndedTable == Ended => PhaseInv'
BY DEF Ended, PhaseInv, PhaseTable, ShownBeforeConnecting, ShownWhileConnecting, ShownOnceActive

LEMMA StopIsShown ==
    ASSUME NEW r \in DisconnectReason, OnlyClosingIsRejected, state.tag \in Active,
           Stop(terminal_state(r))
    PROVE  Ended
<1>1. terminal_state(r).tag \in Stopped
  BY VariantFields DEF terminal_state, Stopped
<1>2. allows(state, terminal_state(r))
  BY <1>1 DEF allows, ValidTarget, Arrow, Stopped
<1>3. state' = terminal_state(r) /\ rejected' = rejected /\ pc' = "idle"
  BY <1>2, AllowedIsShown DEF Stop
<1> QED
  BY <1>1, <1>3 DEF Ended, OnlyClosingIsRejected, ShownInBackoff

\* A decision to wait comes from a retryable reason and has a positive number.
LEMMA WaitIsNumbered ==
    ASSUME NEW p \in Policy, NEW b \in BOOLEAN, on_disconnect(p, b).do # "GiveUp"
    PROVE  b /\ on_disconnect(p, b).attempt \in Nat /\ on_disconnect(p, b).attempt > 0
<1>1. b
  BY DEF on_disconnect, Decision
<1>2. on_disconnect(p, b) = next_decision(Taken(p))
  BY <1>1 DEF on_disconnect
<1>3. Taken(p) \in Policy
  BY DEF Taken, Policy
<1>4. ASSUME NEW q \in Policy, next_decision(q).do # "GiveUp"
      PROVE  next_decision(q).attempt \in Nat /\ next_decision(q).attempt > 0
  BY <1>4 DEF Policy, next_decision, Decision
<1> QED
  BY <1>1, <1>2, <1>3, <1>4

LEMMA EndIsShown ==
    ASSUME TypeOK, OnlyClosingIsRejected, state.tag \in Active,
           NEW r \in DisconnectReason, NEW p \in Policy, NEW up \in BOOLEAN,
           up => activated', after_disconnect(r, p, up)
    PROVE  Ended
<1>1. CASE r = "UserClosed"
  <2>1. Exit
    BY <1>1 DEF after_disconnect
  <2> QED
    BY <2>1, ExitIsShown DEF Exit, Ended, ShownInBackoff, TypeOK
<1>2. CASE r # "UserClosed" /\ ~up
  BY <1>2, StopIsShown DEF after_disconnect
<1>3. CASE r # "UserClosed" /\ up
  <2> DEFINE d == on_disconnect(p, is_retryable(r))
             n == Reconnecting(d.attempt, r)
  <2>1. CASE d.do = "GiveUp"
    BY <1>3, <2>1, StopIsShown DEF after_disconnect
  <2>2. CASE d.do # "GiveUp"
    <3>b. is_retryable(r) \in BOOLEAN
      BY DEF is_retryable
    <3>1. is_retryable(r) /\ d.attempt \in Nat /\ d.attempt > 0
      BY <2>2, <3>b, WaitIsNumbered
    <3>2. set_state(n) /\ pc' = "backoff" /\ dropReason' = r
      BY <1>3, <2>2 DEF after_disconnect
    <3> HIDE DEF d
    <3>3. n.tag = "Reconnecting" /\ n.attempt = d.attempt /\ n.reason = r
      BY VariantFields
    <3> HIDE DEF n
    <3>4. allows(state, n)
      BY <3>1, <3>3 DEF allows, ValidTarget, Arrow
    <3>5. state' = n /\ rejected' = rejected
      BY <3>2, <3>4, AllowedIsShown
    <3> QED
      BY <1>3, <3>1, <3>2, <3>3, <3>5 DEF Ended, OnlyClosingIsRejected, ShownInBackoff
  <2> QED
    BY <2>1, <2>2
<1> QED
  BY <1>1, <1>2, <1>3

\* A step that leaves the phase, the state and what the backoff is about alone.
LEMMA PhaseKept ==
    ASSUME PhaseInv, UNCHANGED <<state, pc, leg, dropReason, activated, rejected>>
    PROVE  PhaseInv'
BY DEF PhaseInv, PhaseTable, ShownBeforeConnecting, ShownWhileConnecting, ShownOnceActive,
       ShownInBackoff, OnlyClosingIsRejected, auth_stage

\* A new connection starts from a state the first Connecting may follow.
LEMMA StartIsShown ==
    ASSUME PhaseInv, pc \in {"collect", "backoff", "idle"}, StartConnection,
           UNCHANGED <<state, rejected>>
    PROVE  PhaseInv'
<1>1. state.tag \in {"Idle", "Reconnecting"} \cup Stopped
  BY VariantFields DEF PhaseInv, PhaseTable, ShownInBackoff
<1> QED
  BY <1>1 DEF PhaseInv, PhaseTable, StartConnection, ShownBeforeConnecting,
              ShownWhileConnecting, ShownOnceActive, ShownInBackoff, OnlyClosingIsRejected

\* The next stage of a leg is shown.
LEMMA StageIsShown ==
    ASSUME TypeOK, PhaseInv, NEW s,
           pc \in {"connect", "tcp", "tls", "prompt"}, set_state(Connecting(leg, s))
    PROVE  state' = Connecting(leg, s) /\ rejected' = rejected
<1> DEFINE n == Connecting(leg, s)
<1>1. n.tag = "Connecting" /\ n.leg = leg
  BY VariantFields
<1>2. leg \in 1..MAX_LEG /\ leg \in Nat
  BY RedirectsAssumption DEF TypeOK, MAX_LEG
<1>3. CASE pc = "connect"
  <2>1. \/ leg = 1 /\ state.tag \in {"Idle", "Reconnecting"} \cup Stopped
        \/ leg = 2 /\ state.tag = "Connecting" /\ state.leg = 1
        \/ leg >= 2 /\ state.tag \in {"AwaitingGreeterLogin", "Connected"}
    BY <1>3, VariantFields DEF PhaseInv, PhaseTable, ShownBeforeConnecting
  <2> HIDE DEF n
  <2>2. allows(state, n)
    BY <1>1, <1>2, <2>1 DEF allows, ValidTarget, Arrow, Stopped
  <2> QED
    BY <2>2, AllowedIsShown DEF n
<1>4. CASE pc \in {"tcp", "tls", "prompt"}
  <2>1. state.tag = "Connecting" /\ state.leg = leg
    BY <1>4, VariantFields DEF PhaseInv, PhaseTable, ShownWhileConnecting
  <2> HIDE DEF n
  <2>2. allows(state, n)
    BY <1>1, <1>2, <2>1 DEF allows, ValidTarget, Arrow
  <2> QED
    BY <2>2, AllowedIsShown DEF n
<1> QED
  BY <1>3, <1>4

\* From the entry of connect_leg to the end of a live leg the session is active.
LEMMA ActivePhases ==
    ASSUME PhaseInv, pc \in {"tcp", "tls", "prompt", "auth", "activating"} \cup Up
    PROVE  state.tag \in Active
BY VariantFields DEF PhaseInv, PhaseTable, ShownWhileConnecting, ShownOnceActive, Active, Up

LEMMA AuthIsShown ==
    ASSUME TypeOK, PhaseInv, pc \in {"tls", "prompt"}, EnterAuth, leg' = leg
    PROVE  PhaseInv'
<1>1. state' = Connecting(leg, auth_stage) /\ rejected' = rejected /\ pc' = "auth"
  BY StageIsShown DEF EnterAuth
<1> QED
  BY <1>1 DEF PhaseInv, PhaseTable, ShownBeforeConnecting, ShownWhileConnecting,
              ShownOnceActive, ShownInBackoff, OnlyClosingIsRejected, auth_stage

LEMMA ActivationIsShown ==
    ASSUME TypeOK, PhaseInv, pc = "auth", set_state(activated_state), pc' = "activating",
           leg' = leg
    PROVE  PhaseInv'
<1>1. state = Connecting(leg, auth_stage)
  BY DEF PhaseInv, PhaseTable, ShownWhileConnecting
<1>2. leg \in Nat
  BY RedirectsAssumption DEF TypeOK, MAX_LEG
<1>3. CASE Mode = "RemoteLogin" /\ leg = 1
  <2>1. state = Connecting(1, "Nla") /\ activated_state = state
    BY <1>1, <1>3 DEF auth_stage, activated_state
  <2>2. state' = Connecting(1, "Nla") /\ rejected' = rejected
    BY <2>1 DEF set_state
  <2> QED
    BY <1>3, <2>2 DEF PhaseInv, PhaseTable, ShownBeforeConnecting, ShownWhileConnecting,
                      ShownOnceActive, ShownInBackoff, OnlyClosingIsRejected
<1>4. CASE ~ (Mode = "RemoteLogin" /\ leg = 1)
  <2>1. state.tag = "Connecting" /\ state.leg = leg
    BY <1>1, VariantFields
  <2>2. activated_state = IF Mode = "RemoteLogin" /\ leg = 2 THEN AwaitingGreeterLogin
                          ELSE Connected
    BY <1>4 DEF activated_state
  <2>t. \/ activated_state.tag = "Connected"
        \/ activated_state.tag = "AwaitingGreeterLogin" /\ leg = 2
    BY <2>2, VariantFields
  <2>3. allows(state, activated_state)
    BY <1>2, <2>1, <2>t DEF allows, ValidTarget, Arrow
  <2>4. state' = activated_state /\ rejected' = rejected
    BY <2>3, AllowedIsShown
  <2> QED
    BY <1>4, <2>2, <2>4 DEF PhaseInv, PhaseTable, ShownBeforeConnecting,
       ShownWhileConnecting, ShownOnceActive, ShownInBackoff, OnlyClosingIsRejected
<1> QED
  BY <1>3, <1>4

LEMMA PhaseStep == TypeOK /\ PhaseInv /\ [Next]_vars => PhaseInv'
<1> SUFFICES ASSUME TypeOK, PhaseInv, [Next]_vars PROVE PhaseInv'
  OBVIOUS
<1>t. policy \in Policy /\ activated \in BOOLEAN /\ OnlyClosingIsRejected /\ state \in States
  BY DEF TypeOK, PhaseInv
<1>r. /\ {"UserClosed", "CertMismatch", "ProtocolError", "RedirectLoop"} \subseteq DisconnectReason
      /\ \A e \in Errors \cap IoErrors : classify_io_error(e, "Activation") \in DisconnectReason
  BY ReasonTypes DEF DisconnectReason
<1>e. ASSUME NEW r \in DisconnectReason, after_disconnect(r, policy, activated),
             activated' = activated,
             pc \in {"tcp", "tls", "prompt", "auth", "activating"} \cup Up
      PROVE  PhaseInv'
  BY <1>t, <1>e, ActivePhases, EndIsShown, EndedTable
<1>i. ASSUME pc \in Up, pc' \in Up, UNCHANGED <<state, leg, rejected>>
      PROVE  PhaseInv'
  BY <1>i DEF PhaseInv, PhaseTable, ShownBeforeConnecting, ShownWhileConnecting,
     ShownOnceActive, ShownInBackoff, OnlyClosingIsRejected, Up
<1>z. CASE UNCHANGED vars
  BY <1>z, PhaseKept DEF vars
<1>1. CASE App \/ Forwarder
  BY <1>1, PhaseKept DEF App, Send, DropHandles, Forwarder, ForwardClose, ForwarderEnds
<1>2. CASE Connect
  <2>1. CASE CollectDone
    BY <2>1, StartIsShown DEF CollectDone
  <2>2. CASE ConnectOne
    <3>1. CASE closed
      <4>1. Exit
        BY <2>2, <3>1 DEF ConnectOne, after_disconnect
      <4>2. Ended
        BY <1>t, <4>1, ExitIsShown DEF Exit, Ended, ShownInBackoff
      <4> QED
        BY <4>2, EndedTable
    <3>2. CASE ~closed
      <4>1. pc = "connect" /\ set_state(Connecting(leg, "Tcp")) /\ pc' = "tcp" /\ leg' = leg
        BY <2>2, <3>2 DEF ConnectOne
      <4>2. state' = Connecting(leg, "Tcp") /\ rejected' = rejected
        BY <4>1, StageIsShown
      <4> QED
        BY <4>1, <4>2 DEF PhaseInv, PhaseTable, ShownBeforeConnecting, ShownWhileConnecting,
           ShownOnceActive, ShownInBackoff, OnlyClosingIsRejected
    <3> QED
      BY <3>1, <3>2
  <2>3. CASE ConnectClosed
    BY <2>3, <1>e, <1>r DEF ConnectClosed
  <2>4. CASE ConnectFails
    <3>1. PICK r : /\ r \in PhaseFailures(CASE pc = "tcp" -> "Tcp"
                                             [] pc = "tls" -> "Tls"
                                             [] pc = "auth" -> auth_stage)
                   /\ after_disconnect(r, policy, activated)
      BY <2>4 DEF ConnectFails
    <3>2. r \in DisconnectReason
      BY <2>4, <3>1, ReasonTypes DEF ConnectFails, auth_stage, ConnectStage
    <3> QED
      BY <2>4, <3>1, <3>2, <1>e DEF ConnectFails
  <2>5. CASE TcpDone
    <3>1. pc = "tcp" /\ set_state(Connecting(leg, "Tls")) /\ pc' = "tls" /\ leg' = leg
      BY <2>5 DEF TcpDone
    <3>2. state' = Connecting(leg, "Tls") /\ rejected' = rejected
      BY <3>1, StageIsShown
    <3> QED
      BY <3>1, <3>2 DEF PhaseInv, PhaseTable, ShownBeforeConnecting, ShownWhileConnecting,
         ShownOnceActive, ShownInBackoff, OnlyClosingIsRejected
  <2>6. CASE TlsDone
    <3>1. pc = "tls" /\ leg' = leg /\ activated' = activated
      BY <2>6 DEF TlsDone
    <3>2. \/ EnterAuth
          \/ after_disconnect("CertMismatch", policy, activated)
          \/ pc' = "prompt" /\ UNCHANGED <<state, rejected>>
      BY <2>6 DEF TlsDone
    <3>3. CASE pc' = "prompt" /\ UNCHANGED <<state, rejected>>
      BY <3>1, <3>3 DEF PhaseInv, PhaseTable, ShownBeforeConnecting, ShownWhileConnecting,
         ShownOnceActive, ShownInBackoff, OnlyClosingIsRejected
    <3> QED
      BY <3>1, <3>2, <3>3, <1>e, <1>r, AuthIsShown
  <2>7. CASE Activate
    BY <2>7, ActivationIsShown DEF Activate
  <2> QED
    BY <1>2, <2>1, <2>2, <2>3, <2>4, <2>5, <2>6, <2>7 DEF Connect
<1>3. CASE Commands
  <2>1. CASE CollectCommand \/ LiveCommand \/ BackoffRemember \/ IdleCommand
    BY <2>1, PhaseKept DEF CollectCommand, LiveCommand, BackoffRemember, IdleCommand
  <2>2. CASE PromptCommand
    <3>1. pc = "prompt" /\ leg' = leg /\ activated' = activated
      BY <2>2 DEF PromptCommand
    <3>2. \/ EnterAuth
          \/ after_disconnect("CertMismatch", policy, activated)
          \/ UNCHANGED <<state, pc, dropReason, rejected>>
      BY <2>2 DEF PromptCommand
    <3> QED
      BY <3>1, <3>2, <1>e, <1>r, AuthIsShown, PhaseKept
  <2>3. CASE PromptClose
    BY <2>3, <1>e, <1>r DEF PromptClose
  <2>4. CASE LiveClose \/ LiveVisible
    BY <2>4, <1>i DEF LiveClose, LiveVisible, Up
  <2>5. CASE BackoffClose
    <3>1. Exit
      BY <2>5 DEF BackoffClose
    <3>2. Ended
      BY <1>t, <3>1, ExitIsShown DEF Exit, Ended, ShownInBackoff
    <3> QED
      BY <3>2, EndedTable
  <2>6. CASE BackoffCancel
    <3>1. pc = "backoff" /\ set_state(Disconnected(dropReason)) /\ pc' = "idle"
      BY <2>6 DEF BackoffCancel, Stop
    <3>2. allows(state, Disconnected(dropReason))
      BY <3>1, VariantFields DEF PhaseInv, PhaseTable, ShownInBackoff, allows, ValidTarget,
         Arrow, Stopped
    <3>3. state' = Disconnected(dropReason) /\ rejected' = rejected
      BY <3>1, <3>2, AllowedIsShown
    <3>4. Ended
      BY <1>t, <3>1, <3>3, VariantFields DEF Ended, OnlyClosingIsRejected, ShownInBackoff,
         Stopped
    <3> QED
      BY <3>4, EndedTable
  <2>7. CASE BackoffNow \/ BackoffNetwork
    <3>1. pc = "backoff" /\ (BackoffReconnect
             \/ UNCHANGED <<state, pc, leg, dropReason, activated, rejected>>)
      BY <2>7 DEF BackoffNow, BackoffNetwork
    <3> QED
      BY <3>1, StartIsShown, PhaseKept DEF BackoffReconnect
  <2>8. CASE IdleClose
    <3>1. pc' = "exit" /\ rejected' = rejected
      BY <2>8 DEF IdleClose
    <3>2. Ended
      BY <1>t, <3>1 DEF Ended, OnlyClosingIsRejected, ShownInBackoff
    <3> QED
      BY <3>2, EndedTable
  <2>9. CASE IdleReconnect
    BY <2>9, StartIsShown DEF IdleReconnect
  <2> QED
    BY <1>3, <2>1, <2>2, <2>3, <2>4, <2>5, <2>6, <2>7, <2>8, <2>9 DEF Commands
<1>4. CASE Server
  <2>1. CASE OpenGfx
    BY <2>1, PhaseKept DEF OpenGfx
  <2>2. CASE LegEnded
    BY <2>2, <1>e, ReasonTypes DEF LegEnded, Up
  <2>3. CASE RedirectRefused \/ ShutDown
    BY <2>3, <1>e, <1>r DEF RedirectRefused, ShutDown, Up
  <2>4. CASE FollowRedirect
    <3>1. pc = "live" /\ pc' = "connect" /\ leg' = leg + 1 /\ UNCHANGED <<state, rejected>>
      BY <2>4 DEF FollowRedirect
    <3>2. leg \in Nat /\ leg >= 1
      BY RedirectsAssumption DEF TypeOK, MAX_LEG
    <3>3. state = IF Mode = "RemoteLogin" /\ leg = 1 THEN Connecting(1, "Nla")
                  ELSE IF Mode = "RemoteLogin" /\ leg = 2 THEN AwaitingGreeterLogin
                  ELSE Connected
      BY <3>1 DEF PhaseInv, PhaseTable, ShownOnceActive
    <3>4. ShownBeforeConnecting'
      BY <3>1, <3>2, <3>3, VariantFields DEF ShownBeforeConnecting
    <3> QED
      BY <3>1, <3>4 DEF PhaseInv, PhaseTable, ShownWhileConnecting, ShownOnceActive,
                        ShownInBackoff, OnlyClosingIsRejected
  <2>5. CASE Activated
    <3>1. pc = "activating" /\ leg' = leg /\ activated' = TRUE
      BY <2>5 DEF Activated
    <3>2. \/ pc' = "live" /\ UNCHANGED <<state, rejected>>
          \/ \E e \in Errors \cap IoErrors :
                after_disconnect(classify_io_error(e, "Activation"), policy, TRUE)
      BY <2>5 DEF Activated
    <3>3. CASE pc' = "live" /\ UNCHANGED <<state, rejected>>
      BY <3>1, <3>3 DEF PhaseInv, PhaseTable, ShownBeforeConnecting, ShownWhileConnecting,
         ShownOnceActive, ShownInBackoff, OnlyClosingIsRejected
    <3>4. ASSUME NEW e \in Errors \cap IoErrors,
                 after_disconnect(classify_io_error(e, "Activation"), policy, TRUE)
          PROVE  PhaseInv'
      <4>1. state.tag \in Active
        BY <3>1, ActivePhases
      <4> QED
        BY <1>t, <1>r, <3>1, <3>4, <4>1, EndIsShown, EndedTable
    <3> QED
      BY <3>2, <3>3, <3>4
  <2>6. CASE LiveWrite \/ Written
    BY <2>6, <1>i DEF LiveWrite, Written, Up
  <2>7. CASE WriteFails
    BY <2>7, <1>e, <1>r DEF WriteFails, Up
  <2> QED
    BY <1>4, <2>1, <2>2, <2>3, <2>4, <2>5, <2>6, <2>7 DEF Server
<1>5. CASE BackoffReady
  BY <1>5, StartIsShown DEF BackoffReady, BackoffReconnect
<1>6. CASE Settle \/ DeadlinePasses
  BY <1>6, PhaseKept DEF Settle, DeadlinePasses
<1> QED
  BY <1>z, <1>1, <1>2, <1>3, <1>4, <1>5, <1>6 DEF Next

LEMMA PhaseInit == Init => PhaseInv
BY DEF Init, StateInit, PhaseInv, PhaseTable, ShownBeforeConnecting, ShownWhileConnecting,
       ShownOnceActive, ShownInBackoff, OnlyClosingIsRejected

LEMMA PhaseAlways == Spec => [](TypeOK /\ PhaseInv)
<1>1. Init => TypeOK /\ PhaseInv
  BY TypeInit, PhaseInit
<1>2. TypeOK /\ PhaseInv /\ [Next]_vars => TypeOK' /\ PhaseInv'
  BY TypeStep, PhaseStep
<1> QED
  BY <1>1, <1>2, PTL DEF Spec

(* What the app shows is the phase the actor is in (Io::set_state): on     *)
(* every path through run(), for every mode, number of redirects and       *)
(* budget, the gate grants each transition the actor asks for, except the  *)
(* last one of a session that is closed after it has stopped.              *)
THEOREM ShownStateIsTruthful == Spec => []StateIsTruthful
<1>1. PhaseInv => StateIsTruthful
  <2> SUFFICES ASSUME PhaseInv PROVE StateIsTruthful
    OBVIOUS
  <2>1. pc \in Up => state = IF Mode = "RemoteLogin" /\ leg = 1 THEN Connecting(1, "Nla")
                             ELSE activated_state
    BY DEF PhaseInv, PhaseTable, ShownOnceActive, activated_state, Up
  <2> QED
    BY <2>1 DEF PhaseInv, PhaseTable, ShownWhileConnecting, ShownInBackoff, StateIsTruthful,
                StateShowsPhase
<1> QED
  BY <1>1, PhaseAlways, PTL

-----------------------------------------------------------------------------
(* The command channel: what a step may do to it.                          *)

CloseCommand == Command("Close", NoCert)

\* The commands that are queued and not read.
Unread == {cmds[i] : i \in 1..Len(cmds)}

\* A step reads the oldest command, adds one behind the others, or leaves the channel alone.
LEMMA ChannelStep ==
    ASSUME [Next]_vars
    PROVE  \/ cmds' = cmds
           \/ cmds # <<>> /\ cmds' = Tail(cmds)
           \/ \E c \in Sendable \cup {CloseCommand} : cmds' = Append(cmds, c)
<1> USE DEF mailbox, Receive, ReceiveClose, ReceiveKind, remember, CloseCommand
<1>z. CASE UNCHANGED vars
  BY <1>z DEF vars
<1>1. CASE App
  BY <1>1 DEF App, Send, Queued, DropHandles
<1>2. CASE Forwarder
  BY <1>2 DEF Forwarder, ForwardClose, ForwarderEnds
<1>3. CASE Connect
  <2>1. CASE CollectDone
    BY <2>1 DEF CollectDone
  <2>2. CASE ~ CollectDone
    BY <1>3, <2>2 DEF Connect, ConnectOne, ConnectClosed, ConnectFails, TcpDone, TlsDone, Activate
  <2> QED
    BY <2>1, <2>2
<1>4. CASE Commands
  <2>1. CASE CollectCommand \/ PromptCommand \/ PromptClose
    BY <2>1 DEF CollectCommand, PromptCommand, PromptClose
  <2>2. CASE LiveClose \/ LiveVisible \/ LiveCommand
    BY <2>2 DEF LiveClose, LiveVisible, LiveCommand
  <2>3. CASE BackoffClose \/ BackoffCancel \/ BackoffNow \/ BackoffNetwork \/ BackoffRemember
    BY <2>3 DEF BackoffClose, BackoffCancel, BackoffNow, BackoffNetwork, BackoffRemember
  <2>4. CASE IdleClose \/ IdleReconnect \/ IdleCommand
    BY <2>4 DEF IdleClose, IdleReconnect, IdleCommand
  <2> QED
    BY <1>4, <2>1, <2>2, <2>3, <2>4 DEF Commands
<1>5. CASE Server
  BY <1>5 DEF Server, OpenGfx, LegEnded, RedirectRefused, FollowRedirect, Activated, LiveWrite,
              Written, WriteFails, ShutDown
<1>6. CASE BackoffReady \/ Settle \/ DeadlinePasses
  BY <1>6 DEF BackoffReady, Settle, DeadlinePasses
<1> QED
  BY <1>z, <1>1, <1>2, <1>3, <1>4, <1>5, <1>6 DEF Next

\* Nothing is ever queued but what the app may send, and Close.
LEMMA UnreadStep ==
    ASSUME TypeOK, [Next]_vars
    PROVE  Unread' \subseteq Unread \cup Sendable \cup {CloseCommand}
<1>t. cmds \in Seq(SessionCommand)
  BY DEF TypeOK
<1>1. CASE cmds' = cmds
  BY <1>1 DEF Unread
<1>2. CASE cmds # <<>> /\ cmds' = Tail(cmds)
  <2>1. /\ Len(cmds) \in Nat /\ Len(cmds') = Len(cmds) - 1
        /\ \A i \in 1..Len(cmds') : i + 1 \in 1..Len(cmds) /\ cmds'[i] = cmds[i + 1]
    BY <1>t, <1>2
  <2> QED
    BY <2>1 DEF Unread
<1>3. ASSUME NEW c \in Sendable \cup {CloseCommand}, cmds' = Append(cmds, c)
      PROVE  Unread' \subseteq Unread \cup Sendable \cup {CloseCommand}
  <2>1. /\ Len(cmds) \in Nat /\ Len(cmds') = Len(cmds) + 1
        /\ \A i \in 1..Len(cmds') : (i \in 1..Len(cmds) /\ cmds'[i] = cmds[i]) \/ cmds'[i] = c
    BY <1>t, <1>3
  <2> QED
    BY <2>1 DEF Unread
<1> QED
  BY <1>1, <1>2, <1>3, ChannelStep

-----------------------------------------------------------------------------
(* The budget.  The policy's count is what the retries are paid from: the  *)
(* backoff has paid for the reconnect that is to come.                     *)

BudgetInv ==
    /\ policy.network
    /\ \A c \in Unread : c.kind # "NetworkDown"
    /\ policy.attempts <= max_attempts
    /\ tries <= policy.attempts
    /\ pc = "backoff" => tries < policy.attempts

\* The part of it that is about the policy, for the phase given.
Paid(p, n, waiting) ==
    /\ p.network /\ p.attempts <= max_attempts
    /\ n <= p.attempts /\ (waiting => n < p.attempts)

\* The policy's decision pays for the retry it grants.
LEMMA RetryIsPaid ==
    ASSUME NEW p \in Policy, NEW n \in Nat, NEW b \in BOOLEAN, Paid(p, n, FALSE)
    PROVE  LET d == on_disconnect(p, b)
           IN  Paid(d.policy, IF p.since = "stable" THEN 0 ELSE n, d.do # "GiveUp")
<1> DEFINE m == IF p.since = "stable" THEN 0 ELSE n
           q == Taken(p)
<1>1. /\ q \in Policy /\ q.network = p.network
      /\ q.attempts = IF p.since = "stable" THEN 0 ELSE p.attempts
  BY DEF Taken, Policy
<1>2. q.network /\ q.attempts <= max_attempts /\ m <= q.attempts /\ m \in Nat /\ q.attempts \in Nat
  BY <1>1, BudgetAssumption DEF Paid, Policy
<1>3. CASE ~b
  <2>1. on_disconnect(p, b).policy = q /\ on_disconnect(p, b).do = "GiveUp"
    BY <1>3 DEF on_disconnect, Decision
  <2> QED
    BY <1>2, <2>1 DEF Paid
<1>4. CASE b /\ q.attempts >= max_attempts
  <2>1. on_disconnect(p, b).policy = q /\ on_disconnect(p, b).do = "GiveUp"
    BY <1>2, <1>4 DEF on_disconnect, next_decision, Decision
  <2> QED
    BY <1>2, <2>1 DEF Paid
<1>5. CASE b /\ ~ (q.attempts >= max_attempts)
  <2>1. on_disconnect(p, b).policy = [q EXCEPT !.attempts = q.attempts + 1]
    BY <1>2, <1>5 DEF on_disconnect, next_decision, Decision
  <2>2. on_disconnect(p, b).policy.network /\ on_disconnect(p, b).policy.attempts = q.attempts + 1
    BY <1>1, <1>2, <2>1 DEF Policy
  <2>3. q.attempts + 1 <= max_attempts /\ m <= q.attempts + 1 /\ m < q.attempts + 1
    BY <1>2, <1>5, BudgetAssumption
  <2> HIDE DEF m, q
  <2>4. Paid(on_disconnect(p, b).policy, m, on_disconnect(p, b).do # "GiveUp")
    BY <2>2, <2>3 DEF Paid
  <2> QED
    BY <2>4 DEF m
<1> QED
  BY <1>3, <1>4, <1>5

LEMMA EndIsPaid ==
    ASSUME TypeOK, BudgetInv, NEW r, NEW up, after_disconnect(r, policy, up), pc # "backoff"
    PROVE  Paid(policy', tries', pc' = "backoff")
<1>1. policy \in Policy /\ tries \in Nat /\ Paid(policy, tries, FALSE)
  BY DEF TypeOK, BudgetInv, Paid
<1>2. CASE r = "UserClosed" \/ ~up
  <2>1. policy' = policy /\ tries' = tries /\ pc' \in {"exit", "idle"}
    BY <1>2 DEF after_disconnect, Exit, Stop
  <2> QED
    BY <1>1, <2>1 DEF Paid
<1>3. CASE r # "UserClosed" /\ up
  <2> DEFINE d == on_disconnect(policy, is_retryable(r))
  <2>1. is_retryable(r) \in BOOLEAN
    BY DEF is_retryable
  <2>2. Paid(d.policy, IF policy.since = "stable" THEN 0 ELSE tries, d.do # "GiveUp")
    BY <1>1, <2>1, RetryIsPaid
  <2>3. /\ policy' = d.policy /\ tries' = IF policy.since = "stable" THEN 0 ELSE tries
        /\ pc' = "backoff" => d.do # "GiveUp"
    BY <1>3 DEF after_disconnect, ForgiveTries, Stop
  <2> HIDE DEF d
  <2> QED
    BY <2>2, <2>3 DEF Paid
<1> QED
  BY <1>2, <1>3

\* A step that leaves the policy's account alone, or moves it, without entering the backoff.
LEMMA PaidStep ==
    ASSUME TypeOK, BudgetInv, "NetworkDown" \notin Kinds, [Next]_vars,
           Paid(policy', tries', pc' = "backoff")
    PROVE  BudgetInv'
<1>1. \A c \in Sendable \cup {CloseCommand} : c.kind # "NetworkDown"
  BY DEF Sendable, CloseCommand, Command
<1>2. \A c \in Unread' : c.kind # "NetworkDown"
  BY <1>1, UnreadStep DEF BudgetInv
<1> QED
  BY <1>2 DEF BudgetInv, Paid

\* The reconnect the backoff paid for.
LEMMA ReconnectIsPaid ==
    ASSUME TypeOK, BudgetInv, pc = "backoff", BackoffReconnect,
           policy' = policy \/ policy' = set_network_reachable(policy, TRUE)
    PROVE  Paid(policy', tries', pc' = "backoff")
<1>1. policy \in Policy /\ tries \in Nat
  BY DEF TypeOK
<1>2. policy'.network /\ policy'.attempts = policy.attempts
  BY <1>1 DEF set_network_reachable, Policy, BudgetInv
<1>3. tries < policy.attempts /\ policy.attempts <= max_attempts /\ policy.attempts \in Nat
  BY <1>1 DEF BudgetInv, Policy
<1>4. tries' = tries + 1 /\ pc' = "connect"
  BY <1>1, <1>3, BudgetAssumption DEF BackoffReconnect, MoreTries, StartConnection
<1> QED
  BY <1>1, <1>2, <1>3, <1>4 DEF Paid

\* Without NetworkDown in the channel, reading a command leaves the network reachable.
LEMMA NetworkStaysUp ==
    ASSUME TypeOK, BudgetInv, Receive(Command("NetworkDown", NoCert))
    PROVE  FALSE
<1>1. cmds \in Seq(SessionCommand) /\ cmds # <<>> /\ cmds[1] = Command("NetworkDown", NoCert)
  BY DEF TypeOK, Receive
<1>2. 1 \in 1..Len(cmds)
  BY <1>1
<1>3. cmds[1] \in Unread
  BY <1>2 DEF Unread
<1> QED
  BY <1>1, <1>3 DEF BudgetInv, Command

LEMMA BudgetStep ==
    ASSUME TypeOK, BudgetInv, "NetworkDown" \notin Kinds, [Next]_vars
    PROVE  BudgetInv'
<1> DEFINE P == Paid(policy', tries', pc' = "backoff")
<1>s. SUFFICES P
  BY PaidStep
<1>t. policy \in Policy /\ tries \in Nat
  BY DEF TypeOK
<1>k. UNCHANGED <<policy, tries>> /\ (pc' = "backoff" => pc = "backoff") => P
  BY DEF BudgetInv, Paid
<1>p. ASSUME policy'.network, policy'.attempts = policy.attempts, tries' = tries,
             pc' = "backoff" => pc = "backoff"
      PROVE  P
  BY <1>p DEF BudgetInv, Paid
<1>e. ASSUME NEW r, NEW up, after_disconnect(r, policy, up), pc # "backoff"
      PROVE  P
  BY <1>e, EndIsPaid
<1>u. ASSUME policy' = set_network_reachable(policy, TRUE), tries' = tries,
             pc' = "backoff" => pc = "backoff"
      PROVE  P
  BY <1>t, <1>u, <1>p DEF set_network_reachable, Policy
<1> HIDE DEF P
<1>z. CASE UNCHANGED vars
  BY <1>z, <1>k DEF vars
<1>1. CASE App \/ Forwarder
  BY <1>1, <1>k DEF App, Send, DropHandles, Forwarder, ForwardClose, ForwarderEnds
<1>2. CASE Connect
  <2>1. CASE CollectDone \/ TcpDone
    BY <2>1, <1>k DEF CollectDone, StartConnection, TcpDone
  <2>2. CASE ConnectOne
    BY <2>2, <1>k, <1>e DEF ConnectOne
  <2>3. CASE ConnectClosed \/ ConnectFails
    BY <2>3, <1>e DEF ConnectClosed, ConnectFails
  <2>4. CASE TlsDone
    BY <2>4, <1>k, <1>e DEF TlsDone, EnterAuth
  <2>5. CASE Activate
    <3>1. policy'.network /\ policy'.attempts = policy.attempts /\ tries' = tries /\ pc' = "activating"
      BY <2>5, <1>t DEF Activate, on_connected, Policy, BudgetInv
    <3> QED
      BY <3>1, <1>p
  <2> QED
    BY <1>2, <2>1, <2>2, <2>3, <2>4, <2>5 DEF Connect
<1>3. CASE Commands
  <2>1. CASE CollectCommand \/ BackoffRemember \/ IdleClose
    BY <2>1, <1>k DEF CollectCommand, BackoffRemember, IdleClose
  <2>2. CASE PromptCommand
    BY <2>2, <1>k, <1>e DEF PromptCommand, EnterAuth
  <2>3. CASE PromptClose
    BY <2>3, <1>e DEF PromptClose
  <2>4. CASE LiveClose \/ LiveVisible
    BY <2>4, <1>k DEF LiveClose, LiveVisible
  <2>5. CASE LiveCommand
    BY <2>5, <1>k, <1>u, NetworkStaysUp DEF LiveCommand
  <2>6. CASE BackoffClose
    BY <2>6, <1>k DEF BackoffClose, Exit
  <2>7. CASE BackoffCancel \/ IdleReconnect
    <3>1. policy' = reset(policy) \/ policy' = set_network_reachable(reset(policy), TRUE)
      BY <2>7 DEF BackoffCancel, IdleReconnect
    <3>2. policy'.network /\ policy'.attempts = 0
      BY <1>t, <3>1 DEF reset, set_network_reachable, Policy, BudgetInv
    <3>3. tries' = 0 /\ pc' # "backoff"
      BY <2>7 DEF BackoffCancel, IdleReconnect, Stop, StartConnection
    <3> QED
      BY <3>2, <3>3, BudgetAssumption DEF P, Paid
  <2>8. CASE BackoffNow
    <3>1. pc = "backoff" /\ policy' = policy /\ (BackoffReconnect \/ UNCHANGED <<pc, tries>>)
      BY <2>8 DEF BackoffNow
    <3> QED
      BY <3>1, <1>k, ReconnectIsPaid DEF P
  <2>9. CASE BackoffNetwork
    BY <2>9, ReconnectIsPaid, NetworkStaysUp DEF BackoffNetwork, P
  <2>10. CASE IdleCommand
    BY <2>10, <1>k, <1>u, NetworkStaysUp DEF IdleCommand
  <2> QED
    BY <1>3, <2>1, <2>2, <2>3, <2>4, <2>5, <2>6, <2>7, <2>8, <2>9, <2>10 DEF Commands
<1>4. CASE Server
  <2>1. CASE OpenGfx \/ FollowRedirect \/ LiveWrite \/ Written
    BY <2>1, <1>k DEF OpenGfx, FollowRedirect, LiveWrite, Written
  <2>2. CASE LegEnded \/ RedirectRefused \/ WriteFails \/ ShutDown
    BY <2>2, <1>e DEF LegEnded, RedirectRefused, WriteFails, ShutDown
  <2>3. CASE Activated
    BY <2>3, <1>k, <1>e DEF Activated
  <2> QED
    BY <1>4, <2>1, <2>2, <2>3 DEF Server
<1>5. CASE BackoffReady
  BY <1>5, ReconnectIsPaid DEF BackoffReady, P
<1>6. CASE Settle
  <2>1. policy'.network /\ policy'.attempts = policy.attempts
    BY <1>6, <1>t DEF Settle, Settled, Policy, BudgetInv
  <2> QED
    BY <1>6, <2>1, <1>p DEF Settle
<1>7. CASE DeadlinePasses
  BY <1>7, <1>k DEF DeadlinePasses
<1> QED
  BY <1>z, <1>1, <1>2, <1>3, <1>4, <1>5, <1>6, <1>7 DEF Next

LEMMA BudgetInit == Init => BudgetInv
<1> SUFFICES ASSUME Init PROVE BudgetInv
  OBVIOUS
<1>1. Unread = {}
  BY DEF Init, Unread
<1> QED
  BY <1>1, BudgetAssumption DEF Init, BudgetInv, NewPolicy

(* What was never connected, or ended for a reason that is not retryable,  *)
(* is not retried, and every attempt has a number (after_disconnect with   *)
(* ReconnectPolicy::on_disconnect).                                        *)
THEOREM RetriesAreAlwaysEarned == Spec => []RetriesAreEarned
<1>1. PhaseInv => RetriesAreEarned
  BY DEF PhaseInv, PhaseTable, ShownInBackoff, RetriesAreEarned
<1> QED
  BY <1>1, PhaseAlways, PTL

(* As long as the app reports no outage, no more reconnects are made since *)
(* the last reset than the budget has (ReconnectPolicy::on_disconnect and  *)
(* its max_attempts), whatever the user, the server and the clock do, and  *)
(* each of them is earned.  With outages the bound is not the code's: a    *)
(* reconnect caused by the network's return is not counted.                *)
THEOREM BudgetIsKept ==
    ASSUME "NetworkDown" \notin Kinds
    PROVE  Spec => []RetriesAreBounded
<1>1. Init => TypeOK /\ BudgetInv
  BY TypeInit, BudgetInit
<1>2. TypeOK /\ BudgetInv /\ [Next]_vars => TypeOK' /\ BudgetInv'
  BY TypeStep, BudgetStep
<1>3. TypeOK /\ BudgetInv => AttemptsWithinBudget
  BY BudgetAssumption DEF TypeOK, BudgetInv, AttemptsWithinBudget, Policy
<1>4. Spec => [](TypeOK /\ BudgetInv)
  BY <1>1, <1>2, PTL DEF Spec
<1>5. AttemptsWithinBudget /\ RetriesAreEarned => RetriesAreBounded
  BY DEF RetriesAreBounded
<1> QED
  BY <1>3, <1>4, <1>5, RetriesAreAlwaysEarned, PTL

-----------------------------------------------------------------------------
(* Visibility.  A pinned session is never prompted, so no command is lost: *)
(* the last visibility in the channel is what the app last said, and once  *)
(* there is none, the actor's View is.                                     *)

\* The certificate is decided without the user.
NeverPrompted == pc # "prompt" /\ expect.kind # "TrustOnFirstUse"

\* After the command c, visibility goes from v to w.
Says(c, v, w) ==
    \/ c.kind = "Show" /\ w = TRUE
    \/ c.kind = "Hide" /\ w = FALSE
    \/ c.kind \notin {"Show", "Hide"} /\ w = v

\* The command at i is the last of the channel that is about visibility.
LastWord(i) ==
    /\ cmds[i].kind \in {"Show", "Hide"}
    /\ \A j \in 1..Len(cmds) : j > i => cmds[j].kind \notin {"Show", "Hide"}

ViewInv ==
    /\ \A i \in 1..Len(cmds) : LastWord(i) => Says(cmds[i], lastVisible, lastVisible)
    /\ ~VisibilityPending => view = lastVisible

LEMMA PinnedExpectation == ASSUME NEW pin, pin # NoCert PROVE Expectation(pin).kind = "Pinned"
BY DEF Expectation

LEMMA PinnedStep ==
    ASSUME ProfilePin # NoCert, NeverPrompted, [Next]_vars
    PROVE  NeverPrompted'
<1>k. UNCHANGED expect /\ (pc' = "prompt" => pc = "prompt") => NeverPrompted'
  BY DEF NeverPrompted
<1>s. StartConnection => NeverPrompted'
  BY PinnedExpectation DEF StartConnection, NeverPrompted
<1>e. ASSUME NEW r, NEW p, NEW up, after_disconnect(r, p, up) PROVE pc' # "prompt"
  BY <1>e, EndsOutside
<1> USE DEF trust
<1>z. CASE UNCHANGED vars
  BY <1>z, <1>k DEF vars
<1>1. CASE App \/ Forwarder
  BY <1>1, <1>k DEF App, Send, DropHandles, Forwarder, ForwardClose, ForwarderEnds
<1>2. CASE Connect
  <2>1. CASE CollectDone
    BY <2>1, <1>s DEF CollectDone
  <2>2. CASE ConnectOne \/ ConnectClosed \/ ConnectFails
    BY <2>2, <1>k, <1>e DEF ConnectOne, ConnectClosed, ConnectFails
  <2>3. CASE TcpDone \/ Activate
    BY <2>3, <1>k DEF TcpDone, Activate
  <2>4. CASE TlsDone
    BY <2>4, <1>k, <1>e DEF TlsDone, EnterAuth, check_certificate, NeverPrompted
  <2> QED
    BY <1>2, <2>1, <2>2, <2>3, <2>4 DEF Connect
<1>3. CASE Commands
  <2>1. CASE CollectCommand \/ PromptCommand \/ PromptClose
    BY <2>1, <1>k DEF CollectCommand, PromptCommand, PromptClose, NeverPrompted
  <2>2. CASE LiveClose \/ LiveVisible \/ LiveCommand
    BY <2>2, <1>k DEF LiveClose, LiveVisible, LiveCommand
  <2>3. CASE BackoffClose \/ BackoffCancel \/ BackoffRemember
    BY <2>3, <1>k DEF BackoffClose, BackoffCancel, BackoffRemember, Exit, Stop
  <2>4. CASE BackoffNow \/ BackoffNetwork
    BY <2>4, <1>k, <1>s DEF BackoffNow, BackoffNetwork, BackoffReconnect
  <2>5. CASE IdleClose \/ IdleReconnect \/ IdleCommand
    BY <2>5, <1>k, <1>s DEF IdleClose, IdleReconnect, IdleCommand
  <2> QED
    BY <1>3, <2>1, <2>2, <2>3, <2>4, <2>5 DEF Commands
<1>4. CASE Server
  <2>1. CASE OpenGfx \/ LegEnded \/ RedirectRefused
    BY <2>1, <1>k, <1>e DEF OpenGfx, LegEnded, RedirectRefused
  <2>2. CASE FollowRedirect
    BY <2>2, PinnedExpectation DEF FollowRedirect, LegPin, NeverPrompted
  <2>3. CASE Activated \/ LiveWrite \/ Written \/ WriteFails \/ ShutDown
    BY <2>3, <1>k, <1>e DEF Activated, LiveWrite, Written, WriteFails, ShutDown
  <2> QED
    BY <1>4, <2>1, <2>2, <2>3 DEF Server
<1>5. CASE BackoffReady \/ Settle \/ DeadlinePasses
  BY <1>5, <1>k, <1>s DEF BackoffReady, BackoffReconnect, Settle, DeadlinePasses
<1> QED
  BY <1>z, <1>1, <1>2, <1>3, <1>4, <1>5 DEF Next

\* Every reader of the channel but the prompt remembers what is said of visibility.
LEMMA ReadIsRemembered ==
    ASSUME TypeOK, NeverPrompted, [Next]_vars
    PROVE  \/ UNCHANGED <<cmds, view, lastVisible>>
           \/ /\ view' = view
              /\ \E c \in SessionCommand : /\ cmds' = Append(cmds, c)
                                           /\ Says(c, lastVisible, lastVisible')
           \/ /\ lastVisible' = lastVisible
              /\ cmds # <<>> /\ cmds' = Tail(cmds)
              /\ Says(Head(cmds), view, view')
<1> DEFINE Resting == UNCHANGED <<cmds, view, lastVisible>>
           Read == /\ lastVisible' = lastVisible
                   /\ cmds # <<>> /\ cmds' = Tail(cmds)
                   /\ Says(Head(cmds), view, view')
           Sent == /\ view' = view
                   /\ \E c \in SessionCommand : /\ cmds' = Append(cmds, c)
                                                /\ Says(c, lastVisible, lastVisible')
<1>r. ASSUME NEW c, Receive(c), c.kind \notin {"Show", "Hide"}, view' = view,
             lastVisible' = lastVisible
      PROVE  Read
  BY <1>r DEF Receive, Says
<1>c. ASSUME ReceiveClose, view' = view, lastVisible' = lastVisible
      PROVE  Resting \/ Read
  BY <1>c, <1>r DEF ReceiveClose, Command, mailbox
<1>m. ASSUME remember, lastVisible' = lastVisible PROVE Read
  <2>1. CASE Receive(Command("Show", NoCert)) /\ view' = TRUE
    <3>1. Head(cmds).kind = "Show" /\ cmds # <<>> /\ cmds' = Tail(cmds)
      BY <2>1 DEF Receive, Command
    <3>2. Says(Head(cmds), view, view')
      BY <2>1, <3>1, Zenon DEF Says
    <3> QED
      BY <1>m, <3>1, <3>2
  <2>2. CASE Receive(Command("Hide", NoCert)) /\ view' = FALSE
    BY <2>2, <1>m DEF Receive, Command, Says
  <2>3. CASE ReceiveKind({"Accept", "Reject"}) /\ view' = view
    BY <2>3, <1>m, <1>r DEF ReceiveKind
  <2> QED
    BY <1>m, <2>1, <2>2, <2>3 DEF remember
<1> USE DEF mailbox, visibility, app
<1> HIDE DEF Read, Sent
<1>z. CASE UNCHANGED vars
  BY <1>z DEF vars
<1>1. CASE App
  <2>1. ASSUME NEW c \in Sendable, Send(c) PROVE Resting \/ Sent
    <3>1. c \in SessionCommand /\ lastVisible \in BOOLEAN /\ view' = view
      BY <2>1, ActorAssumption DEF Sendable, Command, SessionCommand, AllKinds, TypeOK, Send
    <3>2. Says(c, lastVisible, lastVisible')
      BY <2>1, <3>1 DEF Send, Says
    <3>3. CASE c.kind = "Close"
      BY <2>1, <3>1, <3>2, <3>3 DEF Send, Says
    <3>4. CASE c.kind # "Close"
      BY <2>1, <3>1, <3>2, <3>4 DEF Send, Queued, Sent
    <3> QED
      BY <3>3, <3>4
  <2>2. CASE DropHandles
    BY <2>2 DEF DropHandles
  <2> QED
    BY <1>1, <2>1, <2>2 DEF App, Sent
<1>2. CASE Forwarder
  <2>1. CASE ForwardClose
    <3>1. CloseCommand \in SessionCommand
      BY DEF CloseCommand, Command, SessionCommand, AllKinds
    <3>2. /\ cmds' = Append(cmds, CloseCommand) /\ view' = view
          /\ Says(CloseCommand, lastVisible, lastVisible')
      BY <2>1 DEF ForwardClose, CloseCommand, Command, Says
    <3> QED
      BY <3>1, <3>2
  <2>2. CASE ForwarderEnds
    BY <2>2 DEF ForwarderEnds
  <2> QED
    BY <1>2, <2>1, <2>2 DEF Forwarder
<1>3. CASE Connect
  <2>1. CASE CollectDone
    BY <2>1, <1>c DEF CollectDone, Read
  <2>2. CASE ~ CollectDone
    BY <1>3, <2>2 DEF Connect, ConnectOne, ConnectClosed, ConnectFails, TcpDone, TlsDone, Activate
  <2> QED
    BY <2>1, <2>2
<1>4. CASE Commands
  <2>1. CASE CollectCommand
    BY <2>1, <1>m, <1>r DEF CollectCommand, ReceiveKind, Read
  <2>2. CASE PromptCommand \/ PromptClose
    BY <2>2 DEF PromptCommand, PromptClose, NeverPrompted
  <2>3. CASE LiveClose \/ BackoffClose \/ IdleClose
    BY <2>3, <1>c DEF LiveClose, BackoffClose, IdleClose, Read
  <2>4. CASE LiveVisible
    <3>1. PICK v \in BOOLEAN : /\ Receive(Command(IF v THEN "Show" ELSE "Hide", NoCert))
                               /\ view' = v
      BY <2>4 DEF LiveVisible
    <3>2. lastVisible' = lastVisible
      BY <2>4 DEF LiveVisible
    <3>3. CASE v = TRUE
      <4>1. Head(cmds).kind = "Show" /\ cmds # <<>> /\ cmds' = Tail(cmds)
        BY <3>1, <3>3 DEF Receive, Command
      <4>2. Says(Head(cmds), view, view')
        BY <3>1, <3>3, <4>1, Zenon DEF Says
      <4> QED
        BY <3>2, <4>1, <4>2
    <3>4. CASE v = FALSE
      BY <3>1, <3>2, <3>4 DEF Receive, Command, Says
    <3> QED
      BY <3>3, <3>4
  <2>5. CASE LiveCommand
    BY <2>5, <1>r DEF LiveCommand, ReceiveKind, Command, Read
  <2>6. CASE BackoffCancel \/ BackoffNow \/ BackoffNetwork
    BY <2>6, <1>r DEF BackoffCancel, BackoffNow, BackoffNetwork, BackoffReconnect, Command, Read
  <2>7. CASE BackoffRemember
    BY <2>7, <1>m DEF BackoffRemember, Read
  <2>8. CASE IdleReconnect
    BY <2>8, <1>r DEF IdleReconnect, Command, Read
  <2>9. CASE IdleCommand
    BY <2>9, <1>r, <1>m DEF IdleCommand, Command, Read
  <2> QED
    BY <1>4, <2>1, <2>2, <2>3, <2>4, <2>5, <2>6, <2>7, <2>8, <2>9 DEF Commands
<1>5. CASE Server
  BY <1>5 DEF Server, OpenGfx, LegEnded, RedirectRefused, FollowRedirect, Activated, LiveWrite,
              Written, WriteFails, ShutDown
<1>6. CASE BackoffReady \/ Settle \/ DeadlinePasses
  BY <1>6 DEF BackoffReady, BackoffReconnect, Settle, DeadlinePasses
<1> QED
  BY <1>z, <1>1, <1>2, <1>3, <1>4, <1>5, <1>6 DEF Next

LEMMA ViewStep ==
    ASSUME TypeOK, NeverPrompted, ViewInv, [Next]_vars
    PROVE  ViewInv'
<1>t. cmds \in Seq(SessionCommand) /\ Len(cmds) \in Nat /\ view \in BOOLEAN /\ lastVisible \in BOOLEAN
  BY DEF TypeOK
<1>1. CASE UNCHANGED <<cmds, view, lastVisible>>
  BY <1>1 DEF ViewInv, LastWord, Says, VisibilityPending
<1>2. ASSUME view' = view,
             NEW c \in SessionCommand, cmds' = Append(cmds, c), Says(c, lastVisible, lastVisible')
      PROVE  ViewInv'
  <2>1. /\ Len(cmds') = Len(cmds) + 1 /\ cmds'[Len(cmds) + 1] = c
        /\ \A i \in 1..Len(cmds) : cmds'[i] = cmds[i] /\ i \in 1..Len(cmds')
        /\ \A i \in 1..Len(cmds') : i \in 1..Len(cmds) \/ i = Len(cmds) + 1
        /\ Len(cmds) + 1 \in 1..Len(cmds')
    BY <1>2, <1>t
  <2>2. CASE c.kind \in {"Show", "Hide"}
    <3>1. VisibilityPending'
      BY <2>1, <2>2 DEF VisibilityPending
    <3>2. \A i \in 1..Len(cmds) : ~ LastWord(i)'
      BY <1>t, <2>1, <2>2 DEF LastWord
    <3>3. Says(c, lastVisible', lastVisible')
      BY <1>2, <2>2 DEF Says
    <3> QED
      BY <2>1, <3>1, <3>2, <3>3 DEF ViewInv
  <2>3. CASE c.kind \notin {"Show", "Hide"}
    <3>1. lastVisible' = lastVisible
      BY <1>2, <2>3 DEF Says
    <3>2. VisibilityPending => VisibilityPending'
      BY <2>1 DEF VisibilityPending
    <3>3. \A i \in 1..Len(cmds) : LastWord(i)' => LastWord(i)
      BY <2>1 DEF LastWord
    <3>4. \A i \in 1..Len(cmds') : LastWord(i)' => i # Len(cmds) + 1
      BY <2>1, <2>3 DEF LastWord
    <3>5. ASSUME NEW i \in 1..Len(cmds'), LastWord(i)'
          PROVE  Says(cmds'[i], lastVisible', lastVisible')
      <4>1. i \in 1..Len(cmds) /\ cmds'[i] = cmds[i] /\ LastWord(i)
        BY <2>1, <3>3, <3>4, <3>5
      <4>2. Says(cmds[i], lastVisible, lastVisible)
        BY <4>1 DEF ViewInv
      <4> QED
        BY <3>1, <4>1, <4>2
    <3> QED
      BY <1>2, <3>1, <3>2, <3>5 DEF ViewInv
  <2> QED
    BY <2>2, <2>3
<1>3. CASE /\ lastVisible' = lastVisible
           /\ cmds # <<>> /\ cmds' = Tail(cmds)
           /\ Says(Head(cmds), view, view')
  <2>1. /\ Len(cmds') = Len(cmds) - 1 /\ 1 \in 1..Len(cmds) /\ Head(cmds) = cmds[1]
        /\ \A i \in 1..Len(cmds') : cmds'[i] = cmds[i + 1] /\ i + 1 \in 1..Len(cmds)
        /\ \A i \in 1..Len(cmds) : i = 1 \/ (i - 1 \in 1..Len(cmds') /\ cmds[i] = cmds'[i - 1])
    BY <1>3, <1>t
  <2>2. ASSUME NEW i \in 1..Len(cmds'), LastWord(i)' PROVE LastWord(i + 1)
    <3>1. ASSUME NEW j \in 1..Len(cmds), j > i + 1 PROVE cmds[j].kind \notin {"Show", "Hide"}
      <4>1. j - 1 \in 1..Len(cmds') /\ j - 1 > i /\ cmds[j] = cmds'[j - 1]
        BY <2>1, <3>1, <1>t
      <4> QED
        BY <2>2, <4>1 DEF LastWord
    <3> QED
      BY <2>1, <2>2, <3>1 DEF LastWord
  <2>3. ASSUME NEW i \in 1..Len(cmds'), LastWord(i)'
        PROVE  Says(cmds'[i], lastVisible', lastVisible')
    <3>1. Says(cmds[i + 1], lastVisible, lastVisible)
      BY <2>1, <2>2, <2>3 DEF ViewInv
    <3> QED
      BY <1>3, <2>1, <3>1
  <2>4. ASSUME ~ VisibilityPending' PROVE view' = lastVisible'
    <3>1. \A i \in 1..Len(cmds) : i > 1 => cmds[i].kind \notin {"Show", "Hide"}
      BY <2>1, <2>4 DEF VisibilityPending
    <3>2. CASE cmds[1].kind \in {"Show", "Hide"}
      <4>1. LastWord(1)
        BY <3>1, <3>2 DEF LastWord
      <4>2. Says(cmds[1], lastVisible, lastVisible)
        BY <4>1, <2>1 DEF ViewInv
      <4> QED
        BY <1>3, <1>t, <2>1, <3>2, <4>2 DEF Says
    <3>3. CASE cmds[1].kind \notin {"Show", "Hide"}
      <4>1. ~ VisibilityPending
        BY <2>1, <3>1, <3>3 DEF VisibilityPending
      <4>2. view = lastVisible
        BY <4>1 DEF ViewInv
      <4> QED
        BY <1>3, <2>1, <3>3, <4>2 DEF Says
    <3> QED
      BY <3>2, <3>3
  <2> QED
    BY <2>3, <2>4 DEF ViewInv
<1> QED
  BY <1>1, <1>2, <1>3, ReadIsRemembered

\* The visibility a live leg is given is the View's, once what is being written is written.
SuppressInv ==
    /\ pc \in {"live", "writing"} /\ ~view => ~sinkVisible
    /\ pc = "hiding" => ~view

LEMMA SuppressStep ==
    ASSUME TypeOK, SuppressInv, [Next]_vars
    PROVE  SuppressInv'
<1>k. UNCHANGED <<view, sinkVisible, pc>> => SuppressInv'
  BY DEF SuppressInv
<1>n. pc' \notin {"live", "writing", "hiding"} => SuppressInv'
  BY DEF SuppressInv
<1>e. ASSUME NEW r, NEW p, NEW up, after_disconnect(r, p, up) PROVE SuppressInv'
  BY <1>e, <1>n, EndsOutside
<1> USE DEF visibility
<1>z. CASE UNCHANGED vars
  BY <1>z, <1>k DEF vars
<1>1. CASE App \/ Forwarder
  BY <1>1, <1>k DEF App, Send, DropHandles, Forwarder, ForwardClose, ForwarderEnds
<1>2. CASE Connect
  <2>1. CASE CollectDone \/ TcpDone \/ Activate
    BY <2>1, <1>n DEF CollectDone, StartConnection, TcpDone, Activate
  <2>2. CASE ConnectOne \/ ConnectClosed \/ ConnectFails
    BY <2>2, <1>n, <1>e DEF ConnectOne, ConnectClosed, ConnectFails
  <2>3. CASE TlsDone
    BY <2>3, <1>n, <1>e DEF TlsDone, EnterAuth
  <2> QED
    BY <1>2, <2>1, <2>2, <2>3 DEF Connect
<1>3. CASE Commands
  <2>1. CASE CollectCommand \/ BackoffRemember \/ IdleCommand \/ IdleClose \/ IdleReconnect
    BY <2>1, <1>n DEF CollectCommand, BackoffRemember, IdleCommand, IdleClose, IdleReconnect,
                      StartConnection
  <2>2. CASE PromptCommand
    BY <2>2, <1>n, <1>e DEF PromptCommand, EnterAuth
  <2>3. CASE PromptClose \/ LiveClose
    BY <2>3, <1>n, <1>e DEF PromptClose, LiveClose
  <2>4. CASE LiveVisible
    <3>1. PICK v \in BOOLEAN :
             /\ view' = v
             /\ v = view => UNCHANGED sinkVisible
             /\ pc' = IF v = view THEN "live" ELSE IF v THEN "writing" ELSE "hiding"
      BY <2>4 DEF LiveVisible, TypeOK
    <3>2. pc = "live"
      BY <2>4 DEF LiveVisible
    <3> QED
      BY <3>1, <3>2 DEF SuppressInv
  <2>5. CASE LiveCommand
    BY <2>5, <1>k DEF LiveCommand
  <2>6. CASE BackoffClose \/ BackoffCancel \/ BackoffNow \/ BackoffNetwork
    BY <2>6, <1>n DEF BackoffClose, BackoffCancel, BackoffNow, BackoffNetwork, Exit, Stop,
                      BackoffReconnect, StartConnection
  <2> QED
    BY <1>3, <2>1, <2>2, <2>3, <2>4, <2>5, <2>6 DEF Commands
<1>4. CASE Server
  <2>1. CASE OpenGfx
    BY <2>1, <1>k DEF OpenGfx
  <2>2. CASE LegEnded \/ RedirectRefused \/ FollowRedirect \/ WriteFails \/ ShutDown
    BY <2>2, <1>n, <1>e DEF LegEnded, RedirectRefused, FollowRedirect, WriteFails, ShutDown
  <2>3. CASE Activated
    <3>1. CASE ApplyView /\ view' = view /\ pc' = "live"
      BY <3>1 DEF ApplyView, GraphicsVisible, SuppressInv
    <3> QED
      BY <2>3, <3>1, <1>e DEF Activated
  <2>4. CASE LiveWrite
    BY <2>4 DEF LiveWrite, SuppressInv
  <2>5. CASE Written
    BY <2>5 DEF Written, GraphicsVisible, SuppressInv
  <2> QED
    BY <1>4, <2>1, <2>2, <2>3, <2>4, <2>5 DEF Server
<1>5. CASE BackoffReady \/ Settle \/ DeadlinePasses
  BY <1>5, <1>k, <1>n DEF BackoffReady, BackoffReconnect, StartConnection, Settle, DeadlinePasses
<1> QED
  BY <1>z, <1>1, <1>2, <1>3, <1>4, <1>5 DEF Next

(* A tab that is hidden while its leg is live is not composed, with any    *)
(* trust decision (Actor::on_activated, Actor::on_command).                *)
THEOREM HiddenTabsAreSuppressed == Spec => []HiddenIsSuppressed
<1>1. Init => SuppressInv
  BY DEF Init, SuppressInv
<1>2. TypeOK /\ SuppressInv /\ [Next]_vars => SuppressInv'
  BY SuppressStep
<1>3. SuppressInv => HiddenIsSuppressed
  BY DEF SuppressInv, HiddenIsSuppressed
<1> QED
  BY <1>1, <1>2, <1>3, TypeCorrect, PTL DEF Spec

(* A session whose profile has a pin never loses what the app said of its  *)
(* visibility (Actor::remember and its callers), however long it was away, *)
(* and its hidden tab is suppressed again by the next leg.  Without a pin  *)
(* this is not the code's promise: decide_certificate drops what it reads. *)
THEOREM VisibilityIsKept ==
    ASSUME ProfilePin # NoCert
    PROVE  Spec => []VisibilityFollowsApp
<1>1. Init => TypeOK /\ NeverPrompted /\ ViewInv
  <2> SUFFICES ASSUME Init PROVE NeverPrompted /\ ViewInv
    BY TypeInit
  <2>1. Len(cmds) = 0 /\ view = lastVisible
    BY DEF Init
  <2> QED
    BY <2>1, PinnedExpectation DEF Init, NeverPrompted, ViewInv
<1>2. TypeOK /\ NeverPrompted /\ ViewInv /\ [Next]_vars => (TypeOK /\ NeverPrompted /\ ViewInv)'
  BY TypeStep, PinnedStep, ViewStep
<1>3. HiddenIsSuppressed /\ ViewInv => VisibilityFollowsApp
  BY DEF ViewInv, VisibilityFollowsApp, ViewFollowsApp
<1> QED
  BY <1>1, <1>2, <1>3, HiddenTabsAreSuppressed, PTL DEF Spec

=============================================================================
