---------------------------- MODULE SessionState ----------------------------
(***************************************************************************)
(* The life cycle of one session as the app sees it: the enum SessionState *)
(* and its gate `allows` (crates/drift-core/src/state.rs), which the       *)
(* session actor's set_state asks before every State event.                *)
(*                                                                         *)
(* A state is one flat record; the fields a variant does not carry hold    *)
(* their neutral value (leg 0, stage "none", attempt 0, reason "none").    *)
(* The desktop size and scale of Connected and the displayed delay of      *)
(* Reconnecting are left out: no rule of the gate looks at them.           *)
(***************************************************************************)
EXTENDS Naturals

CONSTANT MAX_REDIRECTS   \* Server Redirection PDUs followed per connection

ASSUME RedirectsAssumption == MAX_REDIRECTS \in Nat

VARIABLE state

-----------------------------------------------------------------------------
MAX_LEG == 1 + MAX_REDIRECTS

ConnectStage == {"Tcp", "Tls", "Nla", "Rdstls", "Activation"}

Retryable == {"Network", "TlsEof", "ServerShutdown", "Timeout"}

DisconnectReason ==
    Retryable \cup {"AuthFailed", "RdstlsFailed", "CertMismatch", "ProtocolError",
                    "RedirectLoop", "UserClosed", "LoggedOffRemotely", "LocalNetworkDenied"}

is_retryable(reason) == reason \in Retryable

Tags == {"Idle", "Connecting", "AwaitingGreeterLogin", "Connected", "Reconnecting",
         "Disconnected", "Failed"}

Variant(tag, leg, stage, attempt, reason) ==
    [tag |-> tag, leg |-> leg, stage |-> stage, attempt |-> attempt, reason |-> reason]

Idle == Variant("Idle", 0, "none", 0, "none")
Connecting(leg, stage) == Variant("Connecting", leg, stage, 0, "none")
AwaitingGreeterLogin == Variant("AwaitingGreeterLogin", 0, "none", 0, "none")
Connected == Variant("Connected", 0, "none", 0, "none")
Reconnecting(attempt, reason) == Variant("Reconnecting", 0, "none", attempt, reason)
Disconnected(reason) == Variant("Disconnected", 0, "none", 0, reason)
Failed(reason) == Variant("Failed", 0, "none", 0, reason)

States == [tag : Tags, leg : Nat, stage : ConnectStage \cup {"none"}, attempt : Nat,
           reason : DisconnectReason \cup {"none"}]

Active == {"Connecting", "AwaitingGreeterLogin", "Connected"}
Stopped == {"Disconnected", "Failed"}

-----------------------------------------------------------------------------
(* The gate.  ValidTarget is its first match (what a target must be on its *)
(* own), Arrow the second one (which pairs are legal).                     *)

ValidTarget(next) ==
    /\ next.tag = "Connecting" => next.leg \in 1..MAX_LEG
    /\ next.tag = "Reconnecting" => next.attempt # 0 /\ is_retryable(next.reason)

Arrow(from, next) ==
    \/ /\ from.tag \in {"Idle"} \cup Stopped
       /\ next.tag = "Connecting" /\ next.leg = 1
    \/ from.tag \in Stopped /\ next.tag = "Idle"
    \/ from.tag = "Idle" /\ next.tag = "Disconnected" /\ next.reason = "UserClosed"
    \/ /\ from.tag = "Connecting" /\ next.tag = "Connecting"
       /\ next.leg \in {from.leg, from.leg + 1}
    \/ from.tag = "Connecting" /\ next.tag = "AwaitingGreeterLogin" /\ from.leg >= 2
    \/ from.tag = "Connecting" /\ next.tag = "Connected"
    \/ /\ from.tag \in {"AwaitingGreeterLogin", "Connected"}
       /\ next.tag = "Connecting" /\ next.leg >= 2
    \/ from.tag = "Connected" /\ next.tag = "Connected"
    \/ from.tag \in Active /\ next.tag \in {"Reconnecting"} \cup Stopped
    \/ from.tag = "Reconnecting" /\ next.tag = "Reconnecting" /\ next.attempt >= from.attempt
    \/ from.tag = "Reconnecting" /\ next.tag = "Connecting" /\ next.leg = 1
    \/ from.tag = "Reconnecting" /\ next.tag \in Stopped

allows(from, next) == ValidTarget(next) /\ Arrow(from, next)

-----------------------------------------------------------------------------
StateInit == state = Idle
=============================================================================
