-------------------------------- MODULE MCApp --------------------------------
(***************************************************************************)
(* What the app does besides its sessions: it feeds them sleep, wake and   *)
(* network changes (ReconnectTriggers) and clipboard changes               *)
(* (ClipboardPump), it keeps profiles, passwords and window frames         *)
(* (ProfileStore), and it keeps menus, gallery and title bars up to date   *)
(* (Shell).  They share no state, so one of them moves in a behaviour and  *)
(* the others rest.                                                        *)
(***************************************************************************)
EXTENDS ReconnectTriggers, ClipboardPump, ProfileStore, Shell, TLC

CONSTANTS p1, p2, w1, w2   \* model values: profile ids and windows

VARIABLE part   \* the component that moves

MCPumpPrefs == (w1 :> "Text") @@ (w2 :> "TextAndImages")

\* The passwords of a save: nothing new, both new, the login's to be forgotten.
MCUpdates == {[rdp |-> Nothing, linux |-> "Keep"], [rdp |-> "pw", linux |-> "pw"],
              [rdp |-> Nothing, linux |-> "Forget"]}

-----------------------------------------------------------------------------
\* One state of each component to rest in.
PumpRest == PumpInit /\ pasteboard.kinds = {}
StoreRest == StoreInit /\ file # Newer
ShellRest == ShellInit /\ Listed(slots) = {} /\ ~throttle.visible

\* The first window is open, or both: live with the gallery beside them, or failed.
ShellBegins ==
  /\ ShellInit
  /\ 1 \in Listed(slots)
  /\ keyed = 1
  /\ throttle.visible
  /\ slots[1].screen \in {"Live", "Error"} /\ slots[2] \in {Unset, slots[1]}

MCInit ==
  \/ part = "triggers" /\ TriggersInit /\ PumpRest /\ StoreRest /\ ShellRest
  \/ part = "pump" /\ TriggersInit /\ PumpInit /\ StoreRest /\ ShellRest
  \/ part = "store" /\ TriggersInit /\ PumpRest /\ StoreInit /\ ShellRest
  \/ part = "shell" /\ TriggersInit /\ PumpRest /\ StoreRest /\ ShellBegins

MCNext ==
  /\ UNCHANGED part
  /\ \/ part = "triggers" /\ TriggersNext /\ UNCHANGED <<pumpVars, storeVars, shellVars>>
     \/ part = "pump" /\ PumpNext /\ UNCHANGED <<triggerVars, storeVars, shellVars>>
     \/ part = "store" /\ StoreNext /\ UNCHANGED <<triggerVars, pumpVars, shellVars>>
     \/ part = "shell" /\ ShellNext /\ UNCHANGED <<triggerVars, pumpVars, storeVars>>

MCSpec ==
  /\ MCInit
  /\ [][MCNext]_<<part, triggerVars, pumpVars, storeVars, shellVars>>
  /\ part = "triggers" => TriggersFairness
=============================================================================
