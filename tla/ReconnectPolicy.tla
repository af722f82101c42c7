-------------------------- MODULE ReconnectPolicy ---------------------------
(***************************************************************************)
(* The reconnect policy (crates/drift-core/src/reconnect.rs), as operators *)
(* on a policy value                                                       *)
(*   attempts  attempts made since the last reset                          *)
(*   since     connected_since, by age: "none", "recent" (younger than     *)
(*             stable_after) or "stable" (at least that old)               *)
(*   network   network_reachable                                           *)
(* The jittered delay of a retry is a duration between 0 and the ceiling:  *)
(* the users of this module let the deadline pass at any later time.       *)
(***************************************************************************)
EXTENDS Naturals

CONSTANT max_attempts   \* the attempt budget (config.max_attempts = Some(n))

ASSUME BudgetAssumption == max_attempts \in Nat

-----------------------------------------------------------------------------
Policy == [attempts : Nat, since : {"none", "recent", "stable"}, network : BOOLEAN]

NewPolicy == [attempts |-> 0, since |-> "none", network |-> TRUE]

on_connected(p) == [p EXCEPT !.since = "recent"]

\* Time passes stable_after since the last activation.
Settled(p) == [p EXCEPT !.since = "stable"]

set_network_reachable(p, up) == [p EXCEPT !.network = up]

reset(p) == [p EXCEPT !.attempts = 0, !.since = "none"]

(* What a decision is: what to do, the attempt number shown, the policy    *)
(* afterwards.                                                             *)
Decision(do, attempt, p) == [do |-> do, attempt |-> attempt, policy |-> p]

\* Mutant: the budget check is off by one.
BugNextDecision(p) ==
    IF ~p.network THEN Decision("WaitForNetwork", p.attempts + 1, p)
    ELSE IF p.attempts > max_attempts THEN Decision("GiveUp", 0, p)
    ELSE Decision("Retry", p.attempts + 1, [p EXCEPT !.attempts = @ + 1])

next_decision(p) ==
    IF ~p.network THEN Decision("WaitForNetwork", p.attempts + 1, p)
    ELSE IF p.attempts >= max_attempts THEN Decision("GiveUp", 0, p)
    ELSE Decision("Retry", p.attempts + 1, [p EXCEPT !.attempts = @ + 1])

\* connected_since is taken; a connection that lasted forgives the history.
Taken(p) == [p EXCEPT !.since = "none",
                      !.attempts = IF p.since = "stable" THEN 0 ELSE p.attempts]

on_disconnect(p, retryable) ==
    IF retryable THEN next_decision(Taken(p)) ELSE Decision("GiveUp", 0, Taken(p))
=============================================================================
