--------------------------- MODULE AtomicProfiles ---------------------------
(***************************************************************************)
(* What saving profiles promises: `saved` is what a new launch would find, *)
(* `held` what the running app works with.  A profile is created, changed  *)
(* or removed in one step, in both at once; a document this version cannot *)
(* read stays as it is and the app does not open.                          *)
(***************************************************************************)
CONSTANTS Ids, Profiles, NoProfile, Unreadable, Closed

VARIABLES saved, held

Documents == [Ids -> Profiles \cup {NoProfile}]

Opened(document) == IF document \in Unreadable THEN Closed ELSE document

AtomicInit == saved \in Documents \cup Unreadable /\ held = Opened(saved)

\* One profile of an open store changes, on disk and in memory alike.
Commit ==
  /\ held \in Documents
  /\ \E id \in Ids, p \in Profiles \cup {NoProfile} : saved' = [held EXCEPT ![id] = p]
  /\ held' = saved'

\* The app ends, at any moment, and is launched again.
Reopen == held' = Opened(saved) /\ UNCHANGED saved

AtomicNext == Commit \/ Reopen

AtomicSpec == AtomicInit /\ [][AtomicNext]_<<saved, held>>
=============================================================================
