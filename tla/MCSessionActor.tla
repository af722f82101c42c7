--------------------------- MODULE MCSessionActor ---------------------------
(* Instances of SessionActor for TLC; the constants come from the .cfg.    *)
EXTENDS SessionActor
=============================================================================
