-------------------------- MODULE MCSessionAuthLive --------------------------
(* One session and two requests at a time, without symmetry for the liveness. *)
EXTENDS SessionAuth
=============================================================================
