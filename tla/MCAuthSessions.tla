--------------------------- MODULE MCAuthSessions ---------------------------
(* Instances of AuthSessions for TLC. *)
EXTENDS AuthProperties
=============================================================================
