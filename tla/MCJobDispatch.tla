--------------------------- MODULE MCJobDispatch ---------------------------
(* JobDispatch with two devices and three jobs, for TLC. *)
EXTENDS JobDispatch
=============================================================================
