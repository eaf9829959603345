----------------------------- MODULE MCSession -----------------------------
(* Session with two reconnections, for TLC. *)
EXTENDS Session
=============================================================================
