--------------------------- MODULE MCSubmitWindow ---------------------------
(* SubmitWindow with a window of two works, for TLC. *)
EXTENDS SubmitWindow
=============================================================================
