---------------------------- MODULE StratumWire ----------------------------
(***************************************************************************)
(* What the goroutines that write without StratumMutex, or that only need  *)
(* to know whether it is to be had, may rely on: there is a first          *)
(* connection; when the reconnect goroutine drops it, StratumMutex has     *)
(* gone for good; there may be a second connection, and no third.          *)
(* ShareQueue, SubmitWindow and CpuMiner are built on this, Session shows  *)
(* it of stratum.go and smminer.go.                                        *)
(***************************************************************************)

VARIABLES
  wire,  \* StratumConnection: the first, nil, or the second
  kept   \* StratumMutex is the reconnect goroutine's

vars == << wire, kept >>

Init == wire = "first" /\ kept = FALSE

Keep ==
  /\ wire = "first"
  /\ kept' = TRUE
  /\ UNCHANGED wire

Disconnect ==
  /\ wire = "first"
  /\ kept
  /\ wire' = "closed"
  /\ UNCHANGED kept

Connect ==
  /\ wire = "closed"
  /\ wire' = "second"
  /\ UNCHANGED kept

Next == Keep \/ Disconnect \/ Connect

Spec == Init /\ [][Next]_vars
=============================================================================
