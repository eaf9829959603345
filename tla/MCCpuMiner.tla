---------------------------- MODULE MCCpuMiner -----------------------------
(* CpuMiner with two threads, for TLC. *)
EXTENDS CpuMiner, FiniteSets

Finders == {t \in Starts \X ThreadIds : threadPc[t[1]][t[2]] = "found"}

(* One share is under way at a time, and none in the last start; the       *)
(* connection is lost, or the program interrupted, in the first start (a   *)
(* later one, whose roll needs StratumMutex, would not come after it), and *)
(* not both.                                                               *)
FewFaults ==
  /\ finishedWork + Cardinality(Finders) <= IF starts < MaxStarts THEN 1 ELSE 0
  /\ connection # "first" => starts <= 1 /\ ~ done
  /\ done => starts <= 1
=============================================================================
