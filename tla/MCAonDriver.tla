---------------------------- MODULE MCAonDriver ----------------------------
(* AonDriver for TLC, and ChipCommands on all its inputs or on short ones. *)
EXTENDS AonDriver, ChipCommands

(* Of behaviours that differ in the names of the ports one is kept: the    *)
(* first scan finds one port, and counts its device before others.         *)
PortsInOrder ==
  LET first == [port |-> CHOOSE p \in Ports : TRUE, scan |-> 1]
  IN  /\ scans # 0 => inits[first].pc # "none"
      /\ inits[first].pc = "init" =>
           \A h \in Handles \ {first} : inits[h].pc \in {"none", "init"}

(* After an overlap StopsUnlessStuck says nothing, and Ctrl-C makes        *)
(* AonMiner close what it would go on to send to: that is left out.        *)
NoStopAfterOverlap == ~ (raced /\ mainPc = "stopping")

(* All frequencies that the clamp lets through *)
ASSUME FrequenciesAreClamped ==
  \A mhz \in 0 .. 1000 : FrequencyTarget(mhz) \in 24 .. 128

ASSUME EveryPllIsBest == \A freq \in 10 .. 128 : PllIsBest(freq)

ASSUME EveryPllIsExact == \A freq \in 10 .. 128 : PllIsExact(freq)

(* All strings of ten bits *)
ASSUME CrcsAreRemainders == \A bits \in [1 .. 10 -> 0 .. 1] : CrcIsRemainder(bits)
=============================================================================
