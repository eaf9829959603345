---------------------------- MODULE MCShareQueue ----------------------------
(* ShareQueue on two devices, for TLC. *)
EXTENDS ShareQueue

(* Keys are only compared, so the behaviours that meet the keys in the     *)
(* order 1, 2, 3, ... stand for all.                                       *)
KeysInOrder ==
  \A i \in DOMAIN found :
    found[i] = 1 \/ \E j \in 1 .. i - 1 : found[i] <= found[j] + 1
=============================================================================
