---------------------------- MODULE ShareLedger ----------------------------
(***************************************************************************)
(* What the path from the mining devices to the pool promises for every    *)
(* share a device finds: it is settled exactly once, and settling it means *)
(* one attempt to submit it, or dropping it because an equal share was     *)
(* attempted not long before, or losing it in a batch that was abandoned.  *)
(* ShareQueue is the implementation in drivers/aonminer.go and miner.go.   *)
(*                                                                         *)
(* Shares are numbered in the order they are found; found[sn] is the key   *)
(* by which two shares are compared.                                       *)
(***************************************************************************)
EXTENDS Integers, Sequences

CONSTANTS
  Keys,      \* what two shares are compared by
  MaxFound,  \* bound on the number of shares found
  NearGap,   \* two attempts of one key are at least this far apart
  FarGap     \* a share is dropped only for a twin at most this far back

VARIABLES
  found,       \* the key of each share, in the order the shares were found
  unsettled,   \* the shares on their way
  attempts,    \* the shares handed to the pool, in order
  duplicates,  \* the shares dropped as duplicates
  lost         \* the shares of abandoned batches

vars == << found, unsettled, attempts, duplicates, lost >>

(* How far back an attempt is from the next one to be made. *)
Gap(i) == Len(attempts) + 1 - i

Init ==
  /\ found = << >>
  /\ unsettled = {}
  /\ attempts = << >>
  /\ duplicates = {}
  /\ lost = {}

Find ==
  /\ Len(found) < MaxFound
  /\ \E k \in Keys : found' = Append(found, k)
  /\ unsettled' = unsettled \cup {Len(found) + 1}
  /\ UNCHANGED << attempts, duplicates, lost >>

Attempt(sn) ==
  /\ \A i \in DOMAIN attempts :
       found[attempts[i]] = found[sn] => Gap(i) >= NearGap
  /\ attempts' = Append(attempts, sn)
  /\ unsettled' = unsettled \ {sn}
  /\ UNCHANGED << found, duplicates, lost >>

DropDuplicate(sn) ==
  /\ \E i \in DOMAIN attempts :
       /\ found[attempts[i]] = found[sn]
       /\ Gap(i) <= FarGap
  /\ duplicates' = duplicates \cup {sn}
  /\ unsettled' = unsettled \ {sn}
  /\ UNCHANGED << found, attempts, lost >>

Lose(S) ==
  /\ lost' = lost \cup S
  /\ unsettled' = unsettled \ S
  /\ UNCHANGED << found, attempts, duplicates >>

Next ==
  \/ Find
  \/ \E sn \in unsettled : Attempt(sn)
  \/ \E sn \in unsettled : DropDuplicate(sn)
  \/ \E S \in SUBSET unsettled : Lose(S)

Spec == Init /\ [][Next]_vars
=============================================================================
