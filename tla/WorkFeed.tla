------------------------------ MODULE WorkFeed ------------------------------
(***************************************************************************)
(* What the devices may rely on when AonMiner hands out work: a round is   *)
(* of one job for all of them, the rounds go on with that job until the    *)
(* pool's latest takes its place, no two of its copies are searched with   *)
(* the same ExtraNonce2 while there is room for another round, and once    *)
(* the pool has gone on to another block, no more than one round is for    *)
(* the old one.  JobDispatch is the implementation in miner.go.            *)
(***************************************************************************)
EXTENDS Integers, Sequences

CONSTANTS
  NumDevices,  \* devices that work in every round
  NonceSpace,  \* ExtraNonce2s there are
  Jobs,        \* what the pool may ask for: [id, prev, ...]
  NoJob        \* before the first renewal

VARIABLES
  job,    \* the pool's latest job
  work,   \* the job that the rounds are for
  lap,    \* the rounds since the last renewal or the last exhaustion of
          \* NonceSpace: [job, extraNonce2] per device
  stale   \* a round was for another block than the latest

vars == << job, work, lap, stale >>

Devices == 0 .. NumDevices - 1

Nonces == 0 .. NonceSpace - 1

Init ==
  /\ job \in Jobs
  /\ work = NoJob
  /\ lap = << >>
  /\ stale = FALSE

(* The pool does not go back to an earlier block. *)
Announce ==
  /\ job' \in Jobs
  /\ job'.id > job.id
  /\ job'.prev >= job.prev
  /\ stale' = (stale /\ job'.prev = job.prev)
  /\ UNCHANGED << work, lap >>

Renew ==
  /\ work' = job
  /\ lap' = << >>
  /\ UNCHANGED << job, stale >>

HasRoom == (Len(lap) + 1) * NumDevices <= NonceSpace

AllDifferent(rounds) ==
  \A r, q \in DOMAIN rounds : \A i, j \in Devices :
    << r, i >> # << q, j >> =>
      rounds[r][i].extraNonce2 # rounds[q][j].extraNonce2

Round ==
  /\ work # NoJob
  /\ stale => work.prev = job.prev
  /\ \E nonces \in [Devices -> Nonces] :
       LET round == [i \in Devices |-> [job |-> work, extraNonce2 |-> nonces[i]]]
       IN  lap' = IF HasRoom THEN Append(lap, round) ELSE << round >>
  /\ AllDifferent(lap')
  /\ stale' = (work.prev # job.prev)
  /\ UNCHANGED << job, work >>

Next == Announce \/ Renew \/ Round

Spec == Init /\ [][Next]_vars
=============================================================================
