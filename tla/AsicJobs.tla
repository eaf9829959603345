------------------------------ MODULE AsicJobs ------------------------------
(***************************************************************************)
(* How a device's answer is matched with the job it was mined for.         *)
(*                                                                         *)
(* In every round AonMiner starts an AsicSendJob goroutine per device.  It *)
(* takes the next JobID from a counter that all of them share without a    *)
(* lock, writes the job to the device, and then, under AonJobMutex,        *)
(* appends it to the device's pending jobs and makes it the device's       *)
(* latest.  AsicReadJob, one per device, takes the latest job, reads an    *)
(* answer, compares its JobID with the pending jobs, takes a match whose   *)
(* hash is good for a share, and cuts the pending jobs.                    *)
(*                                                                         *)
(* Sends are numbered.  A hash is good only for the send that the answer   *)
(* was mined for.  (A round that starts again from the same ExtraNonce2s,  *)
(* see JobDispatch, sends the same work again; a match with either send    *)
(* then gives the same share, and the module takes the works of all sends  *)
(* as different.)  Answers below the pool's difficulty change only         *)
(* statistics and are left out.  After a teardown nothing is connected     *)
(* again: that is the device scan.                                         *)
(***************************************************************************)
EXTENDS Integers, Sequences, SequencesExt, FiniteSets

CONSTANTS
  NumDevices,      \* len(AonDriver.ConnectedDevices)
  RingSize,        \* JobIDs there are: 128 / 8
  RingStep,        \* from one JobID to the next: 24 / 8
  KeepJobs,        \* pending jobs that a cut keeps: 14
  MaxWriteErrors,  \* failed writes in a row that are tolerated: 5
  MaxSends,        \* bound: AsicSendJob goroutines in a behaviour
  MaxInFlight      \* bound: AsicSendJob goroutines at a time

ASSUME AsicAssumption ==
  /\ NumDevices \in Nat \ {0}
  /\ RingSize \in Nat \ {0}
  /\ RingStep \in Nat \ {0}
  /\ KeepJobs \in Nat \ {0}
  /\ MaxWriteErrors \in Nat
  /\ MaxSends \in Nat
  /\ MaxInFlight \in Nat

(* The steps leave out no JobID: 3 and 16 have no common divisor.          *)
ASSUME RingAssumption ==
  \A i \in 0 .. RingSize - 1 : \E k \in 0 .. RingSize - 1 :
    (k * RingStep) % RingSize = i

VARIABLES
  lastJobID,    \* AONMINER.LastJobID / 8
  job,          \* the pool's job in stratumJobBuffer
  sends,        \* the AsicSendJob goroutines, in the order of their start
  pending,      \* AonPendingJob: send numbers per device
  latest,       \* AonStratumJob: the pool's job per device
  readers,      \* AsicReadJob per device
  writeErrors,  \* AonWriteErrors
  connected,    \* len(AonDriver.ConnectedDevices) > 0
  appended,     \* history: the send numbers appended per device
  overlapped    \* history: two goroutines were at lastJobID together

senderVars  == << lastJobID, job, sends >>
historyVars == << appended, overlapped >>
vars == << senderVars, pending, latest, readers, writeErrors, connected,
           historyVars >>

JobIDs == 0 .. RingSize - 1

Devices == 0 .. NumDevices - 1

\* The pool's jobs by their number, and AonStratumJob before the first append.
Jobs == Nat \ {0}
NoJob == 0

SendNumbers == 1 .. MaxSends

Goroutine ==
  [device : Devices, job : Jobs,
   pc : {"load", "store", "fetch", "write", "reset", "failed", "append", "done"},
   jobID : JobIDs, written : BOOLEAN]

Reader ==
  [pc : {"look", "read", "match", "append", "check", "cut", "gone"},
   job : Jobs \cup {NoJob}, answer : {0} \cup SendNumbers]

TypeOK ==
  /\ lastJobID \in JobIDs
  /\ job \in Jobs
  /\ sends \in Seq(Goroutine)
  /\ Len(sends) <= MaxSends
  /\ pending \in [Devices -> Seq(SendNumbers)]
  /\ latest \in [Devices -> Jobs \cup {NoJob}]
  /\ readers \in [Devices -> Reader]
  /\ \A d \in Devices : readers[d].pc \in {"match", "append"} =>
                          readers[d].answer \in DOMAIN sends
  /\ writeErrors \in Nat
  /\ connected \in BOOLEAN
  /\ appended \in [Devices -> Seq(SendNumbers)]
  /\ overlapped \in BOOLEAN

Init ==
  /\ lastJobID = 0
  /\ job = 1
  /\ sends = << >>
  /\ pending = [d \in Devices |-> << >>]
  /\ latest = [d \in Devices |-> NoJob]
  /\ readers = [d \in Devices |-> [pc |-> "look", job |-> NoJob, answer |-> 0]]
  /\ writeErrors = 0
  /\ connected = TRUE
  /\ appended = [d \in Devices |-> << >>]
  /\ overlapped = FALSE

-----------------------------------------------------------------------------
(* AonMiner *)

InFlight == {n \in DOMAIN sends : sends[n].pc # "done"}

(* A round: one goroutine per device, for the same job or the next.        *)
StartRound ==
  /\ connected
  /\ Len(sends) + NumDevices <= MaxSends
  /\ Cardinality(InFlight) + NumDevices <= MaxInFlight
  /\ job' \in IF sends = << >> THEN {job} ELSE {job, job + 1}
  /\ sends' = sends \o [i \in 1 .. NumDevices |->
                           [device |-> i - 1, job |-> job', pc |-> "load",
                            jobID |-> 0, written |-> FALSE]]
  /\ UNCHANGED << lastJobID, pending, latest, readers, writeErrors, connected,
                  historyVars >>

-----------------------------------------------------------------------------
(* AsicSendJob *)

GoTo(n, from, to) ==
  /\ sends[n].pc = from
  /\ sends' = [sends EXCEPT ![n].pc = to]

(* Fault: the JobIDs do not go round. *)
NextJobIDEndless(i) == i + RingStep

(* Fault: a step that leaves out every other JobID. *)
NextJobIDEven(i) == (i + RingStep + 1) % RingSize

NextJobID(i) == (i + RingStep) % RingSize

(* The increment is a load and a store, and the job takes what it reads    *)
(* after that.                                                             *)
LoadJobID(n) ==
  /\ sends[n].pc = "load"
  /\ sends' = [sends EXCEPT ![n].pc = "store", ![n].jobID = lastJobID]
  /\ overlapped' = (overlapped \/ \E m \in DOMAIN sends :
                                    sends[m].pc \in {"store", "fetch"})
  /\ UNCHANGED << lastJobID, job, pending, latest, readers, writeErrors,
                  connected, appended >>

StoreJobID(n) ==
  /\ GoTo(n, "store", "fetch")
  /\ lastJobID' = NextJobID(sends[n].jobID)
  /\ UNCHANGED << job, pending, latest, readers, writeErrors, connected,
                  historyVars >>

FetchJobID(n) ==
  /\ sends[n].pc = "fetch"
  /\ sends' = [sends EXCEPT ![n].pc = "write", ![n].jobID = lastJobID]
  /\ UNCHANGED << lastJobID, job, pending, latest, readers, writeErrors,
                  connected, historyVars >>

(* Fault: the device's latest job is set before the job is pending. *)
WriteJobSetLatest(n) ==
  /\ sends[n].pc = "write"
  /\ sends' = [sends EXCEPT ![n].pc = "reset", ![n].written = TRUE]
  /\ latest' = [latest EXCEPT ![sends[n].device] = sends[n].job]
  /\ UNCHANGED << lastJobID, job, pending, readers, writeErrors, connected,
                  historyVars >>

(* The device has the job and may answer. *)
WriteJob(n) ==
  /\ sends[n].pc = "write"
  /\ sends' = [sends EXCEPT ![n].pc = "reset", ![n].written = TRUE]
  /\ UNCHANGED << lastJobID, job, pending, latest, readers, writeErrors,
                  connected, historyVars >>

(* AonWriteErrors = 0 without AonJobMutex; it may fall between the load    *)
(* and the store of an increment and be lost.                              *)
ResetWriteErrors(n) ==
  /\ GoTo(n, "reset", "append")
  /\ \/ writeErrors' = 0
     \/ /\ \E m \in DOMAIN sends : sends[m].pc = "failed"
        /\ UNCHANGED writeErrors
  /\ UNCHANGED << lastJobID, job, pending, latest, readers, connected,
                  historyVars >>

WriteFails(n) ==
  /\ GoTo(n, "write", "failed")
  /\ UNCHANGED << lastJobID, job, pending, latest, readers, writeErrors,
                  connected, historyVars >>

(* One failure too many closes every device, and the job is given up.      *)
CountWriteError(n) ==
  LET closes == writeErrors + 1 > MaxWriteErrors /\ connected
  IN  /\ GoTo(n, "failed", IF closes THEN "done" ELSE "append")
      /\ writeErrors' = writeErrors + 1
      /\ connected' = (connected /\ ~ closes)
      /\ UNCHANGED << lastJobID, job, pending, latest, readers, historyVars >>

(* With AonJobMutex, also after a write that failed. *)
AppendPending(n) ==
  LET d == sends[n].device
  IN  /\ GoTo(n, "append", "done")
      /\ pending' = [pending EXCEPT ![d] = Append(@, n)]
      /\ latest' = [latest EXCEPT ![d] = sends[n].job]
      /\ appended' = [appended EXCEPT ![d] = Append(@, n)]
      /\ UNCHANGED << lastJobID, job, readers, writeErrors, connected,
                      overlapped >>

AsicSendJob(n) ==
  \/ LoadJobID(n)
  \/ StoreJobID(n)
  \/ FetchJobID(n)
  \/ WriteJob(n)
  \/ ResetWriteErrors(n)
  \/ WriteFails(n)
  \/ CountWriteError(n)
  \/ AppendPending(n)

-----------------------------------------------------------------------------
(* AsicReadJob *)

AtCheck == [pc |-> "check", job |-> NoJob, answer |-> 0]

(* ConnectedDevices is tested; the latest job is copied with AonJobMutex.  *)
TakeLatest(d) ==
  /\ readers[d].pc = "look"
  /\ readers' = [readers EXCEPT ![d] =
                   [pc |-> IF connected THEN "read" ELSE "gone",
                    job |-> latest[d], answer |-> 0]]
  /\ UNCHANGED << senderVars, pending, latest, writeErrors, connected,
                  historyVars >>

(* An answer about any job that the device was given. *)
ReadAnswer(d) ==
  /\ readers[d].pc = "read"
  /\ \E n \in DOMAIN sends :
       /\ sends[n].device = d
       /\ sends[n].written
       /\ readers' = [readers EXCEPT ![d].pc = "match", ![d].answer = n]
  /\ UNCHANGED << senderVars, pending, latest, writeErrors, connected,
                  historyVars >>

(* Nothing, or an error that is tolerated or that a reset of the device    *)
(* cures.                                                                  *)
ReadNothing(d) ==
  /\ readers[d].pc = "read"
  /\ readers' = [readers EXCEPT ![d] = AtCheck]
  /\ UNCHANGED << senderVars, pending, latest, writeErrors, connected,
                  historyVars >>

(* The reset of the device fails, or no share was found for two minutes:   *)
(* every device is closed and the reader leaves, with the answer if it     *)
(* had one.                                                                *)
CloseDevices(d) ==
  /\ readers[d].pc \in {"read", "match"}
  /\ connected' = FALSE
  /\ readers' = [readers EXCEPT ![d].pc = "gone"]
  /\ UNCHANGED << senderVars, pending, latest, writeErrors, historyVars >>

(* JobID and hash of the answer about send n are those of send m; the hash *)
(* alone would decide.                                                     *)
IsMatch(n, m) == sends[m].jobID = sends[n].jobID /\ m = n

(* The answer goes through the pending jobs. *)
MatchAnswer(d) ==
  /\ readers[d].pc = "match"
  /\ readers' = [readers EXCEPT ![d] =
                   IF \E m \in Range(pending[d]) : IsMatch(readers[d].answer, m)
                   THEN [@ EXCEPT !.pc = "append"] ELSE AtCheck]
  /\ UNCHANGED << senderVars, pending, latest, writeErrors, connected,
                  historyVars >>

(* The share waits for AonJobMutex; AonFinishedWorks is in ShareQueue.     *)
AppendShare(d) ==
  /\ readers[d].pc = "append"
  /\ readers' = [readers EXCEPT ![d] = AtCheck]
  /\ UNCHANGED << senderVars, pending, latest, writeErrors, connected,
                  historyVars >>

(* The length is tested without AonJobMutex, the cut is made with it.      *)
CheckPending(d) ==
  /\ readers[d].pc = "check"
  /\ readers' = [readers EXCEPT ![d].pc =
                   IF Len(pending[d]) > KeepJobs THEN "cut" ELSE "look"]
  /\ UNCHANGED << senderVars, pending, latest, writeErrors, connected,
                  historyVars >>

(* Fault: the oldest jobs are kept. *)
CutPendingWrongEnd(d) ==
  /\ readers[d].pc = "cut"
  /\ pending' = [pending EXCEPT ![d] = SubSeq(@, 1, KeepJobs)]
  /\ readers' = [readers EXCEPT ![d].pc = "look"]
  /\ UNCHANGED << senderVars, latest, writeErrors, connected, historyVars >>

CutPending(d) ==
  /\ readers[d].pc = "cut"
  /\ pending' = [pending EXCEPT ![d] =
                   SubSeq(@, Len(@) - KeepJobs + 1, Len(@))]
  /\ readers' = [readers EXCEPT ![d].pc = "look"]
  /\ UNCHANGED << senderVars, latest, writeErrors, connected, historyVars >>

AsicReadJob(d) ==
  \/ TakeLatest(d)
  \/ ReadAnswer(d)
  \/ ReadNothing(d)
  \/ CloseDevices(d)
  \/ MatchAnswer(d)
  \/ AppendShare(d)
  \/ CheckPending(d)
  \/ CutPending(d)

-----------------------------------------------------------------------------

Next ==
  \/ StartRound
  \/ \E n \in DOMAIN sends : AsicSendJob(n)
  \/ \E d \in Devices : AsicReadJob(d)

Spec == Init /\ [][Next]_vars

-----------------------------------------------------------------------------
(* Properties *)

(* A device's pending jobs are the last that were appended, KeepJobs of    *)
(* them or more, though AsicReadJob tests their number without AonJobMutex *)
(* and AsicSendJob appends all the while (aonminer.go:308-311, 441-445):   *)
(* an answer about one of them is not dropped.                             *)
PendingIsRecent ==
  \A d \in Devices :
    /\ IsSuffix(pending[d], appended[d])
    /\ \/ pending[d] = appended[d]
       \/ Len(pending[d]) >= KeepJobs

(* The job a share names (aonminer.go:422) is one that the device might    *)
(* have been answering about: that of a pending job, or none at all when   *)
(* nothing had been appended before the answer was read.  So it is the     *)
(* right one as long as the pending jobs are all of one job of the pool.   *)
ShareNamesPendingJob ==
  \A d \in Devices :
    readers[d].pc = "append" =>
      IF readers[d].job = NoJob THEN pending[d] = appended[d]
      ELSE \E m \in Range(pending[d]) : sends[m].job = readers[d].job

(* The JobIDs are used evenly, so that one comes again only after all the  *)
(* others (aonminer.go:485-490), as long as no two goroutines are at       *)
(* LastJobID together.                                                     *)
JobIDsGoRound ==
  LET used(i) == Cardinality({n \in DOMAIN sends :
                                /\ sends[n].pc \notin {"load", "store", "fetch"}
                                /\ sends[n].jobID = i})
  IN  ~ overlapped => \A i, j \in JobIDs : used(i) <= used(j) + 1

(* "Asic can send old work of previous job so we need to check before      *)
(* adding to AonFinishedWorks" (aonminer.go:402): a share that names a job   *)
(* names the one it was mined for.                                         *)
ShareNamesItsJob ==
  \A d \in Devices :
    readers[d].pc = "append" /\ readers[d].job # NoJob =>
      readers[d].job = sends[readers[d].answer].job
=============================================================================
