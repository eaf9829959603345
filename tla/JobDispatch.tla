---------------------------- MODULE JobDispatch ----------------------------
(***************************************************************************)
(* How the pool's latest job becomes work for the devices.                 *)
(*                                                                         *)
(* AonMiner keeps a copy of LastStratumJob per device.  In every round it  *)
(* tests, without StratumMutex, whether the copies are out of date; if so  *)
(* it renews them under the mutex, each with an ExtraNonce2 of its own;    *)
(* then it advances every ExtraNonce2 by the number of devices and sends   *)
(* the copies out.  StratumReceiver replaces LastStratumJob, or only sets  *)
(* its ForgetSubmits after rejections; MinerReceiver sees ForgetSubmits    *)
(* without the mutex and clears it with it.  The reconnect goroutine takes *)
(* the mutex and keeps it (see Session).                                   *)
(*                                                                         *)
(* The devices do not change in this module.  A job is what the test looks *)
(* at: its number, its previous block and its time.                        *)
(***************************************************************************)
EXTENDS Integers, Sequences

CONSTANTS
  NumDevices,  \* len(AonDriver.ConnectedDevices)
  NonceSpace,  \* 256^PoolExtraNonce2Len, at most 2^32
  MaxJobs,     \* bound: jobs in a behaviour
  MaxTime      \* bound: values of BlockTimestamp

ASSUME DispatchAssumption ==
  /\ NumDevices \in Nat \ {0}
  /\ NonceSpace \in Nat \ {0}
  /\ NumDevices <= NonceSpace
  /\ MaxJobs \in Nat \ {0}
  /\ MaxTime \in Nat \ {0}

VARIABLES
  job,             \* LastStratumJob: [id, prev, time]
  forgetSubmits,   \* LastStratumJob.ForgetSubmits
  stratumMutex,    \* the holder of StratumMutex, or "free"
  buffer,          \* stratumJobBuffer: [job, extraNonce2] per device
  forceJobUpdate,  \* forceJobUpdate
  due,             \* five seconds have passed since lastJobChange
  minerPc,         \* where AonMiner is
  next,            \* the device whose copy is renewed next
  clearPc,         \* where MinerReceiver is: "look" or "clear"
  lap,             \* history: the rounds since the last renewal or the last
                   \* exhaustion of NonceSpace, as they were sent
  used,            \* history: ExtraNonce2s sent for the job in the buffer
  exhausted,       \* history: NonceSpace was exhausted for this job
  staleRounds      \* history: rounds sent for another block than job.prev;
                   \* 2 stands for more than one

minerVars   == << buffer, forceJobUpdate, due, minerPc, next >>
historyVars == << lap, used, exhausted, staleRounds >>
vars == << job, forgetSubmits, stratumMutex, minerVars, clearPc, historyVars >>

Devices == 0 .. NumDevices - 1

Job == [id : 1 .. MaxJobs, prev : 1 .. MaxJobs, time : 1 .. MaxTime]

NoJob == [id |-> 0, prev |-> 0, time |-> 0]

Nonces == 0 .. NonceSpace - 1

Copy == [job : Job \cup {NoJob}, extraNonce2 : Nonces]

TypeOK ==
  /\ job \in Job
  /\ forgetSubmits \in BOOLEAN
  /\ stratumMutex \in {"free", "miner", "reconnect"}
  /\ buffer \in [Devices -> Copy]
  /\ forceJobUpdate \in BOOLEAN
  /\ due \in BOOLEAN
  /\ minerPc \in {"sample", "compare", "lock", "copy", "roll", "send"}
  /\ minerPc \in {"roll", "send"} => \A i \in Devices : buffer[i].job # NoJob
  /\ next \in Devices
  /\ clearPc \in {"look", "clear"}
  /\ lap \in Seq([Devices -> Copy])
  /\ Len(lap) * NumDevices <= NonceSpace
  /\ used \in SUBSET Nonces
  /\ exhausted \in BOOLEAN
  /\ staleRounds \in 0 .. 2

(* The first job is there: StratumWaitJob has waited for it. *)
Init ==
  /\ job = [id |-> 1, prev |-> 1, time |-> 1]
  /\ forgetSubmits = FALSE
  /\ stratumMutex = "free"
  /\ buffer = [i \in Devices |-> [job |-> NoJob, extraNonce2 |-> 0]]
  /\ forceJobUpdate = TRUE
  /\ due = FALSE
  /\ minerPc = "sample"
  /\ next = 0
  /\ clearPc = "look"
  /\ lap = << >>
  /\ used = {}
  /\ exhausted = FALSE
  /\ staleRounds = 0

-----------------------------------------------------------------------------
(* AonMiner *)

SampleForgetSubmits ==
  /\ minerPc = "sample"
  /\ forceJobUpdate' = (forceJobUpdate \/ forgetSubmits)
  /\ minerPc' = "compare"
  /\ UNCHANGED << job, forgetSubmits, stratumMutex, buffer, due, next,
                  clearPc, historyVars >>

(* Fault: the block is not looked at. *)
OutOfDateByTime ==
  \/ due /\ buffer[0].job.time # job.time
  \/ forceJobUpdate

(* Are the copies out of date?                                             *)
OutOfDate ==
  \/ buffer[0].job.prev # job.prev
  \/ due /\ buffer[0].job.time # job.time
  \/ forceJobUpdate

Compare ==
  /\ minerPc = "compare"
  /\ minerPc' = IF OutOfDate THEN "lock" ELSE "roll"
  /\ UNCHANGED << job, forgetSubmits, stratumMutex, buffer, forceJobUpdate,
                  due, next, clearPc, historyVars >>

(* Fault: the copies are renewed without the mutex. *)
UpdateUnlocked ==
  /\ minerPc = "lock"
  /\ minerPc' = "copy"
  /\ UNCHANGED << job, forgetSubmits, stratumMutex, buffer, forceJobUpdate,
                  due, next, clearPc, historyVars >>

LockUpdate ==
  /\ minerPc = "lock"
  /\ stratumMutex = "free"
  /\ stratumMutex' = "miner"
  /\ minerPc' = "copy"
  /\ UNCHANGED << job, forgetSubmits, buffer, forceJobUpdate, due, next,
                  clearPc, historyVars >>

(* One copy is renewed.  LastStratumJob.ExtraNonce2, the base, is zero:    *)
(* only the CPU miner increments it.                                       *)
CopyJob ==
  /\ minerPc = "copy"
  /\ buffer' = [buffer EXCEPT ![next] =
                  [job |-> job, extraNonce2 |-> (next + 1) % NonceSpace]]
  /\ IF next = NumDevices - 1
     THEN /\ next' = 0
          /\ stratumMutex' = "free"
          /\ forceJobUpdate' = FALSE
          /\ due' = FALSE
          /\ minerPc' = "roll"
     ELSE /\ next' = next + 1
          /\ UNCHANGED << stratumMutex, forceJobUpdate, due, minerPc >>
  /\ lap' = << >>
  /\ used' = IF buffer[next].job.id = job.id THEN used ELSE {}
  /\ exhausted' = (exhausted /\ buffer[next].job.id = job.id)
  /\ UNCHANGED << job, forgetSubmits, clearPc, staleRounds >>

(* Fault: the sum is not cut to the length of ExtraNonce2. *)
RollNoncesWide ==
  /\ minerPc = "roll"
  /\ buffer' = [i \in Devices |->
                  [buffer[i] EXCEPT !.extraNonce2 = @ + NumDevices]]
  /\ minerPc' = "send"
  /\ UNCHANGED << job, forgetSubmits, stratumMutex, forceJobUpdate, due,
                  next, clearPc, historyVars >>

(* Fault: every device goes on by one. *)
RollNoncesByOne ==
  /\ minerPc = "roll"
  /\ buffer' = [i \in Devices |->
                  [buffer[i] EXCEPT !.extraNonce2 = (@ + 1) % NonceSpace]]
  /\ minerPc' = "send"
  /\ UNCHANGED << job, forgetSubmits, stratumMutex, forceJobUpdate, due,
                  next, clearPc, historyVars >>

(* uint32 and PadLeft keep the low bytes of the sum. *)
RollNonces ==
  /\ minerPc = "roll"
  /\ buffer' = [i \in Devices |->
                  [buffer[i] EXCEPT
                     !.extraNonce2 = (@ + NumDevices) % NonceSpace]]
  /\ minerPc' = "send"
  /\ UNCHANGED << job, forgetSubmits, stratumMutex, forceJobUpdate, due,
                  next, clearPc, historyVars >>

(* Fault: every round counts as a change of the jobs. *)
SendJobsRestartTimer ==
  /\ minerPc = "send"
  /\ LET full == (Len(lap) + 1) * NumDevices > NonceSpace
     IN  /\ lap' = IF full THEN << buffer >> ELSE Append(lap, buffer)
         /\ exhausted' = (exhausted \/ full)
  /\ used' = used \cup {buffer[i].extraNonce2 : i \in Devices}
  /\ staleRounds' = IF buffer[0].job.prev = job.prev THEN 0
                    ELSE IF staleRounds = 0 THEN 1 ELSE 2
  /\ minerPc' = "sample"
  /\ due' = FALSE
  /\ UNCHANGED << job, forgetSubmits, stratumMutex, buffer, forceJobUpdate,
                  next, clearPc >>

(* One AsicSendJob goroutine per device takes its copy along. *)
SendJobs ==
  /\ minerPc = "send"
  /\ LET full == (Len(lap) + 1) * NumDevices > NonceSpace
     IN  /\ lap' = IF full THEN << buffer >> ELSE Append(lap, buffer)
         /\ exhausted' = (exhausted \/ full)
  /\ used' = used \cup {buffer[i].extraNonce2 : i \in Devices}
  /\ staleRounds' = IF buffer[0].job.prev = job.prev THEN 0
                    ELSE IF staleRounds = 0 THEN 1 ELSE 2
  /\ minerPc' = "sample"
  /\ UNCHANGED << job, forgetSubmits, stratumMutex, buffer, forceJobUpdate,
                  due, next, clearPc >>

(* lastJobChange is five seconds ago. *)
FiveSecondsPass ==
  /\ ~ due
  /\ due' = TRUE
  /\ UNCHANGED << job, forgetSubmits, stratumMutex, buffer, forceJobUpdate,
                  minerPc, next, clearPc, historyVars >>

-----------------------------------------------------------------------------
(* MinerReceiver *)

SeeForgetSubmits ==
  /\ clearPc = "look"
  /\ forgetSubmits
  /\ clearPc' = "clear"
  /\ UNCHANGED << job, forgetSubmits, stratumMutex, minerVars, historyVars >>

ClearForgetSubmits ==
  /\ clearPc = "clear"
  /\ stratumMutex = "free"
  /\ forgetSubmits' = FALSE
  /\ clearPc' = "look"
  /\ UNCHANGED << job, stratumMutex, minerVars, historyVars >>

-----------------------------------------------------------------------------
(* StratumReceiver *)

(* mining.notify, with the mutex: a new job for the same block or the next *)
(* one.                                                                    *)
Notify ==
  /\ stratumMutex = "free"
  /\ job.id < MaxJobs
  /\ \E p \in {job.prev, job.prev + 1}, t \in 1 .. MaxTime :
       /\ job' = [id |-> job.id + 1, prev |-> p, time |-> t]
       /\ staleRounds' = IF p = job.prev THEN staleRounds ELSE 0
  /\ forgetSubmits' \in BOOLEAN
  /\ UNCHANGED << stratumMutex, minerVars, clearPc, lap, used, exhausted >>

(* More than three rejections in a row, with the mutex. *)
ForceJobChange ==
  /\ stratumMutex = "free"
  /\ forgetSubmits' = TRUE
  /\ UNCHANGED << job, stratumMutex, minerVars, clearPc, historyVars >>

-----------------------------------------------------------------------------
(* The reconnect goroutine, whose Unlock is commented out. *)

LockReconnect ==
  /\ stratumMutex = "free"
  /\ stratumMutex' = "reconnect"
  /\ UNCHANGED << job, forgetSubmits, minerVars, clearPc, historyVars >>

-----------------------------------------------------------------------------

AonMiner ==
  \/ SampleForgetSubmits
  \/ Compare
  \/ LockUpdate
  \/ CopyJob
  \/ RollNonces
  \/ SendJobs

MinerReceiver == SeeForgetSubmits \/ ClearForgetSubmits

StratumReceiver == Notify \/ ForceJobChange

Next ==
  \/ AonMiner
  \/ FiveSecondsPass
  \/ MinerReceiver
  \/ StratumReceiver
  \/ LockReconnect

Spec == Init /\ [][Next]_vars

(* AonMiner runs on and gets a mutex that is free again and again, and     *)
(* time passes; the pool owes nothing.                                     *)
Fairness ==
  /\ WF_vars(AonMiner)
  /\ SF_vars(LockUpdate)
  /\ WF_vars(FiveSecondsPass)

FairSpec == Spec /\ Fairness

-----------------------------------------------------------------------------
(* Properties *)

(* Until the jobs are renewed or NonceSpace is used up, no ExtraNonce2 is  *)
(* sent out twice, by whichever devices (miner.go:191-197).                *)
LapIsUnique ==
  \A r, q \in DOMAIN lap : \A i, j \in Devices :
    << r, i >> # << q, j >> =>
      lap[r][i].extraNonce2 # lap[q][j].extraNonce2

(* The rounds keep what WorkFeed promises, whatever StratumReceiver does   *)
(* between the test of the copies, their renewal and the sending           *)
(* (miner.go:170-215, stratum.go:275): every round is of one job, a copy   *)
(* is only replaced by the latest job, no ExtraNonce2 repeats in a lap,    *)
(* and at most one round is for a block that is over.                      *)
Feed ==
  INSTANCE WorkFeed WITH
    Jobs  <- Job,
    work  <- buffer[0].job,
    stale <- staleRounds # 0
FeedSpec == Feed!Spec

(* AonMiner waits for the mutex that a reconnection has kept               *)
(* (miner.go:173, smminer.go:183).                                         *)
Stuck == minerPc = "lock" /\ stratumMutex = "reconnect"

(* Every block announced is worked on, or replaced by the next one, and so *)
(* is every time that a job of the same block brings (miner.go:170-188,    *)
(* 212-215): also when MinerReceiver has cleared ForgetSubmits before      *)
(* AonMiner has seen it (miner.go:233), when the five seconds of the one   *)
(* job run on into the next, or when the job changes during the renewal.   *)
JobsAreMined ==
  /\ \A b \in 1 .. MaxJobs :
       job.prev = b ~> \/ minerPc = "send" /\ buffer[0].job.prev = b
                       \/ job.prev # b
                       \/ Stuck
  /\ \A t \in 1 .. MaxTime :
       job.time = t ~> \/ minerPc = "send" /\ buffer[0].job.time = t
                       \/ job.time # t
                       \/ Stuck

(* "Increment by a larger value to ensure uniqueness across iterations"    *)
(* (miner.go:194): no ExtraNonce2 is sent out twice for a job before       *)
(* NonceSpace is used up.                                                  *)
UniqueAcrossIterations ==
  minerPc = "send" /\ ~ exhausted /\ (Len(lap) + 1) * NumDevices <= NonceSpace
    => \A i \in Devices : buffer[i].extraNonce2 \notin used
=============================================================================
