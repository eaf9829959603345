------------------------------ MODULE CpuMiner ------------------------------
(***************************************************************************)
(* Mining on the processor, which the program has for testing.             *)
(*                                                                         *)
(* The CPUMiner goroutine rolls ExtraNonce2 in LastStratumJob, starts one  *)
(* goroutine per thread on a copy of the job and waits for Status to turn  *)
(* OFF.  A thread looks at the context of the latest start, in the         *)
(* variable CPU.ctx, and not at the one it was started with.  Only the     *)
(* last thread sets Status, and only when it is stopped: one that has run  *)
(* out of nonces leaves it ON.  MinerReceiver stops the threads when the   *)
(* pool asks for another job, and submits the shares they find; it keeps   *)
(* CPU.Mutex until it returns, or for ever if StratumSubmit panics.  The   *)
(* reconnect goroutine keeps StratumMutex from the first reconnection on   *)
(* (see Session).                                                          *)
(*                                                                         *)
(* A notification is numbered; the job it makes has no MerkleRoot before   *)
(* ExtraNonce2 has been rolled.  FinishedThreads and Hashrate are only     *)
(* written, or printed, and left out.                                      *)
(***************************************************************************)
EXTENDS Integers

CONSTANTS
  Threads,     \* CPU.Threads
  NonceSpace,  \* 0xFFFFFFFF
  ReportEvery, \* 1000000: the hashes between two writes of Hashrate
  ExtraNonce2Space, \* the values of PoolExtraNonce2Len bytes, 2^32 at most
  MaxStarts,   \* bound: calls of StartCPUMining
  MaxJobs      \* bound: jobs the pool announces

ASSUME CpuAssumption ==
  /\ Threads \in Nat \ {0}
  /\ NonceSpace \in Nat
  /\ ReportEvery \in Nat \ {0}
  /\ ExtraNonce2Space \in Nat \ {0}
  /\ MaxStarts \in Nat
  /\ MaxJobs \in Nat \ {0}

VARIABLES
  job,           \* LastStratumJob
  forget,        \* its ForgetSubmits
  connection,    \* StratumConnection: the first, nil, or the second
  done,          \* the channel done has been closed
  minerPc,       \* where CPUMiner is
  rolled,        \* history: LastStratumJob is as CPUMiner has rolled it
  wrapped,       \* history: the jobs whose ExtraNonce2s have come round
  starts,        \* the calls of StartCPUMining; CPU.ctx is that of the last
  cancelled,     \* the starts whose context has been cancelled
  started,       \* the job each start mines, and history: was it rolled
  threadPc,      \* where the threads of each start are
  nonce,         \* nonceInt of each
  status,        \* CPU.Status
  cpuMutex,      \* the holder of CPU.Mutex, or "free"
  finishedWork,  \* the length of CPU.FinishedWork
  receiverPc,    \* where MinerReceiver is
  panicked       \* history: StratumSubmit has panicked

historyVars  == << rolled, wrapped >>
poolVars     == << job, forget, connection, historyVars >>
minerVars    == << minerPc, starts, started >>
threadVars   == << threadPc, nonce >>
receiverVars == << cpuMutex, receiverPc, panicked >>
vars == << poolVars, done, minerVars, cancelled, threadVars, status,
           finishedWork, receiverVars >>

Starts == 1 .. MaxStarts

ThreadIds == 1 .. Threads

NoRoot == << 0, 0 >>

Job == [id : 1 .. MaxJobs, extraNonce2 : 0 .. ExtraNonce2Space - 1,
        root : Nat \X Nat]

(* A job as a notification leaves it. *)
NewJob(id) == [id |-> id, extraNonce2 |-> 0, root |-> NoRoot]

(* The MerkleRoot goes with the coinbase and the ExtraNonce2 of a job. *)
MerkleRoot(id, extraNonce2) == << id, extraNonce2 >>

(* Fault: the chunks are rounded up and the thread goes up to the next. *)
ChunkEndTooFar(i) == (NonceSpace \div Threads) * i + 1

ChunkStart(i) == (NonceSpace \div Threads) * (i - 1)

ChunkEnd(i) == (NonceSpace \div Threads) * i

(* The mutex of LastStratumJob is to be had until the reconnect goroutine  *)
(* takes it.                                                               *)
StratumMutexFree == connection = "first"

(* CPU.ctx.Done() *)
ContextDone == starts \in cancelled

TypeOK ==
  /\ job \in Job
  /\ forget \in BOOLEAN
  /\ connection \in {"first", "closed", "second"}
  /\ done \in BOOLEAN
  /\ minerPc \in {"top", "roll", "check", "copy", "start", "wait", "exit"}
  /\ rolled \in BOOLEAN
  /\ wrapped \subseteq 1 .. MaxJobs
  /\ starts \in 0 .. MaxStarts
  /\ cancelled \subseteq 1 .. starts
  /\ started \in [Starts -> [job : Job, rolled : BOOLEAN]]
  /\ threadPc \in [Starts -> [ThreadIds ->
                     {"none", "run", "found", "report", "ended"}]]
  /\ nonce \in [Starts -> [ThreadIds -> Nat]]
  /\ status \in {"ON", "OFF"}
  /\ cpuMutex \in {"free", "receiver"}
  /\ finishedWork \in Nat
  /\ receiverPc \in {"poll", "stop", "clear", "look", "lock", "write",
                     "sleep"}
  /\ panicked \in BOOLEAN

(* main has waited for the first job. *)
Init ==
  /\ job = NewJob(1)
  /\ forget = FALSE
  /\ connection = "first"
  /\ done = FALSE
  /\ minerPc = "top"
  /\ rolled = FALSE
  /\ wrapped = {}
  /\ starts = 0
  /\ cancelled = {}
  /\ started = [g \in Starts |-> [job |-> NewJob(1), rolled |-> FALSE]]
  /\ threadPc = [g \in Starts |-> [i \in ThreadIds |-> "none"]]
  /\ nonce = [g \in Starts |-> [i \in ThreadIds |-> ChunkStart(i)]]
  /\ status = "OFF"
  /\ cpuMutex = "free"
  /\ finishedWork = 0
  /\ receiverPc = "poll"
  /\ panicked = FALSE

-----------------------------------------------------------------------------
(* CPUMiner *)

SeeDone ==
  /\ minerPc = "top"
  /\ minerPc' = IF done THEN "exit" ELSE "roll"
  /\ UNCHANGED << poolVars, done, starts, started, cancelled,
                  threadVars, status, finishedWork, receiverVars >>

(* PadLeft cuts the number to the length the pool has given. *)
NextExtraNonce2 == (job.extraNonce2 + 1) % ExtraNonce2Space

(* All ExtraNonce2s of the job have been used: it has been rolled before   *)
(* and is about to leave 0 again.                                          *)
ComesRound == job.root # NoRoot /\ job.extraNonce2 = 0

(* The job is rolled to a root of its own, or of its second time round. *)
NoteRoll ==
  /\ rolled' = TRUE
  /\ wrapped' = wrapped \cup (IF ComesRound THEN {job.id} ELSE {})

(* Fault: ExtraNonce2 stays as it is. *)
RollNothing ==
  /\ minerPc = "roll"
  /\ StratumMutexFree
  /\ job' = [job EXCEPT !.root = MerkleRoot(job.id, job.extraNonce2)]
  /\ rolled' = TRUE
  /\ minerPc' = "check"
  /\ UNCHANGED << forget, connection, wrapped, done, starts, started,
                  cancelled, threadVars, status, finishedWork, receiverVars >>

(* Fault: the MerkleRoot is computed before the increment. *)
RollRootFirst ==
  /\ minerPc = "roll"
  /\ StratumMutexFree
  /\ job' = [job EXCEPT !.extraNonce2 = NextExtraNonce2,
                        !.root = MerkleRoot(job.id, job.extraNonce2)]
  /\ NoteRoll
  /\ minerPc' = "check"
  /\ UNCHANGED << forget, connection, done, starts, started, cancelled,
                  threadVars, status, finishedWork, receiverVars >>

(* StratumNonce2Increment, a critical section of StratumMutex. *)
RollExtraNonce2 ==
  /\ minerPc = "roll"
  /\ StratumMutexFree
  /\ job' = [job EXCEPT !.extraNonce2 = NextExtraNonce2,
                        !.root = MerkleRoot(job.id, NextExtraNonce2)]
  /\ NoteRoll
  /\ minerPc' = "check"
  /\ UNCHANGED << forget, connection, done, starts, started, cancelled,
                  threadVars, status, finishedWork, receiverVars >>

(* Status is always OFF here; the job is copied without StratumMutex. *)
BeginCopy ==
  /\ minerPc = "check"
  /\ status = "OFF"
  /\ starts < MaxStarts
  /\ started' = [started EXCEPT ![starts + 1].job = job]
  /\ minerPc' = "copy"
  /\ UNCHANGED << poolVars, done, starts, cancelled, threadVars, status,
                  finishedWork, receiverVars >>

(* Each field of the copy is from before or after a notification that      *)
(* comes meanwhile.  A new context goes to CPU.cancelFunc and CPU.ctx.     *)
NewContext ==
  /\ minerPc = "copy"
  /\ \E late \in SUBSET DOMAIN job :
       started' = [started EXCEPT
         ![starts + 1].job =
           [f \in DOMAIN job |-> IF f \in late THEN job[f] ELSE @[f]],
         ![starts + 1].rolled = rolled]
  /\ rolled' = FALSE
  /\ starts' = starts + 1
  /\ minerPc' = "start"
  /\ UNCHANGED << job, forget, connection, wrapped, done, cancelled,
                  threadVars, status, finishedWork, receiverVars >>

(* The threads begin to run in any order. *)
StartThreads ==
  /\ minerPc = "start"
  /\ cpuMutex = "free"
  /\ status' = "ON"
  /\ threadPc' = [threadPc EXCEPT ![starts] = [i \in ThreadIds |-> "run"]]
  /\ minerPc' = "wait"
  /\ UNCHANGED << poolVars, done, starts, started, cancelled, nonce,
                  finishedWork, receiverVars >>

SeeStatusOff ==
  /\ minerPc = "wait"
  /\ status = "OFF"
  /\ minerPc' = "top"
  /\ UNCHANGED << poolVars, done, starts, started, cancelled,
                  threadVars, status, finishedWork, receiverVars >>

-----------------------------------------------------------------------------
(* Thread i of start g *)

Running(g, i) == threadPc[g][i] = "run" /\ nonce[g][i] < ChunkEnd(i)

MoveThread(g, i, pc) == threadPc' = [threadPc EXCEPT ![g][i] = pc]

(* Fault: any thread that is stopped sets Status. *)
StopAnyThread(g, i) ==
  /\ Running(g, i)
  /\ ContextDone
  /\ status' = "OFF"
  /\ MoveThread(g, i, "ended")
  /\ UNCHANGED << poolVars, done, minerVars, cancelled, nonce, finishedWork,
                  receiverVars >>

StopThread(g, i) ==
  /\ Running(g, i)
  /\ ContextDone
  /\ status' = IF i = Threads THEN "OFF" ELSE status
  /\ MoveThread(g, i, "ended")
  /\ UNCHANGED << poolVars, done, minerVars, cancelled, nonce, finishedWork,
                  receiverVars >>

(* Hashrate is due after every ReportEvery hashes. *)
NextNonce(g, i) ==
  /\ nonce' = [nonce EXCEPT ![g][i] = @ + 1]
  /\ IF (nonce[g][i] + 1 - ChunkStart(i)) % ReportEvery = 0
     THEN MoveThread(g, i, "report")
     ELSE MoveThread(g, i, "run")

(* One hash, a share or not. *)
HashNonce(g, i) ==
  /\ Running(g, i)
  /\ ~ ContextDone
  /\ \/ MoveThread(g, i, "found") /\ UNCHANGED nonce
     \/ NextNonce(g, i)
  /\ UNCHANGED << poolVars, done, minerVars, cancelled, status, finishedWork,
                  receiverVars >>

(* The share is appended in a critical section of CPU.Mutex. *)
AppendWork(g, i) ==
  /\ threadPc[g][i] = "found"
  /\ cpuMutex = "free"
  /\ finishedWork' = finishedWork + 1
  /\ NextNonce(g, i)
  /\ UNCHANGED << poolVars, done, minerVars, cancelled, status, receiverVars >>

(* Hashrate is written in another. *)
ReportHashrate(g, i) ==
  /\ threadPc[g][i] = "report"
  /\ cpuMutex = "free"
  /\ MoveThread(g, i, "run")
  /\ UNCHANGED << poolVars, done, minerVars, cancelled, nonce, status,
                  finishedWork, receiverVars >>

(* Out of nonces.  Status stays as it is. *)
ExhaustThread(g, i) ==
  /\ threadPc[g][i] = "run"
  /\ nonce[g][i] >= ChunkEnd(i)
  /\ MoveThread(g, i, "ended")
  /\ UNCHANGED << poolVars, done, minerVars, cancelled, nonce, status,
                  finishedWork, receiverVars >>

-----------------------------------------------------------------------------
(* MinerReceiver *)

SeeForgetSubmits ==
  /\ receiverPc = "poll"
  /\ forget
  /\ receiverPc' = "stop"
  /\ UNCHANGED << poolVars, done, minerVars, cancelled, threadVars, status,
                  finishedWork, cpuMutex, panicked >>

(* Fault: the start before the latest one is stopped. *)
StopPreviousMining ==
  /\ receiverPc = "stop"
  /\ cancelled' = cancelled \cup ({starts - 1} \cap Starts)
  /\ receiverPc' = "clear"
  /\ UNCHANGED << poolVars, done, minerVars, threadVars, status, finishedWork,
                  cpuMutex, panicked >>

(* Before the first start there is nothing to cancel; during a start the   *)
(* context is still that of the start before.                              *)
StopCPUMining ==
  /\ receiverPc = "stop"
  /\ cancelled' = cancelled \cup ({starts} \cap Starts)
  /\ receiverPc' = "clear"
  /\ UNCHANGED << poolVars, done, minerVars, threadVars, status, finishedWork,
                  cpuMutex, panicked >>

ClearForgetSubmits ==
  /\ receiverPc = "clear"
  /\ StratumMutexFree
  /\ forget' = FALSE
  /\ receiverPc' = "look"
  /\ UNCHANGED << job, connection, historyVars, done, minerVars, cancelled,
                  threadVars, status, finishedWork, cpuMutex, panicked >>

(* Fault: the length is not looked at. *)
LookForWorkBlindly ==
  /\ \/ receiverPc = "poll" /\ ~ forget
     \/ receiverPc = "look"
  /\ receiverPc' = "lock"
  /\ UNCHANGED << poolVars, done, minerVars, cancelled, threadVars, status,
                  finishedWork, cpuMutex, panicked >>

(* The length is read without the mutex. *)
LookForWork ==
  /\ \/ receiverPc = "poll" /\ ~ forget
     \/ receiverPc = "look"
  /\ finishedWork > 0
  /\ receiverPc' = "lock"
  /\ UNCHANGED << poolVars, done, minerVars, cancelled, threadVars, status,
                  finishedWork, cpuMutex, panicked >>

NothingToDo ==
  /\ receiverPc = "look"
  /\ finishedWork = 0
  /\ receiverPc' = "poll"
  /\ UNCHANGED << poolVars, done, minerVars, cancelled, threadVars, status,
                  finishedWork, cpuMutex, panicked >>

(* StratumSubmit returns at once without a connection. *)
TakeWork ==
  /\ receiverPc = "lock"
  /\ cpuMutex = "free"
  /\ cpuMutex' = "receiver"
  /\ finishedWork' = finishedWork - 1
  /\ receiverPc' = IF connection = "closed" THEN "sleep" ELSE "write"
  /\ UNCHANGED << poolVars, done, minerVars, cancelled, threadVars, status,
                  panicked >>

WriteSubmit ==
  /\ receiverPc = "write"
  /\ connection # "closed"
  /\ receiverPc' = "sleep"
  /\ UNCHANGED << poolVars, done, minerVars, cancelled, threadVars, status,
                  finishedWork, cpuMutex, panicked >>

(* The connection went away after the test: MinerReceiver recovers, but    *)
(* the unlock was not yet deferred.                                        *)
PanicInSubmit ==
  /\ receiverPc = "write"
  /\ connection = "closed"
  /\ receiverPc' = "poll"
  /\ panicked' = TRUE
  /\ UNCHANGED << poolVars, done, minerVars, cancelled, threadVars, status,
                  finishedWork, cpuMutex >>

(* Fault: the unlock is forgotten. *)
ReturnKeepLocked ==
  /\ receiverPc = "sleep"
  /\ receiverPc' = "poll"
  /\ UNCHANGED << poolVars, done, minerVars, cancelled, threadVars, status,
                  finishedWork, cpuMutex, panicked >>

(* A second later; the rest of MinerReceiver finds nothing of its own. *)
ReturnUnlock ==
  /\ receiverPc = "sleep"
  /\ cpuMutex' = "free"
  /\ receiverPc' = "poll"
  /\ UNCHANGED << poolVars, done, minerVars, cancelled, threadVars, status,
                  finishedWork, panicked >>

-----------------------------------------------------------------------------
(* The pool, the network and the user *)

Notify ==
  /\ StratumMutexFree
  /\ job.id < MaxJobs
  /\ job' = NewJob(job.id + 1)
  /\ forget' \in BOOLEAN
  /\ rolled' = FALSE
  /\ UNCHANGED << connection, wrapped, done, minerVars, cancelled,
                  threadVars, status, finishedWork, receiverVars >>

(* Too many rejections. *)
ForceJobChange ==
  /\ StratumMutexFree
  /\ ~ forget
  /\ forget' = TRUE
  /\ UNCHANGED << job, connection, historyVars, done, minerVars, cancelled,
                  threadVars, status, finishedWork, receiverVars >>

Disconnect ==
  /\ connection = "first"
  /\ connection' = "closed"
  /\ UNCHANGED << job, forget, historyVars, done, minerVars, cancelled,
                  threadVars, status, finishedWork, receiverVars >>

Connect ==
  /\ connection = "closed"
  /\ connection' = "second"
  /\ UNCHANGED << job, forget, historyVars, done, minerVars, cancelled,
                  threadVars, status, finishedWork, receiverVars >>

Interrupt ==
  /\ ~ done
  /\ done' = TRUE
  /\ UNCHANGED << poolVars, minerVars, cancelled, threadVars, status,
                  finishedWork, receiverVars >>

-----------------------------------------------------------------------------

CPUMiner ==
  \/ SeeDone
  \/ RollExtraNonce2
  \/ BeginCopy
  \/ NewContext
  \/ StartThreads
  \/ SeeStatusOff

(* What a thread does besides hashing. *)
Pause(g, i) ==
  \/ StopThread(g, i)
  \/ AppendWork(g, i)
  \/ ReportHashrate(g, i)
  \/ ExhaustThread(g, i)

Thread(g, i) == HashNonce(g, i) \/ Pause(g, i)

MinerReceiver ==
  \/ SeeForgetSubmits
  \/ StopCPUMining
  \/ ClearForgetSubmits
  \/ LookForWork
  \/ NothingToDo
  \/ TakeWork
  \/ WriteSubmit
  \/ PanicInSubmit
  \/ ReturnUnlock

Outside == Notify \/ ForceJobChange \/ Disconnect \/ Connect \/ Interrupt

Next ==
  \/ CPUMiner
  \/ \E g \in Starts, i \in ThreadIds : Thread(g, i)
  \/ MinerReceiver
  \/ Outside

Spec == Init /\ [][Next]_vars

LastThread == \E g \in Starts : Pause(g, Threads)

(* The goroutines run, and sync.Mutex hands the lock to one that has       *)
(* waited for 1 ms: a goroutine that can go on again and again goes on.    *)
(* Nothing is said of how fast the nonces are used up, nor of the threads  *)
(* besides the last one; pool, network and user owe nothing.               *)
Fairness ==
  /\ SF_vars(CPUMiner)
  /\ SF_vars(LastThread)
  /\ SF_vars(MinerReceiver)

FairSpec == Spec /\ Fairness

-----------------------------------------------------------------------------
(* Properties *)

(* What the threads of a start have hashed. *)
Hashed(g, i) == ChunkStart(i) .. nonce[g][i] - 1

(* Two starts work on the same root: they have one, and it is not of a job *)
(* whose ExtraNonce2s have all been used.                                  *)
SameWork(g, h) ==
  /\ started[g].job.root = started[h].job.root
  /\ started[g].job.root # NoRoot
  /\ started[g].job.root[1] \notin wrapped

(* No hash is computed twice: a nonce that a thread is done with is within *)
(* its 32 bits, and no thread of any start has been through it with the    *)
(* same MerkleRoot, until the ExtraNonce2s of the job have all been used.  *)
(* The chunks of cpu.go:76-83 do not overlap, and a thread that outlives   *)
(* its start does not meet the later ones (cpu.go:85-93, miner.go:46-55).  *)
EveryHashIsNew ==
  [][\A g \in Starts, i \in ThreadIds :
       nonce'[g][i] # nonce[g][i] =>
         /\ nonce'[g][i] = nonce[g][i] + 1
         /\ nonce[g][i] \in 0 .. NonceSpace - 1
         /\ \A h \in 1 .. starts, j \in ThreadIds :
              nonce[g][i] \in Hashed(h, j) => ~ SameWork(g, h)]_vars

Alive(g, i) == threadPc[g][i] \in {"run", "found", "report"}

(* The threads that set Status: at any time at most one is alive, that of  *)
(* the latest start, and while it is Status is ON.  Threads of older       *)
(* starts may well be alive, kept from seeing their context in time and    *)
(* now looking at the new one (cpu.go:85-93, miner.go:48-54).              *)
OneThreadInCharge ==
  \A g \in Starts :
    Alive(g, Threads) => g = starts /\ status = "ON" /\ minerPc = "wait"

(* The root in a header is that of the job and of the ExtraNonce2 the      *)
(* share is submitted with, unless a notification came between the roll    *)
(* and the copy, two critical sections too few (miner.go:46-49,            *)
(* stratum.go:275-287): then the header may have no MerkleRoot at all.     *)
HeaderIsOfTheJob ==
  \A g \in 1 .. starts :
    started[g].rolled =>
      started[g].job.root =
        MerkleRoot(started[g].job.id, started[g].job.extraNonce2)

(* The work of a start is done again only when the ExtraNonce2s of its job *)
(* have all been used: until then a MerkleRoot, when there is one, is that *)
(* of one start, however notifications reset ExtraNonce2 between two rolls *)
(* and PadLeft cuts it (miner.go:45-49, stratum.go:275-287, 413-433).      *)
NoRootTwice == \A g, h \in 1 .. starts : SameWork(g, h) => g = h

(* CPU.Mutex outlives a round of MinerReceiver in no other way than by a   *)
(* panic in StratumSubmit, which takes a reconnection: the unlock is       *)
(* deferred only after the submit (miner.go:236-251).                      *)
MutexLostByPanic ==
  /\ cpuMutex = "receiver" => receiverPc \in {"write", "sleep"} \/ panicked
  /\ panicked => connection # "first"

(* "restart mining if job need change" (miner.go:228): a job that asks for *)
(* it while the threads run is mined, or a later one, unless the last      *)
(* thread has run out of nonces (cpu.go:140-143), the reconnection took    *)
(* StratumMutex or the program has ended.  The two premises are needed.    *)
(* While a start is under way (miner.go:49, cpu.go:42) the context of the  *)
(* start before is cancelled; and a request that comes between             *)
(* StopCPUMining and the clearing of ForgetSubmits (miner.go:231-233) is   *)
(* cleared unseen.                                                         *)
JobChangeRestarts ==
  \A n \in 1 .. MaxJobs :
    /\ job.id = n
    /\ forget
    /\ minerPc = "wait"
    /\ receiverPc # "clear"
    ~> \/ starts > 0 /\ started[starts].job.id >= n
       \/ starts > 0 /\ ~ Alive(starts, Threads) /\ status = "ON"
       \/ connection # "first"
       \/ minerPc = "exit"
       \/ starts = MaxStarts
=============================================================================
