-------------------------- MODULE CpuMinerProofs --------------------------
(***************************************************************************)
(* Theorems about CpuMiner and their proofs, for any number of threads,    *)
(* any size of their chunks, and any number of starts and jobs.            *)
(***************************************************************************)
EXTENDS CpuMiner, TLAPS

-----------------------------------------------------------------------------
(* The chunks *)

(* The size of a chunk, and that all of them fit. *)
LEMMA ChunkSize ==
  /\ Threads \in Nat \ {0}
  /\ NonceSpace \div Threads \in Nat
  /\ (NonceSpace \div Threads) * Threads <= NonceSpace
BY CpuAssumption

(* Products with a natural number keep the order. *)
LEMMA TimesMonotone ==
  ASSUME NEW c \in Nat, NEW a \in Nat, NEW b \in Nat, a <= b
  PROVE  c * a \in Nat /\ c * b \in Nat /\ c * a <= c * b
OBVIOUS

(* A chunk is within the nonces, and ends before a later one begins. *)
LEMMA Chunks ==
  ASSUME NEW i \in ThreadIds
  PROVE  /\ ChunkStart(i) \in Nat
         /\ ChunkEnd(i) \in Nat
         /\ ChunkStart(i) <= ChunkEnd(i)
         /\ ChunkEnd(i) <= NonceSpace
         /\ \A j \in ThreadIds : i < j => ChunkEnd(i) <= ChunkStart(j)
<1> DEFINE c == NonceSpace \div Threads
<1>1. c \in Nat /\ c * Threads <= NonceSpace /\ Threads \in Nat
  BY ChunkSize
<1>2. i \in Nat /\ i - 1 \in Nat /\ i <= Threads
  BY <1>1 DEF ThreadIds
<1> HIDE DEF c
<1>3. c * (i - 1) \in Nat /\ c * i \in Nat /\ c * (i - 1) <= c * i
  <2>1. i - 1 <= i
    BY <1>2
  <2>2. QED
    BY <1>1, <1>2, <2>1, TimesMonotone
<1>4. c * i <= NonceSpace
  <2>1. c * i <= c * Threads /\ c * Threads \in Nat
    BY <1>1, <1>2, TimesMonotone
  <2>2. NonceSpace \in Nat
    BY CpuAssumption
  <2>3. QED
    BY <1>1, <1>3, <2>1, <2>2
<1>5. ASSUME NEW j \in ThreadIds, i < j
      PROVE  c * i <= c * (j - 1)
  <2>1. j - 1 \in Nat /\ i <= j - 1
    BY <1>2, <1>5 DEF ThreadIds
  <2>2. QED
    BY <1>1, <1>2, <2>1, TimesMonotone
<1>6. QED
  BY <1>3, <1>4, <1>5 DEF c, ChunkStart, ChunkEnd

-----------------------------------------------------------------------------
(* The invariants *)

(* MinerReceiver goes for the mutex only when there is a share, and it is  *)
(* the only one to take shares.                                            *)
TypeInv ==
  /\ TypeOK
  /\ receiverPc = "lock" => finishedWork > 0

(* A thread stays in its chunk. *)
ChunkInv ==
  \A g \in Starts, i \in ThreadIds :
    /\ nonce[g][i] \in ChunkStart(i) .. ChunkEnd(i)
    /\ threadPc[g][i] = "found" => nonce[g][i] < ChunkEnd(i)

(* Threads exist of past starts only, and Status is ON only while CPUMiner *)
(* waits.                                                                  *)
ChargeInv ==
  /\ \A g \in Starts, i \in ThreadIds :
       g > starts \/ (g = starts /\ minerPc = "start")
         => threadPc[g][i] = "none"
  /\ status = "ON" => minerPc = "wait"
  /\ OneThreadInCharge

(* What CPUMiner has rolled it copies, until a notification comes. *)
HeaderInv ==
  /\ minerPc = "copy" => starts < MaxStarts
  /\ rolled =>
       /\ minerPc \in {"check", "copy"}
       /\ job.root = MerkleRoot(job.id, job.extraNonce2)
       /\ minerPc = "copy" => started[starts + 1].job = job
  /\ HeaderIsOfTheJob

(* An ExtraNonce2 in the order in which a job is rolled: 0 comes last. *)
Place(e) == IF e = 0 THEN ExtraNonce2Space ELSE e

(* A MerkleRoot that job has had, or may have now. *)
Past(root) ==
  \/ root = NoRoot
  \/ root[1] < job.id
  \/ /\ root[1] = job.id
     /\ \/ root[1] \in wrapped
        \/ job.root # NoRoot /\ Place(root[2]) <= Place(job.extraNonce2)

(* No start has had this root yet, unless the ExtraNonce2s have come round. *)
Unused(root) ==
  \A g \in 1 .. starts :
    started[g].job.root = root => root = NoRoot \/ root[1] \in wrapped

(* The roots of the starts are past, and the one to come is not of them. *)
RootInv ==
  /\ minerPc = "copy" => starts < MaxStarts
  /\ job.root = NoRoot \/ job.root = MerkleRoot(job.id, job.extraNonce2)
  /\ \A g \in 1 .. starts : Past(started[g].job.root)
  /\ minerPc = "copy" => Past(started[starts + 1].job.root)
  /\ minerPc \in {"check", "copy"} => Unused(job.root)
  /\ minerPc = "copy" => Unused(started[starts + 1].job.root)
  /\ NoRootTwice

(* The mutex is MinerReceiver's while it submits. *)
MutexInv ==
  /\ receiverPc \in {"write", "sleep"} => cpuMutex = "receiver"
  /\ MutexLostByPanic

-----------------------------------------------------------------------------
(* Types *)

(* The fields of a job, as the provers need them. *)
LEMMA JobFields ==
  ASSUME NEW j \in Job
  PROVE  /\ DOMAIN j = {"id", "extraNonce2", "root"}
         /\ j.id \in 1 .. MaxJobs
         /\ j.extraNonce2 \in 0 .. ExtraNonce2Space - 1
         /\ j.extraNonce2 \in Nat
         /\ j.root \in Nat \X Nat
BY CpuAssumption DEF Job

(* A job with a field from one job or the other is a job. *)
LEMMA MixedJob ==
  ASSUME NEW j \in Job, NEW k \in Job, NEW late \in SUBSET DOMAIN j,
         NEW m, m = [f \in DOMAIN j |-> IF f \in late THEN j[f] ELSE k[f]]
  PROVE  /\ m \in Job
         /\ m.root = j.root \/ m.root = k.root
         /\ j = k => m = j
<1>1. DOMAIN j = {"id", "extraNonce2", "root"}
  BY JobFields
<1>2. /\ m.id \in {j.id, k.id}
      /\ m.extraNonce2 \in {j.extraNonce2, k.extraNonce2}
      /\ m.root \in {j.root, k.root}
  BY <1>1
<1>3. m = [id |-> m.id, extraNonce2 |-> m.extraNonce2, root |-> m.root]
  BY <1>1
<1>4. /\ m.id \in 1 .. MaxJobs
      /\ m.extraNonce2 \in 0 .. ExtraNonce2Space - 1
      /\ m.root \in Nat \X Nat
  BY <1>2, JobFields
<1>5. m \in Job
  BY <1>3, <1>4 DEF Job
<1>6. ASSUME j = k
      PROVE  m = j
  <2>1. j = [f \in DOMAIN j |-> j[f]]
    BY DEF Job
  <2>2. QED
    BY <1>6, <2>1
<1>7. QED
  BY <1>2, <1>5, <1>6

(* A notification makes a job. *)
LEMMA NewJobType ==
  ASSUME NEW id \in 1 .. MaxJobs
  PROVE  /\ NewJob(id) \in Job
         /\ NewJob(id).id = id /\ NewJob(id).extraNonce2 = 0
         /\ NewJob(id).root = NoRoot
BY CpuAssumption DEF NewJob, Job, NoRoot

(* The next number, 0 after the last. *)
LEMMA ModNext ==
  ASSUME NEW m \in Nat \ {0}, NEW e \in 0 .. m - 1
  PROVE  (e + 1) % m = IF e + 1 = m THEN 0 ELSE e + 1
<1>1. CASE e + 1 = m
  BY <1>1
<1>2. CASE e + 1 < m
  BY <1>2
<1>3. QED
  BY <1>1, <1>2

(* What the roll makes of LastStratumJob, and that the next ExtraNonce2 is *)
(* in the next place, or all have been used.                               *)
LEMMA RolledJob ==
  ASSUME TypeOK, RollExtraNonce2
  PROVE  /\ job' \in Job
         /\ job'.id = job.id
         /\ job'.root = MerkleRoot(job'.id, job'.extraNonce2)
         /\ job'.root # NoRoot
         /\ wrapped \subseteq wrapped' /\ wrapped' \subseteq 1 .. MaxJobs
         /\ \/ job.id \in wrapped'
            \/ job.root = NoRoot
            \/ Place(job'.extraNonce2) = Place(job.extraNonce2) + 1
<1> DEFINE e == job.extraNonce2
           n == NextExtraNonce2
<1>1. /\ job.id \in 1 .. MaxJobs /\ job.id \in Nat \ {0}
      /\ e \in 0 .. ExtraNonce2Space - 1 /\ e \in Nat
      /\ ExtraNonce2Space \in Nat \ {0}
  BY JobFields, CpuAssumption DEF TypeOK
<1>2. n = IF e + 1 = ExtraNonce2Space THEN 0 ELSE e + 1
  BY <1>1, ModNext DEF NextExtraNonce2
<1>3. n \in 0 .. ExtraNonce2Space - 1 /\ n \in Nat
  BY <1>1, <1>2
<1>4. job' = [id |-> job.id, extraNonce2 |-> n, root |-> << job.id, n >>]
  BY DEF RollExtraNonce2, TypeOK, Job, MerkleRoot
<1>5. wrapped' = wrapped \cup (IF ComesRound THEN {job.id} ELSE {})
  BY DEF RollExtraNonce2, NoteRoll
<1>6. e # 0 => Place(n) = Place(e) + 1
  BY <1>1, <1>2 DEF Place
<1>7. job.id \in wrapped' \/ job.root = NoRoot \/ e # 0
  BY <1>5 DEF ComesRound
<1> HIDE DEF e, n
<1>8. /\ job' \in Job /\ job'.id = job.id /\ job'.extraNonce2 = n
      /\ job'.root = << job.id, n >>
  BY <1>1, <1>3, <1>4 DEF Job
<1>9. job'.root # NoRoot
  BY <1>1, <1>8 DEF NoRoot
<1>10. wrapped \subseteq wrapped' /\ wrapped' \subseteq 1 .. MaxJobs
  BY <1>1, <1>5 DEF TypeOK
<1>11. QED
  BY <1>6, <1>7, <1>8, <1>9, <1>10 DEF e, MerkleRoot

(* What BeginCopy writes. *)
LEMMA CopyBegun ==
  ASSUME TypeOK, BeginCopy
  PROVE  /\ starts + 1 \in Starts
         /\ started' \in [Starts -> [job : Job, rolled : BOOLEAN]]
         /\ started'[starts + 1].job = job
         /\ \A g \in 1 .. starts : started'[g] = started[g]
<1>1. starts + 1 \in Starts
  BY CpuAssumption DEF TypeOK, BeginCopy, Starts
<1>2. /\ started[starts + 1] \in [job : Job, rolled : BOOLEAN]
      /\ job \in Job
  BY <1>1 DEF TypeOK
<1>3. started' = [started EXCEPT ![starts + 1] =
                   [started[starts + 1] EXCEPT !.job = job]]
  BY DEF BeginCopy
<1>4. [started[starts + 1] EXCEPT !.job = job] \in [job : Job, rolled : BOOLEAN]
  BY <1>2
<1>5. [started[starts + 1] EXCEPT !.job = job].job = job
  BY <1>2
<1>6. \A g \in 1 .. starts : g \in Starts /\ g # starts + 1
  BY CpuAssumption DEF TypeOK, BeginCopy, Starts
<1>7. QED
  BY <1>1, <1>3, <1>4, <1>5, <1>6 DEF TypeOK

(* Both fields of an entry of started replaced. *)
LEMMA BothFields ==
  ASSUME NEW r \in [job : Job, rolled : BOOLEAN], NEW m, NEW b
  PROVE  [[r EXCEPT !.job = m] EXCEPT !.rolled = b] = [job |-> m, rolled |-> b]
<1>1. DOMAIN r = {"job", "rolled"}
  OBVIOUS
<1> DEFINE s == [r EXCEPT !.job = m]
           t == [s EXCEPT !.rolled = b]
<1>2. s = [f \in {"job", "rolled"} |-> IF f = "job" THEN m ELSE r[f]]
  BY <1>1
<1>3. t = [f \in {"job", "rolled"} |-> IF f = "rolled" THEN b ELSE s[f]]
  BY <1>2
<1>4. t = [f \in {"job", "rolled"} |-> IF f = "job" THEN m ELSE b]
  BY <1>2, <1>3
<1>5. QED
  BY <1>4

(* What NewContext makes of the copy, given that there is room for it. *)
LEMMA CopyEnded ==
  ASSUME TypeOK, NewContext, starts < MaxStarts
  PROVE  /\ starts + 1 \in Starts
         /\ starts' = starts + 1
         /\ started' \in [Starts -> [job : Job, rolled : BOOLEAN]]
         /\ started'[starts + 1].rolled = rolled
         /\ \/ started'[starts + 1].job.root = job.root
            \/ started'[starts + 1].job.root = started[starts + 1].job.root
         /\ started[starts + 1].job = job => started'[starts + 1].job = job
         /\ \A g \in 1 .. starts : started'[g] = started[g]
<1>1. starts + 1 \in Starts /\ \A g \in 1 .. starts : g \in Starts /\ g # starts + 1
  BY CpuAssumption DEF TypeOK, Starts
<1>2. PICK late \in SUBSET DOMAIN job :
        started' = [started EXCEPT
          ![starts + 1].job =
            [f \in DOMAIN job |-> IF f \in late THEN job[f] ELSE @[f]],
          ![starts + 1].rolled = rolled]
  BY DEF NewContext
<1> DEFINE k == started[starts + 1].job
           m == [f \in DOMAIN job |-> IF f \in late THEN job[f] ELSE k[f]]
<1>3. started' = [started EXCEPT ![starts + 1] = [job |-> m, rolled |-> rolled]]
  <2>1. started[starts + 1] \in [job : Job, rolled : BOOLEAN]
    BY <1>1 DEF TypeOK
  <2>2. started[starts + 1] = [job |-> k, rolled |-> started[starts + 1].rolled]
    BY <2>1
  <2>3. started' = [started EXCEPT ![starts + 1] =
                     [[started[starts + 1] EXCEPT !.job = m]
                        EXCEPT !.rolled = rolled]]
    BY <1>1, <1>2 DEF TypeOK
  <2>4. [[started[starts + 1] EXCEPT !.job = m] EXCEPT !.rolled = rolled]
          = [job |-> m, rolled |-> rolled]
    BY <2>1, BothFields
  <2>5. QED
    BY <2>3, <2>4
<1>4. /\ m \in Job
      /\ m.root = job.root \/ m.root = k.root
      /\ job = k => m = job
  <2>1. job \in Job /\ k \in Job
    BY <1>1 DEF TypeOK
  <2> HIDE DEF k
  <2>2. QED
    BY <2>1, MixedJob
<1> HIDE DEF m
<1>5. QED
  BY <1>1, <1>3, <1>4 DEF TypeOK, NewContext

(* A step of one thread leaves the others where they are. *)
LEMMA Moved ==
  ASSUME TypeOK, NEW g \in Starts, NEW i \in ThreadIds,
         NEW pc \in {"none", "run", "found", "report", "ended"},
         MoveThread(g, i, pc)
  PROVE  /\ threadPc' \in [Starts -> [ThreadIds ->
                             {"none", "run", "found", "report", "ended"}]]
         /\ threadPc'[g][i] = pc
         /\ \A h \in Starts, j \in ThreadIds :
              h # g \/ j # i => threadPc'[h][j] = threadPc[h][j]
BY DEF TypeOK, MoveThread

(* So does the step to its next nonce. *)
LEMMA Counted ==
  ASSUME TypeOK, NEW g \in Starts, NEW i \in ThreadIds, NextNonce(g, i)
  PROVE  /\ threadPc' \in [Starts -> [ThreadIds ->
                             {"none", "run", "found", "report", "ended"}]]
         /\ threadPc'[g][i] \in {"run", "report"}
         /\ \A h \in Starts, j \in ThreadIds :
              h # g \/ j # i => threadPc'[h][j] = threadPc[h][j]
         /\ nonce' \in [Starts -> [ThreadIds -> Nat]]
         /\ nonce'[g][i] = nonce[g][i] + 1
         /\ \A h \in Starts, j \in ThreadIds :
              h # g \/ j # i => nonce'[h][j] = nonce[h][j]
<1>1. nonce[g][i] \in Nat
  BY DEF TypeOK
<1>2. nonce' = [nonce EXCEPT ![g][i] = nonce[g][i] + 1]
  BY DEF NextNonce
<1>3. MoveThread(g, i, "report") \/ MoveThread(g, i, "run")
  BY DEF NextNonce
<1>4. QED
  BY <1>1, <1>2, <1>3, Moved DEF TypeOK

LEMMA TypeInit == Init => TypeInv
<1>1. NewJob(1) \in Job
  BY CpuAssumption, NewJobType
<1>2. \A i \in ThreadIds : ChunkStart(i) \in Nat
  BY Chunks
<1>3. ASSUME Init
      PROVE  /\ started \in [Starts -> [job : Job, rolled : BOOLEAN]]
             /\ threadPc \in [Starts -> [ThreadIds ->
                  {"none", "run", "found", "report", "ended"}]]
             /\ nonce \in [Starts -> [ThreadIds -> Nat]]
  BY <1>1, <1>2, <1>3 DEF Init
<1>4. ASSUME Init
      PROVE  starts \in 0 .. MaxStarts /\ cancelled \subseteq 1 .. starts
  BY <1>4, CpuAssumption DEF Init
<1>5. ASSUME Init
      PROVE  /\ job \in Job
             /\ forget \in BOOLEAN /\ done \in BOOLEAN /\ rolled \in BOOLEAN
             /\ wrapped = {} /\ panicked = FALSE
             /\ connection = "first" /\ minerPc = "top" /\ status = "OFF"
             /\ cpuMutex = "free" /\ receiverPc = "poll" /\ finishedWork \in Nat
  BY <1>1, <1>5 DEF Init
<1>6. QED
  BY <1>3, <1>4, <1>5 DEF TypeInv, TypeOK

LEMMA TypeStep ==
  ASSUME TypeInv, [Next]_vars, minerPc = "copy" => starts < MaxStarts
  PROVE  TypeInv'

<1>1. CASE UNCHANGED vars
  BY <1>1 DEF vars, TypeInv, TypeOK, poolVars, historyVars, minerVars,
       threadVars, receiverVars
<1>2. CASE SeeDone
  BY <1>2 DEF SeeDone, TypeInv, TypeOK, poolVars, historyVars, minerVars,
       threadVars, receiverVars
<1>3. CASE RollExtraNonce2
  BY <1>3, RolledJob DEF RollExtraNonce2, NoteRoll, TypeInv, TypeOK,
       threadVars, receiverVars
<1>4. CASE BeginCopy
  BY <1>4, CopyBegun DEF BeginCopy, TypeInv, TypeOK, poolVars, historyVars,
       minerVars, threadVars, receiverVars
<1>5. CASE NewContext
  <2>1. minerPc = "copy" /\ starts < MaxStarts
    BY <1>5 DEF NewContext
  <2>2. starts' \in 0 .. MaxStarts /\ 1 .. starts \subseteq 1 .. starts'
    BY <1>5, <2>1, CpuAssumption DEF NewContext, TypeInv, TypeOK
  <2>3. started' \in [Starts -> [job : Job, rolled : BOOLEAN]]
    BY <1>5, <2>1, CopyEnded DEF TypeInv
  <2>4. QED
    BY <1>5, <2>2, <2>3 DEF NewContext, TypeInv, TypeOK, threadVars,
         receiverVars
<1>6. CASE StartThreads
  BY <1>6 DEF StartThreads, TypeInv, TypeOK, poolVars, historyVars, minerVars,
       threadVars, receiverVars
<1>7. CASE SeeStatusOff
  BY <1>7 DEF SeeStatusOff, TypeInv, TypeOK, poolVars, historyVars, minerVars,
       threadVars, receiverVars
<1>8. CASE SeeForgetSubmits
  BY <1>8 DEF SeeForgetSubmits, TypeInv, TypeOK, poolVars, historyVars,
       minerVars, threadVars, receiverVars
<1>9. CASE StopCPUMining
  BY <1>9, CpuAssumption DEF StopCPUMining, TypeInv, TypeOK, poolVars,
       historyVars, minerVars, threadVars, receiverVars, Starts
<1>10. CASE ClearForgetSubmits
  BY <1>10 DEF ClearForgetSubmits, TypeInv, TypeOK, poolVars, historyVars,
       minerVars, threadVars, receiverVars
<1>11. CASE LookForWork
  BY <1>11 DEF LookForWork, TypeInv, TypeOK, poolVars, historyVars, minerVars,
       threadVars, receiverVars
<1>12. CASE NothingToDo
  BY <1>12 DEF NothingToDo, TypeInv, TypeOK, poolVars, historyVars, minerVars,
       threadVars, receiverVars
<1>13. CASE TakeWork
  BY <1>13 DEF TakeWork, TypeInv, TypeOK, poolVars, historyVars, minerVars,
       threadVars, receiverVars
<1>14. CASE WriteSubmit
  BY <1>14 DEF WriteSubmit, TypeInv, TypeOK, poolVars, historyVars, minerVars,
       threadVars, receiverVars
<1>15. CASE PanicInSubmit
  BY <1>15 DEF PanicInSubmit, TypeInv, TypeOK, poolVars, historyVars,
       minerVars, threadVars, receiverVars
<1>16. CASE ReturnUnlock
  BY <1>16 DEF ReturnUnlock, TypeInv, TypeOK, poolVars, historyVars, minerVars,
       threadVars, receiverVars
<1>17. CASE Notify
  <2>1. job.id + 1 \in 1 .. MaxJobs
    BY <1>17, JobFields, CpuAssumption DEF Notify, TypeInv, TypeOK
  <2>2. NewJob(job.id + 1) \in Job
    BY <2>1, NewJobType
  <2>3. QED
    BY <1>17, <2>2 DEF Notify, TypeInv, TypeOK, minerVars, threadVars,
         receiverVars
<1>18. CASE ForceJobChange
  BY <1>18 DEF ForceJobChange, TypeInv, TypeOK, poolVars, historyVars,
       minerVars, threadVars, receiverVars
<1>19. CASE Disconnect
  BY <1>19 DEF Disconnect, TypeInv, TypeOK, poolVars, historyVars, minerVars,
       threadVars, receiverVars
<1>20. CASE Connect
  BY <1>20 DEF Connect, TypeInv, TypeOK, poolVars, historyVars, minerVars,
       threadVars, receiverVars
<1>21. CASE Interrupt
  BY <1>21 DEF Interrupt, TypeInv, TypeOK, poolVars, historyVars, minerVars,
       threadVars, receiverVars
<1>22. ASSUME NEW g \in Starts, NEW i \in ThreadIds, StopThread(g, i)
      PROVE  TypeInv'
  BY <1>22 DEF StopThread, TypeInv, TypeOK, poolVars, historyVars, minerVars,
       threadVars, receiverVars, MoveThread, Running
<1>23. ASSUME NEW g \in Starts, NEW i \in ThreadIds, HashNonce(g, i)
      PROVE  TypeInv'
  BY <1>23, Counted, Moved DEF HashNonce, TypeInv, TypeOK, poolVars,
       historyVars, minerVars, threadVars, receiverVars
<1>24. ASSUME NEW g \in Starts, NEW i \in ThreadIds, AppendWork(g, i)
      PROVE  TypeInv'
  BY <1>24, Counted DEF AppendWork, TypeInv, TypeOK, poolVars, historyVars,
       minerVars, threadVars, receiverVars
<1>25. ASSUME NEW g \in Starts, NEW i \in ThreadIds, ReportHashrate(g, i)
      PROVE  TypeInv'
  BY <1>25 DEF ReportHashrate, TypeInv, TypeOK, poolVars, historyVars,
       minerVars, threadVars, receiverVars, MoveThread
<1>26. ASSUME NEW g \in Starts, NEW i \in ThreadIds, ExhaustThread(g, i)
      PROVE  TypeInv'
  BY <1>26 DEF ExhaustThread, TypeInv, TypeOK, poolVars, historyVars,
       minerVars, threadVars, receiverVars, MoveThread
<1>27. QED
  BY <1>1, <1>2, <1>3, <1>4, <1>5, <1>6, <1>7, <1>8, <1>9, <1>10, <1>11,
       <1>12, <1>13, <1>14, <1>15, <1>16, <1>17, <1>18, <1>19, <1>20, <1>21,
       <1>22, <1>23, <1>24, <1>25, <1>26 DEF Next, CPUMiner, MinerReceiver,
       Outside, Thread, Pause

-----------------------------------------------------------------------------
(* Who changes what *)

(* Threads move by themselves, except when they are started. *)
LEMMA ThreadFrame ==
  ASSUME Next
  PROVE  \/ UNCHANGED threadVars
         \/ StartThreads
         \/ \E g \in Starts, i \in ThreadIds : Thread(g, i)
BY DEF Next, CPUMiner, MinerReceiver, Outside, threadVars, SeeDone,
     RollExtraNonce2, BeginCopy, NewContext, SeeStatusOff, SeeForgetSubmits,
     StopCPUMining, ClearForgetSubmits, LookForWork, NothingToDo, TakeWork,
     WriteSubmit, PanicInSubmit, ReturnUnlock, Notify, ForceJobChange,
     Disconnect, Connect, Interrupt

(* CPUMiner alone moves on, and only a thread or a start changes Status. *)
LEMMA MinerFrame ==
  ASSUME Next
  PROVE  \/ UNCHANGED << minerVars, threadVars, status >>
         \/ CPUMiner
         \/ \E g \in Starts, i \in ThreadIds : Thread(g, i)
BY DEF Next, MinerReceiver, Outside, threadVars, SeeForgetSubmits,
     StopCPUMining, ClearForgetSubmits, LookForWork, NothingToDo, TakeWork,
     WriteSubmit, PanicInSubmit, ReturnUnlock, Notify, ForceJobChange,
     Disconnect, Connect, Interrupt

(* Jobs are made by the roll and by notifications. *)
LEMMA JobFrame ==
  ASSUME Next
  PROVE  \/ UNCHANGED << job, historyVars, minerVars >>
         \/ CPUMiner
         \/ Notify
BY DEF Next, MinerReceiver, Outside, Thread, Pause, poolVars, historyVars,
     minerVars,
     SeeForgetSubmits, StopCPUMining, ClearForgetSubmits, LookForWork,
     NothingToDo, TakeWork, WriteSubmit, PanicInSubmit, ReturnUnlock, Notify,
     ForceJobChange, Disconnect, Connect, Interrupt, StopThread, HashNonce,
     AppendWork, ReportHashrate, ExhaustThread

(* MinerReceiver alone uses CPU.Mutex beyond a step. *)
LEMMA ReceiverFrame ==
  ASSUME Next
  PROVE  \/ UNCHANGED receiverVars /\ (connection' = "first" => connection = "first")
         \/ MinerReceiver
BY DEF Next, CPUMiner, Outside, Thread, Pause, poolVars, receiverVars, SeeDone,
     RollExtraNonce2, BeginCopy, NewContext, StartThreads, SeeStatusOff,
     Notify, ForceJobChange, Disconnect, Connect, Interrupt, StopThread,
     HashNonce, AppendWork, ReportHashrate, ExhaustThread

-----------------------------------------------------------------------------
(* The nonces *)

LEMMA ChunkInit == Init => ChunkInv
<1>1. \A i \in ThreadIds : ChunkStart(i) \in ChunkStart(i) .. ChunkEnd(i)
  BY Chunks
<1>2. QED
  BY <1>1 DEF Init, ChunkInv

LEMMA ChunkStep ==
  ASSUME TypeOK, ChunkInv, [Next]_vars
  PROVE  ChunkInv'
<1>1. CASE UNCHANGED threadVars
  BY <1>1 DEF ChunkInv, threadVars
<1>2. CASE StartThreads
  BY <1>2 DEF StartThreads, ChunkInv, TypeOK, threadVars
<1>3. ASSUME NEW g \in Starts, NEW i \in ThreadIds, Thread(g, i)
      PROVE  ChunkInv'
  <2>1. nonce[g][i] \in Nat /\ ChunkStart(i) \in Nat /\ ChunkEnd(i) \in Nat
    BY Chunks DEF TypeOK
  <2>2. CASE HashNonce(g, i)
    <3>1. CASE MoveThread(g, i, "found") /\ UNCHANGED nonce
      BY <2>1, <2>2, <3>1, Moved DEF HashNonce, Running, ChunkInv
    <3>2. CASE NextNonce(g, i)
      BY <2>1, <2>2, <3>2, Counted DEF HashNonce, Running, ChunkInv
    <3>3. QED
      BY <2>2, <3>1, <3>2 DEF HashNonce
  <2>3. CASE AppendWork(g, i)
    BY <2>1, <2>3, Counted DEF AppendWork, ChunkInv
  <2>4. CASE \E pc \in {"run", "ended"} : MoveThread(g, i, pc) /\ UNCHANGED nonce
    BY <2>4, Moved DEF ChunkInv
  <2>5. QED
    BY <1>3, <2>2, <2>3, <2>4
    DEF Thread, Pause, StopThread, ReportHashrate, ExhaustThread
<1>4. QED
  BY <1>1, <1>2, <1>3, ThreadFrame DEF vars

(* No nonce is hashed by two threads of a start, and none outside the      *)
(* 32 bits a nonce has: the chunks of cpu.go:76-83 do not overlap.         *)
NoNonceTwice ==
  \A g \in Starts, i, j \in ThreadIds :
    /\ Hashed(g, i) \subseteq 0 .. NonceSpace - 1
    /\ i # j => Hashed(g, i) \cap Hashed(g, j) = {}

LEMMA ChunkSafe == ChunkInv => NoNonceTwice
<1> SUFFICES ASSUME ChunkInv, NEW g \in Starts, NEW i \in ThreadIds,
                    NEW j \in ThreadIds
             PROVE  /\ Hashed(g, i) \subseteq 0 .. NonceSpace - 1
                    /\ i # j => Hashed(g, i) \cap Hashed(g, j) = {}
  BY DEF NoNonceTwice
<1>1. /\ i \in Int /\ j \in Int
      /\ NonceSpace \in Int
      /\ ChunkStart(i) \in Nat /\ ChunkEnd(i) \in Nat
      /\ ChunkStart(j) \in Nat /\ ChunkEnd(j) \in Nat
      /\ ChunkEnd(i) <= NonceSpace
      /\ i < j => ChunkEnd(i) <= ChunkStart(j)
      /\ j < i => ChunkEnd(j) <= ChunkStart(i)
  BY Chunks, CpuAssumption DEF ThreadIds
<1>2. /\ nonce[g][i] \in ChunkStart(i) .. ChunkEnd(i)
      /\ nonce[g][j] \in ChunkStart(j) .. ChunkEnd(j)
  BY DEF ChunkInv
<1>3. i < j \/ j < i \/ i = j
  BY <1>1
<1>4. QED
  BY <1>1, <1>2, <1>3 DEF Hashed

-----------------------------------------------------------------------------
(* The thread in charge of Status *)

LEMMA ChargeInit == Init => ChargeInv
<1>1. Threads \in ThreadIds
  BY CpuAssumption DEF ThreadIds
<1>2. QED
  BY <1>1 DEF Init, ChargeInv, OneThreadInCharge, Alive

LEMMA ChargeStep ==
  ASSUME TypeOK, ChargeInv, minerPc = "copy" => starts < MaxStarts,
         [Next]_vars
  PROVE  ChargeInv'
<1>0. Threads \in ThreadIds /\ starts \in Nat /\ Starts \subseteq Nat
  BY CpuAssumption DEF ThreadIds, TypeOK, Starts
<1>1. CASE UNCHANGED << minerVars, threadVars, status >>
  BY <1>1 DEF ChargeInv, OneThreadInCharge, Alive, minerVars, threadVars
<1>2. CASE CPUMiner
  <2>1. CASE SeeDone \/ RollExtraNonce2 \/ BeginCopy \/ SeeStatusOff
    <3>1. /\ UNCHANGED << starts, threadVars, status >>
          /\ minerPc # "start" /\ minerPc' # "start" /\ status' = "OFF"
      BY <2>1 DEF SeeDone, RollExtraNonce2, BeginCopy, SeeStatusOff, ChargeInv,
           TypeOK
    <3>2. \A g \in Starts : ~ Alive(g, Threads)
      BY <3>1 DEF ChargeInv, OneThreadInCharge
    <3>3. QED
      BY <3>1, <3>2 DEF ChargeInv, OneThreadInCharge, Alive, threadVars
  <2>2. CASE NewContext
    BY <1>0, <2>2 DEF NewContext, ChargeInv, OneThreadInCharge, Alive,
         threadVars
  <2>3. CASE StartThreads
    <3>1. /\ minerPc = "start" /\ minerPc' = "wait" /\ status' = "ON"
          /\ starts' = starts
          /\ \A g \in Starts, i \in ThreadIds :
               g # starts => threadPc'[g][i] = threadPc[g][i]
      BY <2>3 DEF StartThreads, TypeOK
    <3>2. \A g \in Starts : Alive(g, Threads)' => g = starts
      BY <1>0, <3>1 DEF Alive, ChargeInv, OneThreadInCharge
    <3>3. QED
      BY <1>0, <3>1, <3>2 DEF ChargeInv, OneThreadInCharge
  <2>4. QED
    BY <1>2, <2>1, <2>2, <2>3 DEF CPUMiner
<1>3. ASSUME NEW g \in Starts, NEW i \in ThreadIds, Thread(g, i)
      PROVE  ChargeInv'
  <2>1. threadPc[g][i] \in {"run", "found", "report"}
    BY <1>3 DEF Thread, Pause, StopThread, HashNonce, AppendWork,
                ReportHashrate, ExhaustThread, Running
  <2>2. /\ UNCHANGED minerVars
        /\ \A h \in Starts, j \in ThreadIds :
             h # g \/ j # i => threadPc'[h][j] = threadPc[h][j]
        /\ \/ status' = status
           \/ i = Threads /\ threadPc'[g][i] = "ended" /\ status' = "OFF"
    BY <1>3, Moved, Counted
    DEF Thread, Pause, StopThread, HashNonce, AppendWork, ReportHashrate,
        ExhaustThread
  <2>3. \A h \in Starts : Alive(h, Threads)' => Alive(h, Threads)
    BY <1>0, <2>1, <2>2 DEF Alive
  <2>4. CASE status' = status
    BY <2>1, <2>2, <2>3, <2>4 DEF ChargeInv, OneThreadInCharge, minerVars
  <2>5. CASE i = Threads /\ threadPc'[g][i] = "ended" /\ status' = "OFF"
    <3>1. g = starts
      BY <2>1, <2>5 DEF ChargeInv, OneThreadInCharge, Alive
    <3>2. \A h \in Starts : ~ Alive(h, Threads)'
      BY <2>3, <2>5, <3>1 DEF ChargeInv, OneThreadInCharge, Alive
    <3>3. QED
      BY <2>1, <2>2, <2>5, <3>2 DEF ChargeInv, OneThreadInCharge, minerVars
  <2>6. QED
    BY <2>2, <2>4, <2>5
<1>4. QED
  BY <1>1, <1>2, <1>3, MinerFrame DEF vars, threadVars, minerVars

-----------------------------------------------------------------------------
(* The headers *)

LEMMA HeaderInit == Init => HeaderInv
BY DEF Init, HeaderInv, HeaderIsOfTheJob

LEMMA HeaderStep ==
  ASSUME TypeInv, HeaderInv, [Next]_vars
  PROVE  HeaderInv'
<1> USE DEF TypeInv
<1>0. starts \in Nat
  BY CpuAssumption DEF TypeOK
<1>1. CASE UNCHANGED << job, historyVars, minerVars >>
  BY <1>1 DEF HeaderInv, HeaderIsOfTheJob, historyVars, minerVars
<1>2. CASE SeeDone \/ StartThreads \/ SeeStatusOff
  BY <1>2 DEF SeeDone, StartThreads, SeeStatusOff, HeaderInv, HeaderIsOfTheJob,
              poolVars, historyVars
<1>3. CASE RollExtraNonce2
  BY <1>3, RolledJob DEF RollExtraNonce2, HeaderInv, HeaderIsOfTheJob
<1>4. CASE BeginCopy
  <2>1. minerPc' = "copy" /\ UNCHANGED << job, rolled, starts >> /\ starts < MaxStarts
    BY <1>4 DEF BeginCopy, poolVars, historyVars
  <2>2. QED
    BY <1>0, <1>4, <2>1, CopyBegun DEF HeaderInv, HeaderIsOfTheJob
<1>5. CASE NewContext
  <2>1. /\ minerPc = "copy" /\ minerPc' = "start" /\ rolled' = FALSE /\ job' = job
        /\ starts < MaxStarts
    BY <1>5 DEF NewContext, HeaderInv
  <2>2. /\ starts' = starts + 1
        /\ started'[starts + 1].rolled = rolled
        /\ started[starts + 1].job = job => started'[starts + 1].job = job
        /\ \A g \in 1 .. starts : started'[g] = started[g]
    BY <1>5, <2>1, CopyEnded
  <2>3. \A g \in 1 .. starts' : g \in 1 .. starts \/ g = starts + 1
    BY <1>0, <2>2
  <2>4. QED
    BY <2>1, <2>2, <2>3 DEF HeaderInv, HeaderIsOfTheJob
<1>6. CASE Notify
  BY <1>6 DEF Notify, HeaderInv, HeaderIsOfTheJob, minerVars
<1>7. QED
  BY <1>1, <1>2, <1>3, <1>4, <1>5, <1>6, JobFrame
  DEF CPUMiner, vars, poolVars

-----------------------------------------------------------------------------
(* The roots *)

LEMMA RootInit == Init => RootInv
BY NewJobType, CpuAssumption DEF Init, RootInv, NoRootTwice, Past

(* What is past stays past. *)
LEMMA PastStays ==
  ASSUME TypeOK, TypeOK', NEW root \in Nat \X Nat, Past(root),
         wrapped \subseteq wrapped',
         \/ job'.id > job.id
         \/ /\ job'.id = job.id
            /\ \/ job.id \in wrapped'
               \/ job.root = NoRoot
               \/ /\ job'.root # NoRoot
                  /\ Place(job.extraNonce2) <= Place(job'.extraNonce2)
  PROVE  Past(root)'
<1>1. /\ job.id \in Nat /\ job'.id \in Nat /\ root[1] \in Nat
      /\ Place(root[2]) \in Nat
      /\ Place(job.extraNonce2) \in Nat /\ Place(job'.extraNonce2) \in Nat
  BY JobFields, CpuAssumption DEF TypeOK, Place
<1>2. CASE root = NoRoot \/ root[1] < job.id \/ root[1] \in wrapped
  BY <1>1, <1>2 DEF Past
<1>3. CASE /\ root[1] = job.id /\ job.root # NoRoot
           /\ Place(root[2]) <= Place(job.extraNonce2)
  BY <1>1, <1>3 DEF Past
<1>4. QED
  BY <1>2, <1>3 DEF Past

(* More starts on the same roots only when the ExtraNonce2s come round. *)
LEMMA SameWorkStays ==
  ASSUME NoRootTwice, wrapped \subseteq wrapped', starts' = starts,
         \A g \in 1 .. starts : started'[g] = started[g]
  PROVE  NoRootTwice'
BY DEF NoRootTwice, SameWork

(* So does a root that has not been used. *)
LEMMA UnusedStays ==
  ASSUME NEW root, Unused(root), wrapped \subseteq wrapped', starts' = starts,
         \A g \in 1 .. starts : started'[g] = started[g]
  PROVE  Unused(root)'
BY DEF Unused

LEMMA RootStep ==
  ASSUME TypeInv, TypeInv', RootInv, [Next]_vars
  PROVE  RootInv'
<1> USE DEF TypeInv
<1>0. /\ starts \in 0 .. MaxStarts /\ MaxStarts \in Nat
      /\ \A g \in 1 .. starts : g \in Starts
      /\ \A g \in Starts : started[g].job.root \in Nat \X Nat
      /\ job.id \in Nat \ {0} /\ job.extraNonce2 \in Nat
      /\ job.root \in Nat \X Nat
  BY CpuAssumption, JobFields DEF TypeOK, Starts
<1>1. CASE UNCHANGED << job, historyVars, minerVars >>
  BY <1>1 DEF RootInv, NoRootTwice, SameWork, Past, Unused, historyVars,
              minerVars
<1>2. CASE SeeDone \/ StartThreads \/ SeeStatusOff
  <2>1. /\ UNCHANGED << job, wrapped, starts, started >>
        /\ minerPc' \notin {"check", "copy"}
    BY <1>2 DEF SeeDone, StartThreads, SeeStatusOff, poolVars, historyVars
  <2>2. QED
    BY <2>1 DEF RootInv, NoRootTwice, SameWork, Past
<1>3. CASE RollExtraNonce2
  <2>1. UNCHANGED << starts, started >> /\ minerPc' = "check"
    BY <1>3 DEF RollExtraNonce2
  <2>2. /\ job'.id = job.id
        /\ job'.root = MerkleRoot(job'.id, job'.extraNonce2)
        /\ job'.root # NoRoot /\ wrapped \subseteq wrapped'
        /\ \/ job.id \in wrapped'
           \/ job.root = NoRoot
           \/ Place(job'.extraNonce2) = Place(job.extraNonce2) + 1
    BY <1>3, RolledJob
  <2>3. /\ Place(job.extraNonce2) \in Nat
        /\ Place(job.extraNonce2) <= Place(job.extraNonce2) + 1
    BY <1>0, CpuAssumption DEF Place
  <2>4. \A g \in 1 .. starts : Past(started[g].job.root)'
    <3>1. ASSUME NEW root \in Nat \X Nat, Past(root)
          PROVE  Past(root)'
      BY <2>2, <2>3, <3>1, PastStays
    <3>2. QED
      BY <1>0, <2>1, <3>1 DEF RootInv, Past
  <2>5. ASSUME NEW g \in 1 .. starts, started[g].job.root = job'.root
        PROVE  job'.root[1] \in wrapped'
    <3> DEFINE r == started[g].job.root
    <3>0. \/ r = NoRoot
          \/ r[1] < job.id
          \/ r[1] \in wrapped
          \/ job.root # NoRoot /\ Place(r[2]) <= Place(job.extraNonce2)
      BY DEF RootInv, Past
    <3> HIDE DEF r
    <3>1. /\ job'.root[1] = job.id /\ job'.root[2] = job'.extraNonce2
          /\ \/ job'.root[1] < job.id
             \/ job'.root[1] \in wrapped
             \/ /\ job.root # NoRoot
                /\ Place(job'.root[2]) <= Place(job.extraNonce2)
      <4>1. r = job'.root
        BY <2>5 DEF r
      <4>2. job'.root[1] = job.id /\ job'.root[2] = job'.extraNonce2
        BY <2>2 DEF MerkleRoot
      <4>3. QED
        BY <2>2, <3>0, <4>1, <4>2
    <3>2. CASE job.id \in wrapped'
      BY <3>1, <3>2
    <3>3. CASE job.root = NoRoot
      BY <1>0, <2>2, <3>1, <3>3
    <3>4. CASE Place(job'.extraNonce2) = Place(job.extraNonce2) + 1
      BY <1>0, <2>2, <2>3, <3>1, <3>4
    <3>5. QED
      BY <2>2, <3>2, <3>3, <3>4
  <2>6. Unused(job.root)'
    BY <2>1, <2>5 DEF Unused
  <2>7. NoRootTwice'
    BY <2>1, <2>2, SameWorkStays DEF RootInv
  <2>8. QED
    BY <2>1, <2>2, <2>4, <2>6, <2>7 DEF RootInv
<1>4. CASE BeginCopy
  <2>1. /\ minerPc = "check" /\ minerPc' = "copy" /\ starts < MaxStarts
        /\ UNCHANGED << job, wrapped, starts >>
    BY <1>4 DEF BeginCopy, poolVars, historyVars
  <2>2. /\ started'[starts + 1].job = job
        /\ \A g \in 1 .. starts : started'[g] = started[g]
    BY <1>4, CopyBegun
  <2>3. Past(job.root)
    BY <1>0, CpuAssumption DEF RootInv, Past, MerkleRoot, Place
  <2>4. Unused(job.root)'
    BY <2>1, <2>2 DEF RootInv, Unused
  <2>5. NoRootTwice'
    BY <2>1, <2>2, SameWorkStays DEF RootInv
  <2>6. QED
    BY <2>1, <2>2, <2>3, <2>4, <2>5 DEF RootInv, Past, Unused
<1>5. CASE NewContext
  <2>1. /\ minerPc = "copy" /\ minerPc' = "start" /\ starts < MaxStarts
        /\ UNCHANGED << job, wrapped >>
    BY <1>5 DEF NewContext, RootInv
  <2>2. /\ starts' = starts + 1
        /\ \/ started'[starts + 1].job.root = job.root
           \/ started'[starts + 1].job.root = started[starts + 1].job.root
        /\ \A g \in 1 .. starts : started'[g] = started[g]
    BY <1>5, <2>1, CopyEnded
  <2>3. \A g \in 1 .. starts' : g \in 1 .. starts \/ g = starts + 1
    BY <1>0, <2>2
  <2>4. Past(job.root)
    BY <1>0, CpuAssumption DEF RootInv, Past, MerkleRoot, Place
  <2>5. \A g \in 1 .. starts' : Past(started[g].job.root)'
    BY <2>1, <2>2, <2>3, <2>4 DEF RootInv, Past
  <2>6. Unused(started'[starts + 1].job.root)
    BY <2>1, <2>2 DEF RootInv
  <2>7. ASSUME NEW g \in 1 .. starts', NEW h \in 1 .. starts',
               SameWork(g, h)'
        PROVE  g = h
    <3>1. \A k \in 1 .. starts :
            started[k].job.root = started'[starts + 1].job.root =>
              \/ started'[starts + 1].job.root = NoRoot
              \/ started'[starts + 1].job.root[1] \in wrapped
      BY <2>6 DEF Unused
    <3>2. g \in 1 .. starts /\ h \in 1 .. starts => SameWork(g, h)
      BY <2>1, <2>2, <2>7 DEF SameWork
    <3>3. QED
      BY <2>1, <2>2, <2>3, <2>7, <3>1, <3>2
      DEF RootInv, NoRootTwice, SameWork
  <2>8. NoRootTwice'
    BY <2>7 DEF NoRootTwice
  <2>9. QED
    BY <2>1, <2>5, <2>8 DEF RootInv
<1>6. CASE Notify
  <2>1. /\ UNCHANGED << minerPc, starts, started, wrapped >>
        /\ job'.id = job.id + 1 /\ job'.root = NoRoot
    BY <1>6, <1>0, NewJobType, CpuAssumption DEF Notify, minerVars
  <2>2. job'.id > job.id
    BY <1>0, <2>1
  <2>3. ASSUME NEW root \in Nat \X Nat, Past(root)
        PROVE  Past(root)'
    BY <2>1, <2>2, <2>3, PastStays
  <2>4. \A g \in 1 .. starts : Past(started[g].job.root)'
    BY <1>0, <2>1, <2>3 DEF RootInv, Past
  <2>5. minerPc = "copy" => Past(started[starts + 1].job.root)'
    <3>1. minerPc = "copy" => starts + 1 \in Starts
      BY <1>0 DEF RootInv, Starts
    <3>2. QED
      BY <1>0, <2>1, <2>3, <3>1 DEF RootInv, Past
  <2>6. /\ Unused(job.root)'
        /\ minerPc = "copy" => Unused(started[starts + 1].job.root)'
    BY <2>1 DEF RootInv, Unused
  <2>7. NoRootTwice'
    BY <2>1, SameWorkStays DEF RootInv
  <2>8. QED
    BY <2>1, <2>4, <2>5, <2>6, <2>7 DEF RootInv
<1>7. QED
  BY <1>1, <1>2, <1>3, <1>4, <1>5, <1>6, JobFrame
  DEF CPUMiner, vars, poolVars

-----------------------------------------------------------------------------
(* CPU.Mutex *)

LEMMA MutexStep ==
  ASSUME TypeOK, MutexInv, [Next]_vars
  PROVE  MutexInv'
<1>1. CASE UNCHANGED receiverVars /\ (connection' = "first" => connection = "first")
  BY <1>1 DEF MutexInv, MutexLostByPanic, receiverVars
<1>2. CASE MinerReceiver
  BY <1>2 DEF MinerReceiver, SeeForgetSubmits, StopCPUMining,
       ClearForgetSubmits, LookForWork, NothingToDo, TakeWork, WriteSubmit,
       PanicInSubmit, ReturnUnlock, MutexInv, MutexLostByPanic, TypeOK,
       poolVars
<1>3. QED
  BY <1>1, <1>2, ReceiverFrame DEF vars, poolVars, receiverVars

-----------------------------------------------------------------------------
(* The theorems *)

IInv ==
  /\ TypeInv
  /\ ChunkInv
  /\ ChargeInv
  /\ HeaderInv
  /\ RootInv
  /\ MutexInv

LEMMA Invariance == Spec => []IInv
<1>1. Init => IInv
  <2>1. Init => MutexInv
    BY DEF Init, MutexInv, MutexLostByPanic
  <2>2. QED
    BY <2>1, TypeInit, ChunkInit, ChargeInit, HeaderInit, RootInit DEF IInv
<1>2. IInv /\ [Next]_vars => IInv'
  <2> SUFFICES ASSUME IInv, [Next]_vars
               PROVE  IInv'
    OBVIOUS
  <2>1. TypeInv'
    BY TypeStep DEF IInv, HeaderInv
  <2>2. ChunkInv' /\ ChargeInv' /\ MutexInv'
    BY ChunkStep, ChargeStep, MutexStep DEF IInv, TypeInv, HeaderInv
  <2>3. HeaderInv' /\ RootInv'
    BY <2>1, HeaderStep, RootStep DEF IInv
  <2>4. QED
    BY <2>1, <2>2, <2>3 DEF IInv
<1>3. QED
  BY <1>1, <1>2, PTL DEF Spec

(* Every variable stays within its type, however the goroutines interleave; *)
(* in particular FinishedWork is never indexed when empty (miner.go:236).   *)
THEOREM TypeCorrect == Spec => []TypeOK
<1>1. IInv => TypeOK
  BY DEF IInv, TypeInv
<1>2. QED
  BY <1>1, Invariance, PTL

(* For any number of threads and nonces, no nonce is hashed twice in a     *)
(* start and none beyond the range (cpu.go:76-83).                         *)
THEOREM NoncesOnce == Spec => []NoNonceTwice
<1>1. IInv => NoNonceTwice
  BY ChunkSafe DEF IInv
<1>2. QED
  BY <1>1, Invariance, PTL

(* The threads of older starts never touch Status: one thread at most can  *)
(* set it, and it is of the latest start (cpu.go:85-93).                   *)
THEOREM StatusInOneHand == Spec => []OneThreadInCharge
<1>1. IInv => OneThreadInCharge
  BY DEF IInv, ChargeInv
<1>2. QED
  BY <1>1, Invariance, PTL

(* Without a notification in between, a start mines a header whose root is *)
(* that of its job (miner.go:46-49).                                       *)
THEOREM HeadersMatch == Spec => []HeaderIsOfTheJob
<1>1. IInv => HeaderIsOfTheJob
  BY DEF IInv, HeaderInv
<1>2. QED
  BY <1>1, Invariance, PTL

(* In any number of starts and jobs no MerkleRoot is mined twice while     *)
(* there is an ExtraNonce2 of its job that has not been used               *)
(* (stratum.go:413-433).                                                   *)
THEOREM RootsOnce == Spec => []NoRootTwice
<1>1. IInv => NoRootTwice
  BY DEF IInv, RootInv
<1>2. QED
  BY <1>1, Invariance, PTL

(* CPU.Mutex is MinerReceiver's only while it submits, or when             *)
(* StratumSubmit has panicked, which takes a connection lost meanwhile     *)
(* (miner.go:236-251).                                                     *)
THEOREM MutexComesBack == Spec => []MutexLostByPanic
<1>1. IInv => MutexLostByPanic
  BY DEF IInv, MutexInv
<1>2. QED
  BY <1>1, Invariance, PTL

-----------------------------------------------------------------------------
(* The hashes *)

(* Only a thread that has not reached the end of its chunk goes on to the  *)
(* next nonce, and the others stay where they are.                         *)
LEMMA NonceStep ==
  ASSUME TypeOK, ChunkInv, ChargeInv, [Next]_vars,
         NEW g \in Starts, NEW i \in ThreadIds, nonce'[g][i] # nonce[g][i]
  PROVE  /\ nonce'[g][i] = nonce[g][i] + 1
         /\ nonce[g][i] < ChunkEnd(i)
         /\ g \in 1 .. starts
<1>1. CASE UNCHANGED threadVars \/ StartThreads
  BY <1>1 DEF threadVars, StartThreads
<1>2. ASSUME NEW h \in Starts, NEW j \in ThreadIds, Thread(h, j)
      PROVE  /\ nonce'[g][i] = nonce[g][i] + 1
             /\ nonce[g][i] < ChunkEnd(i)
             /\ g \in 1 .. starts
  <2>1. /\ NextNonce(h, j)
        /\ Running(h, j) \/ threadPc[h][j] = "found"
    BY <1>2 DEF Thread, Pause, HashNonce, StopThread, AppendWork,
                ReportHashrate, ExhaustThread
  <2>2. h = g /\ j = i /\ nonce'[g][i] = nonce[g][i] + 1
    BY <2>1, Counted
  <2>3. nonce[g][i] < ChunkEnd(i)
    BY <2>1, <2>2 DEF Running, ChunkInv
  <2>4. threadPc[g][i] # "none"
    BY <2>1, <2>2 DEF Running
  <2>5. g <= starts
    <3>1. g \in Int /\ starts \in Int
      BY DEF TypeOK, Starts
    <3>2. QED
      BY <2>4, <3>1 DEF ChargeInv
  <2>6. QED
    BY <2>2, <2>3, <2>5 DEF Starts
<1>3. QED
  BY <1>1, <1>2, ThreadFrame DEF vars

(* The chunks keep the threads of a start apart, and the MerkleRoots the   *)
(* starts.                                                                 *)
LEMMA HashIsNew ==
  ASSUME TypeOK, ChunkInv, ChargeInv, NoRootTwice, [Next]_vars,
         NEW g \in Starts, NEW i \in ThreadIds, nonce'[g][i] # nonce[g][i]
  PROVE  /\ nonce'[g][i] = nonce[g][i] + 1
         /\ nonce[g][i] \in 0 .. NonceSpace - 1
         /\ \A h \in 1 .. starts, j \in ThreadIds :
              nonce[g][i] \in Hashed(h, j) => ~ SameWork(g, h)
<1>1. /\ nonce'[g][i] = nonce[g][i] + 1
      /\ nonce[g][i] < ChunkEnd(i)
      /\ g \in 1 .. starts
  BY NonceStep
<1>2. /\ nonce[g][i] \in ChunkStart(i) .. ChunkEnd(i)
      /\ nonce[g][i] \in Nat
  BY DEF ChunkInv, TypeOK
<1>3. nonce[g][i] \in 0 .. NonceSpace - 1
  <2>1. ChunkEnd(i) \in Nat /\ ChunkEnd(i) <= NonceSpace /\ NonceSpace \in Nat
    BY Chunks, CpuAssumption
  <2>2. QED
    BY <1>1, <1>2, <2>1
<1>4. ASSUME NEW h \in 1 .. starts, NEW j \in ThreadIds,
             nonce[g][i] \in Hashed(h, j)
      PROVE  ~ SameWork(g, h)
  <2>1. SUFFICES ASSUME SameWork(g, h)
                 PROVE  FALSE
    OBVIOUS
  <2>2. h = g
    BY <1>1, <1>4, <2>1 DEF NoRootTwice
  <2>3. /\ nonce[g][j] \in ChunkStart(j) .. ChunkEnd(j)
        /\ nonce[g][j] \in Nat /\ ChunkStart(j) \in Nat /\ ChunkEnd(j) \in Nat
        /\ ChunkStart(i) \in Nat /\ ChunkEnd(i) \in Nat
    BY Chunks DEF ChunkInv, TypeOK
  <2>4. ChunkStart(j) <= nonce[g][i] /\ nonce[g][i] < nonce[g][j]
    BY <1>2, <1>4, <2>2, <2>3 DEF Hashed
  <2>5. i # j
    BY <1>2, <2>4
  <2>6. CASE i < j
    <3>1. ChunkEnd(i) <= ChunkStart(j)
      BY <2>6, Chunks
    <3>2. QED
      BY <1>1, <1>2, <2>3, <2>4, <3>1
  <2>7. CASE j < i
    <3>1. ChunkEnd(j) <= ChunkStart(i)
      BY <2>7, Chunks
    <3>2. QED
      BY <1>2, <2>3, <2>4, <3>1
  <2>8. QED
    BY <2>5, <2>6, <2>7 DEF ThreadIds
<1>5. QED
  BY <1>1, <1>3, <1>4

(* In any number of starts, with threads of older ones still running, no   *)
(* hash is computed again until the ExtraNonce2s of its job have all been  *)
(* used (cpu.go:76-93, stratum.go:413-433).                                *)
THEOREM HashesAreNew == Spec => EveryHashIsNew
<1>1. IInv /\ [Next]_vars =>
        [\A g \in Starts, i \in ThreadIds :
           nonce'[g][i] # nonce[g][i] =>
             /\ nonce'[g][i] = nonce[g][i] + 1
             /\ nonce[g][i] \in 0 .. NonceSpace - 1
             /\ \A h \in 1 .. starts, j \in ThreadIds :
                  nonce[g][i] \in Hashed(h, j) => ~ SameWork(g, h)]_vars
  BY HashIsNew DEF IInv, TypeInv, RootInv
<1>2. QED
  BY <1>1, Invariance, PTL DEF Spec, EveryHashIsNew
=============================================================================
