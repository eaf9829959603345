----------------------------- MODULE ShareQueue -----------------------------
(***************************************************************************)
(* The path of a share from an ASIC to the pool.                           *)
(*                                                                         *)
(* One AsicReadJob goroutine per device appends the shares it finds to the *)
(* slice AonFinishedWorks under AonJobMutex.  The MinerReceiver goroutine  *)
(* polls that slice without the mutex, takes the mutex to copy and clear   *)
(* it, and then, without the mutex, drops the shares it has submitted      *)
(* lately (LastMinerWork) and hands the others to StratumSubmit.  The      *)
(* connection is closed and reopened by the reconnect goroutine meanwhile; *)
(* a write that finds it gone panics, MinerReceiver recovers and the rest  *)
(* of the batch is forgotten.  The reconnect goroutine keeps StratumMutex  *)
(* for ever (see Session), so it reconnects once, and MinerReceiver stops  *)
(* where it needs that mutex to clear ForgetSubmits.                       *)
(*                                                                         *)
(* A share is its serial number in the order of discovery; found[sn] is    *)
(* what the duplicate test compares (Nonce, ExtraNonce2, BlockTimestamp).  *)
(***************************************************************************)
EXTENDS Integers, Sequences, FiniteSets, Functions

CONSTANTS
  Readers,      \* the device indexes, one AsicReadJob goroutine each
  Receiver,     \* the MinerReceiver goroutine
  Elsewhere,    \* every other critical section of AonJobMutex
  Kept,         \* one of these that never ends
  Free,         \* AonJobMutex is not held
  Keys,         \* the values of <<Nonce, ExtraNonce2, BlockTimestamp>>
  HistoryMax,   \* 50: LastMinerWork is cut when it has this many entries
  HistoryKeep,  \* 25: the entries a cut leaves
  MaxFound      \* bound: shares found in a behaviour

ASSUME HistoryAssumption ==
  /\ HistoryMax \in Nat
  /\ HistoryKeep \in Nat
  /\ HistoryKeep < HistoryMax

ASSUME HolderAssumption ==
  /\ Receiver \notin Readers
  /\ Elsewhere \notin Readers \cup {Receiver}
  /\ Kept \notin Readers \cup {Receiver, Elsewhere}
  /\ Free \notin Readers \cup {Receiver, Elsewhere, Kept}

ASSUME BoundAssumption == MaxFound \in Nat

VARIABLES
  found,             \* the key of every share found so far
  readerPc,          \* where each AsicReadJob is
  readerWork,        \* the share it is about to append, 0 if none
  aonFinishedWorks,  \* AonFinishedWorks
  aonJobMutex,       \* the holder of AonJobMutex, or Free
  receiverPc,        \* where MinerReceiver is
  worksToProcess,    \* its local copy of AonFinishedWorks
  lastMinerWork,     \* LastMinerWork
  connection,        \* StratumConnection: the first, nil, or the second
  attempts,          \* history: the shares entered in LastMinerWork
  duplicates,        \* history: the shares dropped as duplicates
  lost               \* history: the shares of a batch cut short by a panic

driverVars  == << found, readerPc, readerWork >>
historyVars == << attempts, duplicates, lost >>
batchVars   == << worksToProcess, lastMinerWork >>
vars == << driverVars, aonFinishedWorks, aonJobMutex, receiverPc, batchVars,
           connection, historyVars >>

Holders == Readers \cup {Receiver, Elsewhere, Kept, Free}

TypeOK ==
  /\ found \in Seq(Keys)
  /\ readerPc \in [Readers -> {"read", "lock", "append"}]
  /\ readerWork \in [Readers -> 0 .. Len(found)]
  /\ \A r \in Readers : readerPc[r] = "read" <=> readerWork[r] = 0
  /\ aonFinishedWorks \in Seq(1 .. Len(found))
  /\ aonJobMutex \in Holders
  /\ receiverPc \in {"poll", "forget", "look", "lock", "copy", "clear",
                     "work", "write"}
  /\ worksToProcess \in Seq(1 .. Len(found))
  /\ receiverPc = "write" => worksToProcess # << >>
  /\ lastMinerWork \in Seq(1 .. Len(found))
  /\ connection \in {"first", "closed", "second"}
  /\ attempts \in Seq(1 .. Len(found))
  /\ duplicates \in SUBSET (1 .. Len(found))
  /\ lost \in SUBSET (1 .. Len(found))

Init ==
  /\ found = << >>
  /\ readerPc = [r \in Readers |-> "read"]
  /\ readerWork = [r \in Readers |-> 0]
  /\ aonFinishedWorks = << >>
  /\ aonJobMutex = Free
  /\ receiverPc = "poll"
  /\ worksToProcess = << >>
  /\ lastMinerWork = << >>
  /\ connection = "first"
  /\ attempts = << >>
  /\ duplicates = {}
  /\ lost = {}

-----------------------------------------------------------------------------
(* AsicReadJob *)

(* An answer of the device matches a pending job and meets the pool's      *)
(* difficulty.  One answer can match several pending jobs: the next round  *)
(* of this action is then the next of them.                                *)
FindShare(r) ==
  /\ readerPc[r] = "read"
  /\ Len(found) < MaxFound
  /\ \E k \in Keys : found' = Append(found, k)
  /\ readerWork' = [readerWork EXCEPT ![r] = Len(found) + 1]
  /\ readerPc' = [readerPc EXCEPT ![r] = "lock"]
  /\ UNCHANGED << aonFinishedWorks, aonJobMutex, receiverPc, batchVars,
                  connection, historyVars >>

(* Fault: the mutex is taken without waiting for it. *)
AcquireAnyway(h) == aonJobMutex' = h

(* AonJobMutex.Lock() by a goroutine. *)
Acquire(h) ==
  /\ aonJobMutex = Free
  /\ aonJobMutex' = h

LockForAppend(r) ==
  /\ readerPc[r] = "lock"
  /\ Acquire(r)
  /\ readerPc' = [readerPc EXCEPT ![r] = "append"]
  /\ UNCHANGED << found, readerWork, aonFinishedWorks, receiverPc, batchVars,
                  connection, historyVars >>

(* Fault: the share stays in hand after the append. *)
AppendShareTwice(r) ==
  /\ readerPc[r] = "append"
  /\ aonFinishedWorks' = Append(aonFinishedWorks, readerWork[r])
  /\ readerPc' = [readerPc EXCEPT ![r] = "read"]
  /\ aonJobMutex' = Free
  /\ UNCHANGED << found, readerWork, receiverPc, batchVars, connection,
                  historyVars >>

(* Fault: the mutex is not released after the append. *)
AppendShareKeepLocked(r) ==
  /\ readerPc[r] = "append"
  /\ aonFinishedWorks' = Append(aonFinishedWorks, readerWork[r])
  /\ readerWork' = [readerWork EXCEPT ![r] = 0]
  /\ readerPc' = [readerPc EXCEPT ![r] = "read"]
  /\ UNCHANGED << found, aonJobMutex, receiverPc, batchVars, connection,
                  historyVars >>

AppendShare(r) ==
  /\ readerPc[r] = "append"
  /\ aonFinishedWorks' = Append(aonFinishedWorks, readerWork[r])
  /\ readerWork' = [readerWork EXCEPT ![r] = 0]
  /\ readerPc' = [readerPc EXCEPT ![r] = "read"]
  /\ aonJobMutex' = Free
  /\ UNCHANGED << found, receiverPc, batchVars, connection, historyVars >>

-----------------------------------------------------------------------------
(* MinerReceiver *)

(* ForgetSubmits is read without StratumMutex; any job or rejection may    *)
(* have set it.                                                            *)
SeeForgetSubmits ==
  /\ receiverPc = "poll"
  /\ receiverPc' = "forget"
  /\ UNCHANGED << driverVars, aonFinishedWorks, aonJobMutex, batchVars,
                  connection, historyVars >>

(* StratumMutex.Lock() returns only while nobody has reconnected. *)
ClearForgetSubmits ==
  /\ receiverPc = "forget"
  /\ connection = "first"
  /\ receiverPc' = "look"
  /\ UNCHANGED << driverVars, aonFinishedWorks, aonJobMutex, batchVars,
                  connection, historyVars >>

(* The length is read without the mutex. *)
PollFinished ==
  /\ receiverPc \in {"poll", "look"}
  /\ aonFinishedWorks # << >>
  /\ receiverPc' = "lock"
  /\ UNCHANGED << driverVars, aonFinishedWorks, aonJobMutex, batchVars,
                  connection, historyVars >>

PollNothing ==
  /\ receiverPc = "look"
  /\ aonFinishedWorks = << >>
  /\ receiverPc' = "poll"
  /\ UNCHANGED << driverVars, aonFinishedWorks, aonJobMutex, batchVars,
                  connection, historyVars >>

LockForDrain ==
  /\ receiverPc = "lock"
  /\ Acquire(Receiver)
  /\ receiverPc' = "copy"
  /\ UNCHANGED << driverVars, aonFinishedWorks, batchVars, connection,
                  historyVars >>

CopyFinished ==
  /\ receiverPc = "copy"
  /\ worksToProcess' = aonFinishedWorks
  /\ receiverPc' = "clear"
  /\ UNCHANGED << driverVars, aonFinishedWorks, aonJobMutex, lastMinerWork,
                  connection, historyVars >>

ClearFinished ==
  /\ receiverPc = "clear"
  /\ aonFinishedWorks' = << >>
  /\ aonJobMutex' = Free
  /\ receiverPc' = "work"
  /\ UNCHANGED << driverVars, batchVars, connection, historyVars >>

(* Fault: the scan of LastMinerWork stops one entry early. *)
IsDuplicateShortScan(sn) ==
  \E i \in 1 .. Len(lastMinerWork) - 1 :
    found[lastMinerWork[i]] = found[sn]

IsDuplicate(sn) ==
  \E i \in DOMAIN lastMinerWork : found[lastMinerWork[i]] = found[sn]

(* Fault: > where the code has >=. *)
CutHistoryLate ==
  IF Len(lastMinerWork) > HistoryMax
  THEN SubSeq(lastMinerWork, Len(lastMinerWork) - HistoryKeep + 1,
              Len(lastMinerWork))
  ELSE lastMinerWork

(* Fault: the oldest entries are kept instead of the latest. *)
CutHistoryWrongEnd ==
  IF Len(lastMinerWork) >= HistoryMax
  THEN SubSeq(lastMinerWork, 1, HistoryKeep)
  ELSE lastMinerWork

(* LastMinerWork as it is cut before a submit. *)
CutHistory ==
  IF Len(lastMinerWork) >= HistoryMax
  THEN SubSeq(lastMinerWork, Len(lastMinerWork) - HistoryKeep + 1,
              Len(lastMinerWork))
  ELSE lastMinerWork

(* StratumSubmit is over, whatever it returned: the work is remembered and *)
(* the loop goes on with the next one.                                     *)
RecordAttempt(history) ==
  /\ lastMinerWork' = Append(history, Head(worksToProcess))
  /\ attempts' = Append(attempts, Head(worksToProcess))
  /\ worksToProcess' = Tail(worksToProcess)
  /\ receiverPc' = "work"

SkipDuplicate ==
  /\ receiverPc = "work"
  /\ worksToProcess # << >>
  /\ IsDuplicate(Head(worksToProcess))
  /\ duplicates' = duplicates \cup {Head(worksToProcess)}
  /\ worksToProcess' = Tail(worksToProcess)
  /\ UNCHANGED << driverVars, aonFinishedWorks, aonJobMutex, receiverPc,
                  lastMinerWork, connection, attempts, lost >>

(* stratumWrite finds a connection, which it will use in a later step. *)
BeginSubmit ==
  /\ receiverPc = "work"
  /\ worksToProcess # << >>
  /\ ~ IsDuplicate(Head(worksToProcess))
  /\ connection # "closed"
  /\ lastMinerWork' = CutHistory
  /\ receiverPc' = "write"
  /\ UNCHANGED << driverVars, aonFinishedWorks, aonJobMutex, worksToProcess,
                  connection, historyVars >>

(* stratumWrite returns "stratum connection is null"; nobody looks at it. *)
SubmitUnconnected ==
  /\ receiverPc = "work"
  /\ worksToProcess # << >>
  /\ ~ IsDuplicate(Head(worksToProcess))
  /\ connection = "closed"
  /\ RecordAttempt(CutHistory)
  /\ UNCHANGED << driverVars, aonFinishedWorks, aonJobMutex, connection,
                  duplicates, lost >>

(* The write itself, successful or not: its error is ignored too. *)
WriteSubmit ==
  /\ receiverPc = "write"
  /\ connection # "closed"
  /\ RecordAttempt(lastMinerWork)
  /\ UNCHANGED << driverVars, aonFinishedWorks, aonJobMutex, connection,
                  duplicates, lost >>

(* The connection went away after the test: a nil pointer panic, recovered *)
(* in MinerReceiver, which is called again with an empty batch.            *)
PanicInSubmit ==
  /\ receiverPc = "write"
  /\ connection = "closed"
  /\ lost' = lost \cup Range(worksToProcess)
  /\ worksToProcess' = << >>
  /\ receiverPc' = "poll"
  /\ UNCHANGED << driverVars, aonFinishedWorks, aonJobMutex, lastMinerWork,
                  connection, attempts, duplicates >>

FinishBatch ==
  /\ receiverPc = "work"
  /\ worksToProcess = << >>
  /\ receiverPc' = "poll"
  /\ UNCHANGED << driverVars, aonFinishedWorks, aonJobMutex, batchVars,
                  connection, historyVars >>

-----------------------------------------------------------------------------
(* The surroundings *)

(* AsicSendJob, the other sections of AsicReadJob and the scan in AonMiner *)
(* take AonJobMutex too and leave AonFinishedWorks alone.                  *)
LockElsewhere ==
  /\ Acquire(Elsewhere)
  /\ UNCHANGED << driverVars, aonFinishedWorks, receiverPc, batchVars,
                  connection, historyVars >>

UnlockElsewhere ==
  /\ aonJobMutex = Elsewhere
  /\ aonJobMutex' = Free
  /\ UNCHANGED << driverVars, aonFinishedWorks, receiverPc, batchVars,
                  connection, historyVars >>

(* The scan waits, with the mutex, until as many devices are initialized   *)
(* as it has found.  Where two of their goroutines overlap in the count it *)
(* waits for ever (raced in AonDriver).                                    *)
KeepElsewhere ==
  /\ aonJobMutex = Elsewhere
  /\ aonJobMutex' = Kept
  /\ UNCHANGED << driverVars, aonFinishedWorks, receiverPc, batchVars,
                  connection, historyVars >>

(* The reconnect goroutine locks StratumMutex and StratumConnect drops the *)
(* connection.  A second time it would wait for the mutex it has kept.     *)
Disconnect ==
  /\ connection = "first"
  /\ connection' = "closed"
  /\ UNCHANGED << driverVars, aonFinishedWorks, aonJobMutex, receiverPc,
                  batchVars, historyVars >>

Connect ==
  /\ connection = "closed"
  /\ connection' = "second"
  /\ UNCHANGED << driverVars, aonFinishedWorks, aonJobMutex, receiverPc,
                  batchVars, historyVars >>

-----------------------------------------------------------------------------

Reader(r) == FindShare(r) \/ LockForAppend(r) \/ AppendShare(r)

Polling ==
  \/ SeeForgetSubmits
  \/ ClearForgetSubmits
  \/ PollFinished
  \/ PollNothing

Submitting == BeginSubmit \/ SubmitUnconnected \/ WriteSubmit \/ PanicInSubmit

MinerReceiver ==
  \/ Polling
  \/ LockForDrain
  \/ CopyFinished
  \/ ClearFinished
  \/ SkipDuplicate
  \/ Submitting
  \/ FinishBatch

Environment ==
  \/ LockElsewhere
  \/ UnlockElsewhere
  \/ KeepElsewhere
  \/ Disconnect
  \/ Connect

Next ==
  \/ \E r \in Readers : Reader(r)
  \/ MinerReceiver
  \/ Environment

Spec == Init /\ [][Next]_vars

(* sync.Mutex hands the lock to a goroutine that has waited for 1 ms, so   *)
(* one that keeps asking gets it (strong fairness).  Every other step of a *)
(* goroutine is only kept from running by the scheduler; the sections of   *)
(* others end, but for the scan that waits for ever (KeepElsewhere).       *)
(* Devices owe no shares and the network owes no connection.               *)
Fairness ==
  /\ \A r \in Readers : SF_vars(LockForAppend(r)) /\ WF_vars(AppendShare(r))
  /\ SF_vars(LockForDrain)
  /\ WF_vars(MinerReceiver)
  /\ WF_vars(UnlockElsewhere)

FairSpec == Spec /\ Fairness

-----------------------------------------------------------------------------
(* Properties *)

(* The shares in the hands of an AsicReadJob. *)
InHand == {readerWork[r] : r \in {q \in Readers : readerPc[q] # "read"}}

(* The shares of the batch.  Until AonFinishedWorks is cleared the copy is *)
(* not yet in charge of them.                                              *)
Batch == IF receiverPc = "clear" THEN << >> ELSE worksToProcess

Places ==
  << InHand, Range(aonFinishedWorks), Range(Batch), Range(attempts),
     duplicates, lost >>

(* Every share found is in exactly one place: with its reader, in          *)
(* AonFinishedWorks, in the batch, attempted, dropped or lost; and no      *)
(* sequence holds it twice.  It is what AonJobMutex around the append      *)
(* (aonminer.go:431) and around the copy and clear (miner.go:283-297) is   *)
(* for: an append between copy and clear would vanish.                     *)
EveryShareInOnePlace ==
  /\ UNION Range(Places) = 1 .. Len(found)
  /\ \A i, j \in DOMAIN Places : i # j => Places[i] \cap Places[j] = {}
  /\ \A q, r \in Readers :
       /\ q # r
       /\ readerPc[q] # "read"
       => readerWork[q] # readerWork[r]
  /\ IsInjective(aonFinishedWorks)
  /\ IsInjective(Batch)
  /\ IsInjective(attempts)

(* Two shares equal in Nonce, ExtraNonce2 and BlockTimestamp are attempted *)
(* only with HistoryKeep other attempts between them: the duplicate test   *)
(* of miner.go:300-311 looks at least that far back, even right after a    *)
(* cut of LastMinerWork (miner.go:313-315) whose submit panicked.          *)
NoNearDuplicates ==
  \A i, j \in DOMAIN attempts :
    /\ i < j
    /\ found[attempts[i]] = found[attempts[j]]
    => j - i >= HistoryKeep + 1

(* LastMinerWork never outgrows its limit, whatever mix of duplicates,     *)
(* failed writes and panics MinerReceiver meets, and is always the latest  *)
(* attempts (miner.go:313-318).                                            *)
HistoryIsRecentPast ==
  /\ Len(lastMinerWork) <= HistoryMax
  /\ \/ Len(lastMinerWork) = Len(attempts)
     \/ HistoryKeep <= Len(lastMinerWork) /\ Len(lastMinerWork) <= Len(attempts)
  /\ \A i \in 1 .. Len(lastMinerWork) :
       lastMinerWork[i] =
         attempts[Len(attempts) - Len(lastMinerWork) + i]

Ledger ==
  INSTANCE ShareLedger WITH
    unsettled <- InHand \cup Range(aonFinishedWorks) \cup Range(Batch),
    NearGap   <- HistoryKeep + 1,
    FarGap    <- HistoryMax

(* The whole path implements the ledger: each share is settled once, by    *)
(* an attempt that repeats no recent one, by a drop that a recent attempt  *)
(* justifies (miner.go:299-318), or by a panic in the batch.               *)
LedgerSpec == Ledger!Spec

(* A share that is with its reader, or in AonFinishedWorks, when the       *)
(* device scan has taken AonJobMutex for good (miner.go:146).              *)
Stranded(sn) ==
  aonJobMutex = Kept /\ sn \in InHand \cup Range(aonFinishedWorks)

(* Every share a device finds is settled in the end, however the           *)
(* goroutines compete for AonJobMutex (aonminer.go:431, miner.go:283):     *)
(* none waits in AonFinishedWorks or with its reader for ever.  The two    *)
(* exceptions are a scan that keeps AonJobMutex (miner.go:146) and a       *)
(* MinerReceiver that wants StratumMutex (miner.go:232) after a            *)
(* reconnection.  A batch is settled even when the scan keeps the mutex.   *)
EveryShareSettles ==
  \A sn \in 1 .. MaxFound :
    sn <= Len(found)
      ~> \/ sn \in Range(attempts) \cup duplicates \cup lost
         \/ Stranded(sn)
         \/ receiverPc = "forget" /\ connection # "first"
=============================================================================
