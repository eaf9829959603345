-------------------------- MODULE ShareQueueProofs --------------------------
(***************************************************************************)
(* Theorems about ShareQueue and their proofs, for any set of devices, any *)
(* keys and any limits of the submit history.                              *)
(***************************************************************************)
EXTENDS ShareQueue, SequenceTheorems, TLAPS

-----------------------------------------------------------------------------
(* Facts about the elements of a sequence *)

(* Appending adds one element. *)
LEMMA RangeOfAppend ==
  ASSUME NEW S, NEW s \in Seq(S), NEW x \in S
  PROVE  /\ Append(s, x) \in Seq(S)
         /\ Range(Append(s, x)) = Range(s) \cup {x}
<1>1. /\ Append(s, x) \in Seq(S)
      /\ DOMAIN Append(s, x) = 1 .. Len(s) + 1
      /\ \A i \in 1 .. Len(s) : Append(s, x)[i] = s[i]
      /\ Append(s, x)[Len(s) + 1] = x
      /\ DOMAIN s = 1 .. Len(s)
      /\ Len(s) \in Nat
  OBVIOUS
<1>2. QED
  BY <1>1 DEF Range

(* A sequence is its head and its tail. *)
LEMMA RangeOfTail ==
  ASSUME NEW S, NEW s \in Seq(S), s # << >>
  PROVE  /\ Head(s) \in S
         /\ Tail(s) \in Seq(S)
         /\ Range(s) = Range(Tail(s)) \cup {Head(s)}
<1>1. /\ Head(s) = s[1]
      /\ Head(s) \in S
      /\ Tail(s) \in Seq(S)
      /\ Len(s) \in Nat \ {0}
      /\ DOMAIN s = 1 .. Len(s)
      /\ DOMAIN Tail(s) = 1 .. Len(s) - 1
      /\ \A i \in 1 .. Len(s) - 1 : Tail(s)[i] = s[i + 1]
  OBVIOUS
<1>2. ASSUME NEW i \in 2 .. Len(s)
      PROVE  s[i] \in Range(Tail(s))
  <2>1. i - 1 \in 1 .. Len(s) - 1 /\ (i - 1) + 1 = i
    BY <1>1
  <2>2. QED
    BY <1>1, <2>1 DEF Range
<1>3. QED
  BY <1>1, <1>2 DEF Range

(* A sequence without repetitions keeps being one when its head is taken. *)
LEMMA InjectiveTail ==
  ASSUME NEW S, NEW s \in Seq(S), s # << >>, IsInjective(s)
  PROVE  /\ IsInjective(Tail(s))
         /\ Head(s) \notin Range(Tail(s))
<1>1. /\ Head(s) = s[1]
      /\ Len(s) \in Nat \ {0}
      /\ DOMAIN s = 1 .. Len(s)
      /\ DOMAIN Tail(s) = 1 .. Len(s) - 1
      /\ \A i \in 1 .. Len(s) - 1 : Tail(s)[i] = s[i + 1]
  OBVIOUS
<1>2. QED
  BY <1>1 DEF IsInjective, Range

(* It keeps being one when a new element is appended. *)
LEMMA InjectiveAppend ==
  ASSUME NEW S, NEW s \in Seq(S), NEW x \in S, IsInjective(s), x \notin Range(s)
  PROVE  IsInjective(Append(s, x))
<1>1. /\ DOMAIN Append(s, x) = 1 .. Len(s) + 1
      /\ \A i \in 1 .. Len(s) : Append(s, x)[i] = s[i]
      /\ Append(s, x)[Len(s) + 1] = x
      /\ DOMAIN s = 1 .. Len(s)
      /\ Len(s) \in Nat
  OBVIOUS
<1>2. QED
  BY <1>1 DEF IsInjective, Range

(* The empty sequence has no elements and no repetitions. *)
LEMMA EmptySequence == Range(<< >>) = {} /\ IsInjective(<< >>)
BY DEF Range, IsInjective

(* A longer range of numbers makes room for the same sequences. *)
LEMMA SequencesWiden ==
  ASSUME NEW m \in Nat, NEW n \in Nat, m <= n, NEW s \in Seq(1 .. m)
  PROVE  s \in Seq(1 .. n)
OBVIOUS

-----------------------------------------------------------------------------
(* Types *)

(* The cut of LastMinerWork gives a sequence of the shares it had. *)
LEMMA CutHistoryType ==
  ASSUME TypeOK
  PROVE  CutHistory \in Seq(1 .. Len(found))
<1> USE HistoryAssumption
<1>1. CASE Len(lastMinerWork) >= HistoryMax
  <2>1. /\ Len(lastMinerWork) \in Nat
        /\ Len(lastMinerWork) - HistoryKeep + 1 \in 1 .. Len(lastMinerWork) + 1
    BY <1>1 DEF TypeOK
  <2>2. QED
    BY <1>1, <2>1, SubSeqProperties DEF TypeOK, CutHistory
<1>2. CASE ~ (Len(lastMinerWork) >= HistoryMax)
  BY <1>2 DEF TypeOK, CutHistory
<1>3. QED
  BY <1>1, <1>2

(* Every variable keeps the type of the Go value it stands for: the works  *)
(* in hand, queued, remembered and settled are works that were found.      *)
THEOREM TypeCorrect == Spec => []TypeOK
<1>1. Init => TypeOK
  BY DEF Init, TypeOK, Holders
<1>2. TypeOK /\ [Next]_vars => TypeOK'
  <2> SUFFICES ASSUME TypeOK, [Next]_vars
               PROVE  TypeOK'
    OBVIOUS
  <2> USE DEF TypeOK, Holders
  <2>1. CASE UNCHANGED vars
    BY <2>1 DEF vars, driverVars, batchVars, historyVars
  <2>2. ASSUME NEW r \in Readers, FindShare(r)
        PROVE  TypeOK'
    <3>1. /\ found' \in Seq(Keys)
          /\ Len(found') = Len(found) + 1
          /\ Len(found) \in Nat
      BY <2>2 DEF FindShare
    <3>2. 1 .. Len(found) \subseteq 1 .. Len(found')
      BY <3>1
    <3>3. /\ readerPc' \in [Readers -> {"read", "lock", "append"}]
          /\ readerWork' \in [Readers -> 0 .. Len(found')]
          /\ \A q \in Readers : readerPc'[q] = "read" <=> readerWork'[q] = 0
      BY <2>2, <3>1 DEF FindShare
    <3>4. /\ aonFinishedWorks' \in Seq(1 .. Len(found'))
          /\ worksToProcess' \in Seq(1 .. Len(found'))
          /\ lastMinerWork' \in Seq(1 .. Len(found'))
          /\ attempts' \in Seq(1 .. Len(found'))
      BY <2>2, <3>1, SequencesWiden DEF FindShare, batchVars, historyVars
    <3>5. QED
      BY <2>2, <3>1, <3>2, <3>3, <3>4
         DEF FindShare, batchVars, historyVars
  <2>3. ASSUME NEW r \in Readers, LockForAppend(r)
        PROVE  TypeOK'
    BY <2>3 DEF LockForAppend, Acquire, batchVars, historyVars
  <2>4. ASSUME NEW r \in Readers, AppendShare(r)
        PROVE  TypeOK'
    <3>1. readerWork[r] \in 1 .. Len(found)
      BY <2>4 DEF AppendShare
    <3>2. aonFinishedWorks' \in Seq(1 .. Len(found))
      BY <2>4, <3>1, RangeOfAppend DEF AppendShare
    <3>3. QED
      BY <2>4, <3>2 DEF AppendShare, batchVars, historyVars
  <2>5. CASE Polling
    BY <2>5 DEF Polling, SeeForgetSubmits, ClearForgetSubmits, PollFinished,
                PollNothing, driverVars, batchVars, historyVars
  <2>6. CASE LockForDrain
    BY <2>6 DEF LockForDrain, Acquire, driverVars, batchVars, historyVars
  <2>7. CASE CopyFinished
    BY <2>7 DEF CopyFinished, driverVars, historyVars
  <2>8. CASE ClearFinished
    BY <2>8 DEF ClearFinished, driverVars, batchVars, historyVars
  <2>9. CASE SkipDuplicate
    <3>1. /\ Head(worksToProcess) \in 1 .. Len(found)
          /\ worksToProcess' \in Seq(1 .. Len(found))
      BY <2>9, RangeOfTail DEF SkipDuplicate
    <3>2. QED
      BY <2>9, <3>1 DEF SkipDuplicate, driverVars
  <2>10. CASE BeginSubmit
    BY <2>10, CutHistoryType DEF BeginSubmit, driverVars, historyVars
  <2>11. ASSUME NEW history \in Seq(1 .. Len(found)),
                worksToProcess # << >>, RecordAttempt(history)
         PROVE  /\ worksToProcess' \in Seq(1 .. Len(found))
                /\ lastMinerWork' \in Seq(1 .. Len(found))
                /\ attempts' \in Seq(1 .. Len(found))
                /\ receiverPc' = "work"
    BY <2>11, RangeOfTail, RangeOfAppend DEF RecordAttempt
  <2>12. CASE SubmitUnconnected
    BY <2>12, <2>11, CutHistoryType DEF SubmitUnconnected, driverVars
  <2>13. CASE WriteSubmit
    BY <2>13, <2>11 DEF WriteSubmit, driverVars
  <2>14. CASE PanicInSubmit
    <3>1. Range(worksToProcess) \subseteq 1 .. Len(found)
      BY DEF Range
    <3>2. lost' \in SUBSET (1 .. Len(found))
      <4>1. lost' = lost \cup Range(worksToProcess)
        BY <2>14 DEF PanicInSubmit
      <4>2. QED
        BY <3>1, <4>1
    <3>3. UNCHANGED << found, readerPc, readerWork, aonFinishedWorks,
                       aonJobMutex, lastMinerWork, connection, attempts,
                       duplicates >>
      BY <2>14 DEF PanicInSubmit, driverVars
    <3>4. QED
      BY <2>14, <3>2, <3>3, EmptySequence DEF PanicInSubmit
  <2>15. CASE FinishBatch
    BY <2>15 DEF FinishBatch, driverVars, batchVars, historyVars
  <2>16. CASE Environment
    BY <2>16 DEF Environment, LockElsewhere, UnlockElsewhere, KeepElsewhere,
                 Disconnect, Connect, Acquire, driverVars, batchVars, historyVars
  <2>17. QED
    BY <2>1, <2>2, <2>3, <2>4, <2>5, <2>6, <2>7, <2>8, <2>9, <2>10, <2>12,
       <2>13, <2>14, <2>15, <2>16
       DEF Next, Reader, MinerReceiver, Submitting
<1>3. QED
  BY <1>1, <1>2, PTL DEF Spec

-----------------------------------------------------------------------------
(* The mutex *)

(* Who is inside a critical section holds AonJobMutex, and between the     *)
(* copy and the clear the local copy is AonFinishedWorks.                  *)
MutexDiscipline ==
  /\ \A r \in Readers : readerPc[r] = "append" <=> aonJobMutex = r
  /\ receiverPc \in {"copy", "clear"} <=> aonJobMutex = Receiver
  /\ receiverPc = "clear" => worksToProcess = aonFinishedWorks
  /\ receiverPc \in {"poll", "forget", "look", "lock", "copy"}
       => worksToProcess = << >>

(* No step breaks the discipline. *)
LEMMA MutexDisciplineStep ==
  ASSUME TypeOK, MutexDiscipline, [Next]_vars
  PROVE  MutexDiscipline'
<1> USE HolderAssumption DEF TypeOK, MutexDiscipline
<1>1. CASE UNCHANGED vars
  BY <1>1 DEF vars, driverVars, batchVars
<1>2. ASSUME NEW r \in Readers, Reader(r)
      PROVE  MutexDiscipline'
  BY <1>2 DEF Reader, FindShare, LockForAppend, AppendShare, Acquire, batchVars
<1>3. CASE Polling \/ LockForDrain \/ CopyFinished
  BY <1>3 DEF Polling, SeeForgetSubmits, ClearForgetSubmits, PollFinished,
              PollNothing, LockForDrain, CopyFinished, Acquire, driverVars,
              batchVars
<1>4. CASE ClearFinished
  BY <1>4 DEF ClearFinished, driverVars, batchVars
<1>5. CASE SkipDuplicate \/ FinishBatch
  BY <1>5 DEF SkipDuplicate, FinishBatch, driverVars, batchVars
<1>6. CASE BeginSubmit \/ SubmitUnconnected
  BY <1>6 DEF BeginSubmit, SubmitUnconnected, RecordAttempt, driverVars
<1>7. CASE WriteSubmit \/ PanicInSubmit
  BY <1>7 DEF WriteSubmit, PanicInSubmit, RecordAttempt, driverVars
<1>8. CASE Environment
  BY <1>8 DEF Environment, LockElsewhere, UnlockElsewhere, KeepElsewhere,
              Disconnect, Connect, Acquire, driverVars, batchVars
<1>9. QED
  BY <1>1, <1>2, <1>3, <1>4, <1>5, <1>6, <1>7, <1>8
     DEF Next, MinerReceiver, Submitting

-----------------------------------------------------------------------------
(* Every share is in one place *)

(* EveryShareInOnePlace in a form without the index into Places. *)
Partition(H, Q, B, A, D, L, S) ==
  /\ H \cup Q \cup B \cup A \cup D \cup L = S
  /\ H \cap (Q \cup B \cup A \cup D \cup L) = {}
  /\ Q \cap (B \cup A \cup D \cup L) = {}
  /\ B \cap (A \cup D \cup L) = {}
  /\ A \cap (D \cup L) = {}
  /\ D \cap L = {}

PlacesPartition ==
  Partition(InHand, Range(aonFinishedWorks), Range(Batch), Range(attempts),
            duplicates, lost, 1 .. Len(found))

HandsDiffer ==
  \A q, r \in Readers :
    q # r /\ readerPc[q] # "read" => readerWork[q] # readerWork[r]

NoRepetition ==
  /\ IsInjective(aonFinishedWorks)
  /\ IsInjective(Batch)
  /\ IsInjective(attempts)

PlaceInv == PlacesPartition /\ HandsDiffer /\ NoRepetition

(* The two forms say the same. *)
LEMMA PlaceInvIsOnePlace == PlaceInv => EveryShareInOnePlace
<1> DEFINE P(i) == Places[i]
<1>1. /\ DOMAIN Places = 1 .. 6
      /\ P(1) = InHand
      /\ P(2) = Range(aonFinishedWorks)
      /\ P(3) = Range(Batch)
      /\ P(4) = Range(attempts)
      /\ P(5) = duplicates
      /\ P(6) = lost
  BY DEF Places
<1>2. Range(Places) = {P(1), P(2), P(3), P(4), P(5), P(6)}
  <2>1. 1 .. 6 = {1, 2, 3, 4, 5, 6}
    OBVIOUS
  <2>2. QED
    BY <1>1, <2>1 DEF Range
<1> HIDE DEF P
<1>3. ASSUME PlacesPartition
      PROVE  /\ UNION Range(Places) = 1 .. Len(found)
             /\ \A i, j \in 1 .. 6 : i # j => P(i) \cap P(j) = {}
  BY <1>1, <1>2, <1>3 DEF PlacesPartition, Partition
<1>4. QED
  BY <1>1, <1>3 DEF P, PlaceInv, HandsDiffer, NoRepetition,
                    EveryShareInOnePlace

(* A found share is in its reader's hands. *)
LEMMA FindShareKeepsPlaces ==
  ASSUME TypeOK, MutexDiscipline, PlaceInv, NEW r \in Readers, FindShare(r)
  PROVE  PlaceInv'
<1> DEFINE new == Len(found) + 1
<1>1. /\ Len(found) \in Nat
      /\ Len(found') = new
      /\ readerWork' = [readerWork EXCEPT ![r] = new]
      /\ readerPc' = [readerPc EXCEPT ![r] = "lock"]
      /\ readerPc[r] = "read"
      /\ UNCHANGED << aonFinishedWorks, receiverPc, worksToProcess, attempts,
                      duplicates, lost >>
  BY DEF FindShare, TypeOK, batchVars, historyVars
<1>2. InHand' = InHand \cup {new}
  BY <1>1 DEF InHand, TypeOK
<1>3. UNCHANGED << Range(aonFinishedWorks), Range(Batch), Batch,
                   Range(attempts) >>
  BY <1>1 DEF Batch
<1>4. new \notin 1 .. Len(found) /\ 1 .. new = (1 .. Len(found)) \cup {new}
  BY <1>1
<1>5. PlacesPartition'
  BY <1>1, <1>2, <1>3, <1>4 DEF PlaceInv, PlacesPartition, Partition
<1>6. HandsDiffer'
  BY <1>1 DEF PlaceInv, HandsDiffer, TypeOK
<1>7. NoRepetition'
  BY <1>1, <1>3 DEF PlaceInv, NoRepetition
<1>8. QED
  BY <1>5, <1>6, <1>7 DEF PlaceInv

(* An appended share goes from its reader's hands to AonFinishedWorks; the *)
(* mutex keeps the receiver from clearing the slice meanwhile.             *)
LEMMA AppendShareKeepsPlaces ==
  ASSUME TypeOK, MutexDiscipline, PlaceInv, NEW r \in Readers, AppendShare(r)
  PROVE  PlaceInv'
<1> DEFINE sn == readerWork[r]
<1>1. /\ readerPc[r] = "append"
      /\ aonFinishedWorks' = Append(aonFinishedWorks, sn)
      /\ readerWork' = [readerWork EXCEPT ![r] = 0]
      /\ readerPc' = [readerPc EXCEPT ![r] = "read"]
      /\ UNCHANGED << found, receiverPc, worksToProcess, attempts, duplicates,
                      lost >>
  BY DEF AppendShare, batchVars, historyVars
<1>2. sn \in 1 .. Len(found)
  BY <1>1 DEF TypeOK
<1>3. sn \in InHand
  BY <1>1 DEF InHand
<1>4. InHand' = InHand \ {sn}
  <2>1. \A q \in Readers : q # r /\ readerPc[q] # "read" => readerWork[q] # sn
    BY <1>1 DEF PlaceInv, HandsDiffer
  <2>2. QED
    BY <1>1, <2>1 DEF InHand, TypeOK
<1>5. Range(aonFinishedWorks') = Range(aonFinishedWorks) \cup {sn}
  <2>1. aonFinishedWorks \in Seq(1 .. Len(found))
    BY DEF TypeOK
  <2> HIDE DEF sn
  <2>2. QED
    BY <1>1, <1>2, <2>1, RangeOfAppend
<1>6. UNCHANGED << Range(Batch), Batch, Range(attempts) >>
  BY <1>1 DEF Batch
<1>7. PlacesPartition'
  BY <1>1, <1>3, <1>4, <1>5, <1>6 DEF PlaceInv, PlacesPartition, Partition
<1>8. HandsDiffer'
  BY <1>1 DEF PlaceInv, HandsDiffer, TypeOK
<1>9. sn \notin Range(aonFinishedWorks)
  BY <1>3 DEF PlaceInv, PlacesPartition, Partition
<1>10. NoRepetition'
  BY <1>1, <1>2, <1>6, <1>9, InjectiveAppend
     DEF PlaceInv, NoRepetition, TypeOK
<1>11. QED
  BY <1>7, <1>8, <1>10 DEF PlaceInv

(* The clear makes the copy the place of everything that was queued. *)
LEMMA ClearFinishedKeepsPlaces ==
  ASSUME TypeOK, MutexDiscipline, PlaceInv, ClearFinished
  PROVE  PlaceInv'
<1>1. /\ Batch = << >>
      /\ Batch' = aonFinishedWorks
      /\ aonFinishedWorks' = << >>
      /\ UNCHANGED << found, readerPc, readerWork, attempts, duplicates, lost >>
  BY DEF ClearFinished, Batch, MutexDiscipline, driverVars, batchVars,
         historyVars
<1>2. InHand' = InHand
  BY <1>1 DEF InHand
<1>3. PlacesPartition'
  BY <1>1, <1>2, EmptySequence DEF PlaceInv, PlacesPartition, Partition
<1>4. QED
  BY <1>1, <1>3, EmptySequence DEF PlaceInv, HandsDiffer, NoRepetition

(* The first share of the batch leaves it for one other place. *)
LEMMA HeadLeavesBatch ==
  ASSUME TypeOK, PlaceInv, receiverPc \in {"work", "write"},
         worksToProcess # << >>
  PROVE  /\ Head(worksToProcess) \in 1 .. Len(found)
         /\ Batch = worksToProcess
         /\ Range(Batch) = Range(Tail(worksToProcess))
                             \cup {Head(worksToProcess)}
         /\ Head(worksToProcess) \notin Range(Tail(worksToProcess))
         /\ Head(worksToProcess) \notin Range(attempts)
         /\ IsInjective(Tail(worksToProcess))
<1>1. Batch = worksToProcess
  BY DEF Batch
<1>2. /\ Head(worksToProcess) \in 1 .. Len(found)
      /\ Range(Batch) = Range(Tail(worksToProcess))
                          \cup {Head(worksToProcess)}
  BY <1>1, RangeOfTail DEF TypeOK
<1>3. /\ IsInjective(Tail(worksToProcess))
      /\ Head(worksToProcess) \notin Range(Tail(worksToProcess))
  BY <1>1, InjectiveTail DEF TypeOK, PlaceInv, NoRepetition
<1>4. Head(worksToProcess) \notin Range(attempts)
  BY <1>2 DEF PlaceInv, PlacesPartition, Partition
<1>5. QED
  BY <1>1, <1>2, <1>3, <1>4

(* An attempt moves the head of the batch to the attempts. *)
LEMMA RecordAttemptKeepsPlaces ==
  ASSUME TypeOK, PlaceInv, receiverPc \in {"work", "write"},
         worksToProcess # << >>, NEW history, RecordAttempt(history),
         UNCHANGED << driverVars, aonFinishedWorks, duplicates, lost >>
  PROVE  PlaceInv'
<1> DEFINE sn == Head(worksToProcess)
<1>1. /\ worksToProcess' = Tail(worksToProcess)
      /\ attempts' = Append(attempts, sn)
      /\ Batch' = Tail(worksToProcess)
      /\ UNCHANGED << found, readerPc, readerWork >>
  BY DEF RecordAttempt, Batch, driverVars
<1>2. InHand' = InHand
  BY <1>1 DEF InHand
<1>3. /\ sn \in 1 .. Len(found)
      /\ Range(Batch) = Range(Batch') \cup {sn}
      /\ sn \notin Range(Batch')
      /\ sn \notin Range(attempts)
      /\ IsInjective(Batch')
  BY <1>1, HeadLeavesBatch
<1>4. Range(attempts') = Range(attempts) \cup {sn}
  BY <1>1, <1>3, RangeOfAppend DEF TypeOK
<1>5. PlacesPartition'
  BY <1>1, <1>2, <1>3, <1>4 DEF PlaceInv, PlacesPartition, Partition
<1>6. IsInjective(attempts')
  BY <1>1, <1>3, InjectiveAppend DEF TypeOK, PlaceInv, NoRepetition
<1>7. QED
  BY <1>1, <1>3, <1>5, <1>6 DEF PlaceInv, HandsDiffer, NoRepetition

(* A duplicate moves from the batch to the dropped shares. *)
LEMMA SkipDuplicateKeepsPlaces ==
  ASSUME TypeOK, PlaceInv, SkipDuplicate
  PROVE  PlaceInv'
<1> DEFINE sn == Head(worksToProcess)
<1>1. /\ receiverPc = "work"
      /\ worksToProcess # << >>
      /\ Batch' = Tail(worksToProcess)
      /\ duplicates' = duplicates \cup {sn}
      /\ UNCHANGED << found, readerPc, readerWork, aonFinishedWorks, attempts,
                      lost >>
  BY DEF SkipDuplicate, Batch, driverVars
<1>2. InHand' = InHand
  BY <1>1 DEF InHand
<1>3. /\ Range(Batch) = Range(Batch') \cup {sn}
      /\ sn \notin Range(Batch')
      /\ IsInjective(Batch')
  BY <1>1, HeadLeavesBatch
<1>4. PlacesPartition'
  BY <1>1, <1>2, <1>3 DEF PlaceInv, PlacesPartition, Partition
<1>5. QED
  BY <1>1, <1>3, <1>4 DEF PlaceInv, HandsDiffer, NoRepetition

(* A panic moves what is left of the batch to the lost shares. *)
LEMMA PanicKeepsPlaces ==
  ASSUME TypeOK, PlaceInv, PanicInSubmit
  PROVE  PlaceInv'
<1>1. /\ Batch = worksToProcess
      /\ Batch' = << >>
      /\ lost' = lost \cup Range(worksToProcess)
      /\ UNCHANGED << found, readerPc, readerWork, aonFinishedWorks, attempts,
                      duplicates >>
  BY DEF PanicInSubmit, Batch, driverVars
<1>2. InHand' = InHand
  BY <1>1 DEF InHand
<1>3. PlacesPartition'
  BY <1>1, <1>2, EmptySequence DEF PlaceInv, PlacesPartition, Partition
<1>4. QED
  BY <1>1, <1>3, EmptySequence DEF PlaceInv, HandsDiffer, NoRepetition

(* The other steps move no share. *)
LEMMA OthersKeepPlaces ==
  ASSUME TypeOK, PlaceInv,
         UNCHANGED << found, aonFinishedWorks, attempts, duplicates, lost >>,
         UNCHANGED << InHand, Batch >>,
         \A r \in Readers :
           /\ readerWork'[r] = readerWork[r]
           /\ readerPc'[r] # "read" <=> readerPc[r] # "read"
  PROVE  PlaceInv'
BY DEF PlaceInv, PlacesPartition, Partition, HandsDiffer, NoRepetition

(* No step of the program breaks the partition. *)
LEMMA PlaceInvStep ==
  ASSUME TypeOK, MutexDiscipline, PlaceInv, [Next]_vars
  PROVE  PlaceInv'
<1>1. CASE UNCHANGED vars
  BY <1>1, OthersKeepPlaces
     DEF vars, driverVars, batchVars, historyVars, InHand, Batch
<1>2. ASSUME NEW r \in Readers, LockForAppend(r)
      PROVE  PlaceInv'
  <2>1. \A q \in Readers : readerPc'[q] # "read" <=> readerPc[q] # "read"
    BY <1>2 DEF LockForAppend, TypeOK
  <2>2. /\ UNCHANGED << found, readerWork, aonFinishedWorks, attempts,
                        duplicates, lost >>
        /\ UNCHANGED << receiverPc, worksToProcess >>
    BY <1>2 DEF LockForAppend, batchVars, historyVars
  <2>3. UNCHANGED << InHand, Batch >>
    BY <2>1, <2>2 DEF InHand, Batch
  <2>4. QED
    BY <2>1, <2>2, <2>3, OthersKeepPlaces
<1>3. CASE Polling \/ LockForDrain
  BY <1>3, OthersKeepPlaces
     DEF Polling, SeeForgetSubmits, ClearForgetSubmits, PollFinished,
         PollNothing, LockForDrain, driverVars, batchVars, historyVars,
         InHand, Batch
<1>4. CASE CopyFinished
  BY <1>4, OthersKeepPlaces
     DEF CopyFinished, MutexDiscipline, driverVars, historyVars, InHand, Batch
<1>5. CASE BeginSubmit
  BY <1>5, OthersKeepPlaces
     DEF BeginSubmit, driverVars, historyVars, InHand, Batch
<1>6. CASE SubmitUnconnected
  BY <1>6, RecordAttemptKeepsPlaces DEF SubmitUnconnected
<1>7. CASE WriteSubmit
  BY <1>7, RecordAttemptKeepsPlaces DEF WriteSubmit, TypeOK
<1>8. CASE FinishBatch
  BY <1>8, OthersKeepPlaces
     DEF FinishBatch, driverVars, batchVars, historyVars, InHand, Batch
<1>9. CASE Environment
  BY <1>9, OthersKeepPlaces
     DEF Environment, LockElsewhere, UnlockElsewhere, KeepElsewhere,
         Disconnect, Connect, driverVars, batchVars, historyVars, InHand, Batch
<1>10. QED
  BY <1>1, <1>2, <1>3, <1>4, <1>5, <1>6, <1>7, <1>8, <1>9,
     FindShareKeepsPlaces, AppendShareKeepsPlaces, ClearFinishedKeepsPlaces,
     SkipDuplicateKeepsPlaces, PanicKeepsPlaces
     DEF Next, Reader, MinerReceiver, Submitting

(* The discipline and the partition hold from the start. *)
LEMMA PlaceInvInit == Init => MutexDiscipline /\ PlaceInv
<1> SUFFICES ASSUME Init
             PROVE  MutexDiscipline /\ PlaceInv
  OBVIOUS
<1>1. MutexDiscipline
  BY HolderAssumption DEF Init, MutexDiscipline
<1>2. /\ InHand = {}
      /\ Batch = << >>
  BY DEF Init, InHand, Batch
<1>3. PlacesPartition
  BY <1>2, EmptySequence DEF Init, PlacesPartition, Partition
<1>4. QED
  BY <1>1, <1>2, <1>3, EmptySequence
     DEF Init, PlaceInv, HandsDiffer, NoRepetition

(* The invariant of the shares' places, with what it rests on. *)
THEOREM PlacesInvariant == Spec => [](TypeOK /\ MutexDiscipline /\ PlaceInv)
<1>1. TypeOK /\ MutexDiscipline /\ PlaceInv /\ [Next]_vars
        => MutexDiscipline' /\ PlaceInv'
  BY MutexDisciplineStep, PlaceInvStep
<1>2. QED
  BY <1>1, PlaceInvInit, TypeCorrect, PTL DEF Spec

(* No share is lost or doubled between the devices and the pool, with any  *)
(* number of devices (aonminer.go:431-433, miner.go:283-297).              *)
THEOREM ShareInOnePlace == Spec => []EveryShareInOnePlace
BY PlacesInvariant, PlaceInvIsOnePlace, PTL

-----------------------------------------------------------------------------
(* The submit history *)

(* An attempt of sn made now repeats none of the last HistoryKeep ones. *)
Fresh(sn) ==
  \A i \in DOMAIN attempts :
    found[attempts[i]] = found[sn] => Len(attempts) + 1 - i >= HistoryKeep + 1

(* While a submit is under way its share is known to be fresh and the      *)
(* history has room for it: the test came before the cut.                  *)
HistoryInv ==
  /\ HistoryIsRecentPast
  /\ NoNearDuplicates
  /\ receiverPc = "write" => Len(lastMinerWork) < HistoryMax
  /\ receiverPc = "write" => Fresh(Head(worksToProcess))

(* The history looks back far enough: what it does not hold is fresh. *)
LEMMA NotDuplicateIsFresh ==
  ASSUME TypeOK, HistoryIsRecentPast, NEW sn \in 1 .. Len(found),
         ~ IsDuplicate(sn)
  PROVE  Fresh(sn)
<1> DEFINE m == Len(lastMinerWork)
           n == Len(attempts)
<1>1. m \in Nat /\ n \in Nat /\ DOMAIN attempts = 1 .. n
      /\ DOMAIN lastMinerWork = 1 .. m
  BY DEF TypeOK
<1>2. SUFFICES ASSUME NEW i \in 1 .. n, found[attempts[i]] = found[sn]
               PROVE  n + 1 - i >= HistoryKeep + 1
  BY <1>1 DEF Fresh
<1>3. i <= n - m
  <2>1. SUFFICES ASSUME i > n - m
                 PROVE  FALSE
    BY <1>1
  <2>2. i - (n - m) \in 1 .. m /\ n - m + (i - (n - m)) = i
    BY <1>1, <2>1
  <2>3. lastMinerWork[i - (n - m)] = attempts[i]
    BY <2>2 DEF HistoryIsRecentPast
  <2>4. QED
    BY <1>1, <1>2, <2>2, <2>3 DEF IsDuplicate
<1>4. m >= HistoryKeep
  <2>1. m = n \/ HistoryKeep <= m
    BY DEF HistoryIsRecentPast
  <2>2. m # n
    <3>1. i >= 1 /\ i \in Int
      BY <1>1
    <3> HIDE DEF m, n
    <3>2. QED
      BY <1>1, <1>3, <3>1
  <2>3. QED
    BY <1>1, <2>1, <2>2, HistoryAssumption
<1>5. QED
  BY <1>1, <1>2, <1>3, <1>4, HistoryAssumption

(* The cut leaves the latest attempts and room for one more. *)
LEMMA CutHistoryIsRecentPast ==
  ASSUME TypeOK, HistoryIsRecentPast
  PROVE  LET h == CutHistory IN
         /\ h \in Seq(1 .. Len(found))
         /\ Len(h) < HistoryMax
         /\ \/ Len(h) = Len(attempts)
            \/ HistoryKeep <= Len(h) /\ Len(h) <= Len(attempts)
         /\ \A i \in 1 .. Len(h) : h[i] = attempts[Len(attempts) - Len(h) + i]
<1> DEFINE m == Len(lastMinerWork)
           n == Len(attempts)
<1>1. m \in Nat /\ n \in Nat /\ m <= n
  BY DEF TypeOK, HistoryIsRecentPast
<1>2. CutHistory \in Seq(1 .. Len(found))
  BY CutHistoryType
<1>3. CASE m >= HistoryMax
  <2>1. m - HistoryKeep + 1 \in 1 .. m + 1
    BY <1>1, <1>3, HistoryAssumption
  <2>2. /\ Len(CutHistory) = HistoryKeep
        /\ \A i \in 1 .. HistoryKeep :
             CutHistory[i] = lastMinerWork[m - HistoryKeep + i]
    BY <1>1, <1>3, <2>1, HistoryAssumption, SubSeqProperties
       DEF CutHistory, TypeOK
  <2>3. ASSUME NEW i \in 1 .. HistoryKeep
        PROVE  CutHistory[i] = attempts[n - HistoryKeep + i]
    <3>1. /\ m - HistoryKeep + i \in 1 .. m
          /\ n - m + (m - HistoryKeep + i) = n - HistoryKeep + i
      BY <1>1, <1>3, HistoryAssumption
    <3>2. QED
      BY <2>2, <3>1 DEF HistoryIsRecentPast
  <2>4. QED
    BY <1>1, <1>2, <1>3, <2>2, <2>3, HistoryAssumption
<1>4. CASE ~ (m >= HistoryMax)
  <2>1. CutHistory = lastMinerWork
    BY <1>4 DEF CutHistory
  <2>2. QED
    BY <1>1, <1>2, <1>4, <2>1, HistoryAssumption DEF HistoryIsRecentPast
<1>5. QED
  BY <1>3, <1>4

(* A fresh share may be attempted: history and attempts grow together. *)
LEMMA RecordAttemptKeepsHistory ==
  ASSUME TypeOK, NoNearDuplicates, UNCHANGED found,
         worksToProcess # << >>, Fresh(Head(worksToProcess)),
         NEW h \in Seq(1 .. Len(found)),
         Len(h) < HistoryMax,
         \/ Len(h) = Len(attempts)
         \/ HistoryKeep <= Len(h) /\ Len(h) <= Len(attempts),
         \A i \in 1 .. Len(h) : h[i] = attempts[Len(attempts) - Len(h) + i],
         RecordAttempt(h)
  PROVE  HistoryInv'
<1> DEFINE sn == Head(worksToProcess)
           n  == Len(attempts)
<1>1. sn \in 1 .. Len(found)
  BY RangeOfTail DEF TypeOK
<1>2. /\ lastMinerWork' = Append(h, sn)
      /\ attempts' = Append(attempts, sn)
      /\ receiverPc' = "work"
  BY DEF RecordAttempt
<1>3. /\ n \in Nat
      /\ Len(attempts') = n + 1
      /\ DOMAIN attempts' = 1 .. n + 1
      /\ DOMAIN attempts = 1 .. n
      /\ \A i \in 1 .. n : attempts'[i] = attempts[i]
      /\ attempts'[n + 1] = sn
  BY <1>1, <1>2 DEF TypeOK
<1>4. /\ Len(h) \in Nat
      /\ Len(lastMinerWork') = Len(h) + 1
      /\ \A i \in 1 .. Len(h) : lastMinerWork'[i] = h[i]
      /\ lastMinerWork'[Len(h) + 1] = sn
  BY <1>1, <1>2
<1> HIDE DEF sn, n
<1>5. HistoryIsRecentPast'
  <2>1. ASSUME NEW i \in 1 .. Len(h) + 1
        PROVE  lastMinerWork'[i]
                 = attempts'[Len(attempts') - Len(lastMinerWork') + i]
    <3>1. Len(attempts') - Len(lastMinerWork') + i = n - Len(h) + i
      BY <1>3, <1>4
    <3>2. CASE i = Len(h) + 1
      BY <1>3, <1>4, <3>1, <3>2
    <3>3. CASE i \in 1 .. Len(h)
      <4>1. n - Len(h) + i \in 1 .. n
        BY <1>3, <1>4, <3>3, HistoryAssumption DEF n
      <4>2. QED
        BY <1>3, <1>4, <3>1, <3>3, <4>1 DEF n
    <3>4. QED
      BY <1>4, <3>2, <3>3
  <2>2. /\ Len(lastMinerWork') <= HistoryMax
        /\ \/ Len(lastMinerWork') = Len(attempts')
           \/ /\ HistoryKeep <= Len(lastMinerWork')
              /\ Len(lastMinerWork') <= Len(attempts')
    BY <1>3, <1>4, HistoryAssumption DEF n
  <2>3. QED
    BY <1>4, <2>1, <2>2 DEF HistoryIsRecentPast
<1>6. NoNearDuplicates'
  <2>1. SUFFICES ASSUME NEW i \in 1 .. n + 1, NEW j \in 1 .. n + 1, i < j,
                        found[attempts'[i]] = found[attempts'[j]]
                 PROVE  j - i >= HistoryKeep + 1
    BY <1>3 DEF NoNearDuplicates
  <2>2. CASE j <= n
    <3>1. /\ i \in DOMAIN attempts
          /\ j \in DOMAIN attempts
          /\ found[attempts[i]] = found[attempts[j]]
      BY <1>3, <2>1, <2>2
    <3>2. QED
      BY <2>1, <3>1 DEF NoNearDuplicates
  <2>3. CASE j = n + 1
    <3>1. /\ i \in DOMAIN attempts
          /\ found[attempts[i]] = found[sn]
      BY <1>3, <2>1, <2>3
    <3>2. n + 1 - i >= HistoryKeep + 1
      BY <3>1 DEF Fresh, sn, n
    <3>3. QED
      BY <1>3, <2>1, <2>3, <3>2, HistoryAssumption
  <2>4. QED
    BY <1>3, <2>2, <2>3
<1>7. QED
  BY <1>2, <1>5, <1>6 DEF HistoryInv

(* A step that leaves history, attempts and batch alone, and begins no     *)
(* submit, keeps the invariant.                                            *)
LEMMA OthersKeepHistory ==
  ASSUME HistoryInv,
         UNCHANGED << found, lastMinerWork, attempts, worksToProcess >>,
         receiverPc' = "write" => receiverPc = "write"
  PROVE  HistoryInv'
BY DEF HistoryInv, HistoryIsRecentPast, NoNearDuplicates, Fresh

(* Every step keeps the invariant of the history. *)
LEMMA HistoryInvStep ==
  ASSUME TypeOK, HistoryInv, [Next]_vars
  PROVE  HistoryInv'
<1>1. CASE UNCHANGED vars
  BY <1>1, OthersKeepHistory DEF vars, driverVars, batchVars, historyVars
<1>2. ASSUME NEW r \in Readers, FindShare(r)
      PROVE  HistoryInv'
  <2>1. /\ UNCHANGED << receiverPc, worksToProcess, lastMinerWork, attempts >>
        /\ \A sn \in 1 .. Len(found) : found'[sn] = found[sn]
    BY <1>2 DEF FindShare, TypeOK, batchVars, historyVars
  <2>2. \A i \in DOMAIN attempts : attempts[i] \in 1 .. Len(found)
    BY DEF TypeOK
  <2>3. receiverPc = "write" => Head(worksToProcess) \in 1 .. Len(found)
    BY RangeOfTail DEF TypeOK
  <2>4. NoNearDuplicates'
    BY <2>1, <2>2 DEF HistoryInv, NoNearDuplicates
  <2>5. receiverPc' = "write" => Fresh(Head(worksToProcess))'
    BY <2>1, <2>2, <2>3 DEF HistoryInv, Fresh
  <2>6. QED
    BY <2>1, <2>4, <2>5 DEF HistoryInv, HistoryIsRecentPast
<1>3. ASSUME NEW r \in Readers, LockForAppend(r) \/ AppendShare(r)
      PROVE  HistoryInv'
  BY <1>3, OthersKeepHistory
     DEF LockForAppend, AppendShare, batchVars, historyVars
<1>4. CASE Polling \/ LockForDrain \/ ClearFinished \/ FinishBatch
  BY <1>4, OthersKeepHistory
     DEF Polling, SeeForgetSubmits, ClearForgetSubmits, PollFinished,
         PollNothing, LockForDrain, ClearFinished, FinishBatch, driverVars,
         batchVars, historyVars
<1>5. CASE CopyFinished
  BY <1>5 DEF CopyFinished, driverVars, historyVars, HistoryInv,
              HistoryIsRecentPast, NoNearDuplicates
<1>6. CASE SkipDuplicate
  BY <1>6 DEF SkipDuplicate, driverVars, HistoryInv, HistoryIsRecentPast,
              NoNearDuplicates
<1>7. CASE BeginSubmit
  <2>1. Head(worksToProcess) \in 1 .. Len(found)
    BY <1>7, RangeOfTail DEF BeginSubmit, TypeOK
  <2>2. Fresh(Head(worksToProcess))
    BY <1>7, <2>1, NotDuplicateIsFresh DEF BeginSubmit, HistoryInv
  <2>3. /\ lastMinerWork' = CutHistory
        /\ UNCHANGED << found, attempts, worksToProcess >>
    BY <1>7 DEF BeginSubmit, driverVars, historyVars
  <2>4. HistoryIsRecentPast' /\ Len(lastMinerWork') < HistoryMax
    <3>1. /\ Len(CutHistory) \in Nat
          /\ Len(CutHistory) < HistoryMax
          /\ \/ Len(CutHistory) = Len(attempts)
             \/ /\ HistoryKeep <= Len(CutHistory)
                /\ Len(CutHistory) <= Len(attempts)
          /\ \A i \in 1 .. Len(CutHistory) :
               CutHistory[i] = attempts[Len(attempts) - Len(CutHistory) + i]
      BY CutHistoryIsRecentPast DEF HistoryInv
    <3>2. QED
      BY <2>3, <3>1, HistoryAssumption DEF HistoryIsRecentPast
  <2>5. NoNearDuplicates' /\ Fresh(Head(worksToProcess))'
    BY <2>2, <2>3 DEF HistoryInv, NoNearDuplicates, Fresh
  <2>6. QED
    BY <2>4, <2>5 DEF HistoryInv
<1>8. CASE SubmitUnconnected
  <2>1. Head(worksToProcess) \in 1 .. Len(found)
    BY <1>8, RangeOfTail DEF SubmitUnconnected, TypeOK
  <2>2. Fresh(Head(worksToProcess))
    BY <1>8, <2>1, NotDuplicateIsFresh DEF SubmitUnconnected, HistoryInv
  <2>3. /\ worksToProcess # << >>
        /\ UNCHANGED found
        /\ RecordAttempt(CutHistory)
    BY <1>8 DEF SubmitUnconnected, driverVars
  <2>4. QED
    BY <2>2, <2>3, CutHistoryIsRecentPast, RecordAttemptKeepsHistory
       DEF HistoryInv
<1>9. CASE WriteSubmit
  <2>1. /\ worksToProcess # << >>
        /\ UNCHANGED found
        /\ RecordAttempt(lastMinerWork)
        /\ Fresh(Head(worksToProcess))
        /\ Len(lastMinerWork) < HistoryMax
    BY <1>9 DEF WriteSubmit, driverVars, HistoryInv, TypeOK
  <2>2. QED
    BY <2>1, RecordAttemptKeepsHistory
       DEF HistoryInv, HistoryIsRecentPast, TypeOK
<1>10. CASE PanicInSubmit
  BY <1>10 DEF PanicInSubmit, driverVars, HistoryInv, HistoryIsRecentPast,
               NoNearDuplicates
<1>11. CASE Environment
  BY <1>11, OthersKeepHistory
     DEF Environment, LockElsewhere, UnlockElsewhere, KeepElsewhere,
         Disconnect, Connect, driverVars, batchVars, historyVars
<1>12. QED
  BY <1>1, <1>2, <1>3, <1>4, <1>5, <1>6, <1>7, <1>8, <1>9, <1>10, <1>11
     DEF Next, Reader, MinerReceiver, Submitting

(* The invariant of the submit history, with the types it rests on. *)
THEOREM HistoryInvariant == Spec => [](TypeOK /\ HistoryInv)
<1>1. Init => HistoryInv
  BY HistoryAssumption
     DEF Init, HistoryInv, HistoryIsRecentPast, NoNearDuplicates
<1>2. TypeOK /\ HistoryInv /\ [Next]_vars => HistoryInv'
  BY HistoryInvStep
<1>3. QED
  BY <1>1, <1>2, TypeCorrect, PTL DEF Spec

(* Shares with equal Nonce, ExtraNonce2 and BlockTimestamp are attempted   *)
(* only far apart, for any limits of the history (miner.go:300-318).       *)
THEOREM NoNearDuplicatesEver == Spec => []NoNearDuplicates
<1>1. HistoryInv => NoNearDuplicates
  BY DEF HistoryInv
<1>2. QED
  BY <1>1, HistoryInvariant, PTL

(* LastMinerWork stays within its limit and holds the latest attempts      *)
(* (miner.go:313-318).                                                     *)
THEOREM HistoryStaysRecent == Spec => []HistoryIsRecentPast
<1>1. HistoryInv => HistoryIsRecentPast
  BY DEF HistoryInv
<1>2. QED
  BY <1>1, HistoryInvariant, PTL

-----------------------------------------------------------------------------
(* The queue implements the ledger *)

(* What the ledger calls unsettled. *)
Unsettled == InHand \cup Range(aonFinishedWorks) \cup Range(Batch)

(* As every share is in one place, the unsettled ones are those that are   *)
(* neither attempted nor dropped nor lost.                                 *)
LEMMA UnsettledIsTheRest ==
  ASSUME PlaceInv
  PROVE  Unsettled =
           (1 .. Len(found)) \ (Range(attempts) \cup duplicates \cup lost)
BY DEF PlaceInv, PlacesPartition, Partition, Unsettled

(* The same of the state after a step. *)
LEMMA UnsettledIsTheRestAfter ==
  ASSUME PlaceInv'
  PROVE  Unsettled' =
           (1 .. Len(found')) \ (Range(attempts') \cup duplicates' \cup lost')
BY DEF PlaceInv, PlacesPartition, Partition, Unsettled

(* Finding a share opens an entry of the ledger. *)
LEMMA FindShareIsFind ==
  ASSUME TypeOK, PlaceInv, PlaceInv', NEW r \in Readers, FindShare(r)
  PROVE  Ledger!Find
<1>1. /\ Len(found) \in Nat
      /\ Len(found') = Len(found) + 1
      /\ UNCHANGED << attempts, duplicates, lost >>
  BY DEF FindShare, TypeOK, historyVars
<1>2. Range(attempts) \subseteq 1 .. Len(found)
  BY DEF TypeOK, Range
<1>3. Unsettled' = Unsettled \cup {Len(found) + 1}
  <2>1. Unsettled' =
          (1 .. Len(found')) \ (Range(attempts) \cup duplicates \cup lost)
    BY <1>1, UnsettledIsTheRestAfter
  <2>2. /\ 1 .. Len(found') = (1 .. Len(found)) \cup {Len(found) + 1}
        /\ Len(found) + 1 \notin Range(attempts) \cup duplicates \cup lost
    BY <1>1, <1>2 DEF TypeOK
  <2>3. QED
    BY <2>1, <2>2, UnsettledIsTheRest
<1>4. QED
  BY <1>1, <1>3 DEF FindShare, Ledger!Find, Unsettled

(* Recording an attempt settles its share by an attempt. *)
LEMMA RecordAttemptIsAttempt ==
  ASSUME TypeOK, PlaceInv, PlaceInv', receiverPc \in {"work", "write"},
         worksToProcess # << >>, Fresh(Head(worksToProcess)),
         NEW h, RecordAttempt(h), UNCHANGED << found, duplicates, lost >>
  PROVE  /\ Head(worksToProcess) \in Unsettled
         /\ Ledger!Attempt(Head(worksToProcess))
<1> DEFINE sn == Head(worksToProcess)
<1>1. sn \in 1 .. Len(found) /\ sn \in Range(Batch)
  BY HeadLeavesBatch
<1>2. attempts' = Append(attempts, sn)
  BY DEF RecordAttempt
<1>3. Range(attempts') = Range(attempts) \cup {sn}
  <2>1. attempts \in Seq(1 .. Len(found))
    BY DEF TypeOK
  <2> HIDE DEF sn
  <2>2. QED
    BY <1>1, <1>2, <2>1, RangeOfAppend
<1>4. Unsettled' = Unsettled \ {sn}
  <2>1. Unsettled' =
          (1 .. Len(found)) \ (Range(attempts') \cup duplicates \cup lost)
    BY UnsettledIsTheRestAfter
  <2>2. QED
    BY <1>3, <2>1, UnsettledIsTheRest
<1>5. \A i \in DOMAIN attempts :
        found[attempts[i]] = found[sn] => Ledger!Gap(i) >= HistoryKeep + 1
  BY DEF Fresh, Ledger!Gap
<1>6. QED
  BY <1>1, <1>2, <1>4, <1>5 DEF Ledger!Attempt, Unsettled

(* Skipping a duplicate settles it: its twin is in the history, so among   *)
(* the latest HistoryMax attempts.                                         *)
LEMMA SkipDuplicateIsDrop ==
  ASSUME TypeOK, PlaceInv, PlaceInv', HistoryInv, SkipDuplicate
  PROVE  /\ Head(worksToProcess) \in Unsettled
         /\ Ledger!DropDuplicate(Head(worksToProcess))
<1> DEFINE sn == Head(worksToProcess)
           m  == Len(lastMinerWork)
           n  == Len(attempts)
<1>1. sn \in 1 .. Len(found) /\ sn \in Range(Batch)
  BY HeadLeavesBatch DEF SkipDuplicate
<1>2. /\ duplicates' = duplicates \cup {sn}
      /\ UNCHANGED << found, attempts, lost >>
  BY DEF SkipDuplicate, driverVars
<1>3. Unsettled' = Unsettled \ {sn}
  <2>1. Unsettled' =
          (1 .. Len(found)) \ (Range(attempts) \cup duplicates' \cup lost)
    BY <1>2, UnsettledIsTheRestAfter
  <2>2. QED
    BY <1>2, <2>1, UnsettledIsTheRest
<1>4. \E i \in DOMAIN attempts :
        found[attempts[i]] = found[sn] /\ Ledger!Gap(i) <= HistoryMax
  <2>1. PICK j \in 1 .. m : found[lastMinerWork[j]] = found[sn]
    <3>1. DOMAIN lastMinerWork = 1 .. m
      BY DEF TypeOK
    <3>2. QED
      BY <3>1 DEF SkipDuplicate, IsDuplicate
  <2>2. /\ m \in Nat /\ n \in Nat /\ m <= n /\ m <= HistoryMax
        /\ DOMAIN attempts = 1 .. n
    BY DEF TypeOK, HistoryInv, HistoryIsRecentPast
  <2>3. lastMinerWork[j] = attempts[n - m + j]
    BY <2>1 DEF HistoryInv, HistoryIsRecentPast
  <2>4. /\ n - m + j \in 1 .. n
        /\ n + 1 - (n - m + j) <= HistoryMax
    BY <2>1, <2>2, HistoryAssumption
  <2>5. QED
    BY <2>1, <2>2, <2>3, <2>4 DEF Ledger!Gap
<1>5. QED
  BY <1>1, <1>2, <1>3, <1>4 DEF Ledger!DropDuplicate, Unsettled

(* A panic loses the rest of the batch. *)
LEMMA PanicIsLose ==
  ASSUME TypeOK, PlaceInv, PlaceInv', PanicInSubmit
  PROVE  /\ Range(worksToProcess) \in SUBSET Unsettled
         /\ Ledger!Lose(Range(worksToProcess))
<1>1. Batch = worksToProcess
  BY DEF PanicInSubmit, Batch
<1>2. /\ lost' = lost \cup Range(worksToProcess)
      /\ UNCHANGED << found, attempts, duplicates >>
  BY DEF PanicInSubmit, driverVars
<1>3. Unsettled' = Unsettled \ Range(worksToProcess)
  <2>1. Unsettled' =
          (1 .. Len(found)) \ (Range(attempts) \cup duplicates \cup lost')
    BY <1>2, UnsettledIsTheRestAfter
  <2>2. QED
    BY <1>2, <2>1, UnsettledIsTheRest
<1>4. QED
  BY <1>1, <1>2, <1>3 DEF Ledger!Lose, Unsettled

(* The steps that move shares along without settling them. *)
LEMMA OthersStutter ==
  ASSUME PlaceInv, PlaceInv', UNCHANGED << found, attempts, duplicates, lost >>
  PROVE  UNCHANGED Ledger!vars
<1>1. Unsettled' = Unsettled
  BY UnsettledIsTheRest, UnsettledIsTheRestAfter
<1>2. QED
  BY <1>1 DEF Ledger!vars, Unsettled

(* ShareQueue implements ShareLedger: each share a device finds is settled *)
(* once, by an attempt that repeats no recent one, a drop justified by a   *)
(* recent attempt, or a panic in its batch (miner.go:299-318).             *)
THEOREM QueueImplementsLedger == Spec => LedgerSpec
<1>1. Init => Ledger!Init
  <2> SUFFICES ASSUME Init
               PROVE  Ledger!Init
    OBVIOUS
  <2>1. Unsettled = {}
    BY EmptySequence DEF Init, Unsettled, InHand, Batch
  <2>2. QED
    BY <2>1 DEF Init, Ledger!Init, Unsettled
<1>2. TypeOK /\ PlaceInv /\ PlaceInv' /\ HistoryInv /\ [Next]_vars
        => [Ledger!Next]_(Ledger!vars)
  <2> SUFFICES ASSUME TypeOK, PlaceInv, PlaceInv', HistoryInv, [Next]_vars
               PROVE  [Ledger!Next]_(Ledger!vars)
    OBVIOUS
  <2>1. CASE UNCHANGED vars
    BY <2>1, OthersStutter DEF vars, driverVars, historyVars
  <2>2. ASSUME NEW r \in Readers, FindShare(r)
        PROVE  Ledger!Next
    BY <2>2, FindShareIsFind DEF Ledger!Next
  <2>3. ASSUME NEW r \in Readers, LockForAppend(r) \/ AppendShare(r)
        PROVE  UNCHANGED Ledger!vars
    BY <2>3, OthersStutter DEF LockForAppend, AppendShare, historyVars
  <2>4. CASE \/ Polling \/ LockForDrain \/ CopyFinished
             \/ ClearFinished \/ BeginSubmit \/ FinishBatch
    BY <2>4, OthersStutter
       DEF Polling, SeeForgetSubmits, ClearForgetSubmits, PollFinished,
           PollNothing, LockForDrain, CopyFinished, ClearFinished,
           BeginSubmit, FinishBatch, driverVars, historyVars
  <2>5. CASE SkipDuplicate
    <3>1. PICK sn \in Unsettled : Ledger!DropDuplicate(sn)
      BY <2>5, SkipDuplicateIsDrop
    <3>2. QED
      BY <3>1 DEF Ledger!Next, Unsettled
  <2>6. CASE SubmitUnconnected
    <3>1. /\ receiverPc = "work"
          /\ worksToProcess # << >>
          /\ RecordAttempt(CutHistory)
          /\ UNCHANGED << found, duplicates, lost >>
          /\ ~ IsDuplicate(Head(worksToProcess))
      BY <2>6 DEF SubmitUnconnected, driverVars
    <3>2. Head(worksToProcess) \in 1 .. Len(found)
      BY <3>1, RangeOfTail DEF TypeOK
    <3>3. Fresh(Head(worksToProcess))
      BY <3>1, <3>2, NotDuplicateIsFresh DEF HistoryInv
    <3>4. PICK sn \in Unsettled : Ledger!Attempt(sn)
      BY <3>1, <3>3, RecordAttemptIsAttempt
    <3>5. QED
      BY <3>4 DEF Ledger!Next, Unsettled
  <2>7. CASE WriteSubmit
    <3>1. /\ receiverPc = "write"
          /\ worksToProcess # << >>
          /\ RecordAttempt(lastMinerWork)
          /\ UNCHANGED << found, duplicates, lost >>
          /\ Fresh(Head(worksToProcess))
      BY <2>7 DEF WriteSubmit, driverVars, TypeOK, HistoryInv
    <3>2. PICK sn \in Unsettled : Ledger!Attempt(sn)
      BY <3>1, RecordAttemptIsAttempt
    <3>3. QED
      BY <3>2 DEF Ledger!Next, Unsettled
  <2>8. CASE PanicInSubmit
    <3>1. PICK S \in SUBSET Unsettled : Ledger!Lose(S)
      BY <2>8, PanicIsLose
    <3>2. QED
      BY <3>1 DEF Ledger!Next, Unsettled
  <2>9. CASE Environment
    BY <2>9, OthersStutter
       DEF Environment, LockElsewhere, UnlockElsewhere, KeepElsewhere,
         Disconnect, Connect, driverVars, historyVars
  <2>10. QED
    BY <2>1, <2>2, <2>3, <2>4, <2>5, <2>6, <2>7, <2>8, <2>9
       DEF Next, Reader, MinerReceiver, Submitting
<1>3. QED
  BY <1>1, <1>2, PlacesInvariant, HistoryInvariant, PTL
     DEF Spec, LedgerSpec, Ledger!Spec
=============================================================================
