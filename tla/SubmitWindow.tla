---------------------------- MODULE SubmitWindow ----------------------------
(***************************************************************************)
(* How the pool's answers are matched with the shares they are about.      *)
(*                                                                         *)
(* StratumSubmit, in the MinerReceiver goroutine, writes a share to the    *)
(* pool and then records it in LastStratumSubmits, a window of the latest  *)
(* MaxSubmits works.  It does not take StratumMutex.  StratumReceiver, in  *)
(* a goroutine of its own and with StratumMutex held, looks an answer up   *)
(* in the window by WorkID, counts consecutive rejections and removes the  *)
(* work.  As the two race, every load and store of the slice header of     *)
(* LastStratumSubmits is a step of its own here (a header is taken to be   *)
(* loaded and stored whole; a build that loads once what the source names  *)
(* twice takes two of the steps together).  An index panic in              *)
(* StratumReceiver ends the program, as nothing in that goroutine          *)
(* recovers; one in StratumSubmit ends a round of MinerReceiver.  A        *)
(* reconnection takes the mutex for good (see Session), and the receiver   *)
(* stops at its next lock.                                                 *)
(*                                                                         *)
(* A work is its serial number in the order of submission, and workId[sn]  *)
(* its WorkID, the ASIC's job number and device: several works share one.  *)
(***************************************************************************)
EXTENDS Integers, Sequences, SequencesExt

CONSTANTS
  WorkIDs,        \* values of StratumWork.WorkID
  MaxSubmits,     \* 10: the size of the window
  MaxRejections,  \* 3: rejections in a row that are tolerated
  InOrder,        \* the pool answers in the order of the submissions
  MaxWorks        \* bound: works submitted in a behaviour

ASSUME WindowAssumption ==
  /\ MaxSubmits \in Nat \ {0}
  /\ MaxRejections \in Nat
  /\ MaxWorks \in Nat
  /\ InOrder \in BOOLEAN

VARIABLES
  workId,          \* the WorkID of every work written to the pool
  pending,         \* the works the pool has not answered, in order
  answers,         \* the answers on their way: [work, accepted]
  window,          \* LastStratumSubmits
  submitPc,        \* where MinerReceiver is
  submitView,      \* the header it has loaded
  receiverPc,      \* where StratumReceiver is
  receiverView,    \* the header it has loaded for the works before index
  restView,        \* and the one for the works after it
  answer,          \* the answer it is handling
  index,           \* the position at which it found the work
  stratumMutex,    \* the holder of StratumMutex, or "free"
  poolRejections,  \* PoolRejections
  forgetSubmits,   \* LastStratumJob.ForgetSubmits
  crashed,         \* a panic has ended the program
  credits,         \* history: <<work answered, work found for it>>
  rejections,      \* history: rejections read in all
  mixed,           \* history: a removal has loaded two different headers
  forced           \* history: job changes forced

submitVars   == << submitPc, submitView >>
receiverVars == << receiverPc, receiverView, restView, answer, index >>
poolVars     == << workId, pending, answers >>
historyVars  == << credits, rejections, mixed, forced >>
vars == << poolVars, window, submitVars, receiverVars, stratumMutex,
           poolRejections, forgetSubmits, crashed, historyVars >>

Works == 1 .. Len(workId)

NoAnswer == [work |-> 0, accepted |-> FALSE]

TypeOK ==
  /\ workId \in Seq(WorkIDs)
  /\ pending \in Seq(Works)
  /\ answers \in Seq([work : Works, accepted : BOOLEAN])
  /\ window \in Seq(Works)
  /\ submitPc \in {"idle", "forget", "batch", "check", "full", "slice",
                   "load", "append"}
  /\ submitView \in Seq(Works)
  /\ receiverPc \in {"read", "lock", "match", "load", "reload", "store"}
  /\ receiverView \in Seq(Works)
  /\ restView \in Seq(Works)
  /\ answer \in [work : Works \cup {0}, accepted : BOOLEAN]
  /\ receiverPc # "read" => answer.work \in Works
  /\ index \in Nat
  /\ receiverPc \in {"reload", "store"} => index - 1 <= Len(receiverView)
  /\ receiverPc = "store" => index \in 1 .. Len(restView)
  /\ stratumMutex \in {"free", "receiver", "reconnect"}
  /\ poolRejections \in Nat
  /\ forgetSubmits \in BOOLEAN
  /\ crashed \in BOOLEAN
  /\ credits \in SUBSET (Works \X Works)
  /\ rejections \in Nat
  /\ mixed \in BOOLEAN
  /\ forced \in Nat

Init ==
  /\ workId = << >>
  /\ pending = << >>
  /\ answers = << >>
  /\ window = << >>
  /\ submitPc = "idle"
  /\ submitView = << >>
  /\ receiverPc = "read"
  /\ receiverView = << >>
  /\ restView = << >>
  /\ answer = NoAnswer
  /\ index = 0
  /\ stratumMutex = "free"
  /\ poolRejections = 0
  /\ forgetSubmits = FALSE
  /\ crashed = FALSE
  /\ credits = {}
  /\ rejections = 0
  /\ mixed = FALSE
  /\ forced = 0

-----------------------------------------------------------------------------
(* MinerReceiver *)

(* The flag is read once in a round, without the mutex. *)
SeeForgetSubmits ==
  /\ submitPc = "idle"
  /\ forgetSubmits
  /\ submitPc' = "forget"
  /\ UNCHANGED << poolVars, window, submitView, receiverVars, stratumMutex,
                  poolRejections, forgetSubmits, historyVars >>

SeeNothingToForget ==
  /\ submitPc = "idle"
  /\ ~ forgetSubmits
  /\ submitPc' = "batch"
  /\ UNCHANGED << poolVars, window, submitView, receiverVars, stratumMutex,
                  poolRejections, forgetSubmits, historyVars >>

(* Lock, clear, unlock. *)
ClearForgetSubmits ==
  /\ submitPc = "forget"
  /\ stratumMutex = "free"
  /\ forgetSubmits' = FALSE
  /\ submitPc' = "batch"
  /\ UNCHANGED << poolVars, window, submitView, receiverVars, stratumMutex,
                  poolRejections, historyVars >>

(* The next share of the round is written to the pool.  (A write that      *)
(* fails leaves the window alone.)                                         *)
WriteShare ==
  /\ submitPc = "batch"
  /\ Len(workId) < MaxWorks
  /\ \E id \in WorkIDs : workId' = Append(workId, id)
  /\ pending' = Append(pending, Len(workId) + 1)
  /\ submitPc' = "check"
  /\ UNCHANGED << answers, window, submitView, receiverVars, stratumMutex,
                  poolRejections, forgetSubmits, historyVars >>

(* The round ends after its last share, or with a panic in a write. *)
EndRound ==
  /\ submitPc = "batch"
  /\ submitPc' = "idle"
  /\ UNCHANGED << poolVars, window, submitView, receiverVars, stratumMutex,
                  poolRejections, forgetSubmits, historyVars >>

(* Fault: the limit is tested for one work too many. *)
CheckWindowLate ==
  /\ submitPc = "check"
  /\ submitPc' = IF Len(window) = MaxSubmits + 1 THEN "full" ELSE "load"
  /\ UNCHANGED << poolVars, window, submitView, receiverVars, stratumMutex,
                  poolRejections, forgetSubmits, historyVars >>

(* Is the window full? *)
CheckWindow ==
  /\ submitPc = "check"
  /\ submitPc' = IF Len(window) = MaxSubmits THEN "full" ELSE "load"
  /\ UNCHANGED << poolVars, window, submitView, receiverVars, stratumMutex,
                  poolRejections, forgetSubmits, historyVars >>

(* The slice expression loads the header again, which may be shorter now. *)
LoadForSlice ==
  /\ submitPc = "full"
  /\ submitView' = window
  /\ submitPc' = "slice"
  /\ UNCHANGED << poolVars, window, receiverVars, stratumMutex,
                  poolRejections, forgetSubmits, historyVars >>

DropOldest ==
  /\ submitPc = "slice"
  /\ submitView # << >>
  /\ window' = Tail(submitView)
  /\ submitView' = << >>
  /\ submitPc' = "load"
  /\ UNCHANGED << poolVars, receiverVars, stratumMutex, poolRejections,
                  forgetSubmits, historyVars >>

(* Every work has been answered since the test: MinerReceiver recovers,    *)
(* the share is not recorded and the rest of the round is lost.            *)
PanicInSlice ==
  /\ submitPc = "slice"
  /\ submitView = << >>
  /\ submitPc' = "idle"
  /\ UNCHANGED << poolVars, window, submitView, receiverVars, stratumMutex,
                  poolRejections, forgetSubmits, historyVars >>

LoadWindow ==
  /\ submitPc = "load"
  /\ submitView' = window
  /\ submitPc' = "append"
  /\ UNCHANGED << poolVars, window, receiverVars, stratumMutex,
                  poolRejections, forgetSubmits, historyVars >>

(* Fault: the new work is put at the front. *)
PrependWork ==
  /\ submitPc = "append"
  /\ window' = << Len(workId) >> \o submitView
  /\ submitView' = << >>
  /\ submitPc' = "batch"
  /\ UNCHANGED << poolVars, receiverVars, stratumMutex, poolRejections,
                  forgetSubmits, historyVars >>

(* The work recorded is the one just written, the latest there is. *)
AppendWork ==
  /\ submitPc = "append"
  /\ window' = Append(submitView, Len(workId))
  /\ submitView' = << >>
  /\ submitPc' = "batch"
  /\ UNCHANGED << poolVars, receiverVars, stratumMutex, poolRejections,
                  forgetSubmits, historyVars >>

-----------------------------------------------------------------------------
(* StratumReceiver *)

ReadAnswer ==
  /\ receiverPc = "read"
  /\ answers # << >>
  /\ answer' = Head(answers)
  /\ answers' = Tail(answers)
  /\ rejections' = rejections + (IF Head(answers).accepted THEN 0 ELSE 1)
  /\ receiverPc' = "lock"
  /\ UNCHANGED << workId, pending, window, submitVars, receiverView, restView,
                  index, stratumMutex, poolRejections, forgetSubmits, credits,
                  mixed, forced >>

(* Fault: an answer in hand is lost when the receiver has to wait. *)
LockReceiverLoseAnswer ==
  /\ receiverPc = "lock"
  /\ stratumMutex = "free"
  /\ stratumMutex' = "receiver"
  /\ answer' = NoAnswer
  /\ receiverPc' = "match"
  /\ UNCHANGED << poolVars, window, submitVars, receiverView, restView, index,
                  poolRejections, forgetSubmits, historyVars >>

LockReceiver ==
  /\ receiverPc = "lock"
  /\ stratumMutex = "free"
  /\ stratumMutex' = "receiver"
  /\ receiverPc' = "match"
  /\ UNCHANGED << poolVars, window, submitVars, receiverView, restView, answer,
                  index, poolRejections, forgetSubmits, historyVars >>

Matches(i) == workId[window[i]] = workId[answer.work]

(* Fault: the deferred unlock is forgotten. *)
ReturnToReadLocked ==
  /\ receiverPc' = "read"
  /\ answer' = NoAnswer
  /\ index' = 0
  /\ receiverView' = << >>
  /\ restView' = << >>
  /\ UNCHANGED stratumMutex

(* The receiver unlocks and returns to reading. *)
ReturnToRead ==
  /\ receiverPc' = "read"
  /\ stratumMutex' = "free"
  /\ answer' = NoAnswer
  /\ index' = 0
  /\ receiverView' = << >>
  /\ restView' = << >>

(* Fault: Go's zero-based index used as a position: one too far. *)
MatchAnswerPastIt ==
  /\ receiverPc = "match"
  /\ \E i \in DOMAIN window :
       /\ Matches(i)
       /\ \A j \in 1 .. i - 1 : ~ Matches(j)
       /\ index' = i + 1
       /\ credits' = credits \cup {<< answer.work, window[i] >>}
  /\ poolRejections' = IF answer.accepted THEN 0 ELSE poolRejections + 1
  /\ receiverPc' = "load"
  /\ UNCHANGED << poolVars, window, submitVars, receiverView, restView, answer,
                  stratumMutex, forgetSubmits, rejections, mixed, forced >>

(* The range loop looks through the window as it is when the loop starts;  *)
(* the first match counts.                                                 *)
MatchAnswer ==
  /\ receiverPc = "match"
  /\ \E i \in DOMAIN window :
       /\ Matches(i)
       /\ \A j \in 1 .. i - 1 : ~ Matches(j)
       /\ index' = i
       /\ credits' = credits \cup {<< answer.work, window[i] >>}
  /\ poolRejections' = IF answer.accepted THEN 0 ELSE poolRejections + 1
  /\ receiverPc' = "load"
  /\ UNCHANGED << poolVars, window, submitVars, receiverView, restView, answer,
                  stratumMutex, forgetSubmits, rejections, mixed, forced >>

(* An answer without a work in the window is ignored. *)
IgnoreAnswer ==
  /\ receiverPc = "match"
  /\ \A i \in DOMAIN window : ~ Matches(i)
  /\ ReturnToRead
  /\ UNCHANGED << poolVars, window, submitVars, poolRejections,
                  forgetSubmits, historyVars >>

(* The removal loads the header twice, for LastStratumSubmits[:index] and  *)
(* for [index+1:].  The first is always there, as TypeOK says: since the   *)
(* search the window has become shorter by one work at most.               *)
LoadForRemoval ==
  /\ receiverPc = "load"
  /\ receiverView' = window
  /\ receiverPc' = "reload"
  /\ UNCHANGED << poolVars, window, submitVars, restView, answer, index,
                  stratumMutex, poolRejections, forgetSubmits, historyVars >>

LoadRest ==
  /\ receiverPc = "reload"
  /\ index <= Len(window)
  /\ restView' = window
  /\ mixed' = (mixed \/ window # receiverView)
  /\ receiverPc' = "store"
  /\ UNCHANGED << poolVars, window, submitVars, receiverView, answer, index,
                  stratumMutex, poolRejections, forgetSubmits, credits,
                  rejections, forced >>

(* The second is out of range if the window has become shorter. *)
PanicInRemoval ==
  /\ receiverPc = "reload"
  /\ index > Len(window)
  /\ crashed' = TRUE
  /\ UNCHANGED << poolVars, window, submitVars, receiverVars, stratumMutex,
                  poolRejections, forgetSubmits, historyVars >>

(* The header that StratumSubmit has loaded may be of the same array as    *)
(* the receiver's, its k-th entry being the (k + d)-th of the other.       *)
SameArray(d) ==
  \A k \in DOMAIN submitView :
    k + d \in DOMAIN receiverView => submitView[k] = receiverView[k + d]

(* The removal moves the later works down in the array: each entry that    *)
(* StratumSubmit reads there is the old one or the one moved there.        *)
MovedViews ==
  {view \in [DOMAIN submitView -> Works] :
     \E d \in -Len(submitView) .. Len(receiverView) :
       /\ SameArray(d)
       /\ \A k \in DOMAIN submitView :
            \/ view[k] = submitView[k]
            \/ /\ k + d \in index .. Len(restView) - 1
               /\ view[k] = restView[k + d + 1]}

(* Fault: the count is not reset when the change is forced. *)
ForceJobChangeNoReset ==
  IF poolRejections > MaxRejections
  THEN /\ forgetSubmits' = TRUE
       /\ forced' = forced + 1
       /\ UNCHANGED poolRejections
  ELSE UNCHANGED << poolRejections, forgetSubmits, forced >>

(* After more than MaxRejections in a row a job change is forced. *)
ForceJobChange ==
  IF poolRejections > MaxRejections
  THEN /\ poolRejections' = 0
       /\ forgetSubmits' = TRUE
       /\ forced' = forced + 1
  ELSE UNCHANGED << poolRejections, forgetSubmits, forced >>

StoreRemoval ==
  /\ receiverPc = "store"
  /\ window' = SubSeq(receiverView, 1, index - 1)
                 \o SubSeq(restView, index + 1, Len(restView))
  /\ submitView' \in MovedViews
  /\ ForceJobChange
  /\ ReturnToRead
  /\ UNCHANGED << poolVars, submitPc, credits, rejections, mixed >>

(* mining.notify: a new job, which the pool may want taken up at once. *)
Notify ==
  /\ receiverPc = "read"
  /\ stratumMutex = "free"
  /\ forgetSubmits' \in BOOLEAN
  /\ UNCHANGED << poolVars, window, submitVars, receiverVars, stratumMutex,
                  poolRejections, historyVars >>

-----------------------------------------------------------------------------
(* The pool *)

Answer(i) ==
  /\ InOrder => i = 1
  /\ \E a \in BOOLEAN :
       answers' = Append(answers, [work |-> pending[i], accepted |-> a])
  /\ pending' = RemoveAt(pending, i)
  /\ UNCHANGED << workId, window, submitVars, receiverVars, stratumMutex,
                  poolRejections, forgetSubmits, historyVars >>

-----------------------------------------------------------------------------
(* The reconnect goroutine *)

(* It takes the mutex, never to give it back, and what was on its way on   *)
(* the old connection is gone.                                             *)
Reconnect ==
  /\ stratumMutex = "free"
  /\ stratumMutex' = "reconnect"
  /\ pending' = << >>
  /\ answers' = << >>
  /\ UNCHANGED << workId, window, submitVars, receiverVars, poolRejections,
                  forgetSubmits, historyVars >>

-----------------------------------------------------------------------------

MinerReceiver ==
  \/ SeeForgetSubmits
  \/ SeeNothingToForget
  \/ ClearForgetSubmits
  \/ WriteShare
  \/ EndRound
  \/ CheckWindow
  \/ LoadForSlice
  \/ DropOldest
  \/ PanicInSlice
  \/ LoadWindow
  \/ AppendWork

StratumReceiver ==
  \/ ReadAnswer
  \/ LockReceiver
  \/ MatchAnswer
  \/ IgnoreAnswer
  \/ LoadForRemoval
  \/ LoadRest
  \/ StoreRemoval
  \/ Notify

Pool == \E i \in DOMAIN pending : Answer(i)

(* Nothing runs after a crash. *)
Next ==
  /\ ~ crashed
  /\ \/ /\ MinerReceiver \/ StratumReceiver \/ Pool \/ Reconnect
        /\ UNCHANGED crashed
     \/ PanicInRemoval

Spec == Init /\ [][Next]_vars

(* Each goroutine runs on; the mutex is handed to one that keeps asking.   *)
(* The pool owes no answers.                                               *)
Fairness ==
  /\ WF_vars(MinerReceiver /\ UNCHANGED crashed)
  /\ SF_vars(ClearForgetSubmits /\ UNCHANGED crashed)
  /\ WF_vars(StratumReceiver /\ ~ Notify /\ UNCHANGED crashed)
  /\ SF_vars(LockReceiver /\ UNCHANGED crashed)

FairSpec == Spec /\ Fairness

-----------------------------------------------------------------------------
(* Properties *)

(* However StratumSubmit and StratumReceiver overlap, the window never     *)
(* holds more than MaxSubmits works.  It is tested with == and not >=      *)
(* (stratum.go:404): one work too many and it would grow for ever.         *)
WindowBounded == Len(window) <= MaxSubmits

(* Stale stores can drop a work or bring one back, but the window stays in *)
(* the order of the submissions, so an answer is taken to be about the     *)
(* oldest work with its WorkID (stratum.go:313-314).  A removal put        *)
(* together from two different headers (stratum.go:344) is the exception:  *)
(* the second may have works back that the first had not.                  *)
WindowInOrder ==
  ~ mixed => \A i, j \in DOMAIN window : i < j => window[i] <= window[j]

(* The removal (stratum.go:344) goes out of range only while StratumSubmit *)
(* is between dropping the oldest work and recording its own               *)
(* (stratum.go:405-407), and by that one work: the match was the last of   *)
(* the window.  Wherever else the two overlap the index stays in range.    *)
PanicOnlyWhileSubmitting ==
  [][PanicInRemoval => /\ index = Len(window) + 1
                       /\ submitPc \in {"load", "append"}]_vars

(* Job changes are forced (stratum.go:350-354) by rejections and not by    *)
(* anything else: each one costs MaxRejections + 1 rejections of its own,  *)
(* whatever works the races drop or bring back.                            *)
ForcedChangesAreEarned ==
  receiverPc = "read"
    => (MaxRejections + 1) * forced + poolRejections <= rejections

(* The request to forget the previous works is taken up and cleared        *)
(* (stratum.go:44, miner.go:229-235), unless the program crashes or        *)
(* reconnects first.                                                       *)
ForgetSubmitsIsCleared ==
  forgetSubmits ~> ~ forgetSubmits \/ crashed \/ stratumMutex = "reconnect"

(* "Unique ID for this work, used to track which work found a share"       *)
(* (stratum.go:52): the work found for an answer (stratum.go:314) is the   *)
(* one the pool has answered.                                              *)
CreditsAreRight == \A c \in credits : c[1] = c[2]
=============================================================================
