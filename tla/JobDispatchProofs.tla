------------------------- MODULE JobDispatchProofs -------------------------
(***************************************************************************)
(* Theorems about JobDispatch and their proofs, for any number of devices  *)
(* and any NonceSpace with room for them.                                  *)
(***************************************************************************)
EXTENDS JobDispatch, TLAPS

-----------------------------------------------------------------------------
(* Arithmetic *)

(* A number below three times the modulus takes at most two. *)
LEMMA ModTwice ==
  ASSUME NEW s \in Nat \ {0}, NEW a \in Nat, a < s + s + s, a >= s + s
  PROVE  a % s = a - s - s
OBVIOUS

(* Reducing a summand first makes no difference. *)
LEMMA ModPlus ==
  ASSUME NEW s \in Nat \ {0}, NEW x \in Nat, x < s + s, NEW n \in 0 .. s
  PROVE  ((x % s) + n) % s = (x + n) % s
<1>1. CASE x < s
  <2>1. x % s = x
    BY <1>1
  <2>2. QED
    BY <2>1
<1>2. CASE x >= s
  <2>1. x % s = x - s /\ x - s \in 0 .. s - 1
    BY <1>2
  <2>2. CASE x - s + n < s
    <3>1. (x - s + n) % s = x - s + n
      BY <2>1, <2>2
    <3>2. (x + n) % s = x + n - s
      BY <1>2, <2>1, <2>2
    <3>3. QED
      BY <2>1, <3>1, <3>2
  <2>3. CASE x - s + n >= s
    <3>1. (x - s + n) % s = x - s + n - s
      <4>1. x - s + n \in Nat /\ x - s + n < s + s
        BY <2>1, <2>3
      <4>2. x - s + n >= s
        BY <2>3
      <4>3. QED
        BY <4>1, <4>2
    <3>2. (x + n) % s = x + n - s - s
      <4>1. x + n \in Nat /\ x + n < s + s + s /\ x + n >= s + s
        BY <2>1, <2>3
      <4>2. QED
        BY <4>1, ModTwice
    <3>3. QED
      BY <2>1, <3>1, <3>2
  <2>4. QED
    BY <2>1, <2>2, <2>3
<1>3. QED
  BY <1>1, <1>2

(* Shifting by the same amount keeps two residues apart. *)
LEMMA ShiftKeepsApart ==
  ASSUME NEW s \in Nat \ {0}, NEW x \in 0 .. s - 1, NEW y \in 0 .. s - 1,
         NEW n \in 0 .. s, x # y
  PROVE  /\ (x + n) % s # (y + n) % s
         /\ (x + n) % s \in 0 .. s - 1
<1>1. /\ x + n \in Nat /\ x + n < s + s
      /\ y + n \in Nat /\ y + n < s + s
  OBVIOUS
<1>2. /\ x + n < s => (x + n) % s = x + n
      /\ x + n >= s => (x + n) % s = x + n - s
      /\ y + n < s => (y + n) % s = y + n
      /\ y + n >= s => (y + n) % s = y + n - s
  BY <1>1
<1>3. QED
  BY <1>1, <1>2

(* A residue is a residue. *)
LEMMA ModRange ==
  ASSUME NEW s \in Nat \ {0}, NEW a \in Nat
  PROVE  a % s \in 0 .. s - 1
OBVIOUS

(* Multiplying preserves the order. *)
LEMMA TimesMonotone ==
  ASSUME NEW a \in Nat, NEW b \in Nat, NEW n \in Nat, a <= b
  PROVE  a * n <= b * n
OBVIOUS

-----------------------------------------------------------------------------
(* The invariants *)

(* Who holds StratumMutex, how far the copies have come, and what they     *)
(* have in common when they are complete.                                  *)
CopiesInv ==
  /\ job.prev <= job.id
  /\ minerPc = "copy" <=> stratumMutex = "miner"
  /\ minerPc = "copy"
       => /\ next # 0 => lap = << >>
          /\ \A i \in 0 .. next - 1 :
               buffer[i] = [job |-> job, extraNonce2 |-> (i + 1) % NonceSpace]
  /\ minerPc # "copy"
       => /\ next = 0
          /\ \A i \in Devices : buffer[i].job = buffer[0].job
          /\ buffer[0].job # NoJob
               => \A i, j \in Devices :
                    i # j => buffer[i].extraNonce2 # buffer[j].extraNonce2

(* A stale round is followed by a renewal before the next round. *)
StaleInv ==
  /\ staleRounds <= 1
  /\ staleRounds = 1 =>
       \/ minerPc \in {"sample", "compare", "lock"}
            /\ buffer[0].job.prev # job.prev
       \/ minerPc = "copy"
       \/ minerPc \in {"roll", "send"} /\ buffer[0].job.prev = job.prev

(* The ExtraNonce2 of a device in the round to come. *)
Coming(i) ==
  IF minerPc = "send" THEN buffer[i].extraNonce2
  ELSE (buffer[i].extraNonce2 + NumDevices) % NonceSpace

(* The rounds of the lap, and the one to come, follow each other in steps  *)
(* of NumDevices from b.                                                   *)
LapFrom(b) ==
  /\ \A r \in DOMAIN lap : \A i \in Devices :
       lap[r][i].extraNonce2 = (b + ((r - 1) * NumDevices + i)) % NonceSpace
  /\ minerPc # "copy" /\ buffer[0].job # NoJob =>
       \A i \in Devices :
         Coming(i) = (b + (Len(lap) * NumDevices + i)) % NonceSpace

LapInv == \E b \in Nonces : LapFrom(b)

-----------------------------------------------------------------------------
(* Types and copies *)

(* The constants, as the provers need them. *)
LEMMA Constants ==
  /\ NumDevices \in Nat \ {0}
  /\ NonceSpace \in Nat \ {0}
  /\ NumDevices <= NonceSpace
  /\ Devices \subseteq Nat
  /\ 0 \in Devices
  /\ \A i \in Devices : (i + 1) % NonceSpace \in Nonces
  /\ \A i, j \in Devices :
       i # j => (i + 1) % NonceSpace # (j + 1) % NonceSpace
<1>1. /\ NumDevices \in Nat \ {0}
      /\ NonceSpace \in Nat \ {0}
      /\ NumDevices <= NonceSpace
      /\ Devices \subseteq Nat
      /\ 0 \in Devices
  BY DispatchAssumption DEF Devices
<1>2. \A i \in Devices : (i + 1) % NonceSpace \in Nonces
  BY <1>1, ModRange DEF Nonces
<1>3. ASSUME NEW i \in Devices, NEW j \in Devices, i # j
      PROVE  (i + 1) % NonceSpace # (j + 1) % NonceSpace
  <2>1. i \in 0 .. NonceSpace - 1 /\ j \in 0 .. NonceSpace - 1
    BY <1>1 DEF Devices
  <2>2. 1 \in 0 .. NonceSpace
    BY <1>1
  <2>3. QED
    BY <1>1, <1>3, <2>1, <2>2, ShiftKeepsApart
<1>4. QED
  BY <1>1, <1>2, <1>3

(* The types of what AonMiner changes, at the start of its steps. *)
LEMMA RollStep ==
  ASSUME TypeOK, CopiesInv, RollNonces
  PROVE  TypeOK' /\ CopiesInv'
<1> DEFINE Rolled(i) == (buffer[i].extraNonce2 + NumDevices) % NonceSpace
<1>1. /\ buffer' = [i \in Devices |->
                      [job |-> buffer[i].job, extraNonce2 |-> Rolled(i)]]
      /\ minerPc = "roll"
      /\ minerPc' = "send"
      /\ UNCHANGED << job, forgetSubmits, stratumMutex, forceJobUpdate, due,
                      next, clearPc, lap, used, exhausted, staleRounds >>
  BY DEF RollNonces, TypeOK, Copy, historyVars
<1>2. \A i \in Devices : Rolled(i) \in Nonces
  <2>1. \A i \in Devices : buffer[i].extraNonce2 + NumDevices \in Nat
    BY Constants DEF TypeOK, Copy, Nonces
  <2>2. QED
    BY <2>1, Constants, ModRange DEF Nonces
<1>3. TypeOK'
  <2> HIDE DEF Rolled
  <2>1. buffer' \in [Devices -> Copy]
    BY <1>1, <1>2 DEF TypeOK, Copy
  <2>2. \A i \in Devices : buffer'[i].job # NoJob
    BY <1>1 DEF TypeOK
  <2>3. QED
    BY <1>1, <2>1, <2>2 DEF TypeOK
<1>4. ASSUME NEW i \in Devices, NEW j \in Devices, i # j
      PROVE  Rolled(i) # Rolled(j)
  <2>1. buffer[i].extraNonce2 # buffer[j].extraNonce2
    BY <1>1, <1>4, Constants DEF CopiesInv, TypeOK
  <2>2. /\ buffer[i].extraNonce2 \in 0 .. NonceSpace - 1
        /\ buffer[j].extraNonce2 \in 0 .. NonceSpace - 1
        /\ NumDevices \in 0 .. NonceSpace
    BY Constants DEF TypeOK, Copy, Nonces
  <2>3. QED
    BY <2>1, <2>2, Constants, ShiftKeepsApart
<1>5. CopiesInv'
  <2> HIDE DEF Rolled
  <2>1. QED
    BY <1>1, <1>4, Constants DEF CopiesInv
<1>6. QED
  BY <1>3, <1>5

(* A copy keeps the types, and the last one completes the round. *)
LEMMA CopyStep ==
  ASSUME TypeOK, CopiesInv, CopyJob
  PROVE  TypeOK' /\ CopiesInv'
<1> DEFINE copy == [job |-> job, extraNonce2 |-> (next + 1) % NonceSpace]
<1>1. /\ minerPc = "copy"
      /\ buffer' = [buffer EXCEPT ![next] = copy]
      /\ lap' = << >>
      /\ used' \in {used, {}}
      /\ exhausted' \in BOOLEAN
      /\ UNCHANGED << job, forgetSubmits, clearPc, staleRounds >>
  BY DEF CopyJob, TypeOK
<1>2. /\ next \in Devices
      /\ copy \in Copy
      /\ copy.job = job
      /\ copy.extraNonce2 = (next + 1) % NonceSpace
      /\ job # NoJob
  BY Constants DEF TypeOK, Copy, Job, NoJob
<1> HIDE DEF copy
<1>3. /\ buffer' \in [Devices -> Copy]
      /\ buffer'[next] = copy
      /\ \A i \in Devices \ {next} : buffer'[i] = buffer[i]
  BY <1>1, <1>2 DEF TypeOK
<1>4. \A i \in 0 .. next :
        buffer'[i] = [job |-> job, extraNonce2 |-> (i + 1) % NonceSpace]
  <2>1. \A i \in 0 .. next - 1 : i \in Devices \ {next}
    BY <1>2, Constants DEF Devices
  <2>2. \A i \in 0 .. next - 1 :
          buffer'[i] = [job |-> job, extraNonce2 |-> (i + 1) % NonceSpace]
    BY <1>1, <1>3, <2>1 DEF CopiesInv
  <2>3. \A i \in 0 .. next : i = next \/ i \in 0 .. next - 1
    BY <1>2, Constants
  <2>4. QED
    BY <1>3, <2>2, <2>3 DEF copy
<1>5. Len(lap') * NumDevices <= NonceSpace /\ lap' \in Seq([Devices -> Copy])
  BY <1>1, Constants
<1>6. CASE next = NumDevices - 1
  <2>1. /\ next' = 0
        /\ stratumMutex' = "free"
        /\ forceJobUpdate' = FALSE
        /\ due' = FALSE
        /\ minerPc' = "roll"
    BY <1>6 DEF CopyJob
  <2>2. \A i \in Devices : /\ buffer'[i].job = job
                           /\ buffer'[i].extraNonce2 = (i + 1) % NonceSpace
    <3>1. Devices = 0 .. next
      BY <1>6 DEF Devices
    <3>2. QED
      <4>1. TAKE i \in Devices
      <4>2. i \in 0 .. next
        BY <3>1
      <4>3. buffer'[i] = [job |-> job, extraNonce2 |-> (i + 1) % NonceSpace]
        BY <1>4, <4>2
      <4>4. QED
        BY <4>3
  <2>3. TypeOK'
    BY <1>1, <1>2, <1>3, <1>5, <2>1, <2>2, Constants DEF TypeOK
  <2>4. CopiesInv'
    <3>1. /\ minerPc' # "copy" /\ stratumMutex' # "miner" /\ next' = 0
          /\ job'.prev <= job'.id
      BY <1>1, <2>1 DEF CopiesInv
    <3>2. \A i \in Devices : buffer'[i].job = buffer'[0].job
      BY <2>2, Constants
    <3>3. \A i, j \in Devices :
            i # j => buffer'[i].extraNonce2 # buffer'[j].extraNonce2
      BY <2>2, Constants
    <3>4. QED
      BY <3>1, <3>2, <3>3 DEF CopiesInv
  <2>5. QED
    BY <2>3, <2>4
<1>7. CASE next # NumDevices - 1
  <2>1. /\ next' = next + 1
        /\ UNCHANGED << stratumMutex, forceJobUpdate, due, minerPc >>
    BY <1>7 DEF CopyJob
  <2>2. next + 1 \in Devices /\ next + 1 - 1 = next
    BY <1>2, <1>7, Constants DEF Devices
  <2>3. TypeOK'
    BY <1>1, <1>3, <1>5, <2>1, <2>2 DEF TypeOK
  <2>4. CopiesInv'
    <3>1. /\ minerPc' = "copy" /\ stratumMutex' = "miner"
          /\ job'.prev <= job'.id /\ lap' = << >>
      BY <1>1, <2>1 DEF CopiesInv
    <3>2. 0 .. next' - 1 = 0 .. next
      <4>1. next' - 1 = next
        BY <1>2, <2>1, Constants
      <4>2. QED
        BY <4>1
    <3>3. \A i \in 0 .. next' - 1 :
            buffer'[i] = [job |-> job', extraNonce2 |-> (i + 1) % NonceSpace]
      BY <1>1, <1>4, <3>2
    <3>4. QED
      BY <3>1, <3>3 DEF CopiesInv
  <2>5. QED
    BY <2>3, <2>4
<1>8. QED
  BY <1>6, <1>7

(* A round sent is appended to the lap or begins the next one. *)
LEMMA SendStep ==
  ASSUME TypeOK, CopiesInv, SendJobs
  PROVE  TypeOK' /\ CopiesInv'
<1> DEFINE full == (Len(lap) + 1) * NumDevices > NonceSpace
<1>1. /\ minerPc = "send"
      /\ minerPc' = "sample"
      /\ lap' = IF full THEN << buffer >> ELSE Append(lap, buffer)
      /\ exhausted' \in BOOLEAN
      /\ used' = used \cup {buffer[i].extraNonce2 : i \in Devices}
      /\ staleRounds' \in 0 .. 2
      /\ UNCHANGED << job, forgetSubmits, stratumMutex, buffer,
                      forceJobUpdate, due, next, clearPc >>
  BY DEF SendJobs, TypeOK
<1>2. /\ buffer \in [Devices -> Copy]
      /\ used' \in SUBSET Nonces
  BY <1>1 DEF TypeOK, Copy
<1>3. /\ lap' \in Seq([Devices -> Copy])
      /\ Len(lap') * NumDevices <= NonceSpace
  <2>1. CASE full
    <3>1. lap' = << buffer >>
      BY <1>1, <2>1
    <3>2. Len(lap') = 1 /\ lap' \in Seq([Devices -> Copy])
      BY <1>2, <3>1
    <3>3. QED
      BY <3>2, Constants
  <2>2. CASE ~ full
    <3>1. lap' = Append(lap, buffer)
      BY <1>1, <2>2
    <3>2. /\ Len(lap') = Len(lap) + 1
          /\ Len(lap) \in Nat
          /\ lap' \in Seq([Devices -> Copy])
      BY <1>2, <3>1 DEF TypeOK
    <3>3. (Len(lap) + 1) * NumDevices \in Nat
      BY <3>2, Constants
    <3>4. (Len(lap) + 1) * NumDevices <= NonceSpace
      BY <2>2, <3>3, Constants
    <3>5. QED
      BY <3>2, <3>4
  <2>3. QED
    BY <2>1, <2>2
<1>4. QED
  <2> HIDE DEF full
  <2>1. TypeOK'
    BY <1>1, <1>2, <1>3 DEF TypeOK
  <2>2. CopiesInv'
    BY <1>1 DEF CopiesInv
  <2>3. QED
    BY <2>1, <2>2

(* The types and the copies, in every behaviour. *)
LEMMA CopiesInvariant == Spec => [](TypeOK /\ CopiesInv)
<1>1. Init => TypeOK /\ CopiesInv
  <2> SUFFICES ASSUME Init
               PROVE  TypeOK /\ CopiesInv
    OBVIOUS
  <2>1. 0 \in Nonces /\ job \in Job
    BY Constants, DispatchAssumption DEF Init, Nonces, Job
  <2>2. Len(lap) * NumDevices <= NonceSpace
    BY Constants DEF Init
  <2>3. \A i \in Devices : buffer[i] = [job |-> NoJob, extraNonce2 |-> 0]
    BY DEF Init
  <2>4. TypeOK
    <3>1. buffer \in [Devices -> Copy]
      BY <2>1 DEF Init, Copy
    <3>2. lap \in Seq([Devices -> Copy])
      BY DEF Init
    <3>3. 0 \in Devices
      BY Constants
    <3>4. QED
      BY <2>1, <2>2, <3>1, <3>2, <3>3 DEF Init, TypeOK
  <2>5. CopiesInv
    BY <2>3, Constants DEF Init, CopiesInv
  <2>6. QED
    BY <2>4, <2>5
<1>2. TypeOK /\ CopiesInv /\ [Next]_vars => TypeOK' /\ CopiesInv'
  <2> SUFFICES ASSUME TypeOK, CopiesInv, [Next]_vars
               PROVE  TypeOK' /\ CopiesInv'
    OBVIOUS
  <2>1. CASE UNCHANGED vars
    BY <2>1 DEF vars, minerVars, historyVars, TypeOK, CopiesInv
  <2>2. CASE SampleForgetSubmits
    BY <2>2 DEF SampleForgetSubmits, historyVars, TypeOK, CopiesInv
  <2>3. CASE Compare
    <3>1. minerPc' = "roll" => \A i \in Devices : buffer[i].job # NoJob
      <4>1. SUFFICES ASSUME minerPc' = "roll"
                     PROVE  buffer[0].job # NoJob
        BY <2>3 DEF Compare, CopiesInv
      <4>2. minerPc' = IF OutOfDate THEN "lock" ELSE "roll"
        BY <2>3 DEF Compare
      <4>3. buffer[0].job.prev = job.prev
        BY <4>1, <4>2 DEF OutOfDate
      <4>4. job.prev # 0
        BY DispatchAssumption DEF TypeOK, Job
      <4>5. QED
        BY <4>3, <4>4 DEF NoJob
    <3>2. QED
      BY <2>3, <3>1 DEF Compare, historyVars, TypeOK, CopiesInv
  <2>4. CASE LockUpdate
    BY <2>4 DEF LockUpdate, historyVars, TypeOK, CopiesInv
  <2>5. CASE CopyJob
    BY <2>5, CopyStep
  <2>6. CASE RollNonces
    BY <2>6, RollStep
  <2>7. CASE SendJobs
    BY <2>7, SendStep
  <2>8. CASE MinerReceiver
    BY <2>8 DEF MinerReceiver, SeeForgetSubmits, ClearForgetSubmits, minerVars,
                historyVars, TypeOK, CopiesInv
  <2>9. CASE Notify
    <3>1. job' \in Job /\ job'.prev <= job'.id
      <4>1. PICK p \in {job.prev, job.prev + 1}, t \in 1 .. MaxTime :
              job' = [id |-> job.id + 1, prev |-> p, time |-> t]
        BY <2>9 DEF Notify
      <4>2. /\ job.id \in 1 .. MaxJobs /\ job.prev \in 1 .. MaxJobs
            /\ job.id < MaxJobs /\ job.prev <= job.id
        BY <2>9 DEF Notify, TypeOK, CopiesInv, Job
      <4>3. /\ job.id + 1 \in 1 .. MaxJobs /\ p \in 1 .. MaxJobs
            /\ p <= job.id + 1
        BY <4>2, DispatchAssumption
      <4>4. QED
        BY <4>1, <4>3 DEF Job
    <3>2. /\ forgetSubmits' \in BOOLEAN
          /\ staleRounds' \in 0 .. 2
      BY <2>9 DEF Notify, TypeOK
    <3>3. QED
      BY <2>9, <3>1, <3>2 DEF Notify, minerVars, TypeOK, CopiesInv
  <2>10. CASE ForceJobChange \/ LockReconnect \/ FiveSecondsPass
    BY <2>10 DEF ForceJobChange, LockReconnect, FiveSecondsPass, minerVars,
       historyVars, TypeOK, CopiesInv
  <2>11. QED
    BY <2>1, <2>2, <2>3, <2>4, <2>5, <2>6, <2>7, <2>8, <2>9, <2>10
       DEF Next, AonMiner, StratumReceiver
<1>3. QED
  BY <1>1, <1>2, PTL DEF Spec

(* Every variable keeps the type of the Go value it stands for; in         *)
(* particular ExtraNonce2 stays within the length the pool asked for       *)
(* (miner.go:183, 196).                                                    *)
THEOREM TypeCorrect == Spec => []TypeOK
BY CopiesInvariant, PTL

(* "Give each device a unique ExtraNonce2" (miner.go:181): whenever the    *)
(* copies go out they are all of one job, though StratumReceiver replaces  *)
(* it at any time (stratum.go:275), and no two have the same ExtraNonce2,  *)
(* also when the numbers have wrapped around.                              *)
OneJobPerRound ==
  minerPc \in {"roll", "send"} =>
    \A i, j \in Devices :
      /\ buffer[i].job = buffer[j].job
      /\ i # j => buffer[i].extraNonce2 # buffer[j].extraNonce2

(* Every round is of one job, with distinct ExtraNonce2s                   *)
(* (miner.go:173-215).                                                     *)
THEOREM OneJobEveryRound == Spec => []OneJobPerRound
<1>1. TypeOK /\ CopiesInv => OneJobPerRound
  BY Constants DEF TypeOK, CopiesInv, OneJobPerRound
<1>2. QED
  BY <1>1, CopiesInvariant, PTL

-----------------------------------------------------------------------------
(* Stale rounds *)

(* A step leaves at most one round behind the pool's block. *)
LEMMA StaleStep ==
  ASSUME TypeOK, CopiesInv, CopiesInv', StaleInv, [Next]_vars
  PROVE  StaleInv'
<1>1. CASE UNCHANGED vars
  BY <1>1 DEF vars, minerVars, historyVars, StaleInv
<1>2. CASE SampleForgetSubmits
  BY <1>2 DEF SampleForgetSubmits, historyVars, StaleInv
<1>3. CASE Compare
  <2>1. minerPc' = IF OutOfDate THEN "lock" ELSE "roll"
    BY <1>3 DEF Compare
  <2>2. buffer[0].job.prev # job.prev => minerPc' = "lock"
    BY <2>1 DEF OutOfDate
  <2>3. QED
    BY <1>3, <2>1, <2>2 DEF Compare, historyVars, StaleInv
<1>4. CASE LockUpdate
  BY <1>4 DEF LockUpdate, historyVars, StaleInv
<1>5. CASE CopyJob
  <2>1. /\ staleRounds' = staleRounds
        /\ job' = job
        /\ next \in Devices
        /\ buffer'[next].job = job
        /\ minerPc' \in {"copy", "roll"}
    BY <1>5 DEF CopyJob, TypeOK
  <2>2. minerPc' = "roll" => buffer'[0].job = job
    BY <2>1 DEF CopiesInv
  <2>3. QED
    BY <2>1, <2>2 DEF StaleInv
<1>6. CASE RollNonces
  BY <1>6, Constants DEF RollNonces, historyVars, StaleInv, TypeOK, Copy
<1>7. CASE SendJobs
  BY <1>7 DEF SendJobs, StaleInv, TypeOK
<1>8. CASE MinerReceiver \/ ForceJobChange \/ LockReconnect
           \/ FiveSecondsPass
  BY <1>8 DEF MinerReceiver, SeeForgetSubmits, ClearForgetSubmits, ForceJobChange,
              LockReconnect, FiveSecondsPass, minerVars, historyVars, StaleInv
<1>9. CASE Notify
  <2>1. /\ UNCHANGED << buffer, minerPc >>
        /\ \/ staleRounds' = 0
           \/ staleRounds' = staleRounds /\ job'.prev = job.prev
    BY <1>9 DEF Notify, minerVars
  <2>2. QED
    BY <2>1 DEF StaleInv
<1>10. QED
  BY <1>1, <1>2, <1>3, <1>4, <1>5, <1>6, <1>7, <1>8, <1>9
     DEF Next, AonMiner, StratumReceiver

(* The stale rounds, in every behaviour. *)
LEMMA StaleInvariant == Spec => []StaleInv
<1>1. Init => StaleInv
  BY DEF Init, StaleInv
<1>2. TypeOK /\ CopiesInv /\ CopiesInv' /\ StaleInv /\ [Next]_vars => StaleInv'
  BY StaleStep
<1>3. QED
  BY <1>1, <1>2, CopiesInvariant, PTL DEF Spec

(* When the pool announces another block, at most the round under way is   *)
(* still sent for the old one, although the test (miner.go:170) reads the  *)
(* job without the mutex.                                                  *)
OneStaleRound == staleRounds <= 1

(* After another block was announced at most one round is still sent for   *)
(* the old one (miner.go:156-188, 212-215): WorkFeed promises it too.      *)
THEOREM OneStaleRoundOnly == Spec => []OneStaleRound
<1>1. StaleInv => OneStaleRound
  BY DEF StaleInv, OneStaleRound
<1>2. QED
  BY <1>1, StaleInvariant, PTL

-----------------------------------------------------------------------------
(* Laps *)

(* The number of the ExtraNonce2 of device i in round r, counted in a lap. *)
Place(r, i) == (r - 1) * NumDevices + i

(* A lap has room for its places, and each has one of its own. *)
LEMMA Places ==
  ASSUME NEW n \in Nat, n * NumDevices <= NonceSpace,
         NEW r \in 1 .. n, NEW q \in 1 .. n,
         NEW i \in Devices, NEW j \in Devices
  PROVE  /\ Place(r, i) \in 0 .. NonceSpace - 1
         /\ << r, i >> # << q, j >> => Place(r, i) # Place(q, j)
<1>1. /\ NumDevices \in Nat \ {0} /\ NonceSpace \in Nat \ {0}
      /\ i \in 0 .. NumDevices - 1 /\ j \in 0 .. NumDevices - 1
  BY Constants DEF Devices
<1>2. ASSUME NEW a \in 1 .. n
      PROVE  /\ a * NumDevices = (a - 1) * NumDevices + NumDevices
             /\ (a - 1) * NumDevices \in Nat
             /\ a * NumDevices <= n * NumDevices
             /\ n * NumDevices \in Nat
  BY <1>1, TimesMonotone
<1>3. Place(r, i) \in 0 .. NonceSpace - 1
  BY <1>1, <1>2 DEF Place
<1>4. ASSUME NEW a \in 1 .. n, NEW b \in 1 .. n, a < b,
             NEW k \in 0 .. NumDevices - 1, NEW l \in 0 .. NumDevices - 1
      PROVE  (a - 1) * NumDevices + k < (b - 1) * NumDevices + l
  <2>1. a * NumDevices <= (b - 1) * NumDevices
    BY <1>1, <1>4, TimesMonotone
  <2>2. QED
    BY <1>1, <1>2, <2>1
<1>5. CASE r = q
  BY <1>1, <1>2, <1>5 DEF Place
<1>6. CASE r < q
  <2>1. Place(r, i) < Place(q, j)
    BY <1>1, <1>4, <1>6 DEF Place
  <2>2. QED
    BY <1>1, <1>2, <1>3, <2>1 DEF Place
<1>7. CASE q < r
  <2>1. Place(q, j) < Place(r, i)
    BY <1>1, <1>4, <1>7 DEF Place
  <2>2. QED
    BY <1>1, <1>2, <1>3, <2>1 DEF Place
<1>8. QED
  BY <1>3, <1>5, <1>6, <1>7

(* The rounds of a lap that follow each other repeat nothing. *)
LEMMA LapsAreUnique ==
  ASSUME TypeOK, LapInv
  PROVE  LapIsUnique
<1>1. PICK b \in Nonces : LapFrom(b)
  BY DEF LapInv
<1>2. ASSUME NEW r \in DOMAIN lap, NEW q \in DOMAIN lap,
             NEW i \in Devices, NEW j \in Devices, << r, i >> # << q, j >>
      PROVE  lap[r][i].extraNonce2 # lap[q][j].extraNonce2
  <2>1. /\ lap[r][i].extraNonce2 = (b + Place(r, i)) % NonceSpace
        /\ lap[q][j].extraNonce2 = (b + Place(q, j)) % NonceSpace
    BY <1>1 DEF LapFrom, Place
  <2>2. /\ Len(lap) \in Nat /\ Len(lap) * NumDevices <= NonceSpace
        /\ DOMAIN lap = 1 .. Len(lap)
    BY DEF TypeOK
  <2>3. /\ Place(r, i) \in 0 .. NonceSpace - 1
        /\ Place(q, j) \in 0 .. NonceSpace - 1
        /\ Place(r, i) # Place(q, j)
    BY <1>2, <2>2, Places
  <2>4. b \in 0 .. NonceSpace /\ b \in Nat
    BY Constants DEF Nonces
  <2>5. (Place(r, i) + b) % NonceSpace # (Place(q, j) + b) % NonceSpace
    BY <2>3, <2>4, Constants, ShiftKeepsApart
  <2>6. /\ Place(r, i) + b = b + Place(r, i)
        /\ Place(q, j) + b = b + Place(q, j)
    BY <2>3, <2>4
  <2>7. QED
    BY <2>1, <2>5, <2>6
<1>3. QED
  BY <1>2 DEF LapIsUnique

(* The last copy begins a lap at the ExtraNonce2 that device 0 rolls to.   *)
LEMMA LapCopy ==
  ASSUME TypeOK, CopiesInv, CopyJob
  PROVE  LapInv'
<1>1. /\ lap' = << >>
      /\ next \in Devices
      /\ buffer \in [Devices -> Copy]
      /\ buffer' = [buffer EXCEPT ![next] =
                      [job |-> job, extraNonce2 |-> (next + 1) % NonceSpace]]
  BY DEF CopyJob, TypeOK
<1>2. /\ NumDevices \in Nat \ {0} /\ NonceSpace \in Nat \ {0}
      /\ NumDevices <= NonceSpace
      /\ Devices = 0 .. NumDevices - 1
  BY Constants DEF Devices
<1>3. CASE next # NumDevices - 1
  <2>1. minerPc' = "copy"
    BY <1>3 DEF CopyJob
  <2>2. LapFrom(0)'
    BY <1>1, <2>1 DEF LapFrom
  <2>3. QED
    BY <1>2, <2>2 DEF LapInv, Nonces
<1>4. CASE next = NumDevices - 1
  <2> DEFINE b == (1 + NumDevices) % NonceSpace
  <2>1. minerPc' = "roll"
    BY <1>4 DEF CopyJob
  <2>2. b \in Nonces
    BY <1>2, ModRange DEF Nonces
  <2>3. ASSUME NEW i \in Devices
        PROVE  buffer'[i].extraNonce2 = (i + 1) % NonceSpace
    <3>1. CASE i = next
      BY <1>1, <3>1
    <3>2. CASE i # next
      <4>1. i \in 0 .. next - 1
        BY <1>2, <1>4, <2>3, <3>2
      <4>2. buffer[i] = [job |-> job, extraNonce2 |-> (i + 1) % NonceSpace]
        BY <4>1 DEF CopiesInv, CopyJob
      <4>3. QED
        BY <1>1, <2>3, <3>2, <4>2
    <3>3. QED
      BY <3>1, <3>2
  <2>4. ASSUME NEW i \in Devices
        PROVE  (((i + 1) % NonceSpace) + NumDevices) % NonceSpace
                 = (b + i) % NonceSpace
    <3>1. CASE NonceSpace = 1
      <4>1. ((i + 1) % NonceSpace) + NumDevices \in Nat /\ b + i \in Nat
        BY <1>2, <2>2 DEF Nonces
      <4>2. QED
        BY <3>1, <4>1
    <3>2. CASE NonceSpace # 1
      <4>1. /\ i + 1 \in Nat /\ i + 1 < NonceSpace + NonceSpace
            /\ 1 + NumDevices \in Nat
            /\ 1 + NumDevices < NonceSpace + NonceSpace
            /\ NumDevices \in 0 .. NonceSpace
            /\ i \in 0 .. NonceSpace
        BY <1>2, <3>2
      <4>2. (((i + 1) % NonceSpace) + NumDevices) % NonceSpace
              = (i + 1 + NumDevices) % NonceSpace
        BY <1>2, <4>1, ModPlus
      <4>3. (b + i) % NonceSpace = (1 + NumDevices + i) % NonceSpace
        BY <1>2, <4>1, ModPlus
      <4>4. i + 1 + NumDevices = 1 + NumDevices + i
        BY <4>1
      <4>5. QED
        BY <4>2, <4>3, <4>4
    <3>3. QED
      BY <3>1, <3>2
  <2> HIDE DEF b
  <2>5. Len(lap') * NumDevices = 0
    BY <1>1, <1>2
  <2>6. ASSUME NEW i \in Devices
        PROVE  Coming(i)' = (b + (Len(lap') * NumDevices + i)) % NonceSpace
    <3>1. Coming(i)' = (((i + 1) % NonceSpace) + NumDevices) % NonceSpace
      BY <2>1, <2>3 DEF Coming
    <3>2. Len(lap') * NumDevices + i = i
      BY <1>2, <2>5
    <3>3. QED
      BY <2>4, <3>1, <3>2
  <2>7. LapFrom(b)'
    BY <1>1, <2>6 DEF LapFrom
  <2>8. QED
    BY <2>2, <2>7 DEF LapInv
<1>5. QED
  BY <1>3, <1>4

(* A round that is sent continues the lap, or begins the next one.         *)
LEMMA LapSend ==
  ASSUME TypeOK, CopiesInv, LapInv, SendJobs
  PROVE  LapInv'
<1> DEFINE round == [i \in Devices |-> buffer[i].extraNonce2]
           full  == (Len(lap) + 1) * NumDevices > NonceSpace
<1>1. /\ minerPc = "send"
      /\ minerPc' = "sample"
      /\ lap' = IF full THEN << buffer >> ELSE Append(lap, buffer)
      /\ buffer' = buffer
      /\ \A i \in Devices : buffer[i].job # NoJob
  BY DEF SendJobs, TypeOK
<1>2. /\ NumDevices \in Nat \ {0} /\ NonceSpace \in Nat \ {0}
      /\ NumDevices <= NonceSpace
      /\ NumDevices \in 0 .. NonceSpace
      /\ Devices = 0 .. NumDevices - 1
      /\ 0 \in Devices
  BY Constants DEF Devices
<1>3. /\ lap \in Seq([Devices -> Copy])
      /\ Len(lap) \in Nat
      /\ Len(lap) * NumDevices \in Nat
      /\ Len(lap) * NumDevices <= NonceSpace
      /\ (Len(lap) + 1) * NumDevices = Len(lap) * NumDevices + NumDevices
  BY <1>2 DEF TypeOK
<1>4. /\ buffer \in [Devices -> Copy]
      /\ \A i \in Devices : round[i] = buffer[i].extraNonce2
      /\ \A i \in Devices : round[i] \in 0 .. NonceSpace - 1
  BY DEF TypeOK, Copy, Nonces
<1>5. \A i \in Devices : Coming(i)' = (round[i] + NumDevices) % NonceSpace
  BY <1>1, <1>4 DEF Coming
<1>6. PICK b \in Nonces : LapFrom(b)
  BY DEF LapInv
<1>7. b \in Nat /\ b < NonceSpace
  BY <1>2 DEF Nonces
<1>8. PICK sent \in Nat : sent = Len(lap) * NumDevices /\ sent <= NonceSpace
  BY <1>3
<1> HIDE DEF round
<1>9. \A i \in Devices :
        round[i] = (b + (Len(lap) * NumDevices + i)) % NonceSpace
  BY <1>1, <1>2, <1>4, <1>6 DEF LapFrom, Coming
<1>10. CASE full
  <2>1. lap' = << buffer >>
    BY <1>1, <1>10
  <2>2. ASSUME NEW i \in Devices
        PROVE  round[i] = (round[0] + i) % NonceSpace
    <3> DEFINE x == b + sent
    <3>1. i \in Nat /\ i < NumDevices
      BY <1>2
    <3>2. x \in Nat /\ x < NonceSpace + NonceSpace /\ i \in 0 .. NonceSpace
      BY <1>2, <1>7, <1>8, <3>1
    <3>3. b + (sent + 0) = x /\ b + (sent + i) = x + i
      BY <1>7, <3>1
    <3>4. round[0] = x % NonceSpace /\ round[i] = (x + i) % NonceSpace
      BY <1>2, <1>9, <1>8, <3>3
    <3> HIDE DEF x
    <3>5. ((x % NonceSpace) + i) % NonceSpace = (x + i) % NonceSpace
      BY <1>2, <3>2, ModPlus
    <3>6. QED
      BY <3>4, <3>5
  <2>3. ASSUME NEW i \in Devices
        PROVE  (round[i] + NumDevices) % NonceSpace
                 = (round[0] + (1 * NumDevices + i)) % NonceSpace
    <3>1. /\ round[0] + i \in Nat
          /\ round[0] + i < NonceSpace + NonceSpace
          /\ round[0] + i + NumDevices = round[0] + (1 * NumDevices + i)
      BY <1>2, <1>4
    <3>2. (((round[0] + i) % NonceSpace) + NumDevices) % NonceSpace
            = (round[0] + i + NumDevices) % NonceSpace
      BY <1>2, <3>1, ModPlus
    <3>3. QED
      BY <2>2, <3>1, <3>2
  <2>4. /\ Len(lap') = 1 /\ DOMAIN lap' = {1} /\ lap'[1] = buffer
    BY <2>1
  <2>5. ASSUME NEW r \in DOMAIN lap', NEW i \in Devices
        PROVE  lap'[r][i].extraNonce2
                 = (round[0] + ((r - 1) * NumDevices + i)) % NonceSpace
    <3>1. r = 1 /\ (r - 1) * NumDevices + i = i
      BY <1>2, <2>4
    <3>2. QED
      BY <1>4, <2>2, <2>4, <3>1
  <2>6. PICK c \in Nonces : c = round[0]
    BY <1>2, <1>4 DEF Nonces
  <2>7. LapFrom(c)'
    BY <1>1, <1>5, <2>3, <2>4, <2>5, <2>6 DEF LapFrom
  <2>8. QED
    BY <2>7 DEF LapInv
<1>11. CASE ~ full
  <2>1. lap' = Append(lap, buffer)
    BY <1>1, <1>11
  <2>2. /\ Len(lap') = Len(lap) + 1
        /\ DOMAIN lap' = 1 .. Len(lap) + 1
        /\ DOMAIN lap = 1 .. Len(lap)
        /\ \A r \in DOMAIN lap : lap'[r] = lap[r]
        /\ lap'[Len(lap) + 1] = buffer
    BY <1>3, <1>4, <2>1
  <2>3. ASSUME NEW r \in DOMAIN lap', NEW i \in Devices
        PROVE  lap'[r][i].extraNonce2
                 = (b + ((r - 1) * NumDevices + i)) % NonceSpace
    <3>1. CASE r \in DOMAIN lap
      BY <1>6, <2>2, <3>1 DEF LapFrom
    <3>2. CASE r = Len(lap) + 1
      <4>1. r - 1 = Len(lap)
        BY <1>3, <3>2
      <4>2. QED
        BY <1>4, <1>9, <2>2, <3>2, <4>1
    <3>3. QED
      BY <1>3, <2>2, <3>1, <3>2
  <2>4. ASSUME NEW i \in Devices
        PROVE  (round[i] + NumDevices) % NonceSpace
                 = (b + (Len(lap') * NumDevices + i)) % NonceSpace
    <3> DEFINE x == b + (sent + i)
    <3>1. i \in Nat /\ i < NumDevices
      BY <1>2
    <3>2. /\ Len(lap') * NumDevices = sent + NumDevices
          /\ sent + NumDevices <= NonceSpace
      BY <1>2, <1>3, <1>11, <1>8, <2>2
    <3>3. /\ x \in Nat /\ x < NonceSpace + NonceSpace
          /\ x + NumDevices = b + ((sent + NumDevices) + i)
      BY <1>2, <1>7, <3>1, <3>2
    <3> HIDE DEF x
    <3>4. ((x % NonceSpace) + NumDevices) % NonceSpace
            = (x + NumDevices) % NonceSpace
      BY <1>2, <3>3, ModPlus
    <3>5. round[i] = x % NonceSpace
      BY <1>9, <1>8 DEF x
    <3>6. QED
      BY <3>2, <3>3, <3>4, <3>5
  <2>5. LapFrom(b)'
    BY <1>1, <1>5, <2>3, <2>4 DEF LapFrom
  <2>6. QED
    BY <2>5 DEF LapInv
<1>12. QED
  BY <1>10, <1>11

(* Every step continues the lap or begins a new one.                       *)
LEMMA LapStep ==
  ASSUME TypeOK, CopiesInv, LapInv, [Next]_vars
  PROVE  LapInv'
<1>1. CASE CopyJob
  BY <1>1, LapCopy
<1>2. CASE SendJobs
  BY <1>2, LapSend
<1>3. CASE RollNonces
  <2>1. /\ minerPc = "roll" /\ minerPc' = "send" /\ lap' = lap
        /\ \A i \in Devices :
             /\ buffer'[i].job = buffer[i].job
             /\ buffer'[i].extraNonce2
                  = (buffer[i].extraNonce2 + NumDevices) % NonceSpace
    BY <1>3 DEF RollNonces, historyVars, TypeOK, Copy
  <2>2. /\ \A i \in Devices : Coming(i)' = Coming(i)
        /\ buffer'[0].job = buffer[0].job
    BY <2>1, Constants DEF Coming
  <2>3. PICK b \in Nonces : LapFrom(b)
    BY DEF LapInv
  <2>4. LapFrom(b)'
    BY <2>1, <2>2, <2>3 DEF LapFrom
  <2>5. QED
    BY <2>4 DEF LapInv
<1>4. CASE \/ UNCHANGED vars
           \/ SampleForgetSubmits \/ Compare \/ LockUpdate
           \/ MinerReceiver \/ StratumReceiver \/ LockReconnect
           \/ FiveSecondsPass
  <2>1. /\ lap' = lap /\ buffer' = buffer
        /\ minerPc' = minerPc \/ {minerPc, minerPc'} \cap {"send"} = {}
        /\ minerPc' # "copy" => minerPc # "copy"
    BY <1>4 DEF vars, minerVars, historyVars, SampleForgetSubmits, Compare,
                LockUpdate, MinerReceiver, SeeForgetSubmits, ClearForgetSubmits,
                StratumReceiver, Notify, ForceJobChange, LockReconnect,
                FiveSecondsPass
  <2>2. \A i \in Devices : Coming(i)' = Coming(i)
    BY <2>1 DEF Coming
  <2>3. PICK b \in Nonces : LapFrom(b)
    BY DEF LapInv
  <2>4. LapFrom(b)'
    BY <2>1, <2>2, <2>3 DEF LapFrom
  <2>5. QED
    BY <2>4 DEF LapInv
<1>5. QED
  BY <1>1, <1>2, <1>3, <1>4 DEF Next, AonMiner

LEMMA LapInvariant == Spec => []LapInv
<1>1. Init => LapInv
  <2>1. ASSUME Init
        PROVE  LapFrom(0)
    BY <2>1, Constants DEF Init, LapFrom
  <2>2. 0 \in Nonces
    BY Constants DEF Nonces
  <2>3. QED
    BY <2>1, <2>2 DEF LapInv
<1>2. TypeOK /\ CopiesInv /\ LapInv /\ [Next]_vars => LapInv'
  BY LapStep
<1>3. QED
  BY <1>1, <1>2, CopiesInvariant, PTL DEF Spec

(* No ExtraNonce2 is sent out twice in a lap (miner.go:190-215).           *)
THEOREM LapsNeverRepeat == Spec => []LapIsUnique
<1>1. TypeOK /\ LapInv => LapIsUnique
  BY LapsAreUnique
<1>2. QED
  BY <1>1, TypeCorrect, LapInvariant, PTL

-----------------------------------------------------------------------------
(* JobDispatch implements WorkFeed *)

(* The first copy renews the work; the others complete what it began.      *)
LEMMA CopyIsRenewal ==
  ASSUME TypeOK, CopiesInv, CopyJob
  PROVE  [Feed!Next]_(Feed!vars)
<1>1. /\ next \in Devices
      /\ buffer' = [buffer EXCEPT ![next] =
                      [job |-> job, extraNonce2 |-> (next + 1) % NonceSpace]]
      /\ lap' = << >>
      /\ UNCHANGED << job, staleRounds >>
      /\ minerPc = "copy"
  BY DEF CopyJob, TypeOK
<1>2. buffer \in [Devices -> Copy] /\ 0 \in Devices /\ Devices \subseteq Nat
  BY Constants DEF TypeOK
<1>3. CASE next = 0
  <2>1. buffer'[0].job = job
    BY <1>1, <1>2, <1>3
  <2>2. Feed!Renew
    BY <1>1, <2>1 DEF Feed!Renew
  <2>3. QED
    BY <2>2 DEF Feed!Next
<1>4. CASE next # 0
  <2>1. lap = << >>
    BY <1>1, <1>4 DEF CopiesInv
  <2>2. buffer'[0] = buffer[0]
    BY <1>1, <1>2, <1>4
  <2>3. QED
    BY <1>1, <2>1, <2>2 DEF Feed!vars
<1>5. QED
  BY <1>3, <1>4

(* A round that is sent is a round of the feed: its copies are of the job  *)
(* that device 0 has, and the lap that it is in repeats nothing.           *)
LEMMA SendIsRound ==
  ASSUME TypeOK, CopiesInv, StaleInv, LapIsUnique', SendJobs
  PROVE  Feed!Round
<1>1. /\ minerPc = "send"
      /\ lap' = IF (Len(lap) + 1) * NumDevices > NonceSpace
                THEN << buffer >> ELSE Append(lap, buffer)
      /\ staleRounds' = IF buffer[0].job.prev = job.prev THEN 0
                        ELSE IF staleRounds = 0 THEN 1 ELSE 2
      /\ UNCHANGED << job, buffer >>
  BY DEF SendJobs
<1>2. /\ buffer \in [Devices -> Copy]
      /\ \A i \in Devices : buffer[i].job = buffer[0].job
      /\ buffer[0].job # NoJob
  BY <1>1, Constants DEF TypeOK, CopiesInv
<1> DEFINE nonces == [i \in Devices |-> buffer[i].extraNonce2]
           round  == [i \in Devices |-> [job         |-> buffer[0].job,
                                         extraNonce2 |-> nonces[i]]]
<1>3. nonces \in [Devices -> Nonces]
  BY <1>2 DEF Copy
<1>4. buffer = round
  <2>1. \A i \in Devices : buffer[i] = round[i]
    BY <1>2 DEF Copy
  <2> HIDE DEF nonces
  <2>2. QED
    BY <1>2, <2>1
<1>5. (Len(lap) + 1) * NumDevices > NonceSpace <=> ~ Feed!HasRoom
  <2>1. (Len(lap) + 1) * NumDevices \in Nat /\ NonceSpace \in Nat
    BY Constants DEF TypeOK
  <2>2. QED
    BY <2>1 DEF Feed!HasRoom
<1>6. lap' = IF Feed!HasRoom THEN Append(lap, round) ELSE << round >>
  <2> HIDE DEF round
  <2>1. QED
    BY <1>1, <1>4, <1>5
<1>7. Feed!AllDifferent(lap')
  BY DEF LapIsUnique, Feed!AllDifferent, Feed!Devices, Devices
<1>8. /\ staleRounds # 0 => buffer[0].job.prev = job.prev
      /\ (staleRounds' # 0) = (buffer[0].job.prev # job.prev)
  BY <1>1 DEF StaleInv, TypeOK
<1>9. QED
  BY <1>1, <1>2, <1>3, <1>6, <1>7, <1>8
     DEF Feed!Round, Feed!Devices, Feed!Nonces, Devices, Nonces

(* A notification brings a later job, of the same block or the next.       *)
LEMMA NotifyIsAnnounce ==
  ASSUME TypeOK, TypeOK', Notify
  PROVE  Feed!Announce
<1>1. PICK p \in {job.prev, job.prev + 1}, t \in 1 .. MaxTime :
        /\ job' = [id |-> job.id + 1, prev |-> p, time |-> t]
        /\ staleRounds' = IF p = job.prev THEN staleRounds ELSE 0
  BY DEF Notify
<1>2. UNCHANGED << buffer, lap >>
  BY DEF Notify, minerVars
<1>3. /\ job' \in Job
      /\ job.id \in Nat /\ job.prev \in Nat
  BY DispatchAssumption DEF TypeOK, Job
<1>4. job'.id > job.id /\ job'.prev >= job.prev
  BY <1>1, <1>3
<1>5. (staleRounds' # 0) = (staleRounds # 0 /\ job'.prev = job.prev)
  BY <1>1
<1>6. QED
  BY <1>2, <1>3, <1>4, <1>5 DEF Feed!Announce

(* JobDispatch implements WorkFeed: whatever comes between the test of the *)
(* copies, their renewal and the sending (miner.go:166-215), the devices   *)
(* get rounds of one job, the latest of the last renewal, with no          *)
(* ExtraNonce2 twice in a lap, and one round at most for a block that is   *)
(* over.                                                                   *)
THEOREM DispatchImplementsFeed == Spec => FeedSpec
<1>1. Init => Feed!Init
  <2> SUFFICES ASSUME Init
               PROVE  Feed!Init
    OBVIOUS
  <2>1. job \in Job
    BY DispatchAssumption DEF Init, Job
  <2>2. buffer[0].job = NoJob
    BY Constants DEF Init
  <2>3. QED
    BY <2>1, <2>2 DEF Init, Feed!Init
<1>2. TypeOK /\ CopiesInv /\ StaleInv /\ TypeOK' /\ LapIsUnique' /\ [Next]_vars
        => [Feed!Next]_(Feed!vars)
  <2> SUFFICES ASSUME TypeOK, CopiesInv, StaleInv, TypeOK', LapIsUnique',
                      [Next]_vars
               PROVE  [Feed!Next]_(Feed!vars)
    OBVIOUS
  <2>1. CASE CopyJob
    BY <2>1, CopyIsRenewal
  <2>2. CASE SendJobs
    BY <2>2, SendIsRound DEF Feed!Next
  <2>3. CASE Notify
    BY <2>3, NotifyIsAnnounce DEF Feed!Next
  <2>4. CASE RollNonces
    <3>1. /\ UNCHANGED << job, lap, staleRounds >>
          /\ buffer'[0].job = buffer[0].job
      BY <2>4, Constants DEF RollNonces, historyVars, TypeOK, Copy
    <3>2. QED
      BY <3>1 DEF Feed!vars
  <2>5. CASE \/ UNCHANGED vars
             \/ SampleForgetSubmits \/ Compare \/ LockUpdate
             \/ MinerReceiver \/ ForceJobChange \/ LockReconnect
             \/ FiveSecondsPass
    <3>1. UNCHANGED << job, buffer, lap, staleRounds >>
      BY <2>5 DEF vars, minerVars, historyVars, SampleForgetSubmits, Compare,
                  LockUpdate, MinerReceiver, SeeForgetSubmits,
                  ClearForgetSubmits, ForceJobChange, LockReconnect,
                  FiveSecondsPass
    <3>2. QED
      BY <3>1 DEF Feed!vars
  <2>6. QED
    BY <2>1, <2>2, <2>3, <2>4, <2>5 DEF Next, AonMiner, StratumReceiver
<1>3. QED
  BY <1>1, <1>2, CopiesInvariant, StaleInvariant, LapsNeverRepeat, PTL
     DEF Spec, FeedSpec, Feed!Spec

-----------------------------------------------------------------------------
(* After a reconnection *)

(* With StratumMutex gone the pool's job no longer changes, no copy is     *)
(* renewed, and AonMiner, once it wants to renew them, is stopped for good *)
(* (smminer.go:183, miner.go:173): no device gets another round.           *)
NoRenewalAfterReconnect ==
  [][stratumMutex = "reconnect"
       => /\ UNCHANGED << stratumMutex, job >>
          /\ \A i \in Devices : buffer'[i].job = buffer[i].job
          /\ minerPc = "lock" => UNCHANGED << minerPc, buffer, lap >>]_vars

LEMMA KeptStep ==
  ASSUME TypeOK, CopiesInv, [Next]_vars, stratumMutex = "reconnect"
  PROVE  /\ UNCHANGED << stratumMutex, job >>
         /\ \A i \in Devices : buffer'[i].job = buffer[i].job
         /\ minerPc = "lock" => UNCHANGED << minerPc, buffer, lap >>
<1>1. minerPc # "copy"
  BY DEF CopiesInv
<1>2. CASE AonMiner
  <2>1. ~ LockUpdate /\ ~ CopyJob
    BY <1>1 DEF LockUpdate, CopyJob
  <2>2. CASE SampleForgetSubmits \/ Compare \/ SendJobs
    BY <2>2 DEF SampleForgetSubmits, Compare, SendJobs
  <2>3. CASE RollNonces
    <3>1. minerPc = "roll" /\ UNCHANGED << stratumMutex, job >>
      BY <2>3 DEF RollNonces
    <3>2. \A i \in Devices : buffer'[i].job = buffer[i].job
      BY <2>3 DEF RollNonces, TypeOK, Copy
    <3>3. QED
      BY <3>1, <3>2
  <2>4. QED
    BY <1>2, <2>1, <2>2, <2>3 DEF AonMiner
<1>3. CASE MinerReceiver \/ StratumReceiver
  BY <1>3 DEF MinerReceiver, SeeForgetSubmits, ClearForgetSubmits,
              StratumReceiver, Notify, ForceJobChange, minerVars, historyVars
<1>4. CASE FiveSecondsPass \/ LockReconnect \/ UNCHANGED vars
  BY <1>4 DEF FiveSecondsPass, LockReconnect, minerVars, historyVars, vars
<1>5. QED
  BY <1>2, <1>3, <1>4 DEF Next

(* After a reconnection the devices at most go on with the job they have   *)
(* (miner.go:166-215, smminer.go:183).                                     *)
THEOREM LastRenewalAtReconnect == Spec => NoRenewalAfterReconnect
<1>1. TypeOK /\ CopiesInv /\ [Next]_vars
        => [stratumMutex = "reconnect"
              => /\ UNCHANGED << stratumMutex, job >>
                 /\ \A i \in Devices : buffer'[i].job = buffer[i].job
                 /\ minerPc = "lock" => UNCHANGED << minerPc, buffer, lap >>]_vars
  BY KeptStep
<1>2. QED
  BY <1>1, CopiesInvariant, PTL DEF Spec, NoRenewalAfterReconnect

-----------------------------------------------------------------------------
(* Why a job's ExtraNonce2s are used again *)

Copied(i) == minerPc = "copy" /\ i < next

(* A copy is of the pool's job or of an older one. *)
AgeInv ==
  \A i \in Devices :
    /\ buffer[i].job.id <= job.id
    /\ buffer[i].job.id = job.id => buffer[i].job = job

(* While nobody asks to forget the job, a renewal is forced only at the    *)
(* start and replaces older jobs only, and what has been sent out for the  *)
(* job is in the lap.                                                      *)
RenewalInv ==
  /\ AgeInv
  /\ forceJobUpdate => \A i \in Devices : Copied(i) \/ buffer[i].job = NoJob
  /\ minerPc \in {"lock", "copy"} =>
       \A i \in Devices : Copied(i) \/ buffer[i].job.id < job.id
  /\ ~ exhausted =>
       \A x \in used : \E k \in DOMAIN lap : \E i \in Devices :
         x = lap[k][i].extraNonce2

LEMMA RenewalCopy ==
  ASSUME TypeOK, CopiesInv, RenewalInv, CopyJob
  PROVE  RenewalInv'
<1>1. /\ next \in Devices /\ next \in Nat /\ Devices \subseteq Nat
      /\ job' = job /\ job.id \in Nat
      /\ minerPc = "copy"
  BY Constants DEF TypeOK, CopyJob, Job
<1>2. /\ buffer'[next].job = job
      /\ \A i \in Devices \ {next} : buffer'[i] = buffer[i]
  BY <1>1 DEF CopyJob, TypeOK
<1>3. buffer[next].job.id # job.id
  <2>1. buffer[next].job.id < job.id
    BY <1>1 DEF RenewalInv, Copied
  <2>2. QED
    BY <1>1, <2>1
<1>4. used' = {}
  BY <1>3 DEF CopyJob
<1>5. AgeInv'
  <2>1. ASSUME NEW i \in Devices
        PROVE  /\ buffer'[i].job.id <= job.id
               /\ buffer'[i].job.id = job.id => buffer'[i].job = job
    <3>1. CASE i = next
      <4>1. buffer'[i].job = job
        BY <1>2, <3>1
      <4>2. QED
        BY <1>1, <4>1
    <3>2. CASE i # next
      <4>1. buffer'[i] = buffer[i]
        BY <1>2, <3>2
      <4>2. QED
        BY <4>1 DEF RenewalInv, AgeInv
    <3>3. QED
      BY <3>1, <3>2
  <2>2. QED
    BY <1>1, <2>1 DEF AgeInv
<1>6. CASE next = NumDevices - 1
  <2>1. forceJobUpdate' = FALSE /\ minerPc' = "roll"
    BY <1>6 DEF CopyJob
  <2>2. QED
    BY <1>4, <1>5, <2>1 DEF RenewalInv
<1>7. CASE next # NumDevices - 1
  <2>1. next' = next + 1 /\ UNCHANGED << forceJobUpdate, minerPc >>
    BY <1>7 DEF CopyJob
  <2>2. \A i \in Devices : i = next \/ Copied(i) => Copied(i)'
    BY <1>1, <2>1 DEF Copied
  <2>3. forceJobUpdate' =>
          \A i \in Devices : Copied(i)' \/ buffer'[i].job = NoJob
    BY <1>2, <2>1, <2>2 DEF RenewalInv
  <2>4. \A i \in Devices : Copied(i)' \/ buffer'[i].job.id < job'.id
    BY <1>1, <1>2, <2>2 DEF RenewalInv
  <2>5. QED
    BY <1>4, <1>5, <2>3, <2>4 DEF RenewalInv
<1>8. QED
  BY <1>6, <1>7

LEMMA RenewalSend ==
  ASSUME TypeOK, RenewalInv, SendJobs
  PROVE  RenewalInv'
<1>1. /\ minerPc = "send" /\ minerPc' = "sample"
      /\ UNCHANGED << job, buffer, forceJobUpdate, next >>
      /\ used' = used \cup {buffer[i].extraNonce2 : i \in Devices}
      /\ ~ exhausted' => ~ exhausted /\ lap' = Append(lap, buffer)
  BY DEF SendJobs
<1>2. /\ AgeInv'
      /\ forceJobUpdate' => \A i \in Devices : Copied(i)' \/ buffer'[i].job = NoJob
  BY <1>1 DEF RenewalInv, AgeInv, Copied
<1>3. ASSUME ~ exhausted', NEW x \in used'
      PROVE  \E k \in DOMAIN lap' : \E i \in Devices : x = lap'[k][i].extraNonce2
  <2>1. /\ DOMAIN lap = 1 .. Len(lap) /\ DOMAIN lap' = 1 .. Len(lap) + 1
        /\ Len(lap) \in Nat
        /\ \A k \in DOMAIN lap : lap'[k] = lap[k]
        /\ lap'[Len(lap) + 1] = buffer
    BY <1>1, <1>3 DEF TypeOK
  <2>2. CASE x \in used
    <3>1. PICK k \in DOMAIN lap, i \in Devices : x = lap[k][i].extraNonce2
      BY <1>1, <1>3, <2>2 DEF RenewalInv
    <3>2. QED
      BY <2>1, <3>1
  <2>3. CASE \E i \in Devices : x = buffer[i].extraNonce2
    <3>1. Len(lap) + 1 \in DOMAIN lap'
      BY <2>1
    <3>2. QED
      BY <2>1, <2>3, <3>1
  <2>4. QED
    BY <1>1, <1>3, <2>2, <2>3
<1>4. QED
  BY <1>1, <1>2, <1>3 DEF RenewalInv

LEMMA RenewalStep ==
  ASSUME TypeOK, CopiesInv, RenewalInv, ~ forgetSubmits, [Next]_vars
  PROVE  RenewalInv'
<1>0. /\ Devices \subseteq Nat /\ 0 \in Devices
      /\ job.id \in Nat \ {0} /\ NoJob.id = 0
      /\ \A i \in Devices : buffer[i].job.id \in Nat
  BY Constants DEF TypeOK, Copy, Job, NoJob
<1>1. CASE CopyJob
  BY <1>1, RenewalCopy
<1>2. CASE SendJobs
  BY <1>2, RenewalSend
<1>3. CASE RollNonces
  <2>1. /\ minerPc = "roll" /\ minerPc' = "send"
        /\ \A i \in Devices : buffer'[i].job = buffer[i].job
        /\ UNCHANGED << job, forceJobUpdate, lap, used, exhausted >>
    BY <1>3 DEF RollNonces, historyVars, TypeOK, Copy
  <2>2. QED
    BY <2>1 DEF RenewalInv, AgeInv, Copied
<1>4. CASE SampleForgetSubmits
  <2>1. /\ minerPc = "sample" /\ minerPc' = "compare"
        /\ UNCHANGED << job, buffer, forceJobUpdate, lap, used, exhausted >>
    BY <1>4 DEF SampleForgetSubmits, historyVars, TypeOK
  <2>2. QED
    BY <2>1 DEF RenewalInv, AgeInv, Copied
<1>5. CASE Compare
  <2>1. /\ minerPc = "compare" /\ minerPc' \in {"lock", "roll"}
        /\ minerPc' = "lock" => OutOfDate
        /\ UNCHANGED << job, buffer, forceJobUpdate, lap, used, exhausted >>
    BY <1>5 DEF Compare, historyVars
  <2>2. \A i \in Devices : buffer[i].job = buffer[0].job
    BY <2>1 DEF CopiesInv
  <2>3. ASSUME OutOfDate
        PROVE  buffer[0].job.id < job.id
    <3>1. CASE forceJobUpdate
      BY <1>0, <2>1, <3>1 DEF RenewalInv, Copied
    <3>2. CASE buffer[0].job # job
      BY <1>0, <3>2 DEF RenewalInv, AgeInv
    <3>3. QED
      BY <2>3, <3>1, <3>2 DEF OutOfDate
  <2>4. QED
    BY <2>1, <2>2, <2>3 DEF RenewalInv, AgeInv, Copied
<1>6. CASE LockUpdate
  <2>1. /\ minerPc = "lock" /\ minerPc' = "copy" /\ next = 0
        /\ UNCHANGED << job, buffer, forceJobUpdate, next, lap, used, exhausted >>
    BY <1>6 DEF LockUpdate, historyVars, CopiesInv
  <2>2. ASSUME NEW i \in Devices
        PROVE  ~ Copied(i) /\ ~ Copied(i)'
    <3>1. ~ (i < 0)
      BY Constants
    <3>2. QED
      BY <2>1, <3>1 DEF Copied
  <2>3. QED
    BY <2>1, <2>2 DEF RenewalInv, AgeInv
<1>7. CASE Notify
  <2>1. /\ minerPc # "copy" /\ job'.id = job.id + 1
        /\ UNCHANGED << minerPc, buffer, forceJobUpdate, next, lap, used,
                        exhausted >>
    BY <1>7 DEF Notify, minerVars, CopiesInv
  <2>2. ASSUME NEW i \in Devices
        PROVE  buffer'[i].job.id < job'.id
    <3>1. buffer[i].job.id <= job.id
      BY DEF RenewalInv, AgeInv
    <3>2. buffer[i].job.id \in Nat /\ job.id \in Nat
      BY Constants DEF TypeOK, Copy, Job, NoJob
    <3>3. QED
      BY <2>1, <3>1, <3>2
  <2>3. \A i \in Devices : Copied(i)' = Copied(i)
    BY <2>1 DEF Copied
  <2>4. AgeInv'
    BY <1>0, <2>1, <2>2 DEF AgeInv
  <2>5. QED
    BY <2>1, <2>2, <2>3, <2>4 DEF RenewalInv
<1>8. CASE \/ UNCHANGED vars \/ MinerReceiver \/ ForceJobChange
           \/ LockReconnect \/ FiveSecondsPass
  <2>1. UNCHANGED << job, minerPc, buffer, forceJobUpdate, next, lap, used,
                     exhausted >>
    BY <1>8 DEF vars, minerVars, historyVars, MinerReceiver, SeeForgetSubmits,
                ClearForgetSubmits, ForceJobChange, LockReconnect,
                FiveSecondsPass
  <2>2. QED
    BY <2>1 DEF RenewalInv, AgeInv, Copied
<1>9. QED
  BY <1>1, <1>2, <1>3, <1>4, <1>5, <1>6, <1>7, <1>8
     DEF Next, AonMiner, StratumReceiver

(* The next round goes on where the lap is. *)
LEMMA NextRoundIsNew ==
  ASSUME TypeOK, LapInv, RenewalInv
  PROVE  UniqueAcrossIterations
<1>1. SUFFICES ASSUME minerPc = "send", ~ exhausted,
                      (Len(lap) + 1) * NumDevices <= NonceSpace,
                      NEW i \in Devices, buffer[i].extraNonce2 \in used
               PROVE  FALSE
  BY DEF UniqueAcrossIterations
<1>2. PICK b \in Nonces : LapFrom(b)
  BY DEF LapInv
<1>3. PICK k \in DOMAIN lap, j \in Devices :
        buffer[i].extraNonce2 = lap[k][j].extraNonce2
  BY <1>1 DEF RenewalInv
<1> DEFINE n == Len(lap) + 1
<1>4. Len(lap) \in Nat /\ n \in Nat /\ k \in 1 .. n /\ n \in 1 .. n /\ k # n
  BY DEF TypeOK
<1>5. lap[k][j].extraNonce2 = (b + Place(k, j)) % NonceSpace
  BY <1>2 DEF LapFrom, Place
<1>6. buffer[i].extraNonce2 = (b + Place(n, i)) % NonceSpace
  <2>1. buffer[0].job # NoJob
    BY <1>1, Constants DEF TypeOK
  <2>2. n - 1 = Len(lap)
    BY <1>4
  <2>3. buffer[i].extraNonce2 = (b + (Len(lap) * NumDevices + i)) % NonceSpace
    BY <1>1, <1>2, <2>1 DEF LapFrom, Coming
  <2>4. QED
    BY <2>2, <2>3 DEF Place
<1> HIDE DEF n
<1>7. /\ Place(k, j) \in 0 .. NonceSpace - 1
      /\ Place(n, i) \in 0 .. NonceSpace - 1
      /\ Place(k, j) # Place(n, i)
  <2>1. n * NumDevices <= NonceSpace
    BY <1>1 DEF n
  <2>2. << k, j >> # << n, i >>
    BY <1>4
  <2>3. QED
    BY <1>4, <2>1, <2>2, Places
<1>8. b \in 0 .. NonceSpace /\ b \in Nat
  BY Constants DEF Nonces
<1>9. (Place(k, j) + b) % NonceSpace # (Place(n, i) + b) % NonceSpace
  BY <1>7, <1>8, Constants, ShiftKeepsApart
<1>10. Place(k, j) + b = b + Place(k, j) /\ Place(n, i) + b = b + Place(n, i)
  BY <1>7, <1>8
<1>11. QED
  BY <1>3, <1>5, <1>6, <1>9, <1>10

(* As long as ForgetSubmits is not set, by the pool or by rejections       *)
(* (stratum.go:275, 350-354), the comment of miner.go:194 is right: no     *)
(* ExtraNonce2 goes out twice for a job before NonceSpace is used up,      *)
(* however jobs are announced and copied meanwhile.                        *)
THEOREM RepeatsNeedForgetting ==
  Spec /\ [](~ forgetSubmits) => []UniqueAcrossIterations
<1>1. Init => RenewalInv
  <2>1. ASSUME Init
        PROVE  job.id \in Nat \ {0} /\ \A i \in Devices : buffer[i].job = NoJob
    BY <2>1, DispatchAssumption DEF Init, Job
  <2>2. QED
    BY <2>1 DEF Init, RenewalInv, AgeInv, NoJob
<1>2. TypeOK /\ CopiesInv /\ RenewalInv /\ ~ forgetSubmits /\ [Next]_vars
        => RenewalInv'
  BY RenewalStep
<1>3. TypeOK /\ LapInv /\ RenewalInv => UniqueAcrossIterations
  BY NextRoundIsNew
<1>4. QED
  BY <1>1, <1>2, <1>3, CopiesInvariant, LapInvariant, PTL DEF Spec
=============================================================================
