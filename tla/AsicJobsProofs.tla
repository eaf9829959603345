--------------------------- MODULE AsicJobsProofs ---------------------------
(***************************************************************************)
(* Theorems about AsicJobs and their proofs, for any number of devices,    *)
(* any ring of JobIDs and any number of pending jobs that a cut keeps.     *)
(***************************************************************************)
EXTENDS AsicJobs, FiniteSetTheorems, TLAPS

-----------------------------------------------------------------------------
(* Sequences *)

(* s is the end of t, element by element. *)
IsEnd(s, t) ==
  /\ Len(s) <= Len(t)
  /\ \A i \in 1 .. Len(s) : s[i] = t[Len(t) - Len(s) + i]

(* The two ways to say so agree. *)
LEMMA EndIsSuffix ==
  ASSUME NEW S, NEW s \in Seq(S), NEW t \in Seq(S), IsEnd(s, t)
  PROVE  IsSuffix(s, t)
<1>1. /\ Len(s) \in Nat /\ Len(t) \in Nat /\ Len(s) <= Len(t)
  BY DEF IsEnd
<1> DEFINE r == Reverse(s)
           q == Reverse(t)
<1>2. /\ r \in Seq(S) /\ Len(r) = Len(s)
      /\ \A i \in 1 .. Len(s) : r[i] = s[(Len(s) - i) + 1]
  BY <1>1 DEF Reverse
<1>3. /\ q \in Seq(S) /\ Len(q) = Len(t)
      /\ \A i \in 1 .. Len(t) : q[i] = t[(Len(t) - i) + 1]
  BY <1>1 DEF Reverse
<1>4. ASSUME NEW i \in 1 .. Len(s)
      PROVE  r[i] = q[i]
  <2>1. /\ (Len(s) - i) + 1 \in 1 .. Len(s)
        /\ Len(t) - Len(s) + ((Len(s) - i) + 1) = (Len(t) - i) + 1
        /\ i \in 1 .. Len(t)
    BY <1>1
  <2>2. s[(Len(s) - i) + 1] = t[(Len(t) - i) + 1]
    BY <2>1 DEF IsEnd
  <2>3. QED
    BY <1>2, <1>3, <2>1, <2>2
<1> HIDE DEF r, q
<1>5. SubSeq(r, 1, Len(r)) = SubSeq(q, 1, Len(r))
  BY <1>1, <1>2, <1>3, <1>4
<1>6. Len(r) <= Len(q)
  BY <1>1, <1>2, <1>3
<1>7. IsPrefix(r, q)
  BY <1>5, <1>6 DEF IsPrefix
<1>8. QED
  BY <1>7 DEF IsSuffix, r, q

(* Appending the same to both keeps an end an end. *)
LEMMA AppendToEnd ==
  ASSUME NEW S, NEW s \in Seq(S), NEW t \in Seq(S), NEW e \in S, IsEnd(s, t)
  PROVE  IsEnd(Append(s, e), Append(t, e))
<1>1. /\ Len(Append(s, e)) = Len(s) + 1 /\ Len(Append(t, e)) = Len(t) + 1
      /\ Len(s) \in Nat /\ Len(t) \in Nat /\ Len(s) <= Len(t)
  BY DEF IsEnd
<1>2. ASSUME NEW i \in 1 .. Len(s) + 1
      PROVE  Append(s, e)[i] = Append(t, e)[Len(t) - Len(s) + i]
  <2>1. CASE i = Len(s) + 1
    BY <1>1, <2>1
  <2>2. CASE i \in 1 .. Len(s)
    <3>1. Len(t) - Len(s) + i \in 1 .. Len(t)
      BY <1>1, <2>2
    <3>2. QED
      BY <1>1, <2>2, <3>1 DEF IsEnd
  <2>3. QED
    BY <1>1, <2>1, <2>2
<1>3. /\ Len(Append(s, e)) <= Len(Append(t, e))
      /\ Len(Append(t, e)) - Len(Append(s, e)) = Len(t) - Len(s)
      /\ 1 .. Len(Append(s, e)) = 1 .. Len(s) + 1
  BY <1>1
<1>4. QED
  BY <1>2, <1>3 DEF IsEnd

(* Cutting an end leaves an end. *)
LEMMA CutEnd ==
  ASSUME NEW S, NEW s \in Seq(S), NEW t \in Seq(S), IsEnd(s, t),
         NEW k \in Nat \ {0}, k < Len(s)
  PROVE  /\ SubSeq(s, Len(s) - k + 1, Len(s)) \in Seq(S)
         /\ Len(SubSeq(s, Len(s) - k + 1, Len(s))) = k
         /\ IsEnd(SubSeq(s, Len(s) - k + 1, Len(s)), t)
<1> DEFINE u == SubSeq(s, Len(s) - k + 1, Len(s))
<1>1. /\ Len(s) \in Nat /\ Len(t) \in Nat /\ Len(s) <= Len(t)
      /\ Len(s) - k + 1 \in 1 .. Len(s)
  BY DEF IsEnd
<1>2. /\ u \in Seq(S) /\ Len(u) = k
      /\ \A i \in 1 .. k : u[i] = s[Len(s) - k + i]
  BY <1>1
<1>3. ASSUME NEW i \in 1 .. k
      PROVE  u[i] = t[Len(t) - k + i]
  <2>1. /\ Len(s) - k + i \in 1 .. Len(s)
        /\ Len(t) - Len(s) + (Len(s) - k + i) = Len(t) - k + i
    BY <1>1
  <2>2. QED
    BY <1>2, <2>1 DEF IsEnd
<1>4. QED
  BY <1>1, <1>2, <1>3 DEF IsEnd

(* Changing a goroutine changes neither the others nor their number. *)
LEMMA ChangeSend ==
  ASSUME NEW S, NEW s \in Seq(S), NEW n \in DOMAIN s, NEW r \in S
  PROVE  /\ [s EXCEPT ![n] = r] \in Seq(S)
         /\ Len([s EXCEPT ![n] = r]) = Len(s)
         /\ DOMAIN [s EXCEPT ![n] = r] = DOMAIN s
OBVIOUS

-----------------------------------------------------------------------------
(* Types *)

(* A step of one goroutine. *)
LEMMA GoroutineType ==
  ASSUME TypeOK, NEW n \in DOMAIN sends, NEW r \in Goroutine, r.job = sends[n].job,
         sends' = [sends EXCEPT ![n] = r]
  PROVE  /\ sends' \in Seq(Goroutine)
         /\ Len(sends') = Len(sends)
         /\ DOMAIN sends' = DOMAIN sends
         /\ \A m \in DOMAIN sends : sends'[m].job = sends[m].job
<1>1. sends \in Seq(Goroutine)
  BY DEF TypeOK
<1>2. QED
  BY <1>1, ChangeSend

(* What AsicSendJob does to the goroutines: it changes its own state, and  *)
(* never the job it was started with.                                      *)
LEMMA SendStep ==
  ASSUME TypeOK, NEW n \in DOMAIN sends, AsicSendJob(n)
  PROVE  /\ sends' \in Seq(Goroutine)
         /\ Len(sends') = Len(sends)
         /\ DOMAIN sends' = DOMAIN sends
         /\ \A m \in DOMAIN sends : sends'[m].job = sends[m].job
         /\ lastJobID' \in JobIDs
<1>1. sends[n] \in Goroutine /\ lastJobID \in JobIDs
  BY DEF TypeOK
<1>2. \A i \in JobIDs : NextJobID(i) \in JobIDs
  <2>1. \A i \in JobIDs : i + RingStep \in Nat
    BY AsicAssumption DEF JobIDs
  <2>2. \A a \in Nat : a % RingSize \in 0 .. RingSize - 1
    BY AsicAssumption
  <2>3. QED
    BY <2>1, <2>2 DEF NextJobID, JobIDs
<1>3. \E r \in Goroutine : r.job = sends[n].job /\ sends' = [sends EXCEPT ![n] = r]
  <2>1. CASE LoadJobID(n)
    <3>1. sends' = [sends EXCEPT ![n] =
                      [sends[n] EXCEPT !.pc = "store", !.jobID = lastJobID]]
      BY <2>1 DEF LoadJobID, TypeOK
    <3>2. QED
      BY <1>1, <3>1 DEF Goroutine
  <2>2. CASE FetchJobID(n)
    <3>1. sends' = [sends EXCEPT ![n] =
                      [sends[n] EXCEPT !.pc = "write", !.jobID = lastJobID]]
      BY <2>2 DEF FetchJobID, TypeOK
    <3>2. QED
      BY <1>1, <3>1 DEF Goroutine
  <2>3. CASE WriteJob(n)
    <3>1. sends' = [sends EXCEPT ![n] =
                      [sends[n] EXCEPT !.pc = "reset", !.written = TRUE]]
      BY <2>3 DEF WriteJob, TypeOK
    <3>2. QED
      BY <1>1, <3>1 DEF Goroutine
  <2>4. ASSUME NEW from, GoTo(n, from, sends'[n].pc),
               sends'[n].pc \in {"store", "fetch", "write", "reset", "failed",
                                 "append", "done"}
        PROVE  \E r \in Goroutine :
                 r.job = sends[n].job /\ sends' = [sends EXCEPT ![n] = r]
    <3>1. sends' = [sends EXCEPT ![n] = [sends[n] EXCEPT !.pc = sends'[n].pc]]
      BY <2>4 DEF GoTo
    <3>2. QED
      BY <1>1, <2>4, <3>1 DEF Goroutine
  <2>5. CASE StoreJobID(n)
    <3>1. GoTo(n, "store", "fetch") /\ sends'[n].pc = "fetch"
      BY <2>5, <1>1 DEF StoreJobID, GoTo, TypeOK, Goroutine
    <3>2. QED
      BY <2>4, <3>1
  <2>6. CASE ResetWriteErrors(n)
    <3>1. GoTo(n, "reset", "append") /\ sends'[n].pc = "append"
      BY <2>6, <1>1 DEF ResetWriteErrors, GoTo, TypeOK, Goroutine
    <3>2. QED
      BY <2>4, <3>1
  <2>7. CASE WriteFails(n)
    <3>1. GoTo(n, "write", "failed") /\ sends'[n].pc = "failed"
      BY <2>7, <1>1 DEF WriteFails, GoTo, TypeOK, Goroutine
    <3>2. QED
      BY <2>4, <3>1
  <2>8. CASE CountWriteError(n)
    <3>1. \/ GoTo(n, "failed", "done") /\ sends'[n].pc = "done"
          \/ GoTo(n, "failed", "append") /\ sends'[n].pc = "append"
      BY <2>8, <1>1 DEF CountWriteError, GoTo, TypeOK, Goroutine
    <3>2. QED
      BY <2>4, <3>1
  <2>9. CASE AppendPending(n)
    <3>1. GoTo(n, "append", "done") /\ sends'[n].pc = "done"
      BY <2>9, <1>1 DEF AppendPending, GoTo, TypeOK, Goroutine
    <3>2. QED
      BY <2>4, <3>1
  <2>10. QED
    BY <2>1, <2>2, <2>3, <2>5, <2>6, <2>7, <2>8, <2>9 DEF AsicSendJob
<1>4. lastJobID' \in JobIDs
  BY <1>1, <1>2 DEF AsicSendJob, LoadJobID, StoreJobID, FetchJobID, WriteJob,
                    ResetWriteErrors, WriteFails, CountWriteError, AppendPending,
                    Goroutine
<1>5. QED
  BY <1>3, <1>4, GoroutineType

(* What a round does to the goroutines: it adds some. *)
LEMMA RoundStep ==
  ASSUME TypeOK, StartRound
  PROVE  /\ sends' \in Seq(Goroutine)
         /\ Len(sends') <= MaxSends
         /\ DOMAIN sends \subseteq DOMAIN sends'
         /\ \A m \in DOMAIN sends : sends'[m].job = sends[m].job
         /\ job' \in Jobs
<1>1. job' \in Jobs
  BY DEF StartRound, TypeOK, Jobs
<1> DEFINE round == [i \in 1 .. NumDevices |->
                       [device |-> i - 1, job |-> job', pc |-> "load",
                        jobID |-> 0, written |-> FALSE]]
<1>2. round \in Seq(Goroutine) /\ Len(round) = NumDevices
  <2>1. \A i \in 1 .. NumDevices : i - 1 \in Devices
    BY AsicAssumption DEF Devices
  <2>2. 0 \in JobIDs
    BY AsicAssumption DEF JobIDs
  <2>3. \A i \in 1 .. NumDevices : round[i] \in Goroutine
    BY <1>1, <2>1, <2>2 DEF Goroutine
  <2>4. QED
    BY <2>3, AsicAssumption
<1>3. /\ sends \in Seq(Goroutine)
      /\ sends' = sends \o round
      /\ Len(sends) + NumDevices <= MaxSends
  BY DEF StartRound, TypeOK
<1> HIDE DEF round
<1>4. QED
  BY <1>1, <1>2, <1>3, AsicAssumption

(* A cut has enough to keep: since the test jobs were only added. *)
CutInv ==
  \A d \in Devices : readers[d].pc = "cut" => Len(pending[d]) > KeepJobs

(* A goroutine keeps the types. *)
LEMMA SendType ==
  ASSUME TypeOK, CutInv, NEW n \in DOMAIN sends, AsicSendJob(n)
  PROVE  TypeOK' /\ CutInv'
<1>1. /\ sends' \in Seq(Goroutine) /\ Len(sends') <= MaxSends
      /\ DOMAIN sends' = DOMAIN sends
      /\ lastJobID' \in JobIDs
      /\ job' = job /\ readers' = readers
  BY SendStep
     DEF TypeOK, AsicSendJob, LoadJobID, StoreJobID, FetchJobID, WriteJob,
         ResetWriteErrors, WriteFails, CountWriteError, AppendPending
<1>2. writeErrors' \in Nat
  <2>1. writeErrors \in Nat
    BY DEF TypeOK
  <2>2. writeErrors' \in {writeErrors, 0, writeErrors + 1}
    BY DEF AsicSendJob, LoadJobID, StoreJobID, FetchJobID, WriteJob,
           ResetWriteErrors, WriteFails, CountWriteError, AppendPending
  <2>3. QED
    BY <2>1, <2>2
<1>3. connected' \in BOOLEAN /\ overlapped' \in BOOLEAN
  <2>1. connected \in BOOLEAN /\ overlapped \in BOOLEAN
    BY DEF TypeOK
  <2>2. CASE LoadJobID(n)
    BY <2>1, <2>2 DEF LoadJobID
  <2>3. CASE CountWriteError(n)
    BY <2>1, <2>3 DEF CountWriteError, historyVars
  <2>4. CASE ~ LoadJobID(n) /\ ~ CountWriteError(n)
    BY <2>1, <2>4 DEF AsicSendJob, StoreJobID, FetchJobID, WriteJob,
                      ResetWriteErrors, WriteFails, AppendPending, historyVars
  <2>5. QED
    BY <2>2, <2>3, <2>4
<1>4. CASE AppendPending(n)
  <2>1. sends[n] \in Goroutine
    BY DEF TypeOK
  <2>2. sends[n].job \in Jobs /\ sends[n].device \in Devices
    BY <2>1 DEF Goroutine
  <2>3. n \in SendNumbers
    BY AsicAssumption DEF TypeOK, SendNumbers
  <2>4. \A d \in Devices : /\ pending[d] \in Seq(SendNumbers)
                           /\ appended[d] \in Seq(SendNumbers)
    BY DEF TypeOK
  <2>5. /\ pending' \in [Devices -> Seq(SendNumbers)]
        /\ appended' \in [Devices -> Seq(SendNumbers)]
        /\ latest' \in [Devices -> Jobs \cup {NoJob}]
    BY <1>4, <2>2, <2>3, <2>4 DEF AppendPending, TypeOK
  <2>6. \A d \in Devices : pending'[d] \in {pending[d], Append(pending[d], n)}
    BY <1>4, <2>2 DEF AppendPending, TypeOK
  <2>7. CutInv'
    <3>1. \A d \in Devices : Len(Append(pending[d], n)) = Len(pending[d]) + 1
      BY <2>3, <2>4
    <3>2. \A d \in Devices : Len(pending[d]) \in Nat
      BY <2>4
    <3>3. QED
      BY <1>1, <2>6, <3>1, <3>2, AsicAssumption DEF CutInv
  <2>8. QED
    BY <1>1, <1>2, <1>3, <2>5, <2>7 DEF TypeOK
<1>5. CASE ~ AppendPending(n)
  <2>1. UNCHANGED << pending, appended, latest >>
    BY <1>5 DEF AsicSendJob, LoadJobID, StoreJobID, FetchJobID, WriteJob,
                ResetWriteErrors, WriteFails, CountWriteError, historyVars
  <2>2. QED
    BY <1>1, <1>2, <1>3, <2>1 DEF TypeOK, CutInv
<1>6. QED
  BY <1>4, <1>5

(* What a reader does to itself. *)
LEMMA ReaderStep ==
  ASSUME TypeOK, NEW d \in Devices, AsicReadJob(d)
  PROVE  \E r \in Reader :
           /\ readers' = [readers EXCEPT ![d] = r]
           /\ r.pc \in {"match", "append"} => r.answer \in DOMAIN sends
           /\ r.pc = "cut" => /\ CheckPending(d)
                              /\ Len(pending[d]) > KeepJobs
<1>1. readers[d] \in Reader
  BY DEF TypeOK
<1>2. CASE TakeLatest(d)
  <2> DEFINE r == [pc |-> IF connected THEN "read" ELSE "gone",
                   job |-> latest[d], answer |-> 0]
  <2>1. r \in Reader
    BY DEF TypeOK, Reader
  <2>2. readers' = [readers EXCEPT ![d] = r]
    BY <1>2 DEF TakeLatest
  <2>3. r.pc \notin {"match", "append", "cut"}
    OBVIOUS
  <2>4. QED
    BY <2>1, <2>2, <2>3
<1>3. CASE ReadAnswer(d)
  <2>1. PICK n \in DOMAIN sends :
          readers' = [readers EXCEPT ![d] =
                        [readers[d] EXCEPT !.pc = "match", !.answer = n]]
    BY <1>3 DEF ReadAnswer, TypeOK
  <2>2. n \in SendNumbers
    BY AsicAssumption DEF TypeOK, SendNumbers
  <2> DEFINE r == [readers[d] EXCEPT !.pc = "match", !.answer = n]
  <2>3. r \in Reader /\ r.pc = "match" /\ r.answer = n
    BY <1>1, <2>2 DEF Reader
  <2>4. QED
    BY <2>1, <2>3
<1>4. AtCheck \in Reader /\ AtCheck.pc = "check"
  BY DEF AtCheck, Reader
<1>5. CASE ReadNothing(d) \/ AppendShare(d)
  <2>1. readers' = [readers EXCEPT ![d] = AtCheck]
    BY <1>5 DEF ReadNothing, AppendShare
  <2>2. QED
    BY <1>4, <2>1
<1>6. CASE MatchAnswer(d)
  <2>1. CASE readers' = [readers EXCEPT ![d] = AtCheck]
    BY <1>4, <2>1
  <2>2. CASE readers' = [readers EXCEPT ![d] = [readers[d] EXCEPT !.pc = "append"]]
    <3>1. readers[d].answer \in DOMAIN sends
      BY <1>6 DEF MatchAnswer, TypeOK
    <3> DEFINE r == [readers[d] EXCEPT !.pc = "append"]
    <3>2. r \in Reader /\ r.pc = "append" /\ r.answer = readers[d].answer
      BY <1>1 DEF Reader
    <3>3. QED
      BY <2>2, <3>1, <3>2
  <2>3. QED
    BY <1>6, <2>1, <2>2 DEF MatchAnswer
<1>7. CASE CloseDevices(d)
  <2> DEFINE r == [readers[d] EXCEPT !.pc = "gone"]
  <2>1. r \in Reader /\ r.pc = "gone"
    BY <1>1 DEF Reader
  <2>2. readers' = [readers EXCEPT ![d] = r]
    BY <1>7 DEF CloseDevices
  <2>3. QED
    BY <2>1, <2>2
<1>8. CASE CheckPending(d) \/ CutPending(d)
  <2>1. PICK to \in {"cut", "look"} :
          /\ readers' = [readers EXCEPT ![d] = [readers[d] EXCEPT !.pc = to]]
          /\ to = "cut" => CheckPending(d) /\ Len(pending[d]) > KeepJobs
    BY <1>8 DEF CheckPending, CutPending
  <2> DEFINE r == [readers[d] EXCEPT !.pc = to]
  <2>2. r \in Reader /\ r.pc = to
    BY <1>1 DEF Reader
  <2>3. QED
    BY <2>1, <2>2
<1>9. QED
  BY <1>2, <1>3, <1>5, <1>6, <1>7, <1>8 DEF AsicReadJob

(* A reader keeps the types. *)
LEMMA ReaderType ==
  ASSUME TypeOK, CutInv, NEW d \in Devices, AsicReadJob(d)
  PROVE  TypeOK' /\ CutInv'
<1>1. /\ UNCHANGED << senderVars, latest, writeErrors, historyVars >>
      /\ connected' \in BOOLEAN
  BY DEF AsicReadJob, TakeLatest, ReadAnswer, ReadNothing, CloseDevices,
         MatchAnswer, AppendShare, CheckPending, CutPending, TypeOK
<1>2. PICK r \in Reader :
        /\ readers' = [readers EXCEPT ![d] = r]
        /\ r.pc \in {"match", "append"} => r.answer \in DOMAIN sends
        /\ r.pc = "cut" => CheckPending(d) /\ Len(pending[d]) > KeepJobs
  BY ReaderStep
<1>3. /\ readers' \in [Devices -> Reader]
      /\ \A e \in Devices : readers'[e].pc \in {"match", "append"} =>
                              readers'[e].answer \in DOMAIN sends
  BY <1>2 DEF TypeOK
<1>4. CASE CutPending(d)
  <2>1. /\ pending[d] \in Seq(SendNumbers)
        /\ Len(pending[d]) > KeepJobs
    BY <1>4 DEF TypeOK, CutPending, CutInv
  <2>2. SubSeq(pending[d], Len(pending[d]) - KeepJobs + 1, Len(pending[d]))
          \in Seq(SendNumbers)
    <3>1. Len(pending[d]) - KeepJobs + 1 \in 1 .. Len(pending[d])
      BY <2>1, AsicAssumption
    <3>2. QED
      BY <2>1, <3>1
  <2>3. /\ pending' \in [Devices -> Seq(SendNumbers)]
        /\ \A e \in Devices : e # d => pending'[e] = pending[e]
    BY <1>4, <2>2 DEF CutPending, TypeOK
  <2>4. readers'[d].pc = "look"
    BY <1>4 DEF CutPending, TypeOK, Reader
  <2>5. CutInv'
    BY <1>2, <2>3, <2>4 DEF CutInv, TypeOK
  <2>6. QED
    BY <1>1, <1>3, <2>3, <2>5 DEF TypeOK, senderVars, historyVars
<1>5. CASE ~ CutPending(d)
  <2>1. pending' = pending
    BY <1>5 DEF AsicReadJob, TakeLatest, ReadAnswer, ReadNothing, CloseDevices,
                MatchAnswer, AppendShare, CheckPending
  <2>2. CutInv'
    BY <1>2, <2>1 DEF CutInv, TypeOK
  <2>3. QED
    BY <1>1, <1>3, <2>1, <2>2 DEF TypeOK, senderVars, historyVars
<1>6. QED
  BY <1>4, <1>5

(* The types and the cuts, in every behaviour. *)
LEMMA TypeInvariant == Spec => [](TypeOK /\ CutInv)
<1>1. Init => TypeOK /\ CutInv
  <2> SUFFICES ASSUME Init
               PROVE  TypeOK /\ CutInv
    OBVIOUS
  <2>1. /\ lastJobID \in JobIDs /\ job \in Jobs
        /\ Len(sends) <= MaxSends
        /\ [pc |-> "look", job |-> NoJob, answer |-> 0] \in Reader
    BY AsicAssumption DEF Init, JobIDs, Jobs, Reader
  <2>2. /\ readers \in [Devices -> Reader]
        /\ \A d \in Devices : readers[d].pc = "look"
    BY <2>1 DEF Init
  <2>3. << >> \in Seq(Goroutine) /\ << >> \in Seq(SendNumbers)
    OBVIOUS
  <2>4. /\ pending \in [Devices -> Seq(SendNumbers)]
        /\ appended \in [Devices -> Seq(SendNumbers)]
        /\ latest \in [Devices -> Jobs \cup {NoJob}]
        /\ sends \in Seq(Goroutine)
    BY <2>3 DEF Init
  <2>5. /\ writeErrors \in Nat /\ connected \in BOOLEAN /\ overlapped \in BOOLEAN
    BY DEF Init
  <2>6. TypeOK
    BY <2>1, <2>2, <2>4, <2>5 DEF TypeOK
  <2>7. CutInv
    BY <2>2 DEF CutInv
  <2>8. QED
    BY <2>6, <2>7
<1>2. TypeOK /\ CutInv /\ [Next]_vars => TypeOK' /\ CutInv'
  <2> SUFFICES ASSUME TypeOK, CutInv, [Next]_vars
               PROVE  TypeOK' /\ CutInv'
    OBVIOUS
  <2>1. CASE UNCHANGED vars
    BY <2>1 DEF vars, senderVars, historyVars, TypeOK, CutInv
  <2>2. CASE StartRound
    BY <2>2, RoundStep DEF StartRound, historyVars, TypeOK, CutInv
  <2>3. ASSUME NEW n \in DOMAIN sends, AsicSendJob(n)
        PROVE  TypeOK' /\ CutInv'
    BY <2>3, SendType
  <2>4. ASSUME NEW d \in Devices, AsicReadJob(d)
        PROVE  TypeOK' /\ CutInv'
    BY <2>4, ReaderType
  <2>5. QED
    BY <2>1, <2>2, <2>3, <2>4 DEF Next
<1>3. QED
  BY <1>1, <1>2, PTL DEF Spec

(* Every variable keeps the type of the Go value it stands for; in         *)
(* particular a JobID stays on the ring (aonminer.go:485).                 *)
THEOREM TypeCorrect == Spec => []TypeOK
BY TypeInvariant, PTL

-----------------------------------------------------------------------------
(* Pending jobs *)

(* The pending jobs are the end of what was appended, and the last of them *)
(* is the device's latest job.                                             *)
PendingInv ==
  \A d \in Devices :
    /\ IsEnd(pending[d], appended[d])
    /\ pending[d] = appended[d] \/ Len(pending[d]) >= KeepJobs
    /\ \A i \in 1 .. Len(pending[d]) : pending[d][i] \in DOMAIN sends

LatestInv ==
  \A d \in Devices :
    IF latest[d] = NoJob THEN Len(appended[d]) = 0
    ELSE /\ Len(pending[d]) > 0
         /\ sends[pending[d][Len(pending[d])]].job = latest[d]

(* From TakeLatest to the share a pending job has the job the reader took. *)
ReaderInv ==
  \A d \in Devices :
    readers[d].pc \in {"read", "match", "append"} =>
      IF readers[d].job = NoJob THEN pending[d] = appended[d]
      ELSE \E i \in 1 .. Len(pending[d]) :
             sends[pending[d][i]].job = readers[d].job

JobsInv == PendingInv /\ LatestInv /\ ReaderInv

(* Goroutines come and change, but their jobs do not. *)
LEMMA SameJobs ==
  ASSUME TypeOK, JobsInv, UNCHANGED << pending, latest, readers, appended >>,
         DOMAIN sends \subseteq DOMAIN sends',
         \A m \in DOMAIN sends : sends'[m].job = sends[m].job
  PROVE  JobsInv'
<1>1. \A d \in Devices : Len(pending[d]) \in Nat
  BY DEF TypeOK
<1>2. PendingInv'
  BY DEF JobsInv, PendingInv, IsEnd
<1>3. \A d \in Devices : \A i \in 1 .. Len(pending[d]) :
        sends'[pending[d][i]].job = sends[pending[d][i]].job
  BY DEF JobsInv, PendingInv
<1>4. LatestInv'
  BY <1>1, <1>3 DEF JobsInv, LatestInv
<1>5. ReaderInv'
  BY <1>3 DEF JobsInv, ReaderInv
<1>6. QED
  BY <1>2, <1>4, <1>5 DEF JobsInv

(* A job is appended to the pending jobs and to what was appended alike. *)
LEMMA AppendJobs ==
  ASSUME TypeOK, JobsInv, NEW n \in DOMAIN sends, AppendPending(n)
  PROVE  JobsInv'
<1> DEFINE d == sends[n].device
<1>1. /\ d \in Devices /\ sends[n].job # NoJob
      /\ n \in SendNumbers
  <2>1. sends[n] \in Goroutine /\ n \in SendNumbers
    BY AsicAssumption DEF TypeOK, SendNumbers
  <2>2. QED
    BY <2>1 DEF Goroutine, Jobs, NoJob
<1>2. /\ DOMAIN sends' = DOMAIN sends
      /\ \A m \in DOMAIN sends : sends'[m].job = sends[m].job
  BY SendStep DEF AsicSendJob
<1>3. /\ readers' = readers
      /\ pending'[d] = Append(pending[d], n)
      /\ appended'[d] = Append(appended[d], n)
      /\ latest'[d] = sends[n].job
      /\ \A e \in Devices : e # d => /\ pending'[e] = pending[e]
                                     /\ appended'[e] = appended[e]
                                     /\ latest'[e] = latest[e]
  BY <1>1 DEF AppendPending, TypeOK
<1>4. /\ pending[d] \in Seq(SendNumbers) /\ appended[d] \in Seq(SendNumbers)
      /\ \A e \in Devices : Len(pending[e]) \in Nat
  BY <1>1 DEF TypeOK
<1> HIDE DEF d
<1>5. /\ Len(pending'[d]) = Len(pending[d]) + 1
      /\ pending'[d][Len(pending[d]) + 1] = n
      /\ \A i \in 1 .. Len(pending[d]) : pending'[d][i] = pending[d][i]
  BY <1>1, <1>3, <1>4
<1>6. PendingInv'
  <2> SUFFICES ASSUME NEW e \in Devices
               PROVE  /\ IsEnd(pending'[e], appended'[e])
                      /\ \/ pending'[e] = appended'[e]
                         \/ Len(pending'[e]) >= KeepJobs
                      /\ \A i \in 1 .. Len(pending'[e]) :
                           pending'[e][i] \in DOMAIN sends'
    BY DEF PendingInv, IsEnd
  <2>1. CASE e # d
    BY <1>2, <1>3, <2>1 DEF JobsInv, PendingInv
  <2>2. CASE e = d
    <3>1. IsEnd(pending'[d], appended'[d])
      BY <1>1, <1>3, <1>4, AppendToEnd DEF JobsInv, PendingInv
    <3>2. pending'[d] = appended'[d] \/ Len(pending'[d]) >= KeepJobs
      BY <1>1, <1>3, <1>4, <1>5, AsicAssumption DEF JobsInv, PendingInv
    <3>3. \A i \in 1 .. Len(pending'[d]) : pending'[d][i] \in DOMAIN sends'
      BY <1>1, <1>2, <1>4, <1>5 DEF JobsInv, PendingInv
    <3>4. QED
      BY <2>2, <3>1, <3>2, <3>3
  <2>3. QED
    BY <2>1, <2>2
<1>7. \A e \in Devices : \A i \in 1 .. Len(pending[e]) :
        sends'[pending[e][i]].job = sends[pending[e][i]].job
  BY <1>2 DEF JobsInv, PendingInv
<1>8. LatestInv'
  <2> SUFFICES ASSUME NEW e \in Devices
               PROVE  IF latest'[e] = NoJob THEN Len(appended'[e]) = 0
                      ELSE /\ Len(pending'[e]) > 0
                           /\ sends'[pending'[e][Len(pending'[e])]].job
                                = latest'[e]
    BY DEF LatestInv
  <2>1. CASE e # d
    <3>1. /\ latest'[e] = latest[e] /\ appended'[e] = appended[e]
          /\ pending'[e] = pending[e]
      BY <1>3, <2>1
    <3>2. IF latest[e] = NoJob THEN Len(appended[e]) = 0
          ELSE /\ Len(pending[e]) > 0
               /\ sends[pending[e][Len(pending[e])]].job = latest[e]
      BY DEF JobsInv, LatestInv
    <3>3. CASE latest[e] = NoJob
      BY <3>1, <3>2, <3>3
    <3>4. CASE latest[e] # NoJob
      <4>1. Len(pending[e]) \in 1 .. Len(pending[e])
        BY <1>4, <3>2, <3>4
      <4>2. sends'[pending[e][Len(pending[e])]].job = latest[e]
        BY <1>7, <3>2, <3>4, <4>1
      <4>3. QED
        BY <3>1, <3>2, <3>4, <4>2
    <3>5. QED
      BY <3>3, <3>4
  <2>2. CASE e = d
    BY <1>1, <1>2, <1>3, <1>4, <1>5, <2>2
  <2>3. QED
    BY <2>1, <2>2
<1>9. ReaderInv'
  <2> SUFFICES ASSUME NEW e \in Devices,
                      readers[e].pc \in {"read", "match", "append"}
               PROVE  IF readers[e].job = NoJob THEN pending'[e] = appended'[e]
                      ELSE \E i \in 1 .. Len(pending'[e]) :
                             sends'[pending'[e][i]].job = readers[e].job
    BY <1>3 DEF ReaderInv
  <2>1. IF readers[e].job = NoJob THEN pending[e] = appended[e]
        ELSE \E i \in 1 .. Len(pending[e]) :
               sends[pending[e][i]].job = readers[e].job
    BY DEF JobsInv, ReaderInv
  <2>2. CASE readers[e].job = NoJob
    BY <1>3, <2>1, <2>2
  <2>3. CASE readers[e].job # NoJob
    <3>1. PICK i \in 1 .. Len(pending[e]) :
            sends[pending[e][i]].job = readers[e].job
      BY <2>1, <2>3
    <3>2. i \in 1 .. Len(pending'[e]) /\ pending'[e][i] = pending[e][i]
      <4>1. CASE e = d
        <5>1. i \in 1 .. Len(pending[d]) + 1
          BY <1>4, <4>1
        <5>2. QED
          BY <1>5, <4>1, <5>1
      <4>2. CASE e # d
        BY <1>3, <4>2
      <4>3. QED
        BY <4>1, <4>2
    <3>3. QED
      BY <1>7, <2>3, <3>1, <3>2
  <2>4. QED
    BY <2>2, <2>3
<1>10. QED
  BY <1>6, <1>8, <1>9 DEF JobsInv

(* A reader takes the latest job, keeps it until the share, and cuts. *)
LEMMA ReaderJobs ==
  ASSUME TypeOK, CutInv, JobsInv, NEW d \in Devices, AsicReadJob(d)
  PROVE  JobsInv'
<1>1. UNCHANGED << sends, latest, appended >>
  BY DEF AsicReadJob, TakeLatest, ReadAnswer, ReadNothing, CloseDevices,
         MatchAnswer, AppendShare, CheckPending, CutPending, senderVars,
         historyVars
<1>2. \A e \in Devices : /\ pending[e] \in Seq(SendNumbers)
                         /\ appended[e] \in Seq(SendNumbers)
                         /\ Len(pending[e]) \in Nat
                         /\ Len(appended[e]) \in Nat
  BY DEF TypeOK
<1>3. \A e \in Devices : e # d => readers'[e] = readers[e]
  BY ReaderStep DEF TypeOK
<1>4. CASE CutPending(d)
  <2> DEFINE u == SubSeq(pending[d], Len(pending[d]) - KeepJobs + 1,
                         Len(pending[d]))
  <2>1. Len(pending[d]) > KeepJobs
    BY <1>4 DEF CutPending, CutInv
  <2>2. /\ pending'[d] = u
        /\ \A e \in Devices : e # d => pending'[e] = pending[e]
        /\ readers'[d].pc = "look"
    BY <1>4 DEF CutPending, TypeOK, Reader
  <2>3. /\ u \in Seq(SendNumbers) /\ Len(u) = KeepJobs
        /\ IsEnd(u, appended[d])
    BY <1>2, <2>1, CutEnd, AsicAssumption DEF JobsInv, PendingInv
  <2>4. \A i \in 1 .. KeepJobs : u[i] = pending[d][Len(pending[d]) - KeepJobs + i]
    BY <1>2, <2>1, AsicAssumption
  <2>5. \A i \in 1 .. KeepJobs :
          Len(pending[d]) - KeepJobs + i \in 1 .. Len(pending[d])
    BY <1>2, <2>1, AsicAssumption
  <2> HIDE DEF u
  <2>6. PendingInv'
    <3>1. \A i \in 1 .. Len(u) : u[i] \in DOMAIN sends
      BY <2>3, <2>4, <2>5 DEF JobsInv, PendingInv
    <3>2. Len(u) >= KeepJobs
      BY <2>3, AsicAssumption
    <3>3. ASSUME NEW e \in Devices
          PROVE  /\ IsEnd(pending'[e], appended'[e])
                 /\ \/ pending'[e] = appended'[e]
                    \/ Len(pending'[e]) >= KeepJobs
                 /\ \A i \in 1 .. Len(pending'[e]) :
                      pending'[e][i] \in DOMAIN sends'
      <4>1. CASE e = d
        BY <1>1, <2>2, <2>3, <3>1, <3>2, <4>1
      <4>2. CASE e # d
        BY <1>1, <2>2, <4>2 DEF JobsInv, PendingInv
      <4>3. QED
        BY <4>1, <4>2
    <3>4. QED
      BY <3>3 DEF PendingInv, IsEnd
  <2>7. u[Len(u)] = pending[d][Len(pending[d])] /\ Len(u) > 0
    <3>1. Len(pending[d]) - KeepJobs + KeepJobs = Len(pending[d])
      BY <1>2, AsicAssumption
    <3>2. KeepJobs \in 1 .. KeepJobs
      BY AsicAssumption
    <3>3. QED
      BY <2>3, <2>4, <3>1, <3>2, AsicAssumption
  <2>8. LatestInv'
    BY <1>1, <2>2, <2>7 DEF JobsInv, LatestInv
  <2>9. ReaderInv'
    BY <1>1, <1>3, <2>2 DEF JobsInv, ReaderInv
  <2>10. QED
    BY <2>6, <2>8, <2>9 DEF JobsInv
<1>5. CASE ~ CutPending(d)
  <2>1. pending' = pending
    BY <1>5 DEF AsicReadJob, TakeLatest, ReadAnswer, ReadNothing, CloseDevices,
                MatchAnswer, AppendShare, CheckPending
  <2>2. PendingInv' /\ LatestInv'
    BY <1>1, <2>1 DEF JobsInv, PendingInv, LatestInv, IsEnd
  <2>3. \/ readers'[d].pc \notin {"read", "match", "append"}
        \/ readers'[d].job = latest[d]
        \/ /\ readers[d].pc \in {"read", "match", "append"}
           /\ readers'[d].job = readers[d].job
    <3>1. CASE TakeLatest(d)
      BY <3>1 DEF TakeLatest, TypeOK
    <3>2. CASE ReadAnswer(d)
      BY <3>2 DEF ReadAnswer, TypeOK, Reader
    <3>3. CASE ReadNothing(d) \/ AppendShare(d)
      BY <3>3 DEF ReadNothing, AppendShare, AtCheck, TypeOK
    <3>4. CASE CloseDevices(d)
      BY <3>4 DEF CloseDevices, TypeOK, Reader
    <3>5. CASE MatchAnswer(d)
      <4>1. readers[d].pc = "match"
        BY <3>5 DEF MatchAnswer
      <4>2. readers'[d] \in {[readers[d] EXCEPT !.pc = "append"], AtCheck}
        BY <3>5 DEF MatchAnswer, TypeOK
      <4>3. QED
        BY <4>1, <4>2 DEF AtCheck, TypeOK, Reader
    <3>6. CASE CheckPending(d)
      BY <3>6 DEF CheckPending, TypeOK, Reader
    <3>7. QED
      BY <1>5, <3>1, <3>2, <3>3, <3>4, <3>5, <3>6 DEF AsicReadJob
  <2>4. ReaderInv'
    <3> SUFFICES ASSUME NEW e \in Devices,
                        readers'[e].pc \in {"read", "match", "append"}
                 PROVE  IF readers'[e].job = NoJob THEN pending[e] = appended[e]
                        ELSE \E i \in 1 .. Len(pending[e]) :
                               sends[pending[e][i]].job = readers'[e].job
      BY <1>1, <2>1 DEF ReaderInv
    <3>1. CASE e # d
      BY <1>3, <3>1 DEF JobsInv, ReaderInv
    <3>2. CASE e = d /\ readers'[d].job = latest[d]
      <4>1. CASE latest[d] = NoJob
        <5>1. Len(appended[d]) = 0
          BY <4>1 DEF JobsInv, LatestInv
        <5>2. Len(pending[d]) = 0
          <6>1. IsEnd(pending[d], appended[d])
            BY DEF JobsInv, PendingInv
          <6>2. Len(pending[d]) <= Len(appended[d])
            BY <6>1 DEF IsEnd
          <6>3. QED
            BY <1>2, <5>1, <6>2
        <5>3. pending[d] = appended[d]
          BY <1>2, <5>1, <5>2
        <5>4. QED
          BY <3>2, <4>1, <5>3
      <4>2. CASE latest[d] # NoJob
        <5>1. /\ Len(pending[d]) \in 1 .. Len(pending[d])
              /\ sends[pending[d][Len(pending[d])]].job = latest[d]
          BY <1>2, <4>2 DEF JobsInv, LatestInv
        <5>2. QED
          BY <3>2, <4>2, <5>1
      <4>3. QED
        BY <4>1, <4>2
    <3>3. CASE e = d /\ readers'[d].job # latest[d]
      <4>1. /\ readers[d].pc \in {"read", "match", "append"}
            /\ readers'[d].job = readers[d].job
        BY <2>3, <3>3
      <4>2. QED
        BY <3>3, <4>1 DEF JobsInv, ReaderInv
    <3>4. QED
      BY <3>1, <3>2, <3>3
  <2>5. QED
    BY <2>2, <2>4 DEF JobsInv
<1>6. QED
  BY <1>4, <1>5

(* The pending jobs, in every behaviour. *)
LEMMA JobsInvariant == Spec => []JobsInv
<1>1. Init => JobsInv
  <2> SUFFICES ASSUME Init
               PROVE  JobsInv
    OBVIOUS
  <2>1. \A d \in Devices : /\ pending[d] = << >> /\ appended[d] = << >>
                           /\ latest[d] = NoJob /\ readers[d].pc = "look"
    BY DEF Init
  <2>2. Len(<< >>) = 0 /\ IsEnd(<< >>, << >>)
    BY DEF IsEnd
  <2>3. PendingInv
    BY <2>1, <2>2 DEF PendingInv
  <2>4. LatestInv /\ ReaderInv
    BY <2>1, <2>2 DEF LatestInv, ReaderInv
  <2>5. QED
    BY <2>3, <2>4 DEF JobsInv
<1>2. TypeOK /\ CutInv /\ JobsInv /\ [Next]_vars => JobsInv'
  <2> SUFFICES ASSUME TypeOK, CutInv, JobsInv, [Next]_vars
               PROVE  JobsInv'
    OBVIOUS
  <2>1. CASE UNCHANGED vars
    BY <2>1, SameJobs DEF vars, senderVars, historyVars
  <2>2. CASE StartRound
    BY <2>2, RoundStep, SameJobs DEF StartRound, historyVars
  <2>3. ASSUME NEW n \in DOMAIN sends, AsicSendJob(n)
        PROVE  JobsInv'
    <3>1. CASE AppendPending(n)
      BY <3>1, AppendJobs
    <3>2. CASE ~ AppendPending(n)
      <4>1. UNCHANGED << pending, latest, readers, appended >>
        BY <2>3, <3>2 DEF AsicSendJob, LoadJobID, StoreJobID, FetchJobID,
             WriteJob, ResetWriteErrors, WriteFails, CountWriteError, historyVars
      <4>2. QED
        BY <2>3, <4>1, SendStep, SameJobs
    <3>3. QED
      BY <3>1, <3>2
  <2>4. ASSUME NEW d \in Devices, AsicReadJob(d)
        PROVE  JobsInv'
    BY <2>4, ReaderJobs
  <2>5. QED
    BY <2>1, <2>2, <2>3, <2>4 DEF Next
<1>3. QED
  BY <1>1, <1>2, TypeInvariant, PTL DEF Spec

(* No answer about one of the last KeepJobs jobs is dropped, though the    *)
(* pending jobs are counted without AonJobMutex and cut later              *)
(* (aonminer.go:441-445).                                                  *)
THEOREM PendingStaysRecent == Spec => []PendingIsRecent
<1>1. TypeOK /\ JobsInv => PendingIsRecent
  <2> SUFFICES ASSUME TypeOK, JobsInv, NEW d \in Devices
               PROVE  /\ IsSuffix(pending[d], appended[d])
                      /\ \/ pending[d] = appended[d]
                         \/ Len(pending[d]) >= KeepJobs
    BY DEF PendingIsRecent
  <2>1. pending[d] \in Seq(SendNumbers) /\ appended[d] \in Seq(SendNumbers)
    BY DEF TypeOK
  <2>2. QED
    BY <2>1, EndIsSuffix DEF JobsInv, PendingInv
<1>2. QED
  BY <1>1, TypeCorrect, JobsInvariant, PTL

(* A share names the job of a pending job of its device, or none when no   *)
(* job had been sent before (aonminer.go:315-331, 422).                    *)
THEOREM SharesNamePendingJobs == Spec => []ShareNamesPendingJob
<1>1. TypeOK /\ JobsInv => ShareNamesPendingJob
  <2> SUFFICES ASSUME TypeOK, JobsInv, NEW d \in Devices,
                      readers[d].pc = "append"
               PROVE  IF readers[d].job = NoJob THEN pending[d] = appended[d]
                      ELSE \E m \in Range(pending[d]) :
                             sends[m].job = readers[d].job
    BY DEF ShareNamesPendingJob
  <2>1. \A i \in 1 .. Len(pending[d]) : pending[d][i] \in Range(pending[d])
    <3>1. pending[d] \in Seq(SendNumbers)
      BY DEF TypeOK
    <3>2. QED
      BY <3>1 DEF Range
  <2>2. QED
    BY <2>1 DEF JobsInv, ReaderInv
<1>2. QED
  BY <1>1, TypeCorrect, JobsInvariant, PTL

-----------------------------------------------------------------------------
(* The answer and the job of a share *)

(* The answer that is now a share is about a job that is still pending:    *)
(* only this reader cuts the pending jobs of its device.                   *)
MatchedInv ==
  \A d \in Devices :
    readers[d].pc = "append" =>
      \E i \in 1 .. Len(pending[d]) : pending[d][i] = readers[d].answer

LEMMA MatchedAppend ==
  ASSUME TypeOK, MatchedInv, NEW n \in DOMAIN sends, AppendPending(n)
  PROVE  MatchedInv'
<1> DEFINE d == sends[n].device
<1>1. /\ readers' = readers
      /\ pending' = [pending EXCEPT ![d] = Append(@, n)]
      /\ n \in SendNumbers
  BY AsicAssumption DEF AppendPending, TypeOK, SendNumbers
<1>2. \A e \in Devices : pending[e] \in Seq(SendNumbers)
  BY DEF TypeOK
<1> HIDE DEF d
<1>3. \A e \in Devices : pending'[e] \in {pending[e], Append(pending[e], n)}
  BY <1>1 DEF TypeOK
<1>4. ASSUME NEW e \in Devices, NEW i \in 1 .. Len(pending[e])
      PROVE  i \in 1 .. Len(pending'[e]) /\ pending'[e][i] = pending[e][i]
  BY <1>1, <1>2, <1>3
<1>5. QED
  BY <1>1, <1>4 DEF MatchedInv

LEMMA MatchedRead ==
  ASSUME TypeOK, MatchedInv, NEW d \in Devices, AsicReadJob(d)
  PROVE  MatchedInv'
<1>1. \A e \in Devices : e # d => readers'[e] = readers[e]
  BY ReaderStep DEF TypeOK
<1>2. \A e \in Devices : e # d => pending'[e] = pending[e]
  BY DEF AsicReadJob, TakeLatest, ReadAnswer, ReadNothing, CloseDevices,
         MatchAnswer, AppendShare, CheckPending, CutPending, TypeOK
<1>3. ASSUME readers'[d].pc = "append"
      PROVE  \E i \in 1 .. Len(pending'[d]) : pending'[d][i] = readers'[d].answer
  <2>1. MatchAnswer(d)
    BY <1>3 DEF AsicReadJob, TakeLatest, ReadAnswer, ReadNothing, CloseDevices,
                AppendShare, CheckPending, CutPending, AtCheck, TypeOK, Reader
  <2>2. /\ pending' = pending
        /\ readers'[d] = IF \E m \in Range(pending[d]) :
                               IsMatch(readers[d].answer, m)
                         THEN [readers[d] EXCEPT !.pc = "append"] ELSE AtCheck
    BY <2>1 DEF MatchAnswer, TypeOK
  <2>3. /\ readers[d].answer \in Range(pending[d])
        /\ readers'[d] = [readers[d] EXCEPT !.pc = "append"]
    BY <1>3, <2>2 DEF AtCheck, IsMatch
  <2>4. readers'[d].answer = readers[d].answer
    BY <2>3 DEF TypeOK, Reader
  <2>5. pending[d] \in Seq(SendNumbers)
    BY DEF TypeOK
  <2>6. QED
    BY <2>2, <2>3, <2>4, <2>5 DEF Range
<1>4. QED
  BY <1>1, <1>2, <1>3 DEF MatchedInv

LEMMA MatchedInvariant == Spec => []MatchedInv
<1>1. Init => MatchedInv
  BY DEF Init, MatchedInv
<1>2. TypeOK /\ MatchedInv /\ [Next]_vars => MatchedInv'
  <2> SUFFICES ASSUME TypeOK, MatchedInv, [Next]_vars
               PROVE  MatchedInv'
    OBVIOUS
  <2>1. CASE UNCHANGED vars \/ StartRound
    BY <2>1 DEF vars, StartRound, MatchedInv
  <2>2. ASSUME NEW n \in DOMAIN sends, AsicSendJob(n)
        PROVE  MatchedInv'
    <3>1. CASE AppendPending(n)
      BY <3>1, MatchedAppend
    <3>2. CASE ~ AppendPending(n)
      <4>1. UNCHANGED << pending, readers >>
        BY <2>2, <3>2 DEF AsicSendJob, LoadJobID, StoreJobID, FetchJobID,
             WriteJob, ResetWriteErrors, WriteFails, CountWriteError
      <4>2. QED
        BY <4>1 DEF MatchedInv
    <3>3. QED
      BY <3>1, <3>2
  <2>3. ASSUME NEW d \in Devices, AsicReadJob(d)
        PROVE  MatchedInv'
    BY <2>3, MatchedRead
  <2>4. QED
    BY <2>1, <2>2, <2>3 DEF Next
<1>3. QED
  BY <1>1, <1>2, TypeCorrect, PTL DEF Spec

(* A share names the job it was mined for as long as the pending jobs of   *)
(* its device are of one job of the pool (aonminer.go:402-422).  When they *)
(* are not, it need not (ShareNamesItsJob).                                *)
ShareIsRightWithinAJob ==
  \A d \in Devices :
    (/\ readers[d].pc = "append" /\ readers[d].job # NoJob
     /\ \A m, n \in Range(pending[d]) : sends[m].job = sends[n].job)
      => readers[d].job = sends[readers[d].answer].job

(* The answer and the job that is copied for it may each have moved on to  *)
(* another pending job, but not past them (aonminer.go:315-331, 388-422,   *)
(* 441-445).                                                               *)
THEOREM SharesAreRightWithinAJob == Spec => []ShareIsRightWithinAJob
<1>1. TypeOK /\ MatchedInv /\ ShareNamesPendingJob => ShareIsRightWithinAJob
  <2> SUFFICES ASSUME TypeOK, MatchedInv, ShareNamesPendingJob,
                      NEW d \in Devices,
                      readers[d].pc = "append", readers[d].job # NoJob,
                      \A m, n \in Range(pending[d]) : sends[m].job = sends[n].job
               PROVE  readers[d].job = sends[readers[d].answer].job
    BY DEF ShareIsRightWithinAJob
  <2>1. PICK m \in Range(pending[d]) : sends[m].job = readers[d].job
    BY DEF ShareNamesPendingJob
  <2>2. PICK i \in 1 .. Len(pending[d]) : pending[d][i] = readers[d].answer
    BY DEF MatchedInv
  <2>3. readers[d].answer \in Range(pending[d])
    <3>1. pending[d] \in Seq(SendNumbers)
      BY DEF TypeOK
    <3>2. QED
      BY <2>2, <3>1 DEF Range
  <2>4. QED
    BY <2>1, <2>3
<1>2. QED
  BY <1>1, TypeCorrect, MatchedInvariant, SharesNamePendingJobs, PTL

-----------------------------------------------------------------------------
(* The ring of JobIDs *)

(* The JobID after k steps. *)
RingAt(k) == (k * RingStep) % RingSize

(* Quotient and remainder of a natural number. *)
LEMMA Divided ==
  ASSUME NEW d \in Nat \ {0}, NEW s \in Nat
  PROVE  /\ s \div d \in Nat /\ s % d \in 0 .. d - 1
         /\ s = d * (s \div d) + (s % d)
OBVIOUS

(* A number that differs from a remainder by multiples has the same one. *)
LEMMA SameRemainder ==
  ASSUME NEW d \in Nat \ {0}, NEW q \in Nat, NEW r \in 0 .. d - 1
  PROVE  (d * q + r) % d = r
<1> DEFINE s == d * q + r
<1>1. d * q \in Nat /\ s \in Nat
  OBVIOUS
<1> DEFINE p == s \div d
           t == s % d
<1>2. p \in Nat /\ t \in 0 .. d - 1 /\ d * q + r = d * p + t
  BY <1>1, Divided
<1> HIDE DEF p, t
<1>3. d * (q - p) = t - r
  <2>1. d * (q - p) = d * q - d * p
    BY <1>2
  <2>2. d * p \in Nat
    BY <1>2
  <2>3. QED
    BY <1>1, <1>2, <2>1, <2>2
<1>4. q - p = 0
  <2>1. q - p \in Int /\ t - r \in Int /\ t - r < d /\ t - r > -d
    BY <1>2
  <2>2. CASE q - p >= 1
    <3>1. d * (q - p) >= d
      BY <2>1, <2>2
    <3>2. QED
      BY <1>3, <2>1, <3>1
  <2>3. CASE q - p <= -1
    <3>1. d * (q - p) <= -d
      BY <2>1, <2>3
    <3>2. QED
      BY <1>3, <2>1, <3>1
  <2>4. QED
    BY <2>1, <2>2, <2>3
<1>5. t = r
  <2>1. d * (q - p) = 0
    BY <1>4
  <2>2. QED
    BY <1>2, <1>3, <2>1
<1>6. QED
  BY <1>5 DEF t

(* One step on is the next JobID. *)
LEMMA RingNext ==
  ASSUME NEW k \in Nat
  PROVE  /\ RingAt(k) \in JobIDs
         /\ NextJobID(RingAt(k)) = RingAt(k + 1)
<1>1. RingSize \in Nat \ {0} /\ RingStep \in Nat
  BY AsicAssumption
<1> DEFINE a == k * RingStep
           q == a \div RingSize
           r == a % RingSize
<1>2. a \in Nat
  BY <1>1
<1>3. q \in Nat /\ r \in 0 .. RingSize - 1 /\ a = RingSize * q + r
  BY <1>1, <1>2, Divided
<1>4. (k + 1) * RingStep = a + RingStep
  BY <1>1
<1> HIDE DEF a, q, r
<1> DEFINE p == (r + RingStep) \div RingSize
           t == (r + RingStep) % RingSize
<1>5. r + RingStep \in Nat
  BY <1>1, <1>3
<1>6. p \in Nat /\ t \in 0 .. RingSize - 1 /\ r + RingStep = RingSize * p + t
  BY <1>1, <1>5, Divided
<1> HIDE DEF p, t
<1>7. a + RingStep = RingSize * (q + p) + t
  <2>1. RingSize * (q + p) = RingSize * q + RingSize * p
    BY <1>1, <1>3, <1>6
  <2>2. RingSize * q \in Nat /\ RingSize * p \in Nat
    BY <1>1, <1>3, <1>6
  <2>3. QED
    BY <1>1, <1>3, <1>6, <2>1, <2>2
<1>8. (RingSize * (q + p) + t) % RingSize = t
  <2>1. q + p \in Nat
    BY <1>3, <1>6
  <2>2. QED
    BY <1>1, <1>6, <2>1, SameRemainder
<1>9. QED
  BY <1>3, <1>4, <1>7, <1>8 DEF RingAt, NextJobID, JobIDs, a, r, t

(* The first RingSize steps are at different JobIDs, then the ring begins  *)
(* again.                                                                  *)
LEMMA RingRound ==
  /\ \A j, k \in JobIDs : RingAt(j) = RingAt(k) => j = k
  /\ \A i \in JobIDs : \E k \in JobIDs : RingAt(k) = i
  /\ RingAt(0) = 0 /\ RingAt(RingSize) = 0
<1>1. RingSize \in Nat \ {0} /\ RingStep \in Nat
  BY AsicAssumption
<1>2. \A i \in JobIDs : \E k \in JobIDs : RingAt(k) = i
  BY RingAssumption DEF JobIDs, RingAt
<1> DEFINE f == [k \in JobIDs |-> RingAt(k)]
<1>3. f \in Surjection(JobIDs, JobIDs)
  <2>1. \A k \in JobIDs : RingAt(k) \in JobIDs
    BY RingNext, <1>1 DEF JobIDs
  <2>2. f \in [JobIDs -> JobIDs]
    BY <2>1
  <2>3. QED
    BY <1>2, <2>2 DEF Surjection
<1>4. f \in Injection(JobIDs, JobIDs)
  <2>1. IsFiniteSet(JobIDs)
    BY <1>1, FS_Interval DEF JobIDs
  <2>2. QED
    BY <1>3, <2>1, FS_SurjSameCardinalityImpliesInj
<1>5. \A j, k \in JobIDs : RingAt(j) = RingAt(k) => j = k
  BY <1>4 DEF Injection, IsInjective
<1>6. RingAt(0) = 0
  <2>1. 0 * RingStep = RingSize * 0 + 0 /\ 0 \in 0 .. RingSize - 1
    BY <1>1
  <2>2. QED
    BY <1>1, <2>1, SameRemainder DEF RingAt
<1>7. RingAt(RingSize) = 0
  <2>1. RingSize * RingStep = RingSize * RingStep + 0 /\ 0 \in 0 .. RingSize - 1
    BY <1>1
  <2>2. QED
    BY <1>1, <2>1, SameRemainder DEF RingAt
<1>8. QED
  BY <1>2, <1>5, <1>6, <1>7

(* The goroutines that have a JobID for good, by JobID. *)
UsedBy(i) ==
  {n \in DOMAIN sends : /\ sends[n].pc \notin {"load", "store", "fetch"}
                        /\ sends[n].jobID = i}

AtCounter == {n \in DOMAIN sends : sends[n].pc \in {"store", "fetch"}}

(* Each JobID has been used q times, and those of the first r steps of the *)
(* round under way once more.                                              *)
UsedEvenly(q, r) ==
  \A i \in JobIDs :
    Cardinality(UsedBy(i)) =
      q + IF \E k \in 1 .. r : RingAt(k) = i THEN 1 ELSE 0

(* The counter is r steps into the round, or one more when a goroutine has *)
(* stored it and not taken it.                                             *)
CounterAt(r) ==
  /\ \A n \in AtCounter : sends[n].pc = "store" => sends[n].jobID = RingAt(r)
  /\ lastJobID = RingAt(IF \E n \in AtCounter : sends[n].pc = "fetch"
                        THEN r + 1 ELSE r)

RingInv ==
  ~ overlapped =>
    /\ \A m, n \in AtCounter : m = n
    /\ \E q \in Nat, r \in JobIDs : UsedEvenly(q, r) /\ CounterAt(r)

(* The goroutines are numbered, and finitely many have a JobID. *)
LEMMA UsedFinite ==
  ASSUME TypeOK
  PROVE  /\ IsFiniteSet(DOMAIN sends)
         /\ \A i : IsFiniteSet(UsedBy(i)) /\ Cardinality(UsedBy(i)) \in Nat
<1>1. DOMAIN sends = 1 .. Len(sends) /\ Len(sends) \in Nat
  BY DEF TypeOK
<1>2. IsFiniteSet(DOMAIN sends)
  BY <1>1, FS_Interval
<1>3. \A i : UsedBy(i) \subseteq DOMAIN sends
  BY DEF UsedBy
<1>4. QED
  BY <1>2, <1>3, FS_Subset, FS_CardinalityType

(* Steps that are not at the counter leave the ring alone: goroutines come *)
(* at "load", and those with a JobID keep it.                              *)
LEMMA OffTheCounter ==
  ASSUME RingInv, UNCHANGED << lastJobID, overlapped >>,
         DOMAIN sends \subseteq DOMAIN sends',
         \A m \in DOMAIN sends' \ DOMAIN sends : sends'[m].pc = "load",
         \A m \in DOMAIN sends :
           /\ sends'[m].jobID = sends[m].jobID
           /\ \/ sends'[m].pc = sends[m].pc
              \/ /\ sends[m].pc \notin {"load", "store", "fetch"}
                 /\ sends'[m].pc \notin {"load", "store", "fetch"}
  PROVE  RingInv'
<1>1. \A i : UsedBy(i)' = UsedBy(i)
  BY DEF UsedBy
<1>2. /\ AtCounter' = AtCounter
      /\ \A n \in AtCounter : /\ sends'[n].pc = sends[n].pc
                              /\ sends'[n].jobID = sends[n].jobID
  BY DEF AtCounter
<1>3. \A q, r : UsedEvenly(q, r)' <=> UsedEvenly(q, r)
  BY <1>1 DEF UsedEvenly
<1>4. \A r : CounterAt(r)' <=> CounterAt(r)
  BY <1>2 DEF CounterAt
<1>5. QED
  BY <1>2, <1>3, <1>4 DEF RingInv

(* A goroutine that comes to the counter alone reads what it stands at. *)
LEMMA RingLoad ==
  ASSUME TypeOK, RingInv, NEW n \in DOMAIN sends, LoadJobID(n)
  PROVE  RingInv'
<1> SUFFICES ASSUME ~ overlapped'
             PROVE  /\ \A m, k \in AtCounter' : m = k
                    /\ \E q \in Nat, r \in JobIDs : /\ UsedEvenly(q, r)'
                                                    /\ CounterAt(r)'
  BY DEF RingInv
<1>1. /\ ~ overlapped
      /\ \A m \in DOMAIN sends : sends[m].pc \notin {"store", "fetch"}
  BY DEF LoadJobID
<1>2. PICK q \in Nat, r \in JobIDs : UsedEvenly(q, r) /\ CounterAt(r)
  BY <1>1 DEF RingInv
<1>3. /\ DOMAIN sends' = DOMAIN sends
      /\ sends[n].pc = "load"
      /\ sends'[n].pc = "store" /\ sends'[n].jobID = lastJobID
      /\ \A m \in DOMAIN sends : m # n => sends'[m] = sends[m]
      /\ lastJobID' = lastJobID
  <2>1. sends[n] \in Goroutine /\ sends \in Seq(Goroutine)
    BY DEF TypeOK
  <2>2. sends' = [sends EXCEPT ![n] =
                    [sends[n] EXCEPT !.pc = "store", !.jobID = lastJobID]]
    BY <2>1 DEF LoadJobID
  <2>3. sends[n].pc = "load" /\ lastJobID' = lastJobID
    BY DEF LoadJobID
  <2>4. QED
    BY <2>1, <2>2, <2>3 DEF Goroutine
<1>4. AtCounter = {} /\ AtCounter' = {n}
  BY <1>1, <1>3 DEF AtCounter
<1>5. \A i : UsedBy(i)' = UsedBy(i)
  BY <1>3 DEF UsedBy
<1>6. UsedEvenly(q, r)'
  BY <1>2, <1>5 DEF UsedEvenly
<1>7. lastJobID = RingAt(r)
  BY <1>2, <1>4 DEF CounterAt
<1>8. CounterAt(r)'
  BY <1>3, <1>4, <1>7 DEF CounterAt
<1>9. QED
  BY <1>4, <1>6, <1>8

(* It stores the next. *)
LEMMA RingStore ==
  ASSUME TypeOK, RingInv, NEW n \in DOMAIN sends, StoreJobID(n)
  PROVE  RingInv'
<1> SUFFICES ASSUME ~ overlapped'
             PROVE  /\ \A m, k \in AtCounter' : m = k
                    /\ \E q \in Nat, r \in JobIDs : /\ UsedEvenly(q, r)'
                                                    /\ CounterAt(r)'
  BY DEF RingInv
<1>1. ~ overlapped
  BY DEF StoreJobID, historyVars
<1>2. PICK q \in Nat, r \in JobIDs : UsedEvenly(q, r) /\ CounterAt(r)
  BY <1>1 DEF RingInv
<1>3. /\ DOMAIN sends' = DOMAIN sends
      /\ sends[n].pc = "store" /\ sends'[n].pc = "fetch"
      /\ \A m \in DOMAIN sends : m # n => sends'[m] = sends[m]
      /\ lastJobID' = NextJobID(sends[n].jobID)
  <2>1. sends[n] \in Goroutine /\ sends \in Seq(Goroutine)
    BY DEF TypeOK
  <2>2. sends' = [sends EXCEPT ![n] = [sends[n] EXCEPT !.pc = "fetch"]]
    BY <2>1 DEF StoreJobID, GoTo
  <2>3. sends[n].pc = "store" /\ lastJobID' = NextJobID(sends[n].jobID)
    BY DEF StoreJobID, GoTo
  <2>4. QED
    BY <2>1, <2>2, <2>3 DEF Goroutine
<1>4. AtCounter = {n} /\ AtCounter' = {n}
  <2>1. n \in AtCounter /\ n \in AtCounter'
    BY <1>3 DEF AtCounter
  <2>2. \A m \in AtCounter : m = n
    BY <1>1, <2>1 DEF RingInv
  <2>3. \A m \in AtCounter' : m = n
    BY <1>3, <2>2 DEF AtCounter
  <2>4. QED
    BY <2>1, <2>2, <2>3
<1>5. \A i : UsedBy(i)' = UsedBy(i)
  BY <1>3 DEF UsedBy
<1>6. UsedEvenly(q, r)'
  BY <1>2, <1>5 DEF UsedEvenly
<1>7. sends[n].jobID = RingAt(r)
  BY <1>2, <1>3, <1>4 DEF CounterAt
<1>8. r \in Nat
  BY AsicAssumption DEF JobIDs
<1>9. lastJobID' = RingAt(r + 1)
  BY <1>3, <1>7, <1>8, RingNext
<1>10. CounterAt(r)'
  BY <1>3, <1>4, <1>9 DEF CounterAt
<1>11. QED
  BY <1>4, <1>6, <1>10

(* It takes the JobID whose turn it is; with the last one the round is     *)
(* full and the next begins.                                               *)
LEMMA RingFetch ==
  ASSUME TypeOK, RingInv, NEW n \in DOMAIN sends, FetchJobID(n)
  PROVE  RingInv'
<1> SUFFICES ASSUME ~ overlapped'
             PROVE  /\ \A m, k \in AtCounter' : m = k
                    /\ \E q \in Nat, r \in JobIDs : /\ UsedEvenly(q, r)'
                                                    /\ CounterAt(r)'
  BY DEF RingInv
<1>1. ~ overlapped
  BY DEF FetchJobID, historyVars
<1>2. PICK q \in Nat, r \in JobIDs : UsedEvenly(q, r) /\ CounterAt(r)
  BY <1>1 DEF RingInv
<1>3. /\ DOMAIN sends' = DOMAIN sends
      /\ sends[n].pc = "fetch" /\ sends'[n].pc = "write"
      /\ sends'[n].jobID = lastJobID
      /\ \A m \in DOMAIN sends : m # n => sends'[m] = sends[m]
      /\ lastJobID' = lastJobID
  <2>1. sends[n] \in Goroutine /\ sends \in Seq(Goroutine)
    BY DEF TypeOK
  <2>2. sends' = [sends EXCEPT ![n] =
                    [sends[n] EXCEPT !.pc = "write", !.jobID = lastJobID]]
    BY <2>1 DEF FetchJobID
  <2>3. sends[n].pc = "fetch" /\ lastJobID' = lastJobID
    BY DEF FetchJobID
  <2>4. QED
    BY <2>1, <2>2, <2>3 DEF Goroutine
<1>4. AtCounter = {n} /\ AtCounter' = {}
  <2>1. n \in AtCounter
    BY <1>3 DEF AtCounter
  <2>2. \A m \in AtCounter : m = n
    BY <1>1, <2>1 DEF RingInv
  <2>3. AtCounter' = {}
    BY <1>3, <2>2 DEF AtCounter
  <2>4. QED
    BY <2>1, <2>2, <2>3
<1>5. RingSize \in Nat \ {0} /\ r \in Nat /\ r <= RingSize - 1
  BY AsicAssumption DEF JobIDs
<1> DEFINE now == RingAt(r + 1)
<1>6. lastJobID = now /\ now \in JobIDs
  <2>1. lastJobID = now
    BY <1>2, <1>3, <1>4 DEF CounterAt
  <2>2. now \in JobIDs
    BY <1>5, RingNext
  <2>3. QED
    BY <2>1, <2>2
<1> HIDE DEF now
<1>7. /\ \A i : i # now => UsedBy(i)' = UsedBy(i)
      /\ UsedBy(now)' = UsedBy(now) \cup {n}
      /\ n \notin UsedBy(now)
  BY <1>3, <1>6 DEF UsedBy
<1>8. \A i : Cardinality(UsedBy(i))'
               = Cardinality(UsedBy(i)) + IF i = now THEN 1 ELSE 0
  BY <1>7, UsedFinite, FS_AddElement
<1>9. \A i \in JobIDs : (\E k \in 1 .. r : RingAt(k) = i) \/ i = now
                         <=> \E k \in 1 .. r + 1 : RingAt(k) = i
  <2>1. 1 .. r + 1 = 1 .. r \cup {r + 1}
    BY <1>5
  <2>2. QED
    BY <2>1 DEF now
<1>10. ~ \E k \in 1 .. r : RingAt(k) = now
  <2> SUFFICES ASSUME NEW k \in 1 .. r, RingAt(k) = now
               PROVE  FALSE
    OBVIOUS
  <2>1. k \in JobIDs /\ k # 0 /\ k # r + 1
    BY <1>5 DEF JobIDs
  <2>2. CASE r + 1 = RingSize
    <3>1. RingAt(k) = RingAt(0) /\ 0 \in JobIDs
      BY <1>5, <2>2, RingRound DEF JobIDs, now
    <3>2. QED
      BY <2>1, <3>1, RingRound
  <2>3. CASE r + 1 # RingSize
    <3>1. RingAt(k) = RingAt(r + 1) /\ r + 1 \in JobIDs
      BY <1>5, <2>3 DEF JobIDs, now
    <3>2. QED
      BY <2>1, <3>1, RingRound
  <2>4. QED
    BY <2>2, <2>3
<1>11. \A i \in JobIDs :
         Cardinality(UsedBy(i))' =
           q + IF \E k \in 1 .. r + 1 : RingAt(k) = i THEN 1 ELSE 0
  <2> SUFFICES ASSUME NEW i \in JobIDs
               PROVE  Cardinality(UsedBy(i))' =
                        q + IF \E k \in 1 .. r + 1 : RingAt(k) = i THEN 1 ELSE 0
    OBVIOUS
  <2>1. Cardinality(UsedBy(i)) =
          q + IF \E k \in 1 .. r : RingAt(k) = i THEN 1 ELSE 0
    BY <1>2 DEF UsedEvenly
  <2>2. CASE i = now
    BY <1>8, <1>9, <1>10, <2>1, <2>2
  <2>3. CASE i # now
    BY <1>8, <1>9, <2>1, <2>3
  <2>4. QED
    BY <2>2, <2>3
<1>12. CASE r + 1 # RingSize
  <2>1. r + 1 \in JobIDs
    BY <1>5, <1>12 DEF JobIDs
  <2>2. UsedEvenly(q, r + 1)'
    BY <1>11 DEF UsedEvenly
  <2>3. CounterAt(r + 1)'
    BY <1>3, <1>4, <1>6 DEF CounterAt, now
  <2>4. QED
    BY <1>4, <2>1, <2>2, <2>3
<1>13. CASE r + 1 = RingSize
  <2>1. \A i \in JobIDs : \E k \in 1 .. r + 1 : RingAt(k) = i
    <3> SUFFICES ASSUME NEW i \in JobIDs
                 PROVE  \E k \in 1 .. RingSize : RingAt(k) = i
      BY <1>13
    <3>1. PICK k \in JobIDs : RingAt(k) = i
      BY RingRound
    <3>2. CASE k = 0
      <4>1. RingSize \in 1 .. RingSize /\ RingAt(RingSize) = i
        BY <1>5, <3>1, <3>2, RingRound
      <4>2. QED
        BY <4>1
    <3>3. CASE k # 0
      <4>1. k \in 1 .. RingSize
        BY <1>5, <3>3 DEF JobIDs
      <4>2. QED
        BY <3>1, <4>1
    <3>4. QED
      BY <3>2, <3>3
  <2>2. \A i \in JobIDs : Cardinality(UsedBy(i))' = q + 1
    BY <1>11, <2>1
  <2>3. q + 1 \in Nat /\ 0 \in JobIDs /\ 1 .. 0 = {} /\ (q + 1) + 0 = q + 1
    BY <1>5 DEF JobIDs
  <2>4. UsedEvenly(q + 1, 0)'
    BY <2>2, <2>3 DEF UsedEvenly
  <2>5. lastJobID = RingAt(0)
    BY <1>6, <1>13, RingRound DEF now
  <2>6. CounterAt(0)'
    BY <1>3, <1>4, <2>5 DEF CounterAt
  <2>7. QED
    BY <1>4, <2>3, <2>4, <2>6
<1>14. QED
  BY <1>12, <1>13

(* The ring, in every behaviour. *)
LEMMA RingInvariant == Spec => []RingInv
<1>1. Init => RingInv
  <2> SUFFICES ASSUME Init
               PROVE  RingInv
    OBVIOUS
  <2>1. sends = << >> /\ lastJobID = 0
    BY DEF Init
  <2>2. AtCounter = {} /\ \A i : UsedBy(i) = {}
    BY <2>1 DEF AtCounter, UsedBy
  <2>3. 0 \in JobIDs /\ 1 .. 0 = {}
    BY AsicAssumption DEF JobIDs
  <2>4. UsedEvenly(0, 0)
    BY <2>2, <2>3, FS_EmptySet DEF UsedEvenly
  <2>5. CounterAt(0)
    BY <2>1, <2>2, RingRound DEF CounterAt
  <2>6. QED
    BY <2>2, <2>3, <2>4, <2>5 DEF RingInv
<1>2. TypeOK /\ RingInv /\ [Next]_vars => RingInv'
  <2> SUFFICES ASSUME TypeOK, RingInv, [Next]_vars
               PROVE  RingInv'
    OBVIOUS
  <2>1. CASE UNCHANGED << sends, lastJobID, overlapped >>
    BY <2>1, OffTheCounter
  <2>2. CASE StartRound
    <3> DEFINE round == [i \in 1 .. NumDevices |->
                           [device |-> i - 1, job |-> job', pc |-> "load",
                            jobID |-> 0, written |-> FALSE]]
    <3>1. sends' = sends \o round /\ UNCHANGED << lastJobID, overlapped >>
      BY <2>2 DEF StartRound, historyVars
    <3>2. \A i \in 1 .. NumDevices : round[i].pc = "load"
      OBVIOUS
    <3>3. sends \in Seq(Goroutine) /\ NumDevices \in Nat
      BY AsicAssumption DEF TypeOK
    <3>4. Len(round) = NumDevices /\ \E S : round \in Seq(S)
      <4> DEFINE S == {round[i] : i \in 1 .. NumDevices}
      <4>1. \A i \in 1 .. NumDevices : round[i] \in S
        OBVIOUS
      <4>2. round = [i \in 1 .. NumDevices |-> round[i]]
        OBVIOUS
      <4> HIDE DEF round, S
      <4>3. round \in Seq(S) /\ Len(round) = NumDevices
        BY <3>3, <4>1, <4>2
      <4>4. QED
        BY <4>3
    <3> HIDE DEF round
    <3>5. /\ DOMAIN sends \subseteq DOMAIN sends'
          /\ \A m \in DOMAIN sends : sends'[m] = sends[m]
          /\ \A m \in DOMAIN sends' \ DOMAIN sends :
               /\ m - Len(sends) \in 1 .. NumDevices
               /\ sends'[m] = round[m - Len(sends)]
      BY <3>1, <3>3, <3>4
    <3>6. QED
      BY <3>1, <3>2, <3>5, OffTheCounter
  <2>3. ASSUME NEW n \in DOMAIN sends, AsicSendJob(n)
        PROVE  RingInv'
    <3>1. CASE LoadJobID(n)
      BY <3>1, RingLoad
    <3>2. CASE StoreJobID(n)
      BY <3>2, RingStore
    <3>3. CASE FetchJobID(n)
      BY <3>3, RingFetch
    <3>4. CASE WriteJob(n) \/ ResetWriteErrors(n) \/ WriteFails(n)
                 \/ CountWriteError(n) \/ AppendPending(n)
      <4>1. UNCHANGED << lastJobID, overlapped >>
        BY <3>4 DEF WriteJob, ResetWriteErrors, WriteFails, CountWriteError,
                    AppendPending, historyVars
      <4>2. /\ DOMAIN sends' = DOMAIN sends
            /\ sends[n].pc \notin {"load", "store", "fetch"}
            /\ sends'[n].pc \notin {"load", "store", "fetch"}
            /\ sends'[n].jobID = sends[n].jobID
            /\ \A m \in DOMAIN sends : m # n => sends'[m] = sends[m]
        <5>1. sends[n] \in Goroutine /\ sends \in Seq(Goroutine)
          BY DEF TypeOK
        <5>2. CASE WriteJob(n)
          <6>1. /\ sends[n].pc = "write"
                /\ sends' = [sends EXCEPT ![n] =
                               [sends[n] EXCEPT !.pc = "reset", !.written = TRUE]]
            BY <5>1, <5>2 DEF WriteJob
          <6>2. QED
            BY <5>1, <6>1 DEF Goroutine
        <5>3. CASE ~ WriteJob(n)
          <6>1. PICK to \in {"append", "failed", "done"} :
                  sends' = [sends EXCEPT ![n] = [sends[n] EXCEPT !.pc = to]]
            BY <3>4, <5>1, <5>3 DEF ResetWriteErrors, WriteFails,
                 CountWriteError, AppendPending, GoTo
          <6>2. sends[n].pc \in {"reset", "write", "failed", "append"}
            BY <3>4, <5>3 DEF ResetWriteErrors, WriteFails, CountWriteError,
                 AppendPending, GoTo
          <6>3. QED
            BY <5>1, <6>1, <6>2 DEF Goroutine
        <5>4. QED
          BY <5>2, <5>3
      <4>3. QED
        BY <4>1, <4>2, OffTheCounter
    <3>5. QED
      BY <2>3, <3>1, <3>2, <3>3, <3>4 DEF AsicSendJob
  <2>4. ASSUME NEW d \in Devices, AsicReadJob(d)
        PROVE  RingInv'
    <3>1. UNCHANGED << sends, lastJobID, overlapped >>
      BY <2>4 DEF AsicReadJob, TakeLatest, ReadAnswer, ReadNothing,
                  CloseDevices, MatchAnswer, AppendShare, CheckPending,
                  CutPending, senderVars, historyVars
    <3>2. QED
      BY <2>1, <3>1
  <2>5. QED
    BY <2>1, <2>2, <2>3, <2>4 DEF Next, vars, senderVars, historyVars
<1>3. QED
  BY <1>1, <1>2, TypeCorrect, PTL DEF Spec

(* The JobIDs are used evenly, in the order of the ring, until two         *)
(* goroutines are at LastJobID together (aonminer.go:485-490): a JobID     *)
(* comes again only when every other has had its turn.                     *)
THEOREM JobIDsStayEven == Spec => []JobIDsGoRound
<1>1. TypeOK /\ RingInv => JobIDsGoRound
  <2> SUFFICES ASSUME RingInv, ~ overlapped, NEW i \in JobIDs, NEW j \in JobIDs
               PROVE  Cardinality(UsedBy(i)) <= Cardinality(UsedBy(j)) + 1
    BY DEF JobIDsGoRound, UsedBy
  <2>1. PICK q \in Nat, r \in JobIDs : UsedEvenly(q, r)
    BY DEF RingInv
  <2>2. QED
    BY <2>1 DEF UsedEvenly
<1>2. QED
  BY <1>1, TypeCorrect, RingInvariant, PTL
=============================================================================
