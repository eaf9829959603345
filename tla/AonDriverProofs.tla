-------------------------- MODULE AonDriverProofs --------------------------
(***************************************************************************)
(* Theorems about AonDriver and their proofs, for any ports and any number *)
(* of scans.  The handles a scan finds are new, so the handles that are    *)
(* known can be counted: stratumJobBuffer is as long as they are many.     *)
(***************************************************************************)
EXTENDS AonDriver, FiniteSetTheorems, TLAPS

-----------------------------------------------------------------------------
(* Finite sets of handles, and sequences without repetition *)

LEMMA HandlesAreFinite ==
  IsFiniteSet(Handles) /\ Cardinality(Handles) \in Nat
<1> DEFINE pair == [h \in Handles |-> << h.port, h.scan >>]
<1>1. IsFiniteSet(Ports \X Scans)
  <2>1. IsFiniteSet(Scans)
    BY DriverAssumption, FS_Interval DEF Scans
  <2>2. QED
    BY <2>1, DriverAssumption, FS_Product
<1>2. pair \in Injection(Handles, Ports \X Scans)
  <2>1. pair \in [Handles -> Ports \X Scans]
    BY DEF Handles
  <2>2. ASSUME NEW g \in Handles, NEW h \in Handles, pair[g] = pair[h]
        PROVE  g = h
    BY <2>2 DEF Handles
  <2>3. QED
    BY <2>1, <2>2 DEF Injection, IsInjective
<1>3. QED
  BY <1>1, <1>2, FS_Injection, FS_CardinalityType

(* A set of handles is finite, and a part of it is no larger. *)
LEMMA FiniteSubsets ==
  ASSUME NEW S \in SUBSET Handles, NEW T \in SUBSET S
  PROVE  /\ IsFiniteSet(S) /\ Cardinality(S) \in Nat
         /\ IsFiniteSet(T) /\ Cardinality(T) \in Nat
         /\ Cardinality(T) <= Cardinality(S)
         /\ Cardinality(S) <= Cardinality(Handles)
<1>1. IsFiniteSet(S) /\ Cardinality(S) <= Cardinality(Handles)
  BY HandlesAreFinite, FS_Subset
<1>2. QED
  BY <1>1, FS_Subset, FS_CardinalityType

(* A scan finds a port once. *)
LEMMA HandlesOfOneScan ==
  ASSUME NEW s, NEW S \in SUBSET {h \in Handles : h.scan = s}
  PROVE  Cardinality(S) <= Cardinality(Ports) /\ Cardinality(Ports) \in Nat
<1> DEFINE port == [h \in S |-> h.port]
<1>1. port \in Injection(S, Ports)
  <2>1. port \in [S -> Ports]
    BY DEF Handles
  <2>2. ASSUME NEW g \in S, NEW h \in S, port[g] = port[h]
        PROVE  g = h
    BY <2>2 DEF Handles
  <2>3. QED
    BY <2>1, <2>2 DEF Injection, IsInjective
<1>2. QED
  BY <1>1, DriverAssumption, FS_Injection, FS_CardinalityType

(* A sequence without repetition is as long as its range is large. *)
LEMMA LengthIsBounded ==
  ASSUME NEW S \in SUBSET Handles, NEW c \in Seq(Handles), IsInjective(c),
         Range(c) \subseteq S
  PROVE  Len(c) <= Cardinality(S) /\ Cardinality(S) <= Cardinality(Handles)
<1>1. c \in Injection(1 .. Len(c), S)
  BY DEF Injection, Range
<1>2. IsFiniteSet(S) /\ Cardinality(S) <= Cardinality(Handles)
  BY FiniteSubsets
<1>3. Len(c) \in Nat /\ Cardinality(1 .. Len(c)) = Len(c)
  <2>1. Len(c) \in Nat
    OBVIOUS
  <2>2. QED
    BY <2>1, FS_Interval
<1>4. QED
  BY <1>1, <1>2, <1>3, FS_Injection

LEMMA AppendKeepsInjective ==
  ASSUME NEW c \in Seq(Handles), IsInjective(c),
         NEW h \in Handles, h \notin Range(c)
  PROVE  /\ Append(c, h) \in Seq(Handles)
         /\ IsInjective(Append(c, h))
         /\ Range(Append(c, h)) = Range(c) \cup {h}
<1> DEFINE d == Append(c, h)
<1>1. /\ d \in Seq(Handles)
      /\ DOMAIN d = DOMAIN c \cup {Len(c) + 1}
      /\ \A i \in DOMAIN c : d[i] = c[i]
      /\ d[Len(c) + 1] = h
      /\ Len(c) + 1 \notin DOMAIN c
  OBVIOUS
<1> HIDE DEF d
<1>2. \A i \in DOMAIN c : c[i] \in Range(c) /\ c[i] # h
  BY DEF Range
<1>3. IsInjective(d)
  BY <1>1, <1>2 DEF IsInjective
<1>4. Range(d) = Range(c) \cup {h}
  BY <1>1, <1>2 DEF Range
<1>5. QED
  BY <1>1, <1>3, <1>4 DEF d

LEMMA EmptyIsInjective ==
  << >> \in Seq(Handles) /\ IsInjective(<< >>) /\ Range(<< >>) = {}
  /\ Len(<< >>) = 0
BY DEF IsInjective, Range

-----------------------------------------------------------------------------
(* The invariant *)

(* The handles that some scan has found, *)
Known == {h \in Handles : inits[h].pc # "none"}

(* those whose init goroutine has ended, *)
Connected == {h \in Handles : inits[h].pc = "done"}

(* those whose init goroutine is under way, *)
InFlight ==
  {h \in Handles :
     inits[h].pc \in {"init", "counting", "counted", "appending"}}

(* and those of the last scan that have been counted. *)
Counted ==
  {h \in Handles : /\ h.scan = scans
                   /\ inits[h].pc \in {"counted", "appending", "done"}}

(* What AonMiner keeps for a round or a scan is reset at its end. *)
RoundInv ==
  /\ minerPc \notin {"sending", "returned"} => sent = 0 /\ rangeTo = 0
  /\ minerPc \notin {"wait", "finish"} => devices = {}
  /\ minerPc = "wait" => scans # 0 /\ devices # {}
  /\ minerPc = "toggled" => toClose # << >>

(* A device is appended once, after all else that is done for it. *)
ConnInv ==
  /\ IsInjective(conn)
  /\ Range(conn) \subseteq Connected
  /\ \A h \in Handles : /\ IsInjective(inits[h].conn)
                        /\ Range(inits[h].conn) \subseteq Connected

(* Only the last scan has goroutines under way. *)
ScanInv ==
  /\ \A h \in Known : h.scan <= scans
  /\ \A h \in InFlight : h.scan = scans
  /\ \A s \in Scans : /\ readAll[s] # "none" => s <= scans
                      /\ readAll[s] \in {"none", "done"} \/ s = scans

(* The buffer has room for all the handles of the scans that are over. *)
CountInv ==
  /\ devices \subseteq Known
  /\ Cardinality(Known) = bufferLen + Cardinality(devices)

(* No device is counted before its turn. *)
InitCountInv ==
  /\ initialized <= Cardinality(Counted)
  /\ \A h \in Handles :
       inits[h].pc = "counting" => inits[h].count <= Cardinality(Counted)

(* Where appends do not overlap, no device is lost. *)
OpenInv ==
  ~ raced =>
    /\ \A h, g \in Handles : inits[h].pc = "appending" =>
         /\ inits[h].conn = conn
         /\ inits[g].pc = "appending" => g = h
    /\ NoDeviceLost

Orderly == ~ raced /\ ~ late

(* Where each device is connected before its scan ends, a scan finds       *)
(* nothing connected, and the readers of its devices are the only ones.    *)
ReadInv ==
  Orderly =>
    /\ \A h \in InFlight : minerPc = "wait" /\ h \in devices
    /\ minerPc = "wait" => readAll[scans] = "none"
    /\ \A h \in devices : h.scan = scans
    /\ conn # << >> =>
         /\ \A h \in Range(conn) : h.scan = scans
         /\ minerPc \notin {"scan", "wait", "finish"} => counted = Len(conn)
         /\ minerPc # "scan"
    /\ minerPc = "finish" /\ devices = {} => conn = << >>
    /\ \A h \in Connected :
         readAll[h.scan] # "none" \/ (minerPc = "wait" /\ h.scan = scans)
    /\ \A r \in readers : r.handle.scan = r.by /\ readAll[r.by] = "done"
    /\ \A r, q \in readers : r.handle = q.handle => r = q
    /\ \A h \in Range(conn) :
         readAll[h.scan] = "done" => \E r \in readers : r.handle = h

IInv ==
  /\ TypeOK
  /\ RoundInv
  /\ ConnInv
  /\ ScanInv
  /\ CountInv
  /\ InitCountInv
  /\ OpenInv
  /\ ReadInv

(* What the sizes of the sets of handles say of the variables. *)
LEMMA Sizes ==
  ASSUME TypeOK, ConnInv
  PROVE  /\ Len(conn) \in Nat
         /\ Len(conn) <= Cardinality(Known)
         /\ Len(conn) <= Cardinality(Handles)
         /\ Cardinality(Known) \in Nat
         /\ Cardinality(Known) <= Cardinality(Handles)
         /\ Cardinality(Handles) \in Nat
         /\ IsFiniteSet(devices) /\ Cardinality(devices) \in Nat
         /\ Cardinality(Ports) \in Nat
<1>1. conn \in Seq(Handles) /\ devices \in SUBSET Handles
  BY DEF TypeOK
<1>2. Known \in SUBSET Handles /\ Connected \in SUBSET Known
  BY DEF Known, Connected
<1>3. Len(conn) <= Cardinality(Known)
  BY <1>1, <1>2, LengthIsBounded DEF ConnInv
<1>4. /\ Cardinality(Known) <= Cardinality(Handles)
      /\ Cardinality(Known) \in Nat
  BY <1>2, FiniteSubsets
<1>5. IsFiniteSet(devices) /\ Cardinality(devices) \in Nat
  BY <1>1, FiniteSubsets
<1>6. Len(conn) \in Nat
  BY <1>1
<1>7. QED
  BY <1>3, <1>4, <1>5, <1>6, HandlesAreFinite, DriverAssumption,
     FS_CardinalityType

(* A goroutine that is about to count its device is not counted yet. *)
LEMMA CountBelowPorts ==
  ASSUME TypeOK, ScanInv, InitCountInv, NEW h \in Handles,
         inits[h].pc = "counting"
  PROVE  /\ inits[h].count \in Nat
         /\ inits[h].count + 1 <= Cardinality(Counted \cup {h})
         /\ inits[h].count + 1 \in 0 .. Cardinality(Ports)
<1>1. Counted \in SUBSET Handles /\ h \notin Counted
  BY DEF Counted
<1>2. Counted \cup {h} \in SUBSET {g \in Handles : g.scan = scans}
  BY DEF Counted, ScanInv, InFlight
<1>3. /\ Cardinality(Counted \cup {h}) <= Cardinality(Ports)
      /\ Cardinality(Ports) \in Nat
  BY <1>2, HandlesOfOneScan
<1>4. Cardinality(Counted \cup {h}) = Cardinality(Counted) + 1
  BY <1>1, FiniteSubsets, FS_AddElement
<1>5. Cardinality(Counted) \in Nat
  BY <1>1, FiniteSubsets
<1>6. inits[h].count \in 0 .. Cardinality(Ports)
  BY DEF TypeOK
<1>7. inits[h].count <= Cardinality(Counted)
  BY DEF InitCountInv
<1>8. QED
  BY <1>3, <1>4, <1>5, <1>6, <1>7

-----------------------------------------------------------------------------
(* Types *)

LEMMA TypeStep ==
  ASSUME IInv, Next
  PROVE  TypeOK'
<1>0. TypeOK /\ RoundInv /\ ConnInv /\ ScanInv /\ CountInv /\ InitCountInv
  BY DEF IInv
<1>1. /\ Len(conn) \in Nat
      /\ Len(conn) <= Cardinality(Handles)
      /\ Cardinality(Known) \in Nat
      /\ Cardinality(Known) <= Cardinality(Handles)
      /\ Cardinality(Handles) \in Nat
      /\ IsFiniteSet(devices) /\ Cardinality(devices) \in Nat
      /\ Cardinality(Ports) \in Nat
  BY <1>0, Sizes
<1>2. CASE LookAtDone
  BY <1>0, <1>2 DEF LookAtDone, closingRest, GoTo, TypeOK, initVars,
       readVars, lenVars, historyVars
<1>3. CASE Scan
  <2>1. PICK found \in SUBSET (Ports \ {h.port : h \in open}) :
          LET new == {[port |-> p, scan |-> scans + 1] : p \in found}
          IN  /\ GoTo("scan", IF found = {} THEN "finish" ELSE "wait")
              /\ found # {} => scans < MaxScans
              /\ devices' = new
              /\ open' = open \cup new
              /\ scans' = IF found = {} THEN scans ELSE scans + 1
              /\ initialized' = 0
              /\ inits' = [h \in Handles |->
                             IF h \in new THEN [inits[h] EXCEPT !.pc = "init"]
                             ELSE inits[h]]
              /\ UNCHANGED << counted, bufferLen, rangeTo, sent, toClose,
                              conn, bare, readVars, jobsSent, endVars,
                              historyVars >>
    BY <1>3 DEF Scan
  <2> DEFINE new == {[port |-> p, scan |-> scans + 1] : p \in found}
  <2>2. scans' \in 0 .. MaxScans
    BY <1>0, <2>1, DriverAssumption DEF TypeOK
  <2>3. new \subseteq Handles
    BY <1>0, <2>1, DriverAssumption DEF TypeOK, Handles, Scans
  <2>4. devices' \subseteq Handles /\ open' \subseteq Handles
    BY <1>0, <2>1, <2>3 DEF TypeOK
  <2>5. inits' \in [Handles ->
                      [pc : {"none", "init", "counting", "counted",
                             "appending", "done"},
                       count : 0 .. Cardinality(Ports), conn : Seq(Handles)]]
    BY <1>0, <2>1 DEF TypeOK
  <2>6. initialized' \in 0 .. Cardinality(Ports)
    BY <1>1, <2>1
  <2>7. QED
    BY <1>0, <2>1, <2>2, <2>4, <2>5, <2>6 DEF GoTo, TypeOK, readVars, lenVars,
         endVars, historyVars
<1>4. CASE AwaitInit
  <2>1. scans \in Scans
    BY <1>0, <1>4, DriverAssumption DEF AwaitInit, GoTo, RoundInv, TypeOK,
         Scans
  <2>2. QED
    BY <1>0, <1>4, <2>1 DEF AwaitInit, GoTo, TypeOK, initVars, lenVars, endVars
<1>5. CASE FinishScan
  <2>1. counted' \in -1 .. Cardinality(Handles)
    BY <1>1, <1>5 DEF FinishScan
  <2>2. bufferLen' \in 0 .. Cardinality(Handles)
    BY <1>0, <1>1, <1>5 DEF FinishScan, CountInv, TypeOK
  <2>3. QED
    BY <1>0, <1>5, <2>1, <2>2 DEF FinishScan, GoTo, TypeOK, minerRest,
         initVars, readVars, lenVars, historyVars
<1>6. CASE CopyJobs \/ CopyBlocks
  BY <1>0, <1>6 DEF CopyJobs, CopyBlocks, GoTo, TypeOK, minerRest, initVars,
       readVars, lenVars, historyVars
<1>7. CASE StartSending
  <2>1. sent = 0
    BY <1>0, <1>7 DEF StartSending, GoTo, RoundInv
  <2>2. rangeTo' \in 0 .. Cardinality(Handles) /\ sent' \in 0 .. rangeTo'
    BY <1>1, <1>7, <2>1 DEF StartSending
  <2>3. QED
    BY <1>0, <1>7, <2>2 DEF StartSending, GoTo, TypeOK, minerRest, initVars,
         readVars, lenVars, historyVars
<1>8. CASE SendJob
  <2>1. CASE sent < Len(conn)
    <3>1. /\ sent' \in {sent, sent + 1} /\ sent < rangeTo
          /\ jobsSent' = TRUE
          /\ UNCHANGED << minerPc, counted, devices, bufferLen, rangeTo, toClose,
                          conn, open, bare, initVars, readVars, endVars,
                          historyVars >>
      BY <1>0, <1>1, <1>8, <2>1 DEF SendJob, TypeOK
    <3>2. sent' \in 0 .. rangeTo'
      BY <1>0, <1>1, <3>1 DEF TypeOK
    <3>3. QED
      BY <1>0, <3>1, <3>2 DEF TypeOK, initVars, readVars, lenVars, endVars,
         historyVars
  <2>2. CASE Panic
    BY <1>0, <2>2 DEF Panic, Crash, TypeOK, minerVars, minerRest, initVars,
         readVars, lenVars, historyVars
  <2>3. QED
    BY <1>8, <2>1, <2>2 DEF SendJob
<1>9. CASE FinishRound
  BY <1>0, <1>1, <1>9 DEF FinishRound, GoTo, TypeOK, minerRest, initVars,
       readVars, lenVars, historyVars
<1>10. CASE CloseOnDone
  <2>1. CASE ToggleFails("closing") \/ ToggleFails("toggled")
    BY <1>0, <2>1 DEF ToggleFails, Crash, TypeOK, minerVars, initVars,
         readVars, lenVars, historyVars
  <2>2. CASE ToggleRTS \/ FinishClosing
    BY <1>0, <2>2 DEF ToggleRTS, FinishClosing, GoTo, TypeOK, closingRest,
       initVars, readVars, lenVars, historyVars
  <2>3. CASE CloseDevice
    <3>1. toClose' \in Seq(Handles)
      <4>1. toClose # << >>
        BY <1>0, <2>3 DEF RoundInv, CloseDevice, GoTo
      <4>2. QED
        BY <1>0, <2>3, <4>1 DEF CloseDevice, TypeOK
    <3>2. open' \subseteq Handles
      BY <1>0, <2>3 DEF CloseDevice, TypeOK
    <3>3. QED
      BY <1>0, <2>3, <3>1, <3>2 DEF CloseDevice, GoTo, TypeOK, closingRest,
         initVars, readVars, lenVars, historyVars
  <2>4. QED
    BY <1>10, <2>1, <2>2, <2>3 DEF CloseOnDone
<1>11. ASSUME NEW h \in Handles, InitGoroutine(h)
       PROVE  TypeOK'
  <2>1. CASE LoadCount(h)
    BY <1>0, <2>1 DEF LoadCount, InitAt, TypeOK, initRest, minerVars, readVars,
         lenVars, endVars
  <2>2. CASE StoreCount(h)
    <3>1. initialized' \in 0 .. Cardinality(Ports)
      BY <1>0, <2>2, CountBelowPorts DEF StoreCount, InitAt
    <3>2. inits' \in [Handles ->
                        [pc : {"none", "init", "counting", "counted",
                               "appending", "done"},
                         count : 0 .. Cardinality(Ports), conn : Seq(Handles)]]
      BY <1>0, <1>1, <2>2 DEF StoreCount, InitAt, TypeOK
    <3>3. UNCHANGED << minerVars, conn, open, bare, scans, readVars, jobsSent,
                       endVars, historyVars >>
      BY <2>2 DEF StoreCount, initRest, historyVars
    <3>4. QED
      BY <1>0, <3>1, <3>2, <3>3 DEF TypeOK, minerVars, readVars, lenVars,
         endVars, historyVars
  <2>3. CASE LoadConnected(h)
    BY <1>0, <1>1, <2>3 DEF LoadConnected, InitAt, TypeOK, initRest, minerVars,
         readVars, lenVars, endVars
  <2>4. CASE StoreConnected(h)
    <3>1. conn' \in Seq(Handles)
      BY <1>0, <2>4 DEF StoreConnected, TypeOK
    <3>2. inits' \in [Handles ->
                        [pc : {"none", "init", "counting", "counted",
                               "appending", "done"},
                         count : 0 .. Cardinality(Ports), conn : Seq(Handles)]]
      BY <1>0, <1>1, <2>4 DEF StoreConnected, InitAt, TypeOK
    <3>3. UNCHANGED << minerVars, open, bare, scans, initialized, readVars,
                       jobsSent, endVars, historyVars >>
      BY <2>4 DEF StoreConnected, initRest, historyVars
    <3>4. QED
      BY <1>0, <3>1, <3>2, <3>3 DEF TypeOK, minerVars, readVars, lenVars,
         endVars, historyVars
  <2>5. QED
    BY <1>11, <2>1, <2>2, <2>3, <2>4 DEF InitGoroutine
<1>12. ASSUME NEW s \in Scans, AsicReadAll(s)
       PROVE  TypeOK'
  <2>1. CASE MakeTimers(s) \/ MakeTotals(s) \/ MakeErrors(s)
    <3>1. /\ readAll' \in [Scans -> {"none", "timers", "totals", "errors",
                                     "set", "start", "done"}]
          /\ {timers, totals, readErrors}' \subseteq 0 .. Cardinality(Handles)
          /\ UNCHANGED << readAllRest, readers >>
      <4>1. UNCHANGED << readAllRest, readers >>
        BY <2>1 DEF MakeTimers, MakeTotals, MakeErrors
      <4>2. \E to \in {"totals", "errors", "set"} :
              readAll' = [readAll EXCEPT ![s] = to]
        BY <2>1 DEF MakeTimers, MakeTotals, MakeErrors
      <4>3. {timers, totals, readErrors}' \subseteq
              {timers, totals, readErrors, Len(conn)}
        BY <2>1 DEF MakeTimers, MakeTotals, MakeErrors
      <4>4. readAll' \in [Scans -> {"none", "timers", "totals", "errors",
                                   "set", "start", "done"}]
        BY <1>0, <4>2 DEF TypeOK
      <4>5. Len(conn) \in 0 .. Cardinality(Handles)
        BY <1>1
      <4>6. {timers, totals, readErrors} \subseteq 0 .. Cardinality(Handles)
        BY <1>0 DEF TypeOK
      <4>7. QED
        BY <4>1, <4>3, <4>4, <4>5, <4>6
    <3>2. QED
      BY <1>0, <3>1 DEF TypeOK, readAllRest, readRest, minerVars, initVars,
         endVars, historyVars
  <2>2. CASE SetTimers(s)
    BY <1>0, <2>2 DEF SetTimers, Crash, TypeOK, readAllRest, readRest, lenVars,
       minerVars, initVars, readVars, endVars, historyVars
  <2>3. CASE StartReaders(s)
    <3>1. \A i \in DOMAIN conn :
            /\ i \in 1 .. Cardinality(Handles)
            /\ conn[i] \in Handles
      BY <1>0, <1>1 DEF TypeOK
    <3>2. readers' \subseteq Reader
      BY <1>0, <2>3, <3>1 DEF StartReaders, TypeOK, Reader
    <3>3. QED
      BY <1>0, <2>3, <3>2 DEF StartReaders, TypeOK, readRest, readAllRest,
           readJobRest, lenVars, minerVars, initVars, endVars, historyVars
  <2>4. QED
    BY <1>12, <2>1, <2>2, <2>3 DEF AsicReadAll
<1>13. ASSUME NEW r \in readers, AsicReadJob(r)
       PROVE  TypeOK'
  <2>1. r \in Reader /\ r.handle \in Handles
    BY <1>0 DEF TypeOK, Reader
  <2>2. ASSUME NEW to \in {"look", "read", "reset", "report", "close"}
        PROVE  [r EXCEPT !.pc = to] \in Reader
    BY <2>1 DEF Reader
  <2>3. \A to \in {"look", "read", "reset", "report", "close"} :
          ReaderGoes(r, to) => readers' \subseteq Reader
    BY <1>0, <2>2 DEF ReaderGoes, TypeOK
  <2>4. ReaderLeaves(r) => readers' \subseteq Reader
    BY <1>0 DEF ReaderLeaves, TypeOK
  <2>5. CASE LookAtDevices(r)
    BY <1>0, <2>3, <2>4, <2>5 DEF LookAtDevices, TypeOK, readRest, readAllRest,
         readJobRest, lenVars, minerVars, initVars, endVars, historyVars
  <2>6. CASE ReadDevice(r)
    <3>1. CASE r.devid <= readErrors
      <4>1. /\ readers' \subseteq Reader /\ open' \subseteq Handles
            /\ bare' \subseteq Handles
            /\ UNCHANGED << readJobRest, conn, historyVars >>
        BY <1>0, <2>1, <2>3, <2>6, <3>1 DEF ReadDevice, TypeOK, Reader
      <4>2. QED
        BY <1>0, <4>1 DEF TypeOK, readJobRest, readRest, lenVars, minerVars,
           initVars, endVars, historyVars
    <3>2. CASE Crash
      BY <1>0, <3>2 DEF Crash, TypeOK, minerVars, initVars, readVars, lenVars,
         historyVars
    <3>3. QED
      BY <2>6, <3>1, <3>2 DEF ReadDevice
  <2>7. CASE ResetDevice(r)
    <3>1. /\ readers' \subseteq Reader /\ open' \subseteq Handles
          /\ bare' \subseteq Handles /\ revived' \subseteq Handles
      BY <1>0, <2>1, <2>3, <2>7 DEF ResetDevice, TypeOK
    <3>2. QED
      BY <1>0, <2>7, <3>1 DEF ResetDevice, TypeOK, readJobRest, readRest,
         lenVars, minerVars, initVars, endVars
  <2>8. CASE Report(r)
    <3>1. CASE Crash
      BY <1>0, <3>1 DEF Crash, TypeOK, minerVars, initVars, readVars, lenVars,
         historyVars
    <3>2. CASE ~ Crash
      BY <1>0, <2>3, <2>8, <3>2 DEF Report, TypeOK, readJobRest, readRest,
         lenVars, minerVars, initVars, endVars, historyVars
    <3>3. QED
      BY <3>1, <3>2
  <2>9. CASE CloseByReader(r)
    BY <1>0, <2>4, <2>9 DEF CloseByReader, CloseAll, TypeOK, readRest,
         readAllRest, readJobRest, lenVars, minerVars, initVars, endVars
  <2>10. QED
    BY <1>13, <2>5, <2>6, <2>7, <2>8, <2>9 DEF AsicReadJob
<1>14. CASE CloseBySender
  BY <1>0, <1>14 DEF CloseBySender, CloseFails, CloseAll, TypeOK, minerVars,
       initVars, readVars, lenVars, endVars
<1>15. CASE CloseFails
  BY <1>0, <1>15 DEF CloseFails, Crash, TypeOK, minerVars, initVars, readVars,
     lenVars, historyVars
<1>16. CASE CloseDone \/ EndMain
  BY <1>0, <1>16 DEF CloseDone, EndMain, TypeOK, mainRest, minerVars, initVars,
       readVars, lenVars, historyVars
<1>17. QED
  BY <1>2, <1>3, <1>4, <1>5, <1>6, <1>7, <1>8, <1>9, <1>10, <1>11, <1>12,
     <1>13, <1>14, <1>15, <1>16 DEF Next, AonMiner

-----------------------------------------------------------------------------
(* What a scan finds is new. *)
LEMMA ScanFindsNew ==
  ASSUME IInv, Scan
  PROVE  /\ devices' \in SUBSET Handles
         /\ \A h \in devices' : h.scan = scans + 1 /\ inits[h].pc = "none"
         /\ minerPc = "scan"
         /\ minerPc' = IF devices' = {} THEN "finish" ELSE "wait"
         /\ open' = open \cup devices'
         /\ scans' = IF devices' = {} THEN scans ELSE scans + 1
         /\ initialized' = 0
         /\ \A h \in Handles :
              /\ inits'[h].pc = IF h \in devices' THEN "init" ELSE inits[h].pc
              /\ inits'[h].count = inits[h].count
              /\ inits'[h].conn = inits[h].conn
         /\ InFlight = {}
         /\ \A s \in Scans : readAll[s] \in {"none", "done"}
         /\ UNCHANGED << counted, bufferLen, rangeTo, sent, toClose, conn,
                         bare, readAll, lenVars, readers, raced, late, revived >>
<1>0. TypeOK /\ ScanInv
  BY DEF IInv
<1>1. PICK found \in SUBSET (Ports \ {h.port : h \in open}) :
        LET new == {[port |-> p, scan |-> scans + 1] : p \in found}
        IN  /\ GoTo("scan", IF found = {} THEN "finish" ELSE "wait")
            /\ found # {} => scans < MaxScans
            /\ devices' = new
            /\ open' = open \cup new
            /\ scans' = IF found = {} THEN scans ELSE scans + 1
            /\ initialized' = 0
            /\ inits' = [h \in Handles |->
                           IF h \in new THEN [inits[h] EXCEPT !.pc = "init"]
                           ELSE inits[h]]
            /\ UNCHANGED << counted, bufferLen, rangeTo, sent, toClose, conn,
                            bare, readVars, jobsSent, endVars, historyVars >>
  BY DEF Scan
<1>2. devices' \in SUBSET Handles /\ (devices' = {} <=> found = {})
  <2>1. found # {} => scans + 1 \in Scans
    BY <1>0, <1>1, DriverAssumption DEF TypeOK, Scans
  <2>2. \A p \in found : [port |-> p, scan |-> scans + 1] \in Handles
    BY <2>1 DEF Handles
  <2>3. devices' = {[port |-> p, scan |-> scans + 1] : p \in found}
    BY <1>1
  <2>4. QED
    BY <2>2, <2>3
<1>3. \A h \in devices' : h.scan = scans + 1
  BY <1>1
<1>4. \A h \in devices' : inits[h].pc = "none"
  <2>1. scans \in Nat
    BY <1>0 DEF TypeOK
  <2>2. ASSUME NEW h \in devices'
        PROVE  ~ h.scan <= scans
    BY <1>3, <2>1
  <2>3. QED
    BY <1>0, <1>2, <2>2 DEF ScanInv, Known
<1>5. \A h \in Handles :
        inits[h] \in [pc : {"none", "init", "counting", "counted", "appending",
                            "done"},
                      count : 0 .. Cardinality(Ports), conn : Seq(Handles)]
  BY <1>0 DEF TypeOK
<1>6. \A h \in Handles :
        /\ inits'[h].pc = IF h \in devices' THEN "init" ELSE inits[h].pc
        /\ inits'[h].count = inits[h].count
        /\ inits'[h].conn = inits[h].conn
  BY <1>1, <1>5
<1>7. /\ InFlight = {}
      /\ \A s \in Scans : readAll[s] \in {"none", "done"}
  BY DEF Scan, ScanIsOver, InFlight
<1>8. QED
  BY <1>1, <1>2, <1>3, <1>4, <1>6, <1>7 DEF GoTo, readVars, lenVars,
       historyVars

(* A step of an init goroutine changes no other one. *)
LEMMA OneInitSteps ==
  ASSUME TypeOK, NEW h \in Handles, NEW from, NEW to, InitAt(h, from, to)
  PROVE  /\ inits[h].pc = from
         /\ inits'[h] = to
         /\ \A g \in Handles : g # h => inits'[g] = inits[g]
BY DEF InitAt, TypeOK

(* The actions that leave the handles and what is connected alone. *)
LEMMA HandlesUntouched ==
  ASSUME IInv, Next
  PROVE  \/ Scan
         \/ \E h \in Handles : InitGoroutine(h)
         \/ \E r \in readers : CloseByReader(r)
         \/ CloseBySender
         \/ UNCHANGED << inits, conn, scans, initialized >>
BY DEF IInv, Next, AonMiner, LookAtDone, closingRest, AwaitInit, FinishScan,
     CopyJobs, CopyBlocks, StartSending, SendJob, Panic, FinishRound,
     CloseOnDone, ToggleRTS, ToggleFails, CloseDevice, FinishClosing, Crash,
     AsicReadAll, MakeTimers, MakeTotals, MakeErrors, SetTimers, StartReaders,
     AsicReadJob, LookAtDevices, ReadDevice, ResetDevice, Report, CloseFails,
     CloseDone, EndMain, minerRest, readRest, readAllRest, readJobRest,
     lenVars, mainRest, initVars

LEMMA ClosesAll ==
  ASSUME \/ \E r \in readers : CloseByReader(r)
         \/ CloseBySender
  PROVE  /\ CloseAll
         /\ ~ MinerHolds
         /\ UNCHANGED << minerVars, initVars, readAll, lenVars, late,
                         revived >>
BY DEF CloseByReader, CloseBySender, CloseFails, readRest, readAllRest,
     readJobRest, lenVars, readVars

-----------------------------------------------------------------------------
(* What AonMiner keeps for a round *)

LEMMA RoundStep ==
  ASSUME IInv, Next
  PROVE  RoundInv'
<1>0. TypeOK /\ RoundInv
  BY DEF IInv
<1>1. CASE Scan
  <2>1. scans \in Nat
    BY <1>0 DEF TypeOK
  <2>2. QED
    BY <1>0, <1>1, <2>1, ScanFindsNew DEF RoundInv
<1>2. CASE AonMiner /\ ~ Scan
  <2>1. CASE LookAtDone
    BY <1>0, <2>1 DEF LookAtDone, closingRest, GoTo, RoundInv
  <2>2. CASE AwaitInit \/ FinishScan
    BY <1>0, <2>2 DEF AwaitInit, FinishScan, GoTo, RoundInv
  <2>3. CASE CopyJobs \/ CopyBlocks \/ StartSending \/ FinishRound
    BY <1>0, <2>3 DEF CopyJobs, CopyBlocks, StartSending, FinishRound, GoTo,
         RoundInv
  <2>4. CASE SendJob
    BY <1>0, <2>4 DEF SendJob, Panic, Crash, RoundInv, minerVars, initVars
  <2>5. CASE CloseOnDone
    BY <1>0, <2>5 DEF CloseOnDone, ToggleRTS, ToggleFails, CloseDevice,
       FinishClosing, GoTo, Crash, RoundInv, minerVars, initVars, closingRest
  <2>6. QED
    BY <1>2, <2>1, <2>2, <2>3, <2>4, <2>5 DEF AonMiner
<1>3. CASE UNCHANGED << minerVars, scans >>
  BY <1>0, <1>3 DEF RoundInv, minerVars
<1>4. QED
  BY <1>1, <1>2, <1>3 DEF Next, InitGoroutine, LoadCount, StoreCount,
       LoadConnected, StoreConnected, AsicReadAll, MakeTimers, MakeTotals,
       MakeErrors, SetTimers, StartReaders, Crash, AsicReadJob, LookAtDevices,
       ReadDevice, ResetDevice, Report, CloseByReader, CloseBySender,
       CloseFails, CloseDone, EndMain, initRest, readRest, readAllRest,
       readJobRest, lenVars, mainRest, initVars

-----------------------------------------------------------------------------
(* What is connected *)

LEMMA ConnStep ==
  ASSUME IInv, Next
  PROVE  ConnInv'
<1>0. TypeOK /\ ConnInv
  BY DEF IInv
<1>1. CASE Scan
  <2>1. Connected' = Connected
    BY <1>1, ScanFindsNew DEF Connected
  <2>2. conn' = conn /\ \A h \in Handles : inits'[h].conn = inits[h].conn
    BY <1>1, ScanFindsNew
  <2>3. QED
    BY <1>0, <2>1, <2>2 DEF ConnInv
<1>2. ASSUME NEW h \in Handles, InitGoroutine(h)
      PROVE  ConnInv'
  <2>1. CASE LoadCount(h) \/ StoreCount(h)
    <3>1. conn' = conn /\ Connected \subseteq Connected'
      BY <1>0, <2>1, OneInitSteps DEF LoadCount, StoreCount, Connected
    <3>2. /\ inits'[h].conn = << >>
          /\ \A g \in Handles \ {h} : inits'[g].conn = inits[g].conn
      BY <1>0, <2>1, OneInitSteps DEF LoadCount, StoreCount
    <3>3. QED
      BY <1>0, <3>1, <3>2, EmptyIsInjective DEF ConnInv
  <2>2. CASE LoadConnected(h)
    <3>1. conn' = conn /\ Connected \subseteq Connected'
      BY <1>0, <2>2, OneInitSteps DEF LoadConnected, Connected
    <3>2. /\ inits'[h].conn = conn
          /\ \A g \in Handles \ {h} : inits'[g].conn = inits[g].conn
      BY <1>0, <2>2, OneInitSteps DEF LoadConnected
    <3>3. QED
      BY <1>0, <3>1, <3>2 DEF ConnInv
  <2>3. CASE StoreConnected(h)
    <3>1. /\ inits[h].pc = "appending"
          /\ inits'[h] = [pc |-> "done", count |-> 0, conn |-> << >>]
          /\ \A g \in Handles : g # h => inits'[g] = inits[g]
          /\ conn' = Append(inits[h].conn, h)
      BY <1>0, <2>3, OneInitSteps DEF StoreConnected
    <3>2. Connected' = Connected \cup {h} /\ h \notin Connected
      BY <3>1 DEF Connected
    <3>3. inits[h].conn \in Seq(Handles) /\ h \notin Range(inits[h].conn)
      BY <1>0, <3>2 DEF TypeOK, ConnInv
    <3>4. /\ IsInjective(conn')
          /\ Range(conn') = Range(inits[h].conn) \cup {h}
      BY <1>0, <3>1, <3>3, AppendKeepsInjective DEF ConnInv
    <3>5. Range(conn') \subseteq Connected'
      BY <1>0, <3>2, <3>4 DEF ConnInv
    <3>6. QED
      BY <1>0, <3>1, <3>2, <3>4, <3>5, EmptyIsInjective DEF ConnInv
  <2>4. QED
    BY <1>2, <2>1, <2>2, <2>3 DEF InitGoroutine
<1>3. CASE (\E r \in readers : CloseByReader(r)) \/ CloseBySender
  <2>1. conn' = << >> /\ inits' = inits
    BY <1>3, ClosesAll DEF CloseAll, initVars
  <2>2. QED
    BY <1>0, <2>1, EmptyIsInjective DEF ConnInv, Connected
<1>4. CASE UNCHANGED << inits, conn, scans, initialized >>
  BY <1>0, <1>4 DEF ConnInv, Connected
<1>5. QED
  BY <1>1, <1>2, <1>3, <1>4, HandlesUntouched

-----------------------------------------------------------------------------
(* Scans and what they have started *)

LEMMA ScanStep ==
  ASSUME IInv, Next
  PROVE  ScanInv'
<1>0. TypeOK /\ RoundInv /\ ScanInv
  BY DEF IInv
<1>1. scans \in Nat
  BY <1>0 DEF TypeOK
<1>2. CASE Scan
  <2>1. /\ InFlight = {}
        /\ \A h \in Handles :
             inits'[h].pc = IF h \in devices' THEN "init" ELSE inits[h].pc
        /\ \A h \in devices' : h.scan = scans + 1
        /\ scans' = IF devices' = {} THEN scans ELSE scans + 1
        /\ readAll' = readAll
    BY <1>2, ScanFindsNew
  <2>2. \A h \in Known : h.scan \in Nat /\ h.scan <= scans
    BY <1>0 DEF ScanInv, Known, Handles, Scans
  <2>3. \A h \in Known' : h \in Known \/ h \in devices'
    BY <2>1 DEF Known
  <2>4. \A h \in Known' : h.scan <= scans'
    BY <1>1, <2>1, <2>2, <2>3
  <2>5. \A h \in InFlight' : h \in devices'
    BY <2>1 DEF InFlight
  <2>6. \A h \in InFlight' : h.scan = scans'
    BY <2>1, <2>5
  <2>7. \A s \in Scans : /\ readAll'[s] # "none" => s <= scans'
                         /\ readAll'[s] \in {"none", "done"}
    BY <1>0, <1>1, <1>2, <2>1, ScanFindsNew DEF ScanInv, Scans
  <2>8. QED
    BY <2>4, <2>6, <2>7 DEF ScanInv
<1>3. CASE AwaitInit
  <2>1. /\ UNCHANGED << inits, scans >>
        /\ readAll' = [readAll EXCEPT ![scans] = "timers"]
    BY <1>3 DEF AwaitInit, initVars
  <2>2. \A s \in Scans : /\ readAll'[s] # "none" => s <= scans'
                         /\ readAll'[s] \in {"none", "done"} \/ s = scans'
    BY <1>0, <1>1, <2>1 DEF ScanInv, TypeOK, Scans
  <2>3. Known' = Known /\ InFlight' = InFlight
    BY <2>1 DEF Known, InFlight
  <2>4. /\ \A h \in Known' : h.scan <= scans'
        /\ \A h \in InFlight' : h.scan = scans'
    BY <1>0, <2>1, <2>3 DEF ScanInv
  <2>5. QED
    BY <2>2, <2>4 DEF ScanInv
<1>4. ASSUME NEW s \in Scans, AsicReadAll(s)
      PROVE  ScanInv'
  <2>1. UNCHANGED << inits, scans >>
    BY <1>4 DEF AsicReadAll, MakeTimers, MakeTotals, MakeErrors, SetTimers,
         StartReaders, Crash, readRest, readAllRest, readJobRest, lenVars,
         initVars
  <2>2. \A t \in Scans : \/ readAll'[t] = readAll[t]
                         \/ /\ t = s
                            /\ readAll[s] \notin {"none", "done"}
    BY <1>0, <1>4 DEF AsicReadAll, MakeTimers, MakeTotals, MakeErrors,
         SetTimers, StartReaders, Crash, readVars, lenVars, TypeOK
  <2>3. \A t \in Scans : /\ readAll'[t] # "none" => t <= scans'
                         /\ readAll'[t] \in {"none", "done"} \/ t = scans'
    BY <1>0, <2>1, <2>2 DEF ScanInv
  <2>4. Known' = Known /\ InFlight' = InFlight
    BY <2>1 DEF Known, InFlight
  <2>5. /\ \A h \in Known' : h.scan <= scans'
        /\ \A h \in InFlight' : h.scan = scans'
    BY <1>0, <2>1, <2>4 DEF ScanInv
  <2>6. QED
    BY <2>3, <2>5 DEF ScanInv
<1>5. ASSUME NEW h \in Handles, InitGoroutine(h)
      PROVE  ScanInv'
  <2>1. /\ h \in InFlight
        /\ \A g \in Handles : g # h => inits'[g] = inits[g]
    BY <1>0, <1>5, OneInitSteps DEF InitGoroutine, LoadCount, StoreCount,
         LoadConnected, StoreConnected, InitAt, InFlight
  <2>2. UNCHANGED << scans, readAll >>
    BY <1>5 DEF InitGoroutine, LoadCount, StoreCount, LoadConnected,
         StoreConnected, initRest, readVars, lenVars
  <2>3. h \in Known /\ h.scan = scans
    BY <1>0, <2>1 DEF Known, InFlight, ScanInv
  <2>4. Known' \subseteq Known /\ InFlight' \subseteq InFlight
    BY <2>1, <2>3 DEF Known, InFlight
  <2>5. QED
    BY <1>0, <2>2, <2>4 DEF ScanInv
<1>6. CASE UNCHANGED << inits, scans, readAll >>
  BY <1>0, <1>6 DEF ScanInv, Known, InFlight
<1>7. QED
  BY <1>2, <1>3, <1>4, <1>5, <1>6 DEF Next, AonMiner, LookAtDone, closingRest,
       FinishScan, CopyJobs, CopyBlocks, StartSending, SendJob, Panic,
       FinishRound, CloseOnDone, ToggleRTS, ToggleFails, CloseDevice,
       FinishClosing, Crash, AsicReadJob, LookAtDevices, ReadDevice,
       ResetDevice, Report, CloseByReader, CloseBySender, CloseFails,
       CloseDone, EndMain, minerRest, readRest, readAllRest, readJobRest,
       lenVars, mainRest, initVars, readVars

-----------------------------------------------------------------------------
(* The length of the buffer *)

LEMMA CountStep ==
  ASSUME IInv, Next
  PROVE  CountInv'
<1>0. TypeOK /\ RoundInv /\ ConnInv /\ ScanInv /\ CountInv
  BY DEF IInv
<1>1. /\ Cardinality(Known) \in Nat /\ Cardinality(devices) \in Nat
      /\ bufferLen \in Nat
  BY <1>0, Sizes DEF TypeOK
<1>2. CASE Scan
  <2>1. /\ devices' \in SUBSET Handles
        /\ \A h \in devices' : inits[h].pc = "none"
        /\ minerPc = "scan"
        /\ \A h \in Handles :
             inits'[h].pc = IF h \in devices' THEN "init" ELSE inits[h].pc
        /\ bufferLen' = bufferLen
    BY <1>2, ScanFindsNew
  <2>2. Known' = Known \cup devices' /\ Known \cap devices' = {}
    BY <2>1 DEF Known
  <2>3. Known \in SUBSET Handles
    BY DEF Known
  <2>4. /\ IsFiniteSet(Known) /\ IsFiniteSet(devices')
        /\ Cardinality(devices') \in Nat
    BY <2>1, <2>3, FiniteSubsets
  <2>5. Cardinality(Known') = Cardinality(Known) + Cardinality(devices')
    <3>1. Cardinality(Known \cup devices')
            = Cardinality(Known) + Cardinality(devices') - Cardinality({})
      BY <2>2, <2>4, FS_Union
    <3>2. QED
      BY <1>1, <2>2, <2>4, <3>1, FS_EmptySet
  <2>6. Cardinality(devices) = 0
    BY <1>0, <2>1, FS_EmptySet DEF RoundInv
  <2>7. QED
    BY <1>0, <1>1, <2>1, <2>2, <2>4, <2>5, <2>6 DEF CountInv
<1>3. CASE FinishScan
  <2>1. /\ Known' = Known
        /\ devices' = {}
        /\ bufferLen' = bufferLen + Cardinality(devices)
    BY <1>3 DEF FinishScan, minerRest, initVars, Known
  <2>2. Cardinality(devices') = 0
    BY <2>1, FS_EmptySet
  <2>3. QED
    BY <1>0, <1>1, <2>1, <2>2 DEF CountInv
<1>4. ASSUME NEW h \in Handles, InitGoroutine(h)
      PROVE  CountInv'
  <2>1. /\ inits[h].pc # "none" /\ inits'[h].pc # "none"
        /\ \A g \in Handles : g # h => inits'[g] = inits[g]
    BY <1>0, <1>4, OneInitSteps DEF InitGoroutine, LoadCount, StoreCount,
         LoadConnected, StoreConnected
  <2>2. Known' = Known
    BY <2>1 DEF Known
  <2>3. UNCHANGED << devices, bufferLen >>
    BY <1>4 DEF InitGoroutine, LoadCount, StoreCount, LoadConnected,
         StoreConnected, initRest, minerVars
  <2>4. QED
    BY <1>0, <2>2, <2>3 DEF CountInv
<1>5. CASE UNCHANGED << inits, devices, bufferLen >>
  BY <1>0, <1>5 DEF CountInv, Known
<1>6. QED
  BY <1>2, <1>3, <1>4, <1>5 DEF Next, AonMiner, LookAtDone, closingRest,
       AwaitInit, CopyJobs, CopyBlocks, StartSending, SendJob, Panic,
       FinishRound, CloseOnDone, ToggleRTS, ToggleFails, CloseDevice,
       FinishClosing, Crash, AsicReadAll, MakeTimers, MakeTotals, MakeErrors,
       SetTimers, StartReaders, AsicReadJob, LookAtDevices, ReadDevice,
       ResetDevice, Report, CloseByReader, CloseBySender, CloseFails,
       CloseDone, EndMain, minerRest, readRest, readAllRest, readJobRest,
       lenVars, mainRest, initVars, minerVars

-----------------------------------------------------------------------------
(* The count of initialized devices *)

LEMMA InitCountStep ==
  ASSUME IInv, Next
  PROVE  InitCountInv'
<1>0. TypeOK /\ ScanInv /\ InitCountInv
  BY DEF IInv
<1>1. Counted \in SUBSET Handles /\ Counted' \in SUBSET Handles
  BY DEF Counted
<1>2. Cardinality(Counted) \in Nat /\ Cardinality(Counted') \in Nat
  BY <1>1, FiniteSubsets
<1>3. /\ initialized \in Nat
      /\ \A g \in Handles : inits[g].count \in Nat
  BY <1>0 DEF TypeOK
<1>4. CASE Scan
  <2>1. /\ initialized' = 0
        /\ InFlight = {}
        /\ \A h \in Handles :
             inits'[h].pc = IF h \in devices' THEN "init" ELSE inits[h].pc
    BY <1>4, ScanFindsNew
  <2>2. \A h \in Handles : inits'[h].pc # "counting"
    BY <2>1 DEF InFlight
  <2>3. QED
    BY <1>2, <2>1, <2>2 DEF InitCountInv
<1>5. ASSUME NEW h \in Handles, InitGoroutine(h)
      PROVE  InitCountInv'
  <2>1. scans' = scans
    BY <1>5 DEF InitGoroutine, LoadCount, StoreCount, LoadConnected,
         StoreConnected, initRest
  <2>2. CASE LoadCount(h)
    <3>1. /\ inits[h].pc = "init"
          /\ inits'[h] = [pc |-> "counting", count |-> initialized,
                          conn |-> << >>]
          /\ \A g \in Handles : g # h => inits'[g] = inits[g]
          /\ initialized' = initialized
      BY <1>0, <2>2, OneInitSteps DEF LoadCount
    <3>2. Counted' = Counted
      BY <2>1, <3>1 DEF Counted
    <3>3. QED
      BY <1>0, <3>1, <3>2 DEF InitCountInv
  <2>3. CASE StoreCount(h)
    <3>1. /\ inits[h].pc = "counting"
          /\ inits'[h] = [pc |-> "counted", count |-> 0, conn |-> << >>]
          /\ \A g \in Handles : g # h => inits'[g] = inits[g]
          /\ initialized' = inits[h].count + 1
      BY <1>0, <2>3, OneInitSteps DEF StoreCount
    <3>2. h.scan = scans
      BY <1>0, <3>1 DEF ScanInv, InFlight
    <3>3. Counted' = Counted \cup {h}
      BY <2>1, <3>1, <3>2 DEF Counted
    <3>4. initialized' <= Cardinality(Counted')
      BY <1>0, <3>1, <3>3, CountBelowPorts
    <3>5. Cardinality(Counted) <= Cardinality(Counted')
      BY <1>1, <3>3, FiniteSubsets
    <3>6. \A g \in Handles : inits'[g].pc = "counting" =>
            inits'[g].count <= Cardinality(Counted')
      BY <1>0, <1>2, <1>3, <3>1, <3>5 DEF InitCountInv
    <3>7. QED
      BY <3>4, <3>6 DEF InitCountInv
  <2>4. CASE LoadConnected(h) \/ StoreConnected(h)
    <3>1. /\ inits[h].pc \in {"counted", "appending"}
          /\ inits'[h].pc \in {"appending", "done"}
          /\ \A g \in Handles : g # h => inits'[g] = inits[g]
          /\ initialized' = initialized
      BY <1>0, <2>4, OneInitSteps DEF LoadConnected, StoreConnected
    <3>2. Counted' = Counted
      BY <2>1, <3>1 DEF Counted
    <3>3. QED
      BY <1>0, <3>1, <3>2 DEF InitCountInv
  <2>5. QED
    BY <1>5, <2>2, <2>3, <2>4 DEF InitGoroutine
<1>6. CASE (\E r \in readers : CloseByReader(r)) \/ CloseBySender
  BY <1>0, <1>6, ClosesAll DEF InitCountInv, Counted, initVars
<1>7. CASE UNCHANGED << inits, conn, scans, initialized >>
  BY <1>0, <1>7 DEF InitCountInv, Counted
<1>8. QED
  BY <1>4, <1>5, <1>6, <1>7, HandlesUntouched

-----------------------------------------------------------------------------
(* Devices that are open *)

LEMMA OpenStep ==
  ASSUME IInv, Next
  PROVE  OpenInv'
<1>0. TypeOK /\ ConnInv /\ OpenInv
  BY DEF IInv
<1>1. CASE Scan
  <2>1. /\ InFlight = {}
        /\ \A h \in Handles :
             inits'[h].pc = IF h \in devices' THEN "init" ELSE inits[h].pc
        /\ devices' \in SUBSET Handles
        /\ open' = open \cup devices'
        /\ UNCHANGED << conn, raced, revived >>
    BY <1>1, ScanFindsNew
  <2>2. \A h \in Handles : inits'[h].pc # "appending"
    BY <2>1 DEF InFlight
  <2>3. ~ raced' => NoDeviceLost'
    BY <1>0, <2>1 DEF OpenInv, NoDeviceLost, InFlight, TypeOK
  <2>4. QED
    BY <2>2, <2>3 DEF OpenInv
<1>2. ASSUME NEW h \in Handles, InitGoroutine(h)
      PROVE  OpenInv'
  <2>1. UNCHANGED << open, revived >>
    BY <1>2 DEF InitGoroutine, LoadCount, StoreCount, LoadConnected,
         StoreConnected, initRest
  <2>2. open \subseteq Handles
    BY <1>0 DEF TypeOK
  <2>3. CASE LoadCount(h) \/ StoreCount(h)
    <3>1. /\ inits[h].pc \in {"init", "counting"}
          /\ inits'[h].pc \in {"counting", "counted"}
          /\ \A g \in Handles : g # h => inits'[g] = inits[g]
          /\ conn' = conn
      BY <1>0, <2>3, OneInitSteps DEF LoadCount, StoreCount
    <3>2. ~ raced' => ~ raced
      BY <2>3, Zenon DEF LoadCount, StoreCount
    <3>3. ~ raced' => NoDeviceLost'
      BY <1>0, <2>1, <2>2, <3>1, <3>2 DEF OpenInv, NoDeviceLost
    <3>4. QED
      BY <1>0, <3>1, <3>2, <3>3 DEF OpenInv
  <2>4. CASE LoadConnected(h)
    <3>1. /\ inits[h].pc = "counted"
          /\ inits'[h] = [pc |-> "appending", count |-> 0, conn |-> conn]
          /\ \A g \in Handles : g # h => inits'[g] = inits[g]
          /\ conn' = conn
      BY <1>0, <2>4, OneInitSteps DEF LoadConnected
    <3>2. ~ raced' =>
            ~ raced /\ \A g \in Handles : inits[g].pc # "appending"
      BY <2>4, Zenon DEF LoadConnected
    <3>3. ~ raced' => NoDeviceLost'
      BY <1>0, <2>1, <2>2, <3>1, <3>2 DEF OpenInv, NoDeviceLost
    <3>4. QED
      BY <3>1, <3>2, <3>3 DEF OpenInv
  <2>5. CASE StoreConnected(h)
    <3>1. /\ inits[h].pc = "appending"
          /\ inits'[h] = [pc |-> "done", count |-> 0, conn |-> << >>]
          /\ \A g \in Handles : g # h => inits'[g] = inits[g]
          /\ conn' = Append(inits[h].conn, h)
          /\ raced' = raced
      BY <1>0, <2>5, OneInitSteps DEF StoreConnected
    <3>2. h \notin Connected /\ inits[h].conn \in Seq(Handles)
      BY <1>0, <3>1 DEF Connected, TypeOK
    <3>3. Range(conn') = Range(inits[h].conn) \cup {h}
      BY <1>0, <3>1, <3>2, AppendKeepsInjective DEF ConnInv
    <3>4. ~ raced => inits[h].conn = conn
      BY <1>0, <3>1 DEF OpenInv
    <3>5. ~ raced' => NoDeviceLost'
      BY <1>0, <2>1, <2>2, <3>1, <3>3, <3>4 DEF OpenInv, NoDeviceLost
    <3>6. ~ raced' => \A g \in Handles : inits'[g].pc # "appending"
      BY <1>0, <3>1 DEF OpenInv
    <3>7. QED
      BY <3>5, <3>6 DEF OpenInv
  <2>6. QED
    BY <1>2, <2>3, <2>4, <2>5 DEF InitGoroutine
<1>3. CASE (\E r \in readers : CloseByReader(r)) \/ CloseBySender
  <2>1. /\ conn' = << >>
        /\ open' = open \ Range(conn)
        /\ raced' = (raced \/ \E h \in Handles : inits[h].pc = "appending")
        /\ UNCHANGED << inits, revived >>
    BY <1>3, ClosesAll DEF CloseAll, initVars
  <2>2. ~ raced' => NoDeviceLost'
    BY <1>0, <2>1 DEF OpenInv, NoDeviceLost
  <2>3. QED
    BY <2>1, <2>2 DEF OpenInv
<1>4. ASSUME NEW r \in readers, ResetDevice(r)
      PROVE  OpenInv'
  <2>1. /\ open' \subseteq open \cup {r.handle}
        /\ r.handle \in open' =>
             r.handle \in open \/ r.handle \in Range(conn) \cup revived'
        /\ revived \subseteq revived'
        /\ UNCHANGED << inits, conn, raced >>
    BY <1>4 DEF ResetDevice, Report, readRest, readAllRest, readJobRest,
         lenVars, initVars
  <2>2. ~ raced' => NoDeviceLost'
    BY <1>0, <2>1 DEF OpenInv, NoDeviceLost
  <2>3. QED
    BY <1>0, <2>1, <2>2 DEF OpenInv
<1>5. CASE open' \subseteq open /\ UNCHANGED << inits, conn, raced, revived >>
  <2>1. ~ raced' => NoDeviceLost'
    BY <1>0, <1>5 DEF OpenInv, NoDeviceLost
  <2>2. QED
    BY <1>0, <1>5, <2>1 DEF OpenInv
<1>6. QED
  BY <1>1, <1>2, <1>3, <1>4, <1>5 DEF Next, AonMiner, LookAtDone, closingRest,
       AwaitInit, FinishScan, CopyJobs, CopyBlocks, StartSending, SendJob,
       Panic, FinishRound, CloseOnDone, ToggleRTS, ToggleFails, CloseDevice,
       FinishClosing, Crash, AsicReadAll, MakeTimers, MakeTotals, MakeErrors,
       SetTimers, StartReaders, AsicReadJob, LookAtDevices, ReadDevice, Report,
       CloseFails, CloseDone, EndMain, minerRest, readRest, readAllRest,
       readJobRest, lenVars, mainRest, initVars, historyVars

-----------------------------------------------------------------------------
(* Readers *)

(* A step of AsicReadAll, or of a reader but for a teardown, in a program  *)
(* where no device is late.                                                *)
LEMMA ReadersStep ==
  ASSUME IInv, Orderly, UNCHANGED << inits, minerPc, devices, scans, conn,
                                     counted >>,
         \/ \E s \in Scans : \/ MakeTimers(s) \/ MakeTotals(s) \/ MakeErrors(s)
                             \/ SetTimers(s) \/ StartReaders(s)
         \/ \E r \in readers : \/ LookAtDevices(r) \/ ReadDevice(r)
                               \/ ResetDevice(r) \/ Report(r)
  PROVE  ReadInv'
<1>0. TypeOK /\ ConnInv /\ ScanInv /\ ReadInv
  BY DEF IInv
<1>1. ASSUME NEW s \in Scans,
             \/ MakeTimers(s) \/ MakeTotals(s) \/ MakeErrors(s)
             \/ SetTimers(s)
      PROVE  ReadInv'
  <2>1. /\ readers' = readers
        /\ readAll[s] \notin {"none", "done"}
        /\ readAll'[s] \notin {"none", "done"}
        /\ \A t \in Scans : t # s => readAll'[t] = readAll[t]
    BY <1>0, <1>1 DEF MakeTimers, MakeTotals, MakeErrors, SetTimers, Crash,
         readVars, lenVars, TypeOK
  <2>2. \A t \in Scans : /\ readAll'[t] = "none" <=> readAll[t] = "none"
                         /\ readAll'[t] = "done" <=> readAll[t] = "done"
    BY <2>1
  <2>3. \A h \in Handles : h.scan \in Scans
    BY DEF Handles
  <2>4. /\ Range(conn) \subseteq Handles /\ Connected \subseteq Handles
        /\ \A r \in readers : r.by \in Scans
    BY <1>0 DEF TypeOK, ConnInv, Connected, Reader
  <2>5. Connected' = Connected /\ InFlight' = InFlight
    BY DEF Connected, InFlight
  <2>6. minerPc = "wait" => scans \in Scans
    BY <1>0, DriverAssumption DEF IInv, RoundInv, TypeOK, Scans
  <2>7. QED
    BY <1>0, <2>1, <2>2, <2>3, <2>4, <2>5, <2>6 DEF ReadInv, Orderly
<1>2. ASSUME NEW s \in Scans, StartReaders(s)
      PROVE  ReadInv'
  <2> DEFINE new == {[by |-> s, devid |-> i, handle |-> conn[i],
                      pc |-> "look"] : i \in DOMAIN conn}
  <2>1. /\ readers' = readers \cup new
        /\ readAll[s] = "start"
        /\ readAll' = [readAll EXCEPT ![s] = "done"]
    BY <1>2 DEF StartReaders
  <2>2. readAll \in [Scans ->
                       {"none", "timers", "totals", "errors", "set", "start",
                        "done"}]
    BY <1>0 DEF TypeOK
  <2>3. s = scans
    BY <1>0, <2>1 DEF ScanInv
  <2>4. \A r \in readers : r.by # s /\ r.handle.scan # s
    BY <1>0, <2>1 DEF ReadInv
  <2>5. \A i \in DOMAIN conn : conn[i].scan = s
    BY <1>0, <2>3 DEF ReadInv, Range
  <2>6. \A r \in new : r.by = s /\ r.handle.scan = s
    BY <2>5
  <2>7. \A r \in readers' : r.handle.scan = r.by /\ readAll'[r.by] = "done"
    <3>1. \A r \in readers : r.by \in Scans
      BY <1>0 DEF TypeOK, Reader
    <3>2. QED
      BY <1>0, <2>1, <2>2, <2>6, <3>1 DEF ReadInv
  <2>8. \A r, q \in readers' : r.handle = q.handle => r = q
    <3>1. ASSUME NEW r \in new, NEW q \in new, r.handle = q.handle
          PROVE  r = q
      BY <1>0, <3>1 DEF ConnInv, IsInjective
    <3>2. ASSUME NEW r \in new, NEW q \in readers
          PROVE  r.handle # q.handle
      BY <2>4, <2>6
    <3>3. QED
      BY <1>0, <2>1, <3>1, <3>2 DEF ReadInv
  <2>9. \A h \in Range(conn) : \E r \in readers' : r.handle = h
    <3>1. ASSUME NEW i \in DOMAIN conn
          PROVE  \E r \in new : r.handle = conn[i]
      <4> DEFINE r == [by |-> s, devid |-> i, handle |-> conn[i],
                       pc |-> "look"]
      <4>1. r \in new /\ r.handle = conn[i]
        OBVIOUS
      <4>2. QED
        BY <4>1
    <3>2. QED
      BY <2>1, <3>1 DEF Range
  <2>10. \A t \in Scans : readAll'[t] = "none" <=> readAll[t] = "none"
    BY <2>1, <2>2
  <2>11. /\ Connected' = Connected /\ InFlight' = InFlight
         /\ \A h \in Connected : h.scan \in Scans
    BY DEF Connected, InFlight, Handles
  <2>12. minerPc = "wait" => scans \in Scans
    BY <1>0, DriverAssumption DEF IInv, RoundInv, TypeOK, Scans
  <2>13. QED
    BY <1>0, <2>7, <2>8, <2>9, <2>10, <2>11, <2>12 DEF ReadInv, Orderly
<1>3. ASSUME NEW r \in readers,
             LookAtDevices(r) \/ ReadDevice(r) \/ ResetDevice(r)
                \/ Report(r)
      PROVE  ReadInv'
  <2>1. readAll' = readAll
    BY <1>3 DEF LookAtDevices, ReadDevice, ResetDevice, Report, Crash,
       readJobRest, readVars
  <2>2. \/ readers' = readers
        \/ conn = << >> /\ ReaderLeaves(r)
        \/ \E to \in {"look", "read", "reset", "report", "close"} :
             ReaderGoes(r, to)
    <3>1. CASE LookAtDevices(r) \/ Report(r)
      BY <3>1 DEF LookAtDevices, Report, Crash, readVars
    <3>2. CASE ReadDevice(r)
      BY <3>2 DEF ReadDevice, Crash, readVars
    <3>3. CASE ResetDevice(r)
      BY <3>3 DEF ResetDevice
    <3>4. QED
      BY <1>3, <3>1, <3>2, <3>3
  <2>3. \A to : /\ [r EXCEPT !.pc = to].handle = r.handle
                /\ [r EXCEPT !.pc = to].by = r.by
    BY <1>0 DEF TypeOK, Reader
  <2>4. \A q \in readers' : \E p \in readers : /\ q.handle = p.handle
                                               /\ q.by = p.by
    BY <2>2, <2>3 DEF ReaderLeaves, ReaderGoes
  <2>5. \A q \in readers' : q.handle.scan = q.by /\ readAll'[q.by] = "done"
    BY <1>0, <2>1, <2>4 DEF ReadInv
  <2>6. \A p, q \in readers' : p.handle = q.handle => p = q
    <3>1. \A p, q \in readers : p.handle = q.handle => p = q
      BY <1>0 DEF ReadInv
    <3>2. ASSUME NEW to \in {"look", "read", "reset", "report", "close"},
                 ReaderGoes(r, to)
          PROVE  \A p, q \in readers' : p.handle = q.handle => p = q
      <4> DEFINE gone == [r EXCEPT !.pc = to]
      <4>1. readers' = (readers \ {r}) \cup {gone} /\ gone.handle = r.handle
        BY <2>3, <3>2 DEF ReaderGoes
      <4> HIDE DEF gone
      <4>2. QED
        BY <3>1, <4>1
    <3>3. QED
      BY <2>2, <3>1, <3>2 DEF ReaderLeaves
  <2>7. conn # << >> => \A q \in readers : \E p \in readers' :
                          p.handle = q.handle
    BY <2>2, <2>3 DEF ReaderGoes
  <2>8. \A h \in Range(conn) :
          readAll[h.scan] = "done" => \E p \in readers' : p.handle = h
    BY <1>0, <2>7, EmptyIsInjective DEF ReadInv
  <2>9. Connected' = Connected /\ InFlight' = InFlight
    BY DEF Connected, InFlight
  <2>10. QED
    BY <1>0, <2>1, <2>5, <2>6, <2>8, <2>9 DEF ReadInv, Orderly
<1>4. QED
  BY <1>1, <1>2, <1>3

LEMMA ReadStep ==
  ASSUME IInv, Next
  PROVE  ReadInv'
<1> SUFFICES ASSUME Orderly'
             PROVE  ReadInv'
  BY DEF ReadInv
<1>0. /\ TypeOK /\ RoundInv /\ ConnInv /\ ScanInv /\ CountInv /\ OpenInv
      /\ ReadInv
  BY DEF IInv
<1>1. Orderly
  <2>0. raced \in BOOLEAN /\ late \in BOOLEAN
    BY <1>0 DEF TypeOK
  <2>1. ASSUME AonMiner PROVE  (raced => raced') /\ (late => late')
    BY <2>0, <2>1 DEF AonMiner, LookAtDone, Scan, AwaitInit, FinishScan,
         CopyJobs, CopyBlocks, StartSending, SendJob, Panic, FinishRound,
         CloseOnDone, ToggleRTS, ToggleFails, CloseDevice, FinishClosing,
         Crash, closingRest, minerRest, historyVars
  <2>2. ASSUME NEW h \in Handles, InitGoroutine(h)
        PROVE  (raced => raced') /\ (late => late')
    BY <2>0, <2>2 DEF InitGoroutine, LoadCount, StoreCount, LoadConnected,
       StoreConnected
  <2>3. ASSUME NEW s \in Scans, AsicReadAll(s)
        PROVE  (raced => raced') /\ (late => late')
    BY <2>0, <2>3 DEF AsicReadAll, MakeTimers, MakeTotals, MakeErrors,
         SetTimers, StartReaders, Crash, readAllRest, historyVars
  <2>4. ASSUME NEW r \in readers, AsicReadJob(r)
        PROVE  (raced => raced') /\ (late => late')
    BY <2>0, <2>4 DEF AsicReadJob, LookAtDevices, ReadDevice, ResetDevice,
         Report, CloseByReader, CloseAll, Crash, historyVars
  <2>5. ASSUME CloseBySender \/ CloseFails \/ CloseDone \/ EndMain
        PROVE  (raced => raced') /\ (late => late')
    BY <2>0, <2>5 DEF CloseBySender, CloseFails, CloseDone, EndMain, CloseAll,
         Crash, mainRest, historyVars
  <2>6. QED
    BY <2>1, <2>2, <2>3, <2>4, <2>5 DEF Next, Orderly
<1>2. scans \in Nat
  BY <1>0 DEF TypeOK
<1>3. CASE LookAtDone
  <2>1. /\ minerPc = "top" /\ minerPc' \in {"closing", "scan", "copy"}
        /\ minerPc' = "scan" => NeedsScan
        /\ UNCHANGED << counted, devices, conn, scans, inits, readAll, readers >>
    BY <1>3 DEF LookAtDone, closingRest, GoTo, initVars, readVars,
         lenVars
  <2>2. minerPc' = "scan" => conn = << >>
    BY <1>0, <1>1, <2>1 DEF ReadInv, NeedsScan
  <2>3. Connected' = Connected /\ InFlight' = InFlight
    BY <2>1 DEF Connected, InFlight
  <2>4. QED
    BY <1>0, <1>1, <2>1, <2>2, <2>3 DEF ReadInv
<1>4. CASE Scan
  <2>1. /\ devices' \in SUBSET Handles
        /\ \A h \in devices' : h.scan = scans + 1
        /\ minerPc = "scan"
        /\ minerPc' = IF devices' = {} THEN "finish" ELSE "wait"
        /\ scans' = IF devices' = {} THEN scans ELSE scans + 1
        /\ \A h \in Handles :
             inits'[h].pc = IF h \in devices' THEN "init" ELSE inits[h].pc
        /\ InFlight = {}
        /\ UNCHANGED << conn, readAll, readers >>
    BY <1>4, ScanFindsNew
  <2>2. conn = << >> /\ Range(conn) = {}
    BY <1>0, <1>1, <2>1, EmptyIsInjective DEF ReadInv
  <2>3. InFlight' \subseteq devices' /\ Connected' \subseteq Connected
    BY <2>1 DEF InFlight, Connected
  <2>4. minerPc' = "wait" => readAll'[scans'] = "none"
    <3>1. ASSUME devices' # {}
          PROVE  readAll[scans + 1] = "none"
      <4>1. scans + 1 \in Scans
        BY <2>1, <3>1 DEF Handles
      <4>2. ~ scans + 1 <= scans
        BY <1>2
      <4>3. QED
        BY <1>0, <4>1, <4>2 DEF ScanInv
    <3>2. QED
      BY <2>1, <3>1
  <2>5. \A h \in devices' : h.scan = scans'
    BY <2>1
  <2>6. \A h \in Connected' : readAll'[h.scan] # "none"
    BY <1>0, <1>1, <2>1, <2>3 DEF ReadInv
  <2>7. minerPc' # "wait" => InFlight' = {}
    BY <2>1, <2>3
  <2>8. QED
    BY <1>0, <1>1, <2>1, <2>2, <2>3, <2>4, <2>5, <2>6, <2>7 DEF ReadInv
<1>5. CASE AwaitInit
  <2>1. /\ minerPc = "wait" /\ minerPc' = "finish"
        /\ readAll' = [readAll EXCEPT ![scans] = "timers"]
        /\ devices \subseteq Range(conn)
        /\ UNCHANGED << counted, devices, conn, scans, inits, readers >>
    <3>1. late' => ~ Orderly'
      BY DEF Orderly
    <3>2. devices \subseteq Range(conn)
      BY <1>5, <3>1, Zenon DEF AwaitInit
    <3>3. QED
      BY <1>5, <3>2 DEF AwaitInit, GoTo, initVars
  <2>2. Connected' = Connected /\ InFlight' = InFlight
    BY <2>1 DEF Connected, InFlight
  <2>3. InFlight = {}
    BY <1>0, <1>1, <2>1 DEF ReadInv, ConnInv, InFlight, Connected
  <2>4. scans \in Scans /\ devices # {}
    BY <1>0, <2>1, DriverAssumption DEF RoundInv, TypeOK, Scans
  <2>5. /\ readAll'[scans] = "timers"
        /\ readAll[scans] = "none"
        /\ \A t \in Scans : t # scans => readAll'[t] = readAll[t]
    BY <1>0, <1>1, <2>1, <2>4 DEF TypeOK, ReadInv
  <2>6. /\ \A h \in Connected : h.scan \in Scans
        /\ \A r \in readers : r.by \in Scans
    BY <1>0 DEF TypeOK, Connected, Handles, Reader
  <2>7. \A h \in Connected : readAll'[h.scan] # "none"
    BY <1>0, <1>1, <2>5, <2>6 DEF ReadInv
  <2>8. \A r \in readers : r.handle.scan = r.by /\ readAll'[r.by] = "done"
    BY <1>0, <1>1, <2>5, <2>6 DEF ReadInv
  <2>9. \A h \in Range(conn) :
          readAll'[h.scan] = "done" => readAll[h.scan] = "done"
    BY <1>0, <2>5, <2>6 DEF ConnInv
  <2>10. QED
    BY <1>0, <1>1, <2>1, <2>2, <2>3, <2>4, <2>7, <2>8, <2>9 DEF ReadInv
<1>6. CASE FinishScan
  <2>1. /\ minerPc = "finish" /\ minerPc' = "copy"
        /\ counted' = Len(conn)
        /\ devices' = {}
        /\ UNCHANGED << conn, scans, inits, readAll, readers >>
    BY <1>6 DEF FinishScan, GoTo, minerRest, initVars, readVars,
         lenVars
  <2>2. Connected' = Connected /\ InFlight' = InFlight
    BY <2>1 DEF Connected, InFlight
  <2>3. QED
    BY <1>0, <1>1, <2>1, <2>2 DEF ReadInv
<1>7. CASE CopyJobs \/ CopyBlocks \/ StartSending \/ SendJob \/ FinishRound
           \/ CloseOnDone
  <2>1. /\ minerPc \in {"copy", "send", "sending", "closing", "toggled"}
        /\ minerPc' \in {"top", "copy", "send", "sending", "stuck", "closing",
                         "toggled", "returned"}
        /\ UNCHANGED << counted, devices, conn, scans, inits, readAll, readers >>
    BY <1>7 DEF CopyJobs, CopyBlocks, StartSending, SendJob, Panic,
         FinishRound, CloseOnDone, ToggleRTS, ToggleFails, CloseDevice,
         FinishClosing, Crash, GoTo, minerRest, closingRest, initVars,
         readVars, lenVars, minerVars
  <2>2. Connected' = Connected /\ InFlight' = InFlight
    BY <2>1 DEF Connected, InFlight
  <2>3. QED
    BY <1>0, <1>1, <2>1, <2>2 DEF ReadInv
<1>8. ASSUME NEW h \in Handles, InitGoroutine(h)
      PROVE  ReadInv'
  <2>1. UNCHANGED << minerPc, counted, devices, scans, readAll, readers >>
    BY <1>8 DEF InitGoroutine, LoadCount, StoreCount, LoadConnected,
         StoreConnected, initRest, minerVars, readVars, lenVars
  <2>2. /\ h \in InFlight
        /\ \A g \in Handles : g # h => inits'[g] = inits[g]
    BY <1>0, <1>8, OneInitSteps DEF InitGoroutine, LoadCount, StoreCount,
         LoadConnected, StoreConnected, InFlight
  <2>3. InFlight' \subseteq InFlight
    BY <2>2 DEF InFlight
  <2>4. minerPc = "wait" /\ h.scan = scans /\ readAll[scans] = "none"
    BY <1>0, <1>1, <2>2 DEF ReadInv
  <2>5. CASE ~ StoreConnected(h)
    <3>1. /\ conn' = conn
          /\ inits'[h].pc # "done"
      BY <1>0, <1>8, <2>5, OneInitSteps DEF InitGoroutine, LoadCount,
           StoreCount, LoadConnected
    <3>2. Connected' \subseteq Connected
      BY <2>2, <3>1 DEF Connected
    <3>3. QED
      BY <1>0, <1>1, <2>1, <2>3, <3>1, <3>2 DEF ReadInv
  <2>6. CASE StoreConnected(h)
    <3>1. /\ inits[h].pc = "appending"
          /\ conn' = Append(inits[h].conn, h)
      BY <2>6 DEF StoreConnected, InitAt
    <3>2. inits[h].conn = conn
      BY <1>0, <1>1, <3>1 DEF OpenInv, Orderly
    <3>3. h \notin Range(conn) /\ conn \in Seq(Handles)
      BY <1>0, <3>1 DEF ConnInv, Connected, TypeOK
    <3>4. Range(conn') = Range(conn) \cup {h}
      BY <1>0, <3>1, <3>2, <3>3, AppendKeepsInjective DEF ConnInv
    <3>5. \A g \in Range(conn') : g.scan = scans
      BY <1>0, <1>1, <2>4, <3>4, EmptyIsInjective DEF ReadInv
    <3>6. \A g \in Connected' : g \in Connected \/ g.scan = scans
      BY <2>2, <2>4 DEF Connected
    <3>7. devices # {}
      BY <1>0, <2>4 DEF RoundInv
    <3>8. QED
      BY <1>0, <1>1, <2>1, <2>3, <2>4, <3>5, <3>6, <3>7 DEF ReadInv
  <2>7. QED
    BY <2>5, <2>6
<1>9. CASE (\E r \in readers : CloseByReader(r)) \/ CloseBySender
  <2>1. /\ conn' = << >>
        /\ UNCHANGED << minerPc, counted, devices, scans, inits, readAll >>
    BY <1>9, ClosesAll DEF CloseAll, minerVars, initVars
  <2>2. readers' \subseteq readers
    BY <1>9 DEF CloseByReader, CloseBySender, CloseFails, ReaderLeaves,
         readVars, lenVars
  <2>3. Connected' = Connected /\ InFlight' = InFlight
    BY <2>1 DEF Connected, InFlight
  <2>4. QED
    BY <1>0, <1>1, <2>1, <2>2, <2>3, EmptyIsInjective DEF ReadInv
<1>10. CASE \E s \in Scans : AsicReadAll(s)
  BY <1>1, <1>10, ReadersStep DEF AsicReadAll, MakeTimers, MakeTotals,
       MakeErrors, SetTimers, Crash, StartReaders, readRest, readAllRest,
       readJobRest, lenVars, initVars, minerVars
<1>11. CASE \E r \in readers : LookAtDevices(r) \/ ReadDevice(r)
                               \/ ResetDevice(r) \/ Report(r)
  BY <1>1, <1>11, ReadersStep DEF LookAtDevices, ReadDevice, ResetDevice,
       Report, Crash, readRest, readAllRest, readJobRest, lenVars, initVars,
       minerVars
<1>12. CASE CloseFails \/ CloseDone \/ EndMain
  <2>1. UNCHANGED << minerPc, counted, devices, conn, scans, inits, readAll,
                     readers >>
    BY <1>12 DEF CloseFails, Crash, CloseDone, EndMain, mainRest, minerVars,
         initVars, readVars, lenVars
  <2>2. Connected' = Connected /\ InFlight' = InFlight
    BY <2>1 DEF Connected, InFlight
  <2>3. QED
    BY <1>0, <1>1, <2>1, <2>2 DEF ReadInv
<1>13. QED
  BY <1>3, <1>4, <1>5, <1>6, <1>7, <1>8, <1>9, <1>10, <1>11, <1>12
     DEF Next, AonMiner, AsicReadJob

-----------------------------------------------------------------------------
(* The theorems *)

LEMMA InitInv == Init => IInv
<1> SUFFICES ASSUME Init
             PROVE  IInv
  OBVIOUS
<1>1. /\ Cardinality(Handles) \in Nat
      /\ Cardinality(Ports) \in Nat
  BY HandlesAreFinite, DriverAssumption, FS_CardinalityType
<1>2. /\ Known = {} /\ InFlight = {} /\ Connected = {} /\ Counted = {}
  BY DEF Init, Known, InFlight, Connected, Counted
<1>3. Cardinality({}) = 0
  BY FS_EmptySet
<1>4. TypeOK
  <2>1. inits \in [Handles ->
                     [pc : {"none", "init", "counting", "counted",
                            "appending", "done"},
                      count : 0 .. Cardinality(Ports), conn : Seq(Handles)]]
    BY <1>1, EmptyIsInjective DEF Init
  <2>2. conn \in Seq(Handles)
    BY EmptyIsInjective DEF Init
  <2>3. readAll \in [Scans -> {"none", "timers", "totals", "errors",
                                   "set", "start", "done"}]
    BY DEF Init
  <2>4. /\ 0 \in 0 .. Cardinality(Handles) /\ -1 \in -1 .. Cardinality(Handles)
        /\ 0 \in 0 .. Cardinality(Ports) /\ 0 \in 0 .. MaxScans /\ 0 \in 0 .. 0
    BY <1>1, DriverAssumption
  <2>5. QED
    BY <2>1, <2>2, <2>3, <2>4 DEF Init, TypeOK
<1>5. RoundInv
  BY DEF Init, RoundInv
<1>6. ConnInv
  BY EmptyIsInjective DEF Init, ConnInv
<1>7. ScanInv
  BY <1>2 DEF Init, ScanInv
<1>8. CountInv
  BY <1>2, <1>3 DEF Init, CountInv
<1>9. InitCountInv
  BY <1>2, <1>3 DEF Init, InitCountInv
<1>10. OpenInv
  BY DEF Init, OpenInv, NoDeviceLost
<1>11. ReadInv
  BY <1>2, EmptyIsInjective DEF Init, ReadInv
<1>12. QED
  BY <1>4, <1>5, <1>6, <1>7, <1>8, <1>9, <1>10, <1>11 DEF IInv

LEMMA InvStep == IInv /\ [Next]_vars => IInv'
<1> SUFFICES ASSUME IInv, [Next]_vars
             PROVE  IInv'
  OBVIOUS
<1>1. CASE Next
  BY <1>1, TypeStep, RoundStep, ConnStep, ScanStep, CountStep, InitCountStep,
     OpenStep, ReadStep DEF IInv
<1>2. CASE UNCHANGED vars
  <2>1. UNCHANGED << minerPc, counted, devices, bufferLen, rangeTo, sent, conn,
                     open, bare, toClose, scans, inits, initialized, readAll,
                     timers, totals, readErrors,
                     readers, jobsSent, done, shutdown, mainPc, raced, late,
                     revived >>
    BY <1>2 DEF vars, minerVars, initVars, readVars, lenVars, endVars,
         historyVars
  <2>2. /\ Known' = Known /\ Connected' = Connected /\ InFlight' = InFlight
        /\ Counted' = Counted
    BY <2>1 DEF Known, Connected, InFlight, Counted
  <2>3. TypeOK'
    BY <2>1 DEF IInv, TypeOK
  <2>4. RoundInv' /\ ConnInv' /\ ScanInv' /\ CountInv' /\ InitCountInv'
    BY <2>1, <2>2 DEF IInv, RoundInv, ConnInv, ScanInv, CountInv, InitCountInv
  <2>5. OpenInv'
    BY <2>1 DEF IInv, OpenInv, NoDeviceLost
  <2>6. ReadInv'
    BY <2>1, <2>2 DEF IInv, ReadInv, Orderly
  <2>7. QED
    BY <2>3, <2>4, <2>5, <2>6 DEF IInv
<1>3. QED
  BY <1>1, <1>2

LEMMA Invariance == Spec => []IInv
BY InitInv, InvStep, PTL DEF Spec

-----------------------------------------------------------------------------
(* The lengths of what AsicReadAll makes *)

(* While AsicReadAll is under way nothing is appended any more, unless a   *)
(* device is late; so what it has made is long enough for what is          *)
(* connected, then and until the next scan, and for the readers.           *)
LengthInv ==
  ~ late =>
    /\ \A h \in InFlight : minerPc = "wait" /\ h \in devices
    /\ \A s \in Scans : s = scans =>
         /\ readAll[s] \notin {"none", "timers"} => Len(conn) <= timers
         /\ readAll[s] \notin {"none", "timers", "totals"} =>
              Len(conn) <= totals
         /\ readAll[s] \notin {"none", "timers", "totals", "errors"} =>
              Len(conn) <= readErrors
    /\ \A r \in readers : r.by = scans =>
         r.devid <= totals /\ r.devid <= readErrors

(* A reader is started last. *)
StartInv ==
  /\ minerPc = "wait" => readAll[scans] = "none"
  /\ \A r \in readers : readAll[r.by] = "done"

(* AonMiner closes done only when it panics in a round that it does not    *)
(* finish then; if main has closed it, AonMiner returns between rounds.    *)
EndInv ==
  /\ minerPc \in {"closing", "toggled", "returned"} => done
  /\ shutdown => minerPc = "returned"
  /\ mainPc = "waiting" /\ done => minerPc = "returned" /\ sent < rangeTo
  /\ mainPc \in {"stopping", "ended"} =>
       done /\ (minerPc = "returned" => sent = 0 /\ rangeTo = 0)
  /\ mainPc = "ended" => shutdown

IndexInv ==
  /\ StartInv
  /\ LengthInv
  /\ CrashNeedsCause

LEMMA EndStep ==
  ASSUME IInv, EndInv, Next
  PROVE  EndInv'
<1>0. RoundInv /\ TypeOK /\ Running
  BY DEF IInv, Next
<1>1. CASE Scan
  <2>1. minerPc' \in {"finish", "wait"} /\ minerPc = "scan"
    BY <1>1, ScanFindsNew
  <2>2. UNCHANGED << done, shutdown, mainPc >>
    BY <1>1 DEF Scan, endVars
  <2>3. QED
    BY <1>0, <2>1, <2>2 DEF EndInv, Running
<1>2. CASE \/ LookAtDone \/ AwaitInit \/ FinishScan \/ CopyJobs \/ CopyBlocks
           \/ StartSending \/ FinishRound
  <2>1. /\ minerPc # "returned" /\ minerPc' # "returned"
        /\ minerPc \notin {"closing", "toggled"}
        /\ minerPc' \in {"closing", "toggled"} => done
        /\ UNCHANGED << done, shutdown, mainPc >>
    BY <1>2 DEF LookAtDone, closingRest, AwaitInit, FinishScan, CopyJobs,
         CopyBlocks, StartSending, FinishRound, GoTo, minerRest, endVars
  <2>2. QED
    BY <1>0, <2>1 DEF EndInv, Running
<1>3. CASE SendJob
  <2>1. minerPc = "sending" /\ sent < rangeTo
    BY <1>3 DEF SendJob
  <2>2. CASE UNCHANGED << minerPc, endVars >>
    BY <1>0, <2>1, <2>2 DEF EndInv, Running, endVars
  <2>3. CASE /\ ~ done /\ minerPc' = "returned" /\ done' = TRUE
             /\ shutdown' = TRUE /\ UNCHANGED << sent, rangeTo, mainPc >>
    BY <1>0, <2>1, <2>3 DEF EndInv, Running
  <2>4. CASE done /\ mainPc' = "crashed" /\ UNCHANGED << minerPc, done, shutdown >>
    BY <1>0, <2>1, <2>4 DEF EndInv
  <2>5. QED
    BY <1>3, <2>2, <2>3, <2>4 DEF SendJob, Panic, Crash, minerRest,
         minerVars
<1>4. CASE CloseOnDone
  <2>1. minerPc \in {"closing", "toggled"} /\ sent = 0 /\ rangeTo = 0
    BY <1>0, <1>4 DEF CloseOnDone, ToggleRTS, ToggleFails, CloseDevice,
       FinishClosing, GoTo, RoundInv
  <2>2. CASE minerPc' = "returned" /\ shutdown' = TRUE
             /\ UNCHANGED << sent, rangeTo, done, mainPc >>
    BY <1>0, <2>1, <2>2 DEF EndInv, Running
  <2>3. CASE /\ minerPc' \in {"closing", "toggled"}
             /\ UNCHANGED << sent, rangeTo, done, shutdown, mainPc >>
    BY <1>0, <2>1, <2>3 DEF EndInv, Running
  <2>4. CASE mainPc' = "crashed" /\ UNCHANGED << minerPc, done, shutdown >>
    BY <2>1, <2>4 DEF EndInv
  <2>5. QED
    BY <1>4, <2>2, <2>3, <2>4 DEF CloseOnDone, ToggleRTS, ToggleFails,
       CloseDevice, FinishClosing, GoTo, Crash, closingRest, minerVars
<1>5. CASE CloseDone \/ EndMain
  <2>1. UNCHANGED << minerPc, sent, rangeTo, shutdown >>
    BY <1>5 DEF CloseDone, EndMain, mainRest, minerVars
  <2>2. \/ mainPc = "waiting" /\ ~ done /\ done' = TRUE /\ mainPc' = "stopping"
        \/ mainPc' = "crashed" /\ done' = done
        \/ mainPc = "stopping" /\ shutdown /\ mainPc' = "ended" /\ done' = done
    BY <1>5 DEF CloseDone, EndMain
  <2>3. QED
    BY <2>1, <2>2 DEF EndInv
<1>6. CASE /\ UNCHANGED << minerVars, done, shutdown >>
           /\ mainPc' \in {mainPc, "crashed"}
  BY <1>0, <1>6 DEF EndInv, minerVars, Running
<1>7. QED
  BY <1>1, <1>2, <1>3, <1>4, <1>5, <1>6 DEF Next, AonMiner, InitGoroutine,
       LoadCount, StoreCount, LoadConnected, StoreConnected, AsicReadAll,
       MakeTimers, MakeTotals, MakeErrors, SetTimers, StartReaders, Crash,
       AsicReadJob, LookAtDevices, ReadDevice, ResetDevice, Report,
       CloseByReader, CloseBySender, CloseFails, initRest, readRest,
       readAllRest, readJobRest, lenVars, endVars

(* The reader of a scan is started when the scan is over, at a place in    *)
(* ConnectedDevices.                                                       *)
LEMMA IndexReadAll ==
  ASSUME IInv, IndexInv, Running, NEW s \in Scans, AsicReadAll(s)
  PROVE  IndexInv'
<1>0. TypeOK /\ ScanInv /\ StartInv /\ LengthInv
  BY DEF IInv, IndexInv
<1>1. /\ readAll[s] \notin {"none", "done"}
      /\ UNCHANGED << minerPc, devices, conn, scans, inits, late, done >>
  BY DEF AsicReadAll, MakeTimers, MakeTotals, MakeErrors, SetTimers,
       StartReaders, Crash, readRest, readAllRest, readJobRest, lenVars,
       minerVars, initVars, endVars, historyVars
<1>2. s = scans /\ scans \in Nat /\ minerPc # "wait"
  BY <1>0, <1>1 DEF ScanInv, TypeOK, StartInv
<1>3. \A t \in Scans : t # s => readAll'[t] = readAll[t]
  BY <1>0 DEF AsicReadAll, MakeTimers, MakeTotals, MakeErrors, SetTimers,
       StartReaders, Crash, readVars, lenVars, TypeOK
<1>4. \A t \in Scans : t # s => readAll[t] \in {"none", "done"}
  BY <1>0, <1>2 DEF ScanInv
<1>5. InFlight' = InFlight
  BY <1>1 DEF InFlight
<1>6. \A r \in readers : r.by \in Scans /\ r.by # s
  BY <1>0, <1>1 DEF TypeOK, Reader, StartInv
<1>7. \A r \in readers : r.by # scans
  BY <1>2, <1>6
<1>8. /\ Len(conn) \in Nat
      /\ timers \in Nat /\ totals \in Nat /\ readErrors \in Nat
  BY <1>0 DEF TypeOK
<1>9. CASE MakeTimers(s) \/ MakeTotals(s) \/ MakeErrors(s)
  <2>1. /\ readAll'[s] \in {"totals", "errors", "set"}
        /\ UNCHANGED << readers, mainPc >>
    BY <1>0, <1>9 DEF MakeTimers, MakeTotals, MakeErrors, TypeOK, readAllRest,
       readRest, endVars
  <2>2. /\ readAll'[s] \notin {"none", "timers"} => Len(conn') <= timers'
        /\ readAll'[s] \notin {"none", "timers", "totals"} /\ ~ late =>
             Len(conn') <= totals'
        /\ readAll'[s] \notin {"none", "timers", "totals", "errors"}
             /\ ~ late => Len(conn') <= readErrors'
        \/ late
    <3>1. CASE MakeTimers(s)
      BY <1>0, <1>1, <1>8, <3>1 DEF MakeTimers, TypeOK
    <3>2. CASE MakeTotals(s)
      BY <1>0, <1>1, <1>2, <1>8, <3>2 DEF MakeTotals, TypeOK, LengthInv
    <3>3. CASE MakeErrors(s)
      BY <1>0, <1>1, <1>2, <1>8, <3>3 DEF MakeErrors, TypeOK, LengthInv
    <3>4. QED
      BY <1>9, <3>1, <3>2, <3>3
  <2>3. StartInv'
    BY <1>0, <1>1, <1>2, <1>3, <1>6, <2>1 DEF StartInv
  <2>4. LengthInv'
    BY <1>0, <1>1, <1>2, <1>5, <1>7, <2>1, <2>2 DEF LengthInv
  <2>5. CrashNeedsCause'
    BY <2>1 DEF Running, CrashNeedsCause
  <2>6. QED
    BY <2>3, <2>4, <2>5 DEF IndexInv
<1>10. CASE SetTimers(s)
  <2>1. readAll[s] = "set" /\ UNCHANGED << readers, lenVars >>
    BY <1>10 DEF SetTimers, Crash, readVars
  <2>2. CASE readAll' = [readAll EXCEPT ![s] = "start"] /\ mainPc' = mainPc
    <3>1. readAll'[s] = "start"
      BY <1>0, <2>2 DEF TypeOK
    <3>2. StartInv'
      BY <1>0, <1>1, <1>2, <1>3, <1>6, <2>1, <3>1 DEF StartInv
    <3>3. LengthInv'
      BY <1>0, <1>1, <1>2, <1>5, <1>7, <2>1, <3>1 DEF LengthInv, lenVars
    <3>4. CrashNeedsCause'
      BY <2>2 DEF Running, CrashNeedsCause
    <3>5. QED
      BY <3>2, <3>3, <3>4 DEF IndexInv
  <2>3. CASE /\ Len(conn) > timers \/ Len(conn) > totals
             /\ readAll' = readAll
    <3>1. late
      BY <1>0, <1>2, <1>8, <2>1, <2>3 DEF LengthInv
    <3>2. QED
      BY <1>0, <1>1, <2>1, <2>3, <3>1
         DEF IndexInv, StartInv, LengthInv, CrashNeedsCause
  <2>4. QED
    BY <1>10, <2>2, <2>3 DEF SetTimers, Crash, readAllRest, readRest, endVars,
       readVars
<1>11. CASE StartReaders(s)
  <2>1. /\ readAll[s] = "start" /\ readAll' = [readAll EXCEPT ![s] = "done"]
        /\ readers' = readers \cup
             {[by |-> s, devid |-> i, handle |-> conn[i], pc |-> "look"] :
                i \in DOMAIN conn}
        /\ UNCHANGED << lenVars, mainPc >>
    BY <1>11 DEF StartReaders, readAllRest, readRest, endVars
  <2>2. readAll'[s] = "done"
    BY <1>0, <2>1 DEF TypeOK
  <2>3. \A r \in readers' :
          r \in readers \/ (r.by = s /\ r.devid \in DOMAIN conn)
    BY <2>1
  <2>4. DOMAIN conn = 1 .. Len(conn)
    BY <1>0 DEF TypeOK
  <2>5. ~ late => /\ Len(conn) <= timers /\ Len(conn) <= totals
                  /\ Len(conn) <= readErrors
    BY <1>0, <1>2, <2>1 DEF LengthInv
  <2>6. \A r \in readers' : readAll'[r.by] = "done"
    BY <1>0, <1>3, <1>6, <2>2, <2>3 DEF StartInv
  <2>7. ~ late => \A r \in readers' : r.by = scans =>
                    r.devid <= totals /\ r.devid <= readErrors
    <3>1. SUFFICES ASSUME ~ late, NEW r \in readers', r.by = scans
                   PROVE  r.devid <= totals /\ r.devid <= readErrors
      OBVIOUS
    <3>2. r.devid \in 1 .. Len(conn)
      BY <1>7, <2>3, <2>4, <3>1
    <3>3. QED
      BY <1>8, <2>5, <3>1, <3>2
  <2>8. StartInv'
    BY <1>0, <1>1, <1>2, <1>3, <2>2, <2>6 DEF StartInv
  <2>9. LengthInv'
    BY <1>0, <1>1, <1>2, <1>5, <2>1, <2>2, <2>5, <2>7 DEF LengthInv, lenVars
  <2>10. CrashNeedsCause'
    BY <2>1 DEF Running, CrashNeedsCause
  <2>11. QED
    BY <2>8, <2>9, <2>10 DEF IndexInv
<1>12. QED
  BY <1>9, <1>10, <1>11 DEF AsicReadAll

(* A reader keeps its scan and its place, and only one left over from an   *)
(* earlier scan can overrun what AsicReadAll has made.                     *)
LEMMA IndexReader ==
  ASSUME IInv, IndexInv, Running, NEW r \in readers, AsicReadJob(r)
  PROVE  IndexInv'
<1>0. TypeOK /\ ScanInv /\ StartInv /\ LengthInv
  BY DEF IInv, IndexInv
<1>1. /\ UNCHANGED << minerPc, devices, scans, inits, readAll, lenVars, late >>
      /\ conn' = conn \/ conn' = << >>
      /\ \/ mainPc' = mainPc
         \/ /\ mainPc' = "crashed" /\ Overruns(r)
            /\ UNCHANGED << readers, conn >>
      /\ \/ readers' = readers
         \/ ReaderLeaves(r)
         \/ \E to \in {"look", "read", "reset", "report", "close"} :
              ReaderGoes(r, to)
  BY DEF AsicReadJob, LookAtDevices, ReadDevice, ResetDevice, Report,
     CloseByReader, CloseAll, Crash, Overruns, readRest, readJobRest,
     minerVars, initVars, readVars, lenVars, endVars, historyVars
<1>2. \A to : /\ [r EXCEPT !.pc = to].devid = r.devid
              /\ [r EXCEPT !.pc = to].by = r.by
  BY <1>0 DEF TypeOK, Reader
<1>3. \A q \in readers' : \E p \in readers : q.by = p.by /\ q.devid = p.devid
  BY <1>1, <1>2 DEF ReaderLeaves, ReaderGoes
<1>4. Len(conn') <= Len(conn)
  <2>1. Len(conn) \in Nat /\ Len(<< >>) = 0
    BY <1>0, EmptyIsInjective DEF TypeOK
  <2>2. QED
    BY <1>1, <2>1
<1>5. /\ Len(conn') \in Nat /\ Len(conn) \in Nat
      /\ timers \in Nat /\ totals \in Nat /\ readErrors \in Nat
  BY <1>0, <1>1, EmptyIsInjective DEF TypeOK
<1>6. InFlight' = InFlight
  BY <1>1 DEF InFlight
<1>7. StartInv'
  BY <1>0, <1>1, <1>3 DEF StartInv
<1>8. LengthInv'
  <2>1. SUFFICES ASSUME ~ late
                 PROVE  LengthInv'
    BY <1>1 DEF LengthInv
  <2>2. \A n \in Nat : Len(conn) <= n => Len(conn') <= n
    BY <1>4, <1>5
  <2>3. \A q \in readers' : q.by = scans =>
          q.devid <= totals /\ q.devid <= readErrors
    BY <1>0, <1>3, <2>1 DEF LengthInv
  <2>4. QED
    BY <1>0, <1>1, <1>5, <1>6, <2>1, <2>2, <2>3 DEF LengthInv, lenVars
<1>9. CrashNeedsCause'
  <2>1. SUFFICES ASSUME mainPc' = "crashed", ~ late
                 PROVE  \E q \in readers' : q.by < scans' /\ Overruns(q)'
    BY <1>1 DEF CrashNeedsCause
  <2>2. Overruns(r) /\ UNCHANGED << readers, conn >>
    BY <1>1, <2>1 DEF Running
  <2>3. /\ r.by \in Scans /\ r.by \in Nat /\ scans \in Nat
        /\ r.devid \in Nat
    BY <1>0, DriverAssumption DEF TypeOK, Reader, Scans
  <2>4. readAll[r.by] = "done"
    BY <1>0 DEF StartInv
  <2>5. r.by <= scans
    BY <1>0, <2>3, <2>4 DEF ScanInv
  <2>6. r.by # scans
    BY <1>0, <1>5, <2>1, <2>2, <2>3, <2>4 DEF LengthInv, Overruns
  <2>7. r.by < scans
    BY <2>3, <2>5, <2>6
  <2>8. Overruns(r)'
    BY <1>1, <2>2 DEF Overruns, lenVars
  <2>9. QED
    BY <1>1, <2>2, <2>7, <2>8
<1>10. QED
  BY <1>7, <1>8, <1>9 DEF IndexInv

(* An init goroutine appends its device while AonMiner waits, and then     *)
(* nothing is started, unless the device is late.                          *)
LEMMA IndexInitStep ==
  ASSUME IInv, IndexInv, Running, NEW h \in Handles, InitGoroutine(h)
  PROVE  IndexInv'
<1>0. TypeOK /\ ScanInv /\ StartInv /\ LengthInv
  BY DEF IInv, IndexInv
<1>1. UNCHANGED << minerPc, devices, scans, readAll, lenVars, readers,
                   late, done, mainPc >>
  BY DEF InitGoroutine, LoadCount, StoreCount, LoadConnected, StoreConnected,
       initRest, minerVars, readVars, lenVars, endVars
<1>2. h \in InFlight /\ InFlight' \subseteq InFlight
  BY <1>0, OneInitSteps DEF InitGoroutine, LoadCount, StoreCount,
       LoadConnected, StoreConnected, InFlight
<1>3. ~ late => \A s \in Scans : readAll[s] \in {"none", "done"}
                         /\ (s = scans => readAll[s] = "none")
  BY <1>0, <1>2 DEF LengthInv, StartInv, ScanInv
<1>4. StartInv' /\ LengthInv'
  BY <1>0, <1>1, <1>2, <1>3 DEF StartInv, LengthInv
<1>5. CrashNeedsCause'
  BY <1>1 DEF Running, CrashNeedsCause
<1>6. QED
  BY <1>4, <1>5 DEF IndexInv

(* AonMiner begins a scan when the last one is through, and ends it with   *)
(* all its devices connected, unless one is late.                          *)
LEMMA IndexMiner ==
  ASSUME IInv, IndexInv, EndInv, Running, AonMiner
  PROVE  IndexInv'
<1>0. TypeOK /\ RoundInv /\ ConnInv /\ ScanInv /\ StartInv /\ LengthInv
  BY DEF IInv, IndexInv
<1>1. scans \in Nat /\ \A r \in readers : r.by \in Scans
  BY <1>0 DEF TypeOK, Reader
<1>2. CASE Scan
  <2>1. /\ minerPc' \in {"finish", "wait"}
        /\ devices' \in SUBSET Handles
        /\ scans' = IF devices' = {} THEN scans ELSE scans + 1
        /\ minerPc' = IF devices' = {} THEN "finish" ELSE "wait"
        /\ \A g \in Handles :
             inits'[g].pc = IF g \in devices' THEN "init" ELSE inits[g].pc
        /\ InFlight = {}
        /\ \A s \in Scans : readAll[s] \in {"none", "done"}
        /\ UNCHANGED << conn, readAll, lenVars, readers, late >>
    BY <1>2, ScanFindsNew
  <2>2. UNCHANGED << done, mainPc >>
    BY <1>2 DEF Scan, endVars
  <2>3. InFlight' \subseteq devices'
    BY <2>1 DEF InFlight
  <2>4. \A r \in readers : r.by <= scans
    BY <1>0, <1>1 DEF StartInv, ScanInv
  <2>5. \A r \in readers : r.by = scans' => scans' = scans
    <3>1. \A r \in readers : r.by \in Nat
      BY <1>1 DEF Scans
    <3>2. QED
      BY <1>1, <2>1, <2>4, <3>1
  <2>6. minerPc' = "wait" => readAll[scans'] = "none"
    <3>1. SUFFICES ASSUME minerPc' = "wait"
                   PROVE  readAll[scans + 1] = "none"
      BY <2>1
    <3>2. scans + 1 \in Scans
      BY <1>2, <2>1, <3>1, ScanFindsNew DEF Handles
    <3>3. QED
      BY <1>0, <1>1, <3>2 DEF ScanInv
  <2>7. StartInv'
    BY <1>0, <2>1, <2>6 DEF StartInv
  <2>8. LengthInv'
    BY <1>0, <2>1, <2>3, <2>5, <2>6 DEF LengthInv, lenVars
  <2>9. CrashNeedsCause'
    BY <2>2 DEF Running, CrashNeedsCause
  <2>10. QED
    BY <2>7, <2>8, <2>9 DEF IndexInv
<1>3. CASE AwaitInit
  <2>1. /\ minerPc = "wait" /\ minerPc' = "finish"
        /\ readAll' = [readAll EXCEPT ![scans] = "timers"]
        /\ late' = (late \/ ~ devices \subseteq Range(conn))
        /\ UNCHANGED << devices, conn, scans, inits, lenVars, readers,
                        done, mainPc >>
    BY <1>3 DEF AwaitInit, GoTo, initVars, endVars
  <2>2. scans \in Scans /\ readAll[scans] = "none"
    BY <1>0, <2>1, DriverAssumption DEF RoundInv, StartInv, TypeOK, Scans
  <2>3. /\ readAll'[scans] = "timers"
        /\ \A t \in Scans : t # scans => readAll'[t] = readAll[t]
    BY <1>0, <2>1, <2>2 DEF TypeOK
  <2>4. \A r \in readers : r.by # scans
    BY <1>0, <2>2 DEF StartInv
  <2>5. StartInv'
    BY <1>0, <1>1, <2>1, <2>3, <2>4 DEF StartInv
  <2>6. LengthInv'
    <3>1. SUFFICES ASSUME ~ late, devices \subseteq Range(conn)
                   PROVE  LengthInv'
      BY <2>1 DEF LengthInv
    <3>2. InFlight' = {}
      <4>1. InFlight \subseteq Connected
        BY <1>0, <3>1 DEF LengthInv, ConnInv
      <4>2. InFlight \cap Connected = {}
        BY DEF InFlight, Connected
      <4>3. InFlight' = InFlight
        BY <2>1 DEF InFlight
      <4>4. QED
        BY <4>1, <4>2, <4>3
    <3>3. QED
      BY <1>0, <2>1, <2>3, <2>4, <3>1, <3>2 DEF LengthInv, lenVars
  <2>7. CrashNeedsCause'
    BY <2>1 DEF Running, CrashNeedsCause
  <2>8. QED
    BY <2>5, <2>6, <2>7 DEF IndexInv
<1>4. CASE FinishScan
  <2>1. /\ minerPc = "finish" /\ minerPc' = "copy"
        /\ UNCHANGED << conn, scans, inits, readAll, lenVars, readers, late,
                        done, mainPc >>
    BY <1>4 DEF FinishScan, GoTo, minerRest, initVars, readVars,
         lenVars, historyVars
  <2>2. InFlight' = InFlight
    BY <2>1 DEF InFlight
  <2>3. StartInv' /\ LengthInv'
    BY <1>0, <2>1, <2>2 DEF StartInv, LengthInv, lenVars
  <2>4. CrashNeedsCause'
    BY <2>1 DEF Running, CrashNeedsCause
  <2>5. QED
    BY <2>3, <2>4 DEF IndexInv
<1>5. CASE LookAtDone \/ CopyJobs \/ CopyBlocks \/ StartSending \/ FinishRound
  <2>1. /\ minerPc # "wait" /\ minerPc' # "wait"
        /\ UNCHANGED << devices, conn, scans, inits, readAll, lenVars,
                        readers, late, mainPc >>
    BY <1>5 DEF LookAtDone, closingRest, CopyJobs, CopyBlocks, StartSending,
         FinishRound, GoTo, minerRest, initVars, readVars, lenVars, historyVars
  <2>2. InFlight' = InFlight
    BY <2>1 DEF InFlight
  <2>3. StartInv' /\ LengthInv'
    BY <1>0, <2>1, <2>2 DEF StartInv, LengthInv, lenVars
  <2>4. CrashNeedsCause'
    BY <2>1 DEF Running, CrashNeedsCause
  <2>5. QED
    BY <2>3, <2>4 DEF IndexInv
<1>6. CASE SendJob \/ CloseOnDone
  <2>1. /\ minerPc # "wait" /\ minerPc' # "wait"
        /\ UNCHANGED << devices, conn, scans, inits, readAll, lenVars,
                        readers, late >>
    <3>1. CASE SendJob
      BY <3>1 DEF SendJob, Panic, Crash, minerVars, minerRest, initVars,
         readVars, historyVars
    <3>2. CASE CloseOnDone
      BY <3>2 DEF CloseOnDone, ToggleRTS, ToggleFails, CloseDevice,
         FinishClosing, GoTo, Crash, minerVars, closingRest, initVars,
         readVars, historyVars
    <3>3. QED
      BY <1>6, <3>1, <3>2
  <2>2. \/ mainPc' = mainPc
        \/ /\ UNCHANGED << minerVars, bare >>
           /\ minerPc = "sending" /\ done' /\ sent < rangeTo
           /\ sent >= Len(conn)
        \/ /\ UNCHANGED << minerVars, bare >>
           /\ minerPc \in {"closing", "toggled"}
           /\ toClose # << >> /\ Head(toClose) \in bare
    BY <1>6 DEF SendJob, CloseOnDone, ToggleRTS, ToggleFails, CloseDevice,
         FinishClosing, Panic, Crash, minerRest, closingRest, endVars
  <2>3. InFlight' = InFlight
    BY <2>1 DEF InFlight
  <2>4. StartInv' /\ LengthInv'
    BY <1>0, <2>1, <2>3 DEF StartInv, LengthInv, lenVars
  <2>5. CrashNeedsCause'
    BY <2>1, <2>2 DEF Running, CrashNeedsCause, minerVars
  <2>6. QED
    BY <2>4, <2>5 DEF IndexInv
<1>7. QED
  BY <1>2, <1>3, <1>4, <1>5, <1>6 DEF AonMiner

(* The others leave the readers and what AsicReadAll has made alone.  Main *)
(* ends the program when AonMiner has closed done already, and an append   *)
(* can undo others only where appends overlap.                             *)
LEMMA IndexRest ==
  ASSUME IInv, IndexInv, EndInv, Running,
         CloseBySender \/ CloseFails \/ CloseDone \/ EndMain
  PROVE  IndexInv'
<1>0. TypeOK /\ StartInv /\ LengthInv /\ OpenInv
  BY DEF IInv, IndexInv
<1>1. /\ conn' = conn \/ conn' = << >>
      /\ UNCHANGED << minerPc, sent, rangeTo, devices, scans, inits, readAll,
                      lenVars, readers, late >>
  BY DEF CloseBySender, CloseFails, Crash, CloseAll, CloseDone, EndMain,
     mainRest, minerVars, initVars, readVars, endVars, historyVars
<1>2. /\ Len(conn') \in Nat /\ Len(conn) \in Nat /\ Len(conn') <= Len(conn)
      /\ timers \in Nat /\ totals \in Nat /\ readErrors \in Nat
  BY <1>0, <1>1, EmptyIsInjective DEF TypeOK
<1>3. InFlight' = InFlight
  BY <1>1 DEF InFlight
<1>4. StartInv'
  BY <1>0, <1>1 DEF StartInv
<1>5. LengthInv'
  <2>1. \A n \in Nat : Len(conn) <= n => Len(conn') <= n
    BY <1>2
  <2>2. QED
    BY <1>0, <1>1, <1>2, <1>3, <2>1 DEF LengthInv, lenVars
<1>6. CrashNeedsCause'
  <2>1. CASE CloseFails
    <3>1. UNCHANGED << conn, bare, readers, jobsSent, raced >>
      BY <2>1 DEF CloseFails, Crash, readVars, historyVars
    <3>2. \/ \E r \in readers : r.pc = "read" /\ r.handle \in Range(conn) \ bare
          \/ raced
      <4>1. ASSUME NEW h \in Handles, inits[h].pc = "appending",
                   Len(inits[h].conn) + 1 < Len(conn)
            PROVE  raced
        BY <1>0, <1>2, <4>1 DEF OpenInv
      <4>2. QED
        BY <2>1, <4>1 DEF CloseFails
    <3>3. Closers /\ Closers' = Closers
      BY <2>1, <3>1 DEF CloseFails, Closers
    <3>4. QED
      BY <3>1, <3>2, <3>3 DEF CrashNeedsCause
  <2>2. CASE CloseBySender \/ CloseDone \/ EndMain
    <3>1. mainPc' = "crashed" =>
            mainPc = "crashed" \/ (mainPc = "waiting" /\ done)
      BY <2>2 DEF CloseBySender, CloseDone, EndMain, endVars
    <3>2. QED
      BY <1>1, <3>1 DEF Running, CrashNeedsCause, EndInv
  <2>3. QED
    BY <2>1, <2>2
<1>7. QED
  BY <1>4, <1>5, <1>6 DEF IndexInv

LEMMA IndexStep ==
  IInv /\ IndexInv /\ EndInv /\ [Next]_vars => IndexInv' /\ EndInv'
<1> SUFFICES ASSUME IInv, IndexInv, EndInv, [Next]_vars
             PROVE  IndexInv' /\ EndInv'
  OBVIOUS
<1>1. CASE Next
  BY <1>1, EndStep, IndexMiner, IndexInitStep, IndexReadAll, IndexReader,
       IndexRest DEF Next
<1>2. CASE UNCHANGED vars
  <2>1. UNCHANGED << minerPc, sent, rangeTo, toClose, devices, conn, bare,
                     scans, inits, readAll, timers, totals, readErrors,
                     readers, jobsSent, done, shutdown, mainPc, raced, late >>
    BY <1>2 DEF vars, minerVars, initVars, readVars, lenVars, endVars,
       historyVars
  <2>2. InFlight' = InFlight
    BY <2>1 DEF InFlight
  <2>3. StartInv' /\ LengthInv' /\ EndInv'
    BY <2>1, <2>2 DEF IndexInv, EndInv, StartInv, LengthInv
  <2>4. CrashNeedsCause'
    BY <2>1 DEF IndexInv, CrashNeedsCause, Closers, Overruns
  <2>5. QED
    BY <2>3, <2>4 DEF IndexInv
<1>3. QED
  BY <1>1, <1>2

LEMMA IndexInit == Init => IndexInv /\ EndInv
BY DEF Init, IndexInv, EndInv, StartInv, LengthInv, InFlight, CrashNeedsCause

-----------------------------------------------------------------------------
(* What is proved *)

(* Every variable keeps its type: in particular *initialized never exceeds *)
(* the devices of a scan, although it is incremented without a lock        *)
(* (aonminer.go:252), and no sequence of devices holds one twice.          *)
THEOREM TypeCorrect == Spec => []TypeOK
<1>1. IInv => TypeOK
  BY DEF IInv
<1>2. QED
  BY <1>1, Invariance, PTL

(* For any number of devices and of scans, AonMiner does not index past    *)
(* stratumJobBuffer (miner.go:170, 180, 192, 214): each scan makes room    *)
(* for what it found, and a device is connected once.                      *)
THEOREM BufferIsLongEnough == Spec => []BufferCoversDevices
<1>1. IInv => BufferCoversDevices
  <2> SUFFICES ASSUME IInv, minerPc \in {"copy", "send", "sending"}
               PROVE  Len(conn) <= bufferLen
    BY DEF BufferCoversDevices
  <2>1. TypeOK /\ RoundInv /\ ConnInv /\ CountInv
    BY DEF IInv
  <2>2. Len(conn) <= Cardinality(Known)
    BY <2>1, Sizes
  <2>3. Cardinality(devices) = 0
    BY <2>1, FS_EmptySet DEF RoundInv
  <2>4. bufferLen \in Nat
    BY <2>1, Sizes DEF TypeOK
  <2>5. QED
    BY <2>1, <2>2, <2>3, <2>4 DEF CountInv
<1>2. QED
  BY <1>1, Invariance, PTL

(* Unless appends to ConnectedDevices overlap (miner.go:141), a device     *)
(* that is claimed is connected, on its way there, or was opened again by  *)
(* a reset (usb.go:402) after all had been closed.                         *)
THEOREM DevicesAreNotLost == Spec => []NoDeviceLost
<1>1. IInv => NoDeviceLost
  BY DEF IInv, OpenInv, NoDeviceLost
<1>2. QED
  BY <1>1, Invariance, PTL

(* Where no appends overlap and no device is late, every connected device  *)
(* has one reader (aonminer.go:146-148), whatever readers of earlier scans *)
(* are still about.                                                        *)
THEOREM DevicesAreRead == Spec => []EveryDeviceIsRead
<1>1. IInv => EveryDeviceIsRead
  <2> SUFFICES ASSUME IInv, ~ raced, ~ late, NEW h \in Range(conn)
               PROVE  LET by == {r \in readers : r.handle = h}
                      IN  IF MinerHolds \/ \E s \in Scans :
                               readAll[s] \notin {"none", "done"}
                          THEN Cardinality(by) <= 1 ELSE Cardinality(by) = 1
    BY DEF EveryDeviceIsRead
  <2> DEFINE by == {r \in readers : r.handle = h}
  <2>1. TypeOK /\ ConnInv /\ ReadInv /\ Orderly
    BY DEF IInv, Orderly
  <2>2. \A r, q \in by : r = q
    BY <2>1 DEF ReadInv
  <2>3. Cardinality(by) = 0 \/ Cardinality(by) = 1
    <3>1. by = {} \/ \E r : by = {r}
      BY <2>2
    <3>2. QED
      BY <3>1, FS_EmptySet, FS_Singleton
  <2>4. ASSUME ~ MinerHolds,
               ~ \E s \in Scans : readAll[s] \notin {"none", "done"}
        PROVE  Cardinality(by) = 1
    <3>1. h \in Connected /\ h.scan \in Scans
      BY <2>1 DEF ConnInv, Connected, Handles
    <3>2. readAll[h.scan] # "none"
      BY <2>1, <2>4, <3>1 DEF ReadInv, MinerHolds
    <3>3. readAll[h.scan] = "done"
      BY <2>1, <2>4, <3>1, <3>2 DEF TypeOK
    <3>4. \E r \in readers : r.handle = h
      BY <2>1, <3>3 DEF ReadInv
    <3>5. \E r : by = {r}
      BY <2>2, <3>4
    <3>6. QED
      BY <3>5, FS_Singleton
  <2>5. QED
    BY <2>3, <2>4
<1>2. QED
  BY <1>1, Invariance, PTL

LEMMA IndexInvariant == Spec => [](IndexInv /\ EndInv)
BY Invariance, IndexInit, IndexStep, PTL DEF Spec

(* The program is ended by what CrashNeedsCause lists and by nothing else: *)
(* AsicReadAll and the readers of the last scan stay within WorkTimer,     *)
(* WorkTotal and ReadErrors, whatever is closed between the moments at     *)
(* which ConnectedDevices is looked at (aonminer.go:135-148), unless a     *)
(* device was connected late; a bare device panics only in a teardown that *)
(* meets a reset or follows a failed one (miner.go:80-85,                  *)
(* aonminer.go:291-295); and main closes done a second time only if        *)
(* AonMiner has panicked in a round (miner.go:63, 213, smminer.go:194).    *)
THEOREM CrashesHaveCauses == Spec => []CrashNeedsCause
<1>1. IndexInv => CrashNeedsCause
  BY DEF IndexInv
<1>2. QED
  BY <1>1, IndexInvariant, PTL

(* The program ends in order only after AonMiner has seen done between two *)
(* rounds and closed its devices (miner.go:76-88, smminer.go:131-134, 195):*)
(* never when AonMiner was not started, and never after it has panicked.   *)
EndsInOrder ==
  mainPc = "ended" => done /\ minerPc = "returned" /\ sent = 0 /\ rangeTo = 0

(* So without -aon-frequency CtrlCStops cannot hold: no behaviour ends.    *)
THEOREM EndNeedsMiner == Spec => []EndsInOrder
<1>1. EndInv => EndsInOrder
  BY DEF EndInv, EndsInOrder
<1>2. QED
  BY <1>1, IndexInvariant, PTL
=============================================================================
