----------------------------- MODULE AonDriver -----------------------------
(***************************************************************************)
(* The life of the USB devices, and the end of the program.                *)
(*                                                                         *)
(* AonMiner scans for devices while it holds AonJobMutex.  Every device it *)
(* finds is initialized by a goroutine of its own, which counts it and     *)
(* then appends it to ConnectedDevices, without a lock.  When the count is *)
(* right AonMiner starts AsicReadAll, which starts an AsicReadJob for each *)
(* connected device, and goes on to send rounds of jobs.  A reader, or an  *)
(* AsicSendJob whose write failed, may close all the devices; AonMiner     *)
(* then scans again.  Ctrl-C closes the channel done, AonMiner closes the  *)
(* devices and returns, its goroutine closes shutdownChan, and main ends.  *)
(* A panic in AonMiner is recovered and closes done too; a panic anywhere  *)
(* else ends the program.                                                  *)
(*                                                                         *)
(* A reset of a device takes its handle away (Device and Interface become  *)
(* nil) and puts a new one in its place, all without a lock, and when it   *)
(* fails the device stays bare.  What closes devices looks for bare ones   *)
(* first or does not look at all.                                          *)
(*                                                                         *)
(* A device opened in a scan is a handle; handles of one port in different *)
(* scans are different.  Which ports a scan finds, when reads and writes   *)
(* fail, and whether a reset of a device works, are up to the hardware.    *)
(* The resets of the hub only take time and are left out.                  *)
(***************************************************************************)
EXTENDS Integers, Sequences, FiniteSets, Functions

CONSTANTS
  Ports,      \* USB ports with a device
  MaxScans,   \* bound: scans that find a device
  MaxDevices  \* bound: devices found in all scans together

ASSUME DriverAssumption ==
  /\ IsFiniteSet(Ports)
  /\ MaxScans \in Nat
  /\ MaxDevices \in Nat

VARIABLES
  minerPc,      \* where AonMiner is; "absent" without -aon-frequency
  counted,      \* its connectedDevices
  devices,      \* what the scan under way has found
  bufferLen,    \* len(stratumJobBuffer)
  rangeTo,      \* length of the range over ConnectedDevices in a round
  sent,         \* jobs of the round that have been sent
  toClose,      \* what is left of the range over them when done is closed
  conn,         \* AonDriver.ConnectedDevices
  open,         \* the handles that have claimed their device
  bare,         \* those whose Device is nil
  scans,        \* scans that found a device
  inits,        \* the init goroutines
  initialized,  \* *initialized of the last of those scans
  readAll,      \* AsicReadAll per scan
  timers,       \* len(WorkTimer)
  totals,       \* len(WorkTotal)
  readErrors,   \* len(ReadErrors)
  readers,      \* the AsicReadJob goroutines
  jobsSent,     \* there are, or were, AsicSendJob goroutines
  done,         \* done is closed
  shutdown,     \* shutdownChan is closed
  mainPc,       \* where main is
  raced,        \* history: accesses without a lock have overlapped
  late,         \* history: a scan ended before all it found was connected
  revived       \* history: handles a reset has opened after they were closed

minerVars ==
  << minerPc, counted, devices, bufferLen, rangeTo, sent, toClose >>
initVars  == << scans, inits, initialized >>
lenVars   == << timers, totals, readErrors >>
readVars  == << readAll, lenVars, readers >>
endVars   == << done, shutdown, mainPc >>
historyVars == << raced, late, revived >>
vars == << minerVars, conn, open, bare, initVars, readVars, jobsSent,
           endVars, historyVars >>

Scans == 1 .. MaxScans
Handles == [port : Ports, scan : Scans]

Reader ==
  [by : Scans, devid : 1 .. Cardinality(Handles), handle : Handles,
   pc : {"look", "read", "reset", "report", "close"}]

TypeOK ==
  /\ minerPc \in {"absent", "top", "scan", "wait", "finish", "copy", "stuck",
                  "send", "sending", "closing", "toggled", "returned"}
  /\ counted \in -1 .. Cardinality(Handles)
  /\ devices \subseteq Handles
  /\ bufferLen \in 0 .. Cardinality(Handles)
  /\ rangeTo \in 0 .. Cardinality(Handles)
  /\ sent \in 0 .. rangeTo
  /\ toClose \in Seq(Handles)
  /\ conn \in Seq(Handles)
  /\ open \subseteq Handles
  /\ bare \subseteq Handles
  /\ scans \in 0 .. MaxScans
  /\ inits \in [Handles ->
                  [pc : {"none", "init", "counting", "counted", "appending",
                         "done"},
                   count : 0 .. Cardinality(Ports), conn : Seq(Handles)]]
  /\ initialized \in 0 .. Cardinality(Ports)
  /\ readAll \in [Scans -> {"none", "timers", "totals", "errors", "set",
                            "start", "done"}]
  /\ {timers, totals, readErrors} \subseteq 0 .. Cardinality(Handles)
  /\ readers \subseteq Reader
  /\ mainPc \in {"waiting", "stopping", "ended", "crashed"}
  /\ {jobsSent, done, shutdown, raced, late} \subseteq BOOLEAN
  /\ revived \subseteq Handles

Init ==
  /\ minerPc \in {"absent", "top"}
  /\ counted = -1
  /\ devices = {}
  /\ bufferLen = 0
  /\ rangeTo = 0
  /\ sent = 0
  /\ toClose = << >>
  /\ conn = << >>
  /\ open = {}
  /\ bare = {}
  /\ scans = 0
  /\ inits = [h \in Handles |-> [pc |-> "none", count |-> 0, conn |-> << >>]]
  /\ initialized = 0
  /\ readAll = [s \in Scans |-> "none"]
  /\ timers = 0
  /\ totals = 0
  /\ readErrors = 0
  /\ readers = {}
  /\ jobsSent = FALSE
  /\ done = FALSE
  /\ shutdown = FALSE
  /\ mainPc = "waiting"
  /\ raced = FALSE
  /\ late = FALSE
  /\ revived = {}

(* AonMiner holds AonJobMutex from the start of a scan to its end; all     *)
(* others hold it for a single step.                                       *)
MinerHolds == minerPc \in {"scan", "wait", "finish"}

Crash ==
  /\ mainPc' = "crashed"
  /\ UNCHANGED << minerVars, conn, open, bare, initVars, readVars, jobsSent,
                  done, shutdown, historyVars >>

(* Fault: the devices are forgotten and stay open. *)
ForgetAll ==
  /\ conn' = << >>
  /\ raced' = (raced \/ \E h \in Handles : inits[h].pc = "appending")
  /\ UNCHANGED open

(* With AonJobMutex: close what is connected, but for bare devices, and    *)
(* forget it.                                                              *)
CloseAll ==
  /\ open' = open \ Range(conn)
  /\ conn' = << >>
  /\ raced' = (raced \/ \E h \in Handles : inits[h].pc = "appending")

-----------------------------------------------------------------------------
(* AonMiner *)

minerRest ==
  << toClose, bare, initVars, readVars, jobsSent, mainPc, historyVars >>

closingRest ==
  << counted, devices, bufferLen, rangeTo, sent, conn, bare, initVars,
     readVars, jobsSent, done, mainPc, historyVars >>

GoTo(from, to) ==
  /\ minerPc = from
  /\ minerPc' = to

(* Fault: devices that are gone are not missed. *)
NeedsScanByCount == counted # Len(conn)

NeedsScan == counted # Len(conn) \/ conn = << >>

(* Fault: done is looked at only when there are devices. *)
LookAtDoneLate ==
  /\ GoTo("top", IF NeedsScan THEN "scan"
                 ELSE IF done THEN "closing" ELSE "copy")
  /\ toClose' = IF done /\ ~ NeedsScan THEN conn ELSE << >>
  /\ UNCHANGED << closingRest, open, shutdown >>

(* When done is closed, this is the start of a range over ConnectedDevices. *)
LookAtDone ==
  /\ GoTo("top", IF done THEN "closing"
                 ELSE IF NeedsScan THEN "scan" ELSE "copy")
  /\ toClose' = IF done THEN conn ELSE << >>
  /\ UNCHANGED << closingRest, open, shutdown >>

(* Bound: what the last scan has started is through before the next scan,  *)
(* which takes seconds.                                                    *)
ScanIsOver ==
  /\ \A h \in Handles : inits[h].pc \in {"none", "done"}
  /\ \A s \in Scans : readAll[s] \in {"none", "done"}

(* A device whose interface is claimed cannot be claimed again. *)
Scan ==
  ScanIsOver /\ \E found \in SUBSET (Ports \ {h.port : h \in open}) :
    LET new == {[port |-> p, scan |-> scans + 1] : p \in found}
    IN  /\ GoTo("scan", IF found = {} THEN "finish" ELSE "wait")
        /\ found # {} => /\ scans < MaxScans
                         /\ bufferLen + Cardinality(found) <= MaxDevices
        /\ devices' = new
        /\ open' = open \cup new
        /\ scans' = IF found = {} THEN scans ELSE scans + 1
        /\ initialized' = 0
        /\ inits' = [h \in Handles |->
                       IF h \in new THEN [inits[h] EXCEPT !.pc = "init"]
                       ELSE inits[h]]
        /\ UNCHANGED << counted, bufferLen, rangeTo, sent, toClose, conn,
                        bare, readVars, jobsSent, endVars, historyVars >>

AwaitInit ==
  /\ initialized = Cardinality(devices)
  /\ GoTo("wait", "finish")
  /\ readAll' = [readAll EXCEPT ![scans] = "timers"]
  /\ late' = (late \/ ~ devices \subseteq Range(conn))
  /\ UNCHANGED << counted, devices, bufferLen, rangeTo, sent, toClose, conn,
                  open, bare, initVars, lenVars, readers, jobsSent, endVars,
                  raced, revived >>

(* Fault: the buffer is made as long as this scan needs it. *)
FinishScanNewBuffer ==
  /\ GoTo("finish", "copy")
  /\ counted' = Len(conn)
  /\ bufferLen' = Cardinality(devices)
  /\ devices' = {}
  /\ UNCHANGED << rangeTo, sent, conn, open, done, shutdown, minerRest >>

FinishScan ==
  /\ GoTo("finish", "copy")
  /\ counted' = Len(conn)
  /\ bufferLen' = bufferLen + Cardinality(devices)
  /\ devices' = {}
  /\ UNCHANGED << rangeTo, sent, conn, open, done, shutdown, minerRest >>

(* The deferred function closes done and AonMiner returns; if done was     *)
(* closed before, that is a panic too, and nothing recovers it.            *)
Panic ==
  \/ /\ ~ done
     /\ minerPc' = "returned"
     /\ done' = TRUE
     /\ shutdown' = TRUE
     /\ UNCHANGED << counted, devices, bufferLen, rangeTo, sent, conn, open,
                     minerRest >>
  \/ done /\ Crash

(* With devices the copies are renewed, which takes StratumMutex, or not;  *)
(* then they are edited.  JobDispatch has what is in them.                 *)
CopyJobs ==
  /\ GoTo("copy", IF conn = << >> THEN "top" ELSE "send")
  /\ UNCHANGED << counted, devices, bufferLen, rangeTo, sent, conn, open, done,
                  shutdown, minerRest >>

(* The renewal waits for StratumMutex, which the reconnect goroutine has   *)
(* kept (Session).                                                         *)
CopyBlocks ==
  /\ conn # << >>
  /\ GoTo("copy", "stuck")
  /\ UNCHANGED << counted, devices, bufferLen, rangeTo, sent, conn, open, done,
                  shutdown, minerRest >>

StartSending ==
  /\ GoTo("send", "sending")
  /\ rangeTo' = Len(conn)
  /\ UNCHANGED << counted, devices, bufferLen, sent, conn, open, done,
                  shutdown, minerRest >>

(* ConnectedDevices is indexed anew for every job. *)
SendJob ==
  /\ minerPc = "sending"
  /\ sent < rangeTo
  /\ \/ /\ sent < Len(conn)
        /\ sent' = sent + 1
        /\ jobsSent' = TRUE
        /\ UNCHANGED << minerPc, counted, devices, bufferLen, rangeTo, toClose,
                        conn, open, bare, initVars, readVars, endVars,
                        historyVars >>
     \/ sent >= Len(conn) /\ Panic

FinishRound ==
  /\ sent = rangeTo
  /\ GoTo("sending", "top")
  /\ rangeTo' = 0
  /\ sent' = 0
  /\ UNCHANGED << counted, devices, bufferLen, conn, open, done, shutdown,
                  minerRest >>

(* Each device is turned off by two toggles of RTS, half a second apart,   *)
(* and closed.  A bare device cannot be toggled: a panic, and done is      *)
(* closed already (Panic).                                                 *)
ToggleFails(from) ==
  /\ minerPc = from
  /\ toClose # << >> /\ Head(toClose) \in bare
  /\ Crash

ToggleRTS ==
  /\ toClose # << >> /\ Head(toClose) \notin bare
  /\ GoTo("closing", "toggled")
  /\ UNCHANGED << closingRest, toClose, open, shutdown >>

(* Close belongs to the first connection: what a reset has opened may stay *)
(* open.                                                                   *)
CloseDevice ==
  /\ GoTo("toggled", "closing")
  /\ Head(toClose) \notin bare
  /\ toClose' = Tail(toClose)
  /\ open' \in {open, open \ {Head(toClose)}}
  /\ UNCHANGED << closingRest, shutdown >>

FinishClosing ==
  /\ toClose = << >>
  /\ GoTo("closing", "returned")
  /\ shutdown' = TRUE
  /\ UNCHANGED << closingRest, toClose, open >>

CloseOnDone ==
  \/ ToggleRTS
  \/ CloseDevice
  \/ ToggleFails("closing") \/ ToggleFails("toggled")
  \/ FinishClosing

AonMiner ==
  \/ LookAtDone
  \/ Scan
  \/ AwaitInit
  \/ FinishScan
  \/ CopyJobs
  \/ CopyBlocks
  \/ StartSending
  \/ SendJob
  \/ FinishRound
  \/ CloseOnDone

-----------------------------------------------------------------------------
(* The init goroutines *)

initRest == << minerVars, open, bare, scans, readVars, jobsSent, endVars,
               revived >>

InitAt(h, from, to) ==
  /\ inits[h].pc = from
  /\ inits' = [inits EXCEPT ![h] = to]

(* AsicInit has configured the device; the increment is a load and a store. *)
LoadCount(h) ==
  /\ InitAt(h, "init",
            [pc |-> "counting", count |-> initialized, conn |-> << >>])
  /\ raced' = (raced \/ \E g \in Handles : inits[g].pc = "counting")
  /\ UNCHANGED << initRest, initialized, conn, late >>

(* Fault: the device is counted again where it is appended. *)
StoreCountTwice(h) ==
  /\ InitAt(h, "counting", [pc |-> "counted", count |-> 0, conn |-> << >>])
  /\ initialized' = inits[h].count + 2
  /\ UNCHANGED << initRest, conn, raced, late >>

StoreCount(h) ==
  /\ InitAt(h, "counting", [pc |-> "counted", count |-> 0, conn |-> << >>])
  /\ initialized' = inits[h].count + 1
  /\ UNCHANGED << initRest, conn, raced, late >>

(* So is the append. *)
LoadConnected(h) ==
  /\ InitAt(h, "counted", [pc |-> "appending", count |-> 0, conn |-> conn])
  /\ raced' = (raced \/ \E g \in Handles : inits[g].pc = "appending")
  /\ UNCHANGED << initRest, initialized, conn, late >>

StoreConnected(h) ==
  /\ InitAt(h, "appending", [pc |-> "done", count |-> 0, conn |-> << >>])
  /\ conn' = Append(inits[h].conn, h)
  /\ UNCHANGED << initRest, initialized, raced, late >>

InitGoroutine(h) ==
  \/ LoadCount(h)
  \/ StoreCount(h)
  \/ LoadConnected(h)
  \/ StoreConnected(h)

-----------------------------------------------------------------------------
(* AsicReadAll *)

readRest == << minerVars, initVars, jobsSent, endVars >>
readAllRest == << readRest, conn, open, bare, historyVars >>

(* Timers, totals and error counts are as long as ConnectedDevices is at   *)
(* three moments.                                                          *)
MakeTimers(s) ==
  /\ readAll[s] = "timers"
  /\ readAll' = [readAll EXCEPT ![s] = "totals"]
  /\ timers' = Len(conn)
  /\ UNCHANGED << readAllRest, totals, readErrors, readers >>

MakeTotals(s) ==
  /\ readAll[s] = "totals"
  /\ readAll' = [readAll EXCEPT ![s] = "errors"]
  /\ totals' = Len(conn)
  /\ UNCHANGED << readAllRest, timers, readErrors, readers >>

(* Fault: the error counts are as long as AonMiner's count of the devices. *)
MakeErrorsByCount(s) ==
  /\ readAll[s] = "errors"
  /\ readAll' = [readAll EXCEPT ![s] = "set"]
  /\ readErrors' = IF counted < 0 THEN 0 ELSE counted
  /\ UNCHANGED << readAllRest, timers, totals, readers >>

MakeErrors(s) ==
  /\ readAll[s] = "errors"
  /\ readAll' = [readAll EXCEPT ![s] = "set"]
  /\ readErrors' = Len(conn)
  /\ UNCHANGED << readAllRest, timers, totals, readers >>

(* At a fourth, all timers and totals are set. *)
SetTimers(s) ==
  /\ readAll[s] = "set"
  /\ \/ /\ Len(conn) <= timers /\ Len(conn) <= totals
        /\ readAll' = [readAll EXCEPT ![s] = "start"]
        /\ UNCHANGED << readAllRest, lenVars, readers >>
     \/ (Len(conn) > timers \/ Len(conn) > totals) /\ Crash

(* Fault: the first device is left out. *)
StartReadersFromOne(s) ==
  /\ readAll[s] = "start"
  /\ readAll' = [readAll EXCEPT ![s] = "done"]
  /\ readers' = readers \cup {[by |-> s, devid |-> i, handle |-> conn[i],
                               pc |-> "look"] : i \in DOMAIN conn \ {1}}
  /\ UNCHANGED << readAllRest, lenVars >>

StartReaders(s) ==
  /\ readAll[s] = "start"
  /\ readAll' = [readAll EXCEPT ![s] = "done"]
  /\ readers' = readers \cup {[by |-> s, devid |-> i, handle |-> conn[i],
                               pc |-> "look"] : i \in DOMAIN conn}
  /\ UNCHANGED << readAllRest, lenVars >>

AsicReadAll(s) ==
  \/ MakeTimers(s)
  \/ MakeTotals(s)
  \/ MakeErrors(s)
  \/ SetTimers(s)
  \/ StartReaders(s)

-----------------------------------------------------------------------------
(* AsicReadJob *)

readJobRest == << readRest, readAll, lenVars >>

ReaderGoes(r, to) == readers' = (readers \ {r}) \cup {[r EXCEPT !.pc = to]}

ReaderLeaves(r) == readers' = readers \ {r}

LookAtDevices(r) ==
  /\ r.pc = "look"
  /\ IF conn = << >> THEN ReaderLeaves(r) ELSE ReaderGoes(r, "read")
  /\ UNCHANGED << readJobRest, conn, open, bare, historyVars >>

(* The mutex that is taken to copy the job (AsicJobs) only delays the read. *)
(* After the read both branches index ReadErrors.  After too many errors   *)
(* the device is made bare to be reset, unless it is bare, and when no     *)
(* device has found a share for two minutes all of them are closed.        *)
ReadDevice(r) ==
  /\ r.pc = "read"
  /\ \/ /\ r.devid <= readErrors
        /\ \E to \in {"report", "close"} : ReaderGoes(r, to)
        /\ UNCHANGED << readJobRest, conn, open, bare, historyVars >>
     \/ /\ r.devid <= readErrors
        /\ ReaderGoes(r, IF r.handle \in bare THEN "close" ELSE "reset")
        /\ open' = open \ {r.handle}
        /\ bare' = bare \cup {r.handle}
        /\ UNCHANGED << readJobRest, conn, historyVars >>
     \/ r.devid > readErrors /\ Crash

(* The device is opened by its serial number, unless something else has    *)
(* it.                                                                     *)
ResetDevice(r) ==
  /\ r.pc = "reset"
  /\ \/ /\ \A h \in open : h.port # r.handle.port
        /\ open' = open \cup {r.handle}
        /\ bare' = bare \ {r.handle}
        /\ revived' = IF r.handle \in Range(conn) THEN revived
                      ELSE revived \cup {r.handle}
        /\ \E to \in {"report", "close"} : ReaderGoes(r, to)
     \/ /\ ReaderGoes(r, "close")
        /\ UNCHANGED << open, bare, revived >>
  /\ UNCHANGED << readJobRest, conn, raced, late >>

(* A share that was read is added to WorkTotal.  Every two minutes         *)
(* WorkTimer and WorkTotal are indexed for all that is connected.          *)
Report(r) ==
  /\ r.pc = "report"
  /\ \/ ~ MinerHolds /\ ReaderGoes(r, "look")
        /\ UNCHANGED << readJobRest, conn, open, bare, historyVars >>
     \/ r.devid > totals /\ Crash
     \/ ~ MinerHolds /\ (Len(conn) > timers \/ Len(conn) > totals) /\ Crash

CloseByReader(r) ==
  /\ r.pc = "close"
  /\ ~ MinerHolds
  /\ CloseAll
  /\ ReaderLeaves(r)
  /\ UNCHANGED << readJobRest, bare, late, revived >>

AsicReadJob(r) ==
  \/ LookAtDevices(r)
  \/ ReadDevice(r)
  \/ ResetDevice(r)
  \/ Report(r)
  \/ CloseByReader(r)

-----------------------------------------------------------------------------

(* AsicSendJob after too many failed writes. *)
CloseBySender ==
  /\ jobsSent
  /\ ~ MinerHolds
  /\ CloseAll
  /\ UNCHANGED << minerVars, bare, initVars, readVars, jobsSent, endVars, late,
                  revived >>

(* Somebody may be closing all devices. *)
Closers == jobsSent \/ \E r \in readers : r.pc = "close"

(* For each of them Device and Interface are loaded for the test and again *)
(* for the use, and resets and appends do not lock: a panic, if a reset    *)
(* begins between the two or an append has undone others.                  *)
CloseFails ==
  /\ Closers
  /\ ~ MinerHolds
  /\ \/ \E r \in readers : /\ r.pc = "read" /\ r.devid <= readErrors
                          /\ r.handle \in Range(conn) \ bare
     \/ \E h \in Handles : /\ inits[h].pc = "appending"
                           /\ Len(inits[h].conn) + 1 < Len(conn)
  /\ Crash

mainRest == << minerVars, conn, open, bare, initVars, readVars, jobsSent,
               shutdown, historyVars >>

(* Ctrl-C: main closes done; when it is closed already this is a panic,    *)
(* and so is the second attempt in the deferred function.                  *)
CloseDone ==
  /\ mainPc = "waiting"
  /\ \/ ~ done /\ done' = TRUE /\ mainPc' = "stopping"
     \/ done /\ mainPc' = "crashed" /\ UNCHANGED done
  /\ UNCHANGED mainRest

EndMain ==
  /\ mainPc = "stopping"
  /\ shutdown
  /\ mainPc' = "ended"
  /\ UNCHANGED << done, mainRest >>

Running == mainPc \notin {"ended", "crashed"}

Next ==
  /\ Running
  /\ \/ AonMiner
     \/ \E h \in Handles : InitGoroutine(h)
     \/ \E s \in Scans : AsicReadAll(s)
     \/ \E r \in readers : AsicReadJob(r)
     \/ CloseBySender
     \/ CloseFails
     \/ CloseDone
     \/ EndMain

Spec == Init /\ [][Next]_vars

(* AonMiner, what it starts in a scan, and main go on.  Readers, senders    *)
(* and Ctrl-C need not.                                                    *)
Fairness ==
  /\ WF_vars(Running /\ AonMiner)
  /\ \A h \in Handles : WF_vars(Running /\ InitGoroutine(h))
  /\ \A s \in Scans : WF_vars(Running /\ AsicReadAll(s))
  /\ WF_vars(Running /\ EndMain)

FairSpec == Spec /\ Fairness

-----------------------------------------------------------------------------
(* Properties *)

(* AonMiner never indexes past stratumJobBuffer (miner.go:170, 180, 192,   *)
(* 214): what the scans have added to it (miner.go:155-157) covers devices *)
(* that are appended after their scan too.                                 *)
BufferCoversDevices ==
  minerPc \in {"copy", "send", "sending"} =>
    Len(conn) <= bufferLen

(* A device that is claimed is connected, is on the way there, or was      *)
(* opened by a reset after all devices had been closed (usb.go:402); so    *)
(* that is the only way to lose a device until the program is restarted,   *)
(* unless appends overlap.                                                 *)
NoDeviceLost ==
  ~ raced =>
    \A h \in open :
      \/ h \in Range(conn) \cup revived
      \/ inits[h].pc \in {"init", "counting", "counted", "appending"}

(* Every connected device is read, and by one goroutine: readers that      *)
(* outlive their device do not come to share another's handle.  This needs *)
(* every device to be connected before its scan ends.                      *)
EveryDeviceIsRead ==
  ~ raced /\ ~ late =>
    \A h \in Range(conn) :
      LET by == {r \in readers : r.handle = h}
      IN  IF MinerHolds \/ \E s \in Scans : readAll[s] \notin {"none", "done"}
          THEN Cardinality(by) <= 1 ELSE Cardinality(by) = 1

(* A reader indexes past what AsicReadAll has made, or what it reports     *)
(* does.                                                                   *)
Overruns(r) ==
  \/ r.devid > totals \/ r.devid > readErrors
  \/ Len(conn) > timers \/ Len(conn) > totals

(* What ends the program besides main: done is closed again, by main when  *)
(* AonMiner has panicked in a round (miner.go:63, smminer.go:194) or by an *)
(* AonMiner that panics after Ctrl-C, be it in a round or at a bare device *)
(* (miner.go:80-85, usb.go:175); all devices are closed while a reset      *)
(* begins or appends overlap (aonminer.go:291-295, usb.go:326-332); or a   *)
(* reader left over from an earlier scan overruns what AsicReadAll makes   *)
(* (aonminer.go:337, 371, 413, 448-456).  AsicReadAll itself and the       *)
(* readers of the last scan do not, unless a device was connected late,    *)
(* although the lengths are those of ConnectedDevices at three moments and *)
(* it is looked at again at two later ones (aonminer.go:137-148).          *)
CrashNeedsCause ==
  mainPc = "crashed" =>
    \/ minerPc = "returned" /\ sent < rangeTo
    \/ minerPc = "sending" /\ done /\ sent < rangeTo /\ sent >= Len(conn)
    \/ /\ minerPc \in {"closing", "toggled"}
       /\ toClose # << >> /\ Head(toClose) \in bare
    \/ Closers /\ \E r \in readers : /\ r.pc = "read"
                                     /\ r.handle \in Range(conn) \ bare
    \/ Closers /\ raced
    \/ late
    \/ \E r \in readers : r.by < scans /\ Overruns(r)

Stopped == ~ Running \/ minerPc \in {"absent", "returned", "stuck"}

(* When the devices have been closed AonMiner scans for them again         *)
(* (miner.go:94), unless a device of the last scan is connected late, the  *)
(* program has ended or crashed, or AonMiner has returned or waits for     *)
(* StratumMutex for ever; nothing calls a returned AonMiner again          *)
(* (smminer.go:131-134).                                                   *)
DevicesAreMissed == conn = << >> ~> conn # << >> \/ MinerHolds \/ Stopped

(* Ctrl-C ends the program, in order or by a crash, if AonMiner was        *)
(* started and is not stuck: the reasons are StratumMutex and an           *)
(* initialization that was not counted.  Every overlap counts as one here, *)
(* of appends too.                                                         *)
StopsUnlessStuck ==
  mainPc = "stopping" ~>
    ~ Running \/ raced \/ minerPc \in {"absent", "stuck"}

(* "Running. Press Ctrl-C to stop..." (smminer.go:192). *)
CtrlCStops == mainPc = "stopping" ~> ~ Running
=============================================================================
