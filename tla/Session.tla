------------------------------ MODULE Session ------------------------------
(***************************************************************************)
(* The session with the pool: losing the connection, reconnecting, and the *)
(* notifications that come with it.                                        *)
(*                                                                         *)
(* A write that fails sets PoolDisconnection.  A goroutine of main sees it,*)
(* takes StratumMutex, dials, subscribes and authorizes.  StratumReceiver  *)
(* reads a message without the mutex and takes the mutex to handle it,     *)
(* which it does also when it has read nothing; AonMiner takes the mutex   *)
(* to copy the job.  The reconnect goroutine does not give the mutex back  *)
(* on any path (the Unlock is commented out), so the model has no such     *)
(* step either.                                                            *)
(*                                                                         *)
(* Shares and suggestions of a difficulty are written without the mutex,   *)
(* so also on a connection that has not subscribed yet.  The answer to one *)
(* of them in place of the answer to the subscription, or a refusal of it, *)
(* is a panic in a goroutine that does not recover: the program is gone.   *)
(*                                                                         *)
(* A session is the ExtraNonce1 the pool has given it.  A job records the  *)
(* session it was announced in and the ExtraNonce1 it was stored with.     *)
(***************************************************************************)
EXTENDS Integers, Sequences

CONSTANTS
  MaxConnections,  \* bound: connections in a behaviour
  MaxInbox,        \* bound: what the pool sends next to its two answers to
                   \* the reconnect goroutine, while it is not read
  MaxOwed          \* bound: requests of other goroutines not yet answered

ASSUME SessionAssumption ==
  /\ MaxConnections \in Nat \ {0}
  /\ MaxInbox \in Nat \ {0}
  /\ MaxOwed \in Nat

VARIABLES
  connection,         \* StratumConnection: its number, 0 if nil
  connections,        \* the number of connections made so far
  broken,             \* writes to the connection fail
  inbox,              \* what the pool has sent on the connection
  poolSession,        \* the pool's session on the connection, 0 if none
  request,            \* what the pool has been asked: [kind, session]
  owed,               \* the other requests the pool has not answered
  poolExtraNonce1,    \* PoolExtraNonce1
  poolDisconnection,  \* PoolDisconnection
  stratumMutex,       \* the holder of StratumMutex, or "free"
  job,                \* LastStratumJob
  reconnectPc,        \* where the reconnect goroutine is
  receiverPc,         \* where StratumReceiver is
  message,            \* the message it has read
  early,              \* history: another request was written before the
                      \* answer to the subscription was read
  denied              \* history: the pool has refused the subscription, or
                      \* answered it in another shape than the code takes

wireVars     == << connection, connections, broken >>
historyVars  == << early, denied >>
poolVars     == << inbox, poolSession, request, owed, historyVars >>
receiverVars == << receiverPc, message >>
vars == << wireVars, poolVars, poolExtraNonce1, poolDisconnection,
           stratumMutex, job, reconnectPc, receiverVars >>

Sessions == 1 .. MaxConnections

Message == [kind : {"nothing", "subscribed", "authorized", "refused", "notify",
                    "answer"},
            session : Sessions \cup {0}]

Nothing == [kind |-> "nothing", session |-> 0]

NoRequest == [kind |-> "none", session |-> 0]

NoJob == [announced |-> 0, extraNonce1 |-> 0]

TypeOK ==
  /\ connection \in 0 .. connections
  /\ connections \in 1 .. MaxConnections
  /\ broken \in BOOLEAN
  /\ inbox \in Seq(Message)
  /\ poolSession \in Sessions \cup {0}
  /\ request \in [kind : {"none", "subscribe", "authorize"},
                  session : Sessions \cup {0}]
  /\ owed \in 0 .. MaxOwed
  /\ early \in BOOLEAN
  /\ denied \in BOOLEAN
  /\ connection = 0
       => /\ inbox = << >>
          /\ poolSession = 0
          /\ request = NoRequest
          /\ owed = 0
          /\ ~ broken
  /\ poolExtraNonce1 \in Sessions
  /\ poolDisconnection \in BOOLEAN
  /\ stratumMutex \in {"free", "reconnect", "receiver", "miner"}
  /\ job \in [announced : Sessions \cup {0}, extraNonce1 : Sessions \cup {0}]
  /\ reconnectPc \in {"watch", "lock", "close", "dial", "subscribe",
                      "readSubscribe", "authorize", "readAuthorize", "panicked"}
  /\ receiverPc \in {"read", "lock", "handle"}
  /\ message \in Message

(* main has connected, subscribed and authorized before it starts the      *)
(* goroutines.                                                             *)
Init ==
  /\ connection = 1
  /\ connections = 1
  /\ broken = FALSE
  /\ inbox = << >>
  /\ poolSession = 1
  /\ request = NoRequest
  /\ owed = 0
  /\ early = FALSE
  /\ denied = FALSE
  /\ poolExtraNonce1 = 1
  /\ poolDisconnection = FALSE
  /\ stratumMutex = "free"
  /\ job = NoJob
  /\ reconnectPc = "watch"
  /\ receiverPc = "read"
  /\ message = Nothing

Acquire(h) ==
  /\ stratumMutex = "free"
  /\ stratumMutex' = h

-----------------------------------------------------------------------------
(* The reconnect goroutine *)

(* Fault: the flag is cleared before the mutex is asked for. *)
SeeDisconnectionOnce ==
  /\ reconnectPc = "watch"
  /\ poolDisconnection
  /\ poolDisconnection' = FALSE
  /\ UNCHANGED << wireVars, poolVars, poolExtraNonce1, stratumMutex, job,
                  reconnectPc, receiverVars >>

SeeDisconnection ==
  /\ reconnectPc = "watch"
  /\ poolDisconnection
  /\ reconnectPc' = "lock"
  /\ UNCHANGED << wireVars, poolVars, poolExtraNonce1, poolDisconnection,
                  stratumMutex, job, receiverVars >>

(* On a second disconnection the goroutine itself is the holder, and waits *)
(* here for ever.                                                          *)
LockReconnect ==
  /\ reconnectPc = "lock"
  /\ Acquire("reconnect")
  /\ reconnectPc' = "close"
  /\ UNCHANGED << wireVars, poolVars, poolExtraNonce1, poolDisconnection, job,
                  receiverVars >>

(* Fault: the read buffer of the old connection is kept. *)
CloseConnectionKeepBuffer ==
  /\ reconnectPc = "close"
  /\ connection' = 0
  /\ broken' = FALSE
  /\ poolSession' = 0
  /\ request' = NoRequest
  /\ owed' = 0
  /\ early' = FALSE
  /\ denied' = FALSE
  /\ poolDisconnection' = FALSE
  /\ reconnectPc' = "dial"
  /\ UNCHANGED << connections, inbox, poolExtraNonce1, stratumMutex, job,
                  receiverVars >>

(* StratumConnect: drop the connection with its read buffer. *)
CloseConnection ==
  /\ reconnectPc = "close"
  /\ connection' = 0
  /\ broken' = FALSE
  /\ inbox' = << >>
  /\ poolSession' = 0
  /\ request' = NoRequest
  /\ owed' = 0
  /\ early' = FALSE
  /\ denied' = FALSE
  /\ poolDisconnection' = FALSE
  /\ reconnectPc' = "dial"
  /\ UNCHANGED << connections, poolExtraNonce1, stratumMutex, job,
                  receiverVars >>

Dial ==
  /\ reconnectPc = "dial"
  /\ connections < MaxConnections
  /\ connections' = connections + 1
  /\ connection' = connections + 1
  /\ reconnectPc' = "subscribe"
  /\ UNCHANGED << broken, poolVars, poolExtraNonce1, poolDisconnection,
                  stratumMutex, job, receiverVars >>

(* Five failures; the error is ignored and StratumSubscribe called. *)
DialFails ==
  /\ reconnectPc = "dial"
  /\ reconnectPc' = "subscribe"
  /\ UNCHANGED << wireVars, poolVars, poolExtraNonce1, poolDisconnection,
                  stratumMutex, job, receiverVars >>

(* stratumWrite fails without a connection, and then sets no flag, or on a *)
(* broken one: the loop goes on with PoolDisconnection as it is.           *)
WriteRequestFails ==
  /\ reconnectPc \in {"subscribe", "authorize"}
  /\ connection = 0 \/ broken
  /\ poolDisconnection' = (poolDisconnection \/ connection # 0)
  /\ reconnectPc' = "watch"
  /\ UNCHANGED << wireVars, poolVars, poolExtraNonce1, stratumMutex, job,
                  receiverVars >>

(* The subscription asks for the session it had. *)
WriteRequest ==
  /\ reconnectPc \in {"subscribe", "authorize"}
  /\ connection # 0
  /\ ~ broken
  /\ request' = [kind |-> reconnectPc, session |-> poolExtraNonce1]
  /\ reconnectPc' = IF reconnectPc = "subscribe"
                    THEN "readSubscribe" ELSE "readAuthorize"
  /\ UNCHANGED << wireVars, inbox, poolSession, owed, historyVars,
                  poolExtraNonce1, poolDisconnection, stratumMutex, job,
                  receiverVars >>

(* The answer to the subscription sets PoolExtraNonce1; a message without  *)
(* a result in its place, as a notification, is consumed and fails the     *)
(* attempt; any other answer, a refusal too, has a result of another       *)
(* shape, and the type assertion panics.                                   *)
ReadSubscribed ==
  /\ reconnectPc = "readSubscribe"
  /\ inbox # << >>
  /\ inbox' = Tail(inbox)
  /\ poolExtraNonce1' = IF Head(inbox).kind = "subscribed"
                        THEN Head(inbox).session ELSE poolExtraNonce1
  /\ reconnectPc' = CASE Head(inbox).kind = "subscribed" -> "authorize"
                      [] Head(inbox).kind \in {"notify", "nothing"} -> "watch"
                      [] OTHER -> "panicked"
  /\ UNCHANGED << wireVars, poolSession, request, owed, historyVars,
                  poolDisconnection, stratumMutex, job, receiverVars >>

(* Fault, and the obvious repair of the missing Unlock: the mutex is       *)
(* released here and the receiver goes on with what it read before.        *)
ReconnectedUnlock ==
  /\ reconnectPc = "readAuthorize"
  /\ inbox # << >>
  /\ Head(inbox).kind # "refused"
  /\ inbox' = Tail(inbox)
  /\ poolDisconnection' = FALSE
  /\ reconnectPc' = "watch"
  /\ stratumMutex' = "free"
  /\ UNCHANGED << wireVars, poolSession, request, owed, historyVars,
                  poolExtraNonce1, job, receiverVars >>

(* A notification in place of the answer is taken for "the pool skipped    *)
(* credential validation" and lost, and the answer to a share for that to  *)
(* the credentials.  StratumMutex.Unlock() is commented out here.          *)
Reconnected ==
  /\ reconnectPc = "readAuthorize"
  /\ inbox # << >>
  /\ Head(inbox).kind # "refused"
  /\ inbox' = Tail(inbox)
  /\ poolDisconnection' = FALSE
  /\ reconnectPc' = "watch"
  /\ UNCHANGED << wireVars, poolSession, request, owed, historyVars,
                  poolExtraNonce1, stratumMutex, job, receiverVars >>

AuthorizationRefused ==
  /\ reconnectPc = "readAuthorize"
  /\ inbox # << >>
  /\ Head(inbox).kind \in {"refused", "answer"}
  /\ inbox' = Tail(inbox)
  /\ reconnectPc' = "watch"
  /\ UNCHANGED << wireVars, poolSession, request, owed, historyVars,
                  poolExtraNonce1, poolDisconnection, stratumMutex, job,
                  receiverVars >>

(* No answer within 400 ms: the attempt is over, and nothing asks for      *)
(* another one.                                                            *)
ReadTimesOut ==
  /\ reconnectPc \in {"readSubscribe", "readAuthorize"}
  /\ reconnectPc' = "watch"
  /\ UNCHANGED << wireVars, poolVars, poolExtraNonce1, poolDisconnection,
                  stratumMutex, job, receiverVars >>

-----------------------------------------------------------------------------
(* StratumReceiver *)

(* Reads next to the reconnect goroutine from the same buffer. *)
ReadMessage ==
  /\ receiverPc = "read"
  /\ inbox # << >>
  /\ message' = Head(inbox)
  /\ inbox' = Tail(inbox)
  /\ receiverPc' = "lock"
  /\ UNCHANGED << wireVars, poolSession, request, owed, historyVars,
                  poolExtraNonce1, poolDisconnection, stratumMutex, job,
                  reconnectPc >>

(* The deadline cuts a line in two: neither half is a message. *)
ReadTornLine ==
  /\ receiverPc = "read"
  /\ inbox # << >>
  /\ message' = Nothing
  /\ inbox' = Tail(inbox)
  /\ receiverPc' = "lock"
  /\ UNCHANGED << wireVars, poolSession, request, owed, historyVars,
                  poolExtraNonce1, poolDisconnection, stratumMutex, job,
                  reconnectPc >>

ReadNothing ==
  /\ receiverPc = "read"
  /\ inbox = << >>
  /\ message' = Nothing
  /\ receiverPc' = "lock"
  /\ UNCHANGED << wireVars, poolVars, poolExtraNonce1, poolDisconnection,
                  stratumMutex, job, reconnectPc >>

LockReceiver ==
  /\ receiverPc = "lock"
  /\ Acquire("receiver")
  /\ receiverPc' = "handle"
  /\ UNCHANGED << wireVars, poolVars, poolExtraNonce1, poolDisconnection, job,
                  reconnectPc, message >>

(* Fault: the unlock is missing here too. *)
HandleMessageKeepLocked ==
  /\ receiverPc = "handle"
  /\ job' = IF message.kind = "notify"
            THEN [announced |-> message.session,
                  extraNonce1 |-> poolExtraNonce1]
            ELSE job
  /\ message' = Nothing
  /\ receiverPc' = "read"
  /\ UNCHANGED << wireVars, poolVars, poolExtraNonce1, poolDisconnection,
                  stratumMutex, reconnectPc >>

(* A notification makes a new job, with the ExtraNonce1 of this moment. *)
HandleMessage ==
  /\ receiverPc = "handle"
  /\ job' = IF message.kind = "notify"
            THEN [announced |-> message.session,
                  extraNonce1 |-> poolExtraNonce1]
            ELSE job
  /\ message' = Nothing
  /\ stratumMutex' = "free"
  /\ receiverPc' = "read"
  /\ UNCHANGED << wireVars, poolVars, poolExtraNonce1, poolDisconnection,
                  reconnectPc >>

-----------------------------------------------------------------------------
(* The other goroutines *)

(* AonMiner copies the job to its buffer, MinerReceiver clears             *)
(* ForgetSubmits: both in a critical section that changes nothing here.    *)
LockMiner ==
  /\ Acquire("miner")
  /\ UNCHANGED << wireVars, poolVars, poolExtraNonce1, poolDisconnection, job,
                  reconnectPc, receiverVars >>

UnlockMiner ==
  /\ stratumMutex = "miner"
  /\ stratumMutex' = "free"
  /\ UNCHANGED << wireVars, poolVars, poolExtraNonce1, poolDisconnection, job,
                  reconnectPc, receiverVars >>

(* StratumSubmit or StratumSuggestDiff writes, without the mutex. *)
WriteOther ==
  /\ connection # 0
  /\ ~ broken
  /\ owed < MaxOwed
  /\ owed' = owed + 1
  /\ early' = (early \/ reconnectPc \in {"subscribe", "readSubscribe"})
  /\ UNCHANGED << wireVars, inbox, poolSession, request, denied,
                  poolExtraNonce1, poolDisconnection, stratumMutex, job,
                  reconnectPc, receiverVars >>

WriteFails ==
  /\ connection # 0
  /\ broken
  /\ poolDisconnection' = TRUE
  /\ UNCHANGED << wireVars, poolVars, poolExtraNonce1, stratumMutex, job,
                  reconnectPc, receiverVars >>

-----------------------------------------------------------------------------
(* The pool and the network *)

Break ==
  /\ connection # 0
  /\ ~ broken
  /\ broken' = TRUE
  /\ UNCHANGED << connection, connections, poolVars, poolExtraNonce1,
                  poolDisconnection, stratumMutex, job, reconnectPc,
                  receiverVars >>

(* The pool resumes the session asked for or opens one of its own. *)
AnswerSubscribe ==
  /\ request.kind = "subscribe"
  /\ ~ broken
  /\ \E s \in {request.session, connection} :
       /\ poolSession' = s
       /\ inbox' = Append(inbox, [kind |-> "subscribed", session |-> s])
  /\ request' = NoRequest
  /\ UNCHANGED << wireVars, owed, historyVars, poolExtraNonce1,
                  poolDisconnection, stratumMutex, job, reconnectPc,
                  receiverVars >>

(* The pool refuses, or answers in another shape.  A result null or false  *)
(* is made a list of one (stratumResponseFormat), which passes the test of *)
(* its length; an empty list, or an answer without a result, does not.     *)
RefuseSubscribe ==
  /\ request.kind = "subscribe"
  /\ ~ broken
  /\ \/ /\ inbox' = Append(inbox, [kind |-> "refused", session |-> 0])
        /\ denied' = TRUE
     \/ /\ inbox' = Append(inbox, Nothing)
        /\ UNCHANGED denied
  /\ request' = NoRequest
  /\ UNCHANGED << wireVars, poolSession, owed, early, poolExtraNonce1,
                  poolDisconnection, stratumMutex, job, reconnectPc,
                  receiverVars >>

AnswerAuthorize ==
  /\ request.kind = "authorize"
  /\ ~ broken
  /\ \E k \in {"authorized", "refused"} :
       inbox' = Append(inbox, [kind |-> k, session |-> poolSession])
  /\ request' = NoRequest
  /\ UNCHANGED << wireVars, poolSession, owed, historyVars,
                  poolExtraNonce1, poolDisconnection, stratumMutex, job,
                  reconnectPc, receiverVars >>

AnswerOther ==
  /\ owed > 0
  /\ ~ broken
  /\ Len(inbox) < MaxInbox
  /\ inbox' = Append(inbox, [kind |-> "answer", session |-> 0])
  /\ owed' = owed - 1
  /\ UNCHANGED << wireVars, poolSession, request, historyVars, poolExtraNonce1,
                  poolDisconnection, stratumMutex, job, reconnectPc,
                  receiverVars >>

Notify ==
  /\ poolSession # 0
  /\ ~ broken
  /\ Len(inbox) < MaxInbox
  /\ inbox' = Append(inbox, [kind |-> "notify", session |-> poolSession])
  /\ UNCHANGED << wireVars, poolSession, request, owed, historyVars,
                  poolExtraNonce1, poolDisconnection, stratumMutex, job,
                  reconnectPc, receiverVars >>

-----------------------------------------------------------------------------

Reconnect ==
  \/ SeeDisconnection
  \/ LockReconnect
  \/ CloseConnection
  \/ Dial
  \/ DialFails
  \/ WriteRequestFails
  \/ WriteRequest
  \/ ReadSubscribed
  \/ Reconnected
  \/ AuthorizationRefused
  \/ ReadTimesOut

(* A panic in the reconnect goroutine ends them all. *)
Alive == reconnectPc # "panicked"

StratumReceiver ==
  /\ Alive
  /\ \/ ReadMessage
     \/ ReadTornLine
     \/ ReadNothing
     \/ LockReceiver
     \/ HandleMessage

Others ==
  /\ Alive
  /\ LockMiner \/ UnlockMiner \/ WriteOther \/ WriteFails

Outside ==
  /\ Alive
  /\ \/ Break
     \/ AnswerSubscribe
     \/ RefuseSubscribe
     \/ AnswerAuthorize
     \/ AnswerOther
     \/ Notify

Next == Reconnect \/ StratumReceiver \/ Others \/ Outside

Spec == Init /\ [][Next]_vars

(* The goroutines run, critical sections end, and sync.Mutex hands the     *)
(* lock to a goroutine that keeps asking.  Network and pool owe nothing.   *)
Fairness ==
  /\ WF_vars(Reconnect)
  /\ SF_vars(LockReconnect)
  /\ WF_vars(StratumReceiver)
  /\ SF_vars(LockReceiver)
  /\ WF_vars(UnlockMiner)

FairSpec == Spec /\ Fairness

-----------------------------------------------------------------------------
(* Properties *)

(* A job is mined with the ExtraNonce1 of the session it was announced in. *)
(* The receiver reads before it locks (stratum.go:255-256) and stores the  *)
(* PoolExtraNonce1 of later (stratum.go:285), with a reconnection possible *)
(* in between: only the mutex that is never given back                     *)
(* (smminer.go:183) keeps an old notification out of the new session.      *)
JobMatchesSession == job.announced = job.extraNonce1

(* Until the first reconnection StratumReceiver always gets StratumMutex   *)
(* and comes back to reading, whoever else asks for it                     *)
(* (stratum.go:255-357, miner.go:173-185).                                 *)
ReceiverComesBack ==
  receiverPc # "read" ~> receiverPc = "read" \/ stratumMutex = "reconnect"

(* What ShareQueue, SubmitWindow and CpuMiner assume of the connection: it *)
(* is dropped only with StratumMutex gone for good, and replaced at most   *)
(* once (smminer.go:164-183, stratum.go:90-114).                           *)
Wire == INSTANCE StratumWire WITH
  wire <- CASE connection = 0 -> "closed"
            [] connection = 1 -> "first"
            [] OTHER -> "second",
  kept <- stratumMutex = "reconnect"

WireSpec == Wire!Spec

(* The program dies in StratumSubscribe's type assertion                   *)
(* (stratum.go:154-156) only when the pool has refused the subscription,   *)
(* or when a share or a suggestion was written to the new connection       *)
(* before the answer was read: what was still owed on the old one goes     *)
(* with its read buffer (stratum.go:95-99).                                *)
PanicNeedsCause == reconnectPc = "panicked" => early \/ denied

(* The reconnect goroutine waits for the mutex that it holds itself. *)
WaitsForItself == reconnectPc = "lock" /\ stratumMutex = "reconnect"

(* A disconnection of the first connection that any writer notices has the *)
(* connection replaced, even when the mutex is contended                   *)
(* (stratum.go:456-458, smminer.go:164-167).  A later one never does: the  *)
(* goroutine ends waiting for itself, unless the program dies first or the *)
(* reconnection under way clears the flag (smminer.go:182).                *)
DisconnectionIsTakenUp ==
  /\ poolDisconnection /\ connection = 1 ~> connection = 0
  /\ poolDisconnection /\ connection > 1
       ~> WaitsForItself \/ ~ poolDisconnection \/ ~ Alive

(* "receives notifications from pool and update the global variables"      *)
(* (stratum.go:253): a notification that is read gets applied.             *)
NotificationsAreApplied ==
  receiverPc = "lock" /\ message.kind = "notify" ~> receiverPc = "handle"
=============================================================================
