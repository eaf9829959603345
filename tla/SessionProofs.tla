--------------------------- MODULE SessionProofs ---------------------------
(***************************************************************************)
(* Theorems about Session and their proofs, for any number of connections, *)
(* of messages not read and of requests not answered.                      *)
(***************************************************************************)
EXTENDS Session, TLAPS

-----------------------------------------------------------------------------
(* The inbox *)

(* Reading the first message leaves the later ones in their order. *)
LEMMA AfterTail ==
  ASSUME NEW s \in Seq(Message), s # << >>
  PROVE  /\ Head(s) = s[1] /\ 1 \in 1 .. Len(s)
         /\ Head(s) \in Message
         /\ Tail(s) \in Seq(Message)
         /\ \A i \in 1 .. Len(Tail(s)) :
              i + 1 \in 1 .. Len(s) /\ Tail(s)[i] = s[i + 1]
OBVIOUS

(* A message sent comes last. *)
LEMMA AfterAppend ==
  ASSUME NEW s \in Seq(Message), NEW m \in Message
  PROVE  /\ Append(s, m) \in Seq(Message)
         /\ \A i \in 1 .. Len(Append(s, m)) :
              \/ i \in 1 .. Len(s) /\ Append(s, m)[i] = s[i]
              \/ Append(s, m)[i] = m
OBVIOUS

(* No message and no request. *)
LEMMA None ==
  /\ Nothing \in Message /\ Nothing.kind = "nothing"
  /\ NoRequest \in [kind : {"none", "subscribe", "authorize"},
                   session : Sessions \cup {0}]
  /\ NoRequest.kind = "none"
  /\ << >> \in Seq(Message) /\ Len(<< >>) = 0
BY DEF Nothing, NoRequest, Message

(* A message is its two fields. *)
LEMMA Messages ==
  ASSUME NEW k \in {"nothing", "subscribed", "authorized", "refused",
                    "notify", "answer"},
         NEW s \in Sessions \cup {0}
  PROVE  [kind |-> k, session |-> s] \in Message
BY DEF Message

-----------------------------------------------------------------------------
(* The invariants *)

(* An asked and an answered subscription name a session. *)
TypeInv ==
  /\ TypeOK
  /\ request.kind = "subscribe" => request.session \in Sessions
  /\ \A i \in 1 .. Len(inbox) :
       inbox[i].kind = "subscribed" => inbox[i].session \in Sessions

(* From the moment the reconnect goroutine has StratumMutex it keeps it,   *)
(* so the steps from closing to authorizing are done once.                 *)
LockInv ==
  /\ reconnectPc \notin {"watch", "lock"} => stratumMutex = "reconnect"
  /\ reconnectPc = "close" => connection = 1
  /\ reconnectPc = "dial" => connection = 0 /\ connections = 1
  /\ reconnectPc \in {"subscribe", "readSubscribe", "authorize",
                      "readAuthorize", "panicked"} => connection # 1
  /\ connection # 1 => stratumMutex = "reconnect"
  /\ connection = 1 => connections = 1
  /\ connection \in {0, 1, 2}
  /\ receiverPc = "handle" <=> stratumMutex = "receiver"

(* On the first connection there is one session only. *)
FirstInv ==
  /\ connection = 1 =>
       /\ poolSession = 1 /\ poolExtraNonce1 = 1 /\ request = NoRequest
       /\ message.kind = "notify" => message.session = 1
       /\ \A i \in 1 .. Len(inbox) :
            inbox[i].kind = "notify" => inbox[i].session = 1
  /\ JobMatchesSession

(* On a new connection the answer to the subscription is the first, and    *)
(* nothing but notifications comes with it, unless another goroutine asks; *)
(* a refusal among them is the pool's.                                     *)
EarlyInv ==
  /\ reconnectPc = "subscribe" => request = NoRequest
  /\ reconnectPc = "readSubscribe" => request.kind \in {"none", "subscribe"}
  /\ reconnectPc = "dial" => owed = 0 /\ request = NoRequest /\ inbox = << >>
  /\ reconnectPc \in {"subscribe", "readSubscribe"} /\ ~ early =>
       /\ owed = 0
       /\ \A i \in 1 .. Len(inbox) :
            \/ inbox[i].kind \in {"subscribed", "notify", "nothing"}
            \/ inbox[i].kind = "refused" /\ denied
  /\ PanicNeedsCause

-----------------------------------------------------------------------------
(* Types *)

LEMMA TypeInit == Init => TypeInv
<1> SUFFICES ASSUME Init
             PROVE  TypeInv
  OBVIOUS
<1>1. \A i \in 1 .. Len(inbox) :
        inbox[i].kind = "subscribed" => inbox[i].session \in Sessions
  <2>1. Len(inbox) = 0
    BY None DEF Init
  <2>2. QED
    BY <2>1
<1>2. /\ inbox \in Seq(Message) /\ message \in Message
      /\ request \in [kind : {"none", "subscribe", "authorize"},
                      session : Sessions \cup {0}]
      /\ request.kind # "subscribe"
  BY None DEF Init
<1>3. /\ connection # 0
      /\ poolSession \in Sessions \cup {0} /\ poolExtraNonce1 \in Sessions
      /\ connections \in 1 .. MaxConnections /\ connection \in 0 .. connections
      /\ owed \in 0 .. MaxOwed
      /\ job \in [announced : Sessions \cup {0}, extraNonce1 : Sessions \cup {0}]
  <2>1. /\ poolSession = 1 /\ poolExtraNonce1 = 1 /\ connections = 1
        /\ connection = 1 /\ owed = 0 /\ job = NoJob
    BY Zenon DEF Init
  <2>2. QED
    BY <2>1, SessionAssumption DEF NoJob, Sessions
<1>4. /\ broken \in BOOLEAN /\ early \in BOOLEAN /\ denied \in BOOLEAN
      /\ poolDisconnection \in BOOLEAN
      /\ stratumMutex = "free" /\ reconnectPc = "watch" /\ receiverPc = "read"
  BY Zenon DEF Init
<1>5. QED
  BY <1>1, <1>2, <1>3, <1>4 DEF TypeInv, TypeOK

(* No step leaves the types. *)
LEMMA TypeStep ==
  ASSUME TypeInv, [Next]_vars
  PROVE  TypeInv'
<1> USE SessionAssumption DEF TypeInv, TypeOK, wireVars, poolVars, historyVars,
          receiverVars
<1>1. CASE SeeDisconnection
  BY <1>1 DEF SeeDisconnection, TypeOK
<1>2. CASE LockReconnect
  BY <1>2 DEF LockReconnect, TypeOK, Acquire
<1>3. CASE CloseConnection
  <2>1. /\ reconnectPc' = "dial"
        /\ connection' = 0 /\ connections' = connections
        /\ broken' = FALSE /\ poolDisconnection' = FALSE /\ early' = FALSE
        /\ denied' = FALSE
        /\ inbox' = << >> /\ poolSession' = 0 /\ request' = NoRequest
        /\ owed' = 0 /\ poolExtraNonce1' = poolExtraNonce1
        /\ stratumMutex' = stratumMutex /\ job' = job
        /\ receiverPc' = receiverPc /\ message' = message
    BY <1>3, Zenon DEF CloseConnection
  <2>2. Len(inbox') = 0 /\ inbox' \in Seq(Message)
    BY <2>1, None
  <2>3. \A i \in 1 .. Len(inbox') :
          inbox'[i].kind = "subscribed" => inbox'[i].session \in Sessions
    BY <2>2
  <2>4. connection' \in 0 .. connections' /\ owed' \in 0 .. MaxOwed
    <3>1. connections \in Nat /\ MaxOwed \in Nat
      OBVIOUS
    <3>2. QED
      BY <2>1, <3>1
  <2>5. request'.kind # "subscribe"
    BY <2>1, None
  <2>6. QED
    BY <2>1, <2>2, <2>3, <2>4, <2>5, None, Zenon
<1>4. CASE Dial
  BY <1>4 DEF Dial, TypeOK
<1>5. CASE DialFails
  BY <1>5 DEF DialFails, TypeOK
<1>6. CASE WriteRequestFails
  BY <1>6 DEF WriteRequestFails, TypeOK
<1>7. CASE WriteRequest
  BY <1>7 DEF WriteRequest, TypeOK
<1>8. CASE ReadSubscribed
  BY <1>8, AfterTail DEF ReadSubscribed, TypeOK
<1>9. CASE Reconnected
  <2>1. /\ inbox' \in Seq(Message)
        /\ \A i \in 1 .. Len(inbox') :
             inbox'[i].kind = "subscribed" => inbox'[i].session \in Sessions
    BY <1>9, AfterTail DEF Reconnected
  <2>2. QED
    BY <1>9, <2>1 DEF Reconnected
<1>10. CASE AuthorizationRefused
  BY <1>10, AfterTail DEF AuthorizationRefused, TypeOK
<1>11. CASE ReadTimesOut
  BY <1>11 DEF ReadTimesOut, TypeOK
<1>12. CASE ReadMessage
  BY <1>12, AfterTail DEF ReadMessage, TypeOK
<1>13. CASE ReadTornLine
  BY <1>13, AfterTail, None DEF ReadTornLine, TypeOK
<1>14. CASE ReadNothing
  BY <1>14, None DEF ReadNothing, TypeOK
<1>15. CASE LockReceiver
  BY <1>15 DEF LockReceiver, TypeOK, Acquire
<1>16. CASE HandleMessage
  BY <1>16, None DEF HandleMessage, TypeOK, Message
<1>17. CASE LockMiner
  BY <1>17 DEF LockMiner, TypeOK, Acquire
<1>18. CASE UnlockMiner
  BY <1>18 DEF UnlockMiner, TypeOK
<1>19. CASE WriteOther
  BY <1>19 DEF WriteOther, TypeOK
<1>20. CASE WriteFails
  BY <1>20 DEF WriteFails, TypeOK
<1>21. CASE Break
  BY <1>21 DEF Break, TypeOK
<1>22. CASE AnswerSubscribe
  <2>1. PICK s \in {request.session, connection} :
          poolSession' = s
          /\ inbox' = Append(inbox, [kind |-> "subscribed", session |-> s])
    BY <1>22 DEF AnswerSubscribe
  <2>2. s \in Sessions
    BY <1>22, <2>1, None DEF AnswerSubscribe, Sessions
  <2>3. [kind |-> "subscribed", session |-> s] \in Message
    BY <2>2, Messages
  <2>4. /\ inbox' \in Seq(Message)
        /\ \A i \in 1 .. Len(inbox') :
             inbox'[i].kind = "subscribed" => inbox'[i].session \in Sessions
    BY <2>1, <2>2, <2>3, AfterAppend
  <2>5. QED
    BY <1>22, <2>1, <2>2, <2>4, None DEF AnswerSubscribe
<1>23. CASE RefuseSubscribe
  <2>1. PICK m \in {Nothing, [kind |-> "refused", session |-> 0]} :
          inbox' = Append(inbox, m)
    BY <1>23 DEF RefuseSubscribe
  <2>2. m \in Message /\ m.kind # "subscribed"
    BY <2>1, Messages, None
  <2>3. /\ inbox' \in Seq(Message)
        /\ \A i \in 1 .. Len(inbox') :
             inbox'[i].kind = "subscribed" => inbox'[i].session \in Sessions
    BY <2>1, <2>2, AfterAppend
  <2>4. denied' \in BOOLEAN
    BY <1>23 DEF RefuseSubscribe
  <2>5. QED
    BY <1>23, <2>3, <2>4, None DEF RefuseSubscribe
<1>24. CASE AnswerAuthorize
  BY <1>24, AfterAppend, Messages, None DEF AnswerAuthorize, TypeOK
<1>25. CASE AnswerOther
  BY <1>25, AfterAppend, Messages DEF AnswerOther, TypeOK
<1>26. CASE Notify
  BY <1>26, AfterAppend, Messages DEF Notify, TypeOK
<1>27. CASE UNCHANGED vars
  BY <1>27 DEF TypeOK, vars
<1>28. QED
  BY <1>1, <1>2, <1>3, <1>4, <1>5, <1>6, <1>7, <1>8, <1>9, <1>10, <1>11,
     <1>12, <1>13, <1>14, <1>15, <1>16, <1>17, <1>18, <1>19, <1>20, <1>21,
     <1>22, <1>23, <1>24, <1>25, <1>26, <1>27 DEF Next, Reconnect,
     StratumReceiver, Others, Outside

-----------------------------------------------------------------------------
(* StratumMutex *)

LEMMA LockInit == Init => LockInv
BY DEF Init, LockInv

LEMMA LockStep ==
  ASSUME TypeInv, LockInv, [Next]_vars
  PROVE  LockInv'
<1> USE DEF TypeInv, TypeOK, LockInv, wireVars, poolVars, historyVars,
          receiverVars
<1>1. CASE SeeDisconnection
  BY <1>1 DEF SeeDisconnection, LockInv
<1>2. CASE LockReconnect
  BY <1>2 DEF LockReconnect, LockInv, Acquire
<1>3. CASE CloseConnection
  BY <1>3 DEF CloseConnection, LockInv
<1>4. CASE Dial
  BY <1>4 DEF Dial, LockInv
<1>5. CASE DialFails
  BY <1>5 DEF DialFails, LockInv
<1>6. CASE WriteRequestFails
  BY <1>6 DEF WriteRequestFails, LockInv
<1>7. CASE WriteRequest
  BY <1>7 DEF WriteRequest, LockInv
<1>8. CASE ReadSubscribed
  BY <1>8, AfterTail DEF ReadSubscribed, LockInv
<1>9. CASE Reconnected
  BY <1>9, AfterTail DEF Reconnected, LockInv
<1>10. CASE AuthorizationRefused
  BY <1>10, AfterTail DEF AuthorizationRefused, LockInv
<1>11. CASE ReadTimesOut
  BY <1>11 DEF ReadTimesOut, LockInv
<1>12. CASE ReadMessage
  BY <1>12, AfterTail DEF ReadMessage, LockInv
<1>13. CASE ReadTornLine
  BY <1>13, AfterTail DEF ReadTornLine, LockInv
<1>14. CASE ReadNothing
  BY <1>14 DEF ReadNothing, LockInv
<1>15. CASE LockReceiver
  BY <1>15 DEF LockReceiver, LockInv, Acquire
<1>16. CASE HandleMessage
  BY <1>16 DEF HandleMessage, LockInv
<1>17. CASE LockMiner
  BY <1>17 DEF LockMiner, LockInv, Acquire
<1>18. CASE UnlockMiner
  BY <1>18 DEF UnlockMiner, LockInv
<1>19. CASE WriteOther
  BY <1>19 DEF WriteOther, LockInv
<1>20. CASE WriteFails
  BY <1>20 DEF WriteFails, LockInv
<1>21. CASE Break
  BY <1>21 DEF Break, LockInv
<1>22. CASE AnswerSubscribe
  BY <1>22, AfterAppend DEF AnswerSubscribe, LockInv
<1>23. CASE RefuseSubscribe
  BY <1>23, AfterAppend, Messages, None DEF RefuseSubscribe, LockInv
<1>24. CASE AnswerAuthorize
  BY <1>24, AfterAppend DEF AnswerAuthorize, LockInv
<1>25. CASE AnswerOther
  BY <1>25, AfterAppend DEF AnswerOther, LockInv
<1>26. CASE Notify
  BY <1>26, AfterAppend DEF Notify, LockInv
<1>27. CASE UNCHANGED vars
  BY <1>27 DEF LockInv, vars
<1>28. QED
  BY <1>1, <1>2, <1>3, <1>4, <1>5, <1>6, <1>7, <1>8, <1>9, <1>10, <1>11,
     <1>12, <1>13, <1>14, <1>15, <1>16, <1>17, <1>18, <1>19, <1>20, <1>21,
     <1>22, <1>23, <1>24, <1>25, <1>26, <1>27 DEF Next, Reconnect,
     StratumReceiver, Others, Outside

-----------------------------------------------------------------------------
(* The first session *)

LEMMA FirstInit == Init => FirstInv
BY DEF Init, FirstInv, JobMatchesSession, NoJob, Nothing

LEMMA FirstStep ==
  ASSUME TypeInv, LockInv, FirstInv, [Next]_vars
  PROVE  FirstInv'
<1> USE DEF TypeInv, TypeOK, LockInv, FirstInv, JobMatchesSession, wireVars,
          poolVars, historyVars, receiverVars
<1>1. CASE SeeDisconnection
  BY <1>1 DEF SeeDisconnection, FirstInv
<1>2. CASE LockReconnect
  BY <1>2 DEF LockReconnect, FirstInv, Acquire
<1>3. CASE CloseConnection
  BY <1>3 DEF CloseConnection, FirstInv
<1>4. CASE Dial
  BY <1>4 DEF Dial, FirstInv
<1>5. CASE DialFails
  BY <1>5 DEF DialFails, FirstInv
<1>6. CASE WriteRequestFails
  BY <1>6 DEF WriteRequestFails, FirstInv
<1>7. CASE WriteRequest
  BY <1>7 DEF WriteRequest, FirstInv
<1>8. CASE ReadSubscribed
  BY <1>8, AfterTail DEF ReadSubscribed, FirstInv
<1>9. CASE Reconnected
  BY <1>9, AfterTail DEF Reconnected, FirstInv
<1>10. CASE AuthorizationRefused
  BY <1>10, AfterTail DEF AuthorizationRefused, FirstInv
<1>11. CASE ReadTimesOut
  BY <1>11 DEF ReadTimesOut, FirstInv
<1>12. CASE ReadMessage
  BY <1>12, AfterTail DEF ReadMessage, FirstInv
<1>13. CASE ReadTornLine
  BY <1>13, AfterTail, None DEF ReadTornLine, FirstInv
<1>14. CASE ReadNothing
  BY <1>14, None DEF ReadNothing, FirstInv
<1>15. CASE LockReceiver
  BY <1>15 DEF LockReceiver, FirstInv, Acquire
<1>16. CASE HandleMessage
  BY <1>16, None DEF HandleMessage, FirstInv
<1>17. CASE LockMiner
  BY <1>17 DEF LockMiner, FirstInv, Acquire
<1>18. CASE UnlockMiner
  BY <1>18 DEF UnlockMiner, FirstInv
<1>19. CASE WriteOther
  BY <1>19 DEF WriteOther, FirstInv
<1>20. CASE WriteFails
  BY <1>20 DEF WriteFails, FirstInv
<1>21. CASE Break
  BY <1>21 DEF Break, FirstInv
<1>22. CASE AnswerSubscribe
  BY <1>22, AfterAppend, None DEF AnswerSubscribe, FirstInv
<1>23. CASE RefuseSubscribe
  BY <1>23, AfterAppend, Messages, None DEF RefuseSubscribe, FirstInv
<1>24. CASE AnswerAuthorize
  BY <1>24, AfterAppend DEF AnswerAuthorize, FirstInv
<1>25. CASE AnswerOther
  BY <1>25, AfterAppend DEF AnswerOther, FirstInv
<1>26. CASE Notify
  BY <1>26, AfterAppend DEF Notify, FirstInv
<1>27. CASE UNCHANGED vars
  BY <1>27 DEF FirstInv, vars
<1>28. QED
  BY <1>1, <1>2, <1>3, <1>4, <1>5, <1>6, <1>7, <1>8, <1>9, <1>10, <1>11,
     <1>12, <1>13, <1>14, <1>15, <1>16, <1>17, <1>18, <1>19, <1>20, <1>21,
     <1>22, <1>23, <1>24, <1>25, <1>26, <1>27 DEF Next, Reconnect,
     StratumReceiver, Others, Outside

-----------------------------------------------------------------------------
(* The panic *)

LEMMA EarlyInit == Init => EarlyInv
BY DEF Init, EarlyInv, PanicNeedsCause

LEMMA EarlyStep ==
  ASSUME TypeInv, LockInv, EarlyInv, [Next]_vars
  PROVE  EarlyInv'
<1> USE DEF TypeInv, TypeOK, LockInv, EarlyInv, PanicNeedsCause,
          wireVars, poolVars, historyVars,
          receiverVars
<1>1. CASE SeeDisconnection
  BY <1>1 DEF SeeDisconnection, EarlyInv
<1>2. CASE LockReconnect
  BY <1>2 DEF LockReconnect, EarlyInv, Acquire
<1>3. CASE CloseConnection
  BY <1>3 DEF CloseConnection, EarlyInv
<1>4. CASE Dial
  BY <1>4 DEF Dial, EarlyInv
<1>5. CASE DialFails
  BY <1>5 DEF DialFails, EarlyInv
<1>6. CASE WriteRequestFails
  BY <1>6 DEF WriteRequestFails, EarlyInv
<1>7. CASE WriteRequest
  BY <1>7 DEF WriteRequest, EarlyInv
<1>8. CASE ReadSubscribed
  BY <1>8, AfterTail DEF ReadSubscribed, EarlyInv
<1>9. CASE Reconnected
  BY <1>9, AfterTail DEF Reconnected, EarlyInv
<1>10. CASE AuthorizationRefused
  BY <1>10, AfterTail DEF AuthorizationRefused, EarlyInv
<1>11. CASE ReadTimesOut
  BY <1>11 DEF ReadTimesOut, EarlyInv
<1>12. CASE ReadMessage
  BY <1>12, AfterTail DEF ReadMessage, EarlyInv
<1>13. CASE ReadTornLine
  BY <1>13, AfterTail DEF ReadTornLine, EarlyInv
<1>14. CASE ReadNothing
  BY <1>14 DEF ReadNothing, EarlyInv
<1>15. CASE LockReceiver
  BY <1>15 DEF LockReceiver, EarlyInv, Acquire
<1>16. CASE HandleMessage
  BY <1>16 DEF HandleMessage, EarlyInv
<1>17. CASE LockMiner
  BY <1>17 DEF LockMiner, EarlyInv, Acquire
<1>18. CASE UnlockMiner
  BY <1>18 DEF UnlockMiner, EarlyInv
<1>19. CASE WriteOther
  BY <1>19 DEF WriteOther, EarlyInv
<1>20. CASE WriteFails
  BY <1>20 DEF WriteFails, EarlyInv
<1>21. CASE Break
  BY <1>21 DEF Break, EarlyInv
<1>22. CASE AnswerSubscribe
  BY <1>22, AfterAppend, None DEF AnswerSubscribe, EarlyInv, Message
<1>23. CASE RefuseSubscribe
  <2>1. PICK m \in Message :
          /\ inbox' = Append(inbox, m)
          /\ \/ m.kind = "nothing"
             \/ m.kind = "refused" /\ denied'
    <3>1. CASE inbox' = Append(inbox, Nothing)
      BY <3>1, None
    <3>2. CASE inbox' = Append(inbox, [kind |-> "refused", session |-> 0])
               /\ denied'
      BY <3>2, Messages
    <3>3. QED
      BY <1>23, <3>1, <3>2 DEF RefuseSubscribe
  <2>2. \A i \in 1 .. Len(inbox') :
          \/ i \in 1 .. Len(inbox) /\ inbox'[i] = inbox[i]
          \/ inbox'[i] = m
    BY <2>1, AfterAppend
  <2>3. denied => denied'
    BY <1>23 DEF RefuseSubscribe
  <2>4. /\ UNCHANGED << reconnectPc, owed, early >>
        /\ request' = NoRequest /\ request.kind = "subscribe"
    BY <1>23 DEF RefuseSubscribe
  <2>5. reconnectPc \notin {"subscribe", "dial"}
    BY <2>4, None
  <2>6. reconnectPc' = "readSubscribe" => request'.kind = "none"
    BY <2>4, None
  <2>7. reconnectPc' \in {"subscribe", "readSubscribe"} /\ ~ early' =>
          /\ owed' = 0
          /\ \A i \in 1 .. Len(inbox') :
               \/ inbox'[i].kind \in {"subscribed", "notify", "nothing"}
               \/ inbox'[i].kind = "refused" /\ denied'
    BY <2>1, <2>2, <2>3, <2>4
  <2>8. PanicNeedsCause'
    BY <2>3, <2>4
  <2>9. QED
    BY <2>4, <2>5, <2>6, <2>7, <2>8
<1>24. CASE AnswerAuthorize
  BY <1>24, AfterAppend, None DEF AnswerAuthorize, EarlyInv
<1>25. CASE AnswerOther
  BY <1>25, AfterAppend DEF AnswerOther, EarlyInv
<1>26. CASE Notify
  BY <1>26, AfterAppend DEF Notify, EarlyInv
<1>27. CASE UNCHANGED vars
  BY <1>27 DEF EarlyInv, vars
<1>28. QED
  BY <1>1, <1>2, <1>3, <1>4, <1>5, <1>6, <1>7, <1>8, <1>9, <1>10, <1>11,
     <1>12, <1>13, <1>14, <1>15, <1>16, <1>17, <1>18, <1>19, <1>20, <1>21,
     <1>22, <1>23, <1>24, <1>25, <1>26, <1>27 DEF Next, Reconnect,
     StratumReceiver, Others, Outside

-----------------------------------------------------------------------------
(* The connection as the other modules see it *)

LEMMA WireInit == Init => Wire!Init
BY DEF Init, Wire!Init

(* A step is one of StratumWire, or leaves what it speaks of. *)
LEMMA WireStep ==
  ASSUME TypeInv, LockInv, [Next]_vars
  PROVE  [Wire!Next]_Wire!vars
<1> USE DEF TypeInv, TypeOK, LockInv, wireVars, poolVars, historyVars,
          receiverVars,
          Wire!vars, Wire!Next, Wire!Keep, Wire!Disconnect, Wire!Connect
<1>1. CASE SeeDisconnection
  BY <1>1 DEF SeeDisconnection, LockInv
<1>2. CASE LockReconnect
  BY <1>2 DEF LockReconnect, LockInv, Acquire
<1>3. CASE CloseConnection
  BY <1>3 DEF CloseConnection, LockInv
<1>4. CASE Dial
  BY <1>4 DEF Dial, LockInv
<1>5. CASE DialFails
  BY <1>5 DEF DialFails, LockInv
<1>6. CASE WriteRequestFails
  BY <1>6 DEF WriteRequestFails, LockInv
<1>7. CASE WriteRequest
  BY <1>7 DEF WriteRequest, LockInv
<1>8. CASE ReadSubscribed
  BY <1>8, AfterTail DEF ReadSubscribed, LockInv
<1>9. CASE Reconnected
  BY <1>9, AfterTail DEF Reconnected, LockInv
<1>10. CASE AuthorizationRefused
  BY <1>10, AfterTail DEF AuthorizationRefused, LockInv
<1>11. CASE ReadTimesOut
  BY <1>11 DEF ReadTimesOut, LockInv
<1>12. CASE ReadMessage
  BY <1>12, AfterTail DEF ReadMessage, LockInv
<1>13. CASE ReadTornLine
  BY <1>13, AfterTail DEF ReadTornLine, LockInv
<1>14. CASE ReadNothing
  BY <1>14 DEF ReadNothing, LockInv
<1>15. CASE LockReceiver
  BY <1>15 DEF LockReceiver, LockInv, Acquire
<1>16. CASE HandleMessage
  BY <1>16 DEF HandleMessage, LockInv
<1>17. CASE LockMiner
  BY <1>17 DEF LockMiner, LockInv, Acquire
<1>18. CASE UnlockMiner
  BY <1>18 DEF UnlockMiner, LockInv
<1>19. CASE WriteOther
  BY <1>19 DEF WriteOther, LockInv
<1>20. CASE WriteFails
  BY <1>20 DEF WriteFails, LockInv
<1>21. CASE Break
  BY <1>21 DEF Break, LockInv
<1>22. CASE AnswerSubscribe
  BY <1>22, AfterAppend DEF AnswerSubscribe, LockInv
<1>23. CASE RefuseSubscribe
  BY <1>23, AfterAppend, Messages, None DEF RefuseSubscribe, LockInv
<1>24. CASE AnswerAuthorize
  BY <1>24, AfterAppend DEF AnswerAuthorize, LockInv
<1>25. CASE AnswerOther
  BY <1>25, AfterAppend DEF AnswerOther, LockInv
<1>26. CASE Notify
  BY <1>26, AfterAppend DEF Notify, LockInv
<1>27. CASE UNCHANGED vars
  BY <1>27 DEF LockInv, vars
<1>28. QED
  BY <1>1, <1>2, <1>3, <1>4, <1>5, <1>6, <1>7, <1>8, <1>9, <1>10, <1>11,
     <1>12, <1>13, <1>14, <1>15, <1>16, <1>17, <1>18, <1>19, <1>20, <1>21,
     <1>22, <1>23, <1>24, <1>25, <1>26, <1>27 DEF Next, Reconnect,
     StratumReceiver, Others, Outside

-----------------------------------------------------------------------------
(* The theorems *)

IInv ==
  /\ TypeInv
  /\ LockInv
  /\ FirstInv
  /\ EarlyInv

LEMMA Invariance == Spec => []IInv
<1>1. Init => IInv
  BY TypeInit, LockInit, FirstInit, EarlyInit DEF IInv
<1>2. IInv /\ [Next]_vars => IInv'
  BY TypeStep, LockStep, FirstStep, EarlyStep DEF IInv
<1>3. QED
  BY <1>1, <1>2, PTL DEF Spec

(* Every variable stays within its type, whatever the pool sends and       *)
(* however often the connection breaks (stratum.go:83-222, 252-362).       *)
THEOREM TypeCorrect == Spec => []TypeOK
<1>1. IInv => TypeOK
  BY DEF IInv, TypeInv
<1>2. QED
  BY <1>1, Invariance, PTL

(* A job is always stored with the ExtraNonce1 of the session it was       *)
(* announced in, because StratumMutex does not come back from a            *)
(* reconnection (stratum.go:285, smminer.go:183).                          *)
THEOREM JobsMatchSessions == Spec => []JobMatchesSession
<1>1. IInv => JobMatchesSession
  BY DEF IInv, FirstInv
<1>2. QED
  BY <1>1, Invariance, PTL

(* Without a refusal by the pool, or a request of another goroutine on the *)
(* new connection before the answer to the subscription, StratumSubscribe  *)
(* does not panic (stratum.go:95-99, 149-156).                             *)
THEOREM PanicsHaveCauses == Spec => []PanicNeedsCause
<1>1. IInv => PanicNeedsCause
  BY DEF IInv, EarlyInv
<1>2. QED
  BY <1>1, Invariance, PTL

(* The session implements the connection the other modules rely on: at     *)
(* most one reconnection, with StratumMutex gone before it                 *)
(* (smminer.go:164-183).                                                   *)
THEOREM ImplementsWire == Spec => WireSpec
<1>1. Init => Wire!Init
  BY WireInit
<1>2. IInv /\ [Next]_vars => [Wire!Next]_Wire!vars
  BY WireStep DEF IInv
<1>3. QED
  BY <1>1, <1>2, Invariance, PTL DEF Spec, WireSpec, Wire!Spec

(* With the StratumMutex of a reconnection gone no job is stored any more, *)
(* whether the reconnection succeeded or not (smminer.go:164-183): what    *)
(* StratumReceiver reads (stratum.go:255) it never gets to handle, the new *)
(* session's notifications included.                                       *)
NoJobAfterReconnect ==
  [][stratumMutex = "reconnect"
       => /\ UNCHANGED << stratumMutex, job >>
          /\ receiverPc # "handle" /\ receiverPc' # "handle"]_vars

(* Only a step with StratumMutex of its own changes the job or gives the   *)
(* mutex back.                                                             *)
LEMMA KeptStep ==
  ASSUME IInv, IInv', [Next]_vars, stratumMutex = "reconnect"
  PROVE  /\ UNCHANGED << stratumMutex, job >>
         /\ receiverPc # "handle" /\ receiverPc' # "handle"
<1>1. receiverPc # "handle"
  BY DEF IInv, LockInv
<1>2. CASE Reconnect
  <2>1. UNCHANGED << stratumMutex, job >>
    BY <1>2 DEF Reconnect, SeeDisconnection, LockReconnect, Acquire,
       CloseConnection, Dial, DialFails, WriteRequestFails, WriteRequest,
       ReadSubscribed, Reconnected, AuthorizationRefused, ReadTimesOut
  <2>2. QED
    BY <1>1, <2>1 DEF IInv, LockInv
<1>3. CASE StratumReceiver
  <2>1. UNCHANGED << stratumMutex, job >>
    BY <1>1, <1>3 DEF StratumReceiver, ReadMessage, ReadTornLine, ReadNothing,
       LockReceiver, Acquire, HandleMessage
  <2>2. QED
    BY <1>1, <2>1 DEF IInv, LockInv
<1>4. CASE Others
  <2>1. UNCHANGED << stratumMutex, job >>
    BY <1>4 DEF Others, LockMiner, Acquire, UnlockMiner, WriteOther, WriteFails
  <2>2. QED
    BY <1>1, <2>1 DEF IInv, LockInv
<1>5. CASE Outside
  <2>1. UNCHANGED << stratumMutex, job >>
    BY <1>5 DEF Outside, Break, AnswerSubscribe, RefuseSubscribe,
       AnswerAuthorize, AnswerOther, Notify
  <2>2. QED
    BY <1>1, <2>1 DEF IInv, LockInv
<1>6. CASE UNCHANGED vars
  <2>1. UNCHANGED << stratumMutex, job >>
    BY <1>6 DEF vars
  <2>2. QED
    BY <1>1, <2>1 DEF IInv, LockInv
<1>7. QED
  BY <1>2, <1>3, <1>4, <1>5, <1>6 DEF Next

(* However the reconnection ends, the job of that moment is the last       *)
(* (smminer.go:183).                                                       *)
THEOREM LastJobAtReconnect == Spec => NoJobAfterReconnect
<1>1. IInv /\ IInv' /\ [Next]_vars
        => [stratumMutex = "reconnect"
              => /\ UNCHANGED << stratumMutex, job >>
                 /\ receiverPc # "handle" /\ receiverPc' # "handle"]_vars
  BY KeptStep
<1>2. QED
  BY <1>1, Invariance, PTL DEF Spec, NoJobAfterReconnect
=============================================================================
