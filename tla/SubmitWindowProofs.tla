------------------------- MODULE SubmitWindowProofs -------------------------
(***************************************************************************)
(* Theorems about SubmitWindow and their proofs, for any size of the       *)
(* window, any WorkIDs and any number of works.                            *)
(***************************************************************************)
EXTENDS SubmitWindow, SequenceTheorems, TLAPS

-----------------------------------------------------------------------------
(* Sequences *)

(* A longer range of numbers makes room for the same sequences. *)
LEMMA SequencesWiden ==
  ASSUME NEW m \in Nat, NEW n \in Nat, m <= n, NEW s \in Seq(1 .. m)
  PROVE  s \in Seq(1 .. n)
OBVIOUS

(* A larger set has the same sequences. *)
LEMMA SequencesGrow ==
  ASSUME NEW S, NEW T, S \subseteq T, NEW s \in Seq(S)
  PROVE  s \in Seq(T)
OBVIOUS

(* The empty sequence. *)
LEMMA Empty ==
  ASSUME NEW S
  PROVE  << >> \in Seq(S) /\ Len(<< >>) = 0 /\ DOMAIN << >> = {}
OBVIOUS

(* What Tail leaves. *)
LEMMA AfterTail ==
  ASSUME NEW S, NEW s \in Seq(S), s # << >>
  PROVE  /\ Head(s) \in S
         /\ Tail(s) \in Seq(S)
         /\ Len(Tail(s)) = Len(s) - 1
         /\ \A k \in 1 .. Len(s) - 1 : Tail(s)[k] = s[k + 1]
OBVIOUS

(* What Append adds. *)
LEMMA AfterAppend ==
  ASSUME NEW S, NEW s \in Seq(S), NEW x \in S
  PROVE  /\ Append(s, x) \in Seq(S)
         /\ Len(Append(s, x)) = Len(s) + 1
         /\ \A k \in 1 .. Len(s) : Append(s, x)[k] = s[k]
         /\ Append(s, x)[Len(s) + 1] = x
OBVIOUS

(* What RemoveAt leaves. *)
LEMMA AfterRemoval ==
  ASSUME NEW S, NEW s \in Seq(S), NEW i \in 1 .. Len(s)
  PROVE  /\ RemoveAt(s, i) \in Seq(S)
         /\ Len(RemoveAt(s, i)) = Len(s) - 1
         /\ \A k \in 1 .. Len(s) - 1 :
              RemoveAt(s, i)[k] = IF k < i THEN s[k] ELSE s[k + 1]
<1> DEFINE front == SubSeq(s, 1, i - 1)
           back  == SubSeq(s, i + 1, Len(s))
<1>1. Len(s) \in Nat /\ i \in Nat /\ 1 <= i /\ i <= Len(s)
  OBVIOUS
<1>2. /\ front \in Seq(S) /\ Len(front) = i - 1
      /\ \A k \in 1 .. i - 1 : front[k] = s[k]
  BY <1>1
<1>3. /\ back \in Seq(S) /\ Len(back) = Len(s) - i
      /\ \A k \in 1 .. Len(s) - i : back[k] = s[i + k]
  BY <1>1
<1> HIDE DEF front, back
<1>4. RemoveAt(s, i) = front \o back
  BY <1>1 DEF RemoveAt, front, back
<1>5. /\ front \o back \in Seq(S) /\ Len(front \o back) = Len(s) - 1
      /\ \A k \in 1 .. Len(s) - 1 :
           (front \o back)[k] = IF k <= i - 1 THEN front[k]
                                ELSE back[k - (i - 1)]
  <2>1. Len(front) + Len(back) = Len(s) - 1
    BY <1>1, <1>2, <1>3
  <2>2. /\ front \o back \in Seq(S)
        /\ Len(front \o back) = Len(front) + Len(back)
        /\ \A k \in 1 .. Len(front) + Len(back) :
             (front \o back)[k] = IF k <= Len(front) THEN front[k]
                                  ELSE back[k - Len(front)]
    BY <1>2, <1>3, ConcatProperties, Zenon
  <2>3. Len(front) = i - 1
    BY <1>2
  <2>4. QED
    BY <2>1, <2>2, <2>3
<1>6. ASSUME NEW k \in 1 .. Len(s) - 1
      PROVE  RemoveAt(s, i)[k] = IF k < i THEN s[k] ELSE s[k + 1]
  <2>1. CASE k < i
    BY <1>1, <1>2, <1>4, <1>5, <2>1
  <2>2. CASE ~ (k < i)
    <3>1. k - (i - 1) \in 1 .. Len(s) - i /\ i + (k - (i - 1)) = k + 1
      BY <1>1, <2>2
    <3>2. QED
      BY <1>1, <1>3, <1>4, <1>5, <2>2, <3>1
  <2>3. QED
    BY <2>1, <2>2
<1>7. QED
  BY <1>4, <1>5, <1>6

(* What is left of two sequences put together around a position. *)
LEMMA AfterSplice ==
  ASSUME NEW S, NEW s \in Seq(S), NEW t \in Seq(S),
         NEW i \in 1 .. Len(t), i - 1 <= Len(s)
  PROVE  /\ SubSeq(s, 1, i - 1) \o SubSeq(t, i + 1, Len(t)) \in Seq(S)
         /\ Len(SubSeq(s, 1, i - 1) \o SubSeq(t, i + 1, Len(t))) = Len(t) - 1
<1> DEFINE front == SubSeq(s, 1, i - 1)
           back  == SubSeq(t, i + 1, Len(t))
<1>1. Len(t) \in Nat /\ i \in Nat /\ 1 <= i /\ i <= Len(t) /\ Len(s) \in Nat
  OBVIOUS
<1>2. front \in Seq(S) /\ Len(front) = i - 1
  BY <1>1
<1>3. back \in Seq(S) /\ Len(back) = Len(t) - i
  BY <1>1
<1> HIDE DEF front, back
<1>4. front \o back \in Seq(S) /\ Len(front \o back) = Len(front) + Len(back)
  BY <1>2, <1>3, ConcatProperties, Zenon
<1>5. Len(front \o back) = Len(t) - 1
  BY <1>1, <1>2, <1>3, <1>4
<1>6. QED
  BY <1>4, <1>5 DEF front, back

(* The works of a sequence are in the order of their submission. *)
Sorted(s) == \A i, j \in DOMAIN s : i < j => s[i] <= s[j]

(* Order survives dropping the oldest, *)
LEMMA SortedTail ==
  ASSUME NEW n \in Nat, NEW s \in Seq(1 .. n), s # << >>, Sorted(s)
  PROVE  Sorted(Tail(s))
<1>1. DOMAIN s = 1 .. Len(s) /\ Len(s) \in Nat
  OBVIOUS
<1>2. /\ DOMAIN Tail(s) = 1 .. Len(s) - 1
      /\ \A k \in 1 .. Len(s) - 1 : Tail(s)[k] = s[k + 1]
  BY AfterTail
<1>3. QED
  BY <1>1, <1>2 DEF Sorted

(* recording the latest work there is, *)
LEMMA SortedAppend ==
  ASSUME NEW n \in Nat \ {0}, NEW s \in Seq(1 .. n), Sorted(s)
  PROVE  Sorted(Append(s, n))
<1>1. DOMAIN s = 1 .. Len(s) /\ Len(s) \in Nat
      /\ \A k \in 1 .. Len(s) : s[k] \in 1 .. n
  OBVIOUS
<1>2. /\ DOMAIN Append(s, n) = 1 .. Len(s) + 1
      /\ \A k \in 1 .. Len(s) : Append(s, n)[k] = s[k]
      /\ Append(s, n)[Len(s) + 1] = n
  OBVIOUS
<1>3. ASSUME NEW i \in 1 .. Len(s) + 1, NEW j \in 1 .. Len(s) + 1, i < j
      PROVE  Append(s, n)[i] <= Append(s, n)[j]
  <2>1. i \in 1 .. Len(s)
    BY <1>1, <1>3
  <2>2. CASE j = Len(s) + 1
    BY <1>1, <1>2, <2>1, <2>2
  <2>3. CASE j \in 1 .. Len(s)
    BY <1>1, <1>2, <1>3, <2>1, <2>3 DEF Sorted
  <2>4. QED
    BY <1>1, <2>2, <2>3
<1>4. QED
  BY <1>2, <1>3 DEF Sorted

(* and removing a work. *)
LEMMA SortedRemoval ==
  ASSUME NEW n \in Nat, NEW s \in Seq(1 .. n), NEW i \in 1 .. Len(s), Sorted(s)
  PROVE  Sorted(RemoveAt(s, i))
<1> DEFINE r == RemoveAt(s, i)
<1>1. DOMAIN s = 1 .. Len(s) /\ Len(s) \in Nat
      /\ \A k \in 1 .. Len(s) : s[k] \in 1 .. n
  OBVIOUS
<1>2. /\ r \in Seq(1 .. n) /\ Len(r) = Len(s) - 1
      /\ \A k \in 1 .. Len(s) - 1 : r[k] = IF k < i THEN s[k] ELSE s[k + 1]
  BY AfterRemoval
<1>3. DOMAIN r = 1 .. Len(s) - 1
  BY <1>2
<1> HIDE DEF r
<1>4. ASSUME NEW j \in DOMAIN r, NEW k \in DOMAIN r, j < k
      PROVE  r[j] <= r[k]
  <2>0. /\ r[j] = IF j < i THEN s[j] ELSE s[j + 1]
        /\ r[k] = IF k < i THEN s[k] ELSE s[k + 1]
    BY <1>2, <1>3, <1>4
  <2>1. /\ j \in 1 .. Len(s) /\ k \in 1 .. Len(s)
        /\ j + 1 \in 1 .. Len(s) /\ k + 1 \in 1 .. Len(s)
    BY <1>1, <1>3
  <2>2. CASE k < i
    BY <1>2, <1>3, <1>4, <2>1, <2>2, <1>1 DEF Sorted
  <2>3. CASE j < i /\ ~ (k < i)
    <3>1. r[j] = s[j] /\ r[k] = s[k + 1] /\ j < k + 1
      BY <1>1, <1>3, <1>4, <2>0, <2>3
    <3>2. QED
      BY <1>1, <2>1, <3>1 DEF Sorted
  <2>4. CASE ~ (j < i)
    <3>1. r[j] = s[j + 1] /\ r[k] = s[k + 1] /\ j + 1 < k + 1
      BY <1>1, <1>3, <1>4, <2>0, <2>4
    <3>2. QED
      BY <1>1, <2>1, <3>1 DEF Sorted
  <2>5. QED
    BY <1>1, <1>3, <1>4, <2>2, <2>3, <2>4
<1>5. QED
  BY <1>4 DEF Sorted, r

-----------------------------------------------------------------------------
(* The invariants *)

(* A share is under way from its write to its record. *)
TypeInv ==
  /\ TypeOK
  /\ submitPc \in {"check", "full", "slice", "load", "append"}
       => Len(workId) # 0

(* How much the headers loaded can differ from the window, and the only    *)
(* situation in which the removal is out of range.                         *)
SizeInv ==
  /\ WindowBounded
  /\ submitPc = "slice" => /\ Len(submitView) <= MaxSubmits
                           /\ Len(window) <= Len(submitView)
  /\ submitPc = "load" => Len(window) <= MaxSubmits - 1
  /\ submitPc = "append" => /\ Len(submitView) <= MaxSubmits - 1
                            /\ Len(window) <= Len(submitView)
  /\ receiverPc = "store" =>
       /\ Len(restView) <= MaxSubmits
       /\ Len(restView) <= Len(window) + 1
       /\ submitPc = "slice" => Len(restView) <= Len(submitView)
       /\ submitPc = "append" => Len(restView) <= Len(submitView) + 1
       /\ \/ Len(restView) <= Len(window)
          \/ submitPc \in {"load", "append"}
  /\ receiverPc \in {"load", "reload"} =>
       /\ index \in 1 .. MaxSubmits
       /\ index <= Len(window) + 1
       /\ submitPc = "slice" => index <= Len(submitView)
       /\ submitPc = "append" => index <= Len(submitView) + 1
       /\ \/ index <= Len(window)
          \/ submitPc \in {"load", "append"}

(* The headers loaded are in order as well, until two different ones are   *)
(* put together.                                                           *)
OrderInv ==
  ~ mixed => /\ Sorted(window)
             /\ Sorted(submitView)
             /\ Sorted(receiverView)
             /\ receiverPc = "store" => restView = receiverView

(* What the rejections counted have cost so far. *)
Spent == (MaxRejections + 1) * forced + poolRejections

(* A rejection in hand is not counted yet. *)
EarnInv ==
  /\ Spent <= rejections
  /\ receiverPc \in {"lock", "match"} /\ ~ answer.accepted
       => Spent + 1 <= rejections

-----------------------------------------------------------------------------
(* The moved entries *)

(* The entries StratumSubmit reads of an array that the removal is moving  *)
(* are works, as many as before,                                           *)
LEMMA MovedViewsType ==
  ASSUME TypeOK, NEW view \in MovedViews
  PROVE  /\ view \in Seq(Works)
         /\ Len(view) = Len(submitView)
<1>1. /\ submitView \in Seq(Works) /\ Len(submitView) \in Nat
      /\ DOMAIN submitView = 1 .. Len(submitView)
  BY DEF TypeOK
<1>2. view \in [1 .. Len(submitView) -> Works]
  BY <1>1 DEF MovedViews
<1>3. QED
  BY <1>1, <1>2

(* and in order when both of the receiver's headers are the same.          *)
LEMMA MovedViewsOrder ==
  ASSUME TypeOK, receiverPc = "store", restView = receiverView,
         Sorted(submitView), Sorted(receiverView), NEW view \in MovedViews
  PROVE  Sorted(view)
<1> DEFINE n == Len(workId)
           sv == submitView
           rv == receiverView
<1>1. /\ n \in Nat /\ Works = 1 .. n
      /\ sv \in Seq(1 .. n) /\ rv \in Seq(1 .. n)
      /\ Len(sv) \in Nat /\ Len(rv) \in Nat
      /\ DOMAIN sv = 1 .. Len(sv) /\ DOMAIN rv = 1 .. Len(rv)
      /\ index \in 1 .. Len(rv)
  BY DEF TypeOK, Works
<1>2. view \in [1 .. Len(sv) -> 1 .. n]
  BY <1>1 DEF MovedViews
<1>3. PICK d \in -Len(sv) .. Len(rv) :
        /\ \A k \in 1 .. Len(sv) : k + d \in 1 .. Len(rv) => sv[k] = rv[k + d]
        /\ \A k \in 1 .. Len(sv) :
             \/ view[k] = sv[k]
             \/ k + d \in index .. Len(rv) - 1 /\ view[k] = rv[k + d + 1]
  BY <1>1 DEF MovedViews, SameArray
<1>4. /\ \A k \in 1 .. Len(sv) : sv[k] \in 1 .. n
      /\ \A k \in 1 .. Len(rv) : rv[k] \in 1 .. n
      /\ \A k, m \in 1 .. Len(sv) : k < m => sv[k] <= sv[m]
      /\ \A k, m \in 1 .. Len(rv) : k < m => rv[k] <= rv[m]
  <2>1. /\ \A k \in 1 .. Len(sv) : sv[k] \in 1 .. n
        /\ \A k \in 1 .. Len(rv) : rv[k] \in 1 .. n
    BY <1>1
  <2>2. QED
    BY <1>1, <2>1 DEF Sorted
<1> HIDE DEF n, sv, rv
<1>5. /\ d \in Int /\ Len(sv) \in Int /\ Len(rv) \in Int
      /\ index \in Int /\ 1 <= index
  BY <1>1, <1>3
<1>6. \A k \in 1 .. Len(sv) : view[k] \in 1 .. n
  BY <1>2
<1>7. ASSUME NEW k \in 1 .. Len(sv), NEW m \in 1 .. Len(sv), k < m
      PROVE  view[k] <= view[m]
  <2>1. k \in Int /\ m \in Int /\ k + 1 \in 1 .. Len(sv) /\ sv[k] <= sv[m]
    BY <1>1, <1>4, <1>7
  <2>2. sv[m] <= view[m]
    <3>1. CASE view[m] = sv[m]
      BY <1>4, <1>6, <3>1
    <3>2. CASE m + d \in index .. Len(rv) - 1 /\ view[m] = rv[m + d + 1]
      <4>1. /\ m + d \in 1 .. Len(rv) /\ m + d + 1 \in 1 .. Len(rv)
            /\ m + d < m + d + 1
        BY <1>5, <2>1, <3>2
      <4>2. QED
        BY <1>3, <1>4, <3>2, <4>1
    <3>3. QED
      BY <1>3, <3>1, <3>2
  <2>3. CASE view[k] = sv[k]
    BY <1>4, <1>6, <2>1, <2>2, <2>3
  <2>4. CASE k + d \in index .. Len(rv) - 1 /\ view[k] = rv[k + d + 1]
    <3>1. k + d + 1 \in 1 .. Len(rv) /\ (k + 1) + d = k + d + 1
      BY <1>5, <2>1, <2>4
    <3>2. sv[k + 1] = rv[k + d + 1]
      BY <1>3, <2>1, <3>1
    <3>3. sv[k + 1] <= sv[m]
      BY <1>1, <1>4, <1>7, <2>1
    <3>4. QED
      BY <1>4, <1>6, <2>1, <2>2, <2>4, <3>2, <3>3
  <2>5. QED
    BY <1>3, <2>3, <2>4
<1>8. DOMAIN view = 1 .. Len(sv)
  BY <1>1, <1>2
<1>9. QED
  BY <1>1, <1>7, <1>8 DEF Sorted, n, sv

-----------------------------------------------------------------------------
(* Types *)

LEMMA TypeInit == Init => TypeInv
<1> SUFFICES ASSUME Init
             PROVE  TypeInv
  OBVIOUS
<1>1. /\ workId \in Seq(WorkIDs) /\ pending \in Seq(Works)
      /\ answers \in Seq([work : Works, accepted : BOOLEAN])
      /\ window \in Seq(Works) /\ submitView \in Seq(Works)
      /\ receiverView \in Seq(Works) /\ restView \in Seq(Works)
  BY Empty, Zenon DEF Init
<1>2. /\ submitPc = "idle" /\ receiverPc = "read" /\ stratumMutex = "free"
      /\ answer = NoAnswer /\ index = 0 /\ poolRejections = 0
      /\ forgetSubmits = FALSE /\ crashed = FALSE /\ mixed = FALSE
      /\ rejections = 0 /\ forced = 0 /\ credits = {}
  BY Zenon DEF Init
<1>3. answer \in [work : Works \cup {0}, accepted : BOOLEAN]
  BY <1>2 DEF NoAnswer
<1>4. QED
  BY <1>1, <1>2, <1>3 DEF TypeInv, TypeOK

(* No step leaves the types. *)
LEMMA TypeStep ==
  ASSUME TypeInv, SizeInv, OrderInv, [Next]_vars
  PROVE  TypeInv'
<1> USE WindowAssumption DEF TypeInv, TypeOK, poolVars, submitVars,
          receiverVars, historyVars
<1>1. CASE SeeForgetSubmits /\ UNCHANGED crashed
  BY <1>1 DEF SeeForgetSubmits, Works
<1>2. CASE ClearForgetSubmits /\ UNCHANGED crashed
  BY <1>2 DEF ClearForgetSubmits, Works
<1>3. CASE WriteShare /\ UNCHANGED crashed
  <2>1. PICK id \in WorkIDs : workId' = Append(workId, id)
    BY <1>3 DEF WriteShare
  <2>2. /\ workId' \in Seq(WorkIDs) /\ Len(workId') = Len(workId) + 1
        /\ Len(workId) \in Nat
    BY <2>1, AfterAppend
  <2>3. /\ pending \in Seq(Works') /\ window \in Seq(Works')
        /\ submitView \in Seq(Works') /\ receiverView \in Seq(Works')
        /\ restView \in Seq(Works')
    BY <2>2, SequencesWiden DEF Works
  <2>4. /\ Works \subseteq Works' /\ Len(workId) + 1 \in Works'
    BY <2>2 DEF Works
  <2>5. answers \in Seq([work : Works', accepted : BOOLEAN])
    <3>1. [work : Works, accepted : BOOLEAN]
            \subseteq [work : Works', accepted : BOOLEAN]
      BY <2>4
    <3>2. QED
      BY <3>1, SequencesGrow
  <2>6. pending' \in Seq(Works')
    BY <1>3, <2>3, <2>4, AfterAppend DEF WriteShare
  <2>7. /\ answer' \in [work : Works' \cup {0}, accepted : BOOLEAN]
        /\ receiverPc' # "read" => answer'.work \in Works'
        /\ credits' \in SUBSET (Works' \X Works')
    BY <1>3, <2>4 DEF WriteShare
  <2>8. UNCHANGED << answers, window, submitView, receiverPc, receiverView,
          restView, index, stratumMutex, poolRejections, forgetSubmits,
          rejections, mixed, forced >> /\ submitPc' = "check"
    BY <1>3, Zenon DEF WriteShare, receiverVars, historyVars
  <2>9. crashed' \in BOOLEAN
    BY <1>3
  <2>10. QED
    BY <2>2, <2>3, <2>5, <2>6, <2>7, <2>8, <2>9
<1>4. CASE CheckWindow /\ UNCHANGED crashed
  BY <1>4 DEF CheckWindow, Works
<1>5. CASE DropOldest /\ UNCHANGED crashed
  BY <1>5, AfterTail DEF DropOldest, Works
<1>6. CASE LoadWindow /\ UNCHANGED crashed
  BY <1>6 DEF LoadWindow, Works
<1>7. CASE AppendWork /\ UNCHANGED crashed
  BY <1>7, AfterAppend DEF AppendWork, Works
<1>8. CASE ReadAnswer /\ UNCHANGED crashed
  <2>1. /\ answers # << >> /\ answer' = Head(answers)
        /\ answers' = Tail(answers) /\ receiverPc' = "lock"
        /\ rejections' = rejections \/ rejections' = rejections + 1
        /\ UNCHANGED << workId, pending, window, submitVars, receiverView,
             restView, index, stratumMutex, poolRejections, forgetSubmits,
             credits, mixed, forced, crashed >>
    BY <1>8 DEF ReadAnswer
  <2>2. /\ answer' \in [work : Works, accepted : BOOLEAN]
        /\ answers' \in Seq([work : Works, accepted : BOOLEAN])
    BY <2>1, AfterTail
  <2>3. rejections' \in Nat /\ Works' = Works
    BY <2>1 DEF Works
  <2>4. /\ answer' \in [work : Works' \cup {0}, accepted : BOOLEAN]
        /\ answer'.work \in Works'
    BY <2>2, <2>3
  <2>5. QED
    BY <2>1, <2>2, <2>3, <2>4
<1>9. CASE LockReceiver /\ UNCHANGED crashed
  BY <1>9 DEF LockReceiver, Works
<1>10. CASE MatchAnswer /\ UNCHANGED crashed
  BY <1>10 DEF MatchAnswer, Works
<1>11. CASE IgnoreAnswer /\ UNCHANGED crashed
  <2>1. /\ receiverView' = << >> /\ restView' = << >>
        /\ answer' = NoAnswer /\ index' = 0
        /\ receiverPc' = "read" /\ stratumMutex' = "free"
        /\ UNCHANGED << poolVars, window, submitVars, poolRejections,
             forgetSubmits, historyVars, crashed >>
    BY <1>11, Zenon DEF IgnoreAnswer, ReturnToRead
  <2>2. /\ Works' = Works
        /\ receiverView' \in Seq(Works) /\ restView' \in Seq(Works)
    BY <2>1, Empty DEF Works
  <2>3. answer' \in [work : Works' \cup {0}, accepted : BOOLEAN]
    BY <2>1 DEF NoAnswer
  <2>4. QED
    BY <2>1, <2>2, <2>3
<1>12. CASE LoadForRemoval /\ UNCHANGED crashed
  <2>1. index - 1 <= Len(window)
    BY <1>12 DEF LoadForRemoval, SizeInv
  <2>2. QED
    BY <1>12, <2>1 DEF LoadForRemoval, Works
<1>13. CASE StoreRemoval /\ UNCHANGED crashed
  <2>1. /\ receiverPc = "store" /\ index \in 1 .. Len(restView)
        /\ index - 1 <= Len(receiverView)
        /\ window' = SubSeq(receiverView, 1, index - 1)
                       \o SubSeq(restView, index + 1, Len(restView))
        /\ submitView' \in MovedViews /\ submitPc' = submitPc
        /\ receiverPc' = "read" /\ index' = 0 /\ stratumMutex' = "free"
        /\ ForceJobChange
        /\ UNCHANGED << poolVars, credits, rejections, mixed, crashed >>
    BY <1>13 DEF StoreRemoval, ReturnToRead
  <2>2. receiverView' = << >> /\ restView' = << >> /\ answer' = NoAnswer
    BY <1>13, Zenon DEF StoreRemoval, ReturnToRead
  <2>3. window' \in Seq(Works)
    BY <2>1, AfterSplice
  <2>4. submitView' \in Seq(Works)
    BY <2>1, MovedViewsType
  <2>5. /\ poolRejections' \in Nat /\ forced' \in Nat
        /\ forgetSubmits' \in BOOLEAN
    <3>1. /\ poolRejections' = 0 \/ poolRejections' = poolRejections
          /\ forced' = forced + 1 \/ forced' = forced
      BY <2>1, Zenon DEF ForceJobChange
    <3>2. forgetSubmits' = TRUE \/ forgetSubmits' = forgetSubmits
      BY <2>1, Zenon DEF ForceJobChange
    <3>3. forgetSubmits' \in BOOLEAN
      BY <3>2, Zenon
    <3>4. poolRejections' \in Nat /\ forced' \in Nat
      BY <3>1
    <3>5. QED
      BY <3>3, <3>4
  <2>6. /\ Works' = Works
        /\ receiverView' \in Seq(Works) /\ restView' \in Seq(Works)
    BY <2>1, <2>2, Empty DEF Works
  <2>7. answer' \in [work : Works' \cup {0}, accepted : BOOLEAN]
    BY <2>2 DEF NoAnswer
  <2>8. QED
    BY <2>1, <2>2, <2>3, <2>4, <2>5, <2>6, <2>7
<1>14. CASE Notify /\ UNCHANGED crashed
  BY <1>14 DEF Notify, Works
<1>15. CASE Pool /\ UNCHANGED crashed
  <2>1. PICK i \in DOMAIN pending : Answer(i)
    BY <1>15 DEF Pool
  <2>2. PICK a \in BOOLEAN :
          answers' = Append(answers, [work |-> pending[i], accepted |-> a])
    BY <2>1 DEF Answer
  <2>3. /\ pending' = RemoveAt(pending, i)
        /\ UNCHANGED << workId, window, submitVars, receiverVars, stratumMutex,
             poolRejections, forgetSubmits, historyVars, crashed >>
    BY <1>15, <2>1 DEF Answer
  <2>4. i \in 1 .. Len(pending) /\ pending[i] \in Works
    OBVIOUS
  <2>5. answers' \in Seq([work : Works, accepted : BOOLEAN])
    <3>1. [work |-> pending[i], accepted |-> a]
            \in [work : Works, accepted : BOOLEAN]
      BY <2>4
    <3>2. QED
      BY <2>2, <3>1, AfterAppend
  <2>6. pending' \in Seq(Works)
    BY <2>3, <2>4, AfterRemoval
  <2>7. Works' = Works
    BY <2>3 DEF Works
  <2>8. QED
    BY <2>3, <2>5, <2>6, <2>7
<1>16. CASE Reconnect /\ UNCHANGED crashed
  BY <1>16 DEF Reconnect, Works
<1>17. CASE PanicInRemoval
  BY <1>17 DEF PanicInRemoval, Works
<1>18. CASE UNCHANGED vars
  BY <1>18 DEF vars, Works
<1>19. CASE SeeNothingToForget /\ UNCHANGED crashed
  BY <1>19 DEF SeeNothingToForget, Works
<1>20. CASE EndRound /\ UNCHANGED crashed
  BY <1>20 DEF EndRound, Works
<1>21. CASE LoadForSlice /\ UNCHANGED crashed
  <2>1. /\ submitView' = window /\ submitPc' = "slice"
        /\ submitPc = "full" /\ Len(workId) # 0
        /\ UNCHANGED << poolVars, window, receiverVars, stratumMutex,
             poolRejections, forgetSubmits, historyVars, crashed >>
    BY <1>21 DEF LoadForSlice
  <2>2. /\ UNCHANGED << workId, pending, answers, receiverPc, receiverView,
             restView, answer, index, credits, rejections, mixed, forced >>
        /\ Works' = Works
    BY <2>1 DEF Works
  <2> HIDE DEF SizeInv, OrderInv
  <2>3. QED
    BY <2>1, <2>2
<1>22. CASE PanicInSlice /\ UNCHANGED crashed
  BY <1>22, Empty DEF PanicInSlice, Works
<1>23. CASE LoadRest /\ UNCHANGED crashed
  <2>1. /\ receiverPc = "reload" /\ index <= Len(window)
        /\ restView' = window /\ receiverPc' = "store"
        /\ UNCHANGED << poolVars, window, submitVars, receiverView, answer,
             index, stratumMutex, poolRejections, forgetSubmits, credits,
             rejections, forced, crashed >>
    BY <1>23 DEF LoadRest
  <2>2. mixed' \in BOOLEAN
    BY <1>23, Zenon DEF LoadRest
  <2>3. index \in 1 .. Len(window)
    BY <2>1 DEF SizeInv
  <2>4. Works' = Works
    BY <2>1 DEF Works
  <2>5. QED
    BY <2>1, <2>2, <2>3, <2>4
<1>24. QED
  BY <1>1, <1>2, <1>3, <1>4, <1>5, <1>6, <1>7, <1>8, <1>9, <1>10, <1>11,
     <1>12, <1>13, <1>14, <1>15, <1>16, <1>17, <1>18, <1>19, <1>20, <1>21,
     <1>22, <1>23 DEF Next, MinerReceiver, StratumReceiver

-----------------------------------------------------------------------------
(* Sizes *)

LEMMA SizeInit == Init => SizeInv
<1> SUFFICES ASSUME Init
             PROVE  SizeInv
  OBVIOUS
<1>1. window = << >> /\ submitPc = "idle" /\ receiverPc = "read"
  BY Zenon DEF Init
<1>2. Len(window) = 0
  BY <1>1
<1>3. QED
  BY <1>1, <1>2, WindowAssumption DEF SizeInv, WindowBounded

LEMMA SizeStep ==
  ASSUME TypeInv, SizeInv, OrderInv, [Next]_vars
  PROVE  SizeInv'
<1> USE WindowAssumption DEF TypeInv, TypeOK, SizeInv, WindowBounded, poolVars,
          submitVars, receiverVars, historyVars
<1>1. CASE SeeForgetSubmits /\ UNCHANGED crashed
  BY <1>1 DEF SeeForgetSubmits
<1>2. CASE ClearForgetSubmits /\ UNCHANGED crashed
  BY <1>2 DEF ClearForgetSubmits
<1>3. CASE WriteShare /\ UNCHANGED crashed
  BY <1>3 DEF WriteShare
<1>4. CASE CheckWindow /\ UNCHANGED crashed
  BY <1>4 DEF CheckWindow
<1>5. CASE DropOldest /\ UNCHANGED crashed
  BY <1>5, AfterTail DEF DropOldest
<1>6. CASE LoadWindow /\ UNCHANGED crashed
  BY <1>6 DEF LoadWindow
<1>7. CASE AppendWork /\ UNCHANGED crashed
  BY <1>7, AfterAppend DEF AppendWork
<1>8. CASE ReadAnswer /\ UNCHANGED crashed
  BY <1>8 DEF ReadAnswer
<1>9. CASE LockReceiver /\ UNCHANGED crashed
  BY <1>9 DEF LockReceiver
<1>10. CASE MatchAnswer /\ UNCHANGED crashed
  BY <1>10 DEF MatchAnswer
<1>11. CASE IgnoreAnswer /\ UNCHANGED crashed
  BY <1>11 DEF IgnoreAnswer, ReturnToRead
<1>12. CASE LoadForRemoval /\ UNCHANGED crashed
  BY <1>12 DEF LoadForRemoval
<1>13. CASE StoreRemoval /\ UNCHANGED crashed
  <2>1. /\ receiverPc = "store" /\ index \in 1 .. Len(restView)
        /\ index - 1 <= Len(receiverView)
        /\ window' = SubSeq(receiverView, 1, index - 1)
                       \o SubSeq(restView, index + 1, Len(restView))
        /\ submitView' \in MovedViews /\ submitPc' = submitPc
        /\ receiverPc' = "read"
    BY <1>13 DEF StoreRemoval, ReturnToRead
  <2>2. Len(window') = Len(restView) - 1
    <3>1. receiverView \in Seq(Works) /\ restView \in Seq(Works)
      OBVIOUS
    <3> HIDE DEF TypeInv, TypeOK, SizeInv
    <3>2. QED
      BY <2>1, <3>1, AfterSplice
  <2>3. Len(submitView') = Len(submitView)
    BY <2>1, MovedViewsType
  <2>4. /\ Len(restView) \in Nat /\ Len(submitView) \in Nat
        /\ Len(window) \in Nat
    OBVIOUS
  <2>5. /\ Len(window') <= MaxSubmits
        /\ submitPc = "slice" => Len(window') <= Len(submitView)
        /\ submitPc = "load" => Len(window') <= MaxSubmits - 1
        /\ submitPc = "append" => Len(window') <= Len(submitView)
    <3>1. receiverPc = "store"
      BY <2>1
    <3>2. QED
      BY <2>2, <2>4, <3>1
  <2> HIDE DEF TypeInv, TypeOK
  <2>6. QED
    BY <2>1, <2>3, <2>5
<1>14. CASE Notify /\ UNCHANGED crashed
  BY <1>14 DEF Notify
<1>15. CASE Pool /\ UNCHANGED crashed
  BY <1>15 DEF Pool, Answer
<1>16. CASE Reconnect /\ UNCHANGED crashed
  BY <1>16 DEF Reconnect
<1>17. CASE PanicInRemoval
  BY <1>17 DEF PanicInRemoval
<1>18. CASE UNCHANGED vars
  BY <1>18 DEF vars
<1>19. CASE SeeNothingToForget /\ UNCHANGED crashed
  BY <1>19 DEF SeeNothingToForget
<1>20. CASE EndRound /\ UNCHANGED crashed
  BY <1>20 DEF EndRound
<1>21. CASE LoadForSlice /\ UNCHANGED crashed
  BY <1>21 DEF LoadForSlice
<1>22. CASE PanicInSlice /\ UNCHANGED crashed
  BY <1>22 DEF PanicInSlice
<1>23. CASE LoadRest /\ UNCHANGED crashed
  BY <1>23 DEF LoadRest
<1>24. QED
  BY <1>1, <1>2, <1>3, <1>4, <1>5, <1>6, <1>7, <1>8, <1>9, <1>10, <1>11,
     <1>12, <1>13, <1>14, <1>15, <1>16, <1>17, <1>18, <1>19, <1>20, <1>21,
     <1>22, <1>23 DEF Next, MinerReceiver, StratumReceiver

-----------------------------------------------------------------------------
(* Order *)

LEMMA OrderInit == Init => OrderInv
<1> SUFFICES ASSUME Init
             PROVE  OrderInv
  OBVIOUS
<1>1. /\ window = << >> /\ submitView = << >> /\ receiverView = << >>
      /\ restView = << >>
  BY Zenon DEF Init
<1>2. QED
  BY <1>1, Empty DEF OrderInv, Sorted

LEMMA OrderStep ==
  ASSUME TypeInv, SizeInv, OrderInv, [Next]_vars
  PROVE  OrderInv'
<1>1. /\ Works = 1 .. Len(workId) /\ Len(workId) \in Nat
      /\ window \in Seq(Works) /\ submitView \in Seq(Works)
      /\ receiverView \in Seq(Works) /\ Sorted(<< >>)
  BY Empty DEF Works, TypeInv, TypeOK, Sorted
<1> USE DEF OrderInv, poolVars, submitVars, receiverVars, historyVars
<1>2. CASE SeeForgetSubmits /\ UNCHANGED crashed
  BY <1>2 DEF SeeForgetSubmits
<1>3. CASE ClearForgetSubmits /\ UNCHANGED crashed
  BY <1>3 DEF ClearForgetSubmits
<1>4. CASE WriteShare /\ UNCHANGED crashed
  BY <1>4 DEF WriteShare
<1>5. CASE CheckWindow /\ UNCHANGED crashed
  BY <1>5, <1>1 DEF CheckWindow
<1>6. CASE DropOldest /\ UNCHANGED crashed
  <2>1. window' = Tail(submitView) /\ submitView' = << >> /\ submitView # << >>
    BY <1>6 DEF DropOldest
  <2>2. QED
    BY <1>6, <1>1, <2>1, SortedTail DEF DropOldest
<1>7. CASE LoadWindow /\ UNCHANGED crashed
  BY <1>7 DEF LoadWindow
<1>8. CASE AppendWork /\ UNCHANGED crashed
  <2>1. /\ window' = Append(submitView, Len(workId)) /\ submitView' = << >>
        /\ Len(workId) \in Nat \ {0}
    BY <1>8, <1>2 DEF AppendWork, TypeInv
  <2>2. QED
    BY <1>8, <1>1, <2>1, SortedAppend DEF AppendWork
<1>9. CASE ReadAnswer /\ UNCHANGED crashed
  BY <1>9 DEF ReadAnswer
<1>10. CASE LockReceiver /\ UNCHANGED crashed
  BY <1>10 DEF LockReceiver
<1>11. CASE MatchAnswer /\ UNCHANGED crashed
  BY <1>11 DEF MatchAnswer
<1>12. CASE IgnoreAnswer /\ UNCHANGED crashed
  BY <1>12, <1>1 DEF IgnoreAnswer, ReturnToRead
<1>13. CASE LoadForRemoval /\ UNCHANGED crashed
  BY <1>13 DEF LoadForRemoval
<1>14. CASE StoreRemoval /\ UNCHANGED crashed
  <2> SUFFICES ASSUME ~ mixed
               PROVE  Sorted(window') /\ Sorted(submitView')
    BY <1>1, <1>14 DEF StoreRemoval, ReturnToRead
  <2>1. /\ window' = SubSeq(receiverView, 1, index - 1)
                       \o SubSeq(receiverView, index + 1, Len(receiverView))
        /\ submitView' \in MovedViews
        /\ receiverPc = "store" /\ index \in 1 .. Len(receiverView)
        /\ restView = receiverView
        /\ Sorted(submitView) /\ Sorted(receiverView)
    BY <1>14 DEF StoreRemoval, TypeInv, TypeOK
  <2>2. Sorted(submitView')
    BY <2>1, MovedViewsOrder DEF TypeInv
  <2>3. window' = RemoveAt(receiverView, index)
    BY <2>1 DEF RemoveAt
  <2>4. QED
    BY <1>1, <2>1, <2>2, <2>3, SortedRemoval
<1>15. CASE Notify /\ UNCHANGED crashed
  BY <1>15 DEF Notify
<1>16. CASE Pool /\ UNCHANGED crashed
  BY <1>16 DEF Pool, Answer
<1>17. CASE Reconnect /\ UNCHANGED crashed
  BY <1>17 DEF Reconnect
<1>18. CASE PanicInRemoval
  BY <1>18 DEF PanicInRemoval
<1>19. CASE UNCHANGED vars
  BY <1>19 DEF vars
<1>20. CASE SeeNothingToForget /\ UNCHANGED crashed
  BY <1>20 DEF SeeNothingToForget
<1>21. CASE EndRound /\ UNCHANGED crashed
  BY <1>21 DEF EndRound
<1>22. CASE LoadForSlice /\ UNCHANGED crashed
  BY <1>22 DEF LoadForSlice
<1>23. CASE PanicInSlice /\ UNCHANGED crashed
  BY <1>23 DEF PanicInSlice
<1>24. CASE LoadRest /\ UNCHANGED crashed
  BY <1>24, <1>1 DEF LoadRest
<1>25. QED
  BY <1>2, <1>3, <1>4, <1>5, <1>6, <1>7, <1>8, <1>9, <1>10, <1>11, <1>12,
     <1>13, <1>14, <1>15, <1>16, <1>17, <1>18, <1>19, <1>20, <1>21, <1>22,
     <1>23, <1>24 DEF Next, MinerReceiver, StratumReceiver

-----------------------------------------------------------------------------
(* Rejections *)

(* The price of one more forced change. *)
LEMMA OneMore ==
  ASSUME NEW c \in Nat, NEW f \in Nat
  PROVE  c * f \in Nat /\ c * (f + 1) = c * f + c
OBVIOUS

LEMMA EarnInit == Init => EarnInv
<1> SUFFICES ASSUME Init
             PROVE  EarnInv
  OBVIOUS
<1>1. /\ forced = 0 /\ poolRejections = 0 /\ rejections = 0
      /\ receiverPc = "read"
  BY Zenon DEF Init
<1>2. QED
  BY <1>1, WindowAssumption DEF EarnInv, Spent

LEMMA EarnStep ==
  ASSUME TypeInv, EarnInv, [Next]_vars
  PROVE  EarnInv'
<1>1. /\ MaxRejections \in Nat /\ forced \in Nat /\ poolRejections \in Nat
      /\ rejections \in Nat /\ (MaxRejections + 1) * forced \in Nat
  BY WindowAssumption, OneMore DEF TypeInv, TypeOK
<1> USE DEF EarnInv, Spent, poolVars, submitVars, receiverVars, historyVars
<1>2. CASE SeeForgetSubmits /\ UNCHANGED crashed
  BY <1>2 DEF SeeForgetSubmits
<1>3. CASE ClearForgetSubmits /\ UNCHANGED crashed
  BY <1>3 DEF ClearForgetSubmits
<1>4. CASE WriteShare /\ UNCHANGED crashed
  BY <1>4 DEF WriteShare
<1>5. CASE CheckWindow /\ UNCHANGED crashed
  BY <1>5 DEF CheckWindow
<1>6. CASE DropOldest /\ UNCHANGED crashed
  BY <1>6 DEF DropOldest
<1>7. CASE LoadWindow /\ UNCHANGED crashed
  BY <1>7 DEF LoadWindow
<1>8. CASE AppendWork /\ UNCHANGED crashed
  BY <1>8 DEF AppendWork
<1>9. CASE ReadAnswer /\ UNCHANGED crashed
  <2>1. /\ rejections' = rejections + (IF answer'.accepted THEN 0 ELSE 1)
        /\ UNCHANGED << forced, poolRejections >>
    BY <1>9 DEF ReadAnswer
  <2>2. QED
    BY <1>1, <2>1
<1>10. CASE LockReceiver /\ UNCHANGED crashed
  BY <1>10 DEF LockReceiver
<1>11. CASE MatchAnswer /\ UNCHANGED crashed
  <2>1. /\ receiverPc = "match" /\ receiverPc' = "load"
        /\ poolRejections' = IF answer.accepted THEN 0 ELSE poolRejections + 1
        /\ rejections' = rejections /\ forced' = forced
    BY <1>11 DEF MatchAnswer
  <2>2. QED
    BY <1>1, <2>1
<1>12. CASE IgnoreAnswer /\ UNCHANGED crashed
  <2>1. /\ receiverPc' = "read"
        /\ UNCHANGED << poolRejections, rejections, forced >>
    BY <1>12 DEF IgnoreAnswer, ReturnToRead
  <2>2. QED
    BY <2>1
<1>13. CASE LoadForRemoval /\ UNCHANGED crashed
  BY <1>13 DEF LoadForRemoval
<1>14. CASE StoreRemoval /\ UNCHANGED crashed
  <2>1. receiverPc' = "read" /\ rejections' = rejections /\ ForceJobChange
    BY <1>14 DEF StoreRemoval, ReturnToRead
  <2>2. CASE poolRejections > MaxRejections
    <3>1. forced' = forced + 1 /\ poolRejections' = 0
      BY <2>1, <2>2 DEF ForceJobChange
    <3>2. (MaxRejections + 1) * forced'
            = (MaxRejections + 1) * forced + (MaxRejections + 1)
      BY <1>1, <3>1, OneMore
    <3>3. QED
      BY <1>1, <2>1, <2>2, <3>1, <3>2
  <2>3. CASE ~ (poolRejections > MaxRejections)
    BY <1>1, <2>1, <2>3 DEF ForceJobChange
  <2>4. QED
    BY <2>2, <2>3
<1>15. CASE Notify /\ UNCHANGED crashed
  BY <1>15 DEF Notify
<1>16. CASE Pool /\ UNCHANGED crashed
  BY <1>16 DEF Pool, Answer
<1>17. CASE Reconnect /\ UNCHANGED crashed
  BY <1>17 DEF Reconnect
<1>18. CASE PanicInRemoval
  BY <1>18 DEF PanicInRemoval
<1>19. CASE UNCHANGED vars
  BY <1>19 DEF vars
<1>20. CASE SeeNothingToForget /\ UNCHANGED crashed
  BY <1>20 DEF SeeNothingToForget
<1>21. CASE EndRound /\ UNCHANGED crashed
  BY <1>21 DEF EndRound
<1>22. CASE LoadForSlice /\ UNCHANGED crashed
  BY <1>22 DEF LoadForSlice
<1>23. CASE PanicInSlice /\ UNCHANGED crashed
  BY <1>23 DEF PanicInSlice
<1>24. CASE LoadRest /\ UNCHANGED crashed
  BY <1>24 DEF LoadRest
<1>25. QED
  BY <1>2, <1>3, <1>4, <1>5, <1>6, <1>7, <1>8, <1>9, <1>10, <1>11, <1>12,
     <1>13, <1>14, <1>15, <1>16, <1>17, <1>18, <1>19, <1>20, <1>21, <1>22,
     <1>23, <1>24 DEF Next, MinerReceiver, StratumReceiver

-----------------------------------------------------------------------------
(* The theorems *)

IInv ==
  /\ TypeInv
  /\ SizeInv
  /\ OrderInv
  /\ EarnInv

LEMMA Invariance == Spec => []IInv
<1>1. Init => IInv
  BY TypeInit, SizeInit, OrderInit, EarnInit DEF IInv
<1>2. IInv /\ [Next]_vars => IInv'
  BY TypeStep, SizeStep, OrderStep, EarnStep DEF IInv
<1>3. QED
  BY <1>1, <1>2, PTL DEF Spec

(* Every variable stays within its type, whatever the overlap of           *)
(* StratumSubmit and StratumReceiver (stratum.go:402-408, 313-346).        *)
THEOREM TypeCorrect == Spec => []TypeOK
<1>1. IInv => TypeOK
  BY DEF IInv, TypeInv
<1>2. QED
  BY <1>1, Invariance, PTL

(* LastStratumSubmits never holds more than MaxSubmits works, though its   *)
(* length is tested with == (stratum.go:404).                              *)
THEOREM WindowStaysBounded == Spec => []WindowBounded
<1>1. IInv => WindowBounded
  BY DEF IInv, SizeInv
<1>2. QED
  BY <1>1, Invariance, PTL

(* It stays in the order of the submissions, unless a removal has put two  *)
(* different headers together (stratum.go:313-344).                        *)
THEOREM WindowStaysInOrder == Spec => []WindowInOrder
<1>1. IInv => WindowInOrder
  BY DEF IInv, OrderInv, Sorted, WindowInOrder
<1>2. QED
  BY <1>1, Invariance, PTL

(* The index of the removal is out of range only while StratumSubmit is at *)
(* its own record, and then by one: the match was the last work of the     *)
(* window, whether it was full or StratumSubmit found it so before other   *)
(* removals (stratum.go:344, 404-407).                                     *)
THEOREM PanicsOnlyWhileSubmitting == Spec => PanicOnlyWhileSubmitting
<1>1. IInv /\ PanicInRemoval
        => index = Len(window) + 1 /\ submitPc \in {"load", "append"}
  <2> SUFFICES ASSUME IInv, PanicInRemoval
               PROVE  /\ index = Len(window) + 1
                      /\ submitPc \in {"load", "append"}
    OBVIOUS
  <2>1. Len(window) \in Nat /\ index \in Nat
    BY DEF IInv, TypeInv, TypeOK
  <2>2. QED
    BY <2>1 DEF IInv, SizeInv, PanicInRemoval
<1>2. IInv /\ [Next]_vars
        => [PanicInRemoval => /\ index = Len(window) + 1
                              /\ submitPc \in {"load", "append"}]_vars
  BY <1>1
<1>3. QED
  BY <1>2, Invariance, PTL DEF Spec, PanicOnlyWhileSubmitting

(* Each forced job change costs MaxRejections + 1 rejections of its own    *)
(* (stratum.go:335-354).                                                   *)
THEOREM ForcedChangesEarned == Spec => []ForcedChangesAreEarned
<1>1. IInv => ForcedChangesAreEarned
  BY DEF IInv, EarnInv, Spent, ForcedChangesAreEarned
<1>2. QED
  BY <1>1, Invariance, PTL

-----------------------------------------------------------------------------
(* What the races do not do to the credits *)

(* A work is found by its WorkID, which it keeps. *)
CreditInv == \A c \in credits : workId[c[1]] = workId[c[2]]

LEMMA CreditStep ==
  ASSUME TypeOK, TypeOK', CreditInv, [Next]_vars
  PROVE  CreditInv'
<1>1. Len(workId) \in Nat /\ Works = 1 .. Len(workId)
  BY DEF TypeOK, Works
<1>2. credits \subseteq Works \X Works
  BY DEF TypeOK
<1>3. CASE WriteShare
  <2>1. PICK id \in WorkIDs : workId' = Append(workId, id)
    BY <1>3 DEF WriteShare
  <2>2. \A v \in Works : workId'[v] = workId[v]
    BY <1>1, <2>1, AppendProperties DEF TypeOK
  <2>3. credits' = credits
    BY <1>3 DEF WriteShare, historyVars
  <2>4. QED
    BY <1>2, <2>2, <2>3 DEF CreditInv
<1>4. CASE MatchAnswer
  <2>1. PICK i \in DOMAIN window :
          /\ Matches(i)
          /\ credits' = credits \cup {<< answer.work, window[i] >>}
    BY <1>4 DEF MatchAnswer
  <2>2. workId' = workId
    BY <1>4 DEF MatchAnswer, poolVars
  <2>3. QED
    BY <2>1, <2>2 DEF CreditInv, Matches
<1>5. CASE UNCHANGED << workId, credits >>
  BY <1>5 DEF CreditInv
<1>6. QED
  BY <1>3, <1>4, <1>5 DEF Next, MinerReceiver, SeeForgetSubmits,
     SeeNothingToForget, ClearForgetSubmits, EndRound, CheckWindow,
     LoadForSlice, DropOldest, PanicInSlice, LoadWindow, AppendWork,
     StratumReceiver, ReadAnswer, LockReceiver, IgnoreAnswer, LoadForRemoval,
     LoadRest, StoreRemoval, Notify, Pool, Answer, Reconnect,
     PanicInRemoval, vars,
     poolVars, historyVars

(* If WorkIDs were unique, as stratum.go:52 says they are, every answer    *)
(* would be credited to its own work: the overlap of StratumSubmit and     *)
(* StratumReceiver (stratum.go:313-346, 402-408) can lose a credit and     *)
(* not give it to another WorkID.                                          *)
CreditsAreRightIfUnique ==
  (\A v, w \in Works : workId[v] = workId[w] => v = w) => CreditsAreRight

(* So what CreditsAreRight misses is due to the WorkIDs that are used      *)
(* again (aonminer.go:423) and to nothing else.                            *)
THEOREM UniqueIDsSuffice == Spec => []CreditsAreRightIfUnique
<1>1. Init => CreditInv
  BY DEF Init, CreditInv
<1>2. TypeOK /\ TypeOK' /\ CreditInv /\ [Next]_vars => CreditInv'
  BY CreditStep
<1>3. TypeOK /\ CreditInv => CreditsAreRightIfUnique
  <2> SUFFICES ASSUME TypeOK, CreditInv,
                      \A v, w \in Works : workId[v] = workId[w] => v = w,
                      NEW c \in credits
               PROVE  c[1] = c[2]
    BY DEF CreditsAreRightIfUnique, CreditsAreRight
  <2>1. c[1] \in Works /\ c[2] \in Works
    BY DEF TypeOK
  <2>2. QED
    BY <2>1 DEF CreditInv
<1>4. QED
  BY <1>1, <1>2, <1>3, TypeCorrect, PTL DEF Spec
=============================================================================
