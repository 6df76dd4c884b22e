------------------------- MODULE Notifications_proofs -------------------------
(***************************************************************************)
(* Proofs about Notifications, for any number of devices, notifications    *)
(* and invocations of the function.                                        *)
(*                                                                         *)
(* The argument: whatever is found, marked or sent was written and is due  *)
(* (Due), what is marked was sent, and a notification whose mark is on the *)
(* way is either still the document's or the document's is one that        *)
(* overtook it.  So the flag a mark sets is that of a notification sent,   *)
(* or of one that overtook; and while it is not set, the mark of what was  *)
(* sent is on the way or lost.                                             *)
(***************************************************************************)
EXTENDS Notifications, TLAPS

DueNow(w) == Written(w) /\ IsTime(w) /\ whenToNotify[w] <= now

Due ==
    /\ \A w \in Writes : w \in sent \/ OnTheWay(w) => DueNow(w)
    /\ \A i \in Instance : marks[i] \subseteq sent

\* An instance that awaits a reply has asked for no mark yet.
FindsThenMarks == \A i \in Instance : found[i] = {} \/ marks[i] = {}

\* A token's document is one written for that token.
OwnDocument == \A t \in Token : document[t] # None => token[document[t]] = t

Overtaken ==
    \A w \in Writes :
        OnTheWay(w) /\ ~Current(w) => document[token[w]] \in overtook

\* What was sent and is not marked will be, unless its mark was lost.
MarkFollows ==
    \A w \in sent :
        Current(w) /\ ~notificationSent[token[w]] => w \in markLost \/ Marking(w)

\* The inductive invariant.
IInv ==
    /\ TypeOK /\ Due /\ FindsThenMarks /\ OwnDocument /\ Overtaken
    /\ MarkFollows /\ MarkedWasSent
-----------------------------------------------------------------------------
(***************************************************************************)
(* The initial state and, one lemma per action, the steps.                 *)
(***************************************************************************)
LEMMA InitIInv == Init => IInv
<1> SUFFICES ASSUME Init PROVE IInv
  OBVIOUS
<1>1. TypeOK
  BY NotificationsAssumption DEF Init, TypeOK, Minutes
<1>2. Due /\ FindsThenMarks /\ OwnDocument
  BY DEF Init, Due, FindsThenMarks, OwnDocument, OnTheWay, Marking
<1>3. Overtaken /\ MarkFollows /\ MarkedWasSent
  BY DEF Init, Overtaken, MarkFollows, MarkedWasSent, OnTheWay, Marking,
         Current, Written
<1> QED
  BY <1>1, <1>2, <1>3 DEF IInv

\* A notification is written over another, at a time or with none.
LEMMA WriteIInv ==
    ASSUME IInv, NEW w \in Writes, NEW t \in Token,
           NEW when \in Minutes \cup {Text}, Write(w, t, when)
    PROVE  IInv'
<1> USE DEF IInv, Write
<1>1. TypeOK'
  BY DEF TypeOK, FreshFlag
<1>2. /\ ~(w \in sent \/ OnTheWay(w))
      /\ ~(w \in sent' \/ OnTheWay(w)')
  BY DEF Due, DueNow, OnTheWay, Marking
<1>3. \A v \in Writes : v # w => /\ token'[v] = token[v]
                                 /\ whenToNotify'[v] = whenToNotify[v]
  BY DEF TypeOK
<1>4. Due'
  BY <1>2, <1>3 DEF Due, DueNow, Written, IsTime, OnTheWay, Marking
<1>5. OwnDocument'
  <2> SUFFICES ASSUME NEW u \in Token, document'[u] # None
               PROVE  token'[document'[u]] = u
    BY DEF OwnDocument
  <2>1. CASE u = t
    BY <2>1 DEF TypeOK
  <2>2. CASE u # t
    <3>1. document'[u] = document[u] /\ token[document[u]] = u
      BY <2>2 DEF TypeOK, OwnDocument
    <3>2. document[u] \in Writes /\ document[u] # w
      BY <3>1, NotificationsAssumption DEF TypeOK, Written
    <3> QED
      BY <1>3, <3>1, <3>2
  <2> QED
    BY <2>1, <2>2
<1>6. Overtaken'
  <2> SUFFICES ASSUME NEW v \in Writes, OnTheWay(v)', ~Current(v)'
               PROVE  document'[token'[v]] \in overtook'
    BY DEF Overtaken
  <2>1. OnTheWay(v) /\ v # w /\ token'[v] = token[v] /\ token[v] \in Token
    BY <1>2, <1>3 DEF OnTheWay, Marking, Due, DueNow, Written, TypeOK
  <2>2. CASE token[v] = t
    BY <2>1, <2>2 DEF TypeOK
  <2>3. CASE token[v] # t
    <3>1. document'[token[v]] = document[token[v]] /\ ~Current(v)
      BY <2>1, <2>3 DEF TypeOK, Current, Written
    <3> QED
      BY <2>1, <3>1 DEF Overtaken
  <2> QED
    BY <2>2, <2>3
<1>7. \A v \in Writes : Current(v)' /\ v # w =>
          /\ Current(v) /\ token'[v] = token[v]
          /\ notificationSent'[token[v]] = notificationSent[token[v]]
  <2> SUFFICES ASSUME NEW v \in Writes, Current(v)', v # w
               PROVE  /\ Current(v) /\ token'[v] = token[v]
                      /\ notificationSent'[token[v]] = notificationSent[token[v]]
    OBVIOUS
  <2>1. token'[v] = token[v] /\ token[v] \in Token
    BY <1>3 DEF Current, Written, TypeOK
  <2>2. token[v] # t
    BY <2>1 DEF Current, TypeOK
  <2> QED
    BY <2>1, <2>2 DEF Current, Written, TypeOK, FreshFlag
<1>8. MarkFollows'
  BY <1>2, <1>7 DEF MarkFollows, Marking, TypeOK
<1>9. MarkedWasSent'
  <2>1. ~notificationSent'[t] /\ token'[w] = t
    BY DEF FreshFlag, TypeOK
  <2> QED
    BY <1>7, <2>1 DEF MarkedWasSent
<1>10. FindsThenMarks'
  BY DEF FindsThenMarks
<1> QED
  BY <1>1, <1>4, <1>5, <1>6, <1>8, <1>9, <1>10

LEMMA TickIInv == ASSUME IInv, Tick PROVE IInv'
<1> USE DEF IInv, Tick, store, history
<1>1. TypeOK'
  BY NotificationsAssumption DEF TypeOK, Minutes
<1>2. Due'
  <2> SUFFICES ASSUME NEW w \in Writes, DueNow(w) PROVE DueNow(w)'
    BY DEF Due, OnTheWay, Marking
  <2>1. whenToNotify[w] \in Nat /\ now \in Nat
    BY DEF DueNow, IsTime, TypeOK, Minutes
  <2> QED
    BY <2>1 DEF DueNow, Written, IsTime
<1>3. (FindsThenMarks /\ OwnDocument /\ Overtaken)'
  BY DEF FindsThenMarks, OwnDocument, Overtaken, OnTheWay, Marking, Current,
         Written
<1>4. (MarkFollows /\ MarkedWasSent)'
  BY DEF MarkFollows, MarkedWasSent, Marking, Current, Written
<1> QED
  BY <1>1, <1>2, <1>3, <1>4

LEMMA QueryIInv ==
    ASSUME IInv, NEW i \in Instance, NEW m \in Minutes, Query(i, m)
    PROVE  IInv'
<1> USE DEF IInv, Query, store, history
<1>1. TypeOK'
  BY DEF TypeOK, Found
<1>2. \A w \in Writes : OnTheWay(w)' => OnTheWay(w) \/ w \in Found(m)
  BY DEF OnTheWay, Marking, TypeOK
<1>3. \A w \in Found(m) : Current(w) /\ DueNow(w)
  <2> SUFFICES ASSUME NEW w \in Found(m) PROVE Current(w) /\ DueNow(w)
    OBVIOUS
  <2>1. Current(w) /\ IsTime(w) /\ whenToNotify[w] <= m /\ w \in Writes
    BY DEF Found
  <2>2. whenToNotify[w] \in Nat /\ m \in Nat /\ now \in Nat
    BY <2>1 DEF IsTime, TypeOK, Minutes
  <2> QED
    BY <2>1, <2>2 DEF DueNow, Current
<1>4. Due'
  BY <1>2, <1>3 DEF Due, DueNow, Written, IsTime
<1>5. Overtaken'
  BY <1>2, <1>3 DEF Overtaken, Current, Written
<1>6. (FindsThenMarks /\ OwnDocument /\ MarkFollows /\ MarkedWasSent)'
  BY DEF FindsThenMarks, OwnDocument, MarkFollows, MarkedWasSent, Marking,
         Current, Written, TypeOK
<1> QED
  BY <1>1, <1>4, <1>5, <1>6

\* What is sent was found, and is marked in the same step.
LEMMA SendIInv == ASSUME IInv, NEW i \in Instance, Send(i) PROVE IInv'
<1> USE DEF IInv, Send, store
<1>1. TypeOK'
  BY DEF TypeOK, Marked
<1>2. /\ \A w \in Writes : OnTheWay(w)' => OnTheWay(w)
      /\ \A w \in sent' : w \in sent \/ OnTheWay(w)
  BY DEF OnTheWay, Marking, Marked, TypeOK
<1>3. Due'
  BY <1>2 DEF Due, DueNow, Written, IsTime, Marked, TypeOK
<1>4. (FindsThenMarks /\ OwnDocument /\ Overtaken)'
  BY <1>2 DEF FindsThenMarks, OwnDocument, Overtaken, Current, Written, TypeOK
<1>5. MarkFollows'
  <2> SUFFICES ASSUME NEW w \in sent', Current(w), ~notificationSent[token[w]]
               PROVE  w \in markLost \/ Marking(w)'
    BY DEF MarkFollows, Current, Written
  <2>1. CASE w \in found[i]
    BY <2>1 DEF Marking, Marked, TypeOK
  <2>2. CASE w \in sent /\ w \notin found[i]
    <3>1. w \in markLost \/ Marking(w)
      BY <2>2 DEF MarkFollows
    <3>2. marks[i] = {}
      BY DEF FindsThenMarks
    <3> QED
      BY <3>1, <3>2 DEF Marking, TypeOK
  <2> QED
    BY <2>1, <2>2
<1>6. MarkedWasSent'
  BY DEF MarkedWasSent, Current, Written
<1> QED
  BY <1>1, <1>3, <1>4, <1>5, <1>6

LEMMA ReplyLostIInv ==
    ASSUME IInv, NEW i \in Instance, ReplyLost(i) PROVE IInv'
<1> USE DEF IInv, ReplyLost, store, history
<1>1. TypeOK'
  BY DEF TypeOK
<1>2. \A w \in Writes : OnTheWay(w)' => OnTheWay(w)
  BY DEF OnTheWay, Marking, TypeOK
<1>3. (Due /\ OwnDocument /\ Overtaken)'
  BY <1>2 DEF Due, DueNow, OwnDocument, Overtaken, Current, Written, IsTime
<1>4. (FindsThenMarks /\ MarkFollows /\ MarkedWasSent)'
  BY DEF FindsThenMarks, MarkFollows, MarkedWasSent, Marking, Current, Written,
         TypeOK
<1> QED
  BY <1>1, <1>3, <1>4

\* The flag a mark sets is that of what was sent, or of what overtook it.
LEMMA MarkIInv ==
    ASSUME IInv, NEW i \in Instance, NEW w \in Writes, Mark(i, w) PROVE IInv'
<1> USE DEF IInv, Mark, history
<1>1. OnTheWay(w) /\ w \in sent /\ token[w] \in Token
  BY DEF OnTheWay, Marking, Due, DueNow, Written, TypeOK
<1>2. TypeOK'
  BY <1>1 DEF TypeOK
<1>3. \A v \in Writes : OnTheWay(v)' => OnTheWay(v)
  BY DEF OnTheWay, Marking, TypeOK
<1>4. (Due /\ FindsThenMarks /\ OwnDocument /\ Overtaken)'
  BY <1>3 DEF Due, DueNow, FindsThenMarks, OwnDocument, Overtaken, Current,
              Written, IsTime, TypeOK
<1>5. MarkFollows'
  <2> SUFFICES ASSUME NEW v \in sent, Current(v), ~notificationSent'[token[v]]
               PROVE  v \in markLost \/ Marking(v)'
    BY DEF MarkFollows, Current, Written
  <2>1. token[v] \in Token /\ token[v] # token[w]
    BY <1>1 DEF TypeOK, Current, Written
  <2>2. v # w /\ ~notificationSent[token[v]]
    BY <2>1 DEF TypeOK
  <2> QED
    BY <2>2 DEF MarkFollows, Marking, TypeOK
<1>6. MarkedWasSent'
  <2> SUFFICES ASSUME NEW v \in Writes, Current(v), notificationSent'[token[v]]
               PROVE  v \in sent \cup overtook
    BY DEF MarkedWasSent, Current, Written
  <2>1. token[v] \in Token
    BY DEF TypeOK, Current, Written
  <2>2. CASE token[v] # token[w]
    BY <1>1, <2>1, <2>2 DEF MarkedWasSent, TypeOK
  <2>3. CASE token[v] = token[w]
    BY <1>1, <2>3 DEF Overtaken, Current, Written
  <2> QED
    BY <2>2, <2>3
<1> QED
  BY <1>2, <1>4, <1>5, <1>6

LEMMA MarkLostIInv ==
    ASSUME IInv, NEW i \in Instance, NEW w \in Writes, MarkLost(i, w)
    PROVE  IInv'
<1> USE DEF IInv, MarkLost, store
<1>1. TypeOK'
  BY DEF TypeOK
<1>2. \A v \in Writes : OnTheWay(v)' => OnTheWay(v)
  BY DEF OnTheWay, Marking, TypeOK
<1>3. (Due /\ FindsThenMarks /\ OwnDocument /\ Overtaken)'
  BY <1>2 DEF Due, DueNow, FindsThenMarks, OwnDocument, Overtaken, Current,
              Written, IsTime, TypeOK
<1>4. \A v \in Writes : Marking(v) => Marking(v)' \/ v \in markLost'
  BY DEF Marking, TypeOK
<1>5. (MarkFollows /\ MarkedWasSent)'
  BY <1>4 DEF MarkFollows, MarkedWasSent, Current, Written, TypeOK
<1> QED
  BY <1>1, <1>3, <1>5

LEMMA StutterIInv == ASSUME IInv, UNCHANGED vars PROVE IInv'
<1> USE DEF vars, store, history
<1>1. (TypeOK /\ Due /\ OwnDocument)'
  BY DEF IInv, TypeOK, Due, DueNow, OwnDocument, OnTheWay, Marking, Written,
         IsTime
<1>2. (FindsThenMarks /\ Overtaken /\ MarkFollows /\ MarkedWasSent)'
  BY DEF IInv, FindsThenMarks, Overtaken, MarkFollows, MarkedWasSent, OnTheWay, Marking, Current,
         Written
<1> QED
  BY <1>1, <1>2 DEF IInv

LEMMA StepIInv == IInv /\ [Next]_vars => IInv'
<1> SUFFICES ASSUME IInv, [Next]_vars PROVE IInv'
  OBVIOUS
<1>1. CASE \E w \in Writes, t \in Token : CreateNotification(w, t) \/ Schedule(w, t)
  <2> PICK w \in Writes, t \in Token : CreateNotification(w, t) \/ Schedule(w, t)
    BY <1>1
  <2>1. PICK when \in Minutes \cup {Text} : Write(w, t, when)
    BY DEF CreateNotification, Schedule
  <2> QED
    BY <2>1, WriteIInv
<1>2. CASE Tick
  BY <1>2, TickIInv
<1>3. CASE \E i \in Instance : \E m \in Minutes : Query(i, m)
  BY <1>3, QueryIInv
<1>4. CASE \E i \in Instance : Send(i)
  BY <1>4, SendIInv
<1>5. CASE \E i \in Instance : ReplyLost(i)
  BY <1>5, ReplyLostIInv
<1>6. CASE \E i \in Instance : \E w \in Writes : Mark(i, w)
  BY <1>6, MarkIInv
<1>7. CASE \E i \in Instance : \E w \in Writes : MarkLost(i, w)
  BY <1>7, MarkLostIInv
<1>8. CASE UNCHANGED vars
  BY <1>8, StutterIInv
<1> QED
  BY <1>1, <1>2, <1>3, <1>4, <1>5, <1>6, <1>7, <1>8 DEF Next

LEMMA InvariantHolds == Spec => []IInv
<1> QED
  BY InitIInv, StepIInv, PTL DEF Spec
-----------------------------------------------------------------------------
(***************************************************************************)
(* The theorems.                                                           *)
(***************************************************************************)
\* Every variable keeps to its type, whatever the function and the writers do
\* (index.js 12-46, databse.dart 8-23).
THEOREM TypeCorrect == Spec => []TypeOK
<1>1. IInv => TypeOK
  BY DEF IInv
<1> QED
  BY <1>1, InvariantHolds, PTL

\* No device is sent a notification before its time (index.js 16-21).
THEOREM OnlyDueIsSentHolds == Spec => []OnlyDueIsSent
<1>1. IInv => OnlyDueIsSent
  BY DEF IInv, TypeOK, Due, DueNow, OnlyDueIsSent
<1> QED
  BY <1>1, InvariantHolds, PTL

\* A document marked as sent holds what was sent, or what overtook a mark
\* (index.js 20-24).
THEOREM MarkedWasSentHolds == Spec => []MarkedWasSent
<1>1. IInv => MarkedWasSent
  BY DEF IInv
<1> QED
  BY <1>1, InvariantHolds, PTL

\* A notification is sent twice only if its mark is late or lost (index.js
\* 18-24): what a query finds is not marked, and the mark of what was sent is on
\* the way until it is made or lost.
THEOREM FoundAgainOnlyUnmarkedHolds == Spec => FoundAgainOnlyUnmarked
<1>1. ASSUME IInv, [Next]_vars
      PROVE  [\A w \in sent, i \in Instance :
                 w \in found'[i] \ found[i] => w \in markLost \/ Marking(w)]_vars
  <2> SUFFICES ASSUME NEW w \in sent, NEW i \in Instance,
                      w \in found'[i], w \notin found[i]
               PROVE  w \in markLost \/ Marking(w)
    OBVIOUS
  <2>1. PICK j \in Instance, m \in Minutes : Query(j, m)
    BY <1>1 DEF Next, CreateNotification, Schedule, Write, Tick, Send, ReplyLost,
                Mark, MarkLost, vars, store, history, IInv, TypeOK
  <2>2. w \in Found(m)
    BY <1>1, <2>1 DEF Query, IInv, TypeOK
  <2> QED
    BY <1>1, <2>2 DEF Found, IInv, MarkFollows
<1> QED
  BY <1>1, InvariantHolds, PTL DEF Spec, FoundAgainOnlyUnmarked
=============================================================================
