---------------------------- MODULE Notifications ----------------------------
(***************************************************************************)
(* Timed push notifications (src/functions/index.js, src/lib/databse.dart).*)
(*                                                                         *)
(* The collection `notifications` has one document per device token, which *)
(* every new notification overwrites.  A scheduled function queries it for *)
(* what is due and not sent; for every document found it hands a message   *)
(* to FCM and asks for notificationSent to be set, and then returns        *)
(* without waiting for either: a mark may be late, or lost with the        *)
(* instance, and the next invocation may come before it.                   *)
(*                                                                         *)
(* Each notification ever written has an identity of its own (Writes),     *)
(* which the code does not have: the mark goes to the token's document,    *)
(* whatever that holds by then.                                            *)
(***************************************************************************)
EXTENDS Naturals

CONSTANTS
    Token,           \* device tokens
    Writes,          \* the notifications that may be written, each once
    Instance,        \* invocations of the function that may be at work
    None,            \* no document; an instance without a reply
    Text,            \* what databse.dart keeps as whenToNotify: not a time
    MaxTime          \* bound: the last minute; the clock stands still then

ASSUME NotificationsAssumption ==
    MaxTime \in Nat /\ Text \notin Nat /\ None \notin Writes \cup Token

VARIABLES
    \* Firestore: the notification each token's document holds
    document, notificationSent,
    \* what was written, and for which token
    token, whenToNotify,
    now,
    \* what the query of an instance found, its reply being on the way
    found,
    \* the notifications whose marks, the updates it caused, are on the way
    marks,
    \* history: handed to FCM; a mark was lost; overwritten a notification
    \* that was found or whose mark was on the way
    sent, markLost, overtook

store == <<document, notificationSent, token, whenToNotify>>
history == <<sent, markLost, overtook>>
vars == <<store, now, found, marks, history>>

Minutes == 0..MaxTime

TypeOK ==
    /\ document \in [Token -> Writes \cup {None}]
    /\ notificationSent \in [Token -> BOOLEAN]
    /\ token \in [Writes -> Token \cup {None}]
    /\ whenToNotify \in [Writes -> Minutes \cup {Text}]
    /\ now \in Minutes
    /\ found \in [Instance -> SUBSET Writes]
    /\ marks \in [Instance -> SUBSET Writes]
    /\ sent \subseteq Writes /\ markLost \subseteq Writes
    /\ overtook \subseteq Writes

Init ==
    /\ document = [t \in Token |-> None]
    /\ notificationSent = [t \in Token |-> FALSE]
    /\ token = [w \in Writes |-> None]
    /\ whenToNotify = [w \in Writes |-> Text]
    /\ now = 0
    /\ found = [i \in Instance |-> {}] /\ marks = [i \in Instance |-> {}]
    /\ sent = {} /\ markLost = {} /\ overtook = {}

Written(w) == token[w] # None
Current(w) == Written(w) /\ document[token[w]] = w
IsTime(w) == whenToNotify[w] # Text
Marking(w) == \E i \in Instance : w \in marks[i]
OnTheWay(w) == Marking(w) \/ \E i \in Instance : w \in found[i]
-----------------------------------------------------------------------------
\* set replaces the whole document.  (The variant leaves the old flag.)
MergedFlag(t) == notificationSent
FreshFlag(t) == [notificationSent EXCEPT ![t] = FALSE]

\* A notification is written over whatever the token's document held.
Write(w, t, when) ==
    /\ ~Written(w)
    /\ token' = [token EXCEPT ![w] = t]
    /\ whenToNotify' = [whenToNotify EXCEPT ![w] = when]
    /\ document' = [document EXCEPT ![t] = w]
    /\ notificationSent' = FreshFlag(t)
    /\ overtook' = IF \E v \in Writes : token[v] = t /\ OnTheWay(v)
                     THEN overtook \cup {w} ELSE overtook
    /\ UNCHANGED <<now, found, marks, sent, markLost>>

\* createNotification: whenToNotify is a String.
CreateNotification(w, t) == Write(w, t, Text)

\* Whoever else writes the collection writes the times the query asks for.
Schedule(w, t) == \E when \in Minutes : Write(w, t, when)

Tick ==
    /\ now < MaxTime /\ now' = now + 1
    /\ UNCHANGED <<store, found, marks, history>>

\* whenToNotify <= the time m at which the instance read the clock, which a
\* String never is, and notificationSent == false.  (The variant asks
\* for no flag.)
FoundAgain(m) == {w \in Writes : Current(w) /\ IsTime(w) /\ whenToNotify[w] <= m}
Found(m) ==
    {w \in Writes : Current(w) /\ ~notificationSent[token[w]]
                      /\ IsTime(w) /\ whenToNotify[w] <= m}

\* '* * * * *': the function is invoked, late or twice at times, and its query
\* is evaluated.  One that finds nothing, or fails, changes nothing.
Query(i, m) ==
    /\ found[i] = {} /\ marks[i] = {} /\ m <= now
    /\ found' = [found EXCEPT ![i] = Found(m)]
    /\ UNCHANGED <<store, now, marks, history>>

\* The updates an instance asks for are of what it sends.  (The variant marks
\* what is in the collection.)
MarkedAll(i) == {w \in Writes : Current(w)}
Marked(i) == found[i]

\* The reply arrives: up to its first await each document found is sent and
\* marked, all in one go.
Send(i) ==
    /\ found[i] # {} /\ found' = [found EXCEPT ![i] = {}]
    /\ sent' = sent \cup found[i]
    /\ marks' = [marks EXCEPT ![i] = Marked(i)]
    /\ UNCHANGED <<store, now, markLost, overtook>>

\* The reply is lost, get throws: the invocation is over.
ReplyLost(i) ==
    /\ found[i] # {} /\ found' = [found EXCEPT ![i] = {}]
    /\ UNCHANGED <<store, now, marks, history>>

\* An update reaches the document of the token.
Mark(i, w) ==
    /\ w \in marks[i] /\ marks' = [marks EXCEPT ![i] = @ \ {w}]
    /\ notificationSent' = [notificationSent EXCEPT ![token[w]] = TRUE]
    /\ UNCHANGED <<document, token, whenToNotify, now, found, history>>

\* It fails, or its instance is gone before it is made.
MarkLost(i, w) ==
    /\ w \in marks[i] /\ marks' = [marks EXCEPT ![i] = @ \ {w}]
    /\ markLost' = markLost \cup {w}
    /\ UNCHANGED <<store, now, found, sent, overtook>>

Next ==
    \/ \E w \in Writes, t \in Token : CreateNotification(w, t) \/ Schedule(w, t)
    \/ Tick
    \/ \E i \in Instance : Send(i) \/ ReplyLost(i)
            \/ \E m \in Minutes : Query(i, m)
            \/ \E w \in Writes : Mark(i, w) \/ MarkLost(i, w)

\* Time passes, the function is invoked again and again, an update is made or
\* fails.  Not every invocation is late, nor every reply lost: strong fairness.
Fairness ==
    /\ WF_vars(Tick)
    /\ \A i \in Instance :
          /\ SF_vars(Query(i, now))
          /\ \A w \in Writes : /\ SF_vars(Send(i) /\ w \in found[i])
                              /\ WF_vars(Mark(i, w) \/ MarkLost(i, w))

Spec == Init /\ [][Next]_vars
FairSpec == Spec /\ Fairness
-----------------------------------------------------------------------------
(***************************************************************************)
(* Properties.                                                             *)
(***************************************************************************)
\* Nothing is sent before its time, and nothing that has none (index.js 16-21).
OnlyDueIsSent == \A w \in sent : IsTime(w) /\ whenToNotify[w] <= now

\* A document that says it was sent was sent, except one written over another
\* that was found or whose mark was on the way: a mark names the token alone
\* (index.js 20-24).
MarkedWasSent ==
    \A w \in Writes :
        Current(w) /\ notificationSent[token[w]] => w \in sent \cup overtook

\* What was sent is found again only while its mark is on the way, or if one was
\* lost: sending twice takes a lost update or two invocations at a time
\* (index.js 18, 20-24).
FoundAgainOnlyUnmarked ==
    [][\A w \in sent, i \in Instance :
          w \in found'[i] \ found[i] => w \in markLost \/ Marking(w)]_vars

\* What is due is sent at last, or overwritten, or has overtaken a mark.
DueIsSent ==
    \A w \in Writes :
        Written(w) /\ IsTime(w)
            ~> w \in sent \cup overtook \/ ~Current(w)
=============================================================================
