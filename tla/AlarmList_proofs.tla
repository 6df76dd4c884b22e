--------------------------- MODULE AlarmList_proofs ---------------------------
(***************************************************************************)
(* Proofs about AlarmList, for any limit, any number of alarms and any     *)
(* number of saves under way.                                              *)
(*                                                                         *)
(* ListIsTable: the latest query comes after whatever the database has not *)
(* done yet, unless a save is still to ask for one (Pending).              *)
(* LimitKept: an alarm counts from the moment it is asked for, and a sheet *)
(* that was not saved from has room for one (RoomLeft).                    *)
(* SaveTakesSheet: a save under way has its sheet on the stack, and is the *)
(* only one (SheetStays); over the Kegel screen lie sheets and loaders     *)
(* alone (Shape).                                                          *)
(***************************************************************************)
EXTENDS AlarmList, Routes_proofs, FiniteSetTheorems

Route == {"home", "kegel", Sheet, Loader}

Shape(n) ==
    /\ n \in Navigator(Route)
    /\ Len(n.stack) >= 1 /\ n.stack[1] = "home"
    /\ Len(n.stack) >= 2 => n.stack[2] = "kegel"
    /\ \A i \in 3..Len(n.stack) : n.stack[i] \in {Sheet, Loader}

Pending ==
    Saving = {} /\ Mounted /\ ~failed
        => \/ ahead = Len(queue)
           \/ /\ queue = <<>> /\ ahead = None
              /\ reply = table \/ (reply = None /\ _currentAlarms = table)

Asked == {queue[i].alarm : i \in {j \in DOMAIN queue : queue[j].op = "insert"}}

RoomLeft ==
    \/ doubled \/ staleAdd
    \/ /\ Cardinality(table \cup Asked) <= Limit
       /\ On(nav, Sheet) /\ ~savedFrom
              => Cardinality(table \cup Asked) < Limit

SheetStays ==
    Mounted /\ ~doubled /\ ~dismissed
        => \A c \in Saving : On(nav, Sheet) /\ savedFrom /\ Saving = {c}
-----------------------------------------------------------------------------
LEMMA Names ==
    /\ Loader = "loader" /\ Sheet = "sheet"
    /\ "home" # "kegel" /\ "home" # "sheet" /\ "home" # "loader"
    /\ "kegel" # "sheet" /\ "kegel" # "loader" /\ "sheet" # "loader"
  BY DEF Loader, Sheet

\* The Kegel screen is on the stack if anything lies over the home screen.
LEMMA ShapeFacts ==
    ASSUME NEW n, Shape(n)
    PROVE  /\ On(n, "kegel") <=> Len(n.stack) >= 2
           /\ Top(n) = "kegel" <=> Len(n.stack) = 2
           /\ Top(n) = "kegel" => ~On(n, Sheet)
           /\ Top(n) = Sheet => Len(n.stack) >= 3 /\ On(n, Sheet)
           /\ Len(n.stack) >= 3 => Top(n) \in {Sheet, Loader}
           /\ On(n, Top(n)) /\ Len(n.stack) \in Nat
<1>1. n.stack \in Seq(Route) /\ Len(n.stack) \in Nat
  BY DEF Shape, Navigator
<1>2. \A i \in 1..Len(n.stack) : i = 1 \/ i = 2 \/ i \in 3..Len(n.stack)
  BY <1>1
<1>3. /\ \A i \in 3..Len(n.stack) : n.stack[i] # "kegel" /\ n.stack[i] # "home"
      /\ n.stack[1] # "kegel" /\ n.stack[1] # Sheet
      /\ Len(n.stack) >= 2 => n.stack[2] = "kegel" /\ n.stack[2] # Sheet
  BY Names DEF Shape
<1>4. \A x : On(n, x) <=> \E i \in 1..Len(n.stack) : n.stack[i] = x
  BY <1>1 DEF On, Range
<1> DEFINE l == Len(n.stack)
<1>l. l >= 1 /\ l \in Nat
  BY <1>1 DEF Shape
<1>5. l \in 1..l /\ (l = 1 \/ l = 2 \/ l \in 3..l)
  <2> HIDE DEF l
  <2> QED
    BY <1>l
<1>t. Top(n) = n.stack[l]
  BY DEF Top
<1>6. On(n, "kegel") <=> Len(n.stack) >= 2
  BY <1>1, <1>2, <1>3, <1>4
<1>7. Top(n) = "kegel" <=> Len(n.stack) = 2
  <2>1. CASE l = 1
    BY <2>1, <1>3, <1>t
  <2>2. CASE l = 2
    BY <2>2, <1>3, <1>t
  <2>3. CASE l \in 3..l
    BY <2>3, <1>3, <1>t
  <2> QED
    BY <1>5, <2>1, <2>2, <2>3
<1>8. Len(n.stack) = 2 => ~On(n, Sheet)
  BY <1>1, <1>2, <1>3, <1>4
<1>9. Top(n) = Sheet => l >= 3 /\ On(n, Sheet)
  <2>1. Top(n) = Sheet => On(n, Sheet)
    BY <1>4, <1>5, <1>t
  <2>2. l = 1 \/ l = 2 => Top(n) # Sheet
    BY <1>1, <1>3, <1>t
  <2>3. l \in 3..l => l >= 3
    BY <1>l
  <2> QED
    BY <1>5, <2>1, <2>2, <2>3
<1>10. Len(n.stack) >= 3 => Top(n) \in {Sheet, Loader}
  BY <1>1, <1>t DEF Shape
<1> QED
  BY <1>1, <1>4, <1>5, <1>t, <1>6, <1>7, <1>8, <1>9, <1>10

\* Sheets and loaders over the Kegel screen, and pops, keep the shape.
LEMMA ShapePushed ==
    ASSUME NEW n, Shape(n), Len(n.stack) >= 2
    PROVE  Shape(Pushed(n, Sheet)) /\ Shape(WithLoader(n))
<1>1. /\ n \in Navigator(Route) /\ Sheet \in Route /\ Loader \in Route
      /\ Len(n.stack) \in Nat
  BY DEF Shape, Route, Navigator
<1>2. ASSUME NEW m, m \in Navigator(Route), NEW r \in {Sheet, Loader},
             m.stack = Append(n.stack, r)
      PROVE  Shape(m)
  <2>1. /\ Len(m.stack) = Len(n.stack) + 1
        /\ m.stack[Len(n.stack) + 1] = r
        /\ \A i \in 1..Len(n.stack) : m.stack[i] = n.stack[i]
    BY <1>1, <1>2, AppendProperties DEF Navigator
  <2>2. \A i \in 3..Len(m.stack) : i = Len(n.stack) + 1 \/ i \in 3..Len(n.stack)
    BY <1>1, <2>1
  <2>3. \A i \in 3..Len(m.stack) : m.stack[i] \in {Sheet, Loader}
    BY <1>1, <1>2, <2>1, <2>2 DEF Shape
  <2> QED
    BY <1>1, <1>2, <2>1, <2>3 DEF Shape
<1>3. Pushed(n, Sheet) \in Navigator(Route) /\ Pushed(n, Sheet).stack = Append(n.stack, Sheet)
  BY <1>1, PushedFacts
<1>4. WithLoader(n) \in Navigator(Route) /\ WithLoader(n).stack = Append(n.stack, Loader)
  BY <1>1, WithLoaderFacts
<1> QED
  BY <1>2, <1>3, <1>4

LEMMA ShapePopped ==
    ASSUME NEW n, Shape(n), Len(n.stack) >= 2
    PROVE  Shape(Popped(n))
<1>1. n \in Navigator(Route) /\ Len(n.stack) \in Nat
  BY DEF Shape, Navigator
<1>2. /\ Popped(n) \in Navigator(Route) /\ Len(Popped(n).stack) = Len(n.stack) - 1
      /\ \A i \in 1..(Len(n.stack) - 1) : Popped(n).stack[i] = n.stack[i]
  BY <1>1, PoppedFacts
<1> QED
  BY <1>1, <1>2 DEF Shape

LEMMA ShapeInit == Init => Shape(nav)
<1> SUFFICES ASSUME Init PROVE Shape(nav)
  OBVIOUS
<1> DEFINE home == NavigatorAt("home")
<1>1. home \in Navigator(Route) /\ "kegel" \in Route /\ home.stack = <<"home">>
  BY DEF NavigatorAt, Navigator, Route
<1>2. nav = Pushed(home, "kegel")
  BY DEF Init
<1> HIDE DEF home
<1>3. /\ nav \in Navigator(Route) /\ Len(nav.stack) = 2
      /\ nav.stack[1] = "home" /\ nav.stack[2] = "kegel"
  <2>1. /\ nav \in Navigator(Route) /\ Len(nav.stack) = Len(home.stack) + 1
        /\ Top(nav) = "kegel" /\ \A i \in 1..Len(home.stack) : nav.stack[i] = home.stack[i]
    <3>1. home \in Navigator(Route) /\ "kegel" \in Route
      BY <1>1
    <3> QED
      BY <3>1, <1>2, PushedFacts
  <2>2. Len(home.stack) = 1 /\ home.stack[1] = "home"
    BY <1>1
  <2> QED
    BY <2>1, <2>2 DEF Top
<1> QED
  BY <1>3 DEF Shape
-----------------------------------------------------------------------------
\* What a step does to the stack of routes: nothing, or one route comes or goes.
LEMMA NavSteps ==
    ASSUME Shape(nav), [Next]_vars
    PROVE  /\ Shape(nav') /\ (Mounted' => Mounted)
           /\ On(nav', Sheet) => On(nav, Sheet) \/ Add
<1>1. CASE nav' = nav
  BY <1>1 DEF Mounted
<1>2. CASE Len(nav.stack) >= 2 /\ nav' = Popped(nav)
  <2>1. nav \in Navigator(Route)
    BY DEF Shape
  <2>2. \A x : On(nav', x) => On(nav, x)
    BY <1>2, <2>1, PoppedFacts
  <2> QED
    BY <1>2, <2>2, ShapePopped DEF Mounted
<1>3. CASE Mounted /\ nav' = WithLoader(nav)
  <2>1. nav \in Navigator(Route) /\ Loader \in Route /\ Len(nav.stack) >= 2
    BY <1>3, ShapeFacts DEF Shape, Route, Mounted
  <2>2. On(nav', Sheet) => On(nav, Sheet)
    BY <1>3, <2>1, WithLoaderFacts, Names
  <2> QED
    BY <1>3, <2>1, <2>2, ShapePushed
<1>4. CASE Add
  <2>1. Len(nav.stack) = 2 /\ Mounted /\ nav' = Pushed(nav, Sheet)
    BY <1>4, ShapeFacts DEF Add, Mounted
  <2> QED
    BY <1>4, <2>1, ShapePushed
<1>5. CASE Next
  <2>1. CASE Database \/ Queried \/ Shown \/ DeleteAlarm
    BY <2>1, <1>1 DEF Database, Queried, Shown, DeleteAlarm
  <2>2. CASE Add
    BY <2>2, <1>4
  <2>3. CASE Dismiss
    BY <2>3, <1>2, ShapeFacts DEF Dismiss
  <2>4. CASE SetPosts
    BY <2>4, <1>3 DEF SetPosts
  <2>5. CASE SetPosted
    <3>1. Len(nav.stack) > 1 => Len(nav.stack) >= 2
      BY ShapeFacts
    <3> QED
      BY <2>5, <3>1, <1>1, <1>2 DEF SetPosted
  <2>6. CASE \E c \in Call : OnSaveAlarm(c) \/ ScheduleFails(c)
    BY <2>6, <1>1 DEF OnSaveAlarm, ScheduleFails
  <2>7. ASSUME NEW c \in Call, Scheduled(c)
        PROVE  nav' = nav \/ (Len(nav.stack) >= 2 /\ nav' = Popped(nav))
    BY <2>7, ShapeFacts DEF Scheduled, Pops, Mounted
  <2> QED
    BY <1>5, <1>1, <1>2, <2>1, <2>2, <2>3, <2>4, <2>5, <2>6, <2>7 DEF Next
<1> QED
  BY <1>1, <1>5 DEF vars

LEMMA Constants ==
    /\ Limit \in Nat /\ MaxAlarms \in Nat /\ Limit <= MaxAlarms
    /\ None \notin Nat /\ None \notin SUBSET Alarm
  BY AlarmAssumption DEF Alarm

LEMMA InitTypes == Init => TypeOK
<1> SUFFICES ASSUME Init PROVE TypeOK
  OBVIOUS
<1>1. nav \in Navigator({"home", "kegel", Sheet, Loader})
  BY ShapeInit DEF Shape, Route
<1>2. queue \in Seq(Job) /\ Len(queue) = 0
  BY DEF Init
<1>3. ids \in 0..MaxAlarms /\ table \subseteq Alarm
  BY Constants DEF Init, Alarm
<1>4. save \in [Call -> [op : {"idle", "scheduling"}, alarm : Alarm \cup {0}]]
  BY DEF Init, Idle
<1>5. ahead \in 0..Len(queue)
  BY <1>2 DEF Init
<1>6. reply = None /\ _currentAlarms = None
  BY DEF Init
<1>7. {loading, savedFrom, doubled, dismissed, failed, staleAdd} \subseteq BOOLEAN
  BY DEF Init
<1> QED
  BY <1>1, <1>2, <1>3, <1>4, <1>5, <1>6, <1>7 DEF TypeOK

LEMMA TypesStep ==
    ASSUME TypeOK, Shape(nav), [Next]_vars
    PROVE  TypeOK'
<1>1. nav' \in Navigator({"home", "kegel", Sheet, Loader})
  BY NavSteps DEF Shape, Route
<1> DEFINE Saves == [op : {"idle", "scheduling"}, alarm : Alarm \cup {0}]
<1> USE Constants DEF TypeOK
<1>2. Idle \in Saves /\ \A a \in Alarm : [op |-> "scheduling", alarm |-> a] \in Saves
  BY DEF Idle
<1>3. CASE UNCHANGED vars
  BY <1>3, <1>1 DEF vars, history, db, query
<1>4. CASE Database
  <2>1. /\ Head(queue) \in Job /\ Tail(queue) \in Seq(Job)
        /\ Len(Tail(queue)) = Len(queue) - 1 /\ Len(queue) \in Nat
    BY <1>4, HeadTailProperties DEF Database
  <2>2. Head(queue).alarm \in Alarm
    BY <2>1 DEF Job
  <2>3. ahead' \in 0..Len(queue') \cup {None}
    BY <1>4, <2>1 DEF Database
  <2> QED
    BY <1>1, <1>4, <2>1, <2>2, <2>3 DEF Database, history
<1>5. CASE Queried
  BY <1>1, <1>5 DEF Queried, db, history
<1>6. CASE Shown
  BY <1>1, <1>6 DEF Shown, db, history
<1>7. CASE Add
  BY <1>1, <1>7 DEF Add, db, query
<1>8. CASE Dismiss
  BY <1>1, <1>8 DEF Dismiss, db, query
<1>9. CASE SetPosts \/ SetPosted
  BY <1>1, <1>9 DEF SetPosts, SetPosted, db, query, history
<1>10. CASE DeleteAlarm
  <2>1. PICK a \in _currentAlarms : queue' = Append(queue, [op |-> "delete", alarm |-> a])
    BY <1>10 DEF DeleteAlarm
  <2>2. [op |-> "delete", alarm |-> a] \in Job
    BY <1>10, <2>1 DEF DeleteAlarm, Job
  <2>3. queue' \in Seq(Job) /\ Len(queue') \in Nat
    BY <2>1, <2>2, AppendProperties
  <2> QED
    BY <1>1, <1>10, <2>3 DEF DeleteAlarm, DeleteThenLoad, LoadAlarms, history
<1>11. ASSUME NEW c \in Call, OnSaveAlarm(c)
       PROVE  TypeOK'
  <2>1. ids + 1 \in Alarm /\ ids' \in 0..MaxAlarms
    BY <1>11 DEF OnSaveAlarm, Alarm
  <2>2. [op |-> "insert", alarm |-> ids + 1] \in Job
    BY <2>1 DEF Job
  <2>3. queue' \in Seq(Job) /\ Len(queue') = Len(queue) + 1 /\ Len(queue) \in Nat
    BY <1>11, <2>2, AppendProperties DEF OnSaveAlarm
  <2>4. ahead' \in 0..Len(queue') \cup {None}
    BY <1>11, <2>3 DEF OnSaveAlarm, query
  <2> QED
    BY <1>1, <1>2, <1>11, <2>1, <2>3, <2>4 DEF OnSaveAlarm, query
<1>12. ASSUME NEW c \in Call, Scheduled(c)
       PROVE  TypeOK'
  BY <1>1, <1>2, <1>12 DEF Scheduled, LoadAlarms, query, history
<1>13. ASSUME NEW c \in Call, ScheduleFails(c)
       PROVE  TypeOK'
  BY <1>1, <1>2, <1>13 DEF ScheduleFails, db, query
<1> QED
  BY <1>3, <1>4, <1>5, <1>6, <1>7, <1>8, <1>9, <1>10, <1>11, <1>12, <1>13
     DEF Next
-----------------------------------------------------------------------------
\* What happened has happened.
LEMMA HistorySteps ==
    ASSUME [Next]_vars
    PROVE  /\ doubled => doubled'
           /\ staleAdd => staleAdd'
           /\ dismissed => dismissed'
<1>1. CASE UNCHANGED history
  BY <1>1 DEF history
<1>2. CASE Add
  BY <1>2 DEF Add
<1>3. CASE Dismiss
  BY <1>3 DEF Dismiss
<1>4. CASE SetPosted
  BY <1>4 DEF SetPosted
<1>5. ASSUME NEW c \in Call, OnSaveAlarm(c)
      PROVE  /\ doubled => doubled'
             /\ staleAdd => staleAdd'
             /\ dismissed => dismissed'
  BY <1>5 DEF OnSaveAlarm
<1>6. ASSUME NEW c \in Call, ScheduleFails(c)
      PROVE  /\ doubled => doubled'
             /\ staleAdd => staleAdd'
             /\ dismissed => dismissed'
  BY <1>6 DEF ScheduleFails
<1>7. CASE \/ Database \/ Queried \/ Shown \/ DeleteAlarm \/ SetPosts
           \/ UNCHANGED vars \/ \E c \in Call : Scheduled(c)
  BY <1>7, <1>1 DEF Database, Queried, Shown, DeleteAlarm, SetPosts, Scheduled, vars
<1> QED
  BY <1>2, <1>3, <1>4, <1>5, <1>6, <1>7 DEF Next

\* What a step does to the saves under way.
LEMMA SavingSteps ==
    ASSUME TypeOK, [Next]_vars
    PROVE  \/ Saving' = Saving
           \/ \E c \in Call : OnSaveAlarm(c) /\ Saving' = Saving \cup {c}
           \/ \E c \in Saving : Scheduled(c) /\ Saving' = Saving \ {c}
           \/ \E c \in Saving : ScheduleFails(c) /\ Saving' = Saving \ {c}
<1>1. CASE UNCHANGED save
  BY <1>1 DEF Saving
<1>2. ASSUME NEW c \in Call, OnSaveAlarm(c)
      PROVE  Saving' = Saving \cup {c}
  <2>1. save'[c] # Idle /\ \A d \in Call \ {c} : save'[d] = save[d]
    BY <1>2 DEF OnSaveAlarm, TypeOK, Idle
  <2> QED
    BY <2>1 DEF Saving
<1>3. ASSUME NEW c \in Call, Scheduled(c) \/ ScheduleFails(c)
      PROVE  c \in Saving /\ Saving' = Saving \ {c}
  <2>1. c \in Saving /\ save'[c] = Idle /\ \A d \in Call \ {c} : save'[d] = save[d]
    BY <1>3 DEF Scheduled, ScheduleFails, TypeOK
  <2> QED
    BY <2>1 DEF Saving
<1>4. CASE ~\E c \in Call : OnSaveAlarm(c) \/ Scheduled(c) \/ ScheduleFails(c)
  <2>1. UNCHANGED save
    BY <1>4 DEF Next, vars, Database, Queried, Shown, Add, Dismiss, DeleteAlarm,
                SetPosts, SetPosted
  <2> QED
    BY <2>1, <1>1
<1> QED
  BY <1>2, <1>3, <1>4

-----------------------------------------------------------------------------
(***************************************************************************)
(* The list and the table.                                                 *)
(***************************************************************************)
LEMMA InitPending == Init => Pending
<1> SUFFICES ASSUME Init PROVE Pending
  OBVIOUS
<1>1. ahead = 0 /\ Len(queue) = 0
  BY DEF Init
<1> QED
  BY <1>1 DEF Pending

LEMMA PendingStep ==
    ASSUME TypeOK, Shape(nav), Pending, [Next]_vars
    PROVE  Pending'
<1> SUFFICES ASSUME Saving' = {}, Mounted', ~failed'
             PROVE  \/ ahead' = Len(queue')
                    \/ /\ queue' = <<>> /\ ahead' = None
                       /\ reply' = table' \/ (reply' = None /\ _currentAlarms' = table')
  BY DEF Pending
<1>1. Mounted
  BY NavSteps
<1>2. ASSUME NEW c \in Call, Scheduled(c)
      PROVE  ahead' = Len(queue')
  BY <1>1, <1>2 DEF Scheduled, LoadAlarms
<1>3. ASSUME NEW c \in Call, OnSaveAlarm(c) \/ ScheduleFails(c)
      PROVE  FALSE
  <2>1. ~ScheduleFails(c)
    BY DEF ScheduleFails
  <2>2. Saving' # {}
    <3>1. save'[c] # Idle
      BY <1>3, <2>1 DEF OnSaveAlarm, TypeOK, Idle
    <3> QED
      BY <3>1 DEF Saving
  <2> QED
    BY <2>2
<1>4. CASE DeleteAlarm
  BY <1>4 DEF DeleteAlarm, DeleteThenLoad, LoadAlarms
<1> DEFINE others == Database \/ Queried \/ Shown \/ Add \/ Dismiss \/ SetPosts
                        \/ SetPosted \/ UNCHANGED vars
<1>5. CASE others
  <2>1. UNCHANGED <<save, failed>>
    BY <1>5 DEF Database, Queried, Shown, Add, Dismiss, SetPosts, SetPosted, vars,
                history
  <2>2. \/ ahead = Len(queue)
        \/ /\ queue = <<>> /\ ahead = None
           /\ reply = table \/ (reply = None /\ _currentAlarms = table)
    BY <1>1, <2>1 DEF Pending, Saving
  <2>3. None \notin Nat /\ table # None /\ queue \in Seq(Job) /\ Len(queue) \in Nat
    BY Constants DEF TypeOK
  <2>4. CASE Database
    <3>1. ahead = Len(queue) /\ ahead # None
      BY <2>2, <2>3, <2>4 DEF Database
    <3>2. Len(queue') = Len(queue) - 1
      BY <2>3, <2>4, HeadTailProperties DEF Database
    <3> QED
      BY <2>4, <3>1, <3>2 DEF Database
  <2>5. CASE Queried
    <3>1. queue = <<>>
      BY <2>2, <2>3, <2>5, EmptySeq DEF Queried
    <3> QED
      BY <2>5, <3>1 DEF Queried, db
  <2>6. CASE Shown
    BY <1>1, <2>2, <2>3, <2>6 DEF Shown, db
  <2>7. CASE Add \/ Dismiss \/ SetPosts \/ SetPosted \/ UNCHANGED vars
    <3>1. UNCHANGED <<db, query, _currentAlarms>>
      BY <2>7 DEF Add, Dismiss, SetPosts, SetPosted, vars, query
    <3> QED
      BY <2>2, <3>1 DEF db, query
  <2> QED
    BY <1>5, <2>4, <2>5, <2>6, <2>7
<1> QED
  BY <1>2, <1>3, <1>4, <1>5 DEF Next
-----------------------------------------------------------------------------
(***************************************************************************)
(* The limit.                                                              *)
(***************************************************************************)
\* What a step does to the alarms that are in the table or were asked for.
LEMMA AskedSteps ==
    ASSUME TypeOK, [Next]_vars, ~\E c \in Call : OnSaveAlarm(c)
    PROVE  table' \cup Asked' \subseteq table \cup Asked
<1>1. queue \in Seq(Job) /\ DOMAIN queue = 1..Len(queue) /\ Len(queue) \in Nat
  BY DEF TypeOK
<1>2. CASE UNCHANGED <<table, queue>>
  BY <1>2 DEF Asked
<1>3. CASE Database
  <2>1. /\ Head(queue) = queue[1] /\ 1 \in DOMAIN queue
        /\ queue' \in Seq(Job) /\ Len(queue') = Len(queue) - 1
        /\ \A i \in 1..Len(queue') : queue'[i] = queue[i + 1]
    BY <1>1, <1>3, HeadTailProperties, EmptySeq DEF Database
  <2>2. \A i \in 1..Len(queue') : i + 1 \in DOMAIN queue
    BY <1>1, <2>1
  <2>3. Asked' \subseteq Asked
    BY <2>1, <2>2 DEF Asked
  <2>4. Head(queue).op = "insert" => Head(queue).alarm \in Asked
    BY <2>1 DEF Asked
  <2> QED
    BY <1>3, <2>3, <2>4 DEF Database
<1>4. CASE DeleteAlarm
  <2>1. PICK a \in _currentAlarms : queue' = Append(queue, [op |-> "delete", alarm |-> a])
    BY <1>4 DEF DeleteAlarm
  <2>2. a \in Alarm
    BY <1>4, <2>1 DEF DeleteAlarm, TypeOK
  <2>3. [op |-> "delete", alarm |-> a] \in Job
    BY <2>2 DEF Job
  <2>4. /\ DOMAIN queue' = 1..(Len(queue) + 1)
        /\ queue'[Len(queue) + 1].op = "delete"
        /\ \A i \in 1..Len(queue) : queue'[i] = queue[i]
    BY <1>1, <2>1, <2>3, AppendProperties
  <2>5. \A i \in DOMAIN queue' : queue'[i].op = "insert"
            => i \in DOMAIN queue /\ queue'[i] = queue[i]
    BY <1>1, <2>4
  <2>6. Asked' \subseteq Asked
    BY <2>5 DEF Asked
  <2> QED
    BY <1>4, <2>6 DEF DeleteAlarm
<1>5. ASSUME NEW c \in Call, Scheduled(c) \/ ScheduleFails(c)
      PROVE  UNCHANGED <<table, queue>>
  BY <1>5 DEF Scheduled, ScheduleFails, db
<1>6. CASE Queried \/ Shown \/ Add \/ Dismiss \/ SetPosts \/ SetPosted \/ UNCHANGED vars
  BY <1>6, <1>2 DEF Queried, Shown, Add, Dismiss, SetPosts, SetPosted, vars, db
<1> QED
  BY <1>2, <1>3, <1>4, <1>5, <1>6 DEF Next

\* A smaller set of alarms is not counted higher.
LEMMA Fewer ==
    ASSUME TypeOK, NEW S, S \subseteq table \cup Asked
    PROVE  /\ IsFiniteSet(S) /\ Cardinality(S) \in Nat
           /\ Cardinality(table \cup Asked) \in Nat
           /\ IsFiniteSet(table \cup Asked)
           /\ Cardinality(S) <= Cardinality(table \cup Asked)
<1>1. table \cup Asked \subseteq 1..MaxAlarms
  <2>1. \A i \in DOMAIN queue : queue[i] \in Job
    BY DEF TypeOK
  <2>2. Asked \subseteq Alarm
    BY <2>1 DEF Asked, Job
  <2> QED
    BY <2>2 DEF TypeOK, Alarm
<1>2. IsFiniteSet(1..MaxAlarms)
  BY Constants, FS_Interval
<1>3. IsFiniteSet(table \cup Asked)
  BY <1>1, <1>2, FS_Subset
<1> QED
  BY <1>3, FS_Subset, FS_CardinalityType

LEMMA InitRoomLeft == Init => RoomLeft
<1> SUFFICES ASSUME Init PROVE RoomLeft
  OBVIOUS
<1>1. table = 1..ids /\ ids \in 0..Limit /\ queue = <<>>
  BY DEF Init
<1>2. DOMAIN queue = {}
  BY <1>1
<1>3. Asked = {}
  BY <1>2 DEF Asked
<1>4. table \cup Asked = 1..ids
  BY <1>1, <1>3
<1>5. Cardinality(1..ids) <= Limit
  <2>1. /\ ids \in Int /\ 1 \in Int /\ Limit \in Nat /\ ids <= Limit /\ ids >= 0
    BY <1>1, Constants
  <2>2. Cardinality(1..ids) = IF 1 > ids THEN 0 ELSE ids - 1 + 1
    BY <2>1, FS_Interval
  <2> QED
    BY <2>1, <2>2
<1>6. ~On(nav, Sheet)
  <2>1. Shape(nav) /\ Len(nav.stack) = 2
    <3>1. Shape(nav)
      BY ShapeInit
    <3>2. NavigatorAt("home") \in Navigator(Route) /\ "kegel" \in Route
      BY DEF NavigatorAt, Navigator, Route
    <3>3. Top(nav) = "kegel"
      BY <3>2, PushedFacts DEF Init
    <3> QED
      BY <3>1, <3>3, ShapeFacts
  <2> QED
    BY <2>1, ShapeFacts
<1> QED
  BY <1>4, <1>5, <1>6 DEF RoomLeft

LEMMA RoomLeftStep ==
    ASSUME TypeOK, TypeOK', Shape(nav), RoomLeft, [Next]_vars
    PROVE  RoomLeft'
<1> DEFINE before == table \cup Asked
           after == table' \cup Asked'
<1> SUFFICES ASSUME ~doubled', ~staleAdd'
             PROVE  /\ Cardinality(after) <= Limit
                    /\ On(nav', Sheet) /\ ~savedFrom' => Cardinality(after) < Limit
  BY DEF RoomLeft
<1>1. ~doubled /\ ~staleAdd
  BY HistorySteps
<1>2. /\ Cardinality(before) <= Limit
      /\ On(nav, Sheet) /\ ~savedFrom => Cardinality(before) < Limit
  BY <1>1 DEF RoomLeft
<1>3. /\ Limit \in Nat /\ Cardinality(before) \in Nat /\ IsFiniteSet(before)
  BY Constants, Fewer
<1>4. CASE Add
  <2>1. Settled /\ _currentAlarms = table /\ Room
    BY <1>4 DEF Add
  <2>2. DOMAIN queue = {} /\ UNCHANGED <<table, queue>>
    BY <1>4, <2>1 DEF Settled, Add, db
  <2>3. after = table
    BY <2>2 DEF Asked
  <2>4. Cardinality(table) < Limit /\ Cardinality(table) \in Nat
    BY <2>1, Fewer DEF Room
  <2> QED
    BY <1>3, <2>3, <2>4
<1>5. ASSUME NEW c \in Call, OnSaveAlarm(c)
      PROVE  Cardinality(after) <= Limit /\ savedFrom'
  <2>1. On(nav, Sheet) /\ ~savedFrom /\ savedFrom'
    BY <1>5, ShapeFacts DEF OnSaveAlarm
  <2>2. after \subseteq before \cup {ids + 1}
    <3>1. queue \in Seq(Job) /\ ids + 1 \in Alarm
      BY <1>5 DEF TypeOK, OnSaveAlarm, Alarm
    <3>2. [op |-> "insert", alarm |-> ids + 1] \in Job
      BY <3>1 DEF Job
    <3>3. /\ DOMAIN queue' = 1..(Len(queue) + 1) /\ DOMAIN queue = 1..Len(queue)
          /\ Len(queue) \in Nat
          /\ queue'[Len(queue) + 1].alarm = ids + 1
          /\ \A i \in 1..Len(queue) : queue'[i] = queue[i]
      BY <1>5, <3>1, <3>2, AppendProperties DEF OnSaveAlarm
    <3>4. \A i \in DOMAIN queue' :
              \/ queue'[i].alarm = ids + 1
              \/ i \in DOMAIN queue /\ queue'[i] = queue[i]
      BY <3>3
    <3>5. Asked' \subseteq Asked \cup {ids + 1}
      BY <3>4 DEF Asked
    <3> QED
      BY <1>5, <3>5 DEF OnSaveAlarm
  <2>3. /\ IsFiniteSet(before \cup {ids + 1})
        /\ Cardinality(before \cup {ids + 1}) <= Cardinality(before) + 1
        /\ Cardinality(before \cup {ids + 1}) \in Nat
    <3>1. /\ IsFiniteSet(before \cup {ids + 1})
          /\ Cardinality(before \cup {ids + 1})
                = IF ids + 1 \in before THEN Cardinality(before)
                                       ELSE Cardinality(before) + 1
      BY <1>3, FS_AddElement
    <3> HIDE DEF before
    <3> QED
      BY <1>3, <3>1
  <2>4. Cardinality(after) <= Cardinality(before \cup {ids + 1}) /\ Cardinality(after) \in Nat
    BY <2>2, <2>3, FS_Subset, FS_CardinalityType
  <2>5. Cardinality(before) < Limit
    BY <1>2, <2>1
  <2> QED
    BY <1>3, <2>1, <2>3, <2>4, <2>5
<1>6. CASE ~Add /\ ~\E c \in Call : OnSaveAlarm(c)
  <2>1. after \subseteq before
    BY <1>6, AskedSteps
  <2>2. Cardinality(after) <= Cardinality(before) /\ Cardinality(after) \in Nat
    BY <2>1, Fewer
  <2>3. On(nav', Sheet) => On(nav, Sheet)
    BY <1>6, NavSteps
  <2>4. savedFrom' = savedFrom
    BY <1>6 DEF Next, vars, Database, Queried, Shown, Dismiss, DeleteAlarm, SetPosts,
                SetPosted, Scheduled, ScheduleFails, history
  <2> QED
    BY <1>2, <1>3, <2>2, <2>3, <2>4
<1> QED
  BY <1>4, <1>5, <1>6

-----------------------------------------------------------------------------
(***************************************************************************)
(* The sheet of a save under way.                                          *)
(***************************************************************************)
LEMMA InitSheetStays == Init => SheetStays
  BY DEF Init, SheetStays, Saving

LEMMA SheetStaysStep ==
    ASSUME TypeOK, Shape(nav), SheetStays, [Next]_vars
    PROVE  SheetStays'
<1> SUFFICES ASSUME Mounted', ~doubled', ~dismissed', NEW c \in Saving'
             PROVE  On(nav', Sheet) /\ savedFrom' /\ Saving' = {c}
  BY DEF SheetStays
<1>1. Mounted /\ ~doubled /\ ~dismissed
  BY NavSteps, HistorySteps
<1>2. \A d \in Saving : On(nav, Sheet) /\ savedFrom /\ Saving = {d}
  BY <1>1 DEF SheetStays
<1>3. ASSUME NEW d \in Call, OnSaveAlarm(d), Saving' = Saving \cup {d}
      PROVE  On(nav', Sheet) /\ savedFrom' /\ Saving' = {c}
  <2>1. ~savedFrom /\ savedFrom' /\ nav' = nav /\ On(nav, Sheet)
    BY <1>3, ShapeFacts DEF OnSaveAlarm
  <2>2. Saving = {}
    BY <1>2, <2>1
  <2> QED
    BY <1>3, <2>1, <2>2
<1>4. ~\E d \in Saving : Saving' = Saving \ {d}
  BY <1>2
<1>5. CASE Saving' = Saving
  <2>1. c \in Saving /\ On(nav, Sheet) /\ savedFrom /\ Saving = {c}
    BY <1>2, <1>5
  <2>2. ~Add /\ ~Dismiss
    BY <2>1, ShapeFacts DEF Add, Dismiss
  <2>3. savedFrom'
    BY <2>1, <2>2 DEF Next, vars, Database, Queried, Shown, DeleteAlarm, SetPosts,
       SetPosted, OnSaveAlarm, Scheduled, ScheduleFails, history
  <2>4. CASE nav' = nav
    BY <1>5, <2>1, <2>3, <2>4
  <2>5. nav \in Navigator(Route) /\ Loader \in Route /\ Len(nav.stack) \in Nat
    BY ShapeFacts DEF Shape, Route
  <2>6. CASE SetPosts
    <3>1. On(nav', Sheet)
      BY <2>1, <2>5, <2>6, WithLoaderFacts DEF SetPosts
    <3> QED
      BY <1>5, <2>1, <2>3, <3>1
  <2>7. CASE SetPosted /\ nav' # nav
    <3>1. Len(nav.stack) >= 2 /\ nav' = Popped(nav)
      BY <2>5, <2>7 DEF SetPosted
    <3>2. nav'.stack # nav.stack
      BY <2>5, <3>1, PoppedFacts
    <3>3. Top(nav) # Sheet
      BY <2>7, <3>2 DEF SetPosted
    <3>4. On(nav', Sheet)
      BY <2>1, <2>5, <3>1, <3>3, PoppedFacts
    <3> QED
      BY <1>5, <2>1, <2>3, <3>4
  <2>8. ~\E d \in Call : Scheduled(d)
    <3> SUFFICES ASSUME NEW d \in Call, Scheduled(d)
                 PROVE  FALSE
      OBVIOUS
    <3>1. d \in Saving /\ save'[d] = Idle
      BY DEF Scheduled, TypeOK
    <3> QED
      BY <1>5, <3>1 DEF Saving
  <2>9. CASE ~SetPosts /\ ~SetPosted
    <3>1. nav' = nav
      BY <2>2, <2>8, <2>9 DEF Next, vars, Database, Queried, Shown, DeleteAlarm,
         OnSaveAlarm, ScheduleFails
    <3> QED
      BY <2>4, <3>1
  <2> QED
    BY <2>4, <2>6, <2>7, <2>9
<1> QED
  BY <1>3, <1>4, <1>5, SavingSteps
-----------------------------------------------------------------------------
(***************************************************************************)
(* Theorems.                                                               *)
(***************************************************************************)
IInv == TypeOK /\ Shape(nav) /\ Pending /\ RoomLeft /\ SheetStays

LEMMA Inductive == Spec => []IInv
<1>1. Init => IInv
  BY InitTypes, ShapeInit, InitPending, InitRoomLeft, InitSheetStays DEF IInv
<1>2. IInv /\ [Next]_vars => IInv'
  <2> SUFFICES ASSUME IInv, [Next]_vars PROVE IInv'
    OBVIOUS
  <2>1. TypeOK' /\ Shape(nav')
    BY TypesStep, NavSteps DEF IInv
  <2>2. Pending' /\ SheetStays'
    BY PendingStep, SheetStaysStep DEF IInv
  <2>3. RoomLeft'
    BY <2>1, RoomLeftStep DEF IInv
  <2> QED
    BY <2>1, <2>2, <2>3 DEF IInv
<1> QED
  BY <1>1, <1>2, PTL DEF Spec

\* The variables keep their types.
THEOREM TypeCorrect == Spec => []TypeOK
<1>1. IInv => TypeOK
  BY DEF IInv
<1> QED
  BY <1>1, Inductive, PTL

\* With nothing under way the list shown is the table, whatever was inserted and
\* deleted (kegel_screen.dart 8683-8687, 8768-8772).
THEOREM ListIsTableHolds == Spec => []ListIsTable
<1>1. IInv => ListIsTable
  <2> SUFFICES ASSUME IInv, Settled, Mounted, ~failed
               PROVE  _currentAlarms = table
    BY DEF ListIsTable
  <2>1. Saving = {} /\ queue = <<>> /\ ahead = None /\ reply = None
    BY DEF Settled
  <2>2. Len(queue) \in Nat /\ None \notin Nat /\ table # None
    BY <2>1, Constants DEF IInv, TypeOK
  <2> QED
    BY <2>1, <2>2 DEF IInv, Pending
<1> QED
  BY <1>1, Inductive, PTL

\* The limit is exceeded only by one sheet saved twice or an Add judged by a list
\* that was out of date (kegel_screen.dart 6626).
THEOREM LimitKeptHolds == Spec => []LimitKept
<1>1. IInv => LimitKept
  <2> SUFFICES ASSUME IInv, ~doubled, ~staleAdd
               PROVE  Cardinality(table) <= Limit
    BY DEF LimitKept
  <2>1. /\ Cardinality(table \cup Asked) <= Limit
        /\ Limit \in Nat
    BY Constants DEF IInv, RoomLeft
  <2>2. /\ Cardinality(table) <= Cardinality(table \cup Asked)
        /\ Cardinality(table) \in Nat /\ Cardinality(table \cup Asked) \in Nat
    BY Fewer DEF IInv
  <2> QED
    BY <2>1, <2>2
<1> QED
  BY <1>1, Inductive, PTL

\* The pop of a save takes its sheet, but for a sheet saved twice, dismissed
\* meanwhile or under a loader (kegel_screen.dart 8686).
THEOREM SaveTakesSheetHolds == Spec => SaveTakesSheet
<1>1. IInv /\ [Next]_vars
        => [\A c \in Call :
              Scheduled(c) /\ Mounted /\ ~doubled /\ ~dismissed /\ ~On(nav, Loader)
                  => nav.stack = Append(nav'.stack, Sheet)]_vars
  <2> SUFFICES ASSUME IInv, NEW c \in Call, Scheduled(c), Mounted, ~doubled,
                      ~dismissed, ~On(nav, Loader)
               PROVE  nav.stack = Append(nav'.stack, Sheet)
    OBVIOUS
  <2>1. On(nav, Sheet)
    BY DEF IInv, SheetStays, Scheduled
  <2> DEFINE l == Len(nav.stack)
  <2>2. Shape(nav) /\ nav \in Navigator(Route) /\ l >= 3
    <3>1. Shape(nav) /\ nav \in Navigator(Route)
      BY DEF IInv, Shape
    <3>2. l \in Nat /\ l >= 2 /\ l # 2
      BY <2>1, <3>1, ShapeFacts DEF Mounted
    <3> HIDE DEF l
    <3> QED
      BY <3>1, <3>2
  <2>3. Top(nav) = Sheet
    BY <2>2, ShapeFacts
  <2>4. nav' = Popped(nav)
    BY DEF Scheduled, Pops
  <2> QED
    BY <2>2, <2>3, <2>4, PoppedFacts
<1> QED
  BY <1>1, Inductive, PTL DEF Spec, SaveTakesSheet
=============================================================================
