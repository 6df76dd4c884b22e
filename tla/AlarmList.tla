------------------------------ MODULE AlarmList ------------------------------
(***************************************************************************)
(* The alarms of the Kegel screen (src/lib/homepage/kegel_screen.dart and  *)
(* alarm_helper.dart): a SQLite table, a list of what a query of it last   *)
(* returned, and a sheet to add one.                                       *)
(*                                                                         *)
(* Nothing waits for the database.  It does what it is asked for in order, *)
(* and a FutureBuilder shows the result of the latest query asked for.     *)
(* Save waits for the platform to schedule the notification, with the      *)
(* sheet still there, and then pops what is on top.                        *)
(***************************************************************************)
EXTENDS Routes, FiniteSets

CONSTANTS
    Call,            \* runs of Save's handler that may be under way at a time
    None,            \* no list yet; no reply
    Limit,           \* the screen's limit, 3
    MaxAlarms,       \* bound: alarms ever saved
    MaxQueue         \* bound: writes the database has not done yet, at a tap

Sheet == "sheet"

ASSUME AlarmAssumption ==
    /\ Limit \in Nat /\ MaxAlarms \in Nat /\ MaxQueue \in Nat
    /\ Limit <= MaxAlarms
    /\ Overlays = {Loader, Sheet}
    /\ None \notin Nat /\ \A alarms \in SUBSET (1..MaxAlarms) : None # alarms

VARIABLES
    nav,
    \* SQLite: the rows, by their autoincremented id, the last id given, and
    \* the inserts and deletes it was asked for
    table, ids, queue,
    \* the latest query: how many of these it was asked for after, and what it
    \* has read, on its way back
    ahead, reply,
    _currentAlarms,  \* the list shown
    save,            \* the handler's stage, and its alarm
    loading,         \* a set being posted has a loader to hide
    \* history: the sheet was saved from; two saves of one sheet; a sheet was
    \* dismissed while its alarm was being saved; a notification could not be
    \* scheduled; Add was judged by a list that was out of date
    savedFrom, doubled, dismissed, failed, staleAdd

query == <<ahead, reply>>
db == <<table, ids, queue>>
history == <<savedFrom, doubled, dismissed, failed, staleAdd>>
vars == <<nav, db, query, _currentAlarms, save, loading, history>>

Alarm == 1..MaxAlarms
Job == [op : {"insert", "delete"}, alarm : Alarm]
Idle == [op |-> "idle", alarm |-> 0]

TypeOK ==
    /\ nav \in Navigator({"home", "kegel", Sheet, Loader})
    /\ table \subseteq Alarm /\ ids \in 0..MaxAlarms /\ queue \in Seq(Job)
    /\ ahead \in 0..Len(queue) \cup {None}
    /\ reply \in (SUBSET Alarm) \cup {None}
    /\ _currentAlarms \in (SUBSET Alarm) \cup {None}
    /\ save \in [Call -> [op : {"idle", "scheduling"}, alarm : Alarm \cup {0}]]
    /\ {loading, savedFrom, doubled, dismissed, failed, staleAdd} \subseteq BOOLEAN

\* initState has asked for the list.
Init ==
    /\ nav = Pushed(NavigatorAt("home"), "kegel")
    /\ ids \in 0..Limit /\ table = 1..ids
    /\ queue = <<>> /\ ahead = 0 /\ reply = None /\ _currentAlarms = None
    /\ save = [c \in Call |-> Idle]
    /\ loading = FALSE
    /\ savedFrom = FALSE /\ doubled = FALSE /\ dismissed = FALSE
    /\ failed = FALSE /\ staleAdd = FALSE

Saving == {c \in Call : save[c] # Idle}
Mounted == On(nav, "kegel")
Settled == queue = <<>> /\ ahead = None /\ reply = None /\ Saving = {}
-----------------------------------------------------------------------------
\* loadAlarms: the builder forgets the query before it.
LoadAlarms == ahead' = Len(queue') /\ reply' = None

\* The database does what is next: an insert or delete, or the query.
Database ==
    /\ queue # <<>> /\ ahead # 0
    /\ queue' = Tail(queue)
    /\ table' = IF Head(queue).op = "insert" THEN table \cup {Head(queue).alarm}
                                            ELSE table \ {Head(queue).alarm}
    /\ ahead' = IF ahead = None THEN None ELSE ahead - 1
    /\ UNCHANGED <<nav, ids, reply, _currentAlarms, save, loading, history>>

Queried ==
    /\ ahead = 0 /\ ahead' = None /\ reply' = table
    /\ UNCHANGED <<nav, db, _currentAlarms, save, loading, history>>

Shown ==
    /\ reply # None /\ reply' = None
    /\ _currentAlarms' = IF Mounted THEN reply ELSE _currentAlarms
    /\ UNCHANGED <<nav, db, ahead, save, loading, history>>

\* Add opens the sheet, unless there are three.  (The variant is off by one.)
RoomForOneMore == Cardinality(_currentAlarms) <= Limit
Room == Cardinality(_currentAlarms) < Limit

Add ==
    /\ Top(nav) = "kegel" /\ _currentAlarms # None /\ Room
    /\ nav' = Pushed(nav, Sheet) /\ savedFrom' = FALSE
    /\ staleAdd' = (staleAdd \/ ~Settled \/ _currentAlarms # table)
    /\ UNCHANGED <<db, query, _currentAlarms, save, loading, doubled, dismissed,
                   failed>>

Dismiss ==
    /\ Top(nav) = Sheet /\ nav' = Popped(nav)
    /\ dismissed' = (dismissed \/ Saving # {})
    /\ UNCHANGED <<db, query, _currentAlarms, save, loading, savedFrom, doubled,
                   failed, staleAdd>>

\* Save: the alarm is inserted without waiting, its notification is waited for.
OnSaveAlarm(c) ==
    /\ Top(nav) = Sheet /\ save[c] = Idle
    /\ ids < MaxAlarms /\ Len(queue) < MaxQueue
    /\ ids' = ids + 1
    /\ queue' = Append(queue, [op |-> "insert", alarm |-> ids + 1])
    /\ save' = [save EXCEPT ![c] = [op |-> "scheduling", alarm |-> ids + 1]]
    /\ savedFrom' = TRUE /\ doubled' = (doubled \/ savedFrom)
    /\ UNCHANGED <<nav, table, query, _currentAlarms, loading, dismissed, failed,
                   staleAdd>>

\* Scheduled: pop, and load the list.  (The variant pops the sheet and what it
\* takes to be another.)
PopsTwice == IF Len(nav.stack) > 2 THEN Popped(Popped(nav)) ELSE Popped(nav)
Pops == Popped(nav)

Scheduled(c) ==
    /\ c \in Saving /\ save' = [save EXCEPT ![c] = Idle]
    /\ IF Mounted THEN /\ nav' = Pops
                       /\ UNCHANGED queue /\ LoadAlarms
                  ELSE UNCHANGED <<nav, queue, query>>
    /\ UNCHANGED <<table, ids, _currentAlarms, loading, history>>

\* The platform refuses: neither is done.
ScheduleFails(c) ==
    /\ c \in Saving /\ save' = [save EXCEPT ![c] = Idle]
    /\ failed' = TRUE
    /\ UNCHANGED <<nav, db, query, _currentAlarms, loading, savedFrom, doubled,
                   dismissed, staleAdd>>

\* (The variant loads the list before it asks for the delete.)
LoadThenDelete == ahead' = Len(queue) /\ reply' = None
DeleteThenLoad == LoadAlarms

DeleteAlarm ==
    /\ Top(nav) = "kegel" /\ _currentAlarms # None /\ Len(queue) < MaxQueue
    /\ \E a \in _currentAlarms :
          queue' = Append(queue, [op |-> "delete", alarm |-> a])
    /\ DeleteThenLoad
    /\ UNCHANGED <<nav, table, ids, _currentAlarms, save, loading, history>>

\* A set is posted, under a loader over whatever is there.
SetPosts ==
    /\ Mounted /\ ~loading /\ loading' = TRUE
    /\ nav' = WithLoader(nav)
    /\ UNCHANGED <<db, query, _currentAlarms, save, history>>

SetPosted ==
    /\ loading /\ loading' = FALSE
    /\ \E pops \in HideOutcomes(nav) :
          nav' = IF pops /\ Len(nav.stack) > 1 THEN Popped(nav) ELSE nav
    /\ dismissed' = (dismissed \/ (nav'.stack # nav.stack /\ Top(nav) = Sheet))
    /\ UNCHANGED <<db, query, _currentAlarms, save, savedFrom, doubled, failed,
                   staleAdd>>

Next ==
    \/ Database \/ Queried \/ Shown \/ Add \/ Dismiss \/ DeleteAlarm \/ SetPosts \/ SetPosted
    \/ \E c \in Call : OnSaveAlarm(c) \/ Scheduled(c) \/ ScheduleFails(c)

Spec == Init /\ [][Next]_vars
-----------------------------------------------------------------------------
(***************************************************************************)
(* Properties.                                                             *)
(***************************************************************************)
\* When nothing is under way the list shown is the table, though no insert,
\* delete or query is ever waited for: unless a notification could not be
\* scheduled, after which the list is not loaded (kegel_screen.dart 8683-8687,
\* 8768-8772).
ListIsTable == Settled /\ Mounted /\ ~failed => _currentAlarms = table

\* There are never more alarms than three, unless one sheet was saved twice or
\* Add was tapped while the list was out of date (kegel_screen.dart 6626).
LimitKept == Cardinality(table) <= Limit \/ doubled \/ staleAdd

\* Saving takes away its sheet and not the Kegel screen, unless the sheet was
\* saved twice, dismissed meanwhile, or covered by a loader
\* (kegel_screen.dart 8686).
SaveTakesSheet ==
    [][\A c \in Call :
          Scheduled(c) /\ Mounted /\ ~doubled /\ ~dismissed /\ ~On(nav, Loader)
              => nav.stack = Append(nav'.stack, Sheet)]_vars
=============================================================================
