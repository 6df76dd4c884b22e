------------------------------- MODULE Tracker -------------------------------
(***************************************************************************)
(* The tracker screen (src/lib/homepage/m_screen_metal.dart) and its       *)
(* controller (controller/m_screen_controller.dart).                       *)
(*                                                                         *)
(* A session is timed by a Stopwatch the user may pause a few times.       *)
(* Finish posts it, without a loader, and then re-reads three lists, each  *)
(* behind a loader; deleting or renaming a row re-reads the day's list     *)
(* alone.  A refresh clears `method_time` when it begins and appends to it *)
(* when its answer arrives.  Between two calls of a refresh there are only *)
(* microtasks, so no tap gets in.  The display (elapsedTime, percent and   *)
(* the periodic timers behind it, graphs, dialogs) is left out.            *)
(***************************************************************************)
EXTENDS Integers, SequencesExt, Stopwatches, LoaderDialog

CONSTANTS
    PauseLimit,      \* pauses of a session
    MaxSessions,     \* bound: rows made of sessions ...
    MaxSeconds       \* ... and seconds the watch runs for one

ASSUME TrackerAssumption ==
    PauseLimit \in Nat \ {0} /\ MaxSessions \in Nat /\ MaxSeconds \in Nat

VARIABLES
    \* M_ScreenMetalState
    mounted, watch, started, startStop, paused, paused_time, method_selected,
    method_data, method_time,
    weekly_read,     \* m_screenWeeklyDataModel is not null
    \* Ledger_Setup_controller; the models of the last delete and edit
    m_running, models,
    \* calls in flight: posts, of this State and of disposed ones, and the rest
    posts, strays, calls,
    \* the server's rows
    serverRows,
    \* history: seconds the watch ran and times it was paused since the last
    \* row, the rows due, loaders up for good, two refreshes at a time
    worked, breaks, finished, left, overlapped

timing == <<watch, started, startStop, paused, paused_time>>
listVars == <<method_data, method_time>>
stateVars == <<mounted, timing, method_selected, listVars, weekly_read>>
netVars == <<posts, strays, calls, loaderVars, overlapped, left>>
historyVars == <<worked, breaks, finished>>
vars == <<stateVars, m_running, models, netVars, serverRows, historyVars>>

\* What is known of a session.  Its number stands for the row's id.
Row == [id : 1..MaxSessions, pauses : 0..PauseLimit, total : 0..(Minute - 1)]
Change == {"delete", "edit"}

\* The methods with a colour of their own in the code, and the user's.
Method == {"named", "own"}

\* life, daily, weekly: a full refresh; delete, edit: the call itself; reread:
\* the day's list after a delete or an edit.  Each has one loader up.
Call == {"life", "daily", "weekly", "reread"} \cup Change
NoCalls == [c \in Call |-> 0]
Refreshing(cs) == cs["life"] + cs["daily"] + cs["reread"]

TypeOK ==
    /\ {mounted, started, startStop, paused, m_running, weekly_read,
        overlapped} \subseteq BOOLEAN
    /\ method_selected \in Method \cup {"none"}
    /\ watch \in Stopwatch
    /\ paused_time \in Seq(0..(Minute - 1))
    /\ method_data \in Seq(Row)
    /\ method_time \in Seq(Row) /\ serverRows \in Seq(Row)
    /\ models \in [Change -> {"null", "ok", "error"}]
    /\ posts \subseteq Row /\ strays \subseteq Row
    /\ calls \in [Call -> Nat] /\ LoaderTypeOK
    /\ {worked, breaks, left} \subseteq Nat
    /\ finished \in Seq(Row)

Init ==
    /\ mounted = FALSE /\ watch = Zero
    /\ started = TRUE /\ startStop = TRUE /\ paused = FALSE
    /\ method_selected = "none" /\ paused_time = <<>>
    /\ method_data = <<>> /\ method_time = <<>> /\ weekly_read = FALSE
    /\ worked = 0 /\ breaks = 0
    /\ m_running = FALSE /\ models = [c \in Change |-> "null"]
    /\ posts = {} /\ strays = {} /\ calls = NoCalls
    /\ loaders = 0 /\ contexts = FALSE
    /\ serverRows = <<>> /\ finished = <<>>
    /\ left = 0 /\ overlapped = FALSE

Tappable == mounted /\ loaders = 0

Begin(c) == calls' = [calls EXCEPT ![c] = @ + 1]
Continue(c, d) == calls' = [calls EXCEPT ![c] = @ - 1, ![d] = @ + 1]
End(c) == calls' = [calls EXCEPT ![c] = @ - 1]
Overlap == overlapped' = (overlapped \/ Refreshing(calls') > 1)
-----------------------------------------------------------------------------
\* initState, getdata: the first refresh.
Enter ==
    /\ ~mounted /\ loaders = 0 /\ mounted' = TRUE
    /\ Begin("life") /\ ShowLoader /\ Overlap
    /\ UNCHANGED <<timing, method_selected, listVars, weekly_read, m_running,
                   models, posts, strays, left, serverRows, historyVars>>

\* There is no State any more; a post on its way is answered to nobody.
NoScreen ==
    /\ mounted' = FALSE /\ watch' = Zero
    /\ started' = TRUE /\ startStop' = TRUE /\ paused' = FALSE
    /\ method_selected' = "none" /\ paused_time' = <<>>
    /\ method_data' = <<>> /\ method_time' = <<>> /\ weekly_read' = FALSE
    /\ worked' = 0 /\ breaks' = 0 /\ overlapped' = FALSE
    /\ posts' = {} /\ strays' = strays \cup posts
    /\ UNCHANGED <<serverRows, finished>>

Dispose ==
    /\ Tappable /\ NoScreen
    /\ UNCHANGED <<calls, loaderVars, left>>

NoModels == [c \in Change |-> "null"]

\* Both controllers are deleted with the route they were put under, which a
\* swipe keeps.
Swipe == ~m_running /\ Dispose /\ UNCHANGED <<m_running, models>>
Leave == Dispose /\ m_running' = FALSE /\ models' = NoModels
BackArrow == started /\ Leave
SystemBack == Leave

\* A method is picked in the dialog.
SelectMethod ==
    /\ Tappable /\ started
    /\ method_selected' \in Method
    /\ UNCHANGED <<mounted, timing, listVars, weekly_read, m_running, models,
                   netVars, serverRows, historyVars>>

\* startWatch.
StartWatch ==
    /\ watch' = Running(watch)
    /\ started' = FALSE /\ startStop' = FALSE /\ paused' = FALSE
    /\ m_running' = TRUE
    /\ UNCHANGED <<paused_time, breaks>>

\* stopWatch: a pause.
StopWatch ==
    /\ watch' = Stopped(watch)
    /\ started' = FALSE /\ startStop' = TRUE /\ paused' = TRUE
    /\ paused_time' = Append(paused_time, watch.at)
    /\ breaks' = breaks + 1
    /\ UNCHANGED m_running

\* Once the pauses are used up the button only (re)starts the watch.
NoPauseLeft == Len(paused_time) >= PauseLimit

\* The Start/Pause/Resume button.
StartPauseTap ==
    /\ Tappable /\ Len(finished) < MaxSessions
    /\ \/ NoPauseLeft /\ StartWatch
       \/ /\ ~NoPauseLeft /\ method_selected # "none"
          /\ \/ startStop /\ StartWatch
             \/ ~startStop /\ StopWatch
    /\ UNCHANGED <<mounted, method_selected, listVars, weekly_read, models,
                   netVars, serverRows, worked, finished>>

\* stopWatch_finish, behind a Finish that has something to finish.
StopWatchFinish ==
    /\ Tappable /\ ~started
    /\ started' = TRUE /\ startStop' = TRUE /\ paused' = FALSE
    /\ m_running' = FALSE
    /\ UNCHANGED <<mounted, method_selected, method_time, weekly_read, models,
                   strays, calls, loaderVars, overlapped, left, serverRows>>

\* Finish: the session is added to method_data, everything is reset, and the
\* last of method_data is posted.  (The variant does not reset the watch.)
KeepWatch == Stopped(watch)
ResetWatch == Cleared(Stopped(watch))
FinishTap ==
    /\ StopWatchFinish
    /\ LET n == Len(finished) + 1
           data == [id |-> n, pauses |-> Len(paused_time), total |-> watch.at]
       IN /\ method_data' = Append(method_data, data)
          /\ finished' = Append(finished, [id |-> n, pauses |-> breaks,
                                           total |-> worked % Minute])
    /\ posts' = posts \cup {method_data'[Len(method_data')]}
    /\ watch' = ResetWatch /\ paused_time' = <<>>
    /\ worked' = 0 /\ breaks' = 0

\* For a method of the user's own a colour and a shade are drawn, and shade 0
\* does not exist: `method_color!` throws, between the watch and the row.
FinishFails ==
    /\ StopWatchFinish /\ method_selected = "own"
    /\ watch' = Stopped(watch)
    /\ UNCHANGED <<paused_time, method_data, posts, worked, breaks, finished>>

\* A second passes.
Pass ==
    /\ mounted /\ watch.run
    /\ watch' = Advanced(watch)
    /\ worked < MaxSeconds /\ worked' = worked + 1
    /\ UNCHANGED <<mounted, started, startStop, paused, paused_time,
                   method_selected, listVars, weekly_read, m_running, models,
                   netVars, serverRows, breaks, finished>>
-----------------------------------------------------------------------------
\* The server may have kept a post unless its answer says that it did not.
Kept(r, row) ==
    serverRows' \in CASE r = "ok" -> {Append(serverRows, row)}
                       [] r = "error" -> {serverRows}
                       [] OTHER -> {serverRows, Append(serverRows, row)}

\* method_time.clear().  (The variant forgets it.)
NotCleared == method_time
EmptyRows == <<>>

\* The post is not repeated.  (The variant repeats it until it gets a 200.)
RepeatedUntilOk(row, r) == IF r = "ok" THEN posts \ {row} ELSE posts
PostedOnce(row, r) == posts \ {row}

\* m_method_post_API returns, whatever the server says; only an exception ends
\* the chain.  Then the refresh begins.
PostReply(row, r) ==
    /\ row \in posts /\ posts' = PostedOnce(row, r)
    /\ Kept(r, row)
    /\ IF r = "dropped"
         THEN UNCHANGED <<method_time, calls, loaderVars, overlapped>>
         ELSE /\ method_time' = EmptyRows
              /\ Begin("life") /\ ShowLoader /\ Overlap
    /\ UNCHANGED <<mounted, timing, method_selected, method_data, weekly_read,
                   m_running, models, strays, left, historyVars>>

StrayReply(row, r) ==
    /\ row \in strays /\ strays' = strays \ {row}
    /\ Kept(r, row)
    /\ UNCHANGED <<stateVars, m_running, models, posts, calls, loaderVars,
                   overlapped, left, historyVars>>

\* Delete or rename a row, in the pop-up a long press opens.
ChangeTap(c) ==
    /\ Tappable /\ method_time # <<>>
    /\ Begin(c) /\ ShowLoader
    /\ UNCHANGED <<stateVars, m_running, models, posts, strays, overlapped,
                   left, serverRows, historyVars>>

\* The change may have been made unless the answer says no; which row it was is
\* left open, and it may be gone already.
Changed(c, r) ==
    \/ UNCHANGED serverRows
    \/ /\ c = "delete" /\ r # "error"
       /\ \E i \in DOMAIN serverRows : serverRows' = RemoveAt(serverRows, i)

\* The answer to a delete or a rename.  The model of the last one that was a
\* 200 decides whether the day's list is read again; without any, or after an
\* exception, the handler is over.
ChangeReply(c, r, hides) ==
    /\ calls[c] > 0 /\ hides \in HideOutcomes
    /\ Changed(c, r)
    /\ models' = [models EXCEPT ![c] = IF r \in {"ok", "error"} THEN r ELSE @]
    /\ IF r \in {"ok", "error"} /\ hides
         THEN left' = left ELSE left' = left + 1
    /\ LET goesOn == /\ r # "dropped" /\ (r \in {"ok", "error"} => hides)
                     /\ models'[c] = "ok"
       IN \/ /\ goesOn /\ method_time' = EmptyRows
             /\ Continue(c, "reread") /\ Overlap
             /\ loaders' = loaders + (IF r = "ok" THEN 0 ELSE 1)
             /\ contexts' = TRUE
          \/ /\ ~goesOn /\ End(c)
             /\ IF r = "error" /\ hides THEN HideLoader(1)
                  ELSE UNCHANGED loaderVars
             /\ UNCHANGED <<method_time, overlapped>>
    /\ UNCHANGED <<mounted, timing, method_selected, method_data, weekly_read,
                   m_running, posts, strays, historyVars>>

\* Where a refresh goes on.
NextCall(c) ==
    CASE c = "life" -> "daily" [] c = "daily" -> "weekly" [] OTHER -> "none"

\* hideLoader, on the statuses that have a branch.  (The variant forgets the
\* branch of a reported error.)
Handled == {"ok", "error", "refused"}
HidesOnSuccess(r) == r = "ok"
Hides(r) == r \in Handled

\* A get goes on after an answer, also after an exception of http, which it
\* catches, but not after one of hideLoader or a null check: a 401 or 422 shows
\* a message out of the weekly model, whatever was asked for.
Returns(r, hides) ==
    CASE r \in {"ok", "error"} -> hides
      [] r = "refused" -> hides /\ weekly_read
      [] OTHER -> TRUE

\* One of the four gets answers: hideLoader, the rows, the next get.
GetReply(c, r, hides) ==
    /\ c \notin Change /\ calls[c] > 0 /\ hides \in HideOutcomes
    /\ weekly_read' = (weekly_read \/ (c = "weekly" /\ r \in {"ok", "error"}))
    /\ left' = IF r \in Handled /\ hides THEN left ELSE left + 1
    /\ method_time' = IF c \in {"daily", "reread"} /\ r = "ok" /\ hides
                        THEN method_time \o serverRows ELSE method_time
    /\ IF NextCall(c) = "none" \/ ~Returns(r, hides)
         THEN /\ End(c)
              /\ IF Hides(r) /\ hides THEN HideLoader(1)
                   ELSE UNCHANGED loaderVars
              /\ UNCHANGED overlapped
         ELSE /\ Continue(c, NextCall(c)) /\ Overlap
              /\ loaders' = IF Hides(r) THEN loaders ELSE loaders + 1
              /\ contexts' = TRUE
    /\ UNCHANGED <<mounted, timing, method_selected, method_data, m_running,
                   models, posts, strays, serverRows, historyVars>>

\* The process is killed and started again.
Relaunch ==
    /\ NoScreen
    /\ m_running' = FALSE /\ models' = NoModels
    /\ calls' = NoCalls /\ left' = 0
    /\ loaders' = 0 /\ contexts' = FALSE

User == Enter \/ BackArrow \/ Swipe \/ SystemBack \/ SelectMethod
            \/ StartPauseTap \/ FinishTap \/ FinishFails
            \/ \E c \in Change : ChangeTap(c)
Network ==
    \/ \E row \in Row, r \in {"ok", "error", "unhandled", "dropped"} :
          PostReply(row, r) \/ StrayReply(row, r)
    \/ \E c \in Change, r \in {"ok", "error", "unhandled", "dropped"},
          hides \in BOOLEAN : ChangeReply(c, r, hides)
    \/ \E c \in Call, r \in Handled \cup {"unhandled", "dropped"},
          hides \in BOOLEAN : GetReply(c, r, hides)

Next == User \/ Pass \/ Network \/ Relaunch

Spec == Init /\ [][Next]_vars
-----------------------------------------------------------------------------
(***************************************************************************)
(* Properties.                                                             *)
(***************************************************************************)
\* A row on the server tells the pauses and the seconds (modulo the display's
\* hour) of its session, and of the sessions before it whose Finish threw: what
\* was measured since the row before it.  Both are read after the watch was
\* stopped and reset by other handlers, and the post may arrive when the next
\* session is running (2343-2387, 4281-4329).
RowsAreTrue ==
    \A i \in DOMAIN serverRows : serverRows[i] = finished[serverRows[i].id]

\* No session is on the server twice, whichever answers were lost.
RecordedOnce ==
    \A i, j \in DOMAIN serverRows :
        i # j => serverRows[i].id # serverRows[j].id

\* A refresh clears the list when it begins and appends when its answer comes.
\* Two refreshes at a time list rows twice; without that no row ever is.
RowsDistinct ==
    \/ overlapped
    \/ \A i, j \in DOMAIN method_time :
           i # j => method_time[i].id # method_time[j].id

\* Every loader is that of a call that is out, or its call had an answer that
\* takes none down.
LoaderBalance ==
    loaders = left + calls["life"] + calls["daily"] + calls["weekly"]
                + calls["reread"] + calls["delete"] + calls["edit"]

\* A running watch can be stopped: the buttons offer it, and swiping away from
\* it is refused.
RunningIsShown == watch.run => mounted /\ ~started /\ ~startStop /\ m_running

\* The device and the server keep a log of the sessions: see SessionLog.  What
\* was measured since the last row is posted once, as it was timed; a Finish that
\* throws posts nothing and keeps what was measured for the next; a lost answer
\* is settled for good, a post that outlives its screen included; a delete takes
\* one row, which never comes back (m_screen_metal.dart 2343-2387;
\* m_screen_controller.dart 30-104, 308-344).
Log == INSTANCE SessionLog WITH
    Hour <- Minute, MaxDone <- MaxSessions,
    measured <- [pauses |-> breaks, seconds |-> worked], done <- finished,
    onTheWay <- posts \cup strays, recorded <- serverRows
LogSpec == Log!Spec
=============================================================================
