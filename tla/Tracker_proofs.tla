---------------------------- MODULE Tracker_proofs ----------------------------
(***************************************************************************)
(* Proofs about Tracker, for any number of pauses, sessions and seconds,   *)
(* and any hour of the display.                                            *)
(*                                                                         *)
(* The inductive invariant is in four parts: what the screen shows and     *)
(* times (Timed, Shown), the rows made of sessions (Sessions), where these *)
(* rows are (Ledger), and the calls with their loaders and the list they   *)
(* fill (Net, Listed).  From it follows each step of SessionLog as well.   *)
(***************************************************************************)
EXTENDS Tracker, SequenceTheorems, TLAPS

\* The pauses and the seconds shown are those measured since the last row.
Timed ==
    /\ watch \in Stopwatch
    /\ paused_time \in Seq(0..(Minute - 1))
    /\ Len(paused_time) <= PauseLimit /\ breaks = Len(paused_time)
    /\ worked \in Nat /\ watch.at = worked % Minute

Shown ==
    /\ mounted \in BOOLEAN /\ started \in BOOLEAN /\ startStop \in BOOLEAN
    /\ paused \in BOOLEAN /\ method_selected \in Method \cup {"none"}
    /\ m_running \in BOOLEAN /\ weekly_read \in BOOLEAN
    /\ RunningIsShown

Sessions ==
    /\ finished \in Seq(Row) /\ method_data \in Seq(Row)
    /\ Len(finished) <= MaxSessions
    /\ ~started => Len(finished) < MaxSessions
    /\ \A i \in 1..Len(finished) : finished[i].id = i

\* A row is that of a session that was finished.
OfSession(row) == row.id \in 1..Len(finished) /\ row = finished[row.id]

\* A row is with one post on its way, or on the server once, or nowhere.
Ledger ==
    /\ serverRows \in Seq(Row)
    /\ \A row \in posts \cup strays : OfSession(row)
    /\ \A i \in 1..Len(serverRows) :
          OfSession(serverRows[i]) /\ serverRows[i] \notin posts \cup strays
    /\ posts \cap strays = {}
    /\ \A i, j \in 1..Len(serverRows) : i # j => serverRows[i] # serverRows[j]

Net ==
    /\ calls \in [Call -> Nat] /\ left \in Nat /\ contexts \in BOOLEAN
    /\ models \in [Change -> {"null", "ok", "error"}]
    /\ LoaderBalance
    /\ ~mounted => posts = {} /\ \A c \in Call : calls[c] = 0

\* The list is empty from the beginning of a refresh until its answer, unless
\* another has overlapped it.
Distinct(rows) ==
    \A i, j \in 1..Len(rows) : i # j => rows[i] # rows[j]

Listed ==
    /\ method_time \in Seq(Row) /\ overlapped \in BOOLEAN
    /\ \A i \in 1..Len(method_time) : OfSession(method_time[i])
    /\ ~mounted => method_time = <<>>
    /\ \/ overlapped
       \/ /\ Refreshing(calls) <= 1
          /\ Refreshing(calls) = 1 => method_time = <<>>
          /\ Distinct(method_time)

IInv == Timed /\ Shown /\ Sessions /\ Ledger /\ Net /\ Listed
-----------------------------------------------------------------------------
\* The display wraps where % does.
LEMMA NextSecond ==
    ASSUME NEW w \in Nat
    PROVE  /\ w % Minute \in 0..(Minute - 1)
           /\ (w + 1) % Minute
                  = IF (w % Minute) + 1 = Minute THEN 0 ELSE (w % Minute) + 1
           /\ 0 % Minute = 0
<1>1. Minute \in Nat \ {0}
  BY MinuteAssumption DEF MinuteAssumption
<1> DEFINE q == w \div Minute
           r == w % Minute
<1>2. q \in Nat /\ r \in 0..(Minute - 1) /\ w = Minute * q + r
  BY <1>1
<1>3. \A n, k \in Nat, x \in 0..(Minute - 1) : n = Minute * k + x => n % Minute = x
  BY <1>1
<1> HIDE DEF q, r
<1>4. CASE r + 1 = Minute
  <2>1. w + 1 = Minute * (q + 1) + 0
    BY <1>1, <1>2, <1>4
  <2> DEFINE n == w + 1
             k == q + 1
  <2>2. n \in Nat /\ k \in Nat /\ 0 \in 0..(Minute - 1) /\ n = Minute * k + 0
    BY <1>1, <1>2, <2>1
  <2> HIDE DEF n, k
  <2>3. n % Minute = 0
    BY <1>3, <2>2
  <2> QED
    BY <1>1, <1>2, <1>4, <2>3 DEF n, r
<1>5. CASE r + 1 # Minute
  <2> DEFINE n == w + 1
             x == r + 1
  <2>1. n \in Nat /\ x \in 0..(Minute - 1) /\ n = Minute * q + x
    BY <1>1, <1>2, <1>5
  <2> HIDE DEF n, x
  <2>2. n % Minute = x
    BY <1>2, <1>3, <2>1
  <2> QED
    BY <1>1, <1>2, <1>5, <2>2 DEF n, x, r
<1> QED
  BY <1>4, <1>5

LEMMA Constants ==
    /\ Minute \in Nat /\ Minute >= 1
    /\ PauseLimit \in Nat /\ MaxSessions \in Nat
    /\ Zero \in Stopwatch /\ Zero.at = 0 /\ Zero.run = FALSE
  BY MinuteAssumption, TrackerAssumption
     DEF MinuteAssumption, TrackerAssumption, Zero, Stopwatch

\* What the screen's own actions do to the watch and its buttons.
LEMMA NoScreenTimes ==
    ASSUME IInv, NoScreen, m_running' \in BOOLEAN
    PROVE  Timed' /\ Shown' /\ Sessions'
<1>1. Timed'
  <2>1. 0 % Minute = 0
    BY NextSecond
  <2>2. <<>> \in Seq(0..(Minute - 1)) /\ Len(<<>>) = 0
    BY EmptySeq
  <2> QED
    BY <2>1, <2>2, Constants DEF NoScreen, Timed
<1>2. Shown'
  BY Constants DEF NoScreen, Shown, RunningIsShown
<1>3. Sessions'
  BY EmptySeq DEF IInv, NoScreen, Sessions
<1> QED
  BY <1>1, <1>2, <1>3

LEMMA StartPauseTimes ==
    ASSUME IInv, StartPauseTap
    PROVE  Timed' /\ Shown' /\ Sessions'
<1>1. Timed /\ Shown /\ Sessions /\ mounted
  BY DEF IInv, StartPauseTap, Tappable
<1>2. UNCHANGED <<mounted, method_selected, method_data, weekly_read, worked,
                  finished>>
      /\ Len(finished) < MaxSessions
  BY DEF StartPauseTap, listVars
<1>3. CASE StartWatch
  <2>1. /\ watch' = [run |-> TRUE, at |-> watch.at]
        /\ started' = FALSE /\ startStop' = FALSE /\ paused' = FALSE
        /\ m_running' = TRUE
        /\ UNCHANGED <<paused_time, breaks>>
    BY <1>3 DEF StartWatch, Running
  <2>2. watch' \in Stopwatch /\ watch'.at = watch.at
    BY <1>1, <2>1 DEF Timed, Stopwatch
  <2>3. Timed'
    BY <1>1, <1>2, <2>1, <2>2 DEF Timed
  <2>4. Shown'
    BY <1>1, <1>2, <2>1 DEF Shown, RunningIsShown
  <2>5. Sessions'
    BY <1>1, <1>2 DEF Sessions
  <2> QED
    BY <2>3, <2>4, <2>5
<1>4. CASE ~NoPauseLeft /\ StopWatch
  <2>1. /\ watch' = [run |-> FALSE, at |-> watch.at]
        /\ started' = FALSE /\ startStop' = TRUE /\ paused' = TRUE
        /\ paused_time' = Append(paused_time, watch.at)
        /\ breaks' = breaks + 1 /\ m_running' = m_running
        /\ ~(Len(paused_time) >= PauseLimit)
    BY <1>4 DEF StopWatch, Stopped, NoPauseLeft
  <2>2. /\ watch' \in Stopwatch /\ watch'.at = watch.at /\ watch'.run = FALSE
        /\ watch.at \in 0..(Minute - 1)
    BY <1>1, <2>1 DEF Timed, Stopwatch
  <2>3. paused_time' \in Seq(0..(Minute - 1)) /\ Len(paused_time') = Len(paused_time) + 1
    BY <1>1, <2>1, <2>2, AppendProperties DEF Timed
  <2>4. Timed'
    BY <1>1, <1>2, <2>1, <2>2, <2>3, Constants DEF Timed
  <2>5. Shown'
    BY <1>1, <1>2, <2>1, <2>2 DEF Shown, RunningIsShown
  <2>6. Sessions'
    BY <1>1, <1>2 DEF Sessions
  <2> QED
    BY <2>4, <2>5, <2>6
<1> QED
  BY <1>3, <1>4 DEF StartPauseTap

\* The row of a session that is finished is of its type and new.
LEMMA FinishTimes ==
    ASSUME IInv, FinishTap
    PROVE  /\ Timed' /\ Shown' /\ Sessions'
           /\ \E row \in Row : /\ row.id = Len(finished) + 1
                               /\ row = [id |-> Len(finished) + 1, pauses |-> breaks,
                                         total |-> worked % Minute]
                               /\ finished' = Append(finished, row)
                               /\ posts' = posts \cup {row}
<1>1. Timed /\ Shown /\ Sessions /\ mounted /\ ~started
  BY DEF IInv, FinishTap, StopWatchFinish, Tappable
<1> DEFINE n == Len(finished) + 1
           data == [id |-> n, pauses |-> Len(paused_time), total |-> watch.at]
<1>2. /\ method_data' = Append(method_data, data)
      /\ finished' = Append(finished, [id |-> n, pauses |-> breaks,
                                       total |-> worked % Minute])
      /\ posts' = posts \cup {method_data'[Len(method_data')]}
      /\ watch' = [run |-> FALSE, at |-> 0] /\ paused_time' = <<>>
      /\ started' = TRUE /\ startStop' = TRUE /\ paused' = FALSE
      /\ m_running' = FALSE /\ worked' = 0 /\ breaks' = 0
      /\ UNCHANGED <<mounted, method_selected, weekly_read>>
  BY DEF FinishTap, StopWatchFinish, ResetWatch, Cleared, Stopped
<1>3. Len(finished) \in Nat /\ Len(finished) < MaxSessions /\ n \in 1..MaxSessions
  BY <1>1, Constants DEF Sessions
<1>4. data \in Row /\ data = [id |-> n, pauses |-> breaks, total |-> worked % Minute]
  <2>1. watch.at \in 0..(Minute - 1) /\ Len(paused_time) \in 0..PauseLimit
    BY <1>1, Constants DEF Timed, Stopwatch
  <2> QED
    BY <1>1, <1>3, <2>1 DEF Timed, Row
<1> HIDE DEF data
<1>5. /\ method_data' \in Seq(Row)
      /\ Len(method_data') = Len(method_data) + 1
      /\ method_data'[Len(method_data) + 1] = data
  BY <1>1, <1>2, <1>4, AppendProperties DEF Sessions
<1>6. /\ finished' = Append(finished, data) /\ finished' \in Seq(Row)
      /\ Len(finished') = n /\ finished'[n] = data
      /\ \A i \in 1..Len(finished) : finished'[i] = finished[i]
  BY <1>1, <1>2, <1>4, AppendProperties DEF Sessions
<1>7. Timed'
  <2>1. 0 % Minute = 0
    BY NextSecond
  <2>2. <<>> \in Seq(0..(Minute - 1)) /\ Len(<<>>) = 0
    BY EmptySeq
  <2>3. watch' \in Stopwatch /\ watch'.at = 0
    BY <1>2, Constants DEF Stopwatch
  <2> QED
    BY <1>2, <2>1, <2>2, <2>3, Constants DEF Timed
<1>8. Shown'
  BY <1>1, <1>2 DEF Shown, RunningIsShown
<1>9. Sessions'
  <2>1. Len(finished') <= MaxSessions
    BY <1>3, <1>6
  <2>2. \A i \in 1..Len(finished') : finished'[i].id = i
    <3>1. data.id = n
      BY DEF data
    <3>2. \A i \in 1..n : i = n \/ i \in 1..Len(finished)
      BY <1>3
    <3> QED
      BY <1>1, <1>6, <3>1, <3>2 DEF Sessions
  <2> QED
    BY <1>2, <1>5, <1>6, <2>1, <2>2 DEF Sessions
<1>10. posts' = posts \cup {data} /\ data.id = Len(finished) + 1
  <2>1. posts' = posts \cup {data}
    BY <1>2, <1>5
  <2> QED
    BY <2>1 DEF data
<1> QED
  BY <1>4, <1>6, <1>7, <1>8, <1>9, <1>10

\* A Finish that throws stops the watch and keeps what was measured.
LEMMA FinishFailsTimes ==
    ASSUME IInv, FinishFails
    PROVE  Timed' /\ Shown' /\ Sessions'
<1>1. Timed /\ Shown /\ Sessions /\ mounted /\ ~started
  BY DEF IInv, FinishFails, StopWatchFinish, Tappable
<1>2. /\ watch' = [run |-> FALSE, at |-> watch.at]
      /\ started' = TRUE /\ startStop' = TRUE /\ paused' = FALSE
      /\ m_running' = FALSE
      /\ UNCHANGED <<mounted, method_selected, weekly_read, paused_time,
                     method_data, worked, breaks, finished>>
  BY DEF FinishFails, StopWatchFinish, Stopped
<1>3. watch' \in Stopwatch /\ watch'.at = watch.at /\ watch'.run = FALSE
  BY <1>1, <1>2 DEF Timed, Stopwatch
<1>4. Timed'
  BY <1>1, <1>2, <1>3, Constants DEF Timed
<1>5. Shown'
  BY <1>1, <1>2, <1>3 DEF Shown, RunningIsShown
<1>6. Sessions'
  BY <1>1, <1>2 DEF Sessions
<1> QED
  BY <1>4, <1>5, <1>6

LEMMA PassTimes ==
    ASSUME IInv, Pass
    PROVE  Timed' /\ Shown' /\ Sessions'
<1>1. Timed /\ Shown /\ Sessions /\ mounted /\ watch.run
  BY DEF IInv, Pass
<1>2. /\ watch' = [run |-> TRUE, at |-> IF watch.at + 1 = Minute THEN 0
                                        ELSE watch.at + 1]
      /\ worked' = worked + 1
      /\ UNCHANGED <<mounted, started, startStop, paused, paused_time,
                     method_selected, method_data, weekly_read, m_running, breaks,
                     finished>>
  BY <1>1 DEF Pass, Advanced, listVars
<1>3. watch' \in Stopwatch /\ watch'.at = worked' % Minute
  <2>1. watch.at = worked % Minute /\ worked \in Nat
    BY <1>1 DEF Timed
  <2>2. /\ worked % Minute \in 0..(Minute - 1)
        /\ (worked + 1) % Minute
               = IF (worked % Minute) + 1 = Minute THEN 0 ELSE (worked % Minute) + 1
    BY <2>1, NextSecond
  <2> DEFINE a == IF watch.at + 1 = Minute THEN 0 ELSE watch.at + 1
  <2>3. a \in 0..(Minute - 1)
    BY <2>1, <2>2, Constants
  <2>4. a = (worked + 1) % Minute
    BY <2>1, <2>2
  <2> HIDE DEF a
  <2>5. watch' = [run |-> TRUE, at |-> a]
    BY <1>2 DEF a
  <2> QED
    BY <1>2, <2>3, <2>4, <2>5 DEF Stopwatch
<1>4. Timed'
  BY <1>1, <1>2, <1>3 DEF Timed
<1>5. Shown'
  BY <1>1, <1>2 DEF Shown, RunningIsShown
<1>6. Sessions'
  BY <1>1, <1>2 DEF Sessions
<1> QED
  BY <1>4, <1>5, <1>6

\* The steps that leave the watch and the sessions alone.
LEMMA KeepTimes ==
    ASSUME IInv,
           UNCHANGED <<timing, method_data, m_running, historyVars>>,
           mounted' \in BOOLEAN, mounted => mounted',
           method_selected' \in Method \cup {"none"}, weekly_read' \in BOOLEAN
    PROVE  Timed' /\ Shown' /\ Sessions'
<1>1. Timed /\ Shown /\ Sessions
  BY DEF IInv
<1>2. UNCHANGED <<watch, started, startStop, paused, paused_time, m_running,
                  worked, breaks, finished, method_data>>
  BY DEF timing, historyVars
<1>3. Timed'
  BY <1>1, <1>2 DEF Timed
<1>4. Shown'
  BY <1>1, <1>2 DEF Shown, RunningIsShown
<1>5. Sessions'
  BY <1>1, <1>2 DEF Sessions
<1> QED
  BY <1>3, <1>4, <1>5

LEMMA NetworkTimes ==
    ASSUME IInv, Enter \/ SelectMethod \/ Network \/ \E c \in Change : ChangeTap(c)
    PROVE  Timed' /\ Shown' /\ Sessions'
<1>1. /\ mounted \in BOOLEAN /\ weekly_read \in BOOLEAN
      /\ method_selected \in Method \cup {"none"}
  BY DEF IInv, Shown
<1>2. CASE Enter
  BY <1>1, <1>2, KeepTimes DEF Enter, listVars
<1>3. CASE SelectMethod
  BY <1>1, <1>3, KeepTimes DEF SelectMethod, listVars
<1>4. CASE \E c \in Change : ChangeTap(c)
  <2>1. UNCHANGED <<stateVars, m_running, historyVars>>
    BY <1>4 DEF ChangeTap
  <2> QED
    BY <1>1, <2>1, KeepTimes DEF stateVars, listVars
<1>5. CASE \E row \in Row, r \in {"ok", "error", "unhandled", "dropped"} :
                PostReply(row, r)
  BY <1>1, <1>5, KeepTimes DEF PostReply
<1>6. CASE \E row \in Row, r \in {"ok", "error", "unhandled", "dropped"} :
                StrayReply(row, r)
  <2>1. UNCHANGED <<stateVars, m_running, historyVars>>
    BY <1>6 DEF StrayReply
  <2> QED
    BY <1>1, <2>1, KeepTimes DEF stateVars, listVars
<1>7. CASE \E c \in Change, r \in {"ok", "error", "unhandled", "dropped"},
              hides \in BOOLEAN : ChangeReply(c, r, hides)
  BY <1>1, <1>7, KeepTimes DEF ChangeReply
<1>8. CASE \E c \in Call, r \in Handled \cup {"unhandled", "dropped"},
              hides \in BOOLEAN : GetReply(c, r, hides)
  <2>1. PICK c \in Call, r \in Handled \cup {"unhandled", "dropped"},
             hides \in BOOLEAN : GetReply(c, r, hides)
    BY <1>8
  <2>2. weekly_read' \in BOOLEAN
    BY <1>1, <2>1 DEF GetReply
  <2> QED
    BY <1>1, <2>1, <2>2, KeepTimes DEF GetReply
<1> QED
  BY <1>2, <1>3, <1>4, <1>5, <1>6, <1>7, <1>8 DEF Network
-----------------------------------------------------------------------------
\* A row keeps its session while sessions are only added.
LEMMA LedgerKept ==
    ASSUME Ledger, UNCHANGED <<finished, serverRows>>,
           posts' \cup strays' \subseteq posts \cup strays, posts' \cap strays' = {}
    PROVE  Ledger'
  BY DEF Ledger, OfSession

LEMMA NoScreenLedger ==
    ASSUME IInv, NoScreen
    PROVE  Ledger'
<1>1. /\ UNCHANGED <<finished, serverRows>>
      /\ posts' = {} /\ strays' = strays \cup posts
  BY DEF NoScreen
<1> QED
  BY <1>1, LedgerKept DEF IInv

LEMMA FinishLedger ==
    ASSUME IInv, FinishTap
    PROVE  Ledger'
<1>1. PICK row \in Row : /\ row.id = Len(finished) + 1
                         /\ finished' = Append(finished, row)
                         /\ posts' = posts \cup {row}
  BY FinishTimes
<1>2. UNCHANGED <<strays, serverRows>>
  BY DEF FinishTap, StopWatchFinish
<1>3. Ledger /\ finished \in Seq(Row) /\ Len(finished) \in Nat
  BY DEF IInv, Sessions
<1>4. /\ Len(finished') = Len(finished) + 1
      /\ finished'[Len(finished) + 1] = row
      /\ \A i \in 1..Len(finished) : finished'[i] = finished[i]
  BY <1>1, <1>3, AppendProperties
<1>5. ASSUME NEW r, OfSession(r)
      PROVE  OfSession(r)' /\ r # row
  <2>1. r.id \in 1..Len(finished) /\ r = finished[r.id]
    BY <1>5 DEF OfSession
  <2>2. r.id \in 1..(Len(finished) + 1) /\ r.id # row.id
    BY <1>1, <1>3, <2>1
  <2> QED
    BY <1>4, <2>1, <2>2 DEF OfSession
<1>6. OfSession(row)'
  BY <1>1, <1>3, <1>4 DEF OfSession
<1>7. \A r \in posts' \cup strays' : OfSession(r)'
  BY <1>1, <1>2, <1>3, <1>5, <1>6 DEF Ledger
<1>8. \A i \in 1..Len(serverRows) :
          OfSession(serverRows[i])' /\ serverRows[i] \notin posts' \cup strays'
  BY <1>1, <1>2, <1>3, <1>5 DEF Ledger
<1>9. posts' \cap strays' = {}
  BY <1>1, <1>2, <1>3, <1>5 DEF Ledger
<1>10. \A i \in 1..Len(serverRows') :
          OfSession(serverRows[i])' /\ serverRows'[i] \notin posts' \cup strays'
  BY <1>2, <1>8
<1> QED
  BY <1>2, <1>3, <1>7, <1>9, <1>10 DEF Ledger

\* A post that is answered is on the server or lost.
LEMMA AnswerLedger ==
    ASSUME IInv, NEW row \in posts \cup strays,
           posts' = posts \ {row}, strays' = strays \ {row},
           serverRows' \in {serverRows, Append(serverRows, row)}, finished' = finished
    PROVE  Ledger'
<1>1. Ledger /\ OfSession(row) /\ finished \in Seq(Row) /\ row \in Row
  BY DEF IInv, Ledger, Sessions, OfSession
<1>2. CASE serverRows' = serverRows
  BY <1>1, <1>2, LedgerKept DEF Ledger
<1>3. CASE serverRows' = Append(serverRows, row)
  <2> DEFINE l == Len(serverRows)
  <2>1. serverRows \in Seq(Row) /\ l \in Nat
    BY <1>1 DEF Ledger
  <2>2. /\ serverRows' \in Seq(Row) /\ Len(serverRows') = l + 1
        /\ serverRows'[l + 1] = row
        /\ \A i \in 1..l : serverRows'[i] = serverRows[i]
    BY <1>1, <1>3, <2>1, AppendProperties
  <2>3. /\ \A i \in 1..l : /\ OfSession(serverRows[i])
                           /\ serverRows[i] \notin posts \cup strays
        /\ \A i, j \in 1..l : i # j => serverRows[i] # serverRows[j]
        /\ \A r \in posts \cup strays : OfSession(r)
        /\ posts \cap strays = {}
    BY <1>1 DEF Ledger
  <2> HIDE DEF l
  <2>4. \A i \in 1..(l + 1) : i = l + 1 \/ i \in 1..l
    BY <2>1
  <2>5. \A i \in 1..(l + 1) : /\ OfSession(serverRows'[i])
                              /\ serverRows'[i] \notin posts' \cup strays'
    BY <1>1, <2>2, <2>3, <2>4
  <2>6. \A i, j \in 1..(l + 1) : i # j => serverRows'[i] # serverRows'[j]
    <3>1. \A i \in 1..l : serverRows[i] # row
      BY <2>3
    <3> QED
      BY <2>2, <2>3, <2>4, <3>1
  <2> QED
    BY <2>2, <2>3, <2>5, <2>6 DEF Ledger, OfSession
<1> QED
  BY <1>2, <1>3

\* A row less leaves the others where they are, or one place further down.
LEMMA RowRemoved ==
    ASSUME NEW S, NEW rows \in Seq(S), NEW k \in 1..Len(rows)
    PROVE  /\ RemoveAt(rows, k) \in Seq(S)
           /\ Len(RemoveAt(rows, k)) = Len(rows) - 1
           /\ \A i \in 1..(Len(rows) - 1) :
                 RemoveAt(rows, k)[i] = IF i < k THEN rows[i] ELSE rows[i + 1]
<1> DEFINE l == Len(rows)
           a == SubSeq(rows, 1, k - 1)
           b == SubSeq(rows, k + 1, l)
<1>1. l \in Nat /\ k \in 1..l
  OBVIOUS
<1>2. /\ a \in Seq(S) /\ Len(a) = k - 1
      /\ \A i \in 1..(k - 1) : a[i] = rows[i]
  BY <1>1, SubSeqProperties
<1>3. /\ b \in Seq(S) /\ Len(b) = l - k
      /\ \A i \in 1..(l - k) : b[i] = rows[k + i]
  BY <1>1, SubSeqProperties
<1>4. /\ a \o b \in Seq(S) /\ Len(a \o b) = Len(a) + Len(b)
      /\ \A i \in 1..(Len(a) + Len(b)) :
            (a \o b)[i] = IF i <= Len(a) THEN a[i] ELSE b[i - Len(a)]
  BY <1>2, <1>3, ConcatProperties
<1>5. RemoveAt(rows, k) = a \o b
  BY DEF RemoveAt
<1> HIDE DEF a, b, l
<1>6. ASSUME NEW i \in 1..(l - 1)
      PROVE  (a \o b)[i] = IF i < k THEN rows[i] ELSE rows[i + 1]
  <2>1. i \in 1..(Len(a) + Len(b))
    BY <1>1, <1>2, <1>3
  <2>2. CASE i < k
    <3>1. i <= Len(a) /\ i \in 1..(k - 1)
      BY <1>1, <1>2, <2>2
    <3> QED
      BY <1>2, <1>4, <2>1, <2>2, <3>1
  <2>3. CASE ~(i < k)
    <3>1. ~(i <= Len(a)) /\ i - Len(a) \in 1..(l - k) /\ k + (i - Len(a)) = i + 1
      BY <1>1, <1>2, <2>3
    <3> QED
      BY <1>3, <1>4, <2>1, <2>3, <3>1
  <2> QED
    BY <2>2, <2>3
<1>7. Len(a) + Len(b) = l - 1
  BY <1>1, <1>2, <1>3
<1> QED
  BY <1>4, <1>5, <1>6, <1>7 DEF l

LEMMA DeleteLedger ==
    ASSUME IInv, NEW k \in DOMAIN serverRows, serverRows' = RemoveAt(serverRows, k),
           UNCHANGED <<posts, strays, finished>>
    PROVE  Ledger'
<1>1. Ledger /\ serverRows \in Seq(Row) /\ k \in 1..Len(serverRows)
  BY DEF IInv, Ledger
<1> DEFINE l == Len(serverRows)
           from(i) == IF i < k THEN i ELSE i + 1
<1>2. /\ l \in Nat /\ serverRows' \in Seq(Row) /\ Len(serverRows') = l - 1
      /\ \A i \in 1..(l - 1) :
            serverRows'[i] = IF i < k THEN serverRows[i] ELSE serverRows[i + 1]
  <2>1. /\ RemoveAt(serverRows, k) \in Seq(Row)
        /\ Len(RemoveAt(serverRows, k)) = Len(serverRows) - 1
        /\ \A i \in 1..(Len(serverRows) - 1) :
              RemoveAt(serverRows, k)[i] = IF i < k THEN serverRows[i]
                                                    ELSE serverRows[i + 1]
    BY <1>1, RowRemoved
  <2>2. l \in Nat
    BY <1>1
  <2> QED
    BY <2>1, <2>2, Zenon
<1>3. /\ \A i \in 1..l : /\ OfSession(serverRows[i])
                         /\ serverRows[i] \notin posts \cup strays
      /\ \A i, j \in 1..l : i # j => serverRows[i] # serverRows[j]
  BY <1>1 DEF Ledger
<1> HIDE DEF l
<1>4. \A i \in 1..(l - 1) : from(i) \in 1..l /\ serverRows'[i] = serverRows[from(i)]
  BY <1>1, <1>2 DEF l
<1>5. \A i, j \in 1..(l - 1) : i # j => from(i) # from(j)
  BY <1>1, <1>2 DEF l
<1> HIDE DEF from
<1>6. \A i \in 1..(l - 1) : /\ OfSession(serverRows'[i])
                            /\ serverRows'[i] \notin posts' \cup strays'
  BY <1>3, <1>4
<1>7. \A i, j \in 1..(l - 1) : i # j => serverRows'[i] # serverRows'[j]
  BY <1>3, <1>4, <1>5
<1> QED
  BY <1>1, <1>2, <1>6, <1>7 DEF Ledger, OfSession

LEMMA KeptIsOneOf ==
    ASSUME NEW r \in {"ok", "error", "unhandled", "dropped"}, NEW row, Kept(r, row)
    PROVE  serverRows' \in {serverRows, Append(serverRows, row)}
  BY DEF Kept

LEMMA PostLedger ==
    ASSUME IInv, NEW row, NEW r \in {"ok", "error", "unhandled", "dropped"},
           PostReply(row, r) \/ StrayReply(row, r)
    PROVE  Ledger'
<1>1. /\ serverRows' \in {serverRows, Append(serverRows, row)}
      /\ finished' = finished
  BY KeptIsOneOf DEF PostReply, StrayReply, historyVars
<1>2. posts \cap strays = {}
  BY DEF IInv, Ledger
<1>3. row \in posts \cup strays /\ posts' = posts \ {row} /\ strays' = strays \ {row}
  BY <1>2 DEF PostReply, StrayReply, PostedOnce
<1> QED
  BY <1>1, <1>3, AnswerLedger

LEMMA ChangeLedger ==
    ASSUME IInv, NEW c, NEW r, NEW hides, ChangeReply(c, r, hides)
    PROVE  Ledger'
<1>1. UNCHANGED <<posts, strays, finished>> /\ Changed(c, r)
  BY DEF ChangeReply, historyVars
<1>2. CASE UNCHANGED serverRows
  <2>1. posts \cap strays = {} /\ Ledger
    BY DEF IInv, Ledger
  <2> QED
    BY <1>1, <1>2, <2>1, LedgerKept
<1>3. CASE \E k \in DOMAIN serverRows : serverRows' = RemoveAt(serverRows, k)
  BY <1>1, <1>3, DeleteLedger
<1> QED
  BY <1>1, <1>2, <1>3 DEF Changed

LEMMA OtherLedger ==
    ASSUME IInv, UNCHANGED <<posts, strays, serverRows, finished>>
    PROVE  Ledger'
<1>1. posts \cap strays = {} /\ Ledger
  BY DEF IInv, Ledger
<1> QED
  BY <1>1, LedgerKept
-----------------------------------------------------------------------------
\* The loaders that calls have up.
Loading(cs) == cs["life"] + cs["daily"] + cs["weekly"] + cs["reread"]
               + cs["delete"] + cs["edit"]
Fills(c) == IF c \in {"life", "daily", "reread"} THEN 1 ELSE 0

LEMMA CallBegins ==
    ASSUME calls \in [Call -> Nat], NEW c \in Call, Begin(c)
    PROVE  /\ calls' \in [Call -> Nat] /\ Loading(calls') = Loading(calls) + 1
           /\ Refreshing(calls') = Refreshing(calls) + Fills(c)
           /\ Loading(calls) \in Nat /\ Refreshing(calls) \in Nat
<1>1. Call = {"life", "daily", "weekly", "reread", "delete", "edit"}
  BY DEF Call, Change
<1>2. calls' \in [Call -> Nat]
  BY DEF Begin
<1>3. \A d \in Call : calls[d] \in Nat /\ calls'[d] = IF d = c THEN calls[d] + 1
                                                              ELSE calls[d]
  BY DEF Begin
<1>4. Loading(calls') = Loading(calls) + 1
  BY <1>1, <1>3 DEF Loading
<1>5. Refreshing(calls') = Refreshing(calls) + Fills(c)
  BY <1>1, <1>3 DEF Refreshing, Fills
<1>6. Loading(calls) \in Nat /\ Refreshing(calls) \in Nat
  BY <1>1, <1>3 DEF Loading, Refreshing
<1> QED
  BY <1>2, <1>4, <1>5, <1>6

LEMMA CallEnds ==
    ASSUME calls \in [Call -> Nat], NEW c \in Call, calls[c] > 0, End(c)
    PROVE  /\ calls' \in [Call -> Nat] /\ Loading(calls') = Loading(calls) - 1
           /\ Refreshing(calls') = Refreshing(calls) - Fills(c)
           /\ Loading(calls) \in Nat /\ Refreshing(calls) \in Nat
           /\ Loading(calls) >= 1 /\ Refreshing(calls) >= Fills(c)
<1>1. Call = {"life", "daily", "weekly", "reread", "delete", "edit"}
  BY DEF Call, Change
<1>2. calls' \in [Call -> Nat]
  BY DEF End
<1>3. \A d \in Call : calls[d] \in Nat /\ calls'[d] = IF d = c THEN calls[d] - 1
                                                              ELSE calls[d]
  BY DEF End
<1>4. Loading(calls') = Loading(calls) - 1 /\ Loading(calls) >= 1
  BY <1>1, <1>3 DEF Loading
<1>5. /\ Refreshing(calls') = Refreshing(calls) - Fills(c)
      /\ Refreshing(calls) >= Fills(c)
  BY <1>1, <1>3 DEF Refreshing, Fills
<1>6. Loading(calls) \in Nat /\ Refreshing(calls) \in Nat
  BY <1>1, <1>3 DEF Loading, Refreshing
<1> QED
  BY <1>2, <1>4, <1>5, <1>6

LEMMA CallContinues ==
    ASSUME calls \in [Call -> Nat], NEW c \in Call, NEW d \in Call, c # d,
           calls[c] > 0, Continue(c, d)
    PROVE  /\ calls' \in [Call -> Nat] /\ Loading(calls') = Loading(calls)
           /\ Refreshing(calls') = Refreshing(calls) - Fills(c) + Fills(d)
           /\ Loading(calls) \in Nat /\ Refreshing(calls) \in Nat
           /\ Loading(calls) >= 1 /\ Refreshing(calls) >= Fills(c)
<1>1. Call = {"life", "daily", "weekly", "reread", "delete", "edit"}
  BY DEF Call, Change
<1>2. calls' \in [Call -> Nat]
  BY DEF Continue
<1>3. \A e \in Call : calls[e] \in Nat /\ calls'[e] = IF e = c THEN calls[e] - 1
                                              ELSE IF e = d THEN calls[e] + 1
                                              ELSE calls[e]
  BY DEF Continue
<1>4. Loading(calls') = Loading(calls) /\ Loading(calls) >= 1
  <2> DEFINE mid == [calls EXCEPT ![c] = @ - 1]
  <2>1. \A e \in Call : mid[e] = IF e = c THEN calls[e] - 1 ELSE calls[e]
    OBVIOUS
  <2>2. \A e \in Call : calls'[e] = IF e = d THEN mid[e] + 1 ELSE mid[e]
    BY <1>3, <2>1
  <2>3. \A e \in Call : mid[e] \in Nat
    BY <1>3, <2>1
  <2> HIDE DEF mid
  <2>4. Loading(mid) = Loading(calls) - 1 /\ Loading(calls) >= 1
    BY <1>1, <1>3, <2>1 DEF Loading
  <2>5. Loading(calls') = Loading(mid) + 1
    BY <1>1, <2>2, <2>3 DEF Loading
  <2>6. Loading(mid) \in Nat /\ Loading(calls) \in Nat
    BY <1>1, <1>3, <2>3 DEF Loading
  <2> QED
    BY <2>4, <2>5, <2>6
<1>5. /\ Refreshing(calls') = Refreshing(calls) - Fills(c) + Fills(d)
      /\ Refreshing(calls) >= Fills(c)
  BY <1>1, <1>3 DEF Refreshing, Fills
<1>6. Loading(calls) \in Nat /\ Refreshing(calls) \in Nat
  BY <1>1, <1>3 DEF Loading, Refreshing
<1> QED
  BY <1>2, <1>4, <1>5, <1>6

\* Without a loader there is no call.
LEMMA NoLoaderNoCall ==
    ASSUME Net, loaders = 0
    PROVE  left = 0 /\ \A c \in Call : calls[c] = 0
<1>1. Call = {"life", "daily", "weekly", "reread", "delete", "edit"}
  BY DEF Call, Change
<1>2. /\ left \in Nat
      /\ calls["life"] \in Nat /\ calls["daily"] \in Nat /\ calls["weekly"] \in Nat
      /\ calls["reread"] \in Nat /\ calls["delete"] \in Nat /\ calls["edit"] \in Nat
  BY <1>1 DEF Net
<1>3. left + calls["life"] + calls["daily"] + calls["weekly"]
           + calls["reread"] + calls["delete"] + calls["edit"] = 0
  BY DEF Net, LoaderBalance
<1> DEFINE a1 == calls["life"]
           a2 == calls["daily"]
           a3 == calls["weekly"]
           a4 == calls["reread"]
           a5 == calls["delete"]
           a6 == calls["edit"]
<1>4. /\ left \in Nat /\ a1 \in Nat /\ a2 \in Nat /\ a3 \in Nat
      /\ a4 \in Nat /\ a5 \in Nat /\ a6 \in Nat
      /\ left + a1 + a2 + a3 + a4 + a5 + a6 = 0
  BY <1>2, <1>3
<1> HIDE DEF a1, a2, a3, a4, a5, a6
<1>5. /\ left = 0 /\ a1 = 0 /\ a2 = 0 /\ a3 = 0 /\ a4 = 0 /\ a5 = 0 /\ a6 = 0
  BY <1>4
<1> QED
  BY <1>1, <1>5 DEF a1, a2, a3, a4, a5, a6

LEMMA QuietCalls ==
    ASSUME calls \in [Call -> Nat], \A c \in Call : calls[c] = 0
    PROVE  Refreshing(calls) = 0 /\ Loading(calls) = 0
  BY DEF Refreshing, Loading, Call, Change

LEMMA Balanced ==
    ASSUME calls \in [Call -> Nat], left \in Nat
    PROVE  LoaderBalance <=> loaders = left + Loading(calls)
<1>1. /\ calls["life"] \in Nat /\ calls["daily"] \in Nat /\ calls["weekly"] \in Nat
      /\ calls["reread"] \in Nat /\ calls["delete"] \in Nat /\ calls["edit"] \in Nat
  BY DEF Call, Change
<1> QED
  BY <1>1 DEF LoaderBalance, Loading

LEMMA BalancedNext ==
    ASSUME calls' \in [Call -> Nat], left' \in Nat, loaders' = left' + Loading(calls')
    PROVE  LoaderBalance'
<1>1. /\ calls'["life"] \in Nat /\ calls'["daily"] \in Nat /\ calls'["weekly"] \in Nat
      /\ calls'["reread"] \in Nat /\ calls'["delete"] \in Nat /\ calls'["edit"] \in Nat
  BY DEF Call, Change
<1> QED
  BY <1>1 DEF LoaderBalance, Loading

\* What is known before a step.
LEMMA NetFacts ==
    ASSUME Net
    PROVE  /\ calls \in [Call -> Nat] /\ left \in Nat /\ contexts \in BOOLEAN
           /\ loaders = left + Loading(calls)
           /\ Loading(calls) \in Nat /\ Refreshing(calls) \in Nat
           /\ loaders \in Nat
<1>1. calls \in [Call -> Nat] /\ left \in Nat /\ contexts \in BOOLEAN
  BY DEF Net
<1>2. /\ calls["life"] \in Nat /\ calls["daily"] \in Nat /\ calls["weekly"] \in Nat
      /\ calls["reread"] \in Nat /\ calls["delete"] \in Nat /\ calls["edit"] \in Nat
  BY <1>1 DEF Call, Change
<1>3. Loading(calls) \in Nat /\ Refreshing(calls) \in Nat
  BY <1>2 DEF Loading, Refreshing
<1>4. loaders = left + Loading(calls)
  BY <1>1, Balanced DEF Net
<1> QED
  BY <1>1, <1>3, <1>4

\* A step that fills no list.
LEMMA ListedKept ==
    ASSUME Listed, finished' = finished, method_time' \in {method_time, <<>>},
           mounted' \/ method_time' = <<>>,
           overlapped' \in BOOLEAN,
           overlapped' \/ ~overlapped \/ method_time' = <<>>,
           overlapped' \/ (/\ Refreshing(calls') <= 1
                           /\ Refreshing(calls') = 1 => method_time' = <<>>)
    PROVE  Listed'
<1>1. method_time' \in Seq(Row)
  BY EmptySeq DEF Listed
<1>2. (\A i \in 1..Len(method_time) : OfSession(method_time[i]))'
  <2>1. CASE method_time' = method_time
    BY <2>1 DEF Listed, OfSession
  <2>2. CASE method_time' = <<>>
    BY <2>2, EmptySeq
  <2> QED
    BY <2>1, <2>2
<1>3. overlapped' \/ Distinct(method_time')
  <2>1. CASE method_time' = method_time
    BY <2>1, EmptySeq DEF Listed, Distinct
  <2>2. CASE method_time' = <<>>
    BY <2>2, EmptySeq DEF Distinct
  <2> QED
    BY <2>1, <2>2
<1> QED
  BY <1>1, <1>2, <1>3 DEF Listed

LEMMA EnterNet ==
    ASSUME IInv, Enter
    PROVE  Net' /\ Listed'
<1>1. Net /\ Listed /\ ~mounted /\ mounted' = TRUE
  BY DEF IInv, Enter
<1>2. /\ Begin("life") /\ loaders' = loaders + 1 /\ contexts' = TRUE
      /\ overlapped' = (overlapped \/ Refreshing(calls') > 1)
      /\ UNCHANGED <<method_time, models, left, finished>>
  BY DEF Enter, ShowLoader, Overlap, listVars, historyVars
<1>3. /\ calls' \in [Call -> Nat] /\ Loading(calls') = Loading(calls) + 1
      /\ Refreshing(calls') = Refreshing(calls) + 1 /\ Refreshing(calls) \in Nat
  BY <1>1, <1>2, CallBegins, NetFacts DEF Fills, Call
<1>4. Net'
  <2>1. loaders' = left' + Loading(calls')
    BY <1>1, <1>2, <1>3, NetFacts
  <2>2. left' \in Nat
    BY <1>1, <1>2 DEF Net
  <2> QED
    BY <1>1, <1>2, <1>3, <2>1, <2>2, BalancedNext DEF Net
<1>5. method_time = <<>>
  BY <1>1 DEF Listed
<1>6. overlapped' \in BOOLEAN /\ (overlapped => overlapped')
  BY <1>1, <1>2 DEF Listed
<1>7. overlapped' \/ Refreshing(calls') <= 1
  <2>1. Refreshing(calls') > 1 => overlapped'
    BY <1>2
  <2>2. Refreshing(calls') > 1 \/ Refreshing(calls') <= 1
    BY <1>3
  <2> QED
    BY <2>1, <2>2
<1> QED
  BY <1>1, <1>2, <1>4, <1>5, <1>6, <1>7, ListedKept

LEMMA NoScreenNet ==
    ASSUME IInv, NoScreen, models' \in [Change -> {"null", "ok", "error"}],
           \/ Tappable /\ UNCHANGED <<calls, loaderVars, left>>
           \/ calls' = NoCalls /\ left' = 0 /\ loaders' = 0 /\ contexts' = FALSE
    PROVE  Net' /\ Listed'
<1>1. Net /\ Listed
  BY DEF IInv
<1>2. /\ mounted' = FALSE /\ method_time' = <<>> /\ overlapped' = FALSE
      /\ posts' = {} /\ finished' = finished
  BY DEF NoScreen
<1>3. /\ calls' \in [Call -> Nat] /\ \A c \in Call : calls'[c] = 0
      /\ left' = 0 /\ loaders' = 0 /\ contexts' \in BOOLEAN
  <2>1. CASE Tappable /\ UNCHANGED <<calls, loaderVars, left>>
    <3>1. loaders = 0 /\ left = 0 /\ \A c \in Call : calls[c] = 0
      BY <1>1, <2>1, NoLoaderNoCall DEF Tappable
    <3> QED
      BY <1>1, <2>1, <3>1 DEF loaderVars, Net
  <2>2. CASE calls' = NoCalls /\ left' = 0 /\ loaders' = 0 /\ contexts' = FALSE
    BY <2>2 DEF NoCalls
  <2> QED
    BY <2>1, <2>2
<1>4. Refreshing(calls') = 0 /\ Loading(calls') = 0
  BY <1>3 DEF Refreshing, Loading, Call, Change
<1>5. Net'
  BY <1>2, <1>3, <1>4, BalancedNext DEF Net
<1>6. /\ Refreshing(calls') <= 1
      /\ Refreshing(calls') = 1 => method_time' = <<>>
  BY <1>4
<1>7. /\ method_time' \in {method_time, <<>>} /\ overlapped' \in BOOLEAN
      /\ mounted' \/ method_time' = <<>>
      /\ overlapped' \/ ~overlapped \/ method_time' = <<>>
  BY <1>2
<1>8. Listed'
  BY <1>1, <1>2, <1>6, <1>7, ListedKept
<1> QED
  BY <1>5, <1>8

LEMMA ChangeTapNet ==
    ASSUME IInv, NEW c \in Change, ChangeTap(c)
    PROVE  Net' /\ Listed'
<1>1. Net /\ Listed /\ mounted
  BY DEF IInv, ChangeTap, Tappable
<1>2. /\ Begin(c) /\ loaders' = loaders + 1 /\ contexts' = TRUE
      /\ UNCHANGED <<mounted, method_time, models, posts, overlapped, left, finished>>
  BY DEF ChangeTap, ShowLoader, stateVars, listVars, historyVars
<1>3. c \in Call /\ Fills(c) = 0
  BY DEF Call, Change, Fills
<1>4. /\ calls' \in [Call -> Nat] /\ Loading(calls') = Loading(calls) + 1
      /\ Refreshing(calls') = Refreshing(calls) /\ Refreshing(calls) \in Nat
  BY <1>1, <1>2, <1>3, CallBegins, NetFacts
<1>5. Net'
  <2>1. loaders' = left' + Loading(calls')
    BY <1>1, <1>2, <1>4, NetFacts
  <2>2. left' \in Nat
    BY <1>1, <1>2 DEF Net
  <2> QED
    BY <1>1, <1>2, <1>4, <2>1, <2>2, BalancedNext DEF Net
<1>6. /\ overlapped' \in BOOLEAN
      /\ overlapped' \/ (/\ Refreshing(calls') <= 1
                         /\ Refreshing(calls') = 1 => method_time' = <<>>)
  BY <1>1, <1>2, <1>4 DEF Listed
<1> QED
  BY <1>1, <1>2, <1>5, <1>6, ListedKept

LEMMA PostNet ==
    ASSUME IInv, NEW row, NEW r, PostReply(row, r)
    PROVE  Net' /\ Listed'
<1>1. Net /\ Listed /\ mounted
  BY DEF IInv, Net, PostReply
<1>2. /\ UNCHANGED <<mounted, models, left, finished>>
      /\ \/ UNCHANGED <<method_time, calls, loaderVars, overlapped>>
         \/ /\ method_time' = <<>> /\ Begin("life")
            /\ loaders' = loaders + 1 /\ contexts' = TRUE
            /\ overlapped' = (overlapped \/ Refreshing(calls') > 1)
  BY DEF PostReply, EmptyRows, ShowLoader, Overlap, historyVars
<1>3. CASE UNCHANGED <<method_time, calls, loaderVars, overlapped>>
  <2>1. Net'
    BY <1>1, <1>2, <1>3 DEF Net, LoaderBalance, loaderVars
  <2>2. Listed'
    BY <1>1, <1>2, <1>3, ListedKept DEF Listed
  <2> QED
    BY <2>1, <2>2
<1>4. CASE /\ method_time' = <<>> /\ Begin("life")
           /\ loaders' = loaders + 1 /\ contexts' = TRUE
           /\ overlapped' = (overlapped \/ Refreshing(calls') > 1)
  <2>1. /\ calls' \in [Call -> Nat] /\ Loading(calls') = Loading(calls) + 1
        /\ Refreshing(calls') = Refreshing(calls) + 1 /\ Refreshing(calls) \in Nat
    BY <1>1, <1>4, CallBegins, NetFacts DEF Fills, Call
  <2>2. loaders' = left' + Loading(calls') /\ left' \in Nat
    BY <1>1, <1>2, <1>4, <2>1, NetFacts
  <2>3. Net'
    BY <1>1, <1>2, <1>4, <2>1, <2>2, BalancedNext DEF Net
  <2>4. overlapped' \in BOOLEAN
    BY <1>1, <1>4 DEF Listed
  <2>5. overlapped' \/ Refreshing(calls') <= 1
    <3>1. Refreshing(calls') > 1 => overlapped'
      BY <1>4
    <3>2. Refreshing(calls') > 1 \/ Refreshing(calls') <= 1
      BY <2>1
    <3> QED
      BY <3>1, <3>2
  <2> QED
    BY <1>1, <1>2, <1>4, <2>3, <2>4, <2>5, ListedKept
<1> QED
  BY <1>2, <1>3, <1>4

LEMMA ChangeReplyNet ==
    ASSUME IInv, NEW c \in Change, NEW r \in {"ok", "error", "unhandled", "dropped"},
           NEW hides \in BOOLEAN, ChangeReply(c, r, hides)
    PROVE  Net' /\ Listed'
<1> DEFINE h == r \in {"ok", "error"} /\ hides
           goesOn == /\ r # "dropped" /\ (r \in {"ok", "error"} => hides)
                     /\ models'[c] = "ok"
<1>1. /\ Net /\ Listed /\ c \in Call /\ Fills(c) = 0 /\ calls[c] > 0
      /\ "reread" \in Call /\ c # "reread" /\ Fills("reread") = 1
  BY DEF IInv, ChangeReply, Call, Change, Fills
<1>2. mounted
  BY <1>1 DEF Net
<1>3. /\ UNCHANGED <<mounted, posts, finished>>
      /\ left' = IF h THEN left ELSE left + 1
      /\ \/ /\ goesOn /\ method_time' = <<>>
            /\ Continue(c, "reread")
            /\ overlapped' = (overlapped \/ Refreshing(calls') > 1)
            /\ loaders' = loaders + (IF r = "ok" THEN 0 ELSE 1)
            /\ contexts' = TRUE
         \/ /\ ~goesOn /\ End(c)
            /\ \/ r = "error" /\ hides /\ loaders' = loaders - 1 /\ contexts' = FALSE
               \/ ~(r = "error" /\ hides) /\ UNCHANGED loaderVars
            /\ UNCHANGED <<method_time, overlapped>>
  BY DEF ChangeReply, EmptyRows, Overlap, HideLoader, historyVars
<1>4. models' \in [Change -> {"null", "ok", "error"}]
  BY <1>1 DEF Net, ChangeReply
<1>5. r = "ok" => models'[c] = "ok"
  BY <1>1 DEF Net, ChangeReply
<1>6. r = "error" => models'[c] = "error"
  BY <1>1 DEF Net, ChangeReply
<1>7. /\ left \in Nat /\ left' \in Nat /\ loaders \in Nat
      /\ loaders = left + Loading(calls)
  BY <1>1, <1>3, NetFacts
<1>8. CASE /\ goesOn /\ method_time' = <<>>
           /\ Continue(c, "reread")
           /\ overlapped' = (overlapped \/ Refreshing(calls') > 1)
           /\ loaders' = loaders + (IF r = "ok" THEN 0 ELSE 1)
           /\ contexts' = TRUE
  <2>1. /\ calls' \in [Call -> Nat] /\ Loading(calls') = Loading(calls)
        /\ Refreshing(calls') \in Nat /\ Loading(calls) \in Nat
    BY <1>1, <1>8, CallContinues, NetFacts
  <2>2. r # "error" /\ (h <=> r = "ok")
    BY <1>6, <1>8
  <2>3. loaders' = left' + Loading(calls')
    BY <1>3, <1>7, <1>8, <2>1, <2>2
  <2>4. Net'
    BY <1>1, <1>2, <1>3, <1>4, <1>7, <1>8, <2>1, <2>3, BalancedNext DEF Net
  <2>5. overlapped' \in BOOLEAN
    BY <1>1, <1>8 DEF Listed
  <2>6. overlapped' \/ Refreshing(calls') <= 1
    <3>1. Refreshing(calls') > 1 => overlapped'
      BY <1>8
    <3>2. Refreshing(calls') > 1 \/ Refreshing(calls') <= 1
      BY <2>1
    <3> QED
      BY <3>1, <3>2
  <2>7. Listed'
    BY <1>1, <1>2, <1>3, <1>8, <2>5, <2>6, ListedKept
  <2> QED
    BY <2>4, <2>7
<1>9. CASE /\ ~goesOn /\ End(c)
           /\ \/ r = "error" /\ hides /\ loaders' = loaders - 1 /\ contexts' = FALSE
              \/ ~(r = "error" /\ hides) /\ UNCHANGED loaderVars
           /\ UNCHANGED <<method_time, overlapped>>
  <2>1. /\ calls' \in [Call -> Nat] /\ Loading(calls') = Loading(calls) - 1
        /\ Refreshing(calls') = Refreshing(calls) /\ Refreshing(calls) \in Nat
        /\ Loading(calls) \in Nat
    BY <1>1, <1>9, CallEnds, NetFacts
  <2>2. h <=> r = "error" /\ hides
    BY <1>5, <1>9
  <2>3. loaders' = left' + Loading(calls')
    BY <1>3, <1>7, <1>9, <2>1, <2>2 DEF loaderVars
  <2>4. contexts' \in BOOLEAN
    BY <1>1, <1>9 DEF Net, loaderVars
  <2>5. Net'
    BY <1>1, <1>2, <1>3, <1>4, <1>7, <2>1, <2>3, <2>4, BalancedNext DEF Net
  <2>6. Listed'
    <3>1. /\ overlapped' \in BOOLEAN
          /\ overlapped' \/ (/\ Refreshing(calls') <= 1
                             /\ Refreshing(calls') = 1 => method_time' = <<>>)
      BY <1>1, <1>9, <2>1 DEF Listed
    <3> QED
      BY <1>1, <1>2, <1>3, <1>9, <3>1, ListedKept
  <2> QED
    BY <2>5, <2>6
<1> QED
  BY <1>3, <1>8, <1>9

\* The answer to a get: its loader goes, or stays for good.
LEMMA GetReplyNet ==
    ASSUME IInv, NEW c \in Call, NEW r \in Handled \cup {"unhandled", "dropped"},
           NEW hides \in BOOLEAN, GetReply(c, r, hides)
    PROVE  Net' /\ Listed'
<1> DEFINE h == r \in Handled /\ hides
           fills == c \in {"daily", "reread"} /\ r = "ok" /\ hides
           over == NextCall(c) = "none" \/ ~Returns(r, hides)
<1>1. /\ Net /\ Listed /\ Ledger /\ calls[c] > 0
      /\ c \in {"life", "daily", "weekly", "reread"}
  BY DEF IInv, GetReply, Call
<1>2. mounted
  BY <1>1 DEF Net
<1>3. /\ UNCHANGED <<mounted, posts, models, finished, serverRows>>
      /\ left' = IF h THEN left ELSE left + 1
      /\ method_time' = IF fills THEN method_time \o serverRows ELSE method_time
      /\ \/ /\ over /\ End(c)
            /\ \/ h /\ loaders' = loaders - 1 /\ contexts' = FALSE
               \/ ~h /\ UNCHANGED loaderVars
            /\ overlapped' = overlapped
         \/ /\ ~over /\ Continue(c, NextCall(c))
            /\ overlapped' = (overlapped \/ Refreshing(calls') > 1)
            /\ loaders' = IF r \in Handled THEN loaders ELSE loaders + 1
            /\ contexts' = TRUE
  BY DEF GetReply, Hides, Overlap, HideLoader, historyVars
<1>4. /\ left \in Nat /\ left' \in Nat /\ loaders \in Nat
      /\ loaders = left + Loading(calls)
      /\ Refreshing(calls) \in Nat /\ Loading(calls) \in Nat
  BY <1>1, <1>3, NetFacts
<1>5. /\ calls' \in [Call -> Nat] /\ loaders' = left' + Loading(calls')
      /\ contexts' \in BOOLEAN
      /\ Refreshing(calls') \in Nat
      /\ Refreshing(calls) >= Fills(c)
      /\ c = "weekly" => Refreshing(calls') = Refreshing(calls)
      /\ c \in {"daily", "reread"} => Refreshing(calls') = Refreshing(calls) - 1
      /\ Refreshing(calls') <= Refreshing(calls)
      /\ overlapped' \in BOOLEAN /\ (overlapped => overlapped')
  <2>1. CASE /\ over /\ End(c)
             /\ \/ h /\ loaders' = loaders - 1 /\ contexts' = FALSE
                \/ ~h /\ UNCHANGED loaderVars
             /\ overlapped' = overlapped
    <3>1. /\ calls' \in [Call -> Nat] /\ Loading(calls') = Loading(calls) - 1
          /\ Refreshing(calls') = Refreshing(calls) - Fills(c)
          /\ Refreshing(calls) >= Fills(c)
      BY <1>1, <1>4, <2>1, CallEnds, NetFacts
    <3>2. loaders' = left' + Loading(calls')
      BY <1>3, <1>4, <2>1, <3>1 DEF loaderVars
    <3>3. contexts' \in BOOLEAN /\ overlapped' \in BOOLEAN /\ (overlapped => overlapped')
      BY <1>1, <2>1 DEF Net, Listed, loaderVars
    <3>4. /\ c = "weekly" => Fills(c) = 0
          /\ c \in {"daily", "reread"} => Fills(c) = 1
          /\ Fills(c) \in Nat
      BY DEF Fills
    <3> QED
      BY <1>4, <3>1, <3>2, <3>3, <3>4
  <2>2. CASE /\ ~over /\ Continue(c, NextCall(c))
             /\ overlapped' = (overlapped \/ Refreshing(calls') > 1)
             /\ loaders' = IF r \in Handled THEN loaders ELSE loaders + 1
             /\ contexts' = TRUE
    <3>1. \/ c = "life" /\ NextCall(c) = "daily"
          \/ c = "daily" /\ NextCall(c) = "weekly"
      BY <1>1, <2>2 DEF NextCall
    <3>2. NextCall(c) \in Call /\ NextCall(c) # c
      BY <3>1 DEF Call
    <3>3. /\ calls' \in [Call -> Nat] /\ Loading(calls') = Loading(calls)
          /\ Refreshing(calls') = Refreshing(calls) - Fills(c) + Fills(NextCall(c))
          /\ Refreshing(calls) >= Fills(c)
      BY <1>1, <1>4, <2>2, <3>2, CallContinues, NetFacts
    <3>4. r \in Handled <=> h
      BY <2>2 DEF Returns, Handled
    <3>5. loaders' = left' + Loading(calls')
      BY <1>3, <1>4, <2>2, <3>3, <3>4
    <3>6. overlapped' \in BOOLEAN /\ (overlapped => overlapped')
      BY <1>1, <2>2 DEF Listed
    <3>7. \/ c = "life" /\ Fills(c) = 1 /\ Fills(NextCall(c)) = 1
          \/ c = "daily" /\ Fills(c) = 1 /\ Fills(NextCall(c)) = 0
      BY <3>1 DEF Fills
    <3> QED
      BY <1>4, <2>2, <3>3, <3>5, <3>6, <3>7
  <2> QED
    BY <1>3, <2>1, <2>2
<1>6. Net'
  BY <1>1, <1>2, <1>3, <1>4, <1>5, BalancedNext DEF Net
<1>7. CASE ~fills
  <2>1. method_time' = method_time
    BY <1>3, <1>7
  <2>2. overlapped' \/ (/\ Refreshing(calls') <= 1
                        /\ Refreshing(calls') = 1 => method_time' = <<>>)
    <3>1. CASE overlapped
      BY <1>5, <3>1
    <3>2. CASE ~overlapped
      <4>1. /\ Refreshing(calls) <= 1
            /\ Refreshing(calls) = 1 => method_time = <<>>
        BY <1>1, <3>2 DEF Listed
      <4>2. /\ Refreshing(calls') <= 1
            /\ Refreshing(calls') = 1 => Refreshing(calls) = 1
        BY <1>4, <1>5, <4>1
      <4> QED
        BY <2>1, <4>1, <4>2
    <3> QED
      BY <3>1, <3>2
  <2>3. Listed'
    BY <1>1, <1>2, <1>3, <1>5, <2>1, <2>2, ListedKept
  <2> QED
    BY <1>6, <2>3
<1>8. CASE fills
  <2> DEFINE rows == method_time \o serverRows
  <2>1. method_time \in Seq(Row) /\ serverRows \in Seq(Row) /\ method_time' = rows
    BY <1>1, <1>3, <1>8 DEF Listed, Ledger
  <2>2. /\ rows \in Seq(Row) /\ Len(rows) = Len(method_time) + Len(serverRows)
        /\ \A i \in 1..(Len(method_time) + Len(serverRows)) :
              rows[i] = IF i <= Len(method_time) THEN method_time[i]
                        ELSE serverRows[i - Len(method_time)]
    BY <2>1, ConcatProperties
  <2>3. \A i \in 1..Len(rows) : OfSession(rows[i])
    <3> DEFINE m == Len(method_time)
               k == Len(serverRows)
    <3>1. m \in Nat /\ k \in Nat
      BY <2>1
    <3>2. /\ \A i \in 1..m : OfSession(method_time[i])
          /\ \A i \in 1..k : OfSession(serverRows[i])
      BY <1>1 DEF Listed, Ledger
    <3>3. /\ Len(rows) = m + k
          /\ \A i \in 1..(m + k) : rows[i] = IF i <= m THEN method_time[i]
                                             ELSE serverRows[i - m]
      BY <2>2
    <3> HIDE DEF m, k, rows
    <3>4. ASSUME NEW i \in 1..(m + k)
          PROVE  OfSession(rows[i])
      <4>1. i \in 1..m \/ (~(i <= m) /\ i - m \in 1..k)
        BY <3>1
      <4>2. i \in 1..m => i <= m
        BY <3>1
      <4> QED
        BY <3>2, <3>3, <4>1, <4>2
    <3> QED
      BY <3>3, <3>4
  <2>4. overlapped' \/ (/\ Refreshing(calls') = 0
                        /\ Distinct(rows))
    <3>1. CASE overlapped
      BY <1>5, <3>1
    <3>2. CASE ~overlapped
      <4>1. Refreshing(calls) <= 1 /\ (Refreshing(calls) = 1 => method_time = <<>>)
        BY <1>1, <3>2 DEF Listed
      <4>2. Refreshing(calls) = 1 /\ Refreshing(calls') = 0
        BY <1>4, <1>5, <1>8, <4>1
      <4>3. rows = serverRows
        BY <2>1, <4>1, <4>2, ConcatEmptySeq
      <4>4. Distinct(serverRows)
        BY <1>1 DEF Ledger, Distinct
      <4> QED
        BY <4>2, <4>3, <4>4
    <3> QED
      BY <3>1, <3>2
  <2> HIDE DEF rows
  <2>5. (\A i \in 1..Len(method_time) : OfSession(method_time[i]))'
    BY <1>3, <2>1, <2>3 DEF OfSession
  <2>6. \/ overlapped'
        \/ /\ Refreshing(calls') <= 1
           /\ Refreshing(calls') = 1 => method_time' = <<>>
           /\ Distinct(method_time')
    BY <2>1, <2>4
  <2>7. method_time' \in Seq(Row)
    BY <2>1, <2>2
  <2>8. Listed'
    BY <1>2, <1>3, <1>5, <2>5, <2>6, <2>7 DEF Listed, Distinct
  <2> QED
    BY <1>6, <2>8
<1> QED
  BY <1>7, <1>8

\* The steps that concern neither calls nor list.
LEMMA OtherNet ==
    ASSUME IInv, UNCHANGED <<mounted, calls, loaderVars, left, models, method_time, overlapped>>,
           mounted \/ posts' = posts,
           \/ finished' = finished
           \/ FinishTap
    PROVE  Net' /\ Listed'
<1>1. Net /\ Listed
  BY DEF IInv
<1>2. Net'
  BY <1>1 DEF Net, LoaderBalance, loaderVars
<1>3. \A row : OfSession(row) => OfSession(row)'
  <2>1. CASE finished' = finished
    BY <2>1 DEF OfSession
  <2>2. CASE FinishTap
    <3>1. PICK row \in Row : finished' = Append(finished, row)
      BY <2>2, FinishTimes
    <3>2. finished \in Seq(Row) /\ Len(finished) \in Nat
      BY DEF IInv, Sessions
    <3>3. /\ Len(finished') = Len(finished) + 1
          /\ \A i \in 1..Len(finished) : finished'[i] = finished[i]
      BY <3>1, <3>2, AppendProperties
    <3>4. \A i \in 1..Len(finished) : i \in 1..(Len(finished) + 1)
      BY <3>2
    <3> QED
      BY <3>3, <3>4 DEF OfSession
  <2> QED
    BY <2>1, <2>2
<1>4. (\A i \in 1..Len(method_time) : OfSession(method_time[i]))'
  BY <1>1, <1>3 DEF Listed
<1> QED
  BY <1>1, <1>2, <1>4 DEF Listed
-----------------------------------------------------------------------------
LEMMA Initially == Init => IInv
<1> SUFFICES ASSUME Init PROVE IInv
  OBVIOUS
<1>1. Timed
  <2>1. 0 % Minute = 0
    BY NextSecond
  <2>2. <<>> \in Seq(0..(Minute - 1)) /\ Len(<<>>) = 0
    BY EmptySeq
  <2> QED
    BY <2>1, <2>2, Constants DEF Init, Timed
<1>2. Shown
  BY Constants DEF Init, Shown, RunningIsShown
<1>3. Sessions
  <2>1. /\ <<>> \in Seq(Row) /\ Len(<<>>) = 0
        /\ finished = <<>> /\ method_data = <<>> /\ started
    BY EmptySeq DEF Init
  <2>2. 0 <= MaxSessions /\ \A i \in 1..0 : FALSE
    BY Constants
  <2> QED
    BY <2>1, <2>2 DEF Sessions
<1>4. Ledger
  <2>1. /\ serverRows = <<>> /\ posts = {} /\ strays = {}
        /\ <<>> \in Seq(Row) /\ Len(<<>>) = 0
    BY EmptySeq DEF Init
  <2>2. \A i \in 1..0 : FALSE
    OBVIOUS
  <2> QED
    BY <2>1, <2>2 DEF Ledger
<1>5. Net
  <2>1. calls \in [Call -> Nat] /\ \A c \in Call : calls[c] = 0
    BY DEF Init, NoCalls
  <2>2. Loading(calls) = 0
    BY <2>1, QuietCalls
  <2>3. LoaderBalance
    BY <2>1, <2>2, Balanced DEF Init
  <2> QED
    BY <2>1, <2>3 DEF Init, Net
<1>6. Listed
  <2>1. /\ method_time = <<>> /\ overlapped = FALSE /\ mounted = FALSE
        /\ <<>> \in Seq(Row) /\ Len(<<>>) = 0
    BY EmptySeq DEF Init
  <2>2. Refreshing(calls) = 0
    BY <1>5, QuietCalls DEF Net, Init, NoCalls
  <2>3. Refreshing(calls) <= 1 /\ Refreshing(calls) # 1 /\ \A i \in 1..0 : FALSE
    BY <2>2
  <2> QED
    BY <2>1, <2>3 DEF Listed, Distinct
<1> QED
  BY <1>1, <1>2, <1>3, <1>4, <1>5, <1>6 DEF IInv

LEMMA DisposeKeeps ==
    ASSUME IInv, Swipe \/ BackArrow \/ SystemBack \/ Relaunch
    PROVE  IInv'
<1>1. NoScreen
  BY DEF Swipe, BackArrow, SystemBack, Leave, Dispose, Relaunch
<1>2. m_running' \in BOOLEAN
  BY DEF Swipe, BackArrow, SystemBack, Leave, Relaunch, IInv, Shown
<1>3. models' \in [Change -> {"null", "ok", "error"}]
  BY DEF Swipe, BackArrow, SystemBack, Leave, Relaunch, NoModels, IInv, Net
<1>4. \/ Tappable /\ UNCHANGED <<calls, loaderVars, left>>
      \/ calls' = NoCalls /\ left' = 0 /\ loaders' = 0 /\ contexts' = FALSE
  BY DEF Swipe, BackArrow, SystemBack, Leave, Dispose, Relaunch
<1>5. Timed' /\ Shown' /\ Sessions'
  BY <1>1, <1>2, NoScreenTimes
<1>6. Ledger'
  BY <1>1, NoScreenLedger
<1>7. Net' /\ Listed'
  BY <1>1, <1>3, <1>4, NoScreenNet
<1> QED
  BY <1>5, <1>6, <1>7 DEF IInv

LEMMA ScreenKeeps ==
    ASSUME IInv, SelectMethod \/ StartPauseTap \/ FinishTap \/ FinishFails \/ Pass
    PROVE  IInv'
<1>1. Timed' /\ Shown' /\ Sessions'
  BY NetworkTimes, StartPauseTimes, FinishTimes, FinishFailsTimes, PassTimes
<1>2. Ledger'
  <2>1. CASE SelectMethod \/ StartPauseTap \/ Pass
    BY <2>1, OtherLedger DEF SelectMethod, StartPauseTap, Pass, netVars, historyVars
  <2>2. CASE FinishFails
    BY <2>2, OtherLedger DEF FinishFails, StopWatchFinish
  <2> QED
    BY <2>1, <2>2, FinishLedger
<1>3. Net' /\ Listed'
  <2>1. UNCHANGED <<mounted, calls, loaderVars, left, models, method_time, overlapped>>
    BY DEF SelectMethod, StartPauseTap, FinishTap, FinishFails, StopWatchFinish,
           Pass, netVars, listVars
  <2>2. mounted
    BY DEF SelectMethod, StartPauseTap, FinishTap, FinishFails, StopWatchFinish,
           Pass, Tappable
  <2>3. finished' = finished \/ FinishTap
    BY DEF SelectMethod, StartPauseTap, FinishFails, Pass, historyVars
  <2> QED
    BY <2>1, <2>2, <2>3, OtherNet
<1> QED
  BY <1>1, <1>2, <1>3 DEF IInv

LEMMA NetworkKeeps ==
    ASSUME IInv, Enter \/ Network \/ \E c \in Change : ChangeTap(c)
    PROVE  IInv'
<1>1. Timed' /\ Shown' /\ Sessions'
  BY NetworkTimes
<1>2. CASE Enter
  <2>1. UNCHANGED <<posts, strays, serverRows, finished>>
    BY <1>2 DEF Enter, historyVars
  <2> QED
    BY <1>1, <1>2, <2>1, EnterNet, OtherLedger DEF IInv
<1>3. CASE \E c \in Change : ChangeTap(c)
  <2>1. UNCHANGED <<posts, strays, serverRows, finished>>
    BY <1>3 DEF ChangeTap, historyVars
  <2> QED
    BY <1>1, <1>3, <2>1, ChangeTapNet, OtherLedger DEF IInv
<1>4. ASSUME NEW row \in Row, NEW r \in {"ok", "error", "unhandled", "dropped"},
             PostReply(row, r)
      PROVE  IInv'
  BY <1>1, <1>4, PostLedger, PostNet DEF IInv
<1>5. ASSUME NEW row \in Row, NEW r \in {"ok", "error", "unhandled", "dropped"},
             StrayReply(row, r)
      PROVE  IInv'
  <2>1. /\ UNCHANGED <<mounted, calls, loaderVars, left, models, method_time, overlapped>>
        /\ posts' = posts /\ finished' = finished
    BY <1>5 DEF StrayReply, stateVars, listVars, historyVars
  <2>2. Net' /\ Listed'
    BY <2>1, OtherNet
  <2> QED
    BY <1>1, <1>5, <2>2, PostLedger DEF IInv
<1>6. ASSUME NEW c \in Change, NEW r \in {"ok", "error", "unhandled", "dropped"},
             NEW hides \in BOOLEAN, ChangeReply(c, r, hides)
      PROVE  IInv'
  BY <1>1, <1>6, ChangeLedger, ChangeReplyNet DEF IInv
<1>7. ASSUME NEW c \in Call, NEW r \in Handled \cup {"unhandled", "dropped"},
             NEW hides \in BOOLEAN, GetReply(c, r, hides)
      PROVE  IInv'
  <2>1. UNCHANGED <<posts, strays, serverRows, finished>>
    BY <1>7 DEF GetReply, historyVars
  <2> QED
    BY <1>1, <1>7, <2>1, GetReplyNet, OtherLedger DEF IInv
<1> QED
  BY <1>2, <1>3, <1>4, <1>5, <1>6, <1>7 DEF Network

LEMMA Inductive == IInv /\ [Next]_vars => IInv'
<1> SUFFICES ASSUME IInv, [Next]_vars PROVE IInv'
  OBVIOUS
<1>1. CASE UNCHANGED vars
  <2>1. UNCHANGED <<mounted, watch, started, startStop, paused, paused_time,
                    method_selected, method_data, method_time, weekly_read,
                    m_running, models, posts, strays, calls, loaders, contexts,
                    overlapped, left, serverRows, worked, breaks,
                    finished>>
    BY <1>1 DEF vars, stateVars, timing, listVars, netVars, loaderVars, historyVars
  <2>2. Timed' /\ Shown' /\ Sessions'
    BY <2>1 DEF IInv, Timed, Shown, Sessions, RunningIsShown
  <2>3. Ledger'
    BY <2>1, OtherLedger
  <2>4. Net'
    BY <2>1 DEF IInv, Net, LoaderBalance
  <2>5. Listed'
    BY <2>1 DEF IInv, Listed, OfSession, Distinct
  <2> QED
    BY <2>2, <2>3, <2>4, <2>5 DEF IInv
<1>2. CASE Swipe \/ BackArrow \/ SystemBack \/ Relaunch
  BY <1>2, DisposeKeeps
<1>3. CASE SelectMethod \/ StartPauseTap \/ FinishTap \/ FinishFails \/ Pass
  BY <1>3, ScreenKeeps
<1>4. CASE Enter \/ Network \/ \E c \in Change : ChangeTap(c)
  BY <1>4, NetworkKeeps
<1> QED
  BY <1>1, <1>2, <1>3, <1>4 DEF Next, User

LEMMA Always == Spec => []IInv
<1> QED
  BY Initially, Inductive, PTL DEF Spec

-----------------------------------------------------------------------------
(***************************************************************************)
(* The sessions implement SessionLog.                                      *)
(***************************************************************************)
\* A post that is answered is settled.
LEMMA SettledStep ==
    ASSUME NEW row \in posts \cup strays,
           posts' = posts \ {row}, strays' = strays \ {row},
           serverRows' \in {serverRows, Append(serverRows, row)},
           UNCHANGED historyVars
    PROVE  Log!Next
<1>1. posts' \cup strays' = (posts \cup strays) \ {row}
  OBVIOUS
<1>2. UNCHANGED <<worked, breaks, finished>>
  BY DEF historyVars
<1>3. Log!Settle(row)
  BY <1>1, <1>2 DEF Log!Settle
<1> QED
  BY <1>3 DEF Log!Next

\* What is measured on the screen is what the log measures.
LEMMA MeasuredStep ==
    ASSUME UNCHANGED <<finished, serverRows>>,
           posts' \cup strays' = posts \cup strays,
           \/ UNCHANGED <<worked, breaks>>
           \/ worked' = worked + 1 /\ UNCHANGED breaks
           \/ breaks' = breaks + 1 /\ UNCHANGED worked
           \/ worked' = 0 /\ breaks' = 0
    PROVE  [Log!Next]_(Log!vars)
<1>1. CASE UNCHANGED <<worked, breaks>>
  BY <1>1 DEF Log!vars
<1>2. CASE \/ worked' = worked + 1 /\ UNCHANGED breaks
           \/ breaks' = breaks + 1 /\ UNCHANGED worked
  <2> DEFINE m == [pauses |-> breaks, seconds |-> worked]
  <2>1. m' \in {[m EXCEPT !.pauses = @ + 1], [m EXCEPT !.seconds = @ + 1]}
    BY <1>2
  <2> QED
    BY <2>1 DEF Log!Next, Log!Measure
<1>3. CASE worked' = 0 /\ breaks' = 0
  BY <1>3 DEF Log!Next, Log!GiveUp, Log!Nothing
<1> QED
  BY <1>1, <1>2, <1>3

LEMMA LogStep ==
    ASSUME IInv, Next
    PROVE  [Log!Next]_(Log!vars)
<1>2. CASE Swipe \/ BackArrow \/ SystemBack \/ Relaunch
  <2>1. NoScreen
    BY <1>2 DEF Swipe, BackArrow, SystemBack, Leave, Dispose, Relaunch
  <2> QED
    BY <2>1, MeasuredStep DEF NoScreen
<1>3. CASE FinishTap
  <2> DEFINE row == [id |-> Len(finished) + 1, pauses |-> breaks,
                     total |-> worked % Minute]
  <2>1. finished' = Append(finished, row) /\ posts' = posts \cup {row}
    BY <1>3, FinishTimes
  <2>2. UNCHANGED <<strays, serverRows>> /\ worked' = 0 /\ breaks' = 0
    BY <1>3 DEF FinishTap, StopWatchFinish
  <2>3. Len(finished) < MaxSessions
    BY <1>3 DEF IInv, Sessions, FinishTap, StopWatchFinish
  <2>4. posts' \cup strays' = (posts \cup strays) \cup {row}
    BY <2>1, <2>2
  <2>5. Log!Finish
    BY <2>1, <2>2, <2>3, <2>4 DEF Log!Finish, Log!Nothing
  <2> QED
    BY <2>5 DEF Log!Next
<1>4. ASSUME NEW row \in Row, NEW r \in {"ok", "error", "unhandled", "dropped"},
             PostReply(row, r) \/ StrayReply(row, r)
      PROVE  Log!Next
  <2>1. /\ serverRows' \in {serverRows, Append(serverRows, row)}
        /\ UNCHANGED historyVars
    BY <1>4, KeptIsOneOf DEF PostReply, StrayReply
  <2>2. posts \cap strays = {}
    BY DEF IInv, Ledger
  <2>3. /\ row \in posts \cup strays
        /\ posts' = posts \ {row} /\ strays' = strays \ {row}
    BY <1>4, <2>2 DEF PostReply, StrayReply, PostedOnce
  <2> QED
    BY <2>1, <2>3, SettledStep
<1>5. ASSUME NEW c \in Change, NEW r, NEW hides, ChangeReply(c, r, hides)
      PROVE  [Log!Next]_(Log!vars)
  <2>1. UNCHANGED <<posts, strays, worked, breaks, finished>> /\ Changed(c, r)
    BY <1>5 DEF ChangeReply, historyVars
  <2>2. CASE UNCHANGED serverRows
    BY <2>1, <2>2, MeasuredStep
  <2>3. ASSUME NEW k \in DOMAIN serverRows, serverRows' = RemoveAt(serverRows, k)
        PROVE  Log!Next
    <3>1. Log!Delete(k)
      BY <2>1, <2>3 DEF Log!Delete, Log!RemoveAt, RemoveAt
    <3> QED
      BY <2>1, <3>1 DEF Log!Next
  <2> QED
    BY <2>1, <2>2, <2>3 DEF Changed
<1>6. CASE \/ Enter \/ SelectMethod \/ FinishFails
           \/ \E c \in Change : ChangeTap(c)
           \/ \E c \in Call, r \in Handled \cup {"unhandled", "dropped"},
                 hides \in BOOLEAN : GetReply(c, r, hides)
  <2>1. UNCHANGED <<posts, strays, serverRows, worked, breaks, finished>>
    BY <1>6
    DEF Enter, SelectMethod, FinishFails, StopWatchFinish, ChangeTap, GetReply,
        netVars, historyVars
  <2> QED
    BY <2>1, MeasuredStep
<1>7. CASE StartPauseTap \/ Pass
  <2>1. UNCHANGED <<posts, strays, serverRows, finished>>
    BY <1>7 DEF StartPauseTap, Pass, netVars
  <2>2. \/ UNCHANGED <<worked, breaks>>
        \/ worked' = worked + 1 /\ UNCHANGED breaks
        \/ breaks' = breaks + 1 /\ UNCHANGED worked
    BY <1>7 DEF StartPauseTap, StartWatch, StopWatch, Pass
  <2> QED
    BY <2>1, <2>2, MeasuredStep
<1> QED
  BY <1>2, <1>3, <1>4, <1>5, <1>6, <1>7 DEF Next, User, Network
-----------------------------------------------------------------------------
\* The tracker's state is of its type (m_screen_metal.dart 2302-2458).
THEOREM TypeCorrect == Spec => []TypeOK
<1>1. ASSUME IInv PROVE TypeOK
  <2>1. \A row : OfSession(row) => row \in Row
    BY <1>1 DEF IInv, Sessions, OfSession
  <2>2. posts \subseteq Row /\ strays \subseteq Row
    BY <1>1, <2>1 DEF IInv, Ledger
  <2>3. breaks \in Nat
    BY <1>1 DEF IInv, Timed
  <2>4. LoaderTypeOK
    BY <1>1, NetFacts DEF IInv, LoaderTypeOK
  <2> QED
    BY <1>1, <2>2, <2>3, <2>4 DEF IInv, Timed, Shown, Sessions, Ledger, Net, Listed, TypeOK
<1> QED
  BY <1>1, Always, PTL

\* What the server keeps in a row is what was measured since the row before it:
\* the session's pauses and seconds, and those of the sessions before it whose
\* Finish threw (m_screen_metal.dart 2343-2387).
THEOREM RowsAreTrueHolds == Spec => []RowsAreTrue
<1>1. IInv => RowsAreTrue
  BY DEF IInv, Ledger, OfSession, RowsAreTrue
<1> QED
  BY <1>1, Always, PTL

\* No session is on the server twice, whichever answers were lost
\* (m_screen_controller.dart).
THEOREM RecordedOnceHolds == Spec => []RecordedOnce
<1>1. IInv => RecordedOnce
  BY DEF IInv, Ledger, OfSession, RecordedOnce
<1> QED
  BY <1>1, Always, PTL

\* The list shows no row twice, unless two refreshes were in flight together.
THEOREM RowsDistinctHolds == Spec => []RowsDistinct
<1>1. IInv => RowsDistinct
  BY DEF IInv, Listed, OfSession, Distinct, RowsDistinct
<1> QED
  BY <1>1, Always, PTL

\* The loaders are those of the calls that are out and of answers that take none
\* down.
THEOREM LoaderBalanceHolds == Spec => []LoaderBalance
<1>1. IInv => LoaderBalance
  BY DEF IInv, Net
<1> QED
  BY <1>1, Always, PTL

\* A running watch is shown as running, and the screen cannot be swiped away.
THEOREM RunningIsShownHolds == Spec => []RunningIsShown
<1>1. IInv => RunningIsShown
  BY DEF IInv, Shown
<1> QED
  BY <1>1, Always, PTL

\* What is measured is in the next row that is made, a Finish that throws leaves
\* it for that one; a row is posted once and recorded when its post is settled or
\* never, and only a delete takes it away, for good
\* (m_screen_metal.dart 2343-2387; m_screen_controller.dart 30-104, 308-344).
THEOREM LogImplemented == Spec => LogSpec
<1>1. Init => Log!Init
  BY DEF Init, Log!Init, Log!Nothing
<1>2. IInv /\ [Next]_vars => [Log!Next]_(Log!vars)
  <2>1. ASSUME UNCHANGED vars PROVE UNCHANGED Log!vars
    BY <2>1 DEF Log!vars, vars, netVars, historyVars
  <2> QED
    BY <2>1, LogStep
<1> QED
  BY <1>1, <1>2, Always, PTL DEF Spec, LogSpec, Log!Spec
=============================================================================
