--------------------------- MODULE Cycles_proofs ---------------------------
(***************************************************************************)
(* Proofs about the exercises that are cycles of holds and of delays       *)
(* nothing cancels: PeeSession, for any levels, durations, number of       *)
(* sessions and of taps on Finish, and, as instances, BreathingSession (B) *)
(* and WarmUpSession (W), for any durations; and that each of the three    *)
(* implements HoldCycle.                                                   *)
(*                                                                         *)
(* For PeeSession the inductive invariant is the types of the State        *)
(* (Screen), what is known of the handlers and their loaders (Net);        *)
(* relative to it what a live animation controller stands for (Posted,     *)
(* Finishing), that some handler ends a hold in time (Held), and, for the  *)
(* levels whose push is no longer than any hold, how far a push is ahead   *)
(* of the watch (Race).  For BreathingSession it says who may stop a       *)
(* running watch (Stoppable), what time the counted breaths have taken     *)
(* (Measured) and, where a breath is longer than a rest, that there is one *)
(* rest at a time (OneRest); for WarmUpSession, where the countdown's      *)
(* watch is during each delay (OneDelay) and while Finish waits (Awaiting).*)
(***************************************************************************)
EXTENDS PeeSession, SequenceTheorems, TLAPS

Screen ==
    /\ mounted \in BOOLEAN /\ started \in BOOLEAN
    /\ p_running \in BOOLEAN /\ fetched \in BOOLEAN /\ halved \in BOOLEAN
    /\ levels \in Levels \cup {Unread}
    /\ watch \in Stopwatch /\ timers \subseteq Levels
    /\ pushes \in Seq(Delay)
    /\ controller \in {"none", "live", "disposed"}

Net ==
    /\ chains \in [Stage -> Nat] /\ contexts \in BOOLEAN
    /\ serverSets \in Nat /\ begun \in Nat /\ left \in Nat
    /\ LoaderBalance

\* A live controller is that of a session which has not been posted.
Posted ==
    /\ PostedOnce
    /\ controller = "live" => serverSets + chains["post"] < begun

\* A session whose controller is gone is being finished, or its Finish was left
\* half done, or a loader stays up.
Finishing ==
    started \/ controller = "live" \/ halved \/ left > 0
            \/ chains["post"] > 0 \/ chains["get"] > 0

PushesEndFirst == \A k, h \in Levels : Push[k] <= Hold[h]

\* A push is begun with the watch at zero, and what is left of it and what the
\* watch shows never add up to more than its length.
Race ==
    /\ OneChain
    /\ \A i \in DOMAIN pushes : pushes[i].left + watch.at <= Push[pushes[i].by]

IInv == Screen /\ Net
-----------------------------------------------------------------------------
LEMMA Constants ==
    /\ Minute \in Nat /\ Minute >= 1 /\ Zero \in Stopwatch
    /\ DefaultLevel \in Levels /\ \A l : Handler(l) \in Levels
    /\ \A h \in Levels : Push[h] \in Nat /\ Push[h] > 0
    /\ \A h \in Levels : Hold[h] \in Nat
<1>1. Minute \in Nat \ {0}
  BY MinuteAssumption DEF MinuteAssumption
<1>2. DefaultLevel \in Levels
  BY LevelsAssumption DEF LevelsAssumption
<1>3. Hold \in [Levels -> 1..(Minute - 1)] /\ Push \in [Levels -> Nat \ {0}]
  BY LevelsAssumption DEF LevelsAssumption
<1> QED
  BY <1>1, <1>2, <1>3 DEF Zero, Stopwatch, Handler

LEMMA Watches ==
    ASSUME NEW w \in Stopwatch
    PROVE  /\ Running(w) \in Stopwatch /\ Running(w).at = w.at
           /\ Stopped(w) \in Stopwatch /\ Stopped(w).at = w.at
           /\ Cleared(w) \in Stopwatch /\ Cleared(w).at = 0
           /\ Advanced(w) \in Stopwatch /\ Advanced(w).at <= w.at + 1
           /\ w.at \in Nat
<1>1. Minute \in Nat /\ Minute >= 1
  BY Constants
<1>2. w.run \in BOOLEAN /\ w.at \in 0..(Minute - 1)
  BY DEF Stopwatch
<1>3. /\ Running(w) \in Stopwatch /\ Running(w).at = w.at
      /\ Stopped(w) \in Stopwatch /\ Stopped(w).at = w.at
  BY <1>1, <1>2 DEF Stopwatch, Running, Stopped
<1>4. Cleared(w) \in Stopwatch /\ Cleared(w).at = 0
  BY <1>1, <1>2 DEF Stopwatch, Cleared
<1>5. Advanced(w) \in Stopwatch /\ Advanced(w).at <= w.at + 1
  BY <1>1, <1>2 DEF Stopwatch, Advanced
<1> QED
  BY <1>1, <1>2, <1>3, <1>4, <1>5

LEMMA WatchesRun ==
    ASSUME NEW w \in Stopwatch
    PROVE  /\ Running(w).run /\ ~Stopped(w).run /\ Cleared(w).run = w.run
           /\ Advanced(w).run = w.run /\ (~w.run => Advanced(w) = w)
           /\ w.run => Advanced(w).at = IF w.at + 1 = Minute THEN 0
                                        ELSE w.at + 1
           /\ w.at \in Nat /\ w.at < Minute /\ w.run \in BOOLEAN
           /\ Zero \in Stopwatch /\ ~Zero.run /\ Zero.at = 0
<1>1. w.run \in BOOLEAN /\ w.at \in 0..(Minute - 1)
  BY DEF Stopwatch
<1>2. Running(w).run /\ ~Stopped(w).run /\ Cleared(w).run = w.run
  BY <1>1 DEF Running, Stopped, Cleared
<1>3. /\ Advanced(w).run = w.run /\ (~w.run => Advanced(w) = w)
      /\ w.run => Advanced(w).at = IF w.at + 1 = Minute THEN 0 ELSE w.at + 1
  <2>1. CASE w.run
    BY <1>1, <2>1 DEF Advanced
  <2>2. CASE ~w.run
    BY <1>1, <2>2 DEF Advanced
  <2> QED
    BY <2>1, <2>2
<1>4. Zero \in Stopwatch /\ ~Zero.run /\ Zero.at = 0
  BY Constants DEF Zero
<1> QED
  BY <1>1, <1>2, <1>3, <1>4, Constants

LEMMA PushRemoved ==
    ASSUME pushes \in Seq(Delay), NEW k \in DOMAIN pushes
    PROVE  /\ RemoveAt(pushes, k) \in Seq(Delay)
           /\ Len(RemoveAt(pushes, k)) = Len(pushes) - 1
<1> DEFINE l == Len(pushes)
           a == SubSeq(pushes, 1, k - 1)
           b == SubSeq(pushes, k + 1, l)
<1>1. l \in Nat /\ k \in 1..l
  OBVIOUS
<1>2. a \in Seq(Delay) /\ Len(a) = k - 1
  BY <1>1, SubSeqProperties
<1>3. b \in Seq(Delay) /\ Len(b) = l - k
  BY <1>1, SubSeqProperties
<1>4. a \o b \in Seq(Delay) /\ Len(a \o b) = Len(a) + Len(b)
  BY <1>2, <1>3, ConcatProperties
<1>5. RemoveAt(pushes, k) = a \o b
  BY DEF RemoveAt
<1> HIDE DEF a, b, l
<1>6. Len(a \o b) = l - 1
  BY <1>1, <1>2, <1>3, <1>4
<1> QED
  BY <1>4, <1>5, <1>6 DEF l
-----------------------------------------------------------------------------
(***************************************************************************)
(* The handlers and their loaders.                                         *)
(***************************************************************************)
Loading(cs) == cs["openGet"] + cs["post"] + cs["get"]

\* A handler at this stage has a loader up.
Loads(s) == IF s \in {"openGet", "post", "get"} THEN 1 ELSE 0

LEMMA Begins ==
    ASSUME chains \in [Stage -> Nat], NEW s \in Stage, Start(s)
    PROVE  /\ chains' \in [Stage -> Nat]
           /\ \A t \in Stage : chains'[t] = IF t = s THEN chains[t] + 1 ELSE chains[t]
           /\ Loading(chains') = Loading(chains) + Loads(s)
<1>1. chains' \in [Stage -> Nat]
  BY DEF Start
<1>2. \A t \in Stage : /\ chains[t] \in Nat
                       /\ chains'[t] = IF t = s THEN chains[t] + 1 ELSE chains[t]
  BY DEF Start
<1>3. Loading(chains') = Loading(chains) + Loads(s)
  BY <1>2 DEF Loading, Loads, Stage
<1> QED
  BY <1>1, <1>2, <1>3

LEMMA Ends ==
    ASSUME chains \in [Stage -> Nat], NEW s \in Stage, chains[s] > 0, End(s)
    PROVE  /\ chains' \in [Stage -> Nat]
           /\ \A t \in Stage : chains'[t] = IF t = s THEN chains[t] - 1 ELSE chains[t]
           /\ Loading(chains') = Loading(chains) - Loads(s)
<1>1. chains' \in [Stage -> Nat]
  BY DEF End
<1>2. \A t \in Stage : /\ chains[t] \in Nat
                       /\ chains'[t] = IF t = s THEN chains[t] - 1 ELSE chains[t]
  BY DEF End
<1>3. Loading(chains') = Loading(chains) - Loads(s)
  BY <1>2 DEF Loading, Loads, Stage
<1> QED
  BY <1>1, <1>2, <1>3

LEMMA Moves ==
    ASSUME chains \in [Stage -> Nat], NEW s \in Stage, NEW t \in Stage, s # t,
           chains[s] > 0, Move(s, t)
    PROVE  /\ chains' \in [Stage -> Nat]
           /\ \A u \in Stage : chains'[u] = IF u = s THEN chains[u] - 1
                                        ELSE IF u = t THEN chains[u] + 1
                                        ELSE chains[u]
           /\ Loading(chains') = Loading(chains) - Loads(s) + Loads(t)
<1>1. chains' \in [Stage -> Nat]
  BY DEF Move
<1>2. \A u \in Stage : /\ chains[u] \in Nat
                       /\ chains'[u] = IF u = s THEN chains[u] - 1
                                   ELSE IF u = t THEN chains[u] + 1
                                   ELSE chains[u]
  BY DEF Move
<1>3. Loading(chains') = Loading(chains) - Loads(s) + Loads(t)
  BY <1>2 DEF Loading, Loads, Stage
<1> QED
  BY <1>1, <1>2, <1>3

LEMMA NetFacts ==
    ASSUME Net
    PROVE  /\ \A s \in Stage : chains[s] \in Nat
           /\ chains["openGet"] \in Nat /\ chains["post"] \in Nat
           /\ chains["get"] \in Nat /\ chains["alarm"] \in Nat
           /\ Loading(chains) \in Nat /\ loaders = left + Loading(chains)
           /\ loaders \in Nat
<1>1. \A s \in Stage : chains[s] \in Nat
  BY DEF Net
<1>2. /\ chains["openGet"] \in Nat /\ chains["post"] \in Nat
      /\ chains["get"] \in Nat /\ chains["alarm"] \in Nat
  BY <1>1 DEF Stage
<1> QED
  BY <1>1, <1>2 DEF Net, LoaderBalance, Loading

\* Without a loader there is no post and no get.
LEMMA NoLoader ==
    ASSUME Net, loaders = 0
    PROVE  /\ left = 0 /\ chains["openGet"] = 0
           /\ chains["post"] = 0 /\ chains["get"] = 0
<1>1. /\ left \in Nat /\ chains["openGet"] \in Nat
      /\ chains["post"] \in Nat /\ chains["get"] \in Nat
  BY NetFacts DEF Net
<1> DEFINE a == chains["openGet"]
           b == chains["post"]
           c == chains["get"]
<1>2. left \in Nat /\ a \in Nat /\ b \in Nat /\ c \in Nat /\ left + a + b + c = 0
  BY <1>1 DEF Net, LoaderBalance
<1> HIDE DEF a, b, c
<1>3. left = 0 /\ a = 0 /\ b = 0 /\ c = 0
  BY <1>2
<1> QED
  BY <1>3 DEF a, b, c

LEMMA NetNext ==
    ASSUME chains' \in [Stage -> Nat], contexts' \in BOOLEAN, serverSets' \in Nat,
           begun' \in Nat, left' \in Nat, loaders' = left' + Loading(chains')
    PROVE  Net'
<1>1. /\ chains'["openGet"] \in Nat /\ chains'["post"] \in Nat
      /\ chains'["get"] \in Nat
  BY DEF Stage
<1> QED
  BY <1>1 DEF Net, LoaderBalance, Loading

LEMMA NothingLoads == NoChains \in [Stage -> Nat] /\ Loading(NoChains) = 0
  BY DEF NoChains, Stage, Loading
-----------------------------------------------------------------------------
(***************************************************************************)
(* Types and loaders: IInv is inductive.                                   *)
(***************************************************************************)
LEMMA ScreenKept ==
    ASSUME Screen,
           UNCHANGED <<levels, timers, pushes, controller>>,
           mounted' \in BOOLEAN, started' \in BOOLEAN, p_running' \in BOOLEAN,
           fetched' \in BOOLEAN, halved' \in BOOLEAN, watch' \in Stopwatch
    PROVE  Screen'
  BY DEF Screen

\* The user and the clock, on the State.
LEMMA ScreenStep ==
    ASSUME Screen, Next
    PROVE  Screen'
<1>1. /\ mounted \in BOOLEAN /\ started \in BOOLEAN /\ p_running \in BOOLEAN
      /\ fetched \in BOOLEAN /\ levels \in Levels \cup {Unread}
      /\ halved \in BOOLEAN
      /\ watch \in Stopwatch /\ timers \subseteq Levels /\ pushes \in Seq(Delay)
      /\ controller \in {"none", "live", "disposed"}
  BY DEF Screen
<1>2. ASSUME StartWatch
      PROVE  /\ started' \in BOOLEAN /\ p_running' \in BOOLEAN
             /\ watch' \in Stopwatch /\ timers' \subseteq Levels
             /\ controller' \in {"none", "live", "disposed"}
  BY <1>1, <1>2, Constants, Watches DEF StartWatch, NewController
<1>3. ASSUME NoScreen, p_running' \in BOOLEAN, fetched' \in BOOLEAN
      PROVE  Screen'
  <2>1. pushes' \in Seq(Delay)
    BY <1>3 DEF NoScreen
  <2> QED
    BY <1>3, <2>1, Constants DEF NoScreen, Screen
<1>4. CASE Enter
  BY <1>1, <1>4, ScreenKept DEF Enter, clockVars, controllerVars
<1>5. CASE BackArrow \/ SystemBack
  BY <1>3, <1>5 DEF BackArrow, SystemBack, Leave, Dispose
<1>6. CASE Swipe
  BY <1>1, <1>3, <1>6 DEF Swipe, Dispose, controllerVars
<1>7. CASE StartTap
  BY <1>1, <1>2, <1>7 DEF StartTap, Screen
<1>8. CASE FinishTap
  BY <1>1, <1>8, Watches, ScreenKept DEF FinishTap, controllerVars
<1>9. CASE FinishPosts
  <2>1. controller' \in {"none", "live", "disposed"}
    BY <1>1, <1>9 DEF FinishPosts
  <2> QED
    BY <1>1, <1>9, <2>1 DEF FinishPosts, clockVars, controllerVars, Screen
<1>10. CASE \E h \in Levels : HoldTick(h)
  <2>1. PICK h \in Levels : HoldTick(h)
    BY <1>10
  <2>2. [by |-> h, left |-> Push[h]] \in Delay
    BY Constants DEF Delay
  <2>3. pushes' \in Seq(Delay)
    BY <1>1, <2>1, <2>2, AppendProperties DEF HoldTick
  <2>4. watch' \in Stopwatch
    BY <1>1, <2>1, Watches DEF HoldTick
  <2> QED
    BY <1>1, <2>1, <2>3, <2>4 DEF HoldTick, controllerVars, Screen
<1>11. CASE PushDone
  <2>1. pushes' \in Seq(Delay)
    BY <1>1, <1>11, PushRemoved DEF PushDone
  <2>2. /\ started' \in BOOLEAN /\ p_running' \in BOOLEAN
        /\ watch' \in Stopwatch /\ timers' \subseteq Levels
        /\ controller' \in {"none", "live", "disposed"}
    BY <1>1, <1>2, <1>11 DEF PushDone
  <2> QED
    BY <1>1, <1>11, <2>1, <2>2 DEF PushDone, Screen
<1>12. CASE Pass
  <2>1. \A i \in DOMAIN pushes : /\ pushes[i].by \in Levels
                                 /\ pushes[i].left \in Nat /\ pushes[i].left # 0
    <3>1. \A i \in DOMAIN pushes : pushes[i] \in Delay
      BY <1>1
    <3>2. \A i \in DOMAIN pushes : pushes[i].left # 0
      BY <1>12 DEF Pass, Due, PushOver
    <3> QED
      BY <3>1, <3>2 DEF Delay
  <2>2. \A i \in 1..Len(pushes) :
           [by |-> pushes[i].by, left |-> pushes[i].left - 1] \in Delay
    BY <1>1, <2>1 DEF Delay
  <2>3. pushes' \in Seq(Delay)
    <3>1. /\ pushes \in Seq(Delay) /\ Len(pushes) \in Nat
          /\ DOMAIN pushes = 1..Len(pushes)
      BY <1>1
    <3>2. pushes' = [i \in 1..Len(pushes) |->
                        [by |-> pushes[i].by, left |-> pushes[i].left - 1]]
      BY <1>12, <3>1 DEF Pass
    <3> QED
      BY <2>2, <3>1, <3>2
  <2>4. watch' \in Stopwatch
    BY <1>1, <1>12, Watches DEF Pass
  <2> QED
    BY <1>1, <1>12, <2>3, <2>4 DEF Pass, controllerVars, Screen
<1>13. CASE ProfileReply
  BY <1>1, <1>13 DEF ProfileReply, controllerVars, Screen
<1>14. CASE ProfileDropped
  BY <1>1, <1>14, ScreenKept DEF ProfileDropped, stateVars, clockVars, controllerVars
<1>15. CASE \E r \in Replies, hides \in BOOLEAN : PostReply(r, hides)
  BY <1>1, <1>15, ScreenKept DEF PostReply, stateVars, clockVars, controllerVars
<1>16. CASE \E r \in Replies, hides \in BOOLEAN, s \in {"openGet", "get"} :
               GetReply(s, r, hides)
  <2>1. PICK r \in Replies, hides \in BOOLEAN, s \in {"openGet", "get"} :
               GetReply(s, r, hides)
    BY <1>16
  <2>2. started' \in BOOLEAN /\ p_running' \in BOOLEAN /\ watch' \in Stopwatch
    BY <1>1, <2>1, Watches DEF GetReply, BackToStart
  <2>3. fetched' \in BOOLEAN
    BY <1>1, <2>1 DEF GetReply
  <2> QED
    BY <1>1, <2>1, <2>2, <2>3, ScreenKept DEF GetReply
<1>17. CASE Relaunch
  BY <1>3, <1>17 DEF Relaunch
<1> QED
  BY <1>4, <1>5, <1>6, <1>7, <1>8, <1>9, <1>10, <1>11, <1>12, <1>13, <1>14, <1>15,
     <1>16, <1>17 DEF Next, User, Clock, Network

LEMMA QuietNet ==
    ASSUME Net, UNCHANGED <<chains, loaderVars, left, serverSets>>, begun' \in Nat
    PROVE  Net'
  BY NetFacts, NetNext DEF Net, loaderVars

LEMMA LeavesNet ==
    ASSUME Net, Dispose
    PROVE  Net'
<1>1. loaders = 0 /\ left = 0
  BY NoLoader DEF Dispose, Tappable
<1> QED
  BY <1>1, NothingLoads, NetNext DEF Net, Dispose, NoScreen, loaderVars

LEMMA NetStep ==
    ASSUME Net, Next
    PROVE  Net'
<1>1. /\ chains \in [Stage -> Nat] /\ contexts \in BOOLEAN
      /\ serverSets \in Nat /\ begun \in Nat /\ left \in Nat
      /\ Loading(chains) \in Nat /\ loaders = left + Loading(chains)
      /\ {"profile", "openGet", "alarm", "post", "get"} = Stage
      /\ chains["post"] \in Nat
  BY NetFacts DEF Net, Stage
<1>4. CASE Enter
  <2>1. Start("profile") /\ "profile" \in Stage
    BY <1>1, <1>4 DEF Enter
  <2>2. chains' \in [Stage -> Nat] /\ Loading(chains') = Loading(chains) + Loads("profile")
    BY <1>1, <2>1, Begins
  <2>3. chains' \in [Stage -> Nat] /\ Loading(chains') = Loading(chains)
    BY <1>1, <2>2 DEF Loads
  <2> QED
    BY <1>1, <1>4, <2>3, NetNext DEF Enter, loaderVars
<1>5. CASE BackArrow \/ SystemBack \/ Swipe
  BY <1>5, LeavesNet DEF BackArrow, SystemBack, Swipe, Leave
<1>7. CASE StartTap
  BY <1>1, <1>7, QuietNet DEF StartTap, netVars
<1>8. CASE FinishTap
  <2>1. chains' \in [Stage -> Nat] /\ Loading(chains') = Loading(chains)
    BY <1>1, <1>8, Begins DEF FinishTap, Loads
  <2> QED
    BY <1>1, <1>8, <2>1, NetNext DEF FinishTap, loaderVars
<1>9. CASE FinishPosts
  <2>1. CASE Move("alarm", "post") /\ ShowLoader
    <3>1. chains' \in [Stage -> Nat] /\ Loading(chains') = Loading(chains) + 1
      BY <1>1, <1>9, <2>1, Moves DEF FinishPosts, Loads
    <3> QED
      BY <1>1, <1>9, <2>1, <3>1, NetNext DEF FinishPosts, ShowLoader
  <2>2. CASE End("alarm") /\ UNCHANGED loaderVars
    <3>1. chains' \in [Stage -> Nat] /\ Loading(chains') = Loading(chains)
      BY <1>1, <1>9, <2>2, Ends DEF FinishPosts, Loads
    <3> QED
      BY <1>1, <1>9, <2>2, <3>1, NetNext DEF FinishPosts, loaderVars
  <2> QED
    BY <1>9, <2>1, <2>2 DEF FinishPosts
<1>10. CASE \E h \in Levels : HoldTick(h)
  BY <1>1, <1>10, QuietNet DEF HoldTick, netVars
<1>11. CASE PushDone
  BY <1>1, <1>11, QuietNet DEF PushDone, netVars
<1>12. CASE Pass
  BY <1>1, <1>12, QuietNet DEF Pass, netVars
<1>13. CASE ProfileReply
  <2>1. chains' \in [Stage -> Nat] /\ Loading(chains') = Loading(chains) + 1
    BY <1>1, <1>13, Moves DEF ProfileReply, Loads
  <2> QED
    BY <1>1, <1>13, <2>1, NetNext DEF ProfileReply, ShowLoader
<1>14. CASE ProfileDropped
  <2>1. chains' \in [Stage -> Nat] /\ Loading(chains') = Loading(chains)
    BY <1>1, <1>14, Ends DEF ProfileDropped, Loads
  <2> QED
    BY <1>1, <1>14, <2>1, NetNext DEF ProfileDropped, loaderVars
<1>15. CASE \E r \in Replies, hides \in BOOLEAN : r # "refused" /\ PostReply(r, hides)
  <2>1. PICK r \in Replies, hides \in BOOLEAN : PostReply(r, hides)
    BY <1>15
  <2>2. serverSets' \in Nat
    BY <1>1, <2>1 DEF PostReply
  <2>3. CASE r = "dropped" \/ (r \in Handled /\ ~hides)
    <3>1. End("post") /\ UNCHANGED loaderVars /\ left' = left + 1
      BY <2>1, <2>3 DEF PostReply, Orphaned, Handled
    <3>2. chains' \in [Stage -> Nat] /\ Loading(chains') = Loading(chains) - 1
      BY <1>1, <2>1, <3>1, Ends DEF PostReply, Loads
    <3>3. loaders' = left' + Loading(chains')
      BY <1>1, <3>1, <3>2 DEF loaderVars
    <3> QED
      BY <1>1, <2>1, <2>2, <3>1, <3>2, <3>3, NetNext DEF PostReply, loaderVars
  <2>4. CASE ~(r = "dropped" \/ (r \in Handled /\ ~hides))
    <3>1. /\ Move("post", "get") /\ contexts' = TRUE
          /\ loaders' = loaders - Hidden(r) + 1
      BY <2>1, <2>4 DEF PostReply
    <3>2. chains' \in [Stage -> Nat] /\ Loading(chains') = Loading(chains)
      BY <1>1, <2>1, <3>1, Moves DEF PostReply, Loads
    <3>3. left' = left + 1 - Hidden(r) /\ Hidden(r) \in {0, 1}
      BY <2>1, <2>4 DEF PostReply, Orphaned, Hidden
    <3>4. loaders' = left' + Loading(chains') /\ left' \in Nat
      BY <1>1, <3>1, <3>2, <3>3
    <3> QED
      BY <1>1, <2>1, <2>2, <3>1, <3>2, <3>4, NetNext DEF PostReply
  <2> QED
    BY <2>3, <2>4
<1>16. CASE \E r \in Replies, hides \in BOOLEAN, s \in {"openGet", "get"} :
               GetReply(s, r, hides)
  <2>1. PICK r \in Replies, hides \in BOOLEAN, s \in {"openGet", "get"} :
               GetReply(s, r, hides)
    BY <1>16
  <2>2. chains' \in [Stage -> Nat] /\ Loading(chains') = Loading(chains) - 1
    BY <1>1, <2>1, Ends DEF GetReply, Loads
  <2>3. CASE hides /\ r \in Handled
    <3>1. loaders' = loaders - 1 /\ contexts' = FALSE /\ left' = left
      BY <1>1, <2>1, <2>3 DEF GetReply, HideLoader, Hidden, Orphaned
    <3>2. loaders' = left' + Loading(chains')
      BY <1>1, <2>2, <3>1
    <3>3. serverSets' \in Nat /\ begun' \in Nat /\ left' \in Nat
      BY <1>1, <2>1, <3>1 DEF GetReply
    <3> QED
      BY <2>2, <3>1, <3>2, <3>3, NetNext
  <2>4. CASE ~(hides /\ r \in Handled)
    <3>1. UNCHANGED loaderVars /\ left' = left + 1
      BY <2>1, <2>4 DEF GetReply, Orphaned
    <3>2. loaders' = left' + Loading(chains')
      BY <1>1, <2>2, <3>1 DEF loaderVars
    <3> QED
      BY <1>1, <2>1, <2>2, <3>1, <3>2, NetNext DEF GetReply, loaderVars
  <2> QED
    BY <2>3, <2>4
<1>17. CASE Relaunch
  <2>1. chains' \in [Stage -> Nat] /\ Loading(chains') = 0
    BY <1>17, NothingLoads DEF Relaunch, NoScreen
  <2>2. serverSets' \in Nat
    BY <1>1, <1>17 DEF Relaunch
  <2>3. begun' = begun /\ left' = 0 /\ loaders' = 0 /\ contexts' = FALSE
    BY <1>17 DEF Relaunch
  <2>4. begun' \in Nat /\ left' \in Nat /\ loaders' = left' + Loading(chains')
    BY <1>1, <2>1, <2>3
  <2> QED
    BY <2>1, <2>2, <2>3, <2>4, NetNext
<1> QED
  BY <1>4, <1>5, <1>7, <1>8, <1>9, <1>10, <1>11, <1>12, <1>13, <1>14, <1>15,
     <1>16, <1>17 DEF Next, User, Clock, Network

LEMMA Initially ==
    ASSUME Init
    PROVE  IInv
<1>1. pushes \in Seq(Delay)
  BY DEF Init
<1>2. Screen
  BY <1>1, Constants DEF Init, Screen
<1>3. chains["openGet"] = 0 /\ chains["post"] = 0 /\ chains["get"] = 0
  BY DEF Init, NoChains, Stage
<1>4. LoaderBalance
  BY <1>3 DEF Init, LoaderBalance
<1>5. chains \in [Stage -> Nat] /\ contexts \in BOOLEAN
  BY NothingLoads DEF Init
<1>6. serverSets \in Nat /\ begun \in Nat /\ left \in Nat
  BY DEF Init
<1> QED
  BY <1>2, <1>4, <1>5, <1>6 DEF IInv, Net

LEMMA Inductive ==
    ASSUME IInv, [Next]_vars
    PROVE  IInv'
<1>1. CASE Next
  BY <1>1, ScreenStep, NetStep DEF IInv
<1>2. CASE UNCHANGED vars
  BY <1>2 DEF IInv, Screen, Net, LoaderBalance, vars, stateVars, clockVars,
              controllerVars, netVars, loaderVars
<1> QED
  BY <1>1, <1>2

LEMMA Always == Spec => []IInv
<1> QED
  BY Initially, Inductive, PTL DEF Spec
-----------------------------------------------------------------------------
(***************************************************************************)
(* The controller: a post is paid for by a session whose controller was    *)
(* live.                                                                   *)
(***************************************************************************)
\* Fewer posts, more sessions, and no controller that was not live.
LEMMA PostedKept ==
    ASSUME IInv, Posted,
           serverSets' \in Nat, begun' \in Nat, chains' \in [Stage -> Nat],
           serverSets' + chains'["post"] <= serverSets + chains["post"],
           begun' >= begun, controller' = "live" => controller = "live"
    PROVE  Posted'
<1>1. /\ serverSets \in Nat /\ begun \in Nat /\ chains["post"] \in Nat
      /\ chains'["post"] \in Nat
  BY NetFacts DEF IInv, Net, Stage
<1> QED
  BY <1>1 DEF Posted, PostedOnce

LEMMA PostedStep ==
    ASSUME IInv, Posted, Next
    PROVE  Posted'
<1>1. /\ chains \in [Stage -> Nat] /\ chains["post"] \in Nat
      /\ serverSets \in Nat /\ begun \in Nat
      /\ {"profile", "openGet", "alarm", "post", "get"} = Stage
  BY NetFacts DEF IInv, Net, Stage
<1>2. chains' \in [Stage -> Nat] /\ serverSets' \in Nat /\ begun' \in Nat
  BY NetStep DEF IInv, Net
<1>3. chains'["post"] \in Nat
  BY <1>1, <1>2
<1>4. CASE Enter \/ FinishTap
  <2>1. \E s \in {"profile", "alarm"} : Start(s)
    BY <1>4 DEF Enter, FinishTap
  <2>2. chains'["post"] = chains["post"]
    BY <1>1, <2>1, Begins
  <2> QED
    BY <1>1, <1>2, <1>4, <2>2, PostedKept DEF Enter, FinishTap
<1>5. CASE BackArrow \/ SystemBack \/ Swipe
  <2>1. chains'["post"] = 0 /\ UNCHANGED <<serverSets, begun>> /\ controller' = "none"
    BY <1>5 DEF BackArrow, SystemBack, Swipe, Leave, Dispose, NoScreen, NoChains, Stage
  <2> QED
    BY <1>1, <1>2, <2>1, PostedKept
<1>6. CASE StartTap
  <2>1. UNCHANGED <<chains, serverSets>> /\ begun' = begun + 1
    BY <1>6 DEF StartTap, netVars
  <2> QED
    BY <1>1, <2>1 DEF Posted, PostedOnce
<1>7. CASE FinishPosts
  <2>1. UNCHANGED <<serverSets, begun>>
    BY <1>7 DEF FinishPosts
  <2>2. CASE DisposedOnce
    <3>1. controller = "live" /\ controller' = "disposed" /\ Move("alarm", "post")
      BY <1>7, <2>2 DEF FinishPosts, DisposedOnce
    <3>2. chains'["post"] = chains["post"] + 1
      BY <1>1, <1>7, <3>1, Moves DEF FinishPosts
    <3> QED
      BY <1>1, <2>1, <3>1, <3>2 DEF Posted, PostedOnce
  <2>3. CASE ~DisposedOnce
    <3>1. UNCHANGED controller /\ End("alarm")
      BY <1>7, <2>3 DEF FinishPosts
    <3>2. chains'["post"] = chains["post"]
      BY <1>1, <1>7, <3>1, Ends DEF FinishPosts
    <3> QED
      BY <1>1, <1>2, <2>1, <3>1, <3>2, PostedKept
  <2> QED
    BY <2>2, <2>3
<1>8. CASE Pass \/ \E h \in Levels : HoldTick(h)
  <2>1. UNCHANGED <<chains, serverSets, begun, controller>>
    BY <1>8 DEF Pass, HoldTick, netVars
  <2> QED
    BY <1>1, <1>2, <2>1, PostedKept
<1>9. CASE PushDone
  <2>1. UNCHANGED <<chains, serverSets, begun>>
    BY <1>9 DEF PushDone, netVars
  <2>2. controller' = "live" => controller = "live"
    BY <1>9 DEF PushDone
  <2> QED
    BY <1>1, <1>2, <2>1, <2>2, PostedKept
<1>10. CASE ProfileReply
  <2>1. chains'["post"] = chains["post"]
    BY <1>1, <1>10, Moves DEF ProfileReply
  <2> QED
    BY <1>1, <1>2, <1>10, <2>1, PostedKept DEF ProfileReply
<1>11. CASE ProfileDropped
  <2>1. chains'["post"] = chains["post"]
    BY <1>1, <1>11, Ends DEF ProfileDropped
  <2> QED
    BY <1>1, <1>2, <1>11, <2>1, PostedKept DEF ProfileDropped, stateVars
<1>12. CASE \E r \in Replies, hides \in BOOLEAN : PostReply(r, hides)
  <2>1. PICK r \in Replies, hides \in BOOLEAN : PostReply(r, hides)
    BY <1>12
  <2>2. chains["post"] > 0 /\ (End("post") \/ Move("post", "get"))
    BY <2>1 DEF PostReply
  <2>3. chains'["post"] = chains["post"] - 1
    BY <1>1, <2>2, Ends, Moves
  <2>4. serverSets' \in {serverSets, serverSets + 1}
    BY <2>1 DEF PostReply
  <2>5. UNCHANGED <<controller, begun>>
    BY <2>1 DEF PostReply, stateVars
  <2> QED
    BY <1>1, <1>2, <2>3, <2>4, <2>5, PostedKept
<1>13. CASE \E r \in Replies, hides \in BOOLEAN, s \in {"openGet", "get"} :
               GetReply(s, r, hides)
  <2>1. PICK r \in Replies, hides \in BOOLEAN, s \in {"openGet", "get"} :
               GetReply(s, r, hides)
    BY <1>13
  <2>2. chains'["post"] = chains["post"]
    BY <1>1, <2>1, Ends DEF GetReply
  <2> QED
    BY <1>1, <1>2, <2>1, <2>2, PostedKept DEF GetReply
<1>14. CASE Relaunch
  <2>1. /\ serverSets' <= serverSets + chains["post"] /\ begun' = begun
        /\ controller' = "none"
    BY <1>1, <1>14 DEF Relaunch, NoScreen
  <2>2. chains'["post"] = 0
    BY <1>14 DEF Relaunch, NoScreen, NoChains, Stage
  <2> QED
    BY <1>1, <1>2, <2>1, <2>2, PostedKept
<1> QED
  BY <1>4, <1>5, <1>6, <1>7, <1>8, <1>9, <1>10, <1>11, <1>12, <1>13, <1>14
     DEF Next, User, Clock, Network

LEMMA FinishingStep ==
    ASSUME IInv, Finishing, Next
    PROVE  Finishing'
<1>1. /\ chains \in [Stage -> Nat] /\ chains["post"] \in Nat
      /\ chains["get"] \in Nat /\ left \in Nat
      /\ {"profile", "openGet", "alarm", "post", "get"} = Stage
  BY NetFacts DEF IInv, Net, Stage
<1>2. CASE Enter \/ FinishTap
  <2>1. \E s \in {"profile", "alarm"} : Start(s)
    BY <1>2 DEF Enter, FinishTap
  <2>2. chains'["post"] = chains["post"] /\ chains'["get"] = chains["get"]
    BY <1>1, <2>1, Begins
  <2> QED
    BY <1>2, <2>2 DEF Enter, FinishTap, Finishing
<1>3. CASE BackArrow \/ SystemBack \/ Swipe \/ Relaunch
  BY <1>3 DEF BackArrow, SystemBack, Swipe, Leave, Dispose, Relaunch, NoScreen, Finishing
<1>4. CASE StartTap
  BY <1>4 DEF StartTap, StartWatch, NewController, Finishing
<1>5. CASE FinishPosts
  <2>1. CASE Move("alarm", "post")
    <3>1. chains'["post"] = chains["post"] + 1
      BY <1>1, <1>5, <2>1, Moves DEF FinishPosts
    <3> QED
      BY <1>1, <3>1 DEF Finishing
  <2>2. CASE End("alarm") /\ UNCHANGED <<controller, loaderVars>>
    <3>1. chains'["post"] = chains["post"] /\ chains'["get"] = chains["get"]
      BY <1>1, <1>5, <2>2, Ends DEF FinishPosts
    <3> QED
      BY <1>5, <2>2, <3>1 DEF FinishPosts, Finishing
  <2> QED
    BY <1>5, <2>1, <2>2 DEF FinishPosts
<1>6. CASE Pass \/ \E h \in Levels : HoldTick(h)
  BY <1>6 DEF Pass, HoldTick, netVars, Finishing
<1>7. CASE PushDone
  BY <1>7 DEF PushDone, StartWatch, NewController, netVars, Finishing
<1>8. CASE ProfileReply
  <2>1. chains'["post"] = chains["post"] /\ chains'["get"] = chains["get"]
    BY <1>1, <1>8, Moves DEF ProfileReply
  <2> QED
    BY <1>8, <2>1 DEF ProfileReply, Finishing
<1>9. CASE ProfileDropped
  <2>1. chains'["post"] = chains["post"] /\ chains'["get"] = chains["get"]
    BY <1>1, <1>9, Ends DEF ProfileDropped
  <2> QED
    BY <1>9, <2>1 DEF ProfileDropped, stateVars, Finishing
<1>10. CASE \E r \in Replies, hides \in BOOLEAN : PostReply(r, hides)
  <2>1. PICK r \in Replies, hides \in BOOLEAN : PostReply(r, hides)
    BY <1>10
  <2>2. CASE Move("post", "get")
    <3>1. chains'["get"] = chains["get"] + 1
      BY <1>1, <2>1, <2>2, Moves DEF PostReply
    <3> QED
      BY <1>1, <3>1 DEF Finishing
  <2>3. CASE r = "dropped" \/ (r \in Handled /\ ~hides)
    <3>1. left' = left + 1
      BY <2>1, <2>3 DEF PostReply, Orphaned, Handled
    <3> QED
      BY <1>1, <3>1 DEF Finishing
  <2> QED
    BY <2>1, <2>2, <2>3 DEF PostReply
\* The get ends without Finish only if it leaves a loader up.
<1>11. CASE \E r \in Replies, hides \in BOOLEAN, s \in {"openGet", "get"} :
               GetReply(s, r, hides)
  <2>1. PICK r \in Replies, hides \in BOOLEAN, s \in {"openGet", "get"} :
               GetReply(s, r, hides)
    BY <1>11
  <2>3. CASE s = "get" /\ Returns(r, hides)
    BY <2>1, <2>3 DEF GetReply, BackToStart, Finishing
  <2>4. CASE s = "get" /\ ~Returns(r, hides)
    <3>1. fetched \in BOOLEAN /\ r \in Replies /\ hides \in BOOLEAN
      BY <2>1 DEF IInv, Screen
    <3>2. left' = left + 1 \/ (r = "refused" /\ hides /\ ~fetched)
      BY <2>1, <2>4, <3>1 DEF GetReply, Returns, Orphaned, Handled, Replies
    <3>3. left' = left + 1 \/ halved'
      BY <2>1, <2>4, <3>2 DEF GetReply
    <3> QED
      BY <1>1, <3>3 DEF Finishing
  <2>5. CASE s = "openGet"
    <3>1. chains'["post"] = chains["post"] /\ chains'["get"] = chains["get"]
      BY <1>1, <2>1, <2>5, Ends DEF GetReply
    <3>2. left' \in {left, left + 1}
      BY <1>1, <2>1 DEF GetReply, Orphaned
    <3>3. UNCHANGED <<started, controller>> /\ (halved => halved')
      BY <2>1, <2>5 DEF GetReply
    <3> QED
      BY <1>1, <3>1, <3>2, <3>3 DEF Finishing
  <2> QED
    BY <2>3, <2>4, <2>5
<1> QED
  BY <1>2, <1>3, <1>4, <1>5, <1>6, <1>7, <1>8, <1>9, <1>10, <1>11
     DEF Next, User, Clock, Network
-----------------------------------------------------------------------------
(***************************************************************************)
(* Where no push is longer than a hold, it is over before the next one.    *)
(***************************************************************************)
LEMMA RaceKept ==
    ASSUME IInv, Race, UNCHANGED pushes, watch' \in Stopwatch, watch'.at <= watch.at
    PROVE  Race'
<1>1. watch.at \in Nat /\ watch'.at \in Nat
  BY Watches DEF IInv, Screen
<1>2. \A i \in DOMAIN pushes : pushes[i].left \in Nat /\ Push[pushes[i].by] \in Nat
  <2>1. \A i \in DOMAIN pushes : pushes[i] \in Delay
    BY DEF IInv, Screen
  <2> QED
    BY <2>1, Constants DEF Delay
<1> QED
  BY <1>1, <1>2 DEF Race, OneChain

LEMMA NoPushNoRace ==
    ASSUME pushes' = <<>>
    PROVE  Race'
  BY DEF Race, OneChain

LEMMA RaceStep ==
    ASSUME IInv, Race, PushesEndFirst, Next
    PROVE  Race'
<1>1. /\ watch \in Stopwatch /\ watch.at \in Nat /\ pushes \in Seq(Delay)
      /\ timers \subseteq Levels
  BY Watches DEF IInv, Screen
<1>2. /\ Len(pushes) \in Nat /\ Len(pushes) <= 1
      /\ \A i \in 1..Len(pushes) :
            /\ pushes[i].by \in Levels /\ pushes[i].left \in Nat
            /\ pushes[i].left + watch.at <= Push[pushes[i].by]
  <2>1. \A i \in 1..Len(pushes) : pushes[i] \in Delay
    BY <1>1
  <2> QED
    BY <1>1, <2>1 DEF Race, OneChain, Delay
<1>3. CASE BackArrow \/ SystemBack \/ Swipe \/ Relaunch
  BY <1>3, NoPushNoRace
     DEF BackArrow, SystemBack, Swipe, Leave, Dispose, Relaunch, NoScreen
<1>4. CASE UNCHANGED <<watch, pushes>>
  BY <1>1, <1>4, RaceKept
<1>5. CASE StartTap \/ FinishTap
  BY <1>1, <1>5, Watches, RaceKept DEF StartTap, StartWatch, FinishTap
\* A hold does not end while a push is pending: the push would have nothing left,
\* and run first.
<1>6. CASE \E h \in Levels : HoldTick(h)
  <2>1. PICK h \in Levels : HoldTick(h)
    BY <1>6
  <2>2. watch.at = Hold[h]
    BY <2>1 DEF HoldTick
  <2>3. \A i \in 1..Len(pushes) : PushOver(i) => Push[pushes[i].by] > Hold[h]
    BY <1>1, <2>1 DEF HoldTick
  <2>4. ASSUME NEW i \in 1..Len(pushes)
        PROVE  FALSE
    <3>1. Push[pushes[i].by] <= Hold[h]
      BY <1>2 DEF PushesEndFirst
    <3>2. pushes[i].left = 0
      BY <1>2, <2>2, <3>1, Constants
    <3> QED
      BY <1>2, <2>3, <3>1, <3>2, Constants DEF PushOver
  <2>5. Len(pushes) = 0
    BY <1>2, <2>4
  <2> DEFINE delay == [by |-> h, left |-> Push[h]]
  <2>6. delay \in Delay
    BY Constants DEF Delay
  <2>7. Len(pushes') = 1 /\ DOMAIN pushes' = 1..1 /\ pushes'[1] = delay
    <3>1. pushes' = Append(pushes, delay)
      BY <2>1 DEF HoldTick
    <3> HIDE DEF delay
    <3> QED
      BY <1>1, <2>5, <2>6, <3>1, AppendProperties
  <2>8. watch'.at = 0
    BY <1>1, <2>1, Watches DEF HoldTick
  <2> QED
    BY <2>7, <2>8, Constants DEF Race, OneChain
<1>7. CASE PushDone
  <2>1. PICK i \in DOMAIN pushes : pushes' = RemoveAt(pushes, i)
    BY <1>7 DEF PushDone
  <2>2. pushes' \in Seq(Delay) /\ Len(pushes') = Len(pushes) - 1
    BY <1>1, <2>1, PushRemoved
  <2>3. i \in 1..Len(pushes)
    BY <1>1, <2>1
  <2>4. Len(pushes') = 0
    BY <1>2, <2>2, <2>3
  <2> QED
    BY <2>2, <2>4 DEF Race, OneChain
<1>8. CASE Pass
  <2>1. /\ DOMAIN pushes' = DOMAIN pushes
        /\ \A i \in DOMAIN pushes :
              /\ pushes'[i].by = pushes[i].by
              /\ pushes'[i].left = pushes[i].left - 1
    BY <1>8 DEF Pass
  <2>2. watch'.at \in Nat /\ watch'.at <= watch.at + 1
    <3>1. watch' = Advanced(watch) /\ Advanced(watch) \in Stopwatch
      BY <1>1, <1>8, Watches DEF Pass
    <3> QED
      BY <1>1, <3>1, Watches
  <2>3. pushes' \in Seq(Delay)
    BY <1>8, ScreenStep DEF IInv, Screen, Next, Clock
  <2>4. Len(pushes') = Len(pushes)
    BY <1>1, <2>1, <2>3
  <2>5. ASSUME NEW i \in 1..Len(pushes)
        PROVE  pushes'[i].left + watch'.at <= Push[pushes'[i].by]
    <3>1. pushes'[i].by = pushes[i].by /\ pushes'[i].left = pushes[i].left - 1
      BY <1>1, <2>1
    <3> QED
      BY <1>1, <1>2, <2>2, <3>1, Constants
  <2> QED
    BY <1>1, <1>2, <2>1, <2>4, <2>5 DEF Race, OneChain
<1>9. CASE \E r \in Replies, hides \in BOOLEAN, s \in {"openGet", "get"} :
              GetReply(s, r, hides)
  <2>1. pushes' = pushes /\ (watch' = watch \/ watch' = Cleared(watch))
    BY <1>9 DEF GetReply, BackToStart
  <2> QED
    BY <1>1, <2>1, Watches, RaceKept
<1>10. CASE Enter \/ FinishPosts \/ ProfileReply \/ ProfileDropped
  BY <1>4, <1>10 DEF Enter, FinishPosts, ProfileReply, ProfileDropped, stateVars, clockVars
<1>11. CASE \E r \in Replies, hides \in BOOLEAN : PostReply(r, hides)
  BY <1>4, <1>11 DEF PostReply, stateVars, clockVars
<1> QED
  BY <1>3, <1>5, <1>6, <1>7, <1>8, <1>9, <1>10, <1>11 DEF Next, User, Clock, Network
-----------------------------------------------------------------------------
(***************************************************************************)
(* Holds and pushes implement HoldCycle.                                   *)
(***************************************************************************)
\* Some handler that looks at the watch ends its hold in time.
Held ==
    \/ timers = {} /\ watch = Zero
    \/ \E h \in timers : watch.at <= Hold[h]

LEMMA HeldStep ==
    ASSUME IInv, Held, Next
    PROVE  Held'
<1>1. watch \in Stopwatch /\ watch.at \in Nat /\ timers \subseteq Levels
  BY Watches DEF IInv, Screen
<1>2. \A h \in Levels : Hold[h] \in Nat
  BY Constants
<1>3. ASSUME timers' = timers,
             \/ watch' = watch \/ watch' = Stopped(watch)
             \/ watch' = Cleared(watch) \/ watch' = Cleared(Stopped(watch))
      PROVE  Held'
  <2>1. watch = Zero => watch' = Zero
    BY <1>3 DEF Stopped, Cleared, Zero
  <2>2. watch'.at \in {0, watch.at}
    BY <1>1, <1>3, Watches
  <2> QED
    BY <1>1, <1>2, <1>3, <2>1, <2>2 DEF Held
<1>4. ASSUME StartWatch
      PROVE  Held'
  <2>1. watch'.at = watch.at /\ timers' = timers \cup {Handler(levels)}
    BY <1>1, <1>4, Watches DEF StartWatch
  <2>2. Handler(levels) \in Levels /\ Zero.at = 0
    BY Constants DEF Zero
  <2> QED
    BY <1>2, <2>1, <2>2 DEF Held
<1>5. CASE BackArrow \/ SystemBack \/ Swipe \/ Relaunch
  BY <1>5 DEF BackArrow, SystemBack, Swipe, Leave, Dispose, Relaunch, NoScreen, Held
<1>6. CASE StartTap
  BY <1>4, <1>6 DEF StartTap
<1>7. CASE FinishTap \/ \E h \in Levels : HoldTick(h)
  BY <1>3, <1>7 DEF FinishTap, HoldTick
<1>8. CASE PushDone
  BY <1>3, <1>4, <1>8 DEF PushDone
\* The second cannot end on a handler's length: it would run first.
<1>9. CASE Pass
  <2>1. /\ watch' = Advanced(watch) /\ timers' = timers
        /\ watch.run => \A h \in timers : watch.at # Hold[h]
    BY <1>9 DEF Pass, Due
  <2>2. CASE ~watch.run
    BY <1>1, <1>3, <2>1, <2>2, WatchesRun
  <2>3. CASE watch.run
    <3>1. PICK h \in timers : watch.at <= Hold[h]
      BY <2>3, WatchesRun DEF Held, Zero
    <3>2. watch'.at <= watch.at + 1 /\ watch'.at \in Nat
      <4>1. Advanced(watch) \in Stopwatch
        BY <1>1, Watches
      <4> QED
        BY <1>1, <2>1, <4>1, Watches
    <3>3. watch.at + 1 <= Hold[h]
      BY <1>1, <1>2, <2>1, <2>3, <3>1
    <3> QED
      BY <1>1, <1>2, <2>1, <3>2, <3>3 DEF Held
  <2> QED
    BY <2>2, <2>3
<1>10. CASE \E r \in Replies, hides \in BOOLEAN, s \in {"openGet", "get"} :
               GetReply(s, r, hides)
  BY <1>3, <1>10 DEF GetReply, BackToStart
<1>11. CASE Enter \/ FinishPosts \/ ProfileReply \/ ProfileDropped
              \/ \E r \in Replies, hides \in BOOLEAN : PostReply(r, hides)
  BY <1>3, <1>11
  DEF Enter, FinishPosts, ProfileReply, ProfileDropped, PostReply, stateVars,
      clockVars
<1> QED
  BY <1>5, <1>6, <1>7, <1>8, <1>9, <1>10, <1>11 DEF Next, User, Clock, Network

\* What of the screen the cycle sees.
LEMMA SeenOfCycle ==
    ASSUME IInv, Race
    PROVE  /\ watch.run \in BOOLEAN /\ watch.at \in Nat
           /\ pushes = <<>> \/ \E d \in Delay : pushes = <<d>>
<1>1. watch \in Stopwatch /\ pushes \in Seq(Delay) /\ Len(pushes) \in Nat
  BY DEF IInv, Screen
<1>2. CASE Len(pushes) = 0
  BY <1>1, <1>2, WatchesRun
<1>3. CASE Len(pushes) = 1
  <2>1. pushes[1] \in Delay /\ pushes = <<pushes[1]>>
    BY <1>1, <1>3
  <2> QED
    BY <1>1, <2>1, WatchesRun
<1>4. Len(pushes) <= 1
  BY DEF Race, OneChain
<1>5. \A n \in Nat : n <= 1 => n = 0 \/ n = 1
  OBVIOUS
<1> QED
  BY <1>1, <1>2, <1>3, <1>4, <1>5

LEMMA CycleStep ==
    ASSUME IInv, Race, Held, PushesEndFirst, Next
    PROVE  [Cycle!Next]_(Cycle!vars)
<1>1. /\ watch \in Stopwatch /\ watch.at \in Nat /\ watch.run \in BOOLEAN
      /\ timers \subseteq Levels
  BY SeenOfCycle DEF IInv, Screen
<1>2. pushes = <<>> \/ \E d \in Delay : pushes = <<d>>
  BY SeenOfCycle
<1>3. CASE UNCHANGED <<watch, pushes>>
  BY <1>3 DEF Cycle!vars
<1>4. CASE StartTap
  <2>1. watch'.run /\ watch'.at = watch.at /\ pushes' = pushes
    BY <1>1, <1>4, Watches, WatchesRun DEF StartTap, StartWatch
  <2> QED
    BY <1>1, <2>1 DEF Cycle!Next, Cycle!Begin, Cycle!vars
<1>5. CASE FinishTap
  <2>1. ~watch'.run /\ watch'.at = watch.at /\ pushes' = pushes
    BY <1>1, <1>5, Watches, WatchesRun DEF FinishTap
  <2> QED
    BY <2>1 DEF Cycle!Next, Cycle!Interrupt
<1>6. CASE \E r \in Replies, hides \in BOOLEAN, s \in {"openGet", "get"} :
              GetReply(s, r, hides)
  <2>1. pushes' = pushes /\ (watch' = watch \/ watch' = Cleared(watch))
    BY <1>6 DEF GetReply, BackToStart
  <2>2. Cleared(watch).run = watch.run /\ Cleared(watch).at = 0
    BY <1>1, Watches, WatchesRun
  <2>3. watch'.run = watch.run /\ watch'.at \in {0, watch.at}
    BY <2>1, <2>2
  <2> QED
    BY <2>1, <2>3 DEF Cycle!Next, Cycle!Interrupt
<1>7. CASE BackArrow \/ SystemBack \/ Swipe \/ Relaunch
  <2>1. watch' = Zero /\ pushes' = <<>>
    BY <1>7 DEF BackArrow, SystemBack, Swipe, Leave, Dispose, Relaunch, NoScreen
  <2> QED
    BY <2>1 DEF Cycle!Next, Cycle!Abandon, Zero
\* As in RaceStep: no push is pending when a hold ends.
<1>8. CASE \E h \in Levels : HoldTick(h)
  <2>1. PICK h \in Levels : HoldTick(h)
    BY <1>8
  <2>2. /\ watch.run /\ watch.at = Hold[h]
        /\ watch' = Cleared(Stopped(watch))
        /\ pushes' = Append(pushes, [by |-> h, left |-> Push[h]])
    BY <2>1 DEF HoldTick
  <2>3. pushes = <<>>
    <3>1. ASSUME NEW d \in Delay, pushes = <<d>>
          PROVE  FALSE
      <4>1. d.by \in Levels /\ d.left \in Nat /\ d.left + watch.at <= Push[d.by]
        BY <3>1 DEF Race, Delay
      <4>2. d.left = 0 => Push[d.by] > Hold[h]
        BY <2>1, <3>1 DEF HoldTick, PushOver
      <4>3. Push[d.by] <= Hold[h] /\ Push[d.by] \in Nat /\ Hold[h] \in Nat
        BY <4>1, Constants DEF PushesEndFirst
      <4> QED
        BY <2>2, <4>1, <4>2, <4>3
    <3> QED
      BY <1>2, <3>1
  <2>4. pushes' = <<[by |-> h, left |-> Push[h]]>>
    BY <2>2, <2>3
  <2>5. ~watch'.run /\ watch'.at = 0
    BY <1>1, <2>2, Watches, WatchesRun
  <2>6. pushes' # <<>> /\ Len(pushes') = 1 /\ Len(pushes) = 0 /\ Head(pushes').left = Push[h]
    BY <2>3, <2>4
  <2> QED
    BY <2>2, <2>3, <2>5, <2>6 DEF Cycle!Next, Cycle!EndHold
<1>9. CASE PushDone
  <2>1. PICK i \in DOMAIN pushes : PushOver(i) /\ pushes' = RemoveAt(pushes, i)
    BY <1>9 DEF PushDone
  <2>2. PICK d \in Delay : pushes = <<d>>
    BY <1>2, <2>1
  <2>3. i = 1 /\ d.left = 0 /\ Len(pushes) = 1 /\ pushes # <<>> /\ Head(pushes).left = 0
    BY <2>1, <2>2 DEF PushOver
  <2>4. pushes' = <<>>
    <3>1. pushes \in Seq(Delay) /\ Len(pushes) = 1
      BY <2>2
    <3>2. pushes' \in Seq(Delay) /\ Len(pushes') = 0
      BY <2>1, <3>1, PushRemoved
    <3> QED
      BY <3>2
  <2>5. watch' = watch \/ watch' = Running(watch)
    BY <1>9 DEF PushDone, StartWatch
  <2>6. watch'.run \in BOOLEAN /\ watch'.at = watch.at
    <3>1. Running(watch) \in Stopwatch /\ Running(watch).at = watch.at
      BY <1>1, Watches
    <3>2. watch' \in Stopwatch /\ watch'.at = watch.at
      BY <1>1, <2>5, <3>1
    <3> QED
      BY <3>2, WatchesRun
  <2> QED
    BY <2>3, <2>4, <2>6 DEF Cycle!Next, Cycle!EndPause
<1>10. CASE Pass
  <2>1. /\ watch' = Advanced(watch)
        /\ pushes' = [i \in DOMAIN pushes |->
                         [by |-> pushes[i].by, left |-> pushes[i].left - 1]]
        /\ \A i \in DOMAIN pushes : pushes[i].left # 0
        /\ watch.run => \A h \in timers : watch.at # Hold[h]
    BY <1>10 DEF Pass, Due, PushOver
  <2>2. /\ watch'.run = watch.run
        /\ ~watch.run => watch'.at = watch.at
    BY <1>1, <2>1, WatchesRun
  <2>3. watch.run => /\ \E l \in Levels : watch.at < Hold[l]
                     /\ watch'.at = watch.at + 1
    <3> SUFFICES ASSUME watch.run
                 PROVE  /\ \E l \in Levels : watch.at < Hold[l]
                        /\ watch'.at = watch.at + 1
      OBVIOUS
    <3>1. PICK h \in timers : watch.at <= Hold[h]
      BY WatchesRun DEF Held, Zero
    <3>2. Hold[h] \in 1..(Minute - 1) /\ Minute \in Nat
      BY <1>1, Constants, LevelsAssumption DEF LevelsAssumption
    <3>3. watch.at < Hold[h] /\ watch.at + 1 # Minute
      BY <1>1, <2>1, <3>1, <3>2
    <3> QED
      BY <1>1, <2>1, <3>3, WatchesRun
  <2>4. CASE pushes = <<>>
    <3>1. pushes' = <<>>
      BY <2>1, <2>4
    <3> QED
      BY <2>2, <2>3, <2>4, <3>1 DEF Cycle!Next, Cycle!Second
  <2>5. ASSUME NEW d \in Delay, pushes = <<d>>
        PROVE  Cycle!Next
    <3>1. pushes' = <<[by |-> d.by, left |-> d.left - 1]>>
      BY <2>1, <2>5
    <3>2. d.left \in Nat /\ d.left > 0
      BY <2>1, <2>5 DEF Delay
    <3>3. /\ pushes # <<>> /\ pushes' # <<>> /\ Len(pushes) = 1 /\ Len(pushes') = 1
          /\ Head(pushes).left = d.left
          /\ Head(pushes').left = d.left - 1
      BY <2>5, <3>1
    <3> QED
      BY <2>2, <2>3, <3>2, <3>3 DEF Cycle!Next, Cycle!Second
  <2> QED
    BY <1>2, <2>4, <2>5
<1>11. CASE Enter \/ FinishPosts \/ ProfileReply \/ ProfileDropped
              \/ \E r \in Replies, hides \in BOOLEAN : PostReply(r, hides)
  BY <1>3, <1>11
  DEF Enter, FinishPosts, ProfileReply, ProfileDropped, PostReply, stateVars,
      clockVars
<1> QED
  BY <1>4, <1>5, <1>6, <1>7, <1>8, <1>9, <1>10, <1>11 DEF Next, User, Clock, Network
-----------------------------------------------------------------------------
(***************************************************************************)
(* The theorems.                                                           *)
(***************************************************************************)
\* The screen's variables are of their types (pee_screen.dart 22-72).
THEOREM TypeCorrect == Spec => []TypeOK
<1>1. ASSUME IInv PROVE TypeOK
  <2>1. LoaderTypeOK
    BY <1>1, NetFacts DEF IInv, Net, LoaderTypeOK
  <2> QED
    BY <1>1, <2>1 DEF IInv, Screen, Net, TypeOK
<1> QED
  BY <1>1, Always, PTL

\* The loaders are those of the calls that are out and of replies without a
\* branch (pee_screen_controller.dart 21-134).
THEOREM LoaderBalanceHolds == Spec => []LoaderBalance
<1>1. IInv => LoaderBalance
  BY DEF IInv, Net
<1> QED
  BY <1>1, Always, PTL

\* No session is posted twice, however often Finish is tapped and whatever a
\* push that ends late does to the watch (pee_screen.dart 1714-1722).
THEOREM PostedOnceHolds == Spec => []PostedOnce
<1>1. Init => Posted
  BY DEF Init, Posted, PostedOnce, NoChains, Stage
<1>2. IInv /\ Posted /\ [Next]_vars => Posted'
  <2>1. ASSUME Posted, UNCHANGED vars PROVE Posted'
    BY <2>1 DEF Posted, PostedOnce, vars, stateVars, netVars
  <2> QED
    BY <2>1, PostedStep
<1>3. Posted => PostedOnce
  BY DEF Posted
<1> QED
  BY <1>1, <1>2, <1>3, Always, PTL DEF Spec

\* The Finish button can do what it says, unless the get of an earlier tap was
\* refused when none had been answered yet (pee_screen.dart 812, 1719;
\* pee_screen_controller.dart 121-128).
THEOREM FinishWorksHolds == Spec => []FinishWorks
<1>1. Init => Finishing
  BY DEF Init, Finishing
<1>2. IInv /\ Finishing /\ [Next]_vars => Finishing'
  <2>1. ASSUME Finishing, UNCHANGED vars PROVE Finishing'
    BY <2>1 DEF Finishing, vars, stateVars, netVars
  <2> QED
    BY <2>1, FinishingStep
<1>3. IInv /\ Finishing => FinishWorks
  BY NoLoader DEF IInv, Finishing, FinishWorks, Tappable
<1> QED
  BY <1>1, <1>2, <1>3, Always, PTL DEF Spec

\* Where no push is longer than a hold, one chain of holds and pushes is all
\* there ever is, through any number of sessions (pee_screen.dart 74-267).
THEOREM OneChainHolds == ASSUME PushesEndFirst PROVE Spec => []OneChain
<1>1. Init => Race
  BY DEF Init, Race, OneChain
<1>2. IInv /\ Race /\ [Next]_vars => Race'
  <2>1. ASSUME Race, UNCHANGED vars PROVE Race'
    BY <2>1 DEF Race, OneChain, vars, stateVars, clockVars
  <2> QED
    BY <2>1, RaceStep
<1>3. Race => OneChain
  BY DEF Race
<1> QED
  BY <1>1, <1>2, <1>3, Always, PTL DEF Spec

\* Where no push is longer than a hold, holds and pushes alternate as HoldCycle
\* promises: no hold is cut short or runs past its length, and none ends while a
\* push is pending (pee_screen.dart 74-267).
THEOREM CycleImplemented == ASSUME PushesEndFirst PROVE Spec => CycleSpec
<1>1. Init => Race /\ Held /\ Cycle!Init
  BY DEF Init, Race, OneChain, Held, Cycle!Init, Zero
<1>2. IInv /\ Race /\ Held /\ [Next]_vars
        => Race' /\ Held' /\ [Cycle!Next]_(Cycle!vars)
  <2>1. ASSUME Race, Held, UNCHANGED vars
        PROVE  Race' /\ Held' /\ UNCHANGED Cycle!vars
    BY <2>1 DEF Race, OneChain, Held, Cycle!vars, vars, stateVars, clockVars
  <2> QED
    BY <2>1, RaceStep, HeldStep, CycleStep
<1> QED
  BY <1>1, <1>2, Always, PTL DEF Spec, CycleSpec, Cycle!Spec
-----------------------------------------------------------------------------
(***************************************************************************)
(* The other two exercises.  Theirs are lengths of their own; the watches, *)
(* the screen and its loaders go by the same names as those of the pee     *)
(* screen, and each theorem is about the behaviors of one exercise alone.  *)
(***************************************************************************)
CONSTANTS
    HoldTime, RestTime,                     \* Hold and Rest of either
    Reps, DailySets, GetReplies, MaxSets,   \* BreathingSession
    Gap, ReverseTime, Countdown             \* WarmUpSession

VARIABLES
    rests,                           \* the delays of either
    startStop, counter, sets, breathingGetModel, earned, done,
    watch2, watch3, four_started, reverse_started, seconds_timer, ticking,
    owed, gaps, finishing, w_running

B == INSTANCE BreathingSession WITH Hold <- HoldTime, Rest <- RestTime
W == INSTANCE WarmUpSession WITH Hold <- HoldTime, Rest <- RestTime
-----------------------------------------------------------------------------
(***************************************************************************)
(* The breathing screen.                                                   *)
(***************************************************************************)
\* The watch never passes the length of a breath, and the current set has been
\* paid for with the time of its breaths so far, and of the one that runs.
Measured ==
    /\ watch \in B!Stopwatch /\ watch.at <= HoldTime
    /\ counter \in 0..(Reps + 1) /\ earned \in 0..B!SetTime
    /\ \/ earned >= counter * HoldTime + watch.at
       \/ earned = B!SetTime

\* The rests pending, in the order in which they began.
InOrder ==
    /\ rests \in Seq(0..RestTime)
    /\ \A i, j \in DOMAIN rests : i <= j => rests[i] <= rests[j]

\* A loader for every call that is out.
BreathingLoaders ==
    /\ mounted \in BOOLEAN /\ contexts \in BOOLEAN
    /\ breathingGetModel \in [st : {"null", "error", "ok"}, sets : Nat]
    /\ chains \in [B!Stage -> Nat]
    /\ sets \in Nat /\ serverSets \in Nat /\ done \in Nat /\ left \in Nat
    /\ loaders = chains["post"] + chains["get"] + left

Stoppable ==
    /\ startStop \in BOOLEAN /\ controller \in {"none", "live", "disposed"}
    /\ B!RunningIsStoppable

BInv == Measured /\ InOrder /\ BreathingLoaders /\ Stoppable

LEMMA BreathingConstants ==
    ASSUME B!Lengths
    PROVE  /\ HoldTime \in Nat \ {0} /\ RestTime \in Nat \ {0}
           /\ Reps \in Nat \ {0} /\ HoldTime < Minute /\ Minute \in Nat
           /\ B!SetTime \in Nat /\ HoldTime <= B!SetTime
<1>1. /\ HoldTime \in Nat \ {0} /\ RestTime \in Nat \ {0}
      /\ Reps \in Nat \ {0} /\ HoldTime < Minute /\ Minute \in Nat
  BY MinuteAssumption DEF B!Lengths
<1>2. /\ Reps * HoldTime \in Nat
      /\ HoldTime <= Reps * HoldTime
  BY <1>1
<1> QED
  BY <1>1, <1>2 DEF B!SetTime

LEMMA BreathingInit ==
    ASSUME B!Lengths, B!Init
    PROVE  BInv
<1>1. Measured
  BY BreathingConstants DEF B!Init, Measured, B!Zero, B!Stopwatch
<1>2. InOrder
  BY DEF B!Init, InOrder
<1>3. BreathingLoaders
  <2>1. /\ chains \in [B!Stage -> Nat]
        /\ loaders = chains["post"] + chains["get"] + left
    BY DEF B!Init, B!NoChains, B!Stage
  <2>2. breathingGetModel \in [st : {"null", "error", "ok"}, sets : Nat]
    BY DEF B!Init, B!NoModel
  <2> QED
    BY <2>1, <2>2 DEF B!Init, BreathingLoaders
<1>4. Stoppable
  BY DEF B!Init, Stoppable, B!RunningIsStoppable, B!Zero
<1> QED
  BY <1>1, <1>2, <1>3, <1>4 DEF BInv

LEMMA BreathingWatches ==
    ASSUME NEW w \in B!Stopwatch
    PROVE  /\ B!Running(w) \in B!Stopwatch /\ B!Running(w).at = w.at
           /\ B!Running(w).run
           /\ B!Stopped(w) \in B!Stopwatch /\ B!Stopped(w).at = w.at
           /\ ~B!Stopped(w).run
           /\ B!Cleared(w) \in B!Stopwatch /\ B!Cleared(w).at = 0
           /\ B!Cleared(w).run = w.run
           /\ B!Advanced(w) \in B!Stopwatch /\ B!Advanced(w).run = w.run
           /\ B!Advanced(w).at \in {w.at, w.at + 1, 0}
           /\ w.run /\ w.at + 1 # Minute => B!Advanced(w).at = w.at + 1
           /\ ~w.run => B!Advanced(w) = w
           /\ B!Zero \in B!Stopwatch /\ ~B!Zero.run /\ B!Zero.at = 0
           /\ w.at \in Nat /\ w.run \in BOOLEAN
<1>1. /\ B!Stopwatch = Stopwatch /\ B!Zero = Zero
      /\ B!Running(w) = Running(w) /\ B!Stopped(w) = Stopped(w)
      /\ B!Cleared(w) = Cleared(w) /\ B!Advanced(w) = Advanced(w)
  BY DEF B!Stopwatch, Stopwatch, B!Zero, Zero, B!Running, Running, B!Stopped,
         Stopped, B!Cleared, Cleared, B!Advanced, Advanced
<1>2. Advanced(w).at \in {w.at, w.at + 1, 0}
  <2>1. CASE w.run
    BY <1>1, <2>1, WatchesRun
  <2>2. CASE ~w.run
    BY <1>1, <2>2, WatchesRun
  <2> QED
    BY <1>1, <2>1, <2>2, WatchesRun
<1>3. w.run /\ w.at + 1 # Minute => Advanced(w).at = w.at + 1
  BY <1>1, WatchesRun
<1> QED
  BY <1>1, <1>2, <1>3, Watches, WatchesRun

LEMMA StoppableStep ==
    ASSUME Measured, Stoppable, [B!Next]_(B!vars)
    PROVE  Stoppable'
<1> USE DEF Stoppable, B!RunningIsStoppable
<1>0. watch \in B!Stopwatch /\ watch.run \in BOOLEAN
  BY BreathingWatches DEF Measured
<1>1. CASE B!Enter \/ B!GetBegins
  BY <1>1 DEF B!Enter, B!GetBegins, B!stateVars
<1>2. CASE B!Dispose \/ B!Relaunch
  BY <1>0, <1>2, BreathingWatches DEF B!Dispose, B!Relaunch, B!NoScreen
<1>3. CASE B!StartTap \/ B!NextBreath
  BY <1>3 DEF B!StartTap, B!NextBreath, B!StartWatch, B!NewController
<1>4. CASE B!FinishTap \/ B!BreathTick
  <2>1. ~B!Cleared(B!Stopped(watch)).run
    BY <1>0, BreathingWatches
  <2> QED
    BY <1>4, <2>1 DEF B!FinishTap, B!BreathTick
<1>5. CASE B!SetDone
  BY <1>0, <1>5, BreathingWatches DEF B!SetDone
<1>6. CASE B!SetLost
  <2>1. controller # "live" /\ startStop' = TRUE /\ watch' = watch
        /\ controller' = controller
    BY <1>6 DEF B!SetLost
  <2> QED
    BY <2>1, Zenon
<1>7. CASE B!Pass
  BY <1>0, <1>7, BreathingWatches DEF B!Pass
<1>8. CASE \E r \in B!Replies, hides \in BOOLEAN : B!PostReply(r, hides)
  <2>1. controller' = controller
    BY <1>8 DEF B!PostReply
  <2>2. \/ startStop' = TRUE /\ watch' = B!Stopped(watch)
        \/ startStop' = startStop /\ watch' = watch
    BY <1>8 DEF B!PostReply
  <2>3. ~B!Stopped(watch).run
    BY <1>0, BreathingWatches
  <2>4. CASE startStop' = TRUE /\ watch' = B!Stopped(watch)
    BY <2>1, <2>3, <2>4
  <2>5. CASE startStop' = startStop /\ watch' = watch
    BY <2>1, <2>5, Zenon
  <2> QED
    BY <2>2, <2>4, <2>5
<1>9. CASE \E r \in B!Replies, hides \in BOOLEAN : B!GetReply(r, hides)
  BY <1>9 DEF B!GetReply, B!stateVars
<1>10. CASE UNCHANGED B!vars
  BY <1>10 DEF B!vars, B!stateVars
<1> QED
  BY <1>1, <1>2, <1>3, <1>4, <1>5, <1>6, <1>7, <1>8, <1>9, <1>10
  DEF B!Next, B!User, B!Clock, B!Network

\* No step completes a breath the watch has not measured.
LEMMA MeasuredStep ==
    ASSUME B!Lengths, Measured, [B!Next]_(B!vars)
    PROVE  Measured'
<1> USE BreathingConstants DEF Measured
<1>0. /\ watch \in B!Stopwatch /\ watch.at \in Nat /\ watch.at <= HoldTime
      /\ counter * HoldTime \in Nat
  BY BreathingWatches
<1>1. CASE B!Enter \/ B!GetBegins \/ B!SetLost
  BY <1>1 DEF B!Enter, B!GetBegins, B!stateVars, B!SetLost
<1>2. CASE B!Dispose \/ B!Relaunch
  <2>1. /\ watch' = B!Zero /\ counter' = 0 /\ earned' = earned
    BY <1>2 DEF B!Dispose, B!Relaunch, B!NoScreen
  <2> QED
    BY <1>0, <2>1, BreathingWatches
<1>3. CASE B!StartTap \/ B!NextBreath
  <2>1. /\ watch' = B!Running(watch) /\ counter' = counter
        /\ earned' = earned
    BY <1>3 DEF B!StartTap, B!NextBreath, B!StartWatch
  <2> QED
    BY <1>0, <2>1, BreathingWatches
<1>4. CASE B!FinishTap \/ B!BreathTick
  <2>1. /\ B!Cleared(B!Stopped(watch)) \in B!Stopwatch
        /\ B!Cleared(B!Stopped(watch)).at = 0
    BY <1>0, BreathingWatches
  <2>2. CASE B!FinishTap
    BY <1>0, <2>1, <2>2 DEF B!FinishTap
  <2>3. CASE B!BreathTick
    <3>1. /\ watch.at = HoldTime /\ earned' = earned
          /\ watch' = B!Cleared(B!Stopped(watch))
          /\ counter' = IF counter > Reps THEN counter ELSE counter + 1
      BY <2>3 DEF B!BreathTick
    <3>2. (counter + 1) * HoldTime = counter * HoldTime + HoldTime
      OBVIOUS
    <3> QED
      BY <1>0, <2>1, <3>1, <3>2
  <2> QED
    BY <1>4, <2>2, <2>3
<1>5. CASE B!SetDone
  <2>1. /\ watch' = B!Stopped(watch) /\ counter' = 0 /\ earned' = watch.at
    BY <1>5 DEF B!SetDone
  <2> QED
    BY <1>0, <2>1, BreathingWatches
<1>6. CASE B!Pass
  <2>1. /\ watch' = B!Advanced(watch) /\ counter' = counter
        /\ ~(watch.run /\ watch.at = HoldTime)
        /\ earned' = IF watch.run /\ earned < B!SetTime
                       THEN earned + 1 ELSE earned
    BY <1>6 DEF B!Pass, B!BreathingDue
  <2>2. /\ watch'.at \in {watch.at, watch.at + 1, 0} /\ watch' \in B!Stopwatch
        /\ ~watch.run => watch' = watch
    BY <1>0, <2>1, BreathingWatches
  <2>3. CASE watch.run
    BY <1>0, <2>1, <2>2, <2>3
  <2>4. CASE ~watch.run
    BY <1>0, <2>1, <2>2, <2>4
  <2> QED
    BY <2>3, <2>4
<1>7. CASE \E r \in B!Replies, hides \in BOOLEAN : B!PostReply(r, hides)
  <2>1. /\ earned' = earned
        /\ \/ watch' = B!Stopped(watch) /\ counter' = 0
           \/ watch' = watch /\ counter' = counter
    BY <1>7 DEF B!PostReply
  <2> QED
    BY <1>0, <2>1, BreathingWatches
<1>8. CASE \E r \in B!Replies, hides \in BOOLEAN : B!GetReply(r, hides)
  BY <1>8 DEF B!GetReply, B!stateVars
<1>9. CASE UNCHANGED B!vars
  BY <1>9 DEF B!vars, B!stateVars
<1> QED
  BY <1>1, <1>2, <1>3, <1>4, <1>5, <1>6, <1>7, <1>8, <1>9
  DEF B!Next, B!User, B!Clock, B!Network

LEMMA InOrderStep ==
    ASSUME B!Lengths, InOrder, [B!Next]_(B!vars)
    PROVE  InOrder'
<1> USE DEF InOrder
<1>0. RestTime \in Nat \ {0}
  BY BreathingConstants
<1>1. CASE UNCHANGED rests
  BY <1>1
<1>2. CASE rests' = <<>>
  BY <1>2
<1>3. CASE rests' = Append(rests, RestTime)
  <2>1. rests' \in Seq(0..RestTime)
    BY <1>0, <1>3
  <2>2. ASSUME NEW i \in DOMAIN rests', NEW j \in DOMAIN rests', i <= j
        PROVE  rests'[i] <= rests'[j]
    <3>1. /\ Len(rests) \in Nat /\ DOMAIN rests = 1..Len(rests)
          /\ DOMAIN rests' = 1..(Len(rests) + 1)
      BY <1>0, <1>3
    <3>2. CASE j = Len(rests) + 1
      BY <1>0, <1>3, <2>1, <3>1, <3>2
    <3>3. CASE j <= Len(rests)
      BY <1>3, <2>2, <3>1, <3>3
    <3> QED
      BY <3>1, <3>2, <3>3
  <2> QED
    BY <2>1, <2>2
<1>4. CASE rests # <<>> /\ rests' = Tail(rests)
  <2>1. /\ rests' \in Seq(0..RestTime)
        /\ DOMAIN rests' = 1..(Len(rests) - 1) /\ Len(rests) \in Nat
        /\ \A i \in 1..(Len(rests) - 1) : rests'[i] = rests[i + 1]
    BY <1>4
  <2>2. ASSUME NEW i \in DOMAIN rests', NEW j \in DOMAIN rests', i <= j
        PROVE  rests'[i] <= rests'[j]
    BY <2>1, <2>2
  <2> QED
    BY <2>1, <2>2
<1>5. CASE B!Pass
  <2>1. /\ rests' = [i \in DOMAIN rests |-> rests[i] - 1]
        /\ rests = <<>> \/ Head(rests) # 0
    BY <1>5 DEF B!Pass, B!BreathingDue, B!RestDue
  <2>2. /\ DOMAIN rests = 1..Len(rests) /\ Len(rests) \in Nat
        /\ \A i \in DOMAIN rests : rests[i] \in 0..RestTime
    <3>1. rests \in Seq(0..RestTime)
      OBVIOUS
    <3> QED
      BY <3>1, ElementOfSeq, LenProperties
  <2>3. ASSUME NEW i \in DOMAIN rests
        PROVE  rests[i] - 1 \in 0..RestTime
    <3>1. 1 \in DOMAIN rests /\ rests # <<>> /\ 1 <= i
      BY <2>2, <2>3
    <3>2. Head(rests) = rests[1] /\ rests[1] <= rests[i]
      BY <2>2, <2>3, <3>1
    <3> QED
      BY <1>0, <2>1, <2>2, <3>1, <3>2
  <2>4. rests' \in Seq(0..RestTime)
    BY <2>1, <2>2, <2>3
  <2> QED
    BY <2>1, <2>2, <2>3, <2>4
<1>6. \/ UNCHANGED rests
      \/ rests' = <<>>
      \/ rests' = Append(rests, RestTime)
      \/ rests # <<>> /\ rests' = Tail(rests)
      \/ B!Pass
  BY DEF B!Next, B!User, B!Clock, B!Network, B!vars, B!stateVars, B!Enter,
         B!Dispose, B!Relaunch, B!NoScreen, B!StartTap, B!FinishTap,
         B!BreathTick, B!NextBreath, B!SetDone, B!SetLost, B!RestDue,
         B!GetBegins, B!PostReply, B!GetReply
<1> QED
  BY <1>1, <1>2, <1>3, <1>4, <1>5, <1>6

LEMMA BreathingLoadersStep ==
    ASSUME BreathingLoaders, [B!Next]_(B!vars)
    PROVE  BreathingLoaders'
<1> USE DEF BreathingLoaders
<1>0. /\ {"post", "frame", "get"} \subseteq B!Stage
      /\ \A s \in B!Stage : chains[s] \in Nat
  BY DEF B!Stage
<1>1. CASE B!Enter
  BY <1>0, <1>1 DEF B!Enter, B!Start, B!controllerVars, B!loaderVars
<1>2. CASE B!Dispose
  <2>1. /\ loaders = 0 /\ loaders' = loaders /\ left' = left
        /\ B!NoScreen
    BY <1>2 DEF B!Dispose, B!loaderVars
  <2>2. left' = 0
    BY <1>0, <2>1
  <2>3. /\ chains' \in [B!Stage -> Nat] /\ chains'["post"] = 0
        /\ chains'["get"] = 0
    BY <2>1 DEF B!NoScreen, B!NoChains, B!Stage
  <2> QED
    <3>1. loaders' = chains'["post"] + chains'["get"] + left'
      BY <1>2, <2>1, <2>2, <2>3
      DEF B!Dispose, B!NoScreen, B!controllerVars, B!loaderVars
    <3>2. mounted' \in BOOLEAN /\ contexts' \in BOOLEAN
      BY <1>2, <2>1, <2>2, <2>3
      DEF B!Dispose, B!NoScreen, B!controllerVars, B!loaderVars
    <3>3. /\ sets' \in Nat /\ serverSets' \in Nat /\ done' \in Nat
          /\ left' \in Nat
      BY <1>2, <2>1, <2>2, <2>3
      DEF B!Dispose, B!NoScreen, B!controllerVars, B!loaderVars
    <3>4. breathingGetModel' \in [st : {"null", "error", "ok"}, sets : Nat]
      BY <1>2, <2>1, <2>2, <2>3
      DEF B!Dispose, B!NoScreen, B!controllerVars, B!loaderVars
    <3>5. chains' \in [B!Stage -> Nat]
      BY <1>2, <2>1, <2>2, <2>3
      DEF B!Dispose, B!NoScreen, B!controllerVars, B!loaderVars
    <3> QED
      BY <3>1, <3>2, <3>3, <3>4, <3>5
<1>3. CASE B!StartTap \/ B!FinishTap \/ B!NextBreath \/ B!SetLost
  BY <1>3 DEF B!StartTap, B!FinishTap, B!NextBreath, B!SetLost, B!netVars,
              B!controllerVars, B!loaderVars
<1>4. CASE B!BreathTick \/ B!Pass
  BY <1>4 DEF B!BreathTick, B!Pass, B!netVars, B!controllerVars, B!loaderVars
<1>5. CASE B!SetDone
  BY <1>0, <1>5 DEF B!SetDone, B!Start, B!ShowLoader
<1>6. CASE B!GetBegins
  BY <1>0, <1>6 DEF B!GetBegins, B!Move, B!ShowLoader, B!stateVars,
                    B!controllerVars
<1>7. ASSUME NEW r, NEW hides \in BOOLEAN, B!PostReply(r, hides)
      PROVE  BreathingLoaders'
  <2>1. /\ mounted' = mounted /\ sets' = sets /\ done' = done
        /\ breathingGetModel' = breathingGetModel
        /\ serverSets' \in {serverSets, serverSets + 1}
    BY <1>7 DEF B!PostReply, B!controllerVars
  <2>2. chains["post"] \in Nat \ {0}
    BY <1>0, <1>7 DEF B!PostReply
  <2>3. /\ chains' \in [B!Stage -> Nat] /\ chains'["get"] = chains["get"]
        /\ chains'["post"] = chains["post"] - 1
    <3>1. CASE B!End("post")
      BY <1>0, <2>2, <3>1 DEF B!End
    <3>2. CASE B!Move("post", "frame")
      BY <1>0, <2>2, <3>2 DEF B!Move
    <3> QED
      BY <1>7, <3>1, <3>2 DEF B!PostReply, B!AfterPost
  <2>4. \/ left' = left /\ loaders' = loaders - 1 /\ contexts' = FALSE
        \/ left' = left + 1 /\ loaders' = loaders /\ contexts' = contexts
    <3>1. CASE r \in B!Handled /\ hides
      BY <1>7, <3>1 DEF B!PostReply, B!Orphaned, B!HideLoader
    <3>2. CASE ~(r \in B!Handled /\ hides)
      BY <1>7, <3>2 DEF B!PostReply, B!Orphaned, B!loaderVars
    <3> QED
      BY <3>1, <3>2
  <2> QED
    <3>1. loaders' = chains'["post"] + chains'["get"] + left'
      BY <1>0, <2>1, <2>2, <2>3, <2>4
    <3>2. mounted' \in BOOLEAN /\ contexts' \in BOOLEAN
      BY <1>0, <2>1, <2>2, <2>3, <2>4
    <3>3. /\ sets' \in Nat /\ serverSets' \in Nat /\ done' \in Nat
          /\ left' \in Nat
      BY <1>0, <2>1, <2>2, <2>3, <2>4
    <3>4. breathingGetModel' \in [st : {"null", "error", "ok"}, sets : Nat]
      BY <1>0, <2>1, <2>2, <2>3, <2>4
    <3>5. chains' \in [B!Stage -> Nat]
      BY <1>0, <2>1, <2>2, <2>3, <2>4
    <3> QED
      BY <3>1, <3>2, <3>3, <3>4, <3>5
<1>8. ASSUME NEW r, NEW hides \in BOOLEAN, B!GetReply(r, hides)
      PROVE  BreathingLoaders'
  <2>1. /\ mounted' = mounted /\ done' = done /\ serverSets' = serverSets
    BY <1>8 DEF B!GetReply, B!stateVars
  <2>2. /\ breathingGetModel' \in [st : {"null", "error", "ok"}, sets : Nat]
        /\ sets' \in {sets, breathingGetModel'.sets}
    BY <1>8 DEF B!GetReply, B!FetchedModel, B!ErrorModel
  <2>3. chains["get"] \in Nat \ {0}
    BY <1>0, <1>8 DEF B!GetReply
  <2>4. /\ chains' \in [B!Stage -> Nat] /\ chains'["post"] = chains["post"]
        /\ chains'["get"] = chains["get"] - 1
    BY <1>0, <1>8, <2>3 DEF B!GetReply, B!End
  <2>5. \/ left' = left /\ loaders' = loaders - 1 /\ contexts' = FALSE
        \/ left' = left + 1 /\ loaders' = loaders /\ contexts' = contexts
    <3>1. CASE r \in B!Handled /\ hides
      BY <1>8, <3>1 DEF B!GetReply, B!Orphaned, B!HideLoader
    <3>2. CASE ~(r \in B!Handled /\ hides)
      BY <1>8, <3>2 DEF B!GetReply, B!Orphaned, B!loaderVars
    <3> QED
      BY <3>1, <3>2
  <2> QED
    <3>1. loaders' = chains'["post"] + chains'["get"] + left'
      BY <1>0, <2>1, <2>2, <2>3, <2>4, <2>5
    <3>2. mounted' \in BOOLEAN /\ contexts' \in BOOLEAN
      BY <1>0, <2>1, <2>2, <2>3, <2>4, <2>5
    <3>3. /\ sets' \in Nat /\ serverSets' \in Nat /\ done' \in Nat
          /\ left' \in Nat
      BY <1>0, <2>1, <2>2, <2>3, <2>4, <2>5
    <3>4. breathingGetModel' \in [st : {"null", "error", "ok"}, sets : Nat]
      BY <1>0, <2>1, <2>2, <2>3, <2>4, <2>5
    <3>5. chains' \in [B!Stage -> Nat]
      BY <1>0, <2>1, <2>2, <2>3, <2>4, <2>5
    <3> QED
      BY <3>1, <3>2, <3>3, <3>4, <3>5
<1>9. CASE B!Relaunch
  <2>1. /\ loaders' = 0 /\ left' = 0 /\ contexts' = FALSE /\ sets' = 0
        /\ mounted' = FALSE /\ done' = done
    BY <1>9 DEF B!Relaunch, B!NoScreen
  <2>2. serverSets' \in Nat
    BY <1>0, <1>9 DEF B!Relaunch
  <2>3. breathingGetModel' \in [st : {"null", "error", "ok"}, sets : Nat]
    BY <1>9 DEF B!Relaunch, B!NoModel
  <2>4. /\ chains' \in [B!Stage -> Nat] /\ chains'["post"] = 0
        /\ chains'["get"] = 0
    BY <1>9 DEF B!Relaunch, B!NoScreen, B!NoChains, B!Stage
  <2> QED
    <3>1. loaders' = chains'["post"] + chains'["get"] + left'
      BY <2>1, <2>2, <2>3, <2>4
    <3>2. mounted' \in BOOLEAN /\ contexts' \in BOOLEAN
      BY <2>1, <2>2, <2>3, <2>4
    <3>3. /\ sets' \in Nat /\ serverSets' \in Nat /\ done' \in Nat
          /\ left' \in Nat
      BY <2>1, <2>2, <2>3, <2>4
    <3>4. breathingGetModel' \in [st : {"null", "error", "ok"}, sets : Nat]
      BY <2>1, <2>2, <2>3, <2>4
    <3>5. chains' \in [B!Stage -> Nat]
      BY <2>1, <2>2, <2>3, <2>4
    <3> QED
      BY <3>1, <3>2, <3>3, <3>4, <3>5
<1>10. CASE UNCHANGED B!vars
  BY <1>10 DEF B!vars, B!stateVars, B!netVars, B!controllerVars, B!loaderVars
<1> QED
  BY <1>1, <1>2, <1>3, <1>4, <1>5, <1>6, <1>7, <1>8, <1>9, <1>10
  DEF B!Next, B!User, B!Clock, B!Network

LEMMA BreathingInductive ==
    ASSUME B!Lengths
    PROVE  B!Spec => []BInv
<1>1. B!Init => BInv
  BY BreathingInit
<1>2. BInv /\ [B!Next]_(B!vars) => BInv'
  BY StoppableStep, MeasuredStep, InOrderStep, BreathingLoadersStep DEF BInv
<1> QED
  BY <1>1, <1>2, PTL DEF B!Spec

\* The breathing tab and its controller keep their types; in particular a reply
\* never takes down a loader that is not up (breathing_controller.dart 23-121).
THEOREM BreathingTypeCorrect ==
    ASSUME B!Lengths
    PROVE  B!Spec => []B!TypeOK
<1>1. BInv => B!TypeOK
  BY DEF BInv, Measured, InOrder, BreathingLoaders, Stoppable, B!TypeOK,
         B!LoaderTypeOK, B!Stage
<1> QED
  BY <1>1, BreathingInductive, PTL

\* Whatever was begun, finished or left during the two seconds after a breath, a
\* watch that runs is under a button that stops it (Breathing_screen.dart 62-100).
THEOREM RunningIsStoppableHolds ==
    ASSUME B!Lengths
    PROVE  B!Spec => []B!RunningIsStoppable
<1>1. BInv => B!RunningIsStoppable
  BY DEF BInv, Stoppable
<1> QED
  BY <1>1, BreathingInductive, PTL

\* A completed set has taken the time of all its breaths, for any number and
\* length of breaths (Breathing_screen.dart 62-100).
THEOREM SetsAreEarnedHolds ==
    ASSUME B!Lengths
    PROVE  B!Spec => B!SetsAreEarned
<1>1. ASSUME BInv, B!Next, done' > done
      PROVE  earned = B!SetTime
  <2>1. done \in Nat
    BY <1>1 DEF BInv, BreathingLoaders
  <2>2. B!SetDone
    BY <1>1, <2>1
    DEF B!Next, B!User, B!Clock, B!Network, B!Enter, B!Dispose, B!StartTap,
        B!FinishTap, B!Pass, B!BreathTick, B!NextBreath, B!SetLost,
        B!GetBegins, B!PostReply, B!GetReply, B!Relaunch
  <2>3. counter = Reps
    BY <2>2 DEF B!SetDone, B!SetComplete
  <2> QED
    <3>1. /\ watch.at \in Nat /\ earned \in 0..B!SetTime
          /\ \/ earned >= counter * HoldTime + watch.at
             \/ earned = B!SetTime
      BY <1>1, BreathingWatches DEF BInv, Measured
    <3>2. counter * HoldTime = B!SetTime
      BY <2>3 DEF B!SetTime
    <3> QED
      BY <3>1, <3>2, BreathingConstants
<1>2. BInv /\ [B!Next]_(B!vars)
        => [done' > done => earned = B!SetTime]_(B!vars)
  BY <1>1
<1> QED
  BY <1>2, BreathingInductive, PTL DEF B!Spec, B!SetsAreEarned
-----------------------------------------------------------------------------
\* A rest that is over before any breath that is begun meanwhile can be.
BreathOutlastsRest == RestTime < HoldTime

OneRest ==
    \/ rests = <<>>
    \/ \E r \in 0..RestTime : rests = <<r>> /\ watch.at + r <= RestTime

\* The step of each action, as HoldCycle's; and there is one rest at a time.
LEMMA BreathingCycleStep ==
    ASSUME B!Lengths, BreathOutlastsRest, Measured, OneRest, [B!Next]_(B!vars)
    PROVE  OneRest' /\ [B!Cycle!Next]_(B!Cycle!vars)
<1>1. /\ watch \in B!Stopwatch /\ watch.at \in Nat /\ watch.run \in BOOLEAN
      /\ watch.at <= HoldTime
  BY BreathingWatches DEF Measured
<1>2. /\ HoldTime \in Nat /\ RestTime \in Nat /\ RestTime > 0
      /\ RestTime < HoldTime /\ HoldTime < Minute /\ Minute \in Nat
  BY BreathingConstants DEF BreathOutlastsRest
<1>3. ASSUME rests' = rests, watch' = watch
      PROVE  OneRest' /\ UNCHANGED B!Cycle!vars
  BY <1>3 DEF OneRest, B!Cycle!vars
<1>4. ASSUME rests' = rests, watch'.at \in {0, watch.at}
      PROVE  OneRest'
  BY <1>1, <1>2, <1>4 DEF OneRest
<1>5. CASE B!StartTap
  <2>1. watch'.run /\ watch'.at = watch.at /\ rests' = rests
    BY <1>1, <1>5, BreathingWatches DEF B!StartTap, B!StartWatch
  <2> QED
    BY <1>1, <1>4, <2>1 DEF B!Cycle!Next, B!Cycle!Begin, B!Cycle!vars
<1>6. CASE B!FinishTap
  <2>1. ~watch'.run /\ watch'.at = 0 /\ rests' = rests
    BY <1>1, <1>6, BreathingWatches DEF B!FinishTap
  <2> QED
    BY <1>4, <2>1 DEF B!Cycle!Next, B!Cycle!Interrupt
<1>7. CASE \E r \in B!Replies, hides \in BOOLEAN : B!PostReply(r, hides)
  <2>1. rests' = rests /\ (watch' = watch \/ watch' = B!Stopped(watch))
    BY <1>7 DEF B!PostReply
  <2>2. watch'.at = watch.at /\ (watch'.run => watch.run)
    <3>1. ~B!Stopped(watch).run /\ B!Stopped(watch).at = watch.at
      BY <1>1, BreathingWatches
    <3> QED
      BY <2>1, <3>1
  <2> QED
    BY <1>4, <2>1, <2>2 DEF B!Cycle!Next, B!Cycle!Interrupt
<1>8. CASE B!Dispose \/ B!Relaunch
  <2>1. watch' = B!Zero /\ rests' = <<>>
    BY <1>8 DEF B!Dispose, B!Relaunch, B!NoScreen
  <2> QED
    BY <2>1 DEF OneRest, B!Cycle!Next, B!Cycle!Abandon, B!Zero
\* No rest is pending when a breath ends: it would have had less than nothing left.
<1>9. CASE B!BreathTick
  <2>1. /\ watch.run /\ watch.at = HoldTime /\ rests' = Append(rests, RestTime)
        /\ ~watch'.run /\ watch'.at = 0
    BY <1>1, <1>9, BreathingWatches DEF B!BreathTick
  <2>2. rests = <<>>
    BY <1>2, <2>1 DEF OneRest
  <2>3. rests' = <<RestTime>>
    BY <2>1, <2>2
  <2>4. /\ rests' # <<>> /\ Len(rests') = 1 /\ Len(rests) = 0
        /\ Head(rests') = RestTime
    BY <2>2, <2>3
  <2> QED
    BY <1>2, <2>1, <2>2, <2>3, <2>4 DEF OneRest, B!Cycle!Next, B!Cycle!EndHold
<1>10. CASE B!NextBreath \/ B!SetDone \/ B!SetLost
  <2>1. rests # <<>> /\ Head(rests) = 0 /\ rests' = Tail(rests)
    BY <1>10 DEF B!NextBreath, B!SetDone, B!SetLost, B!RestDue
  <2>2. rests' = <<>>
    <3>1. PICK r \in 0..RestTime : rests = <<r>>
      BY <2>1 DEF OneRest
    <3> QED
      BY <2>1, <3>1
  <2>3. \/ watch' = watch \/ watch' = B!Running(watch)
        \/ watch' = B!Stopped(watch)
    BY <1>10 DEF B!NextBreath, B!SetDone, B!SetLost, B!StartWatch
  <2>4. watch'.run \in BOOLEAN /\ watch'.at = watch.at
    <3>1. /\ B!Running(watch) \in B!Stopwatch /\ B!Running(watch).at = watch.at
          /\ B!Stopped(watch) \in B!Stopwatch /\ B!Stopped(watch).at = watch.at
      BY <1>1, BreathingWatches
    <3>2. watch' \in B!Stopwatch /\ watch'.at = watch.at
      BY <1>1, <2>3, <3>1
    <3> QED
      BY <3>2, BreathingWatches
  <2> QED
    BY <2>1, <2>2, <2>4 DEF OneRest, B!Cycle!Next, B!Cycle!EndPause
<1>11. CASE B!Pass
  <2>1. /\ watch' = B!Advanced(watch)
        /\ rests' = [i \in DOMAIN rests |-> rests[i] - 1]
        /\ rests = <<>> \/ Head(rests) # 0
        /\ ~(watch.run /\ watch.at = HoldTime)
    BY <1>11 DEF B!Pass, B!BreathingDue, B!RestDue
  <2>2. /\ watch'.run = watch.run
        /\ ~watch.run => watch'.at = watch.at
        /\ watch.run => watch.at < HoldTime /\ watch'.at = watch.at + 1
    BY <1>1, <1>2, <2>1, BreathingWatches
  <2>3. CASE rests = <<>>
    <3>1. rests' = <<>>
      BY <2>1, <2>3
    <3> QED
      BY <2>2, <2>3, <3>1 DEF OneRest, B!Cycle!Next, B!Cycle!Second
  <2>4. ASSUME NEW r \in 0..RestTime, rests = <<r>>, watch.at + r <= RestTime
        PROVE  OneRest' /\ B!Cycle!Next
    <3>1. rests' = <<r - 1>> /\ r > 0 /\ rests # <<>> /\ Head(rests) = r
      BY <1>2, <2>1, <2>4
    <3>2. /\ rests' # <<>> /\ Head(rests') = r - 1
          /\ Len(rests) = 1 /\ Len(rests') = 1
      BY <2>4, <3>1
    <3>3. watch'.at + (r - 1) <= RestTime
      BY <1>1, <1>2, <2>2, <2>4
    <3>4. OneRest'
      BY <1>2, <3>1, <3>3 DEF OneRest
    <3> QED
      BY <2>2, <3>1, <3>2, <3>4 DEF B!Cycle!Next, B!Cycle!Second
  <2> QED
    BY <2>3, <2>4 DEF OneRest
<1>12. CASE \/ B!Enter \/ B!GetBegins \/ UNCHANGED B!vars
            \/ \E r \in B!Replies, hides \in BOOLEAN : B!GetReply(r, hides)
  BY <1>3, <1>12 DEF B!Enter, B!GetBegins, B!GetReply, B!vars, B!stateVars
<1> QED
  BY <1>5, <1>6, <1>7, <1>8, <1>9, <1>10, <1>11, <1>12
  DEF B!Next, B!User, B!Clock, B!Network

\* Where a breath is longer than a rest, breaths and rests alternate as HoldCycle
\* promises, although the button says Start during a rest and a tap begins a
\* breath the callback knows nothing of (Breathing_screen.dart 62-100).
THEOREM BreathingCycleImplemented ==
    ASSUME B!Lengths, BreathOutlastsRest
    PROVE  B!Spec => B!CycleSpec
<1>1. B!Init => OneRest /\ B!Cycle!Init
  BY DEF B!Init, OneRest, B!Cycle!Init, B!Zero
<1>2. BInv /\ OneRest /\ [B!Next]_(B!vars)
        => OneRest' /\ [B!Cycle!Next]_(B!Cycle!vars)
  BY BreathingCycleStep DEF BInv
<1> QED
  BY <1>1, <1>2, BreathingInductive, PTL DEF B!Spec, B!CycleSpec, B!Cycle!Spec
-----------------------------------------------------------------------------
(***************************************************************************)
(* The warm-up screen.                                                     *)
(***************************************************************************)
\* How far watch3's display is past the second that starts a hold.
PastOf(w) ==
    IF w.at >= Countdown THEN w.at - Countdown ELSE w.at + Minute - Countdown
Past == PastOf(watch3)

WarmUpTypes ==
    /\ mounted \in BOOLEAN /\ started \in BOOLEAN /\ four_started \in BOOLEAN
    /\ reverse_started \in BOOLEAN /\ ticking \in BOOLEAN /\ owed \in BOOLEAN
    /\ w_running \in BOOLEAN
    /\ watch \in W!Stopwatch /\ watch2 \in W!Stopwatch
    /\ watch3 \in W!Stopwatch
    /\ finishing \in {"no", "awaits", "over"}
    /\ seconds_timer \in 1..ReverseTime

\* During a rest either Start and Finish are both out of reach, or Finish was
\* tapped in the last second of the hold, Start is back, and watch3, should it
\* run again, does not come round to Countdown before the rest is over.
Resting(r) ==
    /\ ~watch.run /\ watch.at = 0
    /\ \/ four_started /\ ~started /\ finishing = "no" /\ ~watch3.run
       \/ Past > 0 /\ Past + r < Gap + RestTime

\* During a gap watch3 may have started the next hold before the delay does, but
\* not in the gap's first second: that hold cannot end before the gap does.  It
\* is no longer than what watch3 has run past Countdown.
Waiting(g) ==
    /\ watch.run => watch3.run
    /\ watch.run \/ watch.at > 0 => watch.at <= Past /\ Past + g < Gap
    /\ g = Gap => Past > 0 \/ (~started /\ ~watch3.run /\ finishing # "over")

\* One delay at a time.
OneDelay ==
    \/ rests = <<>> /\ gaps = <<>>
    \/ gaps = <<>> /\ \E r \in 0..RestTime : rests = <<r>> /\ Resting(r)
    \/ rests = <<>> /\ \E g \in 0..Gap : gaps = <<g>> /\ Waiting(g)

\* While Finish awaits its animation the button is not Start.  If the watch runs
\* all the same, the delay of a gap has started it behind Finish.
Awaiting ==
    /\ finishing # "no" => ~started /\ ~watch3.run
    /\ finishing = "awaits" /\ watch.run
        => /\ watch.at < HoldTime
           /\ watch.at > 0 => watch.at <= Past /\ Past < Gap
    /\ finishing = "over" /\ watch.run /\ watch.at > 1
        => watch.at - 1 <= Past /\ Past < Gap

WInv == WarmUpTypes /\ OneDelay /\ Awaiting

LEMMA WarmUpConstants ==
    ASSUME W!Phases
    PROVE  /\ HoldTime \in Nat \ {0} /\ RestTime \in Nat \ {0}
           /\ Gap \in Nat \ {0} /\ ReverseTime \in Nat \ {0}
           /\ Countdown \in Nat \ {0} /\ Minute \in Nat
           /\ HoldTime < Minute /\ RestTime < Minute /\ Countdown < Minute
BY MinuteAssumption DEF W!Phases

LEMMA WarmUpWatches ==
    ASSUME W!Phases, NEW w \in W!Stopwatch
    PROVE  /\ W!Running(w) \in W!Stopwatch /\ W!Running(w).at = w.at
           /\ W!Running(w).run
           /\ W!Stopped(w) \in W!Stopwatch /\ W!Stopped(w).at = w.at
           /\ ~W!Stopped(w).run
           /\ W!Cleared(w) \in W!Stopwatch /\ W!Cleared(w).at = 0
           /\ W!Cleared(w).run = w.run
           /\ W!Advanced(w) \in W!Stopwatch
           /\ ~w.run => W!Advanced(w) = w
           /\ W!Advanced(w).run = w.run
           /\ w.run /\ w.at + 1 < Minute => W!Advanced(w).at = w.at + 1
           /\ W!Zero \in W!Stopwatch /\ ~W!Zero.run /\ W!Zero.at = 0
           /\ w.at \in Nat /\ w.at < Minute /\ w.run \in BOOLEAN
<1>1. /\ W!Stopwatch = Stopwatch /\ W!Zero = Zero
      /\ W!Running(w) = Running(w) /\ W!Stopped(w) = Stopped(w)
      /\ W!Cleared(w) = Cleared(w) /\ W!Advanced(w) = Advanced(w)
  BY DEF W!Stopwatch, Stopwatch, W!Zero, Zero, W!Running, Running, W!Stopped,
         Stopped, W!Cleared, Cleared, W!Advanced, Advanced
<1>2. w.run /\ w.at + 1 < Minute => Advanced(w).at = w.at + 1
  BY <1>1, WatchesRun
<1> QED
  BY <1>1, <1>2, Watches, WatchesRun

LEMMA PastFacts ==
    ASSUME W!Phases, NEW w \in W!Stopwatch
    PROVE  /\ PastOf(w) \in Nat /\ PastOf(w) < Minute
           /\ PastOf(w) = 0 <=> w.at = Countdown
           /\ PastOf(W!Running(w)) = PastOf(w)
           /\ PastOf(W!Stopped(w)) = PastOf(w)
           /\ w.run /\ PastOf(w) + 1 < Minute
                => PastOf(W!Advanced(w)) = PastOf(w) + 1
<1>1. /\ w.at \in Nat /\ w.at < Minute /\ Minute \in Nat /\ Countdown \in Nat
      /\ Countdown < Minute /\ w.run \in BOOLEAN /\ Countdown > 0
  BY WarmUpConstants, WarmUpWatches
<1>2. W!Running(w).at = w.at /\ W!Stopped(w).at = w.at
  BY WarmUpWatches
<1>3. w.run => W!Advanced(w).at = IF w.at + 1 = Minute THEN 0 ELSE w.at + 1
  BY DEF W!Advanced
<1> QED
  BY <1>1, <1>2, <1>3 DEF PastOf

LEMMA WarmUpTypesInit ==
    ASSUME W!Phases, W!Init
    PROVE  WarmUpTypes
<1>1. W!Zero \in W!Stopwatch
  BY MinuteAssumption DEF W!Zero, W!Stopwatch
<1>2. /\ mounted = FALSE /\ started = TRUE /\ four_started = FALSE
      /\ reverse_started = FALSE /\ ticking = FALSE /\ owed = FALSE
      /\ w_running = FALSE
  BY DEF W!Init
<1>3. /\ watch = W!Zero /\ watch2 = W!Zero /\ watch3 = W!Zero
      /\ finishing = "no" /\ seconds_timer = ReverseTime
  BY DEF W!Init
<1>4. /\ mounted \in BOOLEAN /\ started \in BOOLEAN
      /\ four_started \in BOOLEAN /\ reverse_started \in BOOLEAN
      /\ ticking \in BOOLEAN /\ owed \in BOOLEAN /\ w_running \in BOOLEAN
  BY <1>2
<1> QED
  BY <1>1, <1>3, <1>4, WarmUpConstants DEF WarmUpTypes

LEMMA WarmUpTypesStep ==
    ASSUME W!Phases, WarmUpTypes, [W!Next]_(W!vars)
    PROVE  WarmUpTypes'
<1> USE WarmUpConstants DEF WarmUpTypes
<1>1. /\ \A w \in W!Stopwatch :
            /\ W!Running(w) \in W!Stopwatch /\ W!Stopped(w) \in W!Stopwatch
            /\ W!Cleared(w) \in W!Stopwatch /\ W!Advanced(w) \in W!Stopwatch
      /\ W!Zero \in W!Stopwatch
  BY WarmUpWatches
<1>2. CASE W!Enter
  BY <1>2 DEF W!Enter, W!watches, W!countdown
<1>3. CASE W!BackArrow \/ W!Swipe \/ W!SystemBack
  <2>1. /\ mounted' = FALSE /\ started' = TRUE /\ four_started' = FALSE
        /\ reverse_started' = FALSE /\ ticking' = FALSE /\ owed' = FALSE
        /\ w_running' = w_running \/ w_running' = FALSE
    BY <1>3 DEF W!BackArrow, W!Swipe, W!SystemBack, W!Leave, W!Dispose
  <2>2. /\ watch' = W!Zero /\ watch2' = W!Zero /\ watch3' = W!Zero
        /\ finishing' = "no" /\ seconds_timer' = ReverseTime
    BY <1>3 DEF W!BackArrow, W!Swipe, W!SystemBack, W!Leave, W!Dispose
  <2>3. /\ mounted' \in BOOLEAN /\ started' \in BOOLEAN
        /\ four_started' \in BOOLEAN /\ reverse_started' \in BOOLEAN
        /\ ticking' \in BOOLEAN /\ owed' \in BOOLEAN /\ w_running' \in BOOLEAN
    BY <2>1
  <2> QED
    BY <1>1, <2>2, <2>3
<1>4. CASE W!StartTap
  BY <1>1, <1>4 DEF W!StartTap, W!countdown
<1>5. CASE W!FinishTap
  BY <1>1, <1>5 DEF W!FinishTap, W!StopAll, W!countdown
<1>6. CASE W!FinishDone
  <2>1. ticking' \in BOOLEAN /\ owed' \in BOOLEAN
    BY <1>6 DEF W!FinishDone, W!TickingOn
  <2> QED
    BY <1>1, <1>6, <2>1 DEF W!FinishDone
<1>7. CASE W!CountdownTick
  BY <1>1, <1>7 DEF W!CountdownTick, W!StartWatch, W!countdown
<1>8. CASE W!HoldTick
  BY <1>1, <1>8 DEF W!HoldTick, W!countdown
<1>9. CASE W!RestTick
  BY <1>1, <1>9 DEF W!RestTick, W!countdown
<1>10. CASE W!RestDone
  <2>1. /\ mounted' = mounted /\ started' = started /\ four_started' = FALSE
        /\ reverse_started' = TRUE /\ ticking' = TRUE /\ owed' = owed
        /\ w_running' = w_running /\ finishing' = finishing
        /\ seconds_timer' = seconds_timer
    BY <1>10 DEF W!RestDone
  <2>2. /\ watch' = W!Stopped(watch) /\ watch2' = W!Stopped(watch2)
        /\ watch3' = W!Stopped(watch3)
    BY <1>10 DEF W!RestDone, W!StopAll
  <2>3. /\ mounted' \in BOOLEAN /\ started' \in BOOLEAN
        /\ four_started' \in BOOLEAN /\ reverse_started' \in BOOLEAN
        /\ ticking' \in BOOLEAN /\ owed' \in BOOLEAN /\ w_running' \in BOOLEAN
    BY <2>1
  <2>4. /\ finishing' \in {"no", "awaits", "over"}
        /\ seconds_timer' \in 1..ReverseTime
    BY <2>1
  <2> QED
    <3>1. /\ watch' \in W!Stopwatch /\ watch2' \in W!Stopwatch
          /\ watch3' \in W!Stopwatch
      BY <1>1, <2>2
    <3> QED
      BY <2>3, <2>4, <3>1
<1>11. CASE W!ReverseTick
  <2>1. /\ mounted' = mounted /\ started' = started
        /\ four_started' = four_started /\ w_running' = w_running
        /\ finishing' = finishing
        /\ watch' = watch /\ watch2' = watch2 /\ watch3' = watch3
    BY <1>11 DEF W!ReverseTick, W!watches
  <2>2. CASE W!ReverseOver
    <3>1. /\ owed' = FALSE /\ reverse_started' = FALSE /\ ticking' = FALSE
          /\ seconds_timer' \in 1..ReverseTime
      BY <1>11, <2>2 DEF W!ReverseTick
    <3>2. reverse_started' \in BOOLEAN /\ ticking' \in BOOLEAN
          /\ owed' \in BOOLEAN
      BY <3>1
    <3> QED
      BY <2>1, <3>1, <3>2
  <2>3. CASE ~W!ReverseOver
    <3>1. /\ owed' = FALSE /\ reverse_started' = reverse_started
          /\ ticking' = ticking /\ seconds_timer' = seconds_timer - 1
      BY <1>11, <2>3 DEF W!ReverseTick
    <3>2. seconds_timer' \in 1..ReverseTime
      BY <2>3, <3>1 DEF W!ReverseOver
    <3> QED
      BY <2>1, <3>1, <3>2
  <2> QED
    BY <2>2, <2>3
<1>12. CASE W!GapDone
  BY <1>1, <1>12 DEF W!GapDone, W!StartWatch
<1>13. CASE W!Pass
  BY <1>1, <1>13 DEF W!Pass
<1>14. CASE UNCHANGED W!vars
  BY <1>14 DEF W!vars, W!watches, W!countdown
<1> QED
  BY <1>2, <1>3, <1>4, <1>5, <1>6, <1>7, <1>8, <1>9, <1>10, <1>11, <1>12,
     <1>13, <1>14
  DEF W!Next, W!User, W!Clock

DelayTypes == rests \in Seq(0..RestTime) /\ gaps \in Seq(0..Gap)

LEMMA DelayTypesStep ==
    ASSUME W!Phases, DelayTypes, [W!Next]_(W!vars)
    PROVE  DelayTypes'
<1>1. /\ RestTime \in Nat \ {0} /\ Gap \in Nat \ {0}
      /\ rests \in Seq(0..RestTime) /\ gaps \in Seq(0..Gap)
  BY WarmUpConstants DEF DelayTypes
<1>2. CASE rests' = <<>> /\ gaps' = <<>>
  BY <1>2 DEF DelayTypes
<1>3. CASE UNCHANGED <<rests, gaps>>
  BY <1>1, <1>3 DEF DelayTypes
<1>4. CASE W!HoldTick
  BY <1>1, <1>4 DEF W!HoldTick, DelayTypes
<1>5. CASE W!RestDone
  <2>1. /\ rests # <<>> /\ rests' = Tail(rests) /\ gaps' = Append(gaps, Gap)
    BY <1>5 DEF W!RestDone
  <2> QED
    BY <1>1, <2>1 DEF DelayTypes
<1>6. CASE W!GapDone
  <2>1. rests' = rests /\ gaps # <<>> /\ gaps' = Tail(gaps)
    BY <1>6 DEF W!GapDone
  <2> QED
    BY <1>1, <2>1 DEF DelayTypes
<1>7. CASE W!Pass
  <2>1. /\ rests' = [i \in DOMAIN rests |-> rests[i] - 1]
        /\ gaps' = [i \in DOMAIN gaps |-> gaps[i] - 1]
        /\ \A i \in DOMAIN rests : rests[i] # 0
        /\ \A i \in DOMAIN gaps : gaps[i] # 0
    BY <1>7 DEF W!Pass, W!Due
  <2>2. /\ \A i \in DOMAIN rests : rests[i] \in 0..RestTime
        /\ \A i \in DOMAIN gaps : gaps[i] \in 0..Gap
    BY <1>1, ElementOfSeq, LenProperties
  <2>3. /\ \A i \in DOMAIN rests : rests[i] - 1 \in 0..RestTime
        /\ \A i \in DOMAIN gaps : gaps[i] - 1 \in 0..Gap
    BY <1>1, <2>1, <2>2
  <2>4. rests' \in Seq(0..RestTime)
    <3>1. Len(rests) \in Nat /\ DOMAIN rests = 1..Len(rests)
      BY <1>1, LenProperties
    <3> QED
      BY <2>1, <2>3, <3>1
  <2>5. gaps' \in Seq(0..Gap)
    <3>1. Len(gaps) \in Nat /\ DOMAIN gaps = 1..Len(gaps)
      BY <1>1, LenProperties
    <3> QED
      BY <2>1, <2>3, <3>1
  <2> QED
    BY <2>4, <2>5 DEF DelayTypes
<1>8. CASE W!BackArrow \/ W!Swipe \/ W!SystemBack
  BY <1>2, <1>8 DEF W!BackArrow, W!Swipe, W!SystemBack, W!Leave, W!Dispose
<1>9. CASE \/ W!Enter \/ W!StartTap \/ W!FinishTap \/ W!FinishDone
           \/ W!CountdownTick \/ W!RestTick \/ W!ReverseTick \/ UNCHANGED W!vars
  BY <1>3, <1>9
  DEF W!Enter, W!StartTap, W!FinishTap, W!FinishDone, W!CountdownTick,
      W!RestTick, W!ReverseTick, W!delays, W!vars
<1> QED
  BY <1>4, <1>5, <1>6, <1>7, <1>8, <1>9 DEF W!Next, W!User, W!Clock

\* A step that leaves the delays alone has only to keep what the pending one asks
\* of the watches.
LEMMA SameDelays ==
    ASSUME OneDelay, UNCHANGED <<rests, gaps>>,
           \A r \in 0..RestTime : rests = <<r>> /\ Resting(r) => Resting(r)',
           \A g \in 0..Gap : gaps = <<g>> /\ Waiting(g) => Waiting(g)'
    PROVE  OneDelay'
BY DEF OneDelay

LEMMA DelaysWatched ==
    ASSUME W!Phases, W!DelaysKeepApart, WInv, [W!Next]_(W!vars)
    PROVE  OneDelay'
<1>1. /\ watch \in W!Stopwatch /\ watch2 \in W!Stopwatch
      /\ watch3 \in W!Stopwatch /\ started \in BOOLEAN
      /\ four_started \in BOOLEAN /\ finishing \in {"no", "awaits", "over"}
  BY DEF WInv, WarmUpTypes
<1>2. /\ OneDelay
      /\ finishing # "no" => ~started /\ ~watch3.run
  BY DEF WInv, Awaiting
<1>3. /\ Past \in Nat /\ Past < Minute /\ (Past = 0 <=> watch3.at = Countdown)
      /\ PastOf(W!Running(watch3)) = Past /\ PastOf(W!Stopped(watch3)) = Past
      /\ watch3.run /\ Past + 1 < Minute
            => PastOf(W!Advanced(watch3)) = Past + 1
  BY <1>1, PastFacts DEF Past
<1>4. /\ HoldTime \in Nat /\ HoldTime > 1 /\ HoldTime < Minute
      /\ Minute \in Nat /\ RestTime \in Nat /\ RestTime > 0 /\ Gap \in Nat /\ Gap > 0
      /\ Gap <= HoldTime /\ Gap + RestTime <= Minute
  BY WarmUpConstants DEF W!DelaysKeepApart
<1>5. /\ watch.at \in Nat /\ watch.run \in BOOLEAN /\ watch3.run \in BOOLEAN
      /\ W!Running(watch).at = watch.at /\ W!Running(watch).run
      /\ W!Stopped(watch).at = watch.at /\ ~W!Stopped(watch).run
      /\ ~W!Stopped(watch3).run /\ W!Running(watch3).run
      /\ W!Advanced(watch).run = watch.run
      /\ W!Advanced(watch3).run = watch3.run
      /\ ~watch.run => W!Advanced(watch) = watch
      /\ ~watch3.run => W!Advanced(watch3) = watch3
      /\ watch.run /\ watch.at + 1 < Minute
            => W!Advanced(watch).at = watch.at + 1
      /\ ~W!Zero.run /\ W!Zero.at = 0
  BY <1>1, WarmUpWatches
<1>6. CASE W!Enter \/ W!ReverseTick
  BY <1>2, <1>6, SameDelays
  DEF W!Enter, W!ReverseTick, W!watches, W!delays, W!countdown, Resting,
      Waiting, Past
<1>7. CASE W!BackArrow \/ W!Swipe \/ W!SystemBack
  BY <1>7 DEF W!BackArrow, W!Swipe, W!SystemBack, W!Leave, W!Dispose, OneDelay
<1>8. CASE W!StartTap
  <2>1. /\ started /\ started' = FALSE /\ UNCHANGED <<rests, gaps>>
        /\ watch' = watch /\ watch3'.run /\ Past' = Past
        /\ four_started' = four_started /\ finishing' = finishing
    BY <1>3, <1>5, <1>8 DEF W!StartTap, W!delays, Past
  <2> QED
    BY <1>2, <1>3, <1>5, <2>1, SameDelays DEF Resting, Waiting
<1>9. CASE W!FinishTap
  <2>1. /\ ~started /\ ~four_started /\ started' = started
        /\ UNCHANGED <<rests, gaps>> /\ finishing' = "awaits"
        /\ ~watch'.run /\ watch'.at = watch.at /\ ~watch3'.run /\ Past' = Past
    BY <1>3, <1>5, <1>9
    DEF W!FinishTap, W!FinishAllowed, W!StopAll, W!delays, Past
  <2> QED
    BY <1>2, <1>3, <1>5, <2>1, SameDelays DEF Resting, Waiting
<1>10. CASE W!FinishDone
  <2>1. /\ finishing = "over" /\ ~started /\ ~watch3.run
        /\ UNCHANGED <<rests, gaps>> /\ watch3' = watch3 /\ Past' = Past
        /\ ~watch.run => watch' = watch
    BY <1>2, <1>10 DEF W!FinishDone, W!delays, Past
  <2> QED
    BY <1>2, <1>3, <1>5, <2>1, SameDelays DEF Resting, Waiting
<1>11. CASE W!CountdownTick
  <2>1. /\ watch3.run /\ Past = 0 /\ UNCHANGED <<rests, gaps>>
        /\ watch'.run /\ watch'.at = watch.at /\ watch3' = watch3 /\ Past' = 0
    BY <1>3, <1>5, <1>11
    DEF W!CountdownTick, W!StartWatch, W!delays, Past
  <2>2. ASSUME NEW g \in 0..Gap, Waiting(g)
        PROVE  Waiting(g)'
    BY <1>3, <1>4, <1>5, <2>1, <2>2 DEF Waiting
  <2> QED
    BY <1>2, <2>1, <2>2, SameDelays DEF Resting
<1>12. CASE W!HoldTick
  <2>1. /\ watch.run /\ watch.at = HoldTime /\ rests' = Append(rests, RestTime)
        /\ gaps' = gaps /\ watch' = W!Zero /\ four_started' = TRUE
        /\ started' = FALSE /\ finishing' = finishing
        /\ ~watch3'.run /\ Past' = Past
    BY <1>3, <1>5, <1>12 DEF W!HoldTick, Past
  <2>2. rests = <<>> /\ gaps = <<>>
    BY <1>2, <1>3, <1>4, <2>1 DEF OneDelay, Resting, Waiting
  <2>3. rests' = <<RestTime>>
    BY <2>1, <2>2
  <2>4. finishing = "no" \/ (HoldTime - 1 <= Past /\ Past < Gap)
    BY <1>1, <1>4, <2>1 DEF WInv, Awaiting
  <2>5. Resting(RestTime)'
    BY <1>3, <1>4, <1>5, <2>1, <2>4 DEF Resting
  <2> QED
    BY <1>4, <2>1, <2>2, <2>3, <2>5 DEF OneDelay
<1>13. CASE W!RestTick
  <2>1. /\ UNCHANGED <<rests, gaps>> /\ started' = started
        /\ four_started' = four_started /\ finishing' = finishing
        /\ ~watch'.run /\ watch'.at = watch.at /\ ~watch3'.run /\ Past' = Past
    BY <1>3, <1>5, <1>13 DEF W!RestTick, W!delays, Past
  <2> QED
    BY <1>2, <1>3, <1>5, <2>1, SameDelays DEF Resting, Waiting
<1>14. CASE W!RestDone
  <2>1. /\ rests # <<>> /\ rests' = Tail(rests) /\ gaps' = Append(gaps, Gap)
        /\ started' = started /\ finishing' = finishing
        /\ ~watch'.run /\ watch'.at = watch.at /\ ~watch3'.run /\ Past' = Past
    BY <1>3, <1>5, <1>14 DEF W!RestDone, W!StopAll, Past
  <2>2. PICK r \in 0..RestTime : rests = <<r>> /\ gaps = <<>> /\ Resting(r)
    BY <1>2, <2>1 DEF OneDelay
  <2>3. rests' = <<>> /\ gaps' = <<Gap>>
    BY <2>1, <2>2
  <2>4. Waiting(Gap)'
    BY <1>3, <2>1, <2>2 DEF Resting, Waiting
  <2> QED
    BY <1>4, <2>3, <2>4 DEF OneDelay
<1>15. CASE W!GapDone
  <2>1. /\ gaps # <<>> /\ gaps' = Tail(gaps) /\ rests' = rests
    BY <1>15 DEF W!GapDone
  <2>2. PICK g \in 0..Gap : gaps = <<g>> /\ rests = <<>>
    BY <1>2, <2>1 DEF OneDelay
  <2> QED
    BY <2>1, <2>2 DEF OneDelay
<1>16. CASE W!Pass
  <2>1. /\ rests' = [i \in DOMAIN rests |-> rests[i] - 1]
        /\ gaps' = [i \in DOMAIN gaps |-> gaps[i] - 1]
        /\ \A i \in DOMAIN rests : rests[i] # 0
        /\ \A i \in DOMAIN gaps : gaps[i] # 0
        /\ watch' = W!Advanced(watch) /\ watch3' = W!Advanced(watch3)
        /\ Past' = PastOf(W!Advanced(watch3))
        /\ started' = started /\ four_started' = four_started
        /\ finishing = "no" => finishing' = "no"
    BY <1>16 DEF W!Pass, W!Due, Past
  <2>2. ~watch3.run => Past' = Past
    BY <1>5, <2>1 DEF Past
  <2>3. CASE rests = <<>> /\ gaps = <<>>
    BY <2>1, <2>3 DEF OneDelay
  <2>4. ASSUME NEW r \in 0..RestTime, rests = <<r>>, gaps = <<>>, Resting(r)
        PROVE  OneDelay'
    <3>1. rests' = <<r - 1>> /\ gaps' = <<>> /\ r > 0
      BY <1>4, <2>1, <2>4
    <3>2. ~watch'.run /\ watch'.at = 0
      BY <1>5, <2>1, <2>4 DEF Resting
    <3>3. CASE four_started /\ ~started /\ finishing = "no" /\ ~watch3.run
      <4>1. Resting(r - 1)'
        BY <1>5, <2>1, <3>2, <3>3 DEF Resting
      <4> QED
        BY <1>4, <3>1, <4>1 DEF OneDelay
    <3>4. CASE Past > 0 /\ Past + r < Gap + RestTime
      <4>1. Past' \in {Past, Past + 1}
        BY <1>3, <1>4, <1>5, <2>1, <2>2, <3>1, <3>4
      <4>2. Past' > 0 /\ Past' + (r - 1) < Gap + RestTime
        <5>1. r \in Nat /\ Past \in Nat /\ Gap \in Nat /\ RestTime \in Nat
          BY <1>3, <1>4
        <5>2. CASE Past' = Past
          BY <3>4, <5>1, <5>2
        <5>3. CASE Past' = Past + 1
          BY <3>4, <5>1, <5>3
        <5> QED
          BY <4>1, <5>2, <5>3
      <4>3. Resting(r - 1)'
        BY <3>2, <4>2 DEF Resting
      <4> QED
        BY <1>4, <3>1, <4>3 DEF OneDelay
    <3> QED
      BY <2>4, <3>3, <3>4 DEF Resting
  <2>5. ASSUME NEW g \in 0..Gap, gaps = <<g>>, rests = <<>>, Waiting(g)
        PROVE  OneDelay'
    <3>1. gaps' = <<g - 1>> /\ rests' = <<>> /\ g > 0
      BY <1>4, <2>1, <2>5
    <3>2. /\ watch'.run = watch.run /\ watch3'.run = watch3.run
          /\ watch.run => watch3.run
      BY <1>5, <2>1, <2>5 DEF Waiting
    <3>3. ASSUME watch.run \/ watch.at > 0
          PROVE  watch'.at <= Past' /\ Past' + (g - 1) < Gap
      <4>1. watch.at <= Past /\ Past + g < Gap
        BY <2>5, <3>3 DEF Waiting
      <4>2. Past + 1 < Minute /\ watch.at + 1 < Minute
        BY <1>3, <1>4, <1>5, <3>1, <4>1
      <4>3. CASE watch.run
        BY <1>3, <1>4, <1>5, <2>1, <3>2, <4>1, <4>2, <4>3
      <4>4. CASE ~watch.run
        BY <1>3, <1>4, <1>5, <2>1, <2>2, <4>1, <4>2, <4>4
      <4> QED
        BY <4>3, <4>4
    <3>4. watch'.run \/ watch'.at > 0 => watch.run \/ watch.at > 0
      BY <1>5, <2>1, <3>2
    <3>5. Waiting(g - 1)'
      BY <1>4, <3>1, <3>2, <3>3, <3>4 DEF Waiting
    <3> QED
      BY <1>4, <3>1, <3>5 DEF OneDelay
  <2> QED
    BY <1>2, <2>3, <2>4, <2>5 DEF OneDelay
<1>17. CASE UNCHANGED W!vars
  BY <1>2, <1>17, SameDelays
  DEF W!vars, W!watches, W!delays, W!countdown, Resting, Waiting, Past
<1> QED
  BY <1>6, <1>7, <1>8, <1>9, <1>10, <1>11, <1>12, <1>13, <1>14, <1>15, <1>16,
     <1>17
  DEF W!Next, W!User, W!Clock

LEMMA FinishingWatched ==
    ASSUME W!Phases, W!DelaysKeepApart, WInv, [W!Next]_(W!vars)
    PROVE  Awaiting'
<1>1. /\ watch \in W!Stopwatch /\ watch3 \in W!Stopwatch
      /\ started \in BOOLEAN /\ finishing \in {"no", "awaits", "over"}
  BY DEF WInv, WarmUpTypes
<1>2. /\ Past \in Nat /\ PastOf(W!Running(watch3)) = Past
      /\ PastOf(W!Stopped(watch3)) = Past
  BY <1>1, PastFacts DEF Past
<1>3. /\ HoldTime \in Nat /\ HoldTime > 1 /\ HoldTime < Minute
      /\ Minute \in Nat /\ Gap \in Nat /\ Gap > 0 /\ Gap <= HoldTime
  BY WarmUpConstants DEF W!DelaysKeepApart
<1>4. /\ watch.at \in Nat /\ watch.run \in BOOLEAN /\ watch3.run \in BOOLEAN
      /\ W!Running(watch).at = watch.at
      /\ ~W!Stopped(watch).run /\ ~W!Stopped(watch3).run
      /\ W!Advanced(watch).run = watch.run
      /\ ~watch3.run => W!Advanced(watch3) = watch3
      /\ watch.run /\ watch.at + 1 < Minute
            => W!Advanced(watch).at = watch.at + 1
      /\ ~W!Zero.run
  BY <1>1, WarmUpWatches
<1>5. Awaiting
  BY DEF WInv
<1>6. CASE W!Enter \/ W!ReverseTick
  BY <1>5, <1>6 DEF W!Enter, W!ReverseTick, W!watches, Awaiting, Past
<1>7. CASE W!BackArrow \/ W!Swipe \/ W!SystemBack
  BY <1>7 DEF W!BackArrow, W!Swipe, W!SystemBack, W!Leave, W!Dispose, Awaiting
<1>8. CASE W!StartTap
  <2>1. started /\ finishing' = finishing
    BY <1>8 DEF W!StartTap
  <2> QED
    BY <1>5, <2>1 DEF Awaiting
<1>9. CASE W!FinishTap
  <2>1. /\ ~started /\ started' = started /\ ~watch'.run /\ ~watch3'.run
    BY <1>4, <1>9 DEF W!FinishTap, W!FinishAllowed, W!StopAll
  <2> QED
    BY <2>1 DEF Awaiting
<1>10. CASE W!FinishDone
  BY <1>10 DEF W!FinishDone, Awaiting
<1>11. CASE W!CountdownTick
  <2>1. watch3.run /\ finishing' = finishing
    BY <1>11 DEF W!CountdownTick
  <2> QED
    BY <1>5, <2>1 DEF Awaiting
<1>12. CASE W!HoldTick \/ W!RestTick \/ W!RestDone
  <2>1. /\ ~watch'.run /\ ~watch3'.run /\ finishing' = finishing
        /\ started' = started \/ started' = FALSE
    BY <1>4, <1>12 DEF W!HoldTick, W!RestTick, W!RestDone, W!StopAll
  <2> QED
    BY <1>5, <2>1 DEF Awaiting
<1>13. CASE W!GapDone
  <2>1. /\ gaps # <<>> /\ watch'.at = watch.at /\ watch3' = watch3
        /\ started' = FALSE /\ finishing' = finishing /\ Past' = Past
    BY <1>4, <1>13 DEF W!GapDone, W!StartWatch, Past
  <2>2. PICK g \in 0..Gap : Waiting(g)
    BY <2>1 DEF WInv, OneDelay
  <2>3. watch.at > 0 => watch.at <= Past /\ Past < Gap
    BY <1>2, <1>3, <2>2 DEF Waiting
  <2> QED
    BY <1>2, <1>3, <1>4, <1>5, <2>1, <2>3 DEF Awaiting
<1>14. CASE W!Pass
  <2>1. /\ finishing # "over" /\ started' = started
        /\ finishing' = IF finishing = "awaits" THEN "over" ELSE finishing
        /\ watch' = W!Advanced(watch) /\ watch3' = W!Advanced(watch3)
    BY <1>14 DEF W!Pass, W!Due
  <2>2. CASE finishing = "no"
    BY <2>1, <2>2 DEF Awaiting
  <2>3. CASE finishing = "awaits"
    <3>1. ~started /\ watch3' = watch3 /\ ~watch3.run /\ finishing' = "over"
      BY <1>4, <1>5, <2>1, <2>3 DEF Awaiting
    <3>2. Past' = Past
      BY <3>1 DEF Past
    <3>3. ASSUME watch'.run
          PROVE  /\ watch'.at = watch.at + 1
                 /\ watch.at > 0 => watch.at <= Past /\ Past < Gap
      BY <1>3, <1>4, <1>5, <2>1, <2>3, <3>3 DEF Awaiting
    <3> QED
      BY <1>4, <2>1, <3>1, <3>2, <3>3 DEF Awaiting
  <2> QED
    BY <1>1, <2>1, <2>2, <2>3
<1>15. CASE UNCHANGED W!vars
  BY <1>5, <1>15 DEF W!vars, W!watches, Awaiting, Past
<1> QED
  BY <1>6, <1>7, <1>8, <1>9, <1>10, <1>11, <1>12, <1>13, <1>14, <1>15
  DEF W!Next, W!User, W!Clock

LEMMA WarmUpInductive ==
    ASSUME W!Phases, W!DelaysKeepApart
    PROVE  W!Spec => []WInv
<1>1. W!Init => WInv
  <2> SUFFICES ASSUME W!Init
               PROVE  WInv
    OBVIOUS
  <2>1. WarmUpTypes
    BY WarmUpTypesInit
  <2>2. OneDelay
    BY DEF W!Init, OneDelay
  <2>3. Awaiting
    <3>1. ~W!Zero.run
      BY WarmUpWatches DEF W!Zero
    <3> QED
      BY <3>1 DEF W!Init, Awaiting
  <2> QED
    BY <2>1, <2>2, <2>3 DEF WInv
<1>2. WInv /\ [W!Next]_(W!vars) => WInv'
  BY WarmUpTypesStep, DelaysWatched, FinishingWatched DEF WInv
<1> QED
  BY <1>1, <1>2, PTL DEF W!Spec

\* The warm-up screen keeps its types, whatever its durations
\* (warmpUp_screen.dart 40-283).
THEOREM WarmUpTypeCorrect ==
    ASSUME W!Phases
    PROVE  W!Spec => []W!TypeOK
<1>1. W!Init => WarmUpTypes /\ DelayTypes
  <2>1. W!Init => DelayTypes
    BY DEF W!Init, DelayTypes
  <2> QED
    BY <2>1, WarmUpTypesInit
<1>2. WarmUpTypes /\ DelayTypes /\ [W!Next]_(W!vars)
        => WarmUpTypes' /\ DelayTypes'
  BY WarmUpTypesStep, DelayTypesStep
<1>3. WarmUpTypes /\ DelayTypes => W!TypeOK
  BY DEF WarmUpTypes, DelayTypes, W!TypeOK
<1> QED
  BY <1>1, <1>2, <1>3, PTL DEF W!Spec

\* However often the warm-up is stopped and started again, at most one delay is
\* pending: of the old session or the new one, never of both
\* (warmpUp_screen.dart 76-130).
THEOREM WarmUpOneChainHolds ==
    ASSUME W!Phases, W!DelaysKeepApart
    PROVE  W!Spec => []W!OneChain
<1>1. ASSUME WInv
      PROVE  Len(rests) + Len(gaps) <= 1
  <2>1. CASE rests = <<>> /\ gaps = <<>>
    BY <2>1
  <2>2. CASE gaps = <<>> /\ \E r \in 0..RestTime : rests = <<r>>
    BY <2>2
  <2>3. CASE rests = <<>> /\ \E g \in 0..Gap : gaps = <<g>>
    BY <2>3
  <2> QED
    BY <1>1, <2>1, <2>2, <2>3 DEF WInv, OneDelay
<1>2. WInv => W!OneChain
  BY <1>1 DEF W!OneChain
<1> QED
  BY <1>2, WarmUpInductive, PTL

\* No hold is measured while a rest is pending, although two timers may start one
\* (warmpUp_screen.dart 126, 202).
THEOREM RestNotHeldHolds ==
    ASSUME W!Phases, W!DelaysKeepApart
    PROVE  W!Spec => []W!RestNotHeld
<1>1. WInv => W!RestNotHeld
  BY DEF WInv, OneDelay, Resting, W!RestNotHeld
<1> QED
  BY <1>1, WarmUpInductive, PTL

\* A hold is ended before the watch passes its length.
Timely == watch.at <= HoldTime

\* The step of each action, as HoldCycle's.
LEMMA WarmUpCycleStep ==
    ASSUME W!Phases, W!DelaysKeepApart, WInv, Timely, [W!Next]_(W!vars)
    PROVE  Timely' /\ [W!Cycle!Next]_(W!Cycle!vars)
<1>1. /\ watch \in W!Stopwatch /\ watch.at \in Nat /\ watch.run \in BOOLEAN
      /\ watch.at <= HoldTime
  BY WarmUpWatches DEF WInv, WarmUpTypes, Timely
<1>2. /\ HoldTime \in Nat /\ HoldTime > 1 /\ HoldTime < Minute
      /\ Minute \in Nat /\ RestTime \in Nat /\ Gap \in Nat /\ Gap <= HoldTime
  BY WarmUpConstants DEF W!DelaysKeepApart
<1>3. \/ rests = <<>> /\ gaps = <<>>
      \/ \E r \in 0..RestTime : rests = <<r>> /\ gaps = <<>> /\ Resting(r)
      \/ \E g \in 0..Gap : rests = <<>> /\ gaps = <<g>> /\ Waiting(g)
  BY DEF WInv, OneDelay
<1>4. ASSUME UNCHANGED <<rests, gaps>>, watch'.at \in {0, watch.at}
      PROVE  /\ Timely'
             /\ (watch'.run => watch.run) => [W!Cycle!Next]_(W!Cycle!vars)
  BY <1>1, <1>2, <1>4 DEF Timely, W!Cycle!Next, W!Cycle!Interrupt
<1>5. CASE W!CountdownTick
  <2>1. watch'.run /\ watch'.at = watch.at /\ UNCHANGED <<rests, gaps>>
    BY <1>1, <1>5, WarmUpWatches DEF W!CountdownTick, W!StartWatch, W!delays
  <2> QED
    BY <1>1, <2>1
    DEF Timely, W!Cycle!Next, W!Cycle!Begin, W!Cycle!vars
<1>6. CASE W!FinishTap \/ W!RestTick
  <2>1. ~watch'.run /\ watch'.at = watch.at /\ UNCHANGED <<rests, gaps>>
    BY <1>1, <1>6, WarmUpWatches
    DEF W!FinishTap, W!RestTick, W!StopAll, W!delays
  <2> QED
    BY <1>4, <2>1
<1>7. CASE W!FinishDone
  <2>1. /\ watch' = watch \/ watch' = W!Cleared(watch)
        /\ UNCHANGED <<rests, gaps>>
    BY <1>7 DEF W!FinishDone, W!delays
  <2>2. watch'.run = watch.run /\ watch'.at \in {0, watch.at}
    <3>1. W!Cleared(watch).run = watch.run /\ W!Cleared(watch).at = 0
      BY <1>1, WarmUpWatches
    <3> QED
      BY <2>1, <3>1
  <2> QED
    BY <1>1, <1>4, <2>1, <2>2
<1>8. CASE W!BackArrow \/ W!Swipe \/ W!SystemBack
  <2>1. watch' = W!Zero /\ rests' = <<>> /\ gaps' = <<>>
    BY <1>8 DEF W!BackArrow, W!Swipe, W!SystemBack, W!Leave, W!Dispose
  <2>2. ~watch'.run /\ watch'.at = 0
    BY <1>1, <2>1, WarmUpWatches
  <2> QED
    BY <1>2, <2>1, <2>2 DEF Timely, W!Cycle!Next, W!Cycle!Abandon
\* As in DelaysWatched: no delay is pending when a hold ends.
<1>9. CASE W!HoldTick
  <2>1. /\ watch.run /\ watch.at = HoldTime /\ rests' = Append(rests, RestTime)
        /\ gaps' = gaps /\ ~watch'.run /\ watch'.at = 0
    BY <1>1, <1>9, WarmUpWatches DEF W!HoldTick
  <2>2. rests = <<>> /\ gaps = <<>>
    <3>1. Past \in Nat
      BY PastFacts DEF WInv, WarmUpTypes, Past
    <3> QED
      BY <1>2, <1>3, <2>1, <3>1 DEF Resting, Waiting
  <2>3. rests' = <<RestTime>>
    BY <2>1, <2>2
  <2>4. /\ rests' # <<>> /\ Len(rests') = 1 /\ Len(rests) = 0
        /\ Head(rests') = RestTime
    BY <2>2, <2>3
  <2> QED
    BY <1>2, <2>1, <2>2, <2>4 DEF Timely, W!Cycle!Next, W!Cycle!EndHold
\* The rest's delay only hands over to the gap's.
<1>10. CASE W!RestDone
  <2>1. /\ rests # <<>> /\ Head(rests) = 0 /\ rests' = Tail(rests)
        /\ gaps' = Append(gaps, Gap) /\ ~watch'.run /\ watch'.at = watch.at
    BY <1>1, <1>10, WarmUpWatches DEF W!RestDone, W!StopAll
  <2>2. PICK r \in 0..RestTime : rests = <<r>> /\ gaps = <<>> /\ Resting(r)
    BY <1>3, <2>1
  <2>3. rests' = <<>> /\ gaps' = <<Gap>> /\ watch'.run = watch.run
    <3>1. watch' \in W!Stopwatch
      BY <1>1, <1>10, WarmUpWatches DEF W!RestDone, W!StopAll
    <3>2. watch'.run \in BOOLEAN /\ ~watch.run
      BY <2>2, <3>1, WarmUpWatches DEF Resting
    <3>3. watch'.run = watch.run
      BY <1>1, <2>1, <3>2
    <3> QED
      BY <2>1, <2>2, <3>3
  <2>4. /\ gaps' # <<>> /\ Head(gaps') = Gap
        /\ Len(rests) + Len(gaps) = 1 /\ Len(rests') + Len(gaps') = 1
    BY <2>2, <2>3
  <2> QED
    BY <1>1, <1>2, <2>1, <2>3, <2>4 DEF Timely, W!Cycle!vars
<1>11. CASE W!GapDone
  <2>1. /\ gaps # <<>> /\ Head(gaps) = 0 /\ gaps' = Tail(gaps)
        /\ rests' = rests /\ watch'.run /\ watch'.at = watch.at
    BY <1>1, <1>11, WarmUpWatches DEF W!GapDone, W!StartWatch
  <2>2. PICK g \in 0..Gap : gaps = <<g>> /\ rests = <<>>
    BY <1>3, <2>1
  <2>3. gaps' = <<>>
    BY <2>1, <2>2
  <2> QED
    BY <1>1, <2>1, <2>2, <2>3 DEF Timely, W!Cycle!Next, W!Cycle!EndPause
<1>12. CASE W!Pass
  <2>1. /\ rests' = [i \in DOMAIN rests |-> rests[i] - 1]
        /\ gaps' = [i \in DOMAIN gaps |-> gaps[i] - 1]
        /\ \A i \in DOMAIN rests : rests[i] # 0
        /\ \A i \in DOMAIN gaps : gaps[i] # 0
        /\ watch' = W!Advanced(watch) /\ ~(watch.run /\ watch.at = HoldTime)
    BY <1>12 DEF W!Pass, W!Due
  <2>2. /\ watch'.run = watch.run
        /\ ~watch.run => watch'.at = watch.at
        /\ watch.run => watch.at < HoldTime /\ watch'.at = watch.at + 1
    <3>1. watch.run => watch.at < HoldTime /\ watch.at + 1 < Minute
      BY <1>1, <1>2, <2>1
    <3> QED
      BY <1>1, <2>1, <3>1, WarmUpWatches
  <2>3. Timely'
    BY <1>1, <1>2, <2>2 DEF Timely
  <2>4. CASE rests = <<>> /\ gaps = <<>>
    <3>1. rests' = <<>> /\ gaps' = <<>>
      BY <2>1, <2>4
    <3> QED
      BY <2>2, <2>3, <2>4, <3>1 DEF W!Cycle!Next, W!Cycle!Second
  <2>5. ASSUME NEW r \in 0..RestTime, rests = <<r>>, gaps = <<>>
        PROVE  W!Cycle!Second
    <3>1. rests' = <<r - 1>> /\ gaps' = <<>> /\ r > 0
      BY <1>2, <2>1, <2>5
    <3>2. /\ rests # <<>> /\ Head(rests) = r
          /\ rests' # <<>> /\ Head(rests') = r - 1
          /\ Len(rests) + Len(gaps) = 1 /\ Len(rests') + Len(gaps') = 1
      BY <2>5, <3>1
    <3> QED
      BY <1>2, <2>2, <3>1, <3>2 DEF W!Cycle!Second
  <2>6. ASSUME NEW g \in 0..Gap, rests = <<>>, gaps = <<g>>
        PROVE  W!Cycle!Second
    <3>1. gaps' = <<g - 1>> /\ rests' = <<>> /\ g > 0
      BY <1>2, <2>1, <2>6
    <3>2. /\ gaps # <<>> /\ Head(gaps) = g
          /\ gaps' # <<>> /\ Head(gaps') = g - 1
          /\ Len(rests) + Len(gaps) = 1 /\ Len(rests') + Len(gaps') = 1
      BY <2>6, <3>1
    <3> QED
      BY <1>2, <2>2, <2>6, <3>1, <3>2 DEF W!Cycle!Second
  <2> QED
    BY <1>3, <2>3, <2>4, <2>5, <2>6 DEF W!Cycle!Next
<1>13. CASE W!Enter \/ W!StartTap \/ W!ReverseTick \/ UNCHANGED W!vars
  BY <1>1, <1>4, <1>13
  DEF W!Enter, W!StartTap, W!ReverseTick, W!watches, W!delays, W!vars
<1> QED
  BY <1>5, <1>6, <1>7, <1>8, <1>9, <1>10, <1>11, <1>12, <1>13
  DEF W!Next, W!User, W!Clock

\* Where the delays keep apart, the holds of the warm-up, each followed by a rest
\* and a gap, alternate with them as HoldCycle promises, through any number of
\* sessions stopped at any second (warmpUp_screen.dart 69-130).
THEOREM WarmUpCycleImplemented ==
    ASSUME W!Phases, W!DelaysKeepApart
    PROVE  W!Spec => W!CycleSpec
<1>1. W!Init => Timely /\ W!Cycle!Init
  BY WarmUpConstants DEF W!Init, Timely, W!Cycle!Init, W!Zero
<1>2. WInv /\ Timely /\ [W!Next]_(W!vars)
        => Timely' /\ [W!Cycle!Next]_(W!Cycle!vars)
  BY WarmUpCycleStep
<1> QED
  BY <1>1, <1>2, WarmUpInductive, PTL DEF W!Spec, W!CycleSpec, W!Cycle!Spec
=============================================================================
