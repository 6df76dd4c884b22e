----------------------------- MODULE PeeSession -----------------------------
(***************************************************************************)
(* The pee screen (src/lib/homepage/pee_screen.dart) and its controller    *)
(* (controller/pee_screen_controller.dart).                                *)
(*                                                                         *)
(* A hold is measured by `watch` and ended by a periodic handler; a push   *)
(* follows, a Future.delayed nothing cancels, whose callback starts the    *)
(* next hold: so until Finish is tapped, which is allowed at any time.     *)
(* What keeps the callback of a finished session from starting one more    *)
(* hold is that Finish has disposed the animation controller it reverses   *)
(* first; the same keeps a second Finish from posting again.               *)
(*                                                                         *)
(* Time is counted as in KegelSession.  The dates and the calendar of the  *)
(* screen, its animations otherwise, `counter` and the controller's `sets` *)
(* (nothing reads them) are left out.                                      *)
(***************************************************************************)
EXTENDS Integers, SequencesExt, Stopwatches, LoaderDialog

CONSTANTS
    Levels,          \* the levels that have a handler of their own
    DefaultLevel,    \* the one that runs for every other string
    Unread,          \* value of `levels` before getdata has read it
    Hold,            \* [Levels -> seconds shown by watch that end a hold]
    Push,            \* [Levels -> seconds of the Future.delayed after it]
    MaxSessions,     \* bound: sessions begun ...
    MaxTaps          \* ... and Finish handlers at a time

ASSUME LevelsAssumption ==
    /\ DefaultLevel \in Levels /\ Unread \notin Levels
    /\ Hold \in [Levels -> 1..(Minute - 1)] /\ Push \in [Levels -> Nat \ {0}]

ASSUME BoundsAssumption == MaxSessions \in Nat /\ MaxTaps \in Nat

Handled == {"ok", "error", "refused"}
Replies == Handled \cup {"unhandled", "dropped"}

VARIABLES
    \* _PeeScreenState
    mounted, levels, watch, timers, pushes, started,
    controller,      \* _animationController: none, live or disposed
    \* Ledger_Setup_controller; PeeScreenController.peeGetModel is not null
    p_running, fetched,
    \* the handlers in flight (their loaders: see LoaderDialog)
    chains,
    serverSets,
    \* history: sessions begun; loaders no reply will take down any more; the
    \* screen's Finish was left half done
    begun, left, halved

clockVars == <<levels, watch, timers, pushes>>
stateVars == <<mounted, clockVars, started, controller>>
controllerVars == <<p_running, fetched>>
netVars == <<chains, loaderVars, left>>
vars == <<stateVars, controllerVars, netVars, serverSets, begun, halved>>

\* Where a handler waits: getdata in GetUserInfo or getToken ("profile") and in
\* its get; Finish in its platform calls ("alarm"), its post and its get.
Stage == {"profile", "openGet", "alarm", "post", "get"}
NoChains == [s \in Stage |-> 0]

Start(s) == chains' = [chains EXCEPT ![s] = @ + 1]
Move(s, t) == chains' = [chains EXCEPT ![s] = @ - 1, ![t] = @ + 1]
End(s) == chains' = [chains EXCEPT ![s] = @ - 1]

Delay == [by : Levels, left : Nat]

TypeOK ==
    /\ {mounted, started, p_running, fetched, halved} \subseteq BOOLEAN
    /\ levels \in Levels \cup {Unread}
    /\ watch \in Stopwatch /\ timers \subseteq Levels
    /\ pushes \in Seq(Delay)
    /\ controller \in {"none", "live", "disposed"}
    /\ chains \in [Stage -> Nat] /\ LoaderTypeOK
    /\ {serverSets, begun, left} \subseteq Nat

Init ==
    /\ mounted = FALSE /\ levels = Unread
    /\ watch = Zero /\ timers = {} /\ pushes = <<>>
    /\ started = TRUE /\ controller = "none"
    /\ p_running = FALSE /\ fetched = FALSE
    /\ chains = NoChains /\ loaders = 0 /\ contexts = FALSE
    /\ serverSets = 0 /\ begun = 0 /\ left = 0 /\ halved = FALSE

(***************************************************************************)
(* The screen.                                                             *)
(***************************************************************************)
Tappable == mounted /\ loaders = 0

\* initState.
Enter ==
    /\ ~mounted /\ loaders = 0 /\ mounted' = TRUE
    /\ Start("profile")
    /\ UNCHANGED <<clockVars, started, controller, controllerVars, loaderVars,
                   left, serverSets, begun, halved>>

NoScreen ==
    /\ mounted' = FALSE /\ levels' = Unread
    /\ watch' = Zero /\ timers' = {} /\ pushes' = <<>>
    /\ started' = TRUE /\ controller' = "none"
    /\ chains' = NoChains /\ halved' = FALSE

\* The State is disposed, and its controllers with it: whatever was pending
\* fails at its first use of one, or at its first setState.
Dispose ==
    /\ Tappable /\ NoScreen
    /\ UNCHANGED <<loaderVars, left, serverSets, begun>>

\* A swipe keeps the route and the GetX controllers, a pop deletes them.
Swipe == ~p_running /\ Dispose /\ UNCHANGED controllerVars
Leave == Dispose /\ p_running' = FALSE /\ fetched' = FALSE
BackArrow == started /\ Leave
SystemBack == Leave

\* start_animation makes a new controller.  (The variant keeps the old one.)
OldController == IF controller = "none" THEN "live" ELSE controller
NewController == "live"

Handler(l) == IF l \in Levels THEN l ELSE DefaultLevel

\* startWatch.
StartWatch ==
    /\ controller' = NewController
    /\ p_running' = TRUE /\ started' = FALSE
    /\ watch' = Running(watch) /\ timers' = timers \cup {Handler(levels)}

StartTap ==
    /\ Tappable /\ started /\ begun < MaxSessions
    /\ StartWatch
    /\ begun' = begun + 1
    /\ UNCHANGED <<mounted, levels, pushes, fetched, netVars, serverSets,
                   halved>>

\* Finish: stopWatch, then click_alarm and Vibration.cancel are awaited.
FinishTap ==
    /\ Tappable /\ ~started /\ chains["alarm"] < MaxTaps
    /\ watch' = Stopped(watch)
    /\ Start("alarm")
    /\ UNCHANGED <<mounted, levels, timers, pushes, started, controller,
                   controllerVars, loaderVars, left, serverSets, begun, halved>>

\* A controller can be disposed once.  (The variant does not mind.)
DisposedTwice == TRUE
DisposedOnce == controller = "live"

\* ... the handler disposes the controller and posts, or dies of the exception.
FinishPosts ==
    /\ mounted /\ chains["alarm"] > 0
    /\ IF DisposedOnce
         THEN controller' = "disposed" /\ Move("alarm", "post") /\ ShowLoader
         ELSE End("alarm") /\ UNCHANGED <<controller, loaderVars>>
    /\ UNCHANGED <<mounted, clockVars, started, controllerVars, left, serverSets,
                   begun, halved>>

(***************************************************************************)
(* Timers.                                                                 *)
(***************************************************************************)
PushOver(i) == pushes[i].left = 0

\* The periodic handler of level h ends a hold.  A push that was scheduled
\* before this hold began and is no longer than it runs first.
HoldTick(h) ==
    /\ mounted /\ h \in timers /\ watch.run /\ watch.at = Hold[h]
    /\ \A i \in DOMAIN pushes : PushOver(i) => Push[pushes[i].by] > Hold[h]
    /\ watch' = Cleared(Stopped(watch))
    /\ pushes' = Append(pushes, [by |-> h, left |-> Push[h]])
    /\ UNCHANGED <<mounted, levels, timers, started, controller, controllerVars,
                   netVars, serverSets, begun, halved>>

\* The push is over: the next hold, unless the controller is gone.
PushDone ==
    /\ mounted
    /\ \E i \in DOMAIN pushes :
          PushOver(i) /\ pushes' = RemoveAt(pushes, i)
    /\ IF controller = "live"
         THEN StartWatch
         ELSE UNCHANGED <<watch, timers, started, controller, p_running>>
    /\ UNCHANGED <<mounted, levels, fetched, netVars, serverSets, begun, halved>>

\* Something has to run before this second can end.
Due ==
    \/ \E i \in DOMAIN pushes : PushOver(i)
    \/ watch.run /\ \E h \in timers : watch.at = Hold[h]
    \/ chains["alarm"] > 0

Pass ==
    /\ mounted /\ ~Due
    /\ watch.run \/ pushes # <<>>
    /\ watch' = Advanced(watch)
    /\ pushes' = [i \in DOMAIN pushes |->
                     [by |-> pushes[i].by, left |-> pushes[i].left - 1]]
    /\ UNCHANGED <<mounted, levels, timers, started, controller, controllerVars,
                   netVars, serverSets, begun, halved>>

(***************************************************************************)
(* Replies.                                                                *)
(***************************************************************************)
\* GetUserInfo and getToken, then the level is read and the get begins.
ProfileReply ==
    /\ chains["profile"] > 0
    /\ levels' \in Levels
    /\ Move("profile", "openGet") /\ ShowLoader
    /\ UNCHANGED <<mounted, watch, timers, pushes, started, controller,
                   controllerVars, left, serverSets, begun, halved>>

ProfileDropped ==
    /\ chains["profile"] > 0 /\ End("profile")
    /\ UNCHANGED <<stateVars, controllerVars, loaderVars, left, serverSets, begun,
                   halved>>

\* hideLoader, on the statuses that have a branch.
Hidden(r) == IF r \in Handled THEN 1 ELSE 0

\* History: the loaders such a reply leaves up for good.
Orphaned(r, hides) == IF r \in Handled /\ hides THEN 0 ELSE 1

\* Pee_post_API answers.  Only an exception keeps the get from following.
PostReply(r, hides) ==
    /\ chains["post"] > 0 /\ hides \in HideOutcomes
    /\ serverSets' \in CASE r = "ok" -> {serverSets + 1}
                         [] r = "error" -> {serverSets}
                         [] OTHER -> {serverSets, serverSets + 1}
    /\ left' = left + Orphaned(r, hides)
    /\ IF r = "dropped" \/ (r \in Handled /\ ~hides)
         THEN End("post") /\ UNCHANGED loaderVars
         ELSE /\ Move("post", "get")
              /\ loaders' = loaders - Hidden(r) + 1 /\ contexts' = TRUE
    /\ UNCHANGED <<stateVars, controllerVars, begun, halved>>

\* A 401 or 422 shows a message out of the model fetched before, if any.
Returns(r, hides) ==
    CASE r \in {"ok", "error"} -> hides
      [] r = "refused" -> hides /\ fetched
      [] r = "unhandled" -> TRUE
      [] OTHER -> FALSE

\* The last part of Finish: the screen is back at Start.
BackToStart ==
    started' = TRUE /\ p_running' = FALSE /\ watch' = Cleared(watch)

\* Pee_get_API answers, for getdata or for Finish.
GetReply(s, r, hides) ==
    /\ chains[s] > 0 /\ hides \in HideOutcomes
    /\ End(s)
    /\ fetched' = (fetched \/ r \in {"ok", "error"})
    /\ left' = left + Orphaned(r, hides)
    /\ IF hides /\ r \in Handled THEN HideLoader(Hidden(r))
         ELSE UNCHANGED loaderVars
    /\ IF s = "get" /\ Returns(r, hides) THEN BackToStart
         ELSE UNCHANGED <<started, p_running, watch>>
    /\ halved' = (halved \/ (s = "get" /\ r = "refused" /\ hides /\ ~fetched))
    /\ UNCHANGED <<mounted, levels, timers, pushes, controller, serverSets, begun>>

\* The process is killed and started again.
Relaunch ==
    /\ NoScreen
    /\ serverSets' \in serverSets..(serverSets + chains["post"])
    /\ p_running' = FALSE /\ fetched' = FALSE
    /\ loaders' = 0 /\ contexts' = FALSE /\ left' = 0
    /\ UNCHANGED begun

User == Enter \/ BackArrow \/ Swipe \/ SystemBack \/ StartTap \/ FinishTap
Clock == Pass \/ FinishPosts \/ PushDone \/ \E h \in Levels : HoldTick(h)
Network ==
    \/ ProfileReply \/ ProfileDropped
    \/ \E r \in Replies, hides \in BOOLEAN :
          \/ r # "refused" /\ PostReply(r, hides)
          \/ \E s \in {"openGet", "get"} : GetReply(s, r, hides)

Next == User \/ Clock \/ Network \/ Relaunch

Spec == Init /\ [][Next]_vars
FairSpec == Spec /\ WF_vars(Clock) /\ WF_vars(Network)
-----------------------------------------------------------------------------
(***************************************************************************)
(* Properties.                                                             *)
(***************************************************************************)
\* However often the user finishes and starts again while a push is pending,
\* holds and pushes never come to overlap in two chains (74-267, 1708-1741).
OneChain == Len(pushes) <= 1

\* One session is posted at most once: a second tap on Finish, while the first
\* one's handler still waits, does not post again, nor does the callback of an
\* old push bring the controller back that stops it (1714-1722).
PostedOnce == serverSets + chains["post"] <= begun

\* When the button says Finish and no handler is at work, Finish can do what it
\* says: it would die of a controller that is disposed already, and "Please
\* finish the method" would be the only answer left (812, 1719).  The exception
\* is a Finish whose get was refused when no model had been fetched: the message
\* is read out of null, and nothing behind it runs (controller 121-128).
FinishWorks ==
    Tappable /\ ~started /\ chains["alarm"] = 0 => controller = "live" \/ halved

\* Every loader is that of a call that is out, or its reply had no branch.
LoaderBalance ==
    loaders = left + chains["openGet"] + chains["post"] + chains["get"]

\* Holds and pushes implement HoldCycle: a hold is ended by a handler when its
\* length has been measured, never later, in a push, and none while a push is
\* pending, although old handlers keep running, Finish works during a push and
\* nothing cancels the push (74-267, 1708-1741).
Cycle == INSTANCE HoldCycle WITH
    HoldTimes <- {Hold[l] : l \in Levels}, PauseTimes <- {Push[l] : l \in Levels},
    holding <- watch.run, held <- watch.at,
    pauses <- Len(pushes),
    pauseLeft <- IF pushes = <<>> THEN 0 ELSE Head(pushes).left
CycleSpec == Cycle!Spec

\* A hold ends in a push, and a push in a hold, until the session is finished or
\* its Finish is left half done.
CycleGoesOn ==
    /\ (mounted /\ ~started /\ watch.run) ~> (pushes # <<>> \/ ~watch.run)
    /\ (mounted /\ ~started) ~> (watch.run \/ chains["alarm"] > 0 \/ left > 0
                                   \/ started \/ halved)
=============================================================================
