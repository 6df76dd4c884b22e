-------------------------- MODULE BreathingSession --------------------------
(***************************************************************************)
(* The breathing screen (src/lib/homepage/Breathing_screen.dart), a tab of *)
(* the dashboard, and its controller (controller/breathing_controller.dart) *)
(*                                                                         *)
(* A breath is measured by `watch`; a Future.delayed of two seconds        *)
(* follows, whose callback starts the next breath or, after the last one,  *)
(* completes the set: it posts it and has the day's count read again,      *)
(* after the next frame.  During the delay the button says Start.          *)
(*                                                                         *)
(* Time is counted as in KegelSession.  `watch2`, which drives the second  *)
(* display only, the phases of the animation and vibration are left out.   *)
(***************************************************************************)
EXTENDS Integers, Sequences, Stopwatches, LoaderDialog

CONSTANTS
    Hold,            \* seconds shown by watch that end a breath
    Rest,            \* seconds of the Future.delayed after it
    Reps,            \* breaths of a set
    DailySets,       \* sets a day
    GetReplies,      \* what may come back from a get
    MaxSets          \* bound: nothing is begun once this many were completed

Handled == {"ok", "error", "refused"}
Replies == Handled \cup {"unhandled", "dropped"}

Lengths ==
    /\ {Hold, Rest, Reps, DailySets} \subseteq Nat \ {0} /\ Hold < Minute
    /\ MaxSets \in Nat /\ GetReplies \subseteq Replies

ASSUME BreathingAssumption == Lengths

VARIABLES
    \* _BreathingScreenState
    mounted, watch, rests, startStop, counter,
    controller,      \* _animationController: none, live or disposed
    \* Breathing_controller, which lives as long as the dashboard
    sets, breathingGetModel,
    \* calls in flight: "frame" is a get that waits for the end of the frame
    chains,
    serverSets,
    \* history: seconds the watch ran for the current set (SetTime at most),
    \* completed sets, loaders no reply will take down any more
    earned, done, left

stateVars == <<mounted, watch, rests, startStop, counter, controller>>
controllerVars == <<sets, breathingGetModel>>
netVars == <<chains, loaderVars, left>>
vars == <<stateVars, controllerVars, netVars, serverSets, earned, done>>

SetTime == Reps * Hold

NoModel == [st |-> "null", sets |-> 0]
ErrorModel == [st |-> "error", sets |-> 0]
FetchedModel(n) == [st |-> "ok", sets |-> n]

Stage == {"post", "frame", "get"}
NoChains == [s \in Stage |-> 0]
Start(s) == chains' = [chains EXCEPT ![s] = @ + 1]
Move(s, t) == chains' = [chains EXCEPT ![s] = @ - 1, ![t] = @ + 1]
End(s) == chains' = [chains EXCEPT ![s] = @ - 1]

TypeOK ==
    /\ mounted \in BOOLEAN /\ startStop \in BOOLEAN
    /\ watch \in Stopwatch /\ rests \in Seq(0..Rest)
    /\ counter \in 0..(Reps + 1) /\ earned \in 0..SetTime
    /\ controller \in {"none", "live", "disposed"}
    /\ breathingGetModel \in [st : {"null", "error", "ok"}, sets : Nat]
    /\ chains \in [Stage -> Nat] /\ LoaderTypeOK
    /\ {sets, serverSets, done, left} \subseteq Nat

Init ==
    /\ mounted = FALSE /\ watch = Zero /\ rests = <<>>
    /\ startStop = TRUE /\ counter = 0 /\ controller = "none"
    /\ sets = 0 /\ breathingGetModel = NoModel
    /\ chains = NoChains /\ loaders = 0 /\ contexts = FALSE
    /\ serverSets = 0 /\ earned = 0 /\ done = 0 /\ left = 0

(***************************************************************************)
(* The screen.                                                             *)
(***************************************************************************)
\* initState: getdata.
Enter ==
    /\ ~mounted /\ loaders = 0 /\ mounted' = TRUE
    /\ Start("frame")
    /\ UNCHANGED <<watch, rests, startStop, counter, controller, controllerVars,
                   loaderVars, left, serverSets, earned, done>>

NoScreen ==
    /\ mounted' = FALSE /\ watch' = Zero /\ rests' = <<>>
    /\ startStop' = TRUE /\ counter' = 0 /\ controller' = "none"
    /\ chains' = NoChains

\* Another tab is chosen, at any time no loader is up: what was pending fails.
Dispose ==
    /\ mounted /\ loaders = 0 /\ NoScreen
    /\ UNCHANGED <<controllerVars, loaderVars, left, serverSets, earned, done>>

\* The button answers only once a model was fetched, and while that has fewer
\* than the day's sets.
Tappable ==
    /\ mounted /\ loaders = 0
    /\ breathingGetModel.st # "null"
    /\ ~(breathingGetModel.st = "ok" /\ breathingGetModel.sets >= DailySets)

\* start_animation makes a new controller.  (The variant keeps the old one.)
OldController == IF controller = "none" THEN "live" ELSE controller
NewController == "live"

\* startWatch.
StartWatch ==
    /\ controller' = NewController /\ startStop' = FALSE
    /\ watch' = Running(watch)

StartTap ==
    /\ Tappable /\ startStop /\ sets <= DailySets /\ done < MaxSets
    /\ StartWatch
    /\ UNCHANGED <<mounted, rests, counter, controllerVars, netVars, serverSets,
                   earned, done>>

\* Finish: stopWatch, and the animation controller is disposed.  `counter == 0`
\* compares, it does not assign.
FinishTap ==
    /\ Tappable /\ ~startStop
    /\ startStop' = TRUE /\ controller' = "disposed"
    /\ watch' = Cleared(Stopped(watch))
    /\ UNCHANGED <<mounted, rests, counter, controllerVars, netVars, serverSets,
                   earned, done>>

(***************************************************************************)
(* Timers.                                                                 *)
(***************************************************************************)
\* updateTime: the breath is over.  Past Reps the counter's value is all one.
BreathTick ==
    /\ mounted /\ watch.run /\ watch.at = Hold
    /\ watch' = Cleared(Stopped(watch)) /\ startStop' = TRUE
    /\ counter' = IF counter > Reps THEN counter ELSE counter + 1
    /\ rests' = Append(rests, Rest)
    /\ UNCHANGED <<mounted, controller, controllerVars, netVars, serverSets, earned,
                   done>>

RestDue == mounted /\ rests # <<>> /\ Head(rests) = 0

\* (The variant counts one breath too few.)
SetCutShort == counter = Reps - 1
SetComplete == counter = Reps

\* The callback, set not complete: the next breath.
NextBreath ==
    /\ RestDue /\ ~SetComplete
    /\ rests' = Tail(rests)
    /\ StartWatch
    /\ UNCHANGED <<mounted, counter, controllerVars, netVars, serverSets, earned,
                   done>>

\* The callback, set complete: stopWatch, then the post.  What a watch started
\* during the rest has measured is kept for the next breath.
SetDone ==
    /\ RestDue /\ SetComplete /\ controller = "live"
    /\ rests' = Tail(rests)
    /\ startStop' = TRUE /\ watch' = Stopped(watch) /\ counter' = 0
    /\ sets' = sets + 1
    /\ Start("post") /\ ShowLoader
    /\ earned' = watch.at /\ done' = done + 1
    /\ UNCHANGED <<mounted, controller, breathingGetModel, left, serverSets>>

\* stopWatch dies of a disposed controller before it stops anything.
SetLost ==
    /\ RestDue /\ SetComplete /\ controller # "live"
    /\ rests' = Tail(rests)
    /\ startStop' = TRUE
    /\ UNCHANGED <<mounted, watch, counter, controller, controllerVars, netVars,
                   serverSets, earned, done>>

\* What has to run before this second can end.
BreathingDue == RestDue \/ (watch.run /\ watch.at = Hold) \/ chains["frame"] > 0

Pass ==
    /\ mounted /\ ~BreathingDue
    /\ watch.run \/ rests # <<>>
    /\ watch' = Advanced(watch)
    /\ rests' = [i \in DOMAIN rests |-> rests[i] - 1]
    /\ earned' = IF watch.run /\ earned < SetTime THEN earned + 1 ELSE earned
    /\ UNCHANGED <<mounted, startStop, counter, controller, controllerVars,
                   netVars, serverSets, done>>

\* The frame is over: Breathing_get_API.
GetBegins ==
    /\ chains["frame"] > 0
    /\ Move("frame", "get") /\ ShowLoader
    /\ UNCHANGED <<stateVars, controllerVars, left, serverSets, earned, done>>

(***************************************************************************)
(* Replies.                                                                *)
(***************************************************************************)
Orphaned(r, hides) == IF r \in Handled /\ hides THEN 0 ELSE 1

\* Where the callback goes on from its post.
AfterPost(r) ==
    IF r = "dropped" THEN End("post") ELSE Move("post", "frame")

\* Breathing_post_API answers.  getdata only leaves a get to the next frame;
\* then the day's sets are checked, by the count of this device.
PostReply(r, hides) ==
    /\ chains["post"] > 0 /\ hides \in HideOutcomes
    /\ serverSets' \in CASE r = "ok" -> {serverSets + 1}
                         [] r = "error" -> {serverSets}
                         [] OTHER -> {serverSets, serverSets + 1}
    /\ left' = left + Orphaned(r, hides)
    /\ IF r \in Handled /\ ~hides THEN End("post") ELSE AfterPost(r)
    /\ IF r \in Handled /\ hides THEN HideLoader(1) ELSE UNCHANGED loaderVars
    /\ IF sets = DailySets /\ chains'["frame"] > chains["frame"]
         THEN startStop' = TRUE /\ watch' = Stopped(watch) /\ counter' = 0
         ELSE UNCHANGED <<startStop, watch, counter>>
    /\ UNCHANGED <<mounted, rests, controller, controllerVars, earned, done>>

\* Breathing_get_API answers.  getdata then copies the count of the model, be
\* it an old one, unless an exception was thrown.
GetReply(r, hides) ==
    /\ chains["get"] > 0 /\ r \in GetReplies /\ hides \in HideOutcomes
    /\ End("get")
    /\ breathingGetModel' = CASE r = "ok" -> FetchedModel(serverSets)
                              [] r = "error" -> ErrorModel
                              [] OTHER -> breathingGetModel
    /\ LET throws == r = "dropped" \/ (r \in Handled /\ ~hides)
       IN sets' = IF ~throws /\ breathingGetModel'.st = "ok"
                    THEN breathingGetModel'.sets ELSE sets
    /\ left' = left + Orphaned(r, hides)
    /\ IF r \in Handled /\ hides THEN HideLoader(1) ELSE UNCHANGED loaderVars
    /\ UNCHANGED <<stateVars, serverSets, earned, done>>

\* The process is killed and started again.
Relaunch ==
    /\ NoScreen
    /\ serverSets' \in serverSets..(serverSets + chains["post"])
    /\ sets' = 0 /\ breathingGetModel' = NoModel
    /\ loaders' = 0 /\ contexts' = FALSE /\ left' = 0
    /\ UNCHANGED <<earned, done>>

User == Enter \/ Dispose \/ StartTap \/ FinishTap
Clock == Pass \/ BreathTick \/ NextBreath \/ SetDone \/ SetLost \/ GetBegins
Network ==
    \E r \in Replies, hides \in BOOLEAN :
        (r # "refused" /\ PostReply(r, hides)) \/ GetReply(r, hides)

Next == User \/ Clock \/ Network \/ Relaunch

Spec == Init /\ [][Next]_vars
FairSpec == Spec /\ WF_vars(Clock) /\ WF_vars(Network)
-----------------------------------------------------------------------------
(***************************************************************************)
(* Properties.                                                             *)
(***************************************************************************)
\* A watch that runs can be stopped: the button says Finish, and stopWatch has
\* a controller it can stop.  The callback of a rest may have started the watch
\* behind the user's back, over a session begun or finished meanwhile (62-100,
\* 938-966).
RunningIsStoppable == watch.run => ~startStop /\ controller = "live"

\* A completed set has taken the time of its breaths, whatever was stopped, begun
\* during a rest or left in between: no breath is cut short or counted twice.
SetsAreEarned == [][done' > done => earned = SetTime]_vars

\* Breaths and rests implement HoldCycle: a breath begun by a tap during a rest,
\* and gone on with by the rest's callback, still lasts its length, and does not
\* end before that callback has run (62-100).
Cycle == INSTANCE HoldCycle WITH
    HoldTimes <- {Hold}, PauseTimes <- {Rest},
    holding <- watch.run, held <- watch.at,
    pauses <- Len(rests), pauseLeft <- IF rests = <<>> THEN 0 ELSE Head(rests)
CycleSpec == Cycle!Spec

\* A breath ends, and after a rest that is not the last one another begins,
\* unless the screen is left.
CycleGoesOn ==
    /\ watch.run ~> ~watch.run
    /\ (rests # <<>> /\ counter < Reps) ~> (watch.run \/ ~mounted)

\* "Repeat process 10 times is consider 1 set" (1131): the counter, compared
\* with = (69), is never past the breaths of a set.
NoOverrun == counter <= Reps
=============================================================================
