---------------------------- MODULE KegelSession ----------------------------
(***************************************************************************)
(* One Kegel exercise screen (src/lib/homepage/kegel_screen.dart), the     *)
(* GetX controllers it writes to and the HTTP calls it waits for.          *)
(*                                                                         *)
(* A set is `Reps` repetitions.  One repetition is a squeeze, measured by  *)
(* the Stopwatch `watch` and ended by a 100 ms periodic timer whose        *)
(* handler compares the two displayed digits of the watch with a constant, *)
(* followed by a rest, a Future.delayed that nothing can cancel.  The      *)
(* first squeeze is preceded by a countdown on `watch3`.  After the last   *)
(* rest the set is posted and the screen re-reads its state from the       *)
(* server while the timers keep running.                                   *)
(*                                                                         *)
(* Time is counted in whole seconds, the resolution of every comparison in *)
(* the code.  A second does not pass while a handler that is due in it has *)
(* not run (the timers fire every 100 ms); handlers due in the same second *)
(* run in either order.                                                    *)
(***************************************************************************)
EXTENDS Integers, Sequences, Stopwatches, LoaderDialog

CONSTANTS
    Levels,          \* exercise levels, a level and its stage being one value
    DefaultLevel,    \* the level whose handler runs while none has been read
    Unread,          \* value of `level` before getdata has read it
    Squeeze,         \* [Levels -> seconds shown by the watch that end a squeeze]
    Reps,            \* [Levels -> repetitions of a set]
    Rest,            \* seconds of the Future.delayed after a squeeze
    Countdown,       \* seconds shown by watch3 that start the first squeeze
    DailySets,       \* sets a day
    Resyncing,       \* levels whose handler awaits getdata() after the post
    ClearsCountdown, \* levels whose handler also resets watch3
    Promotions,      \* [Levels -> levels the server may move an account to]
    PostReplies,     \* what may come back from a post ...
    GetReplies,      \* ... and from a get
    MaxSets,         \* bound: no set is begun once this many were completed
    MaxCounter       \* bound: counts no further (an overrun does)

Handled == {"ok", "error", "refused"}
Replies == Handled \cup {"unhandled", "dropped"}

ASSUME LevelsAssumption ==
    /\ DefaultLevel \in Levels /\ Unread \notin Levels
    /\ Resyncing \subseteq Levels /\ ClearsCountdown \subseteq Levels
    /\ Squeeze \in [Levels -> Nat \ {0}]
    /\ Reps \in [Levels -> Nat \ {0}]
    /\ Promotions \in [Levels -> SUBSET Levels]

ASSUME TimeAssumption ==
    /\ Rest \in Nat \ {0} /\ Countdown \in Nat \ {0}
    /\ Countdown < Minute
    /\ \A l \in Levels : Squeeze[l] < Minute

ASSUME NetAssumption ==
    /\ DailySets \in Nat \ {0} /\ MaxSets \in Nat /\ MaxCounter \in Nat
    /\ PostReplies \subseteq Replies \ {"refused"}
    /\ GetReplies \subseteq Replies

VARIABLES
    \* _KegelScreenState
    mounted, level, watch, watch3, timers, rests,
    counter, started, four_started, finishing,
    \* Kegel_controller and Ledger_Setup_controller, shared by all screens
    sets, kegelGetModel, kegel_performed, k_running,
    \* asynchronous calls in flight (their loaders: see LoaderDialog)
    chains,
    \* the profile preference on the device; the account and sets on the server
    pref, account, serverSets,
    \* history: completed sets; loaders no reply will take down any more
    done, left,
    \* history, of the process: a post was refused; of all: an answer without a
    \* count let the day go on that the server has; of the screen: the check
    \* behind a set stopped a session, a lower level was read under a handler
    uncounted, withheld, interrupted, demoted

clockVars == <<level, watch, watch3, timers, rests>>
stateVars == <<mounted, clockVars, counter, started, four_started, finishing>>
controllerVars == <<sets, kegelGetModel, kegel_performed, k_running>>
netVars == <<chains, loaderVars>>
serverVars == <<pref, account, serverSets>>
mishapVars == <<uncounted, withheld, interrupted, demoted>>
historyVars == <<done, left, mishapVars>>
vars == <<stateVars, controllerVars, netVars, serverVars, historyVars>>

(***************************************************************************)
(* Values.                                                                 *)
(***************************************************************************)
NoModel == [st |-> "null", sets |-> 0]
ErrorModel == [st |-> "error", sets |-> 0]
FetchedModel(n) == [st |-> "ok", sets |-> n]
Model == [st : {"null", "error", "ok"}, sets : Nat]

\* An asynchronous chain is a kind (who started it) and the await it is at.
\*   open    initState -> getdata
\*   resync  Kegel_post_API, then getdata      (Normal, Hard)
\*   alarm   Kegel_post_API, then alarm_notifications   (Super Easy, Easy)
\*   post, postGet  in Kegel_post_API, the second in the get nested in it
\*   wait    no loader is up: GetUserInfo, or the preference read of a get
\*   get     in the Kegel_get_API that ends the chain
Kind == {"open", "resync", "alarm"}
Stage == {"post", "postGet", "wait", "get"}
NoChains == [k \in Kind |-> [s \in Stage |-> 0]]

\* Posts the server may still count.
PostsInFlight == chains["resync"]["post"] + chains["alarm"]["post"]

Start(k, s) ==
    LET up == [chains[k] EXCEPT ![s] = @ + 1] IN
    chains' = [chains EXCEPT ![k] = up]
Move(k, s, t) ==
    LET moved == [chains[k] EXCEPT ![s] = @ - 1, ![t] = @ + 1] IN
    chains' = [chains EXCEPT ![k] = moved]
End(k, s) ==
    LET down == [chains[k] EXCEPT ![s] = @ - 1] IN
    chains' = [chains EXCEPT ![k] = down]

\* The periodic handler startWatch installs for the level it reads.
Handler(l) == IF l \in Levels THEN l ELSE DefaultLevel

\* The day's sets are done, as far as the last fetched model says.  (The
\* variant takes > for >=.)
OneMoreAllowed == kegelGetModel.st = "ok" /\ kegelGetModel.sets > DailySets
DayDone == kegelGetModel.st = "ok" /\ kegelGetModel.sets >= DailySets

\* The model lets a set begin although the server has the day's.
Unaware ==
    kegelGetModel.st # "null" /\ ~DayDone /\ serverSets >= DailySets

\* A higher level squeezes longer and repeats at least as often.
Up(a, b) == a = b \/ (Squeeze[a] < Squeeze[b] /\ Reps[a] <= Reps[b])

\* The loader is modal: nothing under it can be tapped.  Before the first
\* get has answered the tap handler fails on its null check.  (The variant
\* forgets the loader.)
TappableUnderLoader == mounted /\ kegelGetModel.st # "null"
Tappable == mounted /\ loaders = 0 /\ kegelGetModel.st # "null"

TypeOK ==
    /\ mounted \in BOOLEAN /\ started \in BOOLEAN
    /\ four_started \in BOOLEAN /\ finishing \in BOOLEAN
    /\ level \in Levels \cup {Unread}
    /\ watch \in Stopwatch /\ watch3 \in Stopwatch
    /\ timers \in SUBSET Levels
    /\ rests \in Seq([by : Levels, left : 0..Rest])
    /\ counter \in Nat /\ sets \in Nat
    /\ kegelGetModel \in Model
    /\ kegel_performed \in BOOLEAN /\ k_running \in BOOLEAN
    /\ chains \in [Kind -> [Stage -> Nat]]
    /\ LoaderTypeOK
    /\ pref \in Levels /\ account \in Levels /\ serverSets \in Nat
    /\ done \in Nat /\ left \in Nat
    /\ {uncounted, withheld, interrupted, demoted} \subseteq BOOLEAN
-----------------------------------------------------------------------------
\* The model the home screen's get leaves behind when the server has n sets.
HomeModels(n) ==
    {FetchedModel(n)}
        \cup (IF "error" \in GetReplies THEN {ErrorModel} ELSE {})
        \cup (IF "refused" \in GetReplies THEN {NoModel} ELSE {})

\* A State object that does not exist (yet, or any more).
NoScreen ==
    /\ mounted' = FALSE /\ level' = Unread
    /\ watch' = Zero /\ watch3' = Zero /\ timers' = {} /\ rests' = <<>>
    /\ counter' = 0 /\ started' = TRUE
    /\ four_started' = FALSE /\ finishing' = FALSE
    /\ interrupted' = FALSE /\ demoted' = FALSE

Init ==
    /\ mounted = FALSE /\ level = Unread
    /\ watch = Zero /\ watch3 = Zero /\ timers = {} /\ rests = <<>>
    /\ counter = 0 /\ started = TRUE
    /\ four_started = FALSE /\ finishing = FALSE
    /\ sets = 0 /\ kegelGetModel \in HomeModels(0)
    /\ kegel_performed = FALSE /\ k_running = FALSE
    /\ chains = NoChains /\ loaders = 0 /\ contexts = FALSE
    /\ account \in Levels /\ pref = account /\ serverSets = 0
    /\ done = 0 /\ left = 0
    /\ uncounted = FALSE /\ withheld = FALSE
    /\ interrupted = FALSE /\ demoted = FALSE

(***************************************************************************)
(* The screen.                                                             *)
(***************************************************************************)
\* initState: a new State calls getdata().
Enter ==
    /\ ~mounted /\ loaders = 0
    /\ mounted' = TRUE
    /\ Start("open", "wait")
    /\ UNCHANGED <<clockVars, counter, started, four_started, finishing,
                   controllerVars, loaderVars, serverVars, historyVars>>

\* The State is disposed.  Its watches are garbage, its periodic timers see
\* mounted = FALSE, and a pending rest or chain fails at its first setState:
\* one that waits for the profile only after it has stored it.
Dispose ==
    /\ mounted /\ loaders = 0
    /\ NoScreen
    /\ chains' = NoChains
    /\ pref' \in {pref} \cup (IF \E k \in {"open", "resync"} : chains[k]["wait"] > 0
                               THEN {account} ELSE {})
    /\ UNCHANGED <<sets, kegelGetModel, kegel_performed, loaderVars, account,
                   serverSets, done, left, uncounted, withheld>>

\* A swipe to another exercise keeps the route, and with it the controller that
\* has the k_running of all of them.
Swipe == ~k_running /\ Dispose /\ UNCHANGED k_running

\* The route is popped, and GetX deletes the controller that was put under it.
Leave == Dispose /\ k_running' = FALSE

\* The arrow in the app bar, and the system's back.
BackArrow == started /\ Leave
SystemBack == Leave

\* Start with counter = 0: startTimer and startWatch3, the countdown.
StartSet ==
    /\ Tappable /\ ~DayDone /\ started /\ counter = 0
    /\ done < MaxSets
    /\ watch3' = Running(watch3)
    /\ k_running' = TRUE /\ started' = FALSE
    /\ UNCHANGED <<mounted, level, watch, timers, rests, counter, four_started,
                   finishing, sets, kegelGetModel, kegel_performed, netVars,
                   serverVars, historyVars>>

\* startWatch: run the watch and install one more periodic handler.
StartWatch(w) ==
    /\ watch' = Running(w)
    /\ timers' = timers \cup {Handler(level)}

\* Start with counter > 0: the interrupted set goes on, without a countdown.
ResumeSet ==
    /\ Tappable /\ ~DayDone /\ started /\ counter > 0
    /\ StartWatch(watch) /\ started' = FALSE
    /\ UNCHANGED <<mounted, level, watch3, rests, counter, four_started,
                   finishing, controllerVars, netVars, serverVars, historyVars>>

\* Finish does nothing during a rest.  (The variant forgets that.)
FinishAlways == ~started
FinishAllowed == ~started /\ ~four_started

\* stopWatch_finish, as far as the watches go.  (The variant stops one.)
StopOneWatch == watch' = Stopped(watch) /\ UNCHANGED watch3
StopWatches == watch' = Stopped(watch) /\ watch3' = Stopped(watch3)

\* Finish: stopWatch_finish, then the handler awaits the reverse animation.
FinishTap ==
    /\ Tappable /\ ~DayDone /\ FinishAllowed
    /\ StopWatches
    /\ four_started' = FALSE /\ finishing' = TRUE
    /\ UNCHANGED <<mounted, level, timers, rests, counter, started,
                   controllerVars, netVars, serverVars, historyVars>>

\* ... and only then says the session is over; the counter is kept.
FinishDone ==
    /\ mounted /\ finishing
    /\ started' = TRUE /\ k_running' = FALSE /\ finishing' = FALSE
    /\ watch' = Cleared(watch)
    /\ UNCHANGED <<mounted, level, watch3, timers, rests, counter, four_started,
                   sets, kegelGetModel, kegel_performed, netVars, serverVars,
                   historyVars>>

(***************************************************************************)
(* Timers.                                                                 *)
(***************************************************************************)
\* updateTime3: runs ten times in the second it waits for, each time starting
\* the watch (again).
CountdownTick ==
    /\ mounted /\ watch3.run /\ watch3.at = Countdown
    /\ StartWatch(watch) /\ started' = FALSE
    /\ UNCHANGED <<mounted, level, watch3, rests, counter, four_started,
                   finishing, controllerVars, netVars, serverVars, historyVars>>

\* The periodic handler of level h ends a squeeze: stopWatch_finish, reset,
\* count, startWatch2 (the watch also runs during the rest), Future.delayed.
SqueezeTick(h) ==
    /\ mounted /\ h \in timers /\ watch.run /\ watch.at = Squeeze[h]
    /\ counter < MaxCounter
    /\ counter' = counter + 1 /\ four_started' = TRUE
    /\ StartWatch(Cleared(watch)) /\ watch3' = Stopped(watch3)
    /\ rests' = Append(rests, [by |-> h, left |-> Rest])
    /\ UNCHANGED <<mounted, level, started, finishing, controllerVars, netVars,
                   serverVars, historyVars>>

RestDue == rests # <<>> /\ Head(rests).left = 0

\* The delayed callback asks whether the set is complete.  (The variants miss
\* the last repetition, or stop one early.)
SetOvershot(h) == counter > Reps[h]
SetCutShort(h) == counter = Reps[h] - 1
SetComplete(h) == counter = Reps[h]

\* The delayed callback, set not complete: the next squeeze begins.
NextRep ==
    /\ mounted /\ RestDue
    /\ LET h == Head(rests).by IN
       /\ ~SetComplete(h)
       /\ watch3' = Stopped(IF h \in ClearsCountdown THEN Cleared(watch3)
                                                    ELSE watch3)
    /\ rests' = Tail(rests)
    /\ StartWatch(Cleared(watch)) /\ started' = FALSE /\ four_started' = FALSE
    /\ UNCHANGED <<mounted, level, counter, finishing, controllerVars, netVars,
                   serverVars, historyVars>>

\* The delayed callback, set complete: stop, count the set, post it.
SetDone ==
    /\ mounted /\ RestDue
    /\ LET h == Head(rests).by IN
       /\ SetComplete(h)
       /\ watch' = Stopped(IF h \in Resyncing THEN Cleared(watch) ELSE watch)
       /\ Start(IF h \in Resyncing THEN "resync" ELSE "alarm", "post")
    /\ rests' = Tail(rests)
    /\ watch3' = Stopped(watch3)
    /\ counter' = 0 /\ started' = TRUE /\ four_started' = FALSE
    /\ sets' = sets + 1 /\ kegel_performed' = TRUE
    /\ ShowLoader
    /\ done' = done + 1
    /\ UNCHANGED <<mounted, level, timers, finishing, kegelGetModel, k_running,
                   serverVars, left, mishapVars>>

\* Something has to run before this second can end.
Due ==
    \/ \E i \in DOMAIN rests : rests[i].left = 0
    \/ watch.run /\ \E h \in timers : watch.at = Squeeze[h]
    \/ watch3.run /\ watch3.at = Countdown /\ ~watch.run
    \/ finishing

\* A second passes on a screen where something runs.
Pass ==
    /\ mounted /\ ~Due
    /\ watch.run \/ watch3.run \/ rests # <<>>
    /\ watch' = Advanced(watch) /\ watch3' = Advanced(watch3)
    /\ rests' = [i \in DOMAIN rests |->
                    [by |-> rests[i].by, left |-> rests[i].left - 1]]
    /\ UNCHANGED <<mounted, level, timers, counter, started, four_started,
                   finishing, controllerVars, netVars, serverVars, historyVars>>

(***************************************************************************)
(* Replies.                                                                *)
(***************************************************************************)
\* hideLoader pops the dialog only on the statuses the code names.  (The
\* variant forgets it where the server reports an error.)
HiddenOnSuccess(r) == IF r = "ok" THEN 1 ELSE 0
Hidden(r) == IF r \in Handled THEN 1 ELSE 0

\* History: the loaders such a reply leaves up for good.
Orphaned(r) == IF r \in Handled THEN 0 ELSE 1

\* What a get does to the fetched model.  History: one that brings no count may
\* keep from the user that the day is over.
Fetch(r) ==
    kegelGetModel' = CASE r = "ok" -> FetchedModel(serverSets)
                       [] r = "error" -> ErrorModel
                       [] OTHER -> kegelGetModel
Withholds(r) ==
    withheld' = (withheld \/ (r \in {"error", "refused"} /\ Unaware'))

\* Where a chain goes on from its post.  (The variant sends a post again that
\* was not answered with a 200.)
RetriedPost(k, r) ==
    IF r = "ok" THEN Move(k, "post", "postGet") ELSE UNCHANGED chains
AfterPost(k, r) ==
    CASE r = "ok" -> Move(k, "post", "postGet")
      [] r = "dropped" -> End(k, "post")
      [] OTHER -> Move(k, "post", "wait")

\* Kegel_post_API.  The server adds one set; a reply that is not a 200, or
\* none at all, does not tell whether it did.  A hideLoader that throws ends
\* the chain.
PostReply(k, r, hides) ==
    /\ chains[k]["post"] > 0 /\ r \in PostReplies /\ hides \in HideOutcomes
    /\ serverSets' \in CASE r = "ok" -> {serverSets + 1}
                         [] r = "error" -> {serverSets}
                         [] OTHER -> {serverSets, serverSets + 1}
    /\ CASE r = "ok" -> AfterPost(k, r) /\ ShowLoader /\ left' = left
         [] r = "error" /\ hides ->
                AfterPost(k, r) /\ HideLoader(1) /\ left' = left
         [] r = "error" /\ ~hides ->
                End(k, "post") /\ left' = left + 1 /\ UNCHANGED loaderVars
         [] OTHER -> AfterPost(k, r) /\ left' = left + 1 /\ UNCHANGED loaderVars
    /\ uncounted' = (uncounted \/ (r = "error" /\ hides))
    /\ UNCHANGED <<stateVars, controllerVars, pref, account, done, withheld,
                   interrupted, demoted>>

\* The get nested in the post, then the post's own hideLoader.
PostGetReply(k, r, hides) ==
    /\ chains[k]["postGet"] > 0 /\ r \in GetReplies /\ hides \in HideOutcomes
    /\ Fetch(r)
    /\ IF r = "dropped" \/ ~hides
         THEN /\ End(k, "postGet")
              /\ left' = left + 2 /\ UNCHANGED loaderVars
         ELSE /\ Move(k, "postGet", "wait")
              /\ HideLoader(1 + Hidden(r))
              /\ left' = left + Orphaned(r)
    /\ UNCHANGED <<stateVars, sets, kegel_performed, k_running, serverVars, done,
                   uncounted, interrupted, demoted>>
    /\ Withholds(r)

\* GetUserInfo, which shows no loader: store the level if the reply has one,
\* read it back into the State, go on to Kegel_get_API.
ProfileReply(k) ==
    /\ k \in {"open", "resync"} /\ chains[k]["wait"] > 0
    /\ pref' \in {account, pref} /\ level' = pref'
    /\ Move(k, "wait", "get") /\ ShowLoader
    /\ demoted' = (demoted \/ \E h \in timers : ~Up(h, pref'))
    /\ UNCHANGED <<mounted, watch, watch3, timers, rests, counter, started,
                   four_started, finishing, controllerVars, account, serverSets,
                   done, left, uncounted, withheld, interrupted>>

\* GetUserInfo throws: the chain is over.
ProfileDropped(k) ==
    /\ k \in {"open", "resync"} /\ chains[k]["wait"] > 0
    /\ End(k, "wait")
    /\ UNCHANGED <<stateVars, controllerVars, loaderVars, serverVars, historyVars>>

\* alarm_notifications: the get has read the user id and shows its loader.
AlarmGet ==
    /\ chains["alarm"]["wait"] > 0
    /\ Move("alarm", "wait", "get") /\ ShowLoader
    /\ UNCHANGED <<stateVars, controllerVars, serverVars, historyVars>>

\* The check behind a set: at the third one stop whatever runs.
CheckDay(n) ==
    IF n = DailySets
      THEN /\ StopWatches
           /\ four_started' = FALSE /\ started' = TRUE /\ counter' = 0
      ELSE UNCHANGED <<watch, watch3, four_started, started, counter>>

\* The get that ends a chain.  getdata copies the fetched count to `sets`; a
\* chain behind a set then checks it.  Neither happens after an exception.
GetReply(k, r, hides) ==
    /\ chains[k]["get"] > 0 /\ r \in GetReplies /\ hides \in HideOutcomes
    /\ Fetch(r)
    /\ End(k, "get")
    /\ IF hides /\ Hidden(r) = 1 THEN HideLoader(1) ELSE UNCHANGED loaderVars
    /\ left' = IF hides THEN left + Orphaned(r) ELSE left + 1
    /\ LET returns == r = "unhandled" \/ (r \in Handled /\ hides) IN
       /\ sets' = IF k # "alarm" /\ returns /\ kegelGetModel'.st = "ok"
                    THEN kegelGetModel'.sets ELSE sets
       /\ IF k # "open" /\ returns THEN CheckDay(sets')
            ELSE UNCHANGED <<watch, watch3, four_started, started, counter>>
    /\ UNCHANGED <<mounted, level, timers, rests, finishing, kegel_performed,
                   k_running, serverVars, done, uncounted, demoted>>
    /\ Withholds(r)
    /\ interrupted' = (interrupted \/ (~started /\ started'))

(***************************************************************************)
(* Surroundings.                                                           *)
(***************************************************************************)
\* The server moves the account to another level.
Promote ==
    /\ account' \in Promotions[account]
    /\ UNCHANGED <<stateVars, controllerVars, netVars, pref, serverSets,
                   historyVars>>

\* The process is killed and started again: a post on its way may still be
\* counted, everything on the device but the preferences is lost.
Relaunch ==
    /\ NoScreen
    /\ serverSets' \in serverSets..(serverSets + PostsInFlight)
    /\ kegelGetModel' \in HomeModels(serverSets')
    /\ sets' = 0 /\ kegel_performed' = FALSE /\ k_running' = FALSE
    /\ chains' = NoChains /\ left' = 0
    /\ loaders' = 0 /\ contexts' = FALSE
    /\ uncounted' = FALSE /\ withheld' = (withheld \/ Unaware')
    /\ UNCHANGED <<pref, account, done>>

User == Enter \/ BackArrow \/ Swipe \/ SystemBack
            \/ StartSet \/ ResumeSet \/ FinishTap
Clock == Pass \/ FinishDone \/ CountdownTick \/ NextRep \/ SetDone
            \/ \E h \in Levels : SqueezeTick(h)
Network ==
    \/ \E k \in Kind : ProfileReply(k) \/ ProfileDropped(k)
    \/ \E k \in Kind, r \in Replies, hides \in BOOLEAN :
          \/ PostReply(k, r, hides) \/ PostGetReply(k, r, hides)
          \/ GetReply(k, r, hides)
    \/ AlarmGet

Next == User \/ Clock \/ Network \/ Promote \/ Relaunch

Spec == Init /\ [][Next]_vars

\* The event loop runs its timers, and every call is answered or fails.
FairSpec == Spec /\ WF_vars(Clock) /\ WF_vars(Network)
-----------------------------------------------------------------------------
(***************************************************************************)
(* Properties.                                                             *)
(***************************************************************************)
\* Finish and the back arrow are the only exits, and both look at flags, not
\* at timers.  There is one uncancellable rest at a time, and while it is pending
\* the flags keep both shut (four_started, not started: 8404-8417, 3197), unless
\* the check behind a set has stopped the session under it (427-460).
RestIsExclusive ==
    rests # <<>> =>
        /\ Len(rests) = 1
        /\ interrupted \/ (four_started /\ ~started /\ watch.run)

\* The button says Start only when nothing of the last session is left that
\* could act on the next one: no watch runs, no rest is pending.  It is not so
\* after a check has stopped a session, and a check does that only if a post was
\* refused before, which counts a set the server has not, or if a get without a
\* count let that session begin (137-143, 64-79 of the controller).
StartMeansQuiet ==
    /\ interrupted => uncounted \/ withheld
    /\ started /\ ~interrupted =>
          ~watch.run /\ ~watch3.run /\ rests = <<>> /\ ~four_started

\* A set is complete when the counter EQUALS its length (407, 498, 605): the
\* counter never gets past it, or the set could not end any more.  But a handler
\* stays installed when a lower level is read than it was installed for: then
\* the lower one's length may have been passed (8327-8346, 1198-1199).
NoOverrun ==
    demoted \/ \A i \in DOMAIN rests : counter <= Reps[rests[i].by]

\* Every loader dialog belongs to a call that is still out, or to one whose
\* reply the code has no branch for: none is popped twice, none forgotten.
RowLoaders(row) == row["post"] + 2 * row["postGet"] + row["get"]
LoadersOut(c) ==
    RowLoaders(c["open"]) + RowLoaders(c["resync"]) + RowLoaders(c["alarm"])
LoaderBalance == loaders = left + LoadersOut(chains)

\* A completed set is posted once: lost replies, kills and resumed sessions
\* included, the server never counts more sets than were completed (100, 160).
NeverOvercounted == serverSets + PostsInFlight <= done

\* The button refuses a set more than a day's (3166-3173).  It looks at the
\* fetched model, which lags behind the server while answers are out or lost:
\* all that lets one more set begin is an answer that brings an error or a
\* refusal in place of the day's last count (64-79 of the controller).
DailyCap == withheld \/ serverSets <= DailySets

\* Finish refuses once the fetched model has the day's sets (3166): a session
\* must never be running then, or the user could neither finish nor go back.
\* With the same exception: the next answer that has the count locks it in.
CanFinish == withheld \/ (~started => ~DayDone)

\* Only a squeeze is counted: the watch also runs during a rest, and must not
\* count that as one.
OnlySqueezesCount == [][counter' = counter + 1 => ~four_started]_vars

\* The screen implements the abstract regimen: see KegelRegimen.
Regimen == INSTANCE KegelRegimen WITH
    Lengths <- {Reps[l] : l \in Levels},
    phase <- CASE started \/ finishing -> "idle"
               [] four_started /\ ~started -> "rest"
               [] OTHER -> "squeeze",
    rep <- counter, performed <- done, recorded <- serverSets,
    astray <- interrupted \/ demoted
RegimenSpec == Regimen!Spec

\* A running session is over eventually: the set completes, or it is stopped.
SessionEnds == ~started ~> started

\* What the proofs assume of the constants.  Stage 1 squeezes no longer than a
\* rest lasts.
SqueezeOutlastsRest == Rest < Minute /\ \A l \in Levels : Squeeze[l] > Rest
=============================================================================
