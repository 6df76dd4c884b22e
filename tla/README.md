# Klench: verification project

Klench is a Flutter application (`lib/`, Dart) for pelvic-floor exercises. It
has no backend of its own in the repository: an HTTP API at
`URLConstants.base_url` keeps accounts and exercise records. One Firebase
function (`functions/index.js`) sends timed notifications. `ios/`, `android/`,
`Pods`, `node_modules`, `.dart_tool` and `assets` are generated, vendored or
media.

Contents: [inventory](#1-inventory), [what is hard](#2-what-is-hard-in-this-code),
[modules](#3-modules), [runs](#4-runs), [bounds](#5-bounds),
[fairness](#6-fairness), [theorems](#7-theorems),
[findings](#8-findings), [not modelled](#9-what-is-not-modelled),
[plan](#10-plan).

## 1. Inventory

| component | code | state it keeps | operations |
|---|---|---|---|
| Kegel session | `homepage/kegel_screen.dart`, `controller/kegel_excercise_controller.dart` | `watch`, `watch3`, periodic timers, pending delays, `counter`, `started`, `four_started`; in GetX controllers `sets`, `kegelGetModel`, `kegel_performed`, `k_running` | Start, Finish, back, swipe; six handlers `updateTime_*`; `Kegel_get_API`, `Kegel_post_API`, `getdata` |
| Warm-up session | `homepage/warmpUp_screen.dart` | three watches, `countdownTimer2`, `seconds_timer`, two kinds of pending delays, `w_running` | Start, Finish, back, swipe; `updateTime`, `updateTime2`, `updateTime3`, `setCountDown2` |
| Tracker (M) | `homepage/m_screen_metal.dart`, `controller/m_screen_controller.dart` | `watch`, `paused_time`, `method_data`, `method_time`, the models of seven calls, `m_running` | Start/Pause/Resume, Finish, delete, rename, three refreshes |
| Pee session | `homepage/pee_screen.dart`, `controller/pee_screen_controller.dart` | `watch`, periodic timers, pending delays, `_animationController`, `peeGetModel`, `p_running` | Start, Finish, four handlers `updateTime_*`, get, post |
| Breathing session | `homepage/Breathing_screen.dart`, `controller/breathing_controller.dart` | `watch`, pending delays, `counter`, `_animationController`, `sets`, `breathingGetModel` | Start, Finish, `updateTime`, get, post |
| Loader dialog | `utils/page_loader.dart`, `utils/loader_page.dart` | the dialogs on the navigator, the global `contexts` | `showLoader`, `hideLoader` |
| Kegel alarm list | `kegel_screen.dart` 6620-8772, `alarm_helper.dart`, `alarm_info.dart` | a SQLite table, `_currentAlarms`, `_alarms` (the query shown), one local notification | add, save, list, delete |
| Exercise reminders | `kegel_excercise_controller.dart` 149-287 | delays and periodic timers nobody holds | `alarm_notifications`, `click_alarm`, `scheduleAlarm` |
| Startup and sign-in | `splash_Screen.dart`, `SignIn_controller.dart`, `local_auth_api.dart` | preferences, `userInfoModel` | choice of the first screen, sign in, `GetUserInfo` |
| Sign-up and OTP | `SignUp/*` | the stack of routes, `sendOtpModel`, `signUpModel`, a countdown per `VerifyOtp` | send, resend, verify (typed, filled in or tapped), sign up, back |
| Password reset | `Forgot_pass/*`, `setting_page/Reset_Password.dart`, the sign-up's `VerifyOtp` | the stack of routes, four models, delays of five seconds | ask, check the code, reset, resend, try a code of the resend, back |
| Home, dashboard, swiping | `homepage_screen.dart`, `swipe_screen.dart`, `dashboard_screen.dart` | the tab and card shown | choose, swipe |
| Timed push notifications | `functions/index.js`, `databse.dart`, `messaging_service.dart` | a Firestore collection, one document per device | write, query, send, mark |
| Profile, settings, subscription, the rest | `profile_page/`, `setting_page/`, `subscription_plan/`, ... | forms | single requests |

How the parts interact. Everything runs on one Dart isolate, so a handler is
atomic up to its next `await`. The exercise screens share:

- **the event loop**: 100 ms periodic timers compare the two digits a
  `Stopwatch` displays with a constant; `Future.delayed` callbacks carry the
  exercise to its next phase. Nothing in the code cancels a `Future.delayed`,
  and stopping a session only stops watches and sets flags;
- **GetX controllers**, which outlive a screen. GetX (4.6.1, with its default
  `SmartManagement.full`) deletes a controller with the route it was put under:
  those of the swipe screen when that route is popped, those of the dashboard
  never. A swipe keeps the route;
- **the loader**: every HTTP call shows a modal dialog and remembers its
  `BuildContext` in one global variable; `hideLoader` pops whatever is on top,
  a screen included;
- **the navigator**, on which screens, sheets and loaders lie; the forms push
  screens over loaders, wait for routes to be popped, and pop by delays. GetX
  takes the last *page* for the current one and pushes none of that kind twice;
- **the server**, which answers 200 with or without an error in the body, 401
  or 422, another status the code has no branch for, or not at all.

## 2. What is hard in this code

Flags decide what the user may do, timers decide what happens next, and the two
are kept in step by hand. The hazards listed in `PROJECT.json`, each at its
line, fall into these groups:

- *interleaving*: a pending delay meets a Finish and a new Start; a countdown
  and an old delay both start the same watch; two refreshes are in flight;
- *atomicity, stale state*: Finish awaits an animation, a platform call or a
  post, and timers run in between; the limit of a day is judged by a model
  fetched earlier;
- *partial failure, lost replies*: an exception ends a handler half-way, a
  status without a branch leaves a loader up, a lost reply does not tell
  whether the server counted;
- *ordering*: the database is never waited for; a mark of a notification
  reaches a document that has been overwritten; models shared by requests are
  read by an answer that did not write them;
- *numeric edges*: a comparison with `==` of a displayed second that wraps after
  a minute, of a counter with the length of a set;
- *liveness*: a phase whose end is missed waits for the display to wrap.

What makes each component correct: at most one chain of phases at a time; a
button that says Start only on a quiet screen and one that says Finish only
where Finish works; every repetition counted once and only repetitions; every
completed set posted once; as many loaders as calls; a session that goes on
until it is finished, and ends. For the forms: no pop that takes away a screen,
no user locked under a loader that no call owns, no account or accepted code
that leads nowhere, no password set without an accepted code. For the list of
alarms: the list shown is the table. For the notifications: what is due is sent,
not early, and again only if a mark was lost or late.

## 3. Modules

Time is counted in whole seconds in every module, the resolution of every
comparison in the code. A second does not pass (`Pass`, guarded by `~Due`) while
a handler due in it has not run, because the timers fire ten times a second;
handlers due in the same second run in either order unless the code fixes it.
A network call is two steps, its request (in the action that sends it) and its
answer; what the user and the timers do in between is free. Answers are
`"ok"`, `"error"` (a 200 that reports an error), `"refused"` (401, 422),
`"unhandled"` (any other status) and `"dropped"` (an exception). `Relaunch`
kills the process and starts it again: the preferences and the server's rows
survive, and a post on its way may still be counted.

| module | models | remarks |
|---|---|---|
| `Stopwatches` | Dart's `Stopwatch` as displayed | `[run, at]`, `at` modulo `Minute` |
| `LoaderDialog` | `page_loader.dart` | `loaders`, and whether `contexts` belongs to one of them. A `hideLoader` through the context of a dialog that is gone either still finds the navigator or throws: `HideOutcomes` |
| `KegelSession` | the Kegel screen, its controller, entering and leaving, `GetUserInfo` as far as it waits for it | six handlers are one action `SqueezeTick(h)` with tables `Squeeze`, `Reps`, `Resyncing`, `ClearsCountdown` |
| `KegelRegimen` | what a Kegel session promises: squeezes and rests alternate, a set is complete after a rest, the server records a completed set at most once | abstract specification. A session that something else than the user stops, or whose level is lowered, is `astray`: of it only the record is promised |
| `MCKegelSession` | values for TLC: the numbers of the code, and a small regimen | |
| `HoldCycle` | what an exercise of holds and pauses promises: a hold is not cut short and not missed, it ends in a pause, and none ends while a pause is pending, so that there is one chain of them | abstract specification, 6 actions, implemented by the next three screens |
| `SessionLog` | what a log of sessions kept by a server promises: what is measured goes into the next row made and nowhere else; a row is posted once; a settled post never counts later; what was deleted does not come back | abstract specification, implemented by `Tracker` |
| `WarmUpSession` | the warm-up screen | no network |
| `Tracker` | the tracker and its controller | rows carry a number, pauses and seconds; `FinishFails` is the Finish that throws |
| `PeeSession`, `MCPeeSession` | the pee screen and its controller | the disposed animation controller is what stops an old chain |
| `BreathingSession` | the breathing tab and its controller | |
| `Routes` | the navigator as a stack of routes, `page_loader.dart` on it | `[stack, dialog, current]`: the routes, where the loader of `contexts` is, GetX's current page. A `hideLoader` without its dialog may still pop: `HideOutcomes` |
| `SignUpOtp` | the sign-up form, `VerifyOtp`, `sign_up_controller.dart` | a *call* is one run of a handler, at the stage it awaits |
| `PasswordReset` | the three screens of `Forgot_pass`, and what their Resend leads to: the sign-up's `VerifyOtp`, its codes and the sign-up | the same, with the delay at the end of each handler |
| `AlarmList` | the list of alarms and its table | the database does its inserts and deletes in order (`queue`); of the queries only the latest is shown, so that it is enough to know how many of these come before it (`ahead`) and what it read (`reply`) |
| `Notifications` | `functions/index.js`, `createNotification` | every notification has an identity the code does not have |
| `KegelSession_proofs`, `Tracker_proofs`, `Notifications_proofs`, `AlarmList_proofs`, `SignUpOtp_proofs`, `PasswordReset_proofs` | theorems about the module each is named after | section 7 |
| `Cycles_proofs` | theorems about the three exercises that are cycles of holds and delays | extends `PeeSession` and has `BreathingSession` and `WarmUpSession` as instances `B` and `W`; section 7 |
| `Routes_proofs` | lemmas about pushes, pops and loaders on any navigator, and about counting calls | used by `AlarmList_proofs`, `SignUpOtp_proofs` and `PasswordReset_proofs` |

`KegelSession`, `Tracker`, `PeeSession` and `BreathingSession` extend
`LoaderDialog` and `Stopwatches`; `WarmUpSession` extends `Stopwatches`.
`SignUpOtp`, `PasswordReset` and `AlarmList` extend `Routes`.
`KegelSession` implements `KegelRegimen` by `INSTANCE ... WITH`: `phase` is read
off `started`, `finishing` and `four_started`; `rep`, `performed`, `recorded`
are `counter`, `done`, `serverSets`; `astray` is `interrupted \/ demoted`.
`PeeSession`, `BreathingSession` and `WarmUpSession` implement `HoldCycle` in the same
way (`Cycle`, `CycleSpec`): `holding` and `held` are `watch`, and the pauses are the pending
delays: pushes, rests, and in the warm-up rests and gaps, where a rest and the gap after
it are one pause of both lengths. That there is one at most (`OneChain` of `PeeSession` and
`WarmUpSession`) follows from `HoldCycle`. The other watches, flags and handlers are what the
screens keep that promise with, and not in it.
`Tracker` implements `SessionLog` (`Log`, `LogSpec`): `measured` is what was paused and timed
since the last row (`breaks`, `worked`), `done` is `finished`, `recorded`
the server's rows in their order, and a post is on its way until its answer has come or is
lost, whether or not the screen that sent it still exists (`posts`, `strays`). That no
session is recorded twice (`RecordedOnce`) follows from `SessionLog`.

Correspondence for `KegelSession`, the core:

| action | code |
|---|---|
| `Enter`, `ProfileReply`, `GetReply("open", ...)` | `initState`, `getdata`, `GetUserInfo`, `Kegel_get_API` |
| `StartSet`, `CountdownTick` | Start with counter 0: `startWatch3`, `updateTime3` |
| `ResumeSet` | Start with a counter left from an interrupted set: `startWatch` |
| `SqueezeTick(h)` | `updateTime_*` up to the `Future.delayed` |
| `NextRep`, `SetDone` | the delayed callback, its two branches |
| `PostReply`, `PostGetReply` | `Kegel_post_API` and the get nested in it |
| `GetReply("resync" / "alarm", ...)`, `CheckDay` | `getdata` or `alarm_notifications`, then the check for the day's sets |
| `FinishTap`, `FinishDone` | the Finish branch before and after `await _animationController.reverse()` |
| `Dispose` in `Swipe`, `BackArrow`, `SystemBack` | leaving; callbacks of a disposed State fail at their first `setState` |

`chains[k][s]` counts the handlers of kind `k` (who started it) that wait at
stage `s`. History variables, which no guard of a program step reads except that
a bound may (`done < MaxSets`, `begun < MaxSessions`): `done`, `left`, `begun`, `earned`,
`finished`, `worked`, `breaks`, `overlapped`, and those that remember a mishap
a property names as its exception. Of the last, `KegelSession` has four:

| | set by | kept until |
|---|---|---|
| `uncounted` | a post answered with a 200 that reports an error: the code goes on (137-143 of the controller), and counts a set on the device that the server has not | relaunch |
| `withheld` | a get that brings an error or a refusal in place of the day's last count (64-79): the button lets one more set begin | |
| `interrupted` | the check behind a set (`CheckDay`) stops a session that runs | the screen is left |
| `demoted` | a level lower than that of an installed handler is read: a set begun before the profile came runs under the default handler, Easy, and the account's level turns out to be a Super Easy | the screen is left |

`PeeSession` has `halved` (a Finish whose get was refused before any was answered), and
`PasswordReset` `touched`, `mistaken`, `unanswered`, `overlapped`, `tried` and `wentBack`.

`PeeSession`: `HoldTick`, `PushDone`, `StartTap` correspond to `updateTime_*`,
its delayed callback and `startWatch`; `FinishTap`, `FinishPosts`, `PostReply`
and `GetReply` are the parts of Finish between its awaits. `Tracker`: the button
is `StartPauseTap`, Finish is `FinishTap` or, where it draws a shade that does not exist,
`FinishFails`; the three lists of a refresh are `life`, `daily`, `weekly`.
`BreathingSession`: `BreathTick`, then `NextBreath`, `SetDone` or `SetLost` (the
callback that dies of a disposed controller). `WarmUpSession`: `HoldTick` begins
a rest that is measured by a watch (`RestTick`) and by a delay (`RestDone`),
which begins the reverse phase, again measured twice (`ReverseTick`,
`GapDone`).

`SignUpOtp`: `Next_Tap` and `SendOtpAPi` are the two halves of Next, before and
after it awaits the app's signature; `SendAnswered` goes on to `GetToVerifyOtp`,
whose handler waits (`"await"`) until `Return`; `CodeChanged` and `Verify` start
`VerifyOtpAPi`, which goes on to `SignUpAPi` (`VerifyAnswered`,
`SignUpAnswered`, `Kept`) and back to `Check` in the screen. A handler whose
awaited value is there goes on before any event (`Microtask`, `NoMicrotask`).
`PasswordReset`: `Ask`, `Answered`, `Toasted`, `Check`, `Delayed` are the parts
of one handler between its awaits, the same in the three screens but for the
loader that an accepted code does not hide. `OtpScreen`'s Resend is the sign-up's
and pushes the sign-up's `VerifyOtp` (`Resend`, `ResendAnswered`, `Return`), where codes are
typed, filled in or sent by button (`EnterCode`) and an accepted one signs up (`CodeAnswered`,
`SignUpAnswered`, `Kept`, `Entered`), each under a loader of its own, as in `SignUpOtp`.
`AlarmList`: `OnSaveAlarm` and `Scheduled` are `onSaveAlarm` before and after the
platform has scheduled; `Database` does one write of the queue, `Queried` reads the
table for the latest query when its turn has come, `Shown` is the `FutureBuilder` with the reply of its latest query. `SetPosts` and `SetPosted`
stand for the loader of a set posted meanwhile. `Notifications`: `Query(i, m)` is
the query of an invocation that read its clock at minute `m`, `Send` the loop over
the reply, which hands all to FCM and asks for all marks in one go, `Mark` one of
those updates reaching Firestore.

Operators named as variants in comments (`NeverCleared`, `SetOvershot`, ...) are
wrong versions of the operator next to them. No specification uses them: put
in its place, each makes the property it is listed with in `PROJECT.json` fail.

## 4. Runs

| run | asks | answer |
|---|---|---|
| `KegelSession` | with the code's durations of Super Easy stage 2, Easy and Hard, every reply there is, and promotions while the screen is open: one rest at a time (`RestIsExclusive`), Start only on a quiet screen (`StartMeansQuiet`), the counter never past its `==` (`NoOverrun`), the day's limit kept although it is judged by an older model (`DailyCap`), no session the user cannot finish (`CanFinish`), only squeezes counted (`OnlySqueezesCount`), `KegelRegimen` implemented (`RegimenSpec`) | holds, with the exceptions below |
| `KegelFaults` | with every answer, promotions, kills: loaders add up, no set is counted twice, sessions end, loaders go away | holds |
| `KegelStage1` | only squeezes are counted, at Super Easy stage 1 | violated, section 8 |
| `WarmUpSession` | `HoldCycle` implemented, however often it is stopped in its reverse phase and started again: one chain of delays, no hold cut short or missed (`CycleSpec`); no hold during a rest; a cycle that is not stopped goes on | holds |
| `Tracker` | rows tell what was measured since the row before, over Finishes that throw; `SessionLog` is implemented (`LogSpec`): each row is on the server once at most; the list repeats a row only if two refreshes overlapped, loaders add up, a running watch is shown as running | holds |
| `PeeSession` | `HoldCycle` implemented: one chain of holds and pushes; one post a session, a Finish that works, the cycle goes on; with every reply | holds |
| `BreathingSession` | a running watch can be stopped, a set took the time of its breaths, `HoldCycle` implemented, the cycle goes on | holds |
| `BreathingLost` | the counter is never past a set | violated |
| `Notifications` | what a document's flag says, what is sent twice, whether what is due is sent: with late, lost and overlapping marks and invocations, and documents overwritten meanwhile | holds |
| `SignUpOtp` | there is a loader for every `hideLoader` to come (`LoadersCoverCalls`), who can be locked under one (`LockedOnlyIf`), an account leads on (`AccountLeadsOn`) | holds |
| `PasswordReset` | with the codes and sign-ups of a resend's `VerifyOtp`: no reset without an accepted code, whose the loaders are, what the delayed pops take away, what is granted leads on | holds |
| `AlarmList` | the list is the table when nothing is under way, the limit of three, Save takes away its sheet | holds |

A deadlock is an error in the runs of the exercises and of `Notifications`: a user
can always leave, the process be killed, or the function be invoked again.
`SignUpOtp`, `PasswordReset` and `AlarmList` may stop, and say so: when their
bounded taps are spent, and because the code does lock the user under a loader.

Several properties name the exceptions the code has. They are what
the runs found, one after the other. Each exception is one short path, and the property
says that there is no other; each one is about an event of the code, never about a
set of replies or levels left out:

- `DailyCap`, `CanFinish`: a get answers with an error (or the home screen's with a 401) when the
  server has the day's sets. The button then has no count to refuse by, and one more set can be begun; when
  the next get brings the count, Finish and back both refuse (`withheld`). Lost, late and unexpected
  replies, and any reply of a post, are no such reason.
- `StartMeansQuiet`, `RestIsExclusive`: `CheckDay` stops a session that runs, and leaves its rest pending
  behind a button that says Start (`interrupted`). The property says more: this happens only after a post
  that reported an error or a count withheld.
- `NoOverrun`: a level lower than that of a handler is read under it (`demoted`). A set
  begun at Super Easy before the profile has been read runs under the handler of Easy,
  and its counter may have passed the shorter length. Promotions, resumed sets and several handlers at once never do it.
- `RegimenSpec`: the last two are `astray` in `KegelRegimen`.
- `FinishWorks`, and with it the second part of `CycleGoesOn`: the pee screen's Finish is left half done by a
  get refused with 401 or 422 when none was answered before (`halved`, section 8).
- `RowsAreTrue`, `LogSpec`: a Finish that throws (section 8) makes no row, and what it had
  measured goes into the next one. What a row tells is what was measured since the row
  before it, and no more.

- `LockedOnlyIf`: with no answer lost and no calls overlapping, the user is locked
  under a loader only by going back from a `VerifyOtp` that had tried a code or
  resent one. The form's loader waits for that; `contexts` is by then that of
  another loader, long gone, and the `hideLoader` throws.
- `LoaderBalance` of `PasswordReset`: an accepted code leaves its loader under the
  reset screen, one for each; and a `VerifyOtp` left after it had tried a code or resent one leaves
  that of the resend, as for `LockedOnlyIf` (`wentBack`).
- `DelayTakesSheet`: if the user taps the sheet's button within its five seconds, the
  delayed pop takes away the screen that the button opened.
- `LimitKept`: an Add tapped before the last query has come back, or one sheet saved
  twice, makes a fourth alarm. `ListIsTable` holds although neither INSERT nor
  DELETE is awaited, because the database works in order; a notification that
  cannot be scheduled keeps the list from being read again.
- `FoundAgainOnlyUnmarked`: a notification is sent twice only after a lost mark or
  while its mark is late; nothing else makes it.

Where the passing runs are narrower than the code:

- `KegelSession` leaves out stage 1 of Super Easy, whose squeeze is no longer than the rest; it is run
  `KegelStage1`. The theorems of section 7 name that, `SqueezeOutlastsRest`, as their only
  condition.
- `KegelFaults` has promotions upwards only and no level below the default. `SessionEnds` would be false of a
  session whose counter has passed its length (`demoted`): it runs on until it is finished by hand.
- `PeeSession` leaves out the level
  `super_easy`, the only one whose push (5 s) is longer than its hold (3 s):
  there a finished session's push may outlive the next session's first hold, and
  `CycleSpec` fails, as does `OneChain`. The theorems name it as `PushesEndFirst`.
- `KegelFaults`, `WarmUpSession` and `BreathingSession` use scaled-down durations
  (section 5).

## 5. Bounds

- `MaxSets`, `MaxSessions` (one more than a day's sets, or two or three sessions)
  bound what the user may *begin*: every interleaving of the end of one session
  with the next one, and the refusal after the day's sets, is inside.
- `KegelSession.cfg` has the real durations and a wrapping
  display of 60 s, a level of each of the three families (Super Easy, below the default; Easy, the
  default; Hard), and every reply. `Reps` is 1, 2 and 3 for the code's 6, 8 and 12: what matters is that a higher level
  repeats more, that a set has a repetition that is not its last, and that the counter can pass the shorter length. `DailySets` is 1 for
  3: a set that is the day's last, and another that must be refused, or is begun because of
  an exception. `MaxCounter` (4, one past the longest set) bounds an overrun.
  The server may promote the profile upwards at any moment, also during a set.
  `PeeSession.cfg` has the real durations.
- `KegelFaults.cfg`, `WarmUpSession.cfg`, `BreathingSession.cfg` scale the
  durations down and keep their order (rest shorter than squeeze; hold = gap,
  reverse = gap - 1, rest = hold + 2; breath longer than rest) and a display
  that wraps soon, so that "missed until it wraps" is reached.
- `Tracker.cfg` has two rows at most (`MaxSessions`; Finishes that throw are not bounded but by the seconds), `PauseLimit` 2 for the code's 4 and a display that wraps after
  2 seconds for its hour: a session longer than the display, and a tap when the
  pauses are used up, are reached.
- `MaxTaps` bounds the Finish handlers at a time in `PeeSession` (2: a second tap is
  what `PostedOnce` is about).
- `MaxAsks` bounds the taps that start a call of `SignUpOtp` and `PasswordReset` (4),
  `Call` those under way at a time (3 and 2): a form sent twice, a code typed, filled
  in and resent at once. With four taps `PasswordReset` reaches a resend, its `VerifyOtp`, a code tried
  there, its sign-up and the way back.
- `AlarmList`: the code's limit of three, one alarm more, two saves at a time.
  `MaxQueue` bounds the writes the database may be behind at a tap.
- `Notifications`: two documents, two notifications (one may overwrite the other), two
  invocations at a time; the clock has three minutes and then stands still, and
  what is due stays due. `Notifications_proofs` has no bound.
- In `BreathingSession`, `counter` stops at `Reps + 1`, past which all values
  behave alike, and `earned` at the time of a whole set.

## 6. Fairness

`WF(Clock)`: the event loop runs a timer that is due, and time passes. This is
what Dart's event loop does while the application is in the foreground; the
models have no suspension of the application. (If it is suspended over the
very second a handler compares with, the handler waits for the display to
wrap; that second cannot be missed otherwise.) `WF(Network)`: a call is answered or fails,
as `package:http` does at the latest when the socket times out. Nothing is
assumed of the user, the server or GetX. `Promote` and `Relaunch` are unfair.
`Notifications` assumes that time passes (weak), that a scheduled function is
invoked again and again at the current time, and that not every reply to its query
is lost (strong: an instance may be taken up by another query before), and that
an update is made or fails (weak): what Cloud Scheduler and Firestore promise.
`SignUpOtp` and `PasswordReset` assume only what the isolate goes on with by itself: a
value awaited that is there, a toast, a delay. No answer is ever fair there.
Invariants are checked without fairness. The assumption is on whole disjunctions:
that the clock goes on, not that it prefers a particular timer; in every module
`Pass` is disabled while a handler is due, so none is passed over for ever.

## 7. Theorems

`KegelSession_proofs` proves, for all values of the constants that satisfy the
named assumptions of `KegelSession` and `Stopwatches` (`LevelsAssumption`,
`TimeAssumption`, `NetAssumption`, `MinuteAssumption`), that is for any set of
levels, durations and mix of replies:

| theorem | property | needs | argument |
|---|---|---|---|
| `TypeCorrect` | `TypeOK` | | with `LInv`, below |
| `LoaderBalanced` | `LoaderBalance` | | `LInv == TypeOK /\ LoaderBalance /\ OpenNeverPosts` is inductive |
| `CountedOnce` | `NeverOvercounted` | | inductive relative to `LInv` |
| `OnlySqueezesCounted` | `OnlySqueezesCount` | S | `OneRest`, inductive relative to `TypeOK` |
| `RestsAreExclusive` | `RestIsExclusive` | S | `Sound`, below: its part `Shape` |
| `StartIsQuiet` | `StartMeansQuiet` | S | `Sound`: `Shape`, and `Explained` |
| `DayIsCapped` | `DailyCap` | S | `Sound`: `Capped` |
| `SessionCanFinish` | `CanFinish` | S | `Sound`: `Capped` and `Known` |
| `NeverOverrun` | `NoOverrun` | S | `Climbing`, relative to `LInv` and `OneRest` |
| `ScreenImplementsRegimen` | `RegimenSpec`, the refinement of `KegelRegimen` | S | a step mapping for each action, under `Sound` and `Climbing` |

S, `SqueezeOutlastsRest`, at the end of `KegelSession.tla`, is the only hypothesis: every squeeze is
longer than the rest, and the display does not wrap within one. It holds of all levels but stage 1 of
Super Easy, for which run `KegelStage1` shows what fails. Nothing is assumed of the replies
(`PostReplies` and `GetReplies` may be all there are) or of the promotions; where a reply or a
lower level breaks a promise, the property names the event (section 3, section 4).

Why `LInv`: `loaders` goes down by one or two at a time, so that it stays a
natural number only because it equals a sum of natural numbers (the loaders of
the calls that are out, and those left up); and the sum is right only because a
chain begun by opening the screen is never at the stage of a post
(`OpenNeverPosts`), where one reply takes down two. The three
are proved together, one lemma for the screen's variables and one for those of
the network, each with a step per action. `CountedOnce` adds that a set on the
server and a post in flight are each paid for by a completed set: a reply moves
a unit from one to the other, or loses it, and a kill does the same.

Why `OneRest`: a rest is counted as a squeeze if the watch reaches a squeeze's
length while it is pending. `OneRest` says that at most one rest is pending, that
the watch shows no more than the time it has been pending, and that
`four_started` is set only during one. With `SqueezeOutlastsRest` (every squeeze is longer than the rest, and the
display does not wrap within one) the watch cannot get there. Stage 1 violates
the assumption, and run `KegelStage1` shows the property fail.

Why `Sound`: that the screen has one chain at most is nothing a single step keeps. A
second Start must find no rest, no post and no finishing session. `Shape` says which
flags, watches and rests go together: a pending rest has its watch running and
`four_started` set, and a screen that offers Start has neither watch running and is not finishing.
Only a check can break it, by stopping a session that runs, and then `interrupted` says so until the
screen is left: `interrupted \/ Shape` is inductive relative to `LInv` and `OneRest`, which hold whatever a check does.
When a check can do so is a fact about the
day's count. `Counts` has five parts. While anything of a session could act, no post is out
(`Settled`): a tap finds no loader, and the post of a set begins when its session ends. The
model is never ahead of the server, and behind it, at the limit, only where `withheld`, a loader left up, or a
nested get says why (`Known`). Without `withheld` the server and the posts on their way stay within the
day's sets, and below them while a session is active (`Capped`). `sets` is what the server has, or what it will
have, unless a post was refused (`Earned`). So a check that stops a running session finds the day's sets,
which needs `uncounted` or `withheld` (`Explained`).
`Climbing` adds what the handlers compare. Unless a lower level was read, the handlers that run form a chain
below the level shown (`Rising`); between repetitions the counter is below the length of every
one of them, and in a rest it is at most that of the lowest, which began it (`Counted`). The subtle
step is that of a squeeze: of several handlers the one with the shortest squeeze ends it, and it repeats no more often
than any other.
The refinement then
needs no induction of its own: under these invariants every action is one action of
`KegelRegimen`, leaves its variables alone, or leads the session astray.

`Tracker_proofs` proves, for any display, numbers of sessions, calls and pauses and mix
of replies, Finishes that throw included (`TrackerAssumption`, `MinuteAssumption`):

| theorem | property | strengthened by |
|---|---|---|
| `TypeCorrect` | `TypeOK` | all of `IInv` |
| `RowsAreTrueHolds` | `RowsAreTrue` | `Timed`: the watch and the pauses shown are what was measured since the last row, the seconds modulo the display |
| `RecordedOnceHolds` | `RecordedOnce` | `Ledger`: a finished session is with one post on its way, on the server once, or nowhere |
| `RowsDistinctHolds` | `RowsDistinct` | `Listed`: until two refreshes overlap the list is empty from the moment one begins until it is answered |
| `LoaderBalanceHolds` | `LoaderBalance` | `Net`: a screen that is gone has no call that owes it a pop |
| `RunningIsShownHolds` | `RunningIsShown` | `Shown` |
| `LogImplemented` | `LogSpec`, the refinement of `SessionLog` | a step mapping for each action, under `IInv` |

The parts lean on each other. A post is of a session already numbered (`Sessions`),
without which the next session could take the number of one still on its way; a row is
true only because the post that makes it was. The natural number `loaders` is again a
sum, as for the Kegel screen. The refinement needs the numbers of the sessions too: only
because they differ is a session finished not one already done; and it needs of `Ledger`
that a post is either its screen's or a stray, so that it is settled once.

`Cycles_proofs` proves of `PeeSession`, for any levels, durations, numbers of sessions and of Finish
handlers (`LevelsAssumption`, `MinuteAssumption`):

| theorem | property | argument |
|---|---|---|
| `TypeCorrect` | `TypeOK` | `IInv == Screen /\ Net` is inductive |
| `LoaderBalanceHolds` | `LoaderBalance` | part of `Net` |
| `PostedOnceHolds` | `PostedOnce` | `Posted`: a live animation controller stands for a session not yet posted |
| `FinishWorksHolds` | `FinishWorks`, for every reply | `Finishing`: a session without a live controller is being posted or read, its Finish was left half done, or a loader stays up |
| `OneChainHolds` | `OneChain`, if `PushesEndFirst` | `Race`: what is left of a push and what the watch shows add up to no more than the push |
| `CycleImplemented` | `CycleSpec`, the refinement of `HoldCycle`, if `PushesEndFirst` | a step mapping under `Race` and `Held`: some handler that runs looks at the watch no later than at its length |

`PushesEndFirst` says that no push is longer than any hold, which
holds of Easy, Normal and Hard and not of Super Easy.

Of `BreathingSession`, for any durations, breaths and sets (`Lengths`):

| theorem | property | argument |
|---|---|---|
| `BreathingTypeCorrect` | `TypeOK` | `BInv` is inductive: the delays end in the order they began (`InOrder`), there is a loader for every call (`BreathingLoaders`) |
| `RunningIsStoppableHolds` | `RunningIsStoppable` | `Stoppable`; a set that is lost to a disposed controller had stopped its watch before |
| `SetsAreEarnedHolds` | `SetsAreEarned`, an action property | `Measured`: the seconds of the current set are at least its breaths so far, times their length, and what the watch shows |
| `BreathingCycleImplemented` | `CycleSpec`, if `BreathOutlastsRest` | a step mapping under `Measured` and `OneRest`: one rest is pending at most, and a breath begun in it is no older than it |

`BreathOutlastsRest` says that a breath is longer than a rest; the code's are 15 and 2
seconds (62, 68). Otherwise a breath begun by a tap in a rest may end before the rest
does, and two are pending.

Of `WarmUpSession`, for any durations (`Phases`) with `DelaysKeepApart`: no gap is longer than
a hold, a hold is longer than a second, and the display of `watch3` does not come round within a
gap and a rest. The code has 11, 13 and 11 seconds on a display of 60; TLC finds
each of the two properties violated on a small instance as soon as one of the three
relations is dropped.

| theorem | property | argument |
|---|---|---|
| `WarmUpTypeCorrect` | `TypeOK`, for any durations: without `DelaysKeepApart` | `DelayTypes`: no delay is pending past its length, however many are |
| `WarmUpOneChainHolds` | `OneChain` | `WInv` |
| `RestNotHeldHolds` | `RestNotHeld` | `WInv` |
| `WarmUpCycleImplemented` | `CycleSpec`, the refinement of `HoldCycle` | a step mapping under `WInv` and `Timely`: no hold runs past its length |

Why `WInv`: nothing cancels a delay, and the next hold has two starters, the delay of the gap
and, after a Start in the gap, the countdown on `watch3`. A hold begun early must not end
before the gap does: it began a second late at least and is behind `watch3`, which has run
past `Countdown` at least as long (`Waiting`). The subtle case is a Finish tapped in the
last second of the gap: the delay starts the watch again behind it, the hold may end before
the handler of Finish goes on, and Start is then offered in a rest. That no hold
begins there is because `watch3` is already past its second, and the rest over before
it comes round (`Resting`, `Awaiting`). So the time `watch3` has run past
`Countdown` (`Past`) has to be followed through all phases.

`Notifications_proofs` proves, for any number of devices, notifications and
invocations (`NotificationsAssumption`):

| theorem | property |
|---|---|
| `TypeCorrect` | `TypeOK` |
| `OnlyDueIsSentHolds` | `OnlyDueIsSent`: nothing is sent before its time |
| `MarkedWasSentHolds` | `MarkedWasSent` |
| `FoundAgainOnlyUnmarkedHolds` | `FoundAgainOnlyUnmarked`, an action property |

The inductive invariant: what is found, marked or sent is written and due
(`Due`), an instance waits for a reply or has marks out, never both
(`FindsThenMarks`), a document is its token's (`OwnDocument`), a notification on its
way that is no longer its token's document was overtaken (`Overtaken`), and one that
was sent and does not say so has its mark under way or lost (`MarkFollows`). The
last two need the first ones: a mark sets the flag of whatever document is there,
so that the flag is true of it only if it is the notification marked, or overtook
it.

`AlarmList_proofs` proves, for any limit, number of alarms and number of saves under
way (`AlarmAssumption`):

| theorem | property | strengthened by |
|---|---|---|
| `TypeCorrect` | `TypeOK` | `Shape` |
| `ListIsTableHolds` | `ListIsTable` | `Pending`: unless a save is still to ask for one, the latest query comes after all the writes, or it has read the table as it is |
| `LimitKeptHolds` | `LimitKept` | `RoomLeft`: an alarm counts from its insert on, and a sheet not yet saved from has room for one |
| `SaveTakesSheetHolds` | `SaveTakesSheet`, an action property | `SheetStays`: a save has its sheet on the stack and is the only one; `Shape`: over the Kegel screen lie sheets and loaders alone |

`SignUpOtp_proofs` proves, for any number of calls and events (`SignUpAssumption`, which also
says that the names of calls are no names of other routes):

| theorem | property | argument |
|---|---|---|
| `TypeCorrect` | `TypeOK` | |
| `LoadersCoverCallsHolds` | `LoadersCoverCalls` | inductive with the types |
| `LockedOnlyIfHolds` | `LockedOnlyIf` | `CInv == Clean => Lined`, below |

`LoadersCoverCalls` is far from any single step all the same: every action is shown to take away no
more loaders than the call it is of owes less afterwards (`Keeps`), and a pop where a
loader is owed cannot reach the form at the bottom, because fewer routes than loaders
would lie over it (`GoodPopped`, `LoadersBelow`).

`LockedOnlyIf` says who can be locked under a loader while no answer was lost and no two
calls overlapped (`Clean`), and its proof says how the navigator looks as long as that is so
(`Lined`): at most one call is under way besides the one that waits for `VerifyOtp`
(`Alone`); over the form lie only the screens and loaders these put there, in the
order in which they did (`Tidy`); the global `contexts` is the dialog of the call that
will hide next, or none is owed (`Clear`, `Origins`); and the form's own loader
is still the one of `contexts` until its `VerifyOtp` has tried a code or resent one
(`Untried`). Each pop is then shown to take away the route it means to.

`PasswordReset_proofs` proves, for any number of calls and taps (`ResetAssumption`):

| theorem | property | strengthened by |
|---|---|---|
| `TypeCorrect` | `TypeOK` | |
| `ResetIsVerifiedHolds` | `ResetIsVerified` | `Accepted`: before the server accepts a code there is no model that says so, no delay of the code's screen, no sheet of it and no reset screen |
| `DelayTakesSheetHolds` | `DelayTakesSheet`, an action property | `Alone`, below |
| `LoaderBalanceHolds` | `LoaderBalance` | `CInv == Clean => Lined`, below |

`Alone`, while the user leaves the sheets alone: either one call at most is under way, and what is on top is what it
put there (`Single`), or a resend's `VerifyOtp` lies on the stack and no call of the three screens is in hand
(`OnVerify`). In the second case calls may overlap and their `hideLoader` may pop each other's dialogs, so
what lies over `VerifyOtp` cannot be told; but there is always as much of it as is going to be
popped (`Debt`), and so no pop gets below.

`Lined`, while nothing of what `LoaderBalance` excepts has happened (`Clean`): one call in hand at most
(`OneInHand`), its loaders on top and the last of them that of `contexts` (`UnderLoader`), and as many loaders as
are owed and as codes were accepted (`Balanced`). The resend adds three situations. No `VerifyOtp` and nobody
who waits for one (`Closed`); a `VerifyOtp` over the loader of its resend, which is still that of `contexts` until
something is asked for there (`Open`); and one that was left before that, with the loader on top (`Left`).
A `VerifyOtp` that has asked for something is never left (`wentBack`), so the `hideLoader`
of the resend never meets the dead context of another call.

Every safety property and every refinement the passing runs check is the subject of a
theorem. (Of `B` and `W` the theorems are about the instances, `B!RunningIsStoppable` and so
on.) Proved and not among the runs' properties: `OneChain`, `RecordedOnce`, which the
refinements imply, `LoaderBalance` of `PeeSession`, and the types of every module
but `KegelSession`. Only
model-checked: liveness (`SessionEnds`, the three `CycleGoesOn`, `DueIsSent`,
`AccountLeadsOn`, `GrantedLeadsOn`), which needs fairness and `ENABLED` and is out of the
prover's reach; and the two properties section 8 shows violated.

## 8. Findings

- `KegelStage1`: "repeating the process 4 times is considered 1 set"
  (`kegel_screen.dart` 8263). At Super Easy stage 1 a squeeze is 3 s and so is
  the rest; the watch runs during the rest too, and its handler counts the rest
  as one more repetition.
- `BreathingLost`: Start and Finish within the two seconds after the tenth
  breath make the callback of those seconds fail before `counter = 0`; the
  counter goes on to 11, and as the code compares with `==`, no set is completed
  any more.

Behaviours of the same kind that the models show and no run is kept for:

- Finish of the tracker draws a shade `[_random.nextInt(9) * 100]` for a method of the user's own, and there
  is none for 0: `method_color!` (`m_screen_metal.dart` 2365) throws after the watch was stopped and before the
  row is added, the watch reset and the pauses cleared (`FinishFails`). Nothing is posted, and the next
  session begins with the lost one's seconds and pauses: its row carries them, and "Only 4 pauses are
  available" (2444) may come before it has paused.
- After a completed Kegel set `k_running` stays set (only Finish clears it,
  `kegel_screen.dart` 3207), and swiping is refused with "Please finish the
  method" although nothing runs.
- Finish in the reverse phase of the warm-up clears `w_running` but leaves the
  delay that starts the next hold (`warmpUp_screen.dart` 126): a hold then runs
  that may be swiped away.
- Finish of the pee session disposes the animation controller first; if the get
  it waits for is refused and none was answered before, its null check
  (`pee_screen_controller.dart` 124) ends it before the button is set back to
  Start: every further Finish dies of the disposed controller (`halved`).
- A Kegel set begun after a get that reported an error, when the day's sets were done, can be neither
  finished nor left by the arrow once the count is fetched (`withheld`); a post that reported an error lets the check of the
  day stop the session after it (`interrupted`).
- Those of the forms under section 4: the form locked behind a `VerifyOtp`
  (`sign_up_controller.dart` 212), the loader of a resend (270), the loader under the reset screen
  (`forgot_password_controller.dart` 115), the delay that pops the screen just
  opened (`Forgot_screen.dart` 276), the fourth alarm (`kegel_screen.dart` 6626).

## 9. What is not modelled

Layout, text, animations (except `dispose` where it decides control), sound and
vibration, charts, calendar and dates. In the modelled screens: pause and resume
code nothing calls, the tracker's percentage ring, `Breathing_screen`'s second
display, the checks of the forms' text. Of the platform: suspension of the
application, clocks that drift, a `Stopwatch` that stops while the device sleeps.
`FinishPosts` of `PeeSession` (two platform calls) is taken to happen within the
second of the tap. In the exercises the navigator is a count of loaders, not a
stack as in `Routes`: a route pushed over a loader by a tap on a notification
(`kegel_excercise_controller.dart` 276) is out of those models.

The components with status `not_modelled` in `PROJECT.json`, and why:

- *exercise reminders*: delays and timers that schedule a local notification and
  change nothing the application reads again. All reminders and alarms are
  scheduled under the notification id 0 and so replace each other
  (`kegel_excercise_controller.dart` 245), deleting an alarm leaves its notification
  (`kegel_screen.dart` 8769), and every start of the application adds timers
  that nothing cancels (170): which one goes off is up to the platform's plugin;
- *startup and sign-in*: one handler that awaits three calls in a row and chooses a
  screen; it looks at `userInfoModel!` unchecked (`splash_Screen.dart` 75), so that
  a call that fails leaves the splash screen up;
- *home and dashboard* hold a tab index; what they do to an exercise is in its module;
- *profile, settings, subscription* are forms over single requests, and a payment
  that is a mock-up;
- the rest is layout, generated or third-party.

`createNotification` is modelled, but its only caller is commented out
(`pee_screen.dart` 1798) and it writes a time the query never matches; the notifications
`Notifications` is about come from whoever else writes the collection, which is not in
the repository.

Smaller hazards met while reading and not in the list: the reverse phase of the
warm-up goes on from a partial `seconds_timer` after a Finish (2137); the
tracker's ring advances once per timer ever started (4290) and its recorded time
drops the hour (4341); a push that ends while Finish awaits restarts the watch
behind it (`pee_screen.dart` 131); the breathing tab's `getdata` returns before its
get has begun (443); the OTP countdown calls `setState` on a screen that is gone
(`Otp_verification.dart` 106); logging out deletes a directory before the
preferences (`setting_screen.dart` 241); a payment sheet is popped by a delay
whether or not it is still there (`payment_screen.dart` 410).

## 10. Plan

Order of work, the most important behaviour first:

1. *(done)* `Stopwatches`, `LoaderDialog`, `KegelSession`, `KegelRegimen`, its
   runs, type correctness and the first three safety theorems.
2. *(done)* the other four exercises: `WarmUpSession`, `Tracker`, `PeeSession`,
   `BreathingSession`, with their runs.
3. *(done)* the navigator as a stack (`Routes`) and the flows over it: `SignUpOtp`,
   `PasswordReset`, `AlarmList`; `Notifications`; the theorems of these four.
4. *(done)* abstract specifications of what the other exercises promise, as
   `KegelRegimen` is for the Kegel screen: `HoldCycle` for `WarmUpSession`, `PeeSession`
   and `BreathingSession`, `SessionLog` for `Tracker`; the four refinements.
5. *(done)* the theorems of the exercises: the refinement of `KegelRegimen` and the
   invariants under it, `OneChain` and `RestNotHeld` of the warm-up,
   `RunningIsStoppable` and `SetsAreEarned` of the breathing screen; and those of the forms
   that depend on whose the global `contexts` is.
6. *(done)* the exceptions named where replies and levels used to be left out: every reply in the runs and
   theorems of the Kegel and pee screens, Super Easy stage 2, the Finish of the tracker that throws, the codes tried behind a
   resend of the password reset.
7. Left: the pee screen's Super Easy, where `HoldCycle` would have to allow two chains; abstract specifications for
   the forms; the components of section 9.
