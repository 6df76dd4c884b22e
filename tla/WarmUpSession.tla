---------------------------- MODULE WarmUpSession ----------------------------
(***************************************************************************)
(* The warm-up screen (src/lib/homepage/warmpUp_screen.dart).              *)
(*                                                                         *)
(* A countdown on `watch3` starts the first hold.  A hold is measured by   *)
(* `watch`; at its end a rest begins, measured twice: by `watch2`, whose   *)
(* handler stops it, and by a Future.delayed of the same length, whose     *)
(* callback starts the reverse phase.  That phase is measured twice as     *)
(* well: by a periodic countdown of `seconds_timer`, and by a second       *)
(* Future.delayed, whose callback starts the next hold.  Nothing cancels a *)
(* Future.delayed.  Time is counted as in KegelSession.                    *)
(***************************************************************************)
EXTENDS Integers, Sequences, Stopwatches

CONSTANTS
    Hold,            \* seconds shown by watch that end a hold
    Rest,            \* seconds shown by watch2 at the end of a rest, and of
                     \* the Future.delayed behind it
    Gap,             \* seconds of the Future.delayed before the next hold
    ReverseTime,     \* seconds_timer's first value
    Countdown        \* seconds shown by watch3 that start the first hold

Phases ==
    /\ {Hold, Rest, Gap, ReverseTime, Countdown} \subseteq Nat \ {0}
    /\ Hold < Minute /\ Rest < Minute /\ Countdown < Minute

ASSUME PhasesAssumption == Phases

VARIABLES
    mounted, watch, watch2, watch3,
    started, four_started, reverse_started, seconds_timer,
    ticking,         \* countdownTimer2 is active ...
    owed,            \* ... and has not yet fired in this second
    rests, gaps,     \* seconds left of each pending Future.delayed
    finishing,       \* the Finish handler awaits click_alarm and the animation
    w_running        \* Ledger_Setup_controller

watches == <<watch, watch2, watch3>>
countdown == <<reverse_started, seconds_timer, ticking, owed>>
delays == <<rests, gaps>>
vars == <<mounted, watches, started, four_started, countdown, delays,
          finishing, w_running>>

TypeOK ==
    /\ {mounted, started, four_started, reverse_started, ticking, owed,
        w_running} \subseteq BOOLEAN
    /\ {watch, watch2, watch3} \subseteq Stopwatch
    /\ finishing \in {"no", "awaits", "over"}
    /\ seconds_timer \in 1..ReverseTime
    /\ rests \in Seq(0..Rest) /\ gaps \in Seq(0..Gap)

Init ==
    /\ mounted = FALSE
    /\ watch = Zero /\ watch2 = Zero /\ watch3 = Zero
    /\ started = TRUE /\ four_started = FALSE
    /\ reverse_started = FALSE /\ seconds_timer = ReverseTime
    /\ ticking = FALSE /\ owed = FALSE
    /\ rests = <<>> /\ gaps = <<>> /\ finishing = "no"
    /\ w_running = FALSE

(***************************************************************************)
(* The screen.                                                             *)
(***************************************************************************)
Enter ==
    /\ ~mounted /\ mounted' = TRUE
    /\ UNCHANGED <<watches, started, four_started, countdown, delays, finishing,
                   w_running>>

\* The State is disposed: its callbacks fail at their first setState.
Dispose ==
    /\ mounted /\ mounted' = FALSE
    /\ watch' = Zero /\ watch2' = Zero /\ watch3' = Zero
    /\ started' = TRUE /\ four_started' = FALSE
    /\ reverse_started' = FALSE /\ seconds_timer' = ReverseTime
    /\ ticking' = FALSE /\ owed' = FALSE
    /\ rests' = <<>> /\ gaps' = <<>> /\ finishing' = "no"

\* The controller of w_running is deleted with the route, not by a swipe.
Swipe == ~w_running /\ Dispose /\ UNCHANGED w_running
Leave == Dispose /\ w_running' = FALSE
BackArrow == started /\ Leave
SystemBack == Leave

StartTap ==
    /\ mounted /\ started
    /\ w_running' = TRUE /\ started' = FALSE
    /\ watch3' = Running(watch3)
    /\ UNCHANGED <<mounted, watch, watch2, four_started, countdown, delays,
                   finishing>>

\* stopWatch_finish.
StopAll ==
    /\ watch' = Stopped(watch) /\ watch2' = Stopped(watch2)
    /\ watch3' = Stopped(watch3)

\* Finish does nothing during a rest.  (The variant forgets that.)
FinishAlways == ~started
FinishAllowed == ~started /\ ~four_started

\* Finish.  The animation it awaits takes half a second, modelled as lasting
\* into the next one; a second tap restarts it, and the first one's future then
\* never completes.
FinishTap ==
    /\ mounted /\ FinishAllowed /\ finishing # "over"
    /\ StopAll /\ finishing' = "awaits"
    /\ UNCHANGED <<mounted, started, four_started, countdown, delays, w_running>>

\* Finish cancels the countdown of the reverse phase.
TickingOn == ticking /\ ~reverse_started

\* The rest of the Finish handler.  A stopped watch is not reset.
FinishDone ==
    /\ mounted /\ finishing = "over" /\ finishing' = "no"
    /\ started' = TRUE /\ w_running' = FALSE /\ four_started' = FALSE
    /\ reverse_started' = FALSE
    /\ ticking' = TickingOn /\ owed' = (owed /\ ticking')
    /\ watch' = IF watch.run THEN Cleared(watch) ELSE watch
    /\ watch2' = IF watch2.run THEN Cleared(watch2) ELSE watch2
    /\ UNCHANGED <<mounted, watch3, seconds_timer, delays>>

(***************************************************************************)
(* Timers.                                                                 *)
(***************************************************************************)
\* startWatch.
StartWatch == watch' = Running(watch) /\ started' = FALSE

\* updateTime3: the countdown is over.
CountdownTick ==
    /\ mounted /\ watch3.run /\ watch3.at = Countdown
    /\ StartWatch
    /\ UNCHANGED <<mounted, watch2, watch3, four_started, countdown, delays,
                   finishing, w_running>>

\* updateTime: the hold is over.
HoldTick ==
    /\ mounted /\ watch.run /\ watch.at = Hold
    /\ watch' = Zero /\ watch2' = Running(Zero) /\ watch3' = Stopped(watch3)
    /\ four_started' = TRUE /\ started' = FALSE
    /\ rests' = Append(rests, Rest)
    /\ UNCHANGED <<mounted, countdown, gaps, finishing, w_running>>

\* updateTime2: the rest is over, by the watch.
RestTick ==
    /\ mounted /\ watch2.run /\ watch2.at = Rest
    /\ watch' = Stopped(watch) /\ watch2' = Zero /\ watch3' = Stopped(watch3)
    /\ UNCHANGED <<mounted, started, four_started, countdown, delays, finishing,
                   w_running>>

\* The rest is over, by the Future.delayed: startTimer2 and the next one.
RestDone ==
    /\ mounted /\ rests # <<>> /\ Head(rests) = 0
    /\ StopAll /\ four_started' = FALSE
    /\ reverse_started' = TRUE /\ ticking' = TRUE
    /\ rests' = Tail(rests) /\ gaps' = Append(gaps, Gap)
    /\ UNCHANGED <<mounted, started, seconds_timer, owed, finishing, w_running>>

\* setCountDown2 decrements first.
ReverseOver == seconds_timer - 1 <= 0

ReverseTick ==
    /\ mounted /\ owed /\ owed' = FALSE
    /\ IF ReverseOver
         THEN /\ reverse_started' = FALSE /\ ticking' = FALSE
              /\ seconds_timer' = ReverseTime
         ELSE /\ seconds_timer' = seconds_timer - 1
              /\ UNCHANGED <<reverse_started, ticking>>
    /\ UNCHANGED <<mounted, watches, started, four_started, delays, finishing,
                   w_running>>

\* The reverse phase is over: the next hold.
GapDone ==
    /\ mounted /\ gaps # <<>> /\ Head(gaps) = 0
    /\ gaps' = Tail(gaps) /\ reverse_started' = FALSE
    /\ StartWatch
    /\ UNCHANGED <<mounted, watch2, watch3, four_started, seconds_timer, ticking,
                   owed, rests, finishing, w_running>>

\* Something has to run before this second can end.
Due ==
    \/ \E i \in DOMAIN rests : rests[i] = 0
    \/ \E i \in DOMAIN gaps : gaps[i] = 0
    \/ watch.run /\ watch.at = Hold
    \/ watch2.run /\ watch2.at = Rest
    \/ watch3.run /\ watch3.at = Countdown /\ ~watch.run
    \/ owed \/ finishing = "over"

Pass ==
    /\ mounted /\ ~Due
    /\ watch.run \/ watch2.run \/ watch3.run \/ ticking
        \/ rests # <<>> \/ gaps # <<>> \/ finishing = "awaits"
    /\ finishing' = IF finishing = "awaits" THEN "over" ELSE finishing
    /\ watch' = Advanced(watch) /\ watch2' = Advanced(watch2)
    /\ watch3' = Advanced(watch3) /\ owed' = ticking
    /\ rests' = [i \in DOMAIN rests |-> rests[i] - 1]
    /\ gaps' = [i \in DOMAIN gaps |-> gaps[i] - 1]
    /\ UNCHANGED <<mounted, started, four_started, reverse_started, seconds_timer,
                   ticking, w_running>>

User == Enter \/ BackArrow \/ Swipe \/ SystemBack \/ StartTap \/ FinishTap
Clock == Pass \/ FinishDone \/ CountdownTick \/ HoldTick \/ RestTick \/ RestDone
            \/ ReverseTick \/ GapDone

Next == User \/ Clock

Spec == Init /\ [][Next]_vars
FairSpec == Spec /\ WF_vars(Clock)
-----------------------------------------------------------------------------
\* What keeps an old delay from a new hold: the phases are 11, 13 and 11 seconds
\* on a display of 60.  Each part is needed: if a gap is longer than a hold,
\* if a hold is a single second, or if the display of watch3 comes round
\* within a gap and a rest, two of them meet.
DelaysKeepApart == Gap <= Hold /\ Hold > 1 /\ Gap + Rest <= Minute

(***************************************************************************)
(* Properties.                                                             *)
(***************************************************************************)
\* Each hold schedules a rest and each rest the next hold, and neither can be
\* cancelled.  A session stopped in its reverse phase leaves its delay behind;
\* still no second chain of delays ever grows beside the first, which would
\* make holds overlap from then on (69-130).
OneChain == Len(rests) + Len(gaps) <= 1

\* No hold is measured while a rest is pending, although the countdown of a new
\* session and the delay of an old one may both start `watch` (126, 202).
RestNotHeld == rests # <<>> => ~watch.run

\* Holds, and the rest and the gap behind each, implement HoldCycle: the second
\* delay begins when the first is over, and whoever starts a hold, countdown or
\* delay, of this session or an old one, it does not end before the gap does nor
\* run past its length (69-130, 200-207).
Cycle == INSTANCE HoldCycle WITH
    HoldTimes <- {Hold}, PauseTimes <- {Rest + Gap},
    holding <- watch.run, held <- watch.at,
    pauses <- Len(rests) + Len(gaps),
    pauseLeft <- IF rests # <<>> THEN Head(rests) + Gap
                 ELSE IF gaps # <<>> THEN Head(gaps) ELSE 0
CycleSpec == Cycle!Spec

\* A session that is not stopped goes on: every hold ends in a rest, and every
\* rest is followed by another hold.
CycleGoesOn ==
    /\ ~started ~> (started \/ rests # <<>>)
    /\ rests # <<>> ~> (started \/ watch.run)
=============================================================================
