------------------------------ MODULE HoldCycle ------------------------------
(***************************************************************************)
(* What an exercise that alternates holds and pauses promises, whatever    *)
(* the screen does with watches, timers, delays nothing cancels and taps   *)
(* at any moment.  A hold ends when exactly one of its lengths has been    *)
(* measured: it is never cut short and never missed, so that it would run  *)
(* until the display comes round.  It ends in a pause, of one of the       *)
(* lengths of a pause, and no hold ends while a pause is pending: there is *)
(* one chain of holds and pauses.  Nothing but the end of a hold begins a  *)
(* pause, and nothing but its length, or leaving the screen, ends one.     *)
(*                                                                         *)
(* What is not promised: that no hold is begun during a pause, which the   *)
(* user may do after stopping; that a hold goes on after a pause.          *)
(***************************************************************************)
EXTENDS Naturals

CONSTANTS
    HoldTimes,      \* the lengths of a hold ...
    PauseTimes      \* ... and of a pause, in seconds

VARIABLES
    holding,        \* a hold is being measured
    held,           \* the seconds measured of it; kept if it is interrupted
    pauses,         \* the pauses pending
    pauseLeft       \* the seconds left of the first, 0 if there is none

vars == <<holding, held, pauses, pauseLeft>>

Init == ~holding /\ held = 0 /\ pauses = 0 /\ pauseLeft = 0

Begin ==
    /\ ~holding /\ holding'
    /\ UNCHANGED <<held, pauses, pauseLeft>>

EndHold ==
    /\ holding /\ held \in HoldTimes /\ pauses = 0
    /\ ~holding' /\ held' = 0
    /\ pauses' = 1 /\ pauseLeft' \in PauseTimes

\* The next hold follows, or what is held meanwhile goes on or is stopped.
EndPause ==
    /\ pauses = 1 /\ pauseLeft = 0 /\ pauses' = 0 /\ pauseLeft' = 0
    /\ holding' \in BOOLEAN /\ held' = held

\* A hold is stopped, or measured anew.
Interrupt ==
    /\ holding' => holding
    /\ held' \in {0, held}
    /\ UNCHANGED <<pauses, pauseLeft>>

Second ==
    /\ IF holding THEN /\ \E n \in HoldTimes : held < n
                       /\ held' = held + 1
                  ELSE held' = held
    /\ IF pauses = 1 THEN pauseLeft > 0 /\ pauseLeft' = pauseLeft - 1
                  ELSE pauseLeft' = pauseLeft
    /\ UNCHANGED <<holding, pauses>>

\* The screen goes away.
Abandon == ~holding' /\ held' = 0 /\ pauses' = 0 /\ pauseLeft' = 0

Next == Begin \/ EndHold \/ EndPause \/ Interrupt \/ Second \/ Abandon

Spec == Init /\ [][Next]_vars
=============================================================================
