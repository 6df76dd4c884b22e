----------------------------- MODULE Stopwatches -----------------------------
(***************************************************************************)
(* Dart's Stopwatch, as the exercise screens use it: it keeps what it has  *)
(* measured when it is stopped, and what the handlers compare is the two   *)
(* digits of seconds on the display (transformMilliSeconds), which wrap.   *)
(***************************************************************************)
EXTENDS Integers

CONSTANT Minute      \* the display wraps after this many seconds

ASSUME MinuteAssumption == Minute \in Nat \ {0}

Stopwatch == [run : BOOLEAN, at : 0..(Minute - 1)]
Zero == [run |-> FALSE, at |-> 0]
NeverRunning(w) == w                      \* variant: start() is forgotten
Running(w) == [run |-> TRUE, at |-> w.at]
NeverStopped(w) == w                      \* variant: stop() is forgotten
Stopped(w) == [run |-> FALSE, at |-> w.at]
NeverCleared(w) == w                      \* variant: reset() is forgotten
Cleared(w) == [run |-> w.run, at |-> 0]
Unwrapped(w) == IF w.run THEN [run |-> TRUE, at |-> w.at + 1] ELSE w
                                          \* variant: no % 60 in the display
Advanced(w) ==
    IF w.run
      THEN [run |-> TRUE, at |-> IF w.at + 1 = Minute THEN 0 ELSE w.at + 1]
      ELSE w
=============================================================================
