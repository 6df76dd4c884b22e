---------------------------- MODULE KegelRegimen ----------------------------
(***************************************************************************)
(* What a Kegel session promises, whatever the screen does with timers,    *)
(* flags and replies.  Squeezes and rests alternate; every squeeze counts  *)
(* once; a set is complete after a rest and only with one of the level's   *)
(* numbers of repetitions; the server records a completed set at most once *)
(* and nothing else.  The user may stop during a squeeze, keeping the      *)
(* count, and never during a rest; leaving the screen loses the count.     *)
(*                                                                         *)
(* A session may be led astray: something else than the user stops it, or  *)
(* changes its level to a lower one.  From then on until the screen is     *)
(* left only the record is kept.                                           *)
(***************************************************************************)
EXTENDS Naturals

CONSTANT Lengths    \* the numbers of repetitions that make a set

VARIABLES
    phase,          \* "idle", "squeeze" (the countdown included) or "rest"
    rep,            \* squeezes counted in the current set
    performed,      \* sets completed
    recorded,       \* sets on the server
    astray

vars == <<phase, rep, performed, recorded, astray>>

Init ==
    /\ phase = "idle" /\ rep = 0 /\ performed = 0 /\ recorded = 0
    /\ astray = FALSE

Begin ==
    /\ phase = "idle" /\ phase' = "squeeze"
    /\ UNCHANGED <<rep, performed, recorded>>

EndSqueeze ==
    /\ phase = "squeeze" /\ phase' = "rest"
    /\ \E n \in Lengths : rep < n
    /\ rep' = rep + 1
    /\ UNCHANGED <<performed, recorded>>

EndRest ==
    /\ phase = "rest" /\ phase' = "squeeze"
    /\ UNCHANGED <<rep, performed, recorded>>

Complete ==
    /\ phase = "rest" /\ rep \in Lengths
    /\ phase' = "idle" /\ rep' = 0 /\ performed' = performed + 1
    /\ UNCHANGED recorded

Stop ==
    /\ phase = "squeeze" /\ phase' = "idle"
    /\ UNCHANGED <<rep, performed, recorded>>

Session ==
    /\ ~astray /\ UNCHANGED astray
    /\ Begin \/ EndSqueeze \/ EndRest \/ Complete \/ Stop

Record ==
    /\ recorded < performed /\ recorded' = recorded + 1
    /\ UNCHANGED <<phase, rep, performed, astray>>

\* The screen goes away, or the process with a post on its way.
Abandon ==
    /\ phase' = "idle" /\ rep' = 0 /\ astray' = FALSE
    /\ recorded' \in recorded..performed
    /\ UNCHANGED performed

\* The session is stopped, or its level lowered.
GoAstray ==
    /\ ~astray /\ astray' = TRUE
    /\ (phase' = "idle" /\ rep' = 0) \/ UNCHANGED <<phase, rep>>
    /\ UNCHANGED <<performed, recorded>>

Stray ==
    /\ astray /\ UNCHANGED astray
    /\ phase' \in {"idle", "squeeze", "rest"} /\ rep' \in Nat
    /\ performed' \in {performed, performed + 1} /\ UNCHANGED recorded

Next == Session \/ Record \/ Abandon \/ GoAstray \/ Stray

Spec == Init /\ [][Next]_vars
=============================================================================
