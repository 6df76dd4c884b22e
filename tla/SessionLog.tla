------------------------------ MODULE SessionLog ------------------------------
(***************************************************************************)
(* What a log of exercise sessions promises that is kept by a server, when *)
(* posts and their answers may be lost, late or unexpected and nothing     *)
(* tells the device which.                                                 *)
(*                                                                         *)
(* What is measured goes into the next row that is made, and nowhere else: *)
(* a session that ends without a row leaves its pauses and seconds to the  *)
(* next, and only giving up forgets them.  A row is posted once.  Once its *)
(* post is settled it is on the server or it never will be; what the user  *)
(* has deleted does not come back, and no change touches more than a row.  *)
(***************************************************************************)
EXTENDS Integers, SequencesExt

CONSTANTS
    Hour,           \* the seconds of a row wrap here
    MaxDone         \* bound: rows

VARIABLES
    measured,       \* the pauses and the seconds no row tells yet
    done,           \* the rows made, in their order
    onTheWay,       \* those whose post has not been settled
    recorded        \* those the server has, in the order they arrived in

vars == <<measured, done, onTheWay, recorded>>

Nothing == [pauses |-> 0, seconds |-> 0]

Init == measured = Nothing /\ done = <<>> /\ onTheWay = {} /\ recorded = <<>>

Measure ==
    /\ measured' \in {[measured EXCEPT !.pauses = @ + 1],
                      [measured EXCEPT !.seconds = @ + 1]}
    /\ UNCHANGED <<done, onTheWay, recorded>>

GiveUp == measured' = Nothing /\ UNCHANGED <<done, onTheWay, recorded>>

Finish ==
    /\ Len(done) < MaxDone
    /\ LET row == [id |-> Len(done) + 1, pauses |-> measured.pauses,
                   total |-> measured.seconds % Hour]
       IN /\ done' = Append(done, row)
          /\ onTheWay' = onTheWay \cup {row}
    /\ measured' = Nothing
    /\ UNCHANGED recorded

Settle(row) ==
    /\ onTheWay' = onTheWay \ {row}
    /\ recorded' \in {recorded, Append(recorded, row)}
    /\ UNCHANGED <<measured, done>>

Delete(i) ==
    /\ recorded' = RemoveAt(recorded, i)
    /\ UNCHANGED <<measured, done, onTheWay>>

Next ==
    \/ Measure \/ GiveUp \/ Finish
    \/ \E row \in onTheWay : Settle(row)
    \/ \E i \in DOMAIN recorded : Delete(i)

Spec == Init /\ [][Next]_vars
=============================================================================
