--------------------------- MODULE MCKegelSession ---------------------------
(***************************************************************************)
(* Values for model checking KegelSession.                                 *)
(***************************************************************************)
EXTENDS KegelSession

\* The numbers in the code: the two digits compared in each updateTime_*
\* handler and the counter compared in its delayed callback.
CodeSqueeze == [l \in Levels |->
    CASE l = "SuperEasy1" -> 3 [] l = "SuperEasy2" -> 5 [] l = "SuperEasy3" -> 7
      [] l = "Easy" -> 9 [] l = "Normal" -> 11 [] l = "Hard" -> 13]
CodeReps == [l \in Levels |->
    CASE l = "SuperEasy1" -> 4 [] l = "SuperEasy2" -> 6 [] l = "SuperEasy3" -> 8
      [] l = "Easy" -> 8 [] l = "Normal" -> 10 [] l = "Hard" -> 12]

\* One level of each family, scaled down: squeezes longer than a rest and a
\* display that wraps soon.
SmallSqueeze == [Easy |-> 3, Hard |-> 4]
SmallReps == [Easy |-> 2, Hard |-> 2]

\* The code's durations with fewer repetitions, in the order of the code's.
FewReps == [SuperEasy2 |-> 1, Easy |-> 2, Hard |-> 3]

NoPromotions == [l \in Levels |-> {}]
SmallPromotions == [Easy |-> {"Hard"}, Hard |-> {}]
UpPromotions == [SuperEasy2 |-> {"Easy"}, Easy |-> {"Hard"}, Hard |-> {}]
=============================================================================
