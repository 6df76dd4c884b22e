---------------------------- MODULE MCPeeSession ----------------------------
(***************************************************************************)
(* Values for model checking PeeSession.                                   *)
(***************************************************************************)
EXTENDS PeeSession

\* The digits and the Future.delayed of each updateTime_* handler.
CodeHold == [l \in Levels |->
    CASE l = "hard" -> 6 [] l = "normal" -> 5 [] l = "easy" -> 4
      [] l = "super_easy" -> 3]
CodePush == [l \in Levels |->
    CASE l = "hard" -> 4 [] l = "normal" -> 3 [] l = "easy" -> 4
      [] l = "super_easy" -> 5]
=============================================================================
