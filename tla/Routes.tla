------------------------------- MODULE Routes -------------------------------
(***************************************************************************)
(* The routes of the navigator, for flows in which screens, sheets and     *)
(* loaders lie on each other (src/lib/utils/page_loader.dart; what Flutter *)
(* and GetX do with routes is external).                                   *)
(*                                                                         *)
(* A navigator is a record: stack, its routes, the topmost last; dialog,   *)
(* the place in the stack of the loader whose context the global `contexts`*)
(* holds, 0 once that has been popped; current, the page GetX takes to be  *)
(* the current one.                                                        *)
(***************************************************************************)
EXTENDS Naturals, Sequences, FiniteSets, SequencesExt

CONSTANT
    Overlays         \* the routes that are no pages: loaders and sheets

Loader == "loader"
IsPage(r) == r \notin Overlays

Navigator(R) == [stack : Seq(R), dialog : Nat, current : R]
NavigatorAt(r) == [stack |-> <<r>>, dialog |-> 0, current |-> r]

Top(nav) == nav.stack[Len(nav.stack)]
On(nav, r) == r \in Range(nav.stack)
Loaders(nav) == Cardinality({i \in DOMAIN nav.stack : nav.stack[i] = Loader})

Pushed(nav, r) ==
    [nav EXCEPT !.stack = Append(@, r), !.current = IF IsPage(r) THEN r ELSE @]

\* GetX looks at the route below only when that is a page.
Popped(nav) ==
    LET below == Front(nav.stack)
    IN  [stack |-> below,
         dialog |-> IF nav.dialog = Len(nav.stack) THEN 0 ELSE nav.dialog,
         current |-> IF IsPage(Last(below)) THEN Last(below) ELSE nav.current]

\* showLoader: contexts is that of the latest loader.
WithLoader(nav) == [Pushed(nav, Loader) EXCEPT !.dialog = Len(nav.stack) + 1]

\* hideLoader pops what is on top, a loader or not; if its dialog is gone it
\* throws, except while that one's exit transition lasts.
HideOutcomes(nav) == IF nav.dialog # 0 THEN {TRUE} ELSE BOOLEAN
=============================================================================
