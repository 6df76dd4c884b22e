---------------------------- MODULE LoaderDialog ----------------------------
(***************************************************************************)
(* The loader dialogs on the navigator (src/lib/utils/page_loader.dart).   *)
(* showLoader pushes a dialog and keeps its BuildContext in the global     *)
(* `contexts`, whichever screen asked.  hideLoader pops the route on top   *)
(* of the navigator that `contexts` belongs to.  If that dialog has been   *)
(* popped by somebody else, its context still finds the navigator while    *)
(* the exit transition lasts, and Navigator.pop throws after it.           *)
(***************************************************************************)
EXTENDS Integers

VARIABLES
    loaders,         \* loader dialogs on the navigator
    contexts         \* the dialog `contexts` was taken from is one of them

loaderVars == <<loaders, contexts>>

LoaderTypeOK == loaders \in Nat /\ contexts \in BOOLEAN

\* What a hideLoader may come to: TRUE if it pops, FALSE if it throws.
HideOutcomes == IF contexts THEN {TRUE} ELSE BOOLEAN

ShowLoader == loaders' = loaders + 1 /\ contexts' = TRUE

\* hideLoader, n times within one handler.
HideLoader(n) == loaders' = loaders - n /\ contexts' = FALSE
=============================================================================
