---------------------------- MODULE PasswordReset ----------------------------
(***************************************************************************)
(* Resetting a forgotten password (src/lib/Authentication/Forgot_pass).    *)
(*                                                                         *)
(* Three screens in a row: ForgotScreen asks for a code, OtpScreen checks  *)
(* it, PasswordResetScreen sets the password.  What each asks for, when    *)
(* granted, opens a sheet whose button leads on; five seconds later the    *)
(* screen pops what is on top, meaning its sheet, and leads on by itself,  *)
(* whatever the user has done meanwhile.                                   *)
(*                                                                         *)
(* Resend, on the second, is the sign-up's: it opens the sign-up's         *)
(* VerifyOtp, under which its loader waits, and whose codes are verified   *)
(* and signed up with under loaders of their own (SignUpOtp has all of the *)
(* sign-up).  The countdowns before a resend are left out.                 *)
(*                                                                         *)
(* A call is one run of a screen's handler, from the tap to what its delay *)
(* does.  A VerifyOtp route is named after the call that pushed it.        *)
(***************************************************************************)
EXTENDS Routes

CONSTANTS
    Call,            \* calls that may be under way at a time
    MaxAsks          \* bound: taps that start a call

Page == {"forgot", "otp", "reset"}
SheetOf == [forgot |-> "forgotSheet", otp |-> "otpSheet", reset |-> "resetSheet"]
Sheets == {SheetOf[p] : p \in Page}
NextPage == [forgot |-> "otp", otp |-> "reset", reset |-> "signIn"]

SignUpSheet == "signUpSheet"

\* The names of calls are those of no other routes.
Route == Page \cup Overlays \cup {"front", "signIn", "scan"}
ASSUME ResetAssumption ==
    /\ IsFiniteSet(Call) /\ MaxAsks \in Nat
    /\ Overlays = Sheets \cup {Loader, SignUpSheet}
    /\ Call \cap (Route \cup {"none"}) = {}

VARIABLES
    nav,
    \* op: what the call waits for; page: the screen it is of; by, at: the event
    \* and the VerifyOtp route a verification came from
    call,
    \* what the last answer to each screen's request was: forgotPasswordModel,
    \* verifyOtpModel, passwordResetModel
    model,
    signUpModel,
    asks,
    \* history: codes the server accepted; the user used or dismissed a sheet; a
    \* delay took away something else; an answer was not handled; calls were
    \* under way together; VerifyOtp asked for something, and was left after that
    verified, touched, mistaken, unanswered, overlapped, tried, wentBack

history ==
    <<verified, touched, mistaken, unanswered, overlapped, tried, wentBack>>
vars == <<nav, call, model, signUpModel, asks, history>>

Ops == {"idle", "asked", "toast", "check", "delayed", "resend", "await",
        "verify", "signUp", "kept", "entered"}
Model == {"null", "ok", "error"}
None == "none"
Run(op, page, by, at) == [op |-> op, page |-> page, by |-> by, at |-> at]
Idle == Run("idle", "forgot", None, None)

TypeOK ==
    /\ nav \in Navigator(Route \cup Call)
    /\ call \in [Call -> [op : Ops, page : Page, by : {None, "code", "button"},
                          at : Call \cup {None}]]
    /\ model \in [Page -> Model] /\ signUpModel \in Model
    /\ asks \in 0..MaxAsks
    /\ verified \in Nat
    /\ {touched, mistaken, unanswered, overlapped, tried, wentBack}
          \subseteq BOOLEAN

Init ==
    /\ nav = Pushed(NavigatorAt("front"), "signIn")
    /\ call = [c \in Call |-> Idle]
    /\ model = [p \in Page |-> "null"] /\ signUpModel = "null"
    /\ asks = 0
    /\ verified = 0 /\ touched = FALSE /\ mistaken = FALSE
    /\ unanswered = FALSE /\ overlapped = FALSE
    /\ tried = FALSE /\ wentBack = FALSE

At(c, op) == call[c].op = op
Busy == {c \in Call : call[c].op \notin {"idle", "await", "delayed"}}
Goes(c, op) == call' = [call EXCEPT ![c].op = op]
Ends(c) == call' = [call EXCEPT ![c] = Idle]
Verifies == Range(nav.stack) \cap Call

\* Get.to opens nothing if the current page is of that kind.
Opened(n, p) == IF n.current = p THEN n ELSE Pushed(n, p)

\* A pop, whatever is on top; what lies below the front screen is not told apart.
Taken(n) == IF Len(n.stack) > 1 THEN Popped(n) ELSE n

\* hideLoader, n times in one go, after which the call goes on to op or is over.
Hides(c, n, op) ==
    \E pops \in HideOutcomes(nav) :
        IF pops THEN /\ nav' = IF n = 1 THEN Taken(nav) ELSE Taken(Taken(nav))
                     /\ IF op = "idle" THEN Ends(c) ELSE Goes(c, op)
                ELSE Ends(c) /\ UNCHANGED nav

\* A call starts, with its loader.
Start(c, run) ==
    /\ At(c, "idle") /\ \A d \in Call : call[d].at # c
    /\ asks < MaxAsks /\ asks' = asks + 1
    /\ call' = [call EXCEPT ![c] = run]
    /\ nav' = WithLoader(nav)
    /\ overlapped' = (overlapped \/ Busy # {})
-----------------------------------------------------------------------------
\* Forgot password? on the sign-in screen.
Forgot ==
    /\ Top(nav) = "signIn" /\ nav' = Opened(nav, "forgot")
    /\ UNCHANGED <<call, model, signUpModel, asks, history>>

\* The screen's button.  The new password is of the user the last answer named.
Ask(c, p) ==
    /\ p = "reset" => model["forgot"] = "ok"
    /\ Top(nav) = p /\ Start(c, Run("asked", p, None, None))
    /\ UNCHANGED <<model, signUpModel, verified, touched, mistaken, unanswered,
                   tried, wentBack>>

\* Refused: the loader is hidden.  (The variant leaves it.)
LeavesLoader(c) == Goes(c, "check") /\ UNCHANGED nav
Refused(c) == Hides(c, 1, "check")

\* Granted: a toast first, but for the password.  Or refused.
Answered(c) ==
    LET p == call[c].page IN
    /\ At(c, "asked")
    /\ \/ /\ model' = [model EXCEPT ![p] = "ok"]
          /\ verified' = verified + (IF p = "otp" THEN 1 ELSE 0)
          /\ IF p = "reset" THEN Hides(c, 1, "check")
                            ELSE Goes(c, "toast") /\ UNCHANGED nav
       \/ /\ model' = [model EXCEPT ![p] = "error"] /\ UNCHANGED verified
          /\ Refused(c)
    /\ UNCHANGED <<signUpModel, asks, touched, mistaken, unanswered, overlapped,
                   tried, wentBack>>

\* After the toast: the loader of an accepted code is left where it is.
Toasted(c) ==
    /\ At(c, "toast")
    /\ IF call[c].page = "otp" THEN Goes(c, "check") /\ UNCHANGED nav
                               ELSE Hides(c, 1, "check")
    /\ UNCHANGED <<model, signUpModel, asks, history>>

\* Another status returns to the screen all the same; an exception does not.
\* Both leave the loader.
Unanswered(c) ==
    /\ \/ At(c, "asked") /\ (Goes(c, "check") \/ Ends(c))
       \/ At(c, "resend") /\ Ends(c)
       \/ (At(c, "verify") \/ At(c, "signUp")) /\ (Goes(c, "entered") \/ Ends(c))
    /\ unanswered' = TRUE
    /\ UNCHANGED <<nav, model, signUpModel, asks, verified, touched, mistaken,
                   overlapped, tried, wentBack>>

\* The screen looks at the model, of this answer or, if there was none, of an
\* earlier one.  (The variant looks for any.)
AnyAnswer(p) == model[p] # "null"
Granted(p) == model[p] = "ok"

\* Its sheet is opened, and is not waited for.  (The variant opens none.)
NoSheet(p) == nav
WithSheet(p) == Pushed(nav, SheetOf[p])

Check(c) ==
    LET p == call[c].page IN
    /\ At(c, "check")
    /\ IF Granted(p) /\ On(nav, p) THEN nav' = WithSheet(p) /\ Goes(c, "delayed")
                                   ELSE Ends(c) /\ UNCHANGED nav
    /\ UNCHANGED <<model, signUpModel, asks, history>>

\* Five seconds later; the screen's context is of no use when it has gone.
\* (The variant does not lead on.)
Stays(p) == Taken(nav)
LeadsOn(p) == Opened(Taken(nav), NextPage[p])

Delayed(c) ==
    LET p == call[c].page IN
    /\ At(c, "delayed") /\ Ends(c)
    /\ nav' = IF On(nav, p) THEN LeadsOn(p) ELSE nav
    /\ mistaken' = (mistaken \/ (On(nav, p) /\ Top(nav) # SheetOf[p]))
    /\ UNCHANGED <<model, signUpModel, asks, verified, touched, unanswered,
                   overlapped, tried, wentBack>>

\* The sheet's button.
SheetButton ==
    \E p \in Page :
        /\ Top(nav) = SheetOf[p] /\ nav' = Opened(nav, NextPage[p])
        /\ touched' = TRUE
        /\ UNCHANGED <<call, model, signUpModel, asks, verified, mistaken,
                       unanswered, overlapped, tried, wentBack>>

Back ==
    /\ Top(nav) # Loader /\ Len(nav.stack) > 2 /\ nav' = Taken(nav)
    /\ touched' = TRUE
    /\ wentBack' = (wentBack \/ (tried /\ Top(nav) \in Call))
    /\ UNCHANGED <<call, model, signUpModel, asks, verified, mistaken, unanswered,
                   overlapped, tried>>
-----------------------------------------------------------------------------
\* Resend asks for a code for the sign-up form's number.  On VerifyOtp it takes
\* the place of the resend it waits for in `contexts`, as a code does.
Resend(c) ==
    /\ Top(nav) \in {"otp"} \cup Call
    /\ Start(c, Run("resend", "forgot", None, None))
    /\ tried' = (tried \/ Top(nav) \in Call)
    /\ UNCHANGED <<model, signUpModel, verified, touched, mistaken, unanswered,
                   wentBack>>

\* Granted, VerifyOtp is opened over the loader, unless it is the current page.
ResendAnswered(c) ==
    /\ At(c, "resend")
    /\ \/ Hides(c, 1, "idle")       \* refused, or VerifyOtp is there already
       \/ nav.current \notin Call /\ nav' = Pushed(nav, c) /\ Goes(c, "await")
    /\ UNCHANGED <<model, signUpModel, asks, history>>

\* VerifyOtp was popped: the loader under it is hidden.
Returned(c) == At(c, "await") /\ c \notin Verifies

Return(c) ==
    /\ Returned(c) /\ Hides(c, 1, "idle")
    /\ UNCHANGED <<model, signUpModel, asks, history>>

\* On VerifyOtp a code is verified by its button and whenever it changes, also
\* when it is filled in from an SMS, wherever the user is.
EnterCode(c) ==
    \E v \in Verifies, by \in {"code", "button"} :
        /\ by = "button" => Top(nav) = v
        /\ Start(c, Run("verify", "forgot", by, v))
        /\ tried' = TRUE
        /\ UNCHANGED <<model, signUpModel, verified, touched, mistaken,
                       unanswered, wentBack>>

\* An accepted code goes on to SignUpAPi and its loader.
CodeAnswered(c) ==
    /\ At(c, "verify")
    /\ \/ Goes(c, "signUp") /\ nav' = WithLoader(nav)
       \/ Hides(c, 1, "entered")
    /\ UNCHANGED <<model, signUpModel, asks, history>>

\* An account is created, and its id kept before both loaders are hidden.
SignUpAnswered(c) ==
    /\ At(c, "signUp")
    /\ \/ signUpModel' = "ok" /\ Goes(c, "kept") /\ UNCHANGED nav
       \/ signUpModel' = "error" /\ Hides(c, 2, "entered")
    /\ UNCHANGED <<model, asks, history>>

Kept(c) ==
    /\ At(c, "kept") /\ Hides(c, 2, "entered")
    /\ UNCHANGED <<model, signUpModel, asks, history>>

\* On to the face scan, over VerifyOtp or a sheet, if that is still there and the
\* sign-up answered last, whichever it was, was granted.
Entered(c) ==
    /\ At(c, "entered") /\ Ends(c)
    /\ nav' = IF signUpModel = "ok" /\ call[c].at \in Verifies
                THEN Pushed(nav, IF call[c].by = "code" THEN "scan"
                                                      ELSE SignUpSheet)
                ELSE nav
    /\ UNCHANGED <<model, signUpModel, asks, history>>

Proceed ==
    /\ Top(nav) = SignUpSheet /\ nav' = Pushed(nav, "scan")
    /\ UNCHANGED <<call, model, signUpModel, asks, history>>
-----------------------------------------------------------------------------
\* What awaits a value in hand runs before any event.
Microtask(c) ==
    \/ Return(c)
    \/ (\A d \in Call : ~Returned(d)) /\ (Check(c) \/ Entered(c))
NoMicrotask ==
    \A c \in Call : ~At(c, "check") /\ ~At(c, "entered") /\ ~Returned(c)

Goes_On(c) ==
    Microtask(c) \/ (NoMicrotask /\ (Toasted(c) \/ Delayed(c) \/ Kept(c)))

Answer(c) ==
    \/ Answered(c) \/ Unanswered(c) \/ ResendAnswered(c)
    \/ CodeAnswered(c) \/ SignUpAnswered(c)

Next ==
    \/ \E c \in Call : Goes_On(c)
    \/ /\ NoMicrotask
       /\ \/ Forgot \/ SheetButton \/ Back \/ Proceed
          \/ \E c \in Call :
                \/ \E p \in Page : Ask(c, p)
                \/ Resend(c) \/ EnterCode(c) \/ Answer(c)

Fairness == \A c \in Call : WF_vars(Goes_On(c))

Spec == Init /\ [][Next]_vars
FairSpec == Spec /\ Fairness
-----------------------------------------------------------------------------
(***************************************************************************)
(* Properties.                                                             *)
(***************************************************************************)
\* The reset screen, and the sheet before it, take a code the server accepted
\* (Otp_verification.dart 325-337, 388-467).
ResetIsVerified == On(nav, "reset") \/ On(nav, "otpSheet") => verified > 0

\* The delayed pop takes away the screen's own sheet and nothing else, if the
\* user has let the sheets do their work (Forgot_screen.dart 275-279).
DelayTakesSheet ==
    [][\A c \in Call :
          Delayed(c) /\ ~touched /\ On(nav, call[c].page)
              => Top(nav) = SheetOf[call[c].page]]_vars

\* The loaders are those of the calls under way, and one for every code that
\* was accepted: that one stays under the reset screen, and whoever goes back
\* from there is locked under it (forgot_password_controller.dart 112-123).  But
\* for answers not handled, calls that overlap, delays that take away something
\* else than their sheet, and a VerifyOtp that was left after it had tried a code
\* or resent one: the loader of that took the place of the resend's in
\* `contexts`, and the hideLoader of the resend's throws (sign_up_controller.dart
\* 269-270).
Owes == {c \in Call : \/ call[c].op \in {"asked", "resend", "await", "verify",
                                        "signUp", "kept"}
                      \/ At(c, "toast") /\ call[c].page # "otp"}
OwesTwo == {c \in Call : call[c].op \in {"signUp", "kept"}}

LoaderBalance ==
    unanswered \/ overlapped \/ mistaken \/ wentBack
        \/ Loaders(nav) = Cardinality(Owes) + Cardinality(OwesTwo) + verified

\* What is granted leads on to the next screen, by the sheet's button or by the
\* delay, if the user waits for it.
GrantedLeadsOn ==
    \A c \in Call, p \in Page :
        At(c, "delayed") /\ call[c].page = p
            ~> nav.current = NextPage[p] \/ touched
=============================================================================
