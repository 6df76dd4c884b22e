------------------------------ MODULE SignUpOtp ------------------------------
(***************************************************************************)
(* Signing up by a one-time code (src/lib/Authentication/SignUp:           *)
(* SignUp_screen.dart, Otp_verification.dart and                           *)
(* controller/sign_up_controller.dart).                                    *)
(*                                                                         *)
(* The form's Next sends a code under a loader; the code is entered on     *)
(* VerifyOtp, which is pushed over the form and its loader, and SendOtpAPi *)
(* waits for that route to be popped before it hides the loader.  Every    *)
(* change of the code verifies it, typed or filled in from an SMS, and so  *)
(* does a button; an accepted code signs up, under a second loader, and    *)
(* what happens next is judged by signUpModel, a field all of them share.  *)
(*                                                                         *)
(* A call is one run of a handler, from the event that starts it.  A       *)
(* VerifyOtp route is named after the call that pushed it and awaits it.   *)
(***************************************************************************)
EXTENDS Routes

CONSTANTS
    Call,            \* calls that may be under way at a time
    MaxAsks          \* bound: events that start a call

\* The names of calls are no other routes, and not the name of none.
ASSUME SignUpAssumption ==
    /\ IsFiniteSet(Call) /\ MaxAsks \in Nat /\ Overlays = {Loader, "sheet"}
    /\ Call \cap {"form", "scan", "sheet", "none", Loader} = {}

VARIABLES
    nav,
    \* op: what the call waits for; by, at: the event and the VerifyOtp route a
    \* verification came from
    call,
    resend_otp,      \* the VerifyOtp routes whose countdown goes on
    sendOtpModel, signUpModel,
    asks,
    \* history: an answer was never handled; calls were under way together;
    \* VerifyOtp asked for something, and was left after that
    unanswered, overlapped, tried, wentBack

models == <<sendOtpModel, signUpModel>>
history == <<unanswered, overlapped, tried, wentBack>>
vars == <<nav, call, resend_otp, models, asks, history>>

Sheet == "sheet"
Ops == {"idle", "submit", "send", "await", "resend", "verify", "signUp", "kept",
        "check"}
Model == {"null", "ok", "error"}
None == "none"

TypeOK ==
    /\ nav \in Navigator(Call \cup {"form", "scan", Loader, Sheet})
    /\ call \in [Call -> [op : Ops, by : {None, "code", "button"},
                          at : Call \cup {None}]]
    /\ resend_otp \subseteq Call
    /\ sendOtpModel \in Model /\ signUpModel \in Model
    /\ asks \in 0..MaxAsks
    /\ {unanswered, overlapped, tried, wentBack} \subseteq BOOLEAN

Idle == [op |-> "idle", by |-> None, at |-> None]

Init ==
    /\ nav = NavigatorAt("form")
    /\ call = [c \in Call |-> Idle]
    /\ resend_otp = {}
    /\ sendOtpModel = "null" /\ signUpModel = "null"
    /\ asks = 0
    /\ unanswered = FALSE /\ overlapped = FALSE
    /\ tried = FALSE /\ wentBack = FALSE

At(c, op) == call[c].op = op
Busy == {c \in Call : call[c].op \notin {"idle", "await"}}
Verifies == Range(nav.stack) \cap Call
-----------------------------------------------------------------------------
\* A call starts.
Start(c, op, by, at) ==
    /\ At(c, "idle") /\ \A d \in Call : call[d].at # c
    /\ asks < MaxAsks /\ asks' = asks + 1
    /\ call' = [call EXCEPT ![c] = [op |-> op, by |-> by, at |-> at]]
    /\ overlapped' = (overlapped \/ Busy # {})

Goes(c, op) == call' = [call EXCEPT ![c].op = op]
Ends(c) == call' = [call EXCEPT ![c] = Idle]

\* hideLoader, n times in one go, after which the call goes on to op or is over.
Hides(c, n, op) ==
    \E pops \in HideOutcomes(nav) :
        IF pops
        THEN /\ nav' = IF n = 1 THEN Popped(nav) ELSE Popped(Popped(nav))
             /\ IF op = "idle" THEN Ends(c) ELSE Goes(c, op)
        ELSE Ends(c) /\ UNCHANGED nav

\* Get.to pushes nothing when the page it is to open is the current one, and
\* returns at once.
Opens == nav.current \notin Call

\* The loader stays under it.  (The variant hides it there too.)
HiddenFirst(c) == Pushed(Popped(nav), c)
OverLoader(c) == Pushed(nav, c)

GetToVerifyOtp(c) ==
    \/ /\ Opens
       /\ nav' = OverLoader(c) /\ Goes(c, "await")
       /\ resend_otp' = resend_otp \cup {c}
    \/ /\ ~Opens
       /\ Hides(c, 1, "idle") /\ UNCHANGED resend_otp
-----------------------------------------------------------------------------
\* Next: the app's signature is awaited before SendOtpAPi shows its loader, so
\* that it can be tapped again.
Next_Tap(c) ==
    /\ Top(nav) = "form" /\ Start(c, "submit", None, None)
    /\ UNCHANGED <<nav, resend_otp, models, unanswered, tried, wentBack>>

SendOtpAPi(c) ==
    /\ At(c, "submit") /\ Goes(c, "send") /\ nav' = WithLoader(nav)
    /\ UNCHANGED <<resend_otp, models, asks, history>>

\* Resend.  The model looked at is that of the request before.
Resend(c) ==
    \E v \in Verifies \ resend_otp :
        /\ Top(nav) = v /\ Start(c, "resend", None, None)
        /\ nav' = WithLoader(nav)
        /\ resend_otp' = IF sendOtpModel = "ok" THEN resend_otp \cup {v}
                                                ELSE resend_otp
        /\ tried' = TRUE /\ UNCHANGED <<models, unanswered, wentBack>>

CountdownEnds(v) ==
    /\ v \in resend_otp \cap Verifies /\ resend_otp' = resend_otp \ {v}
    /\ UNCHANGED <<nav, call, models, asks, history>>

\* SendOtpAPi's and ReSendOtpAPi's answer.
SendAnswered(c) ==
    /\ At(c, "send") \/ At(c, "resend")
    /\ \/ sendOtpModel' = "ok" /\ GetToVerifyOtp(c)
       \/ sendOtpModel' = "error" /\ Hides(c, 1, "idle") /\ UNCHANGED resend_otp
    /\ UNCHANGED <<signUpModel, asks, history>>

\* VerifyOtp was popped: the loader under it is hidden.
Returned(c) == At(c, "await") /\ c \notin Verifies

Return(c) ==
    /\ Returned(c) /\ Hides(c, 1, "idle")
    /\ UNCHANGED <<resend_otp, models, asks, history>>

\* onCodeChanged: a digit typed, or a code filled in wherever the user is.
CodeChanged(c) ==
    \E v \in Verifies :
        /\ Start(c, "verify", "code", v) /\ nav' = WithLoader(nav)
        /\ tried' = TRUE
        /\ UNCHANGED <<resend_otp, models, unanswered, wentBack>>

Verify(c) ==
    \E v \in Verifies :
        /\ Top(nav) = v
        /\ Start(c, "verify", "button", v) /\ nav' = WithLoader(nav)
        /\ tried' = TRUE
        /\ UNCHANGED <<resend_otp, models, unanswered, wentBack>>

\* An accepted code goes on to SignUpAPi and its loader.
VerifyAnswered(c) ==
    /\ At(c, "verify")
    /\ \/ Goes(c, "signUp") /\ nav' = WithLoader(nav)
       \/ Hides(c, 1, "check")
    /\ UNCHANGED <<resend_otp, models, asks, history>>

\* An account is created: its id is kept and a toast awaited before the loaders
\* are hidden.  Or it is refused.  (The variants keep one of the two loaders, and
\* have nobody wait for it.)
HidesOne(c) == Hides(c, 1, "check")
UnawaitedHides(c) == Hides(c, 2, "idle")
HidesBoth(c) == Hides(c, 2, "check")

SignUpAnswered(c) ==
    /\ At(c, "signUp")
    /\ \/ signUpModel' = "ok" /\ Goes(c, "kept") /\ UNCHANGED nav
       \/ signUpModel' = "error" /\ HidesBoth(c)
    /\ UNCHANGED <<resend_otp, sendOtpModel, asks, unanswered, overlapped, tried,
                   wentBack>>

Kept(c) ==
    /\ At(c, "kept") /\ HidesBoth(c)
    /\ UNCHANGED <<resend_otp, models, asks, history>>

\* Another status, or an exception: no loader is hidden.  A verification with
\* another status returns to its caller all the same, and so does its sign-up.
Unanswered(c) ==
    /\ \/ \E op \in {"send", "resend", "verify", "signUp"} : At(c, op) /\ Ends(c)
       \/ (At(c, "verify") \/ At(c, "signUp")) /\ Goes(c, "check")
    /\ unanswered' = TRUE
    /\ UNCHANGED <<nav, resend_otp, models, asks, overlapped, tried,
                   wentBack>>

\* signUpModel!.error == false: of whichever sign-up was answered last.
SignedUp == signUpModel = "ok"

\* A verification is over: on to the face scan, over VerifyOtp or a sheet.  If
\* VerifyOtp is gone its context finds no navigator.
Check(c) ==
    /\ At(c, "check") /\ Ends(c)
    /\ nav' = IF SignedUp /\ call[c].at \in Verifies
                THEN Pushed(nav, IF call[c].by = "code" THEN "scan" ELSE Sheet)
                ELSE nav
    /\ UNCHANGED <<resend_otp, models, asks, history>>

Proceed ==
    /\ Top(nav) = Sheet /\ nav' = Pushed(nav, "scan")
    /\ UNCHANGED <<call, resend_otp, models, asks, history>>

\* Back, which a loader does not allow; the form is where the model ends.
Back ==
    /\ Top(nav) \notin {"form", Loader} /\ nav' = Popped(nav)
    /\ wentBack' = (wentBack \/ (tried /\ Top(nav) \in Call))
    /\ UNCHANGED <<call, resend_otp, models, asks, unanswered,
                   overlapped, tried>>

\* What awaits a value in hand runs before any event.
Microtask(c) == Return(c) \/ (Check(c) /\ \A d \in Call : ~Returned(d))
NoMicrotask == \A c \in Call : ~At(c, "check") /\ ~Returned(c)

Answer(c) ==
    SendAnswered(c) \/ VerifyAnswered(c) \/ SignUpAnswered(c) \/ Unanswered(c)

Next ==
    \/ \E c \in Call : Microtask(c)
    \/ /\ NoMicrotask
       /\ \/ Proceed \/ Back
          \/ \E c \in Call :
                \/ Next_Tap(c) \/ SendOtpAPi(c) \/ Resend(c) \/ CountdownEnds(c)
                \/ CodeChanged(c) \/ Verify(c) \/ Answer(c) \/ Kept(c)

\* Nothing is fair but what the isolate goes on with by itself.
Fairness ==
    \A c \in Call : WF_vars(Microtask(c)) /\ WF_vars(NoMicrotask /\ Kept(c))

Spec == Init /\ [][Next]_vars
FairSpec == Spec /\ Fairness
-----------------------------------------------------------------------------
(***************************************************************************)
(* Properties.                                                             *)
(***************************************************************************)
\* Every call that has a loader to hide, and those that have a second one.
Owes == {c \in Call : call[c].op \in {"send", "resend", "await", "verify", "signUp",
                                     "kept"}}
OwesTwo == {c \in Call : call[c].op \in {"signUp", "kept"}}

\* There is a loader for every hideLoader that is to come, whatever overlaps or
\* throws: none pops the form, or what is below it (sign_up_controller.dart
\* 102-327).
LoadersCoverCalls ==
    /\ Cardinality(Owes) + Cardinality(OwesTwo) <= Loaders(nav)
    /\ nav.stack[1] = "form"

\* With nothing under way the user is under a loader only if an answer was not
\* handled, calls overlapped, or VerifyOtp was left after it had tried a code or
\* resent one: the loader of that took the place of the form's in `contexts`,
\* and the hideLoader of the form's throws (sign_up_controller.dart 212-213).
LockedOnlyIf ==
    Top(nav) = Loader /\ Busy = {} /\ NoMicrotask
        => unanswered \/ overlapped \/ wentBack

\* An account created leads on to the face scan or its sheet, unless another
\* call was under way (sign_up_controller.dart 144-163).
AccountLeadsOn ==
    \A c \in Call : At(c, "kept") ~> Top(nav) \in {"scan", Sheet} \/ overlapped
=============================================================================
