------------------------- MODULE PasswordReset_proofs -------------------------
(***************************************************************************)
(* Proofs about PasswordReset, for any number of calls under way and of    *)
(* taps.                                                                   *)
(*                                                                         *)
(* ResetIsVerified: until the server has accepted a code nothing that      *)
(* leads to the reset screen exists: neither screen nor sheet, nor a model *)
(* that says so, nor a delay of the code's screen (Accepted).              *)
(* DelayTakesSheet: as long as the user leaves the sheets alone one call   *)
(* at most is under way, and what is on top is what that call has put      *)
(* there; or VerifyOtp has been opened, and stays, because no more loaders *)
(* are hidden over it than were shown, so that no delay is left (Alone).   *)
(* LoaderBalance: but for the exceptions it names, a loader is hidden only *)
(* when it is on top, and only by the one call in hand (CInv).             *)
(***************************************************************************)
EXTENDS PasswordReset, Routes_proofs

AnyRoute == Route \cup Call
CallState == [op : Ops, page : Page, by : {None, "code", "button"},
              at : Call \cup {None}]

Good(n) == n \in Navigator(AnyRoute) /\ Len(n.stack) >= 1

Accepted ==
    \/ verified > 0
    \/ /\ ~On(nav, "reset") /\ ~On(nav, "otpSheet") /\ model["otp"] # "ok"
       /\ \A c \in Call : ~(At(c, "delayed") /\ call[c].page = "otp")

Typed ==
    /\ Good(nav)
    /\ call \in [Call -> CallState]
    /\ model \in [Page -> Model] /\ signUpModel \in Model
    /\ asks \in 0..MaxAsks
    /\ verified \in Nat
    /\ touched \in BOOLEAN /\ mistaken \in BOOLEAN
    /\ unanswered \in BOOLEAN /\ overlapped \in BOOLEAN
    /\ tried \in BOOLEAN /\ wentBack \in BOOLEAN

\* The loaders that the calls under way will hide, together and of one.
Debt == Cardinality(Owes) + Cardinality(OwesTwo)

Due(r) ==
    IF r.op \in {"signUp", "kept"} THEN 2
    ELSE IF \/ r.op \in {"asked", "resend", "await", "verify"}
            \/ r.op = "toast" /\ r.page # "otp" THEN 1
    ELSE 0
-----------------------------------------------------------------------------
LEMMA Names ==
    /\ Loader = "loader" /\ Loader \in Route /\ SignUpSheet \in Route
    /\ Page \subseteq Route /\ {"front", "signIn", "scan"} \subseteq Route
    /\ \A p \in Page : /\ SheetOf[p] \in Route /\ NextPage[p] \in Route
                       /\ SheetOf[p] # "reset"
                       /\ SheetOf[p] = "otpSheet" => p = "otp"
                       /\ NextPage[p] # "otpSheet"
                       /\ NextPage[p] = "reset" => p = "otp"
<1>1. Loader \in Route /\ SignUpSheet \in Route
  BY ResetAssumption DEF ResetAssumption, Route
<1>2. Page \subseteq Route /\ {"front", "signIn", "scan"} \subseteq Route
  BY DEF Route
<1>3. \A p \in Page : SheetOf[p] \in Route
  BY ResetAssumption DEF ResetAssumption, Route, Sheets
<1>4. \A p \in Page : /\ NextPage[p] \in Route
                      /\ SheetOf[p] # "reset"
                      /\ SheetOf[p] = "otpSheet" => p = "otp"
                      /\ NextPage[p] # "otpSheet"
                      /\ NextPage[p] = "reset" => p = "otp"
  BY DEF Page, SheetOf, NextPage, Route
<1> QED
  BY <1>1, <1>2, <1>3, <1>4 DEF Loader

\* A VerifyOtp is a page, and none of the other routes.
LEMMA CallRoutes ==
    \A c \in Call : /\ c \in AnyRoute /\ c \notin Route /\ c # None
                    /\ IsPage(c)
BY ResetAssumption DEF ResetAssumption, AnyRoute, Route, IsPage, None

LEMMA OtherNames ==
    /\ SignUpSheet # Loader /\ "scan" # Loader /\ "signIn" # Loader
    /\ "front" # Loader /\ SignUpSheet # "reset" /\ SignUpSheet # "otpSheet"
    /\ \A p \in Page : /\ SheetOf[p] # Loader /\ SheetOf[p] # SignUpSheet
                       /\ SheetOf[p] # "scan" /\ SheetOf[p] # "front"
                       /\ NextPage[p] # Loader
                       /\ p # Loader /\ p # SignUpSheet /\ p # "scan"
                       /\ p # "front" /\ SheetOf[p] \notin Page
BY DEF Loader, SignUpSheet, Page, SheetOf, NextPage

LEMMA GoodTaken ==
    ASSUME NEW n, Good(n)
    PROVE  Good(Taken(n)) /\ \A x : On(Taken(n), x) => On(n, x)
<1>1. n \in Navigator(AnyRoute) /\ Len(n.stack) \in Nat /\ Len(n.stack) >= 1
  BY DEF Good, Navigator
<1>2. CASE Len(n.stack) >= 2
  <2>1. /\ Popped(n) \in Navigator(AnyRoute)
        /\ Len(Popped(n).stack) = Len(n.stack) - 1
        /\ \A x : On(Popped(n), x) => On(n, x)
    BY <1>1, <1>2, PoppedFacts
  <2>2. Good(Popped(n))
    BY <1>1, <1>2, <2>1 DEF Good
  <2> QED
    BY <1>1, <1>2, <2>1, <2>2 DEF Taken
<1>3. CASE Len(n.stack) = 1
  BY <1>3 DEF Taken
<1>4. Len(n.stack) >= 2 \/ Len(n.stack) = 1
  <2> DEFINE l == Len(n.stack)
  <2>1. l \in Nat /\ l >= 1
    BY <1>1
  <2> HIDE DEF l
  <2>2. l >= 2 \/ l = 1
    BY <2>1
  <2> QED
    BY <2>2 DEF l
<1> QED
  BY <1>2, <1>3, <1>4, Zenon

LEMMA GoodPushed ==
    ASSUME NEW n, Good(n), NEW r \in AnyRoute
    PROVE  /\ Good(Pushed(n, r)) /\ Top(Pushed(n, r)) = r
           /\ \A x : On(Pushed(n, r), x) <=> On(n, x) \/ x = r
<1>1. n \in Navigator(AnyRoute) /\ Len(n.stack) \in Nat /\ Len(n.stack) >= 1
  BY DEF Good, Navigator
<1>2. /\ Pushed(n, r) \in Navigator(AnyRoute) /\ Top(Pushed(n, r)) = r
      /\ Len(Pushed(n, r).stack) = Len(n.stack) + 1
      /\ \A x : On(Pushed(n, r), x) <=> On(n, x) \/ x = r
  BY <1>1, PushedFacts
<1> QED
  BY <1>1, <1>2 DEF Good

LEMMA GoodWithLoader ==
    ASSUME NEW n, Good(n)
    PROVE  /\ Good(WithLoader(n)) /\ Top(WithLoader(n)) = Loader
           /\ \A x : On(WithLoader(n), x) <=> On(n, x) \/ x = Loader
<1>1. /\ n \in Navigator(AnyRoute) /\ Len(n.stack) \in Nat /\ Len(n.stack) >= 1
      /\ Loader \in AnyRoute
  BY Names DEF Good, Navigator, AnyRoute
<1>2. /\ WithLoader(n) \in Navigator(AnyRoute)
      /\ WithLoader(n).stack = Append(n.stack, Loader)
      /\ Len(WithLoader(n).stack) = Len(n.stack) + 1
      /\ \A x : On(WithLoader(n), x) <=> On(n, x) \/ x = Loader
  BY <1>1, WithLoaderFacts
<1>3. Append(n.stack, Loader)[Len(n.stack) + 1] = Loader
  BY <1>1, AppendProperties DEF Navigator
<1> QED
  BY <1>1, <1>2, <1>3 DEF Good, Top

LEMMA GoodOpened ==
    ASSUME NEW n, Good(n), NEW r \in AnyRoute
    PROVE  /\ Good(Opened(n, r))
           /\ \A x : On(Opened(n, r), x) => On(n, x) \/ x = r
  BY GoodPushed DEF Opened

LEMMA TopIsOn ==
    ASSUME NEW n, Good(n) PROVE On(n, Top(n))
  BY DEF Good, Navigator, On, Top, Range
-----------------------------------------------------------------------------
\* What the ways to go on do to a call.
LEMMA CallGoes ==
    ASSUME Typed, NEW c \in Call, NEW op \in Ops, Goes(c, op)
    PROVE  /\ call' \in [Call -> CallState]
           /\ call'[c].op = op /\ call'[c].page = call[c].page
           /\ \A d \in Call \ {c} : call'[d] = call[d]
  BY DEF Typed, Goes, CallState

LEMMA CallEnds ==
    ASSUME Typed, NEW c \in Call, Ends(c)
    PROVE  /\ call' \in [Call -> CallState] /\ call'[c].op = "idle"
           /\ \A d \in Call \ {c} : call'[d] = call[d]
<1>1. Idle \in CallState /\ Idle.op = "idle"
  BY DEF Idle, Run, CallState, Ops, Page
<1> QED
  BY <1>1 DEF Typed, Ends, CallState

\* hideLoader takes one route or two, or none, and the call is over or goes on.
LEMMA Hidden ==
    ASSUME Typed, NEW c \in Call, NEW n \in {1, 2},
           NEW op \in {"idle", "check", "entered"}, Hides(c, n, op)
    PROVE  /\ call' \in [Call -> CallState] /\ call'[c].op \in {"idle", op}
           /\ \A d \in Call \ {c} : call'[d] = call[d]
           /\ Good(nav') /\ \A x : On(nav', x) => On(nav, x)
           /\ \/ nav' = nav \/ nav' = Taken(nav)
              \/ n = 2 /\ nav' = Taken(Taken(nav))
<1>1. /\ \/ nav' = nav \/ nav' = Taken(nav)
         \/ n = 2 /\ nav' = Taken(Taken(nav))
      /\ Ends(c) \/ Goes(c, op)
  BY DEF Hides
<1>2. Good(nav') /\ \A x : On(nav', x) => On(nav, x)
  <2>1. Good(nav) /\ Good(Taken(nav)) /\ \A x : On(Taken(nav), x) => On(nav, x)
    BY GoodTaken DEF Typed
  <2>2. /\ Good(Taken(Taken(nav)))
        /\ \A x : On(Taken(Taken(nav)), x) => On(Taken(nav), x)
    BY <2>1, GoodTaken
  <2> QED
    BY <1>1, <2>1, <2>2
<1>3. CASE Ends(c)
  BY <1>1, <1>2, <1>3, CallEnds
<1>4. CASE Goes(c, op)
  <2>1. op \in Ops
    BY DEF Ops
  <2> QED
    BY <1>1, <1>2, <1>4, <2>1, CallGoes
<1> QED
  BY <1>1, <1>3, <1>4

LEMMA Started ==
    ASSUME Typed, NEW c \in Call, NEW rec \in CallState, Start(c, rec)
    PROVE  /\ call' \in [Call -> CallState] /\ call'[c] = rec
           /\ \A d \in Call \ {c} : call'[d] = call[d]
           /\ nav' = WithLoader(nav)
           /\ Good(nav') /\ Top(nav') = Loader
           /\ \A x : On(nav', x) => On(nav, x) \/ x = Loader
           /\ asks' \in 0..MaxAsks /\ overlapped' \in BOOLEAN
<1>1. /\ call' \in [Call -> CallState] /\ call'[c] = rec
      /\ \A d \in Call \ {c} : call'[d] = call[d]
  BY DEF Typed, Start
<1>2. /\ Good(nav') /\ Top(nav') = Loader /\ nav' = WithLoader(nav)
      /\ \A x : On(nav', x) => On(nav, x) \/ x = Loader
  BY GoodWithLoader DEF Typed, Start
<1>3. asks' \in 0..MaxAsks
  BY ResetAssumption DEF ResetAssumption, Typed, Start
<1>4. overlapped' \in BOOLEAN
  BY DEF Typed, Start
<1> QED
  BY <1>1, <1>2, <1>3, <1>4

\* The calls that start.
LEMMA Records ==
    ASSUME NEW c \in Call, Typed
    PROVE  /\ Resend(c) => \E rec \in CallState :
                 Start(c, rec) /\ rec.op = "resend"
           /\ EnterCode(c) => \E rec \in CallState :
                 Start(c, rec) /\ rec.op = "verify" /\ rec.at \in Verifies
           /\ \A p \in Page : Ask(c, p) => \E rec \in CallState :
                 Start(c, rec) /\ rec.op = "asked" /\ rec.page = p
<1>1. \A o \in Ops, q \in Page, b \in {None, "code", "button"},
         v \in Call \cup {None} :
          /\ Run(o, q, b, v) \in CallState /\ Run(o, q, b, v).op = o
          /\ Run(o, q, b, v).page = q /\ Run(o, q, b, v).at = v
  BY DEF CallState, Run
<1>2. {"resend", "verify", "asked"} \subseteq Ops /\ "forgot" \in Page
  BY DEF Ops, Page
<1>3. ASSUME Resend(c)
      PROVE \E rec \in CallState : Start(c, rec) /\ rec.op = "resend"
  <2>1. Start(c, Run("resend", "forgot", None, None))
    BY <1>3 DEF Resend
  <2> QED
    BY <1>1, <1>2, <2>1
<1>4. ASSUME EnterCode(c)
      PROVE \E rec \in CallState :
                 Start(c, rec) /\ rec.op = "verify" /\ rec.at \in Verifies
  <2>1. PICK v \in Verifies, by \in {"code", "button"} :
            Start(c, Run("verify", "forgot", by, v))
    BY <1>4 DEF EnterCode
  <2>2. Start(c, Run("verify", "forgot", by, v)) /\ v \in Call
    BY <2>1 DEF Verifies
  <2> QED
    BY <1>1, <1>2, <2>2
<1>5. ASSUME NEW p \in Page, Ask(c, p)
      PROVE \E rec \in CallState :
                 Start(c, rec) /\ rec.op = "asked" /\ rec.page = p
  <2>1. Start(c, Run("asked", p, None, None))
    BY <1>5 DEF Ask
  <2> QED
    BY <1>1, <1>2, <2>1
<1> QED
  BY <1>3, <1>4, <1>5
-----------------------------------------------------------------------------
\* A step that grants no code keeps Accepted.
LEMMA AcceptedKept ==
    ASSUME Typed, Accepted, verified' \in Nat, verified' >= verified,
           On(nav', "reset") => On(nav, "reset") \/ verified > 0,
           On(nav', "otpSheet") => On(nav, "otpSheet") \/ verified > 0,
           model'["otp"] = "ok" => model["otp"] = "ok" \/ verified' > 0,
           \A c \in Call : call'[c] = call[c] \/ call'[c].op # "delayed"
                              \/ call'[c].page # "otp" \/ verified > 0
    PROVE  Accepted'
<1>1. CASE verified' > 0
  BY <1>1 DEF Accepted
<1>2. CASE ~(verified' > 0)
  <2>1. ~(verified > 0)
    BY <1>2 DEF Typed
  <2> QED
    BY <1>2, <2>1 DEF Accepted, At
<1> QED
  BY <1>1, <1>2

\* Nor does one that touches neither models nor codes, and brings neither the
\* reset screen nor its sheet.
LEMMA StepKept ==
    ASSUME Typed, NEW c \in Call, call' \in [Call -> CallState],
           \A d \in Call \ {c} : call'[d] = call[d], call'[c].op # "delayed",
           Good(nav'), NEW r, r # "reset", r # "otpSheet",
           \A x : On(nav', x) => On(nav, x) \/ x = r,
           UNCHANGED <<model, verified, touched, mistaken>>,
           signUpModel' \in Model, asks' \in 0..MaxAsks,
           unanswered' \in BOOLEAN, overlapped' \in BOOLEAN,
           tried' \in BOOLEAN, wentBack' \in BOOLEAN
    PROVE  Typed' /\ (Accepted => Accepted')
<1>1. Typed'
  BY DEF Typed
<1>2. ASSUME Accepted PROVE Accepted'
  <2>1. /\ On(nav', "reset") => On(nav, "reset")
        /\ On(nav', "otpSheet") => On(nav, "otpSheet")
    OBVIOUS
  <2>2. \A d \in Call : call'[d] = call[d] \/ call'[d].op # "delayed"
    OBVIOUS
  <2>3. verified' = verified /\ model' = model /\ verified \in Nat
    BY DEF Typed
  <2> QED
    BY <1>2, <2>1, <2>2, <2>3, AcceptedKept
<1> QED
  BY <1>1, <1>2

LEMMA StartKeeps ==
    ASSUME Typed, NEW c \in Call,
           Resend(c) \/ EnterCode(c) \/ \E p \in Page : Ask(c, p)
    PROVE  Typed' /\ (Accepted => Accepted')
<1>1. PICK rec \in CallState : Start(c, rec) /\ rec.op # "delayed"
  BY Records
<1>2. /\ call' \in [Call -> CallState] /\ call'[c].op # "delayed"
      /\ \A d \in Call \ {c} : call'[d] = call[d]
      /\ Good(nav') /\ \A x : On(nav', x) => On(nav, x) \/ x = Loader
      /\ asks' \in 0..MaxAsks /\ overlapped' \in BOOLEAN
  BY <1>1, Started
<1>3. /\ UNCHANGED <<model, signUpModel, verified, touched, mistaken>>
      /\ UNCHANGED <<unanswered, wentBack>>
  BY DEF Resend, EnterCode, Ask
<1>4. tried' \in BOOLEAN
  BY DEF Resend, EnterCode, Ask, Typed
<1>5. Loader # "reset" /\ Loader # "otpSheet"
  BY DEF Loader
<1>6. /\ signUpModel' \in Model /\ unanswered' \in BOOLEAN
      /\ wentBack' \in BOOLEAN
  BY <1>3 DEF Typed
<1> QED
  BY <1>2, <1>3, <1>4, <1>5, <1>6, StepKept

\* What hides a loader, goes on or ends grants no code.
LEMMA HideKeeps ==
    ASSUME Typed, NEW c \in Call,
           \/ UNCHANGED nav /\ (Ends(c) \/ \E op \in Ops \ {"delayed"} : Goes(c, op))
           \/ \E n \in {1, 2}, op \in {"idle", "check", "entered"} : Hides(c, n, op),
           UNCHANGED <<model, asks, verified, touched, mistaken, overlapped>>,
           UNCHANGED <<tried, wentBack>>,
           signUpModel' \in Model, unanswered' \in BOOLEAN
    PROVE  Typed' /\ (Accepted => Accepted')
<1>1. /\ call' \in [Call -> CallState] /\ call'[c].op # "delayed"
      /\ \A d \in Call \ {c} : call'[d] = call[d]
      /\ Good(nav') /\ \A x : On(nav', x) => On(nav, x)
  <2>1. CASE UNCHANGED nav /\ (Ends(c) \/ \E op \in Ops \ {"delayed"} : Goes(c, op))
    BY <2>1, CallGoes, CallEnds DEF Typed
  <2>2. CASE \E n \in {1, 2}, op \in {"idle", "check", "entered"} : Hides(c, n, op)
    BY <2>2, Hidden
  <2> QED
    BY <2>1, <2>2
<1>2. /\ asks' \in 0..MaxAsks /\ overlapped' \in BOOLEAN
      /\ tried' \in BOOLEAN /\ wentBack' \in BOOLEAN
  BY DEF Typed
<1>3. \A x : On(nav', x) => On(nav, x) \/ x = "none"
  BY <1>1
<1> QED
  BY <1>1, <1>2, <1>3, StepKept

LEMMA GoesOnKeeps ==
    ASSUME Typed, NEW c \in Call,
           \/ Toasted(c) \/ Unanswered(c) \/ Return(c) \/ Kept(c)
           \/ SignUpAnswered(c)
           \/ ResendAnswered(c) /\ Hides(c, 1, "idle")
           \/ CodeAnswered(c) /\ Hides(c, 1, "entered")
    PROVE  Typed' /\ (Accepted => Accepted')
<1>1. \/ UNCHANGED nav /\ (Ends(c) \/ \E op \in Ops \ {"delayed"} : Goes(c, op))
      \/ \E n \in {1, 2}, op \in {"idle", "check", "entered"} : Hides(c, n, op)
  BY DEF Toasted, Unanswered, Return, Kept, SignUpAnswered, Ops
<1>2. /\ UNCHANGED <<model, asks, verified, touched, mistaken, overlapped>>
      /\ UNCHANGED <<tried, wentBack>>
  BY DEF Toasted, Unanswered, Return, Kept, SignUpAnswered, ResendAnswered,
         CodeAnswered, history
<1>3. signUpModel' \in Model
  BY DEF Toasted, Unanswered, Return, Kept, SignUpAnswered, ResendAnswered,
         CodeAnswered, Typed, Model
<1>4. unanswered' \in BOOLEAN
  BY DEF Toasted, Unanswered, Return, Kept, SignUpAnswered, ResendAnswered,
         CodeAnswered, history, Typed
<1> QED
  BY <1>1, <1>2, <1>3, <1>4, HideKeeps

\* What pushes a route of the sign-up.
LEMMA SignUpKeeps ==
    ASSUME Typed, NEW c \in Call,
           \/ ResendAnswered(c) /\ nav' = Pushed(nav, c) /\ Goes(c, "await")
           \/ CodeAnswered(c) /\ nav' = WithLoader(nav) /\ Goes(c, "signUp")
           \/ Entered(c)
    PROVE  Typed' /\ (Accepted => Accepted')
<1>1. /\ call' \in [Call -> CallState] /\ call'[c].op # "delayed"
      /\ \A d \in Call \ {c} : call'[d] = call[d]
  BY CallGoes, CallEnds DEF Entered, Ops
<1>2. /\ UNCHANGED <<model, verified, touched, mistaken>>
      /\ signUpModel' \in Model /\ asks' \in 0..MaxAsks
      /\ unanswered' \in BOOLEAN /\ overlapped' \in BOOLEAN
      /\ tried' \in BOOLEAN /\ wentBack' \in BOOLEAN
  BY DEF Typed, ResendAnswered, CodeAnswered, Entered, history
<1>3. Good(nav)
  BY DEF Typed
<1>4. CASE nav' = Pushed(nav, c) \/ nav' = WithLoader(nav) \/ nav' = nav
  <2>1. /\ c \in AnyRoute /\ c # "reset" /\ c # "otpSheet"
        /\ Loader # "reset" /\ Loader # "otpSheet"
    <3>1. "reset" \in Route /\ "otpSheet" \in Route
      BY Names DEF Page, SheetOf
    <3> QED
      BY <3>1, CallRoutes DEF Loader
  <2>2. CASE nav' = Pushed(nav, c)
    BY <1>1, <1>2, <1>3, <2>1, <2>2, GoodPushed, StepKept
  <2>3. CASE nav' = WithLoader(nav)
    BY <1>1, <1>2, <1>3, <2>1, <2>3, GoodWithLoader, StepKept
  <2>4. CASE nav' = nav
    BY <1>1, <1>2, <1>3, <2>1, <2>4, StepKept
  <2> QED
    BY <1>4, <2>2, <2>3, <2>4
<1>5. CASE nav' = Pushed(nav, "scan") \/ nav' = Pushed(nav, SignUpSheet)
  <2>1. /\ "scan" \in AnyRoute /\ SignUpSheet \in AnyRoute
        /\ SignUpSheet # "reset" /\ SignUpSheet # "otpSheet"
    BY Names, OtherNames DEF AnyRoute
  <2>2. CASE nav' = Pushed(nav, "scan")
    BY <1>1, <1>2, <1>3, <2>1, <2>2, GoodPushed, StepKept
  <2>3. CASE nav' = Pushed(nav, SignUpSheet)
    BY <1>1, <1>2, <1>3, <2>1, <2>3, GoodPushed, StepKept
  <2> QED
    BY <1>5, <2>2, <2>3
<1> QED
  BY <1>4, <1>5 DEF Entered

\* The answer counts every code that is accepted.
LEMMA AnsweredKeeps ==
    ASSUME Typed, NEW c \in Call, Answered(c)
    PROVE  Typed' /\ (Accepted => Accepted')
<1>1. /\ call[c].page \in Page /\ model \in [Page -> Model] /\ verified \in Nat
      /\ UNCHANGED <<signUpModel, asks, touched, mistaken, unanswered>>
      /\ UNCHANGED <<overlapped, tried, wentBack>>
  BY DEF Typed, CallState, Answered
<1>2. /\ model' \in [Page -> Model]
      /\ verified' \in Nat /\ verified' >= verified
      /\ model'["otp"] = "ok" => model["otp"] = "ok" \/ verified' > 0
  BY <1>1 DEF Answered, Page, Model
<1>3. /\ call' \in [Call -> CallState] /\ call'[c].op # "delayed"
      /\ \A d \in Call \ {c} : call'[d] = call[d]
      /\ Good(nav') /\ \A x : On(nav', x) => On(nav, x)
  <2>1. CASE Hides(c, 1, "check")
    BY <2>1, Hidden
  <2>2. CASE Goes(c, "toast") /\ UNCHANGED nav
    BY <2>2, CallGoes DEF Ops, Typed
  <2> QED
    BY <2>1, <2>2 DEF Answered, Refused
<1>4. Typed'
  BY <1>1, <1>2, <1>3 DEF Typed
<1>5. ASSUME Accepted PROVE Accepted'
  <2>1. \A d \in Call : call'[d] = call[d] \/ call'[d].op # "delayed"
    BY <1>3
  <2> QED
    BY <1>2, <1>3, <1>5, <2>1, AcceptedKept
<1> QED
  BY <1>4, <1>5

LEMMA CheckKeeps ==
    ASSUME Typed, NEW c \in Call, Check(c)
    PROVE  Typed' /\ (Accepted => Accepted')
<1> DEFINE p == call[c].page
<1>1. /\ UNCHANGED <<model, signUpModel, asks, verified, touched, mistaken>>
      /\ UNCHANGED <<unanswered, overlapped, tried, wentBack>>
      /\ p \in Page /\ verified \in Nat
  BY DEF Typed, CallState, Check, history
<1>2. CASE Ends(c) /\ UNCHANGED nav
  <2>1. Ops # {} /\ signUpModel' \in Model /\ unanswered' \in BOOLEAN
    BY <1>1 DEF Typed, Ops
  <2> QED
    BY <1>1, <1>2, <2>1, HideKeeps
<1>3. CASE Granted(p) /\ nav' = WithSheet(p) /\ Goes(c, "delayed")
  <2>1. /\ call' \in [Call -> CallState]
        /\ call'[c].op = "delayed" /\ call'[c].page = p
        /\ \A d \in Call \ {c} : call'[d] = call[d]
    BY <1>3, CallGoes DEF Ops
  <2>2. /\ SheetOf[p] \in AnyRoute /\ SheetOf[p] # "reset"
        /\ SheetOf[p] = "otpSheet" => p = "otp"
    BY <1>1, Names DEF AnyRoute
  <2>3. Good(nav') /\ \A x : On(nav', x) => On(nav, x) \/ x = SheetOf[p]
    <3>1. Good(nav) /\ nav' = Pushed(nav, SheetOf[p])
      BY <1>3 DEF WithSheet, Typed
    <3> HIDE DEF p
    <3> QED
      BY <2>2, <3>1, GoodPushed
  <2>4. Typed'
    BY <1>1, <2>1, <2>3 DEF Typed
  <2>5. ASSUME Accepted PROVE Accepted'
    <3>1. p = "otp" => verified > 0
      BY <1>3, <2>5 DEF Granted, Accepted
    <3> HIDE DEF p
    <3>2. /\ On(nav', "reset") => On(nav, "reset") \/ verified > 0
          /\ On(nav', "otpSheet") => On(nav, "otpSheet") \/ verified > 0
      BY <2>2, <2>3, <3>1
    <3>3. \A d \in Call :
              call'[d] = call[d] \/ call'[d].page # "otp" \/ verified > 0
      BY <2>1, <3>1
    <3>4. verified' \in Nat /\ verified' >= verified /\ model' = model
      BY <1>1
    <3> QED
      BY <2>5, <3>2, <3>3, <3>4, AcceptedKept
  <2> QED
    BY <2>4, <2>5
<1> QED
  BY <1>2, <1>3 DEF Check

LEMMA DelayedKeeps ==
    ASSUME Typed, NEW c \in Call, Delayed(c)
    PROVE  Typed' /\ (Accepted => Accepted')
<1> DEFINE p == call[c].page
<1>1. p \in Page
  BY DEF Typed, CallState
<1>2. /\ call' \in [Call -> CallState] /\ call'[c].op = "idle"
      /\ \A d \in Call \ {c} : call'[d] = call[d]
  BY CallEnds DEF Delayed
<1>3. /\ UNCHANGED <<model, signUpModel, asks, verified, touched, unanswered>>
      /\ UNCHANGED <<overlapped, tried, wentBack>> /\ mistaken' \in BOOLEAN
  BY DEF Typed, Delayed
<1>4. /\ NextPage[p] \in AnyRoute /\ NextPage[p] # "otpSheet"
      /\ NextPage[p] = "reset" => p = "otp"
  BY <1>1, Names DEF AnyRoute
<1>5. Good(nav') /\ \A x : On(nav', x) => On(nav, x) \/ x = NextPage[p]
  <2>1. Good(nav) /\ Good(Taken(nav)) /\ \A x : On(Taken(nav), x) => On(nav, x)
    BY GoodTaken DEF Typed
  <2>2. /\ Good(LeadsOn(p))
        /\ \A x : On(LeadsOn(p), x) => On(Taken(nav), x) \/ x = NextPage[p]
    BY <1>4, <2>1, GoodOpened DEF LeadsOn
  <2>3. nav' = nav \/ nav' = LeadsOn(p)
    BY DEF Delayed
  <2> QED
    BY <2>1, <2>2, <2>3
<1>6. Typed'
  BY <1>2, <1>3, <1>5 DEF Typed
<1>7. ASSUME Accepted PROVE Accepted'
  <2>1. p = "otp" => verified > 0
    BY <1>7 DEF Accepted, Delayed
  <2>2. /\ On(nav', "reset") => On(nav, "reset") \/ verified > 0
        /\ On(nav', "otpSheet") => On(nav, "otpSheet") \/ verified > 0
    BY <1>4, <1>5, <2>1
  <2>3. \A d \in Call : call'[d] = call[d] \/ call'[d].op # "delayed"
    BY <1>2
  <2>4. verified' = verified /\ verified \in Nat /\ model' = model
    BY <1>3 DEF Typed
  <2> QED
    BY <1>7, <2>2, <2>3, <2>4, AcceptedKept
<1> QED
  BY <1>6, <1>7

LEMMA NavigationKeeps ==
    ASSUME Typed, Forgot \/ SheetButton \/ Back \/ Proceed
    PROVE  Typed' /\ (Accepted => Accepted')
<1>1. /\ UNCHANGED <<call, model, signUpModel, asks, verified, mistaken>>
      /\ UNCHANGED <<unanswered, overlapped, tried>>
      /\ touched' \in BOOLEAN /\ wentBack' \in BOOLEAN
      /\ verified' \in Nat /\ verified' >= verified
  <2>1. CASE Forgot \/ Proceed
    BY <2>1 DEF Typed, Forgot, Proceed, history
  <2>2. CASE SheetButton
    BY <2>2 DEF Typed, SheetButton
  <2>3. CASE Back
    BY <2>3 DEF Typed, Back
  <2> QED
    BY <2>1, <2>2, <2>3
<1>2. /\ Good(nav')
      /\ Accepted => /\ On(nav', "reset") => On(nav, "reset") \/ verified > 0
                     /\ On(nav', "otpSheet") => On(nav, "otpSheet") \/ verified > 0
  <2>0. Good(nav)
    BY DEF Typed
  <2>1. CASE Forgot
    <3>1. nav' = Opened(nav, "forgot") /\ "forgot" \in AnyRoute
      BY <2>1, Names DEF Forgot, Page, AnyRoute
    <3> QED
      BY <2>0, <3>1, GoodOpened
  <2>2. CASE SheetButton
    <3>1. PICK p \in Page : Top(nav) = SheetOf[p] /\ nav' = Opened(nav, NextPage[p])
      BY <2>2 DEF SheetButton
    <3>2. NextPage[p] \in AnyRoute
      BY Names DEF AnyRoute
    <3>3. Good(nav') /\ \A x : On(nav', x) => On(nav, x) \/ x = NextPage[p]
      BY <2>0, <3>1, <3>2, GoodOpened
    <3>4. p = "otp" => On(nav, "otpSheet")
      BY <2>0, <3>1, TopIsOn DEF SheetOf, Page
    <3>5. Accepted => (p = "otp" => verified > 0)
      BY <3>4 DEF Accepted
    <3> QED
      BY <3>3, <3>5, Names
  <2>3. CASE Back
    BY <2>0, <2>3, GoodTaken DEF Back
  <2>4. CASE Proceed
    <3>1. nav' = Pushed(nav, "scan") /\ "scan" \in AnyRoute
      BY <2>4, Names DEF Proceed, AnyRoute
    <3> QED
      BY <2>0, <3>1, GoodPushed
  <2> QED
    BY <2>1, <2>2, <2>3, <2>4
<1>3. Typed'
  BY <1>1, <1>2 DEF Typed
<1>4. Accepted => Accepted'
  BY <1>1, <1>2, AcceptedKept
<1> QED
  BY <1>3, <1>4

\* The steps there are.
LEMMA Steps ==
    ASSUME [Next]_vars
    PROVE  \/ UNCHANGED vars
           \/ NoMicrotask /\ (Forgot \/ SheetButton \/ Back \/ Proceed)
           \/ \E c \in Call :
                 \/ Return(c)
                 \/ (\A d \in Call : ~Returned(d)) /\ (Check(c) \/ Entered(c))
                 \/ /\ NoMicrotask
                    /\ \/ \E p \in Page : Ask(c, p)
                       \/ Resend(c) \/ EnterCode(c) \/ Toasted(c) \/ Delayed(c)
                       \/ Kept(c) \/ Answered(c) \/ Unanswered(c)
                       \/ ResendAnswered(c) \/ CodeAnswered(c)
                       \/ SignUpAnswered(c)
BY DEF Next, Goes_On, Microtask, Answer

LEMMA InitiallyTyped == Init => Typed /\ Accepted
<1> SUFFICES ASSUME Init PROVE Typed /\ Accepted
  OBVIOUS
<1> DEFINE front == NavigatorAt("front")
<1>1. "front" \in AnyRoute /\ "signIn" \in AnyRoute
  BY Names DEF AnyRoute
<1>2. /\ front \in Navigator(AnyRoute) /\ Len(front.stack) = 1
      /\ \A x : On(front, x) => x = "front"
  BY <1>1 DEF NavigatorAt, Navigator, On, Range
<1>3. Good(front)
  BY <1>2 DEF Good
<1> HIDE DEF front
<1>4. Good(nav) /\ \A x : On(nav, x) => x \in {"front", "signIn"}
  BY <1>1, <1>2, <1>3, GoodPushed DEF Init, front
<1>5. call \in [Call -> CallState] /\ \A c \in Call : call[c].op = "idle"
  BY DEF Init, Idle, Run, CallState, Ops, Page
<1>6. asks \in 0..MaxAsks
  BY ResetAssumption DEF Init, ResetAssumption
<1>7. Typed
  BY <1>4, <1>5, <1>6 DEF Init, Typed, Model
<1>8. Accepted
  BY <1>4, <1>5 DEF Init, Accepted, At, Page
<1> QED
  BY <1>7, <1>8

LEMMA TypedStep == Typed /\ [Next]_vars => Typed' /\ (Accepted => Accepted')
<1> SUFFICES ASSUME Typed, [Next]_vars PROVE Typed' /\ (Accepted => Accepted')
  OBVIOUS
<1>1. CASE UNCHANGED vars
  BY <1>1 DEF vars, history, Typed, Accepted, At
<1>2. CASE Forgot \/ SheetButton \/ Back \/ Proceed
  BY <1>2, NavigationKeeps
<1>3. ASSUME NEW c \in Call,
             \/ Return(c) \/ Check(c) \/ Entered(c) \/ \E p \in Page : Ask(c, p)
             \/ Resend(c) \/ EnterCode(c) \/ Toasted(c) \/ Delayed(c)
             \/ Kept(c) \/ Answered(c) \/ Unanswered(c)
             \/ ResendAnswered(c) \/ CodeAnswered(c) \/ SignUpAnswered(c)
      PROVE  Typed' /\ (Accepted => Accepted')
  <2>1. CASE Resend(c) \/ EnterCode(c) \/ \E p \in Page : Ask(c, p)
    BY <2>1, StartKeeps
  <2>2. CASE \/ Return(c) \/ Toasted(c) \/ Kept(c) \/ Unanswered(c)
             \/ SignUpAnswered(c)
    BY <2>2, GoesOnKeeps
  <2>3. CASE ResendAnswered(c)
    BY <2>3, GoesOnKeeps, SignUpKeeps DEF ResendAnswered
  <2>4. CASE CodeAnswered(c)
    BY <2>4, GoesOnKeeps, SignUpKeeps DEF CodeAnswered
  <2>5. CASE Check(c) \/ Entered(c) \/ Delayed(c) \/ Answered(c)
    BY <2>5, CheckKeeps, SignUpKeeps, DelayedKeeps, AnsweredKeeps
  <2> QED
    BY <1>3, <2>1, <2>2, <2>3, <2>4, <2>5
<1> QED
  BY <1>1, <1>2, <1>3, Steps

LEMMA AlwaysTyped == Spec => []Typed /\ []Accepted
<1>1. Typed /\ Accepted /\ [Next]_vars => (Typed /\ Accepted)'
  BY TypedStep
<1> QED
  BY <1>1, InitiallyTyped, PTL DEF Spec

\* The state of the reset is of its type: every navigator, call and model the
\* three screens and VerifyOtp leave (Forgot_screen.dart, Otp_verification.dart).
THEOREM TypeCorrect == Spec => []TypeOK
<1>1. Typed => TypeOK
  BY DEF Typed, Good, TypeOK, AnyRoute, CallState
<1> QED
  BY <1>1, AlwaysTyped, PTL

\* However often codes are asked for, answered late or not at all, the reset
\* screen and the sheet before it take a code the server accepted
\* (Otp_verification.dart 325-337, 388-467).
THEOREM ResetIsVerifiedHolds == Spec => []ResetIsVerified
<1>1. Accepted => ResetIsVerified
  BY DEF Accepted, ResetIsVerified
<1> QED
  BY <1>1, AlwaysTyped, PTL
-----------------------------------------------------------------------------
(***************************************************************************)
(* What the calls owe, and how a step of one changes it.                   *)
(***************************************************************************)
LEMMA DebtChanges ==
    ASSUME Typed, NEW c \in Call, call' \in [Call -> CallState],
           \A d \in Call \ {c} : call'[d] = call[d]
    PROVE  /\ Debt \in Nat /\ Debt' \in Nat
           /\ Due(call[c]) \in {0, 1, 2} /\ Due(call'[c]) \in {0, 1, 2}
           /\ Debt' + Due(call[c]) = Debt + Due(call'[c])
           /\ \A d \in Call \ {c} : At(d, "await") => Debt >= Due(call[c]) + 1
<1>1. /\ IsFiniteSet(Owes) /\ IsFiniteSet(Owes')
      /\ IsFiniteSet(OwesTwo) /\ IsFiniteSet(OwesTwo')
  BY ResetAssumption, FS_Subset DEF ResetAssumption, Owes, OwesTwo
<1>2. Owes' \ {c} = Owes \ {c} /\ OwesTwo' \ {c} = OwesTwo \ {c}
  BY DEF Owes, OwesTwo, At
<1> DEFINE one == Cardinality(Owes \ {c})
           two == Cardinality(OwesTwo \ {c})
<1>3. /\ one \in Nat /\ two \in Nat
      /\ c \in Owes => Cardinality(Owes) = one + 1
      /\ c \notin Owes => Cardinality(Owes) = one
      /\ c \in OwesTwo => Cardinality(OwesTwo) = two + 1
      /\ c \notin OwesTwo => Cardinality(OwesTwo) = two
  BY <1>1, CountOne
<1>4. /\ c \in Owes' => Cardinality(Owes') = one + 1
      /\ c \notin Owes' => Cardinality(Owes') = one
      /\ c \in OwesTwo' => Cardinality(OwesTwo') = two + 1
      /\ c \notin OwesTwo' => Cardinality(OwesTwo') = two
  <2>1. /\ c \in Owes' => Cardinality(Owes') = Cardinality(Owes' \ {c}) + 1
        /\ c \notin Owes' => Cardinality(Owes') = Cardinality(Owes' \ {c})
    BY <1>1, CountOne
  <2>2. /\ c \in OwesTwo' => Cardinality(OwesTwo') = Cardinality(OwesTwo' \ {c}) + 1
        /\ c \notin OwesTwo' => Cardinality(OwesTwo') = Cardinality(OwesTwo' \ {c})
    BY <1>1, CountOne
  <2> QED
    BY <1>2, <2>1, <2>2
<1>5. \A d \in Call \ {c} : At(d, "await") => one >= 1
  <2> SUFFICES ASSUME NEW d \in Call \ {c}, At(d, "await") PROVE one >= 1
    OBVIOUS
  <2>1. d \in Owes \ {c} /\ IsFiniteSet(Owes \ {c})
    BY <1>1, FS_RemoveElement DEF Owes, At
  <2>2. one = Cardinality((Owes \ {c}) \ {d}) + 1 /\ Cardinality((Owes \ {c}) \ {d}) \in Nat
    BY <2>1, CountOne
  <2> HIDE DEF one
  <2> QED
    BY <2>2
<1> HIDE DEF one, two
<1>6. /\ c \in OwesTwo => c \in Owes
      /\ c \in OwesTwo => Due(call[c]) = 2
      /\ c \in Owes \ OwesTwo => Due(call[c]) = 1
      /\ c \notin Owes => Due(call[c]) = 0
  BY DEF Owes, OwesTwo, Due, At
<1>7. /\ c \in OwesTwo' => c \in Owes'
      /\ c \in OwesTwo' => Due(call'[c]) = 2
      /\ c \in Owes' \ OwesTwo' => Due(call'[c]) = 1
      /\ c \notin Owes' => Due(call'[c]) = 0
  BY DEF Owes, OwesTwo, Due, At
<1>8. Debt = one + two + Due(call[c]) /\ Due(call[c]) \in {0, 1, 2}
  BY <1>3, <1>6 DEF Debt
<1>9. Debt' = one + two + Due(call'[c]) /\ Due(call'[c]) \in {0, 1, 2}
  BY <1>3, <1>4, <1>7 DEF Debt
<1>10. \A a, b \in {0, 1, 2} : /\ one + two + a \in Nat
                               /\ (one + two + b) + a = (one + two + a) + b
                               /\ one >= 1 => one + two + a >= a + 1
  BY <1>3
<1> QED
  BY <1>5, <1>8, <1>9, <1>10

\* A call that owes nothing before and after, or the same, changes no debt.
LEMMA SameCalls ==
    ASSUME UNCHANGED call
    PROVE  Debt' = Debt
BY DEF Debt, Owes, OwesTwo, At
-----------------------------------------------------------------------------
(***************************************************************************)
(* While the user leaves the sheets alone.                                 *)
(***************************************************************************)
Fits(c) ==
    /\ call[c].op \in {"asked", "toast", "resend"} => Top(nav) = Loader
    /\ At(c, "delayed") => Top(nav) = SheetOf[call[c].page]

\* One call at most, and none of VerifyOtp.
Single ==
    \A c \in Call :
        /\ Fits(c) /\ ~On(nav, c)
        /\ call[c].op \notin {"await", "verify", "signUp", "kept", "entered"}
        /\ \A d \in Call : At(c, "idle") \/ At(d, "idle") \/ c = d

\* What lies on a VerifyOtp.
Beyond == Call \cup {Loader, SignUpSheet, "scan"}

Above(n, k) ==
    /\ k \in 1..Len(n.stack) /\ n.stack[k] \in Call
    /\ \A i \in k..Len(n.stack) : n.stack[i] \in Beyond

\* A VerifyOtp, and more on it than will be hidden.
OnVerify ==
    /\ \E k \in 1..Len(nav.stack) :
          /\ Above(nav, k) /\ At(nav.stack[k], "await")
          /\ Debt + k <= Len(nav.stack) + 1
    /\ \A c \in Call : call[c].op \notin {"asked", "toast", "check", "delayed"}

Alone == touched \/ Single \/ OnVerify
-----------------------------------------------------------------------------
LEMMA BeyondNames ==
    \A r \in Beyond : /\ r \in AnyRoute /\ r \notin Page /\ r # "signIn"
                      /\ r # "front" /\ \A p \in Page : r # SheetOf[p]
<1>1. ASSUME NEW r \in Call
      PROVE  /\ r \in AnyRoute /\ r \notin Page /\ r # "signIn"
             /\ r # "front" /\ \A p \in Page : r # SheetOf[p]
  BY CallRoutes, Names
<1>2. \A r \in {Loader, SignUpSheet, "scan"} :
          /\ r \in AnyRoute /\ r \notin Page /\ r # "signIn"
          /\ r # "front" /\ \A p \in Page : r # SheetOf[p]
  <2>1. {Loader, SignUpSheet, "scan"} \subseteq AnyRoute
    BY Names DEF AnyRoute
  <2>2. /\ SignUpSheet # "signIn" /\ SignUpSheet # "front"
    BY DEF SignUpSheet
  <2> QED
    BY <2>1, <2>2, OtherNames
<1> QED
  BY <1>1, <1>2 DEF Beyond

\* Routes come and go over a VerifyOtp.
LEMMA AbovePushed ==
    ASSUME NEW n, Good(n), NEW k, Above(n, k), NEW m, Good(m), NEW r \in Beyond,
           m.stack = Append(n.stack, r)
    PROVE  /\ Above(m, k) /\ m.stack[k] = n.stack[k]
           /\ Len(n.stack) \in Nat /\ Len(m.stack) = Len(n.stack) + 1
<1>1. n.stack \in Seq(AnyRoute) /\ Len(n.stack) \in Nat /\ r \in AnyRoute
  BY BeyondNames DEF Good, Navigator
<1>2. /\ Len(m.stack) = Len(n.stack) + 1 /\ m.stack[Len(n.stack) + 1] = r
      /\ \A i \in 1..Len(n.stack) : m.stack[i] = n.stack[i]
  BY <1>1, AppendProperties
<1> DEFINE l == Len(n.stack)
<1>3. k \in 1..l /\ \A i \in k..(l + 1) : i \in k..l \/ i = l + 1
  BY <1>1 DEF Above
<1>4. \A i \in k..l : i \in 1..l
  BY <1>1, <1>3
<1> QED
  BY <1>1, <1>2, <1>3, <1>4 DEF Above

LEMMA AboveTaken ==
    ASSUME NEW n, Good(n), NEW k, Above(n, k), k < Len(n.stack)
    PROVE  /\ Good(Taken(n)) /\ Above(Taken(n), k)
           /\ Taken(n).stack[k] = n.stack[k]
           /\ Len(n.stack) \in Nat /\ Len(Taken(n).stack) = Len(n.stack) - 1
<1>1. /\ n \in Navigator(AnyRoute) /\ Len(n.stack) \in Nat
      /\ k \in 1..Len(n.stack) /\ Len(n.stack) >= 2 /\ Len(n.stack) > 1
  BY DEF Good, Navigator, Above
<1>2. /\ Len(Popped(n).stack) = Len(n.stack) - 1 /\ Taken(n) = Popped(n)
      /\ \A i \in 1..(Len(n.stack) - 1) : Popped(n).stack[i] = n.stack[i]
  BY <1>1, PoppedFacts DEF Taken
<1> DEFINE l == Len(n.stack)
<1>3. k \in 1..(l - 1) /\ \A i \in k..(l - 1) : i \in 1..(l - 1) /\ i \in k..l
  BY <1>1
<1> QED
  BY <1>2, <1>3, <1>1, GoodTaken DEF Above

LEMMA AboveTop ==
    ASSUME NEW n, Good(n), NEW k, Above(n, k)
    PROVE  Top(n) \in Beyond
<1>1. Len(n.stack) \in Nat /\ k \in 1..Len(n.stack)
  BY DEF Above, Good, Navigator
<1>2. Len(n.stack) \in k..Len(n.stack)
  BY <1>1
<1> QED
  BY <1>2 DEF Top, Above

\* One call goes on over a VerifyOtp, which stays.
LEMMA VerifyKept ==
    ASSUME Typed, NEW c \in Call, call' \in [Call -> CallState],
           \A d \in Call \ {c} : call'[d] = call[d],
           call'[c].op \notin {"asked", "toast", "check", "delayed"},
           \A d \in Call : call[d].op \notin {"asked", "toast", "check", "delayed"},
           Good(nav'), NEW k, Above(nav, k), At(nav.stack[k], "await"),
           Debt + k <= Len(nav.stack) + 1, c # nav.stack[k],
           Above(nav', k), nav'.stack[k] = nav.stack[k],
           Len(nav'.stack) + Due(call[c]) >= Len(nav.stack) + Due(call'[c])
    PROVE  OnVerify'
<1>1. /\ Debt \in Nat /\ Debt' \in Nat
      /\ Due(call[c]) \in {0, 1, 2} /\ Due(call'[c]) \in {0, 1, 2}
      /\ Debt' + Due(call[c]) = Debt + Due(call'[c])
  BY DebtChanges
<1>2. /\ Len(nav.stack) \in Nat /\ Len(nav'.stack) \in Nat
      /\ k \in 1..Len(nav'.stack) /\ k \in Nat /\ nav.stack[k] \in Call
  BY DEF Typed, Good, Navigator, Above
<1>3. Debt' + k <= Len(nav'.stack) + 1
  <2> DEFINE e == Debt
             f == Debt'
             a == Due(call[c])
             b == Due(call'[c])
             l == Len(nav.stack)
             m == Len(nav'.stack)
  <2>1. /\ e \in Nat /\ f \in Nat /\ a \in Nat /\ b \in Nat
        /\ l \in Nat /\ m \in Nat /\ k \in Nat
    BY <1>1, <1>2
  <2>2. f + a = e + b /\ e + k <= l + 1 /\ m + a >= l + b
    BY <1>1
  <2> HIDE DEF e, f, a, b, l, m
  <2>3. f + k <= m + 1
    BY <2>1, <2>2
  <2> QED
    BY <2>3 DEF f, m
<1>4. At(nav.stack[k], "await")'
  BY <1>2 DEF At
<1>5. \A d \in Call : call'[d].op \notin {"asked", "toast", "check", "delayed"}
  OBVIOUS
<1> QED
  BY <1>2, <1>3, <1>4, <1>5 DEF OnVerify

LEMMA VerifyHides ==
    ASSUME Typed, NEW c \in Call, NEW n \in {1, 2}, NEW op \in {"idle", "entered"},
           Hides(c, n, op), Due(call[c]) = n,
           \A d \in Call : call[d].op \notin {"asked", "toast", "check", "delayed"},
           NEW k, Above(nav, k), At(nav.stack[k], "await"),
           Debt + k <= Len(nav.stack) + 1, c # nav.stack[k]
    PROVE  OnVerify'
<1>1. /\ call' \in [Call -> CallState] /\ call'[c].op \in {"idle", op}
      /\ \A d \in Call \ {c} : call'[d] = call[d]
      /\ Good(nav')
      /\ nav' = nav \/ nav' = Taken(nav) \/ (n = 2 /\ nav' = Taken(Taken(nav)))
  BY Hidden
<1>2. Debt \in Nat /\ Debt >= n + 1
  <2>1. nav.stack[k] \in Call \ {c}
    BY DEF Above
  <2> QED
    BY <1>1, <2>1, DebtChanges
<1>3. Due(call'[c]) = 0
  BY <1>1 DEF Due
<1>4. /\ Good(nav) /\ Len(nav.stack) \in Nat /\ k \in Nat
      /\ k + n <= Len(nav.stack) /\ k < Len(nav.stack)
  <2>1. Good(nav) /\ Len(nav.stack) \in Nat /\ k \in Nat
    BY DEF Typed, Good, Navigator, Above
  <2> QED
    BY <1>2, <2>1
<1>5. /\ Good(Taken(nav)) /\ Above(Taken(nav), k)
      /\ Taken(nav).stack[k] = nav.stack[k]
      /\ Len(Taken(nav).stack) = Len(nav.stack) - 1
  BY <1>4, AboveTaken
<1>6. n = 2 => /\ Above(Taken(Taken(nav)), k)
               /\ Taken(Taken(nav)).stack[k] = nav.stack[k]
               /\ Len(Taken(Taken(nav)).stack) = Len(nav.stack) - 2
  <2> SUFFICES ASSUME n = 2
               PROVE  /\ Above(Taken(Taken(nav)), k)
                      /\ Taken(Taken(nav)).stack[k] = nav.stack[k]
                      /\ Len(Taken(Taken(nav)).stack) = Len(nav.stack) - 2
    OBVIOUS
  <2>1. k < Len(Taken(nav).stack)
    BY <1>4, <1>5
  <2>2. /\ Above(Taken(Taken(nav)), k)
        /\ Taken(Taken(nav)).stack[k] = Taken(nav).stack[k]
        /\ Len(Taken(Taken(nav)).stack) = Len(Taken(nav).stack) - 1
    BY <1>5, <2>1, AboveTaken
  <2> QED
    BY <1>4, <1>5, <2>2
<1>7. /\ Above(nav', k) /\ nav'.stack[k] = nav.stack[k]
      /\ Len(nav'.stack) + n >= Len(nav.stack) + 0
  BY <1>1, <1>4, <1>5, <1>6
<1>8. call'[c].op \notin {"asked", "toast", "check", "delayed"}
  BY <1>1
<1> QED
  BY <1>1, <1>3, <1>7, <1>8, VerifyKept

\* Each step of a call keeps a VerifyOtp that is there.
LEMMA VerifyStep ==
    ASSUME Typed, OnVerify, NEW c \in Call,
           \/ Return(c) \/ Entered(c) \/ Kept(c) \/ Unanswered(c)
           \/ ResendAnswered(c) \/ CodeAnswered(c) \/ SignUpAnswered(c)
           \/ Resend(c) \/ EnterCode(c)
    PROVE  OnVerify'
<1> DEFINE Other == {"asked", "toast", "check", "delayed"}
<1>1. PICK k \in 1..Len(nav.stack) :
          /\ Above(nav, k) /\ At(nav.stack[k], "await")
          /\ Debt + k <= Len(nav.stack) + 1
  BY DEF OnVerify
<1>2. \A d \in Call : call[d].op \notin Other
  BY DEF OnVerify
<1>3. Good(nav) /\ Len(nav.stack) \in Nat /\ nav.stack[k] \in Call
  BY <1>1 DEF Typed, Good, Navigator, Above
<1>4. c # nav.stack[k]
  <2>1. CASE Return(c)
    <3>1. nav.stack[k] \in Verifies
      BY <1>3 DEF Verifies, Range
    <3> QED
      BY <2>1, <3>1 DEF Return, Returned
  <2>2. CASE ~Return(c)
    BY <1>1, <2>2 DEF Entered, Kept, Unanswered, ResendAnswered, CodeAnswered,
       SignUpAnswered, Resend, EnterCode, Start, At
  <2> QED
    BY <2>1, <2>2
<1>5. CASE \/ Return(c) \/ Kept(c)
           \/ ResendAnswered(c) /\ Hides(c, 1, "idle")
           \/ CodeAnswered(c) /\ Hides(c, 1, "entered")
           \/ SignUpAnswered(c) /\ Hides(c, 2, "entered")
  <2>1. PICK n \in {1, 2}, op \in {"idle", "entered"} :
            Hides(c, n, op) /\ Due(call[c]) = n
    BY <1>5 DEF Return, Returned, Kept, ResendAnswered, CodeAnswered,
       SignUpAnswered, At, Due
  <2> QED
    BY <1>1, <1>2, <1>4, <2>1, VerifyHides
\* Loaders and routes that are put on it.
<1>6. ASSUME NEW r \in Beyond, nav'.stack = Append(nav.stack, r), Good(nav'),
             call' \in [Call -> CallState], \A d \in Call \ {c} : call'[d] = call[d],
             call'[c].op \notin Other, Due(call'[c]) <= Due(call[c]) + 1
      PROVE  OnVerify'
  <2>1. /\ Above(nav', k) /\ nav'.stack[k] = nav.stack[k]
        /\ Len(nav'.stack) = Len(nav.stack) + 1
    BY <1>1, <1>3, <1>6, AbovePushed
  <2>2. Due(call[c]) \in {0, 1, 2} /\ Due(call'[c]) \in {0, 1, 2}
    BY DEF Due
  <2>3. Len(nav'.stack) + Due(call[c]) >= Len(nav.stack) + Due(call'[c])
    BY <1>3, <1>6, <2>1, <2>2
  <2> QED
    BY <1>1, <1>2, <1>4, <1>6, <2>1, <2>3, VerifyKept
\* And nothing.
<1>7. ASSUME nav' = nav, call' \in [Call -> CallState],
             \A d \in Call \ {c} : call'[d] = call[d],
             call'[c].op \notin Other, Due(call'[c]) <= Due(call[c])
      PROVE  OnVerify'
  <2>1. Due(call[c]) \in {0, 1, 2} /\ Due(call'[c]) \in {0, 1, 2}
    BY DEF Due
  <2>2. Len(nav'.stack) + Due(call[c]) >= Len(nav.stack) + Due(call'[c])
    BY <1>3, <1>7, <2>1
  <2> QED
    BY <1>1, <1>2, <1>3, <1>4, <1>7, <2>2, VerifyKept
<1>8. /\ nav' = WithLoader(nav) => nav'.stack = Append(nav.stack, Loader) /\ Good(nav')
      /\ \A r \in Beyond : nav' = Pushed(nav, r) =>
            nav'.stack = Append(nav.stack, r) /\ Good(nav')
      /\ Loader \in Beyond
  <2>1. Loader \in AnyRoute /\ nav \in Navigator(AnyRoute)
    BY Names, <1>3 DEF AnyRoute, Good
  <2>2. nav' = WithLoader(nav) => nav'.stack = Append(nav.stack, Loader) /\ Good(nav')
    BY <1>3, <2>1, WithLoaderFacts, GoodWithLoader
  <2>3. ASSUME NEW r \in Beyond, nav' = Pushed(nav, r)
        PROVE  nav'.stack = Append(nav.stack, r) /\ Good(nav')
    <3>1. r \in AnyRoute
      BY BeyondNames
    <3> QED
      BY <1>3, <2>1, <2>3, <3>1, PushedFacts, GoodPushed
  <2> QED
    BY <2>2, <2>3 DEF Beyond
<1>9. CASE Resend(c) \/ EnterCode(c)
  <2>1. PICK rec \in CallState : Start(c, rec) /\ rec.op \in {"resend", "verify"}
    BY <1>9, Records
  <2>2. /\ call' \in [Call -> CallState] /\ call'[c] = rec
        /\ \A d \in Call \ {c} : call'[d] = call[d]
        /\ nav' = WithLoader(nav)
    BY <2>1, Started
  <2>3. Due(call'[c]) = 1 /\ Due(call[c]) = 0
    BY <2>1, <2>2 DEF Due, Start, At
  <2> QED
    BY <1>6, <1>8, <2>1, <2>2, <2>3
<1>10. CASE CodeAnswered(c) /\ nav' = WithLoader(nav) /\ Goes(c, "signUp")
  <2>1. /\ call' \in [Call -> CallState] /\ call'[c].op = "signUp"
        /\ \A d \in Call \ {c} : call'[d] = call[d]
    BY <1>10, CallGoes DEF Ops
  <2>2. Due(call'[c]) = 2 /\ Due(call[c]) = 1
    BY <1>10, <2>1 DEF Due, CodeAnswered, At
  <2> QED
    BY <1>6, <1>8, <1>10, <2>1, <2>2
<1>11. CASE ResendAnswered(c) /\ nav' = Pushed(nav, c) /\ Goes(c, "await")
  <2>1. /\ call' \in [Call -> CallState] /\ call'[c].op = "await"
        /\ \A d \in Call \ {c} : call'[d] = call[d]
    BY <1>11, CallGoes DEF Ops
  <2>2. Due(call'[c]) = 1 /\ Due(call[c]) = 1 /\ c \in Beyond
    BY <1>11, <2>1 DEF Due, ResendAnswered, At, Beyond
  <2> QED
    BY <1>6, <1>8, <1>11, <2>1, <2>2
<1>12. CASE Entered(c)
  <2>1. /\ call' \in [Call -> CallState] /\ call'[c].op = "idle"
        /\ \A d \in Call \ {c} : call'[d] = call[d]
    BY <1>12, CallEnds DEF Entered
  <2>2. Due(call'[c]) = 0 /\ Due(call[c]) = 0
    BY <1>12, <2>1 DEF Due, Entered, At
  <2>3. \/ nav' = nav
        \/ \E r \in {"scan", SignUpSheet} : nav' = Pushed(nav, r)
    BY <1>12 DEF Entered
  <2>4. {"scan", SignUpSheet} \subseteq Beyond
    BY DEF Beyond
  <2>5. CASE nav' = nav
    BY <1>7, <2>1, <2>2, <2>5
  <2>6. CASE \E r \in {"scan", SignUpSheet} : nav' = Pushed(nav, r)
    BY <1>6, <1>8, <2>1, <2>2, <2>4, <2>6
  <2> QED
    BY <2>3, <2>5, <2>6
<1>13. CASE \/ Unanswered(c)
            \/ SignUpAnswered(c) /\ Goes(c, "kept") /\ UNCHANGED nav
  <2>1. nav' = nav /\ (Goes(c, "kept") \/ Goes(c, "entered") \/ Ends(c))
    BY <1>2, <1>13 DEF Unanswered, At
  <2>2. /\ call' \in [Call -> CallState] /\ call'[c].op \in {"kept", "entered", "idle"}
        /\ \A d \in Call \ {c} : call'[d] = call[d]
    BY <2>1, CallGoes, CallEnds DEF Ops
  <2>3. Due(call'[c]) <= Due(call[c])
    <3>1. CASE Unanswered(c)
      <4>1. call'[c].op \in {"entered", "idle"}
        BY <1>2, <3>1, CallGoes, CallEnds DEF Unanswered, At, Ops
      <4> QED
        BY <4>1 DEF Due
    <3>2. CASE SignUpAnswered(c)
      BY <2>2, <3>2 DEF Due, SignUpAnswered, At
    <3> QED
      BY <1>13, <3>1, <3>2
  <2> QED
    BY <1>7, <2>1, <2>2, <2>3
<1>14. CASE ResendAnswered(c)
  BY <1>5, <1>11, <1>14 DEF ResendAnswered
<1>15. CASE CodeAnswered(c)
  BY <1>5, <1>10, <1>15 DEF CodeAnswered
<1>16. CASE SignUpAnswered(c)
  BY <1>5, <1>13, <1>16 DEF SignUpAnswered
<1>17. CASE Return(c) \/ Kept(c)
  BY <1>5, <1>17
<1>18. CASE Unanswered(c)
  BY <1>13, <1>18
<1> QED
  BY <1>9, <1>12, <1>14, <1>15, <1>16, <1>17, <1>18
-----------------------------------------------------------------------------
\* A call that is under way is the only one.
LEMMA OthersIdle ==
    ASSUME Single, NEW c \in Call, ~At(c, "idle")
    PROVE  /\ Fits(c) /\ \A d \in Call \ {c} : At(d, "idle")
           /\ \A d \in Call : ~On(nav, d)
  BY DEF Single

\* With a screen on top, and nothing to run at once, none is under way.
LEMMA NoneUnderWay ==
    ASSUME Typed, Single, NoMicrotask, Top(nav) \in Page \cup {"signIn"}
    PROVE  \A c \in Call : At(c, "idle")
<1> SUFFICES ASSUME NEW c \in Call, ~At(c, "idle") PROVE FALSE
  OBVIOUS
<1>1. Fits(c)
  BY OthersIdle
<1>2. call[c].op \in {"asked", "toast", "delayed", "resend"}
  BY DEF Typed, CallState, Ops, NoMicrotask, At, Single
<1>3. call[c].page \in Page
  BY DEF Typed, CallState
<1>4. Top(nav) # Loader
  BY OtherNames
<1>5. Top(nav) # SheetOf[call[c].page]
  BY <1>3 DEF Page, SheetOf
<1> QED
  BY <1>1, <1>2, <1>4, <1>5 DEF Fits, At

\* The one call goes on, and opens no VerifyOtp.
LEMMA SingleKept ==
    ASSUME NEW c \in Call, \A d \in Call \ {c} : call'[d] = call[d],
           \A d \in Call \ {c} : At(d, "idle"), Fits(c)',
           call'[c].op \notin {"await", "verify", "signUp", "kept", "entered"},
           \A d \in Call : ~On(nav', d)
    PROVE  Single'
<1>1. \A d \in Call \ {c} : At(d, "idle")'
  BY DEF At
<1>2. \A d \in Call : Fits(d)'
  BY <1>1 DEF Fits, At
<1>3. \A d \in Call :
          call'[d].op \notin {"await", "verify", "signUp", "kept", "entered"}
  BY <1>1 DEF At
<1> QED
  BY <1>1, <1>2, <1>3 DEF Single

\* What is asked for or goes on without opening a route.
LEMMA SingleStep ==
    ASSUME Typed, Single, NEW c \in Call,
           \/ NoMicrotask /\ (Resend(c) \/ \E p \in Page : Ask(c, p))
           \/ Answered(c) \/ Toasted(c) \/ Unanswered(c)
           \/ ResendAnswered(c) /\ Hides(c, 1, "idle")
    PROVE  Single'
<1>0. \A d \in Call : ~On(nav, d) /\ d # Loader
  BY CallRoutes, Names DEF Single
<1>1. CASE NoMicrotask /\ (Resend(c) \/ \E p \in Page : Ask(c, p))
  <2>1. PICK rec \in CallState : Start(c, rec) /\ rec.op \in {"asked", "resend"}
    BY <1>1, Records
  <2>2. /\ call'[c] = rec /\ \A d \in Call \ {c} : call'[d] = call[d]
        /\ Top(nav') = Loader /\ \A x : On(nav', x) => On(nav, x) \/ x = Loader
    BY <2>1, Started
  <2>3. Top(nav) \in Page
    <3>1. On(nav, Top(nav))
      BY TopIsOn DEF Typed
    <3> QED
      BY <1>0, <1>1, <3>1 DEF Resend, Ask, Page
  <2>4. \A d \in Call : At(d, "idle")
    BY <1>1, <2>3, NoneUnderWay
  <2>5. Fits(c)'
    BY <2>1, <2>2 DEF Fits, At
  <2> QED
    BY <1>0, <2>1, <2>2, <2>4, <2>5, SingleKept
<1>2. CASE ~(NoMicrotask /\ (Resend(c) \/ \E p \in Page : Ask(c, p)))
  <2>1. /\ ~At(c, "idle") /\ call[c].op \in {"asked", "toast", "resend"}
    BY <1>2 DEF Answered, Toasted, Unanswered, ResendAnswered, At, Single
  <2>2. /\ \A d \in Call \ {c} : call'[d] = call[d]
        /\ \A x : On(nav', x) => On(nav, x)
        /\ \/ call'[c].op \in {"idle", "check"}
           \/ call'[c].op = "toast" /\ nav' = nav
    <3>1. \/ UNCHANGED nav /\ (Ends(c) \/ Goes(c, "check") \/ Goes(c, "toast"))
          \/ \E op \in {"idle", "check"} : Hides(c, 1, op)
      BY <1>2, <2>1 DEF Answered, Toasted, Unanswered, Refused, ResendAnswered, At
    <3>2. CASE UNCHANGED nav /\ (Ends(c) \/ Goes(c, "check") \/ Goes(c, "toast"))
      BY <3>2, CallGoes, CallEnds DEF Ops
    <3>3. CASE \E op \in {"idle", "check"} : Hides(c, 1, op)
      BY <3>3, Hidden
    <3> QED
      BY <3>1, <3>2, <3>3
  <2>3. Fits(c) /\ \A d \in Call \ {c} : At(d, "idle")
    BY <2>1, OthersIdle
  <2>4. Fits(c)'
    BY <2>1, <2>2, <2>3 DEF Fits, At
  <2>5. call'[c].op \notin {"await", "verify", "signUp", "kept", "entered"}
    BY <2>2
  <2> QED
    BY <1>0, <2>2, <2>3, <2>4, <2>5, SingleKept
<1> QED
  BY <1>1, <1>2

LEMMA SingleCheck ==
    ASSUME Typed, Single, NEW c \in Call, Check(c) \/ Delayed(c)
    PROVE  Single'
<1> DEFINE p == call[c].page
<1>1. p \in Page /\ ~At(c, "idle")
  BY DEF Typed, CallState, Check, Delayed, At
<1>2. Good(nav) /\ \A d \in Call \ {c} : At(d, "idle")
  BY <1>1, OthersIdle DEF Typed
<1>3. /\ \A d \in Call \ {c} : call'[d] = call[d]
      /\ call'[c].op \in {"idle", "delayed"} /\ (At(c, "delayed")' => call'[c].page = p)
  BY CallGoes, CallEnds DEF Check, Delayed, Ops, At
<1>4. /\ \A x : On(nav', x) => On(nav, x) \/ x \in Route
      /\ At(c, "delayed")' => Top(nav') = SheetOf[p]
  <2>1. /\ SheetOf[p] \in Route /\ NextPage[p] \in Route
        /\ SheetOf[p] \in AnyRoute /\ NextPage[p] \in AnyRoute
    BY <1>1, Names DEF AnyRoute
  <2>2. CASE Check(c) /\ nav' = Pushed(nav, SheetOf[p])
    BY <1>2, <2>1, <2>2, GoodPushed
  <2>3. CASE Check(c) /\ nav' # Pushed(nav, SheetOf[p])
    BY <2>3, CallEnds DEF Check, WithSheet, At
  <2>4. CASE Delayed(c)
    <3>1. At(c, "idle")'
      BY <2>4, CallEnds DEF Delayed, At
    <3>2. \A x : On(nav', x) => On(nav, x) \/ x = NextPage[p]
      <4>1. Good(Taken(nav)) /\ \A x : On(Taken(nav), x) => On(nav, x)
        BY <1>2, GoodTaken
      <4>2. \A x : On(LeadsOn(p), x) => On(Taken(nav), x) \/ x = NextPage[p]
        BY <2>1, <4>1, GoodOpened DEF LeadsOn
      <4>3. nav' = nav \/ nav' = LeadsOn(p)
        BY <2>4 DEF Delayed
      <4> QED
        BY <4>1, <4>2, <4>3
    <3> QED
      BY <2>1, <3>1, <3>2 DEF At
  <2> QED
    BY <2>2, <2>3, <2>4
<1>5. \A d \in Call : ~On(nav', d)
  BY <1>4, CallRoutes DEF Single
<1>6. Fits(c)'
  BY <1>3, <1>4 DEF Fits, At
<1> QED
  BY <1>2, <1>3, <1>5, <1>6, SingleKept

\* An allowed resend opens VerifyOtp.
LEMMA SingleOpens ==
    ASSUME Typed, Single, NEW c \in Call, ResendAnswered(c),
           nav' = Pushed(nav, c), Goes(c, "await")
    PROVE  OnVerify'
<1>1. \A d \in Call \ {c} : At(d, "idle")
  BY OthersIdle DEF ResendAnswered, At
<1>2. /\ call'[c].op = "await" /\ \A d \in Call \ {c} : call'[d] = call[d]
  BY CallGoes DEF Ops
<1>3. Debt' = 1
  <2>1. Owes' = {c} /\ OwesTwo' = {}
    BY <1>1, <1>2 DEF Owes, OwesTwo, At
  <2>2. Cardinality({c}) = 1 /\ Cardinality({}) = 0
    BY FS_Singleton, FS_EmptySet
  <2> QED
    BY <2>1, <2>2 DEF Debt
<1>4. /\ nav'.stack = Append(nav.stack, c) /\ Len(nav.stack) \in Nat
      /\ Len(nav'.stack) = Len(nav.stack) + 1
      /\ nav'.stack[Len(nav.stack) + 1] = c
  <2>1. /\ nav \in Navigator(AnyRoute) /\ nav.stack \in Seq(AnyRoute)
        /\ c \in AnyRoute /\ Len(nav.stack) \in Nat
    BY CallRoutes DEF Typed, Good, Navigator
  <2>2. nav'.stack = Append(nav.stack, c)
    BY <2>1, PushedFacts
  <2> QED
    BY <2>1, <2>2, AppendProperties
<1> DEFINE k == Len(nav.stack) + 1
<1>5. /\ k \in Nat /\ k >= 1 /\ k = Len(nav'.stack) /\ nav'.stack[k] = c
  BY <1>4
<1>6. /\ k \in 1..Len(nav'.stack)
      /\ \A i \in k..Len(nav'.stack) : i = k
  <2> HIDE DEF k
  <2> QED
    BY <1>5
<1> HIDE DEF k
<1>7. Above(nav', k)
  BY <1>5, <1>6 DEF Above, Beyond
<1>8. \A d \in Call : call'[d].op \notin {"asked", "toast", "check", "delayed"}
  BY <1>1, <1>2 DEF At
<1>9. Debt' + k <= Len(nav'.stack) + 1
  BY <1>3, <1>5
<1> QED
  BY <1>2, <1>5, <1>6, <1>7, <1>8, <1>9 DEF OnVerify, At

LEMMA AloneNavigation ==
    ASSUME Typed, Alone, NoMicrotask, Forgot \/ SheetButton \/ Back \/ Proceed
    PROVE  Alone'
<1>1. CASE SheetButton \/ Back
  BY <1>1 DEF SheetButton, Back, Alone
<1>2. CASE touched /\ (Forgot \/ Proceed)
  BY <1>2 DEF Forgot, Proceed, history, Alone
<1>3. CASE Single /\ (Forgot \/ Proceed)
  <2>1. UNCHANGED call /\ Good(nav)
    BY <1>3 DEF Forgot, Proceed, Typed
  <2>2. \A d \in Call : ~On(nav', d)
    <3>1. "forgot" \in Route /\ "scan" \in Route
      BY Names DEF Page
    <3>2. \A x : On(nav', x) => On(nav, x) \/ x \in {"forgot", "scan"}
      BY <1>3, <2>1, <3>1, GoodOpened, GoodPushed DEF Forgot, Proceed, AnyRoute
    <3> QED
      BY <1>3, <3>1, <3>2, CallRoutes DEF Single
  <2>3. \A d \in Call : Fits(d)'
    <3>1. CASE Forgot
      <4>1. \A d \in Call : At(d, "idle")
        BY <1>3, <3>1, NoneUnderWay DEF Forgot
      <4> QED
        BY <2>1, <4>1 DEF Fits, At
    <3>2. CASE Proceed
      <4>1. \A d \in Call : call[d].page \in Page
        BY DEF Typed, CallState
      <4>2. \A d \in Call : call[d].op \notin {"asked", "toast", "resend", "delayed"}
        BY <1>3, <3>2, <4>1, OtherNames DEF Proceed, Single, Fits, At
      <4> QED
        BY <2>1, <4>2 DEF Fits, At
    <3> QED
      BY <1>3, <3>1, <3>2
  <2>4. Single'
    BY <1>3, <2>1, <2>2, <2>3 DEF Single, At
  <2> QED
    BY <2>4 DEF Alone
<1>4. CASE OnVerify /\ (Forgot \/ Proceed)
  <2>1. PICK k \in 1..Len(nav.stack) :
            /\ Above(nav, k) /\ At(nav.stack[k], "await")
            /\ Debt + k <= Len(nav.stack) + 1
    BY <1>4 DEF OnVerify
  <2>2. Good(nav) /\ Top(nav) \in Beyond
    BY <2>1, AboveTop DEF Typed
  <2>3. Proceed
    BY <1>4, <2>2, BeyondNames DEF Forgot
  <2>4. UNCHANGED call /\ nav' = Pushed(nav, "scan") /\ "scan" \in Beyond
    BY <2>3 DEF Proceed, Beyond
  <2>5. /\ nav'.stack = Append(nav.stack, "scan") /\ Good(nav')
    BY <2>2, <2>4, BeyondNames, PushedFacts, GoodPushed DEF Good
  <2>6. /\ Above(nav', k) /\ nav'.stack[k] = nav.stack[k]
        /\ Len(nav.stack) \in Nat /\ Len(nav'.stack) = Len(nav.stack) + 1
    BY <2>1, <2>2, <2>4, <2>5, AbovePushed
  <2>7. Debt' = Debt /\ k \in Nat /\ k \in 1..Len(nav'.stack)
    BY <2>4, <2>6, SameCalls DEF Above
  <2>8. Debt \in Nat
    <3>1. /\ IsFiniteSet(Owes) /\ IsFiniteSet(OwesTwo)
      BY ResetAssumption, FS_Subset DEF ResetAssumption, Owes, OwesTwo
    <3> QED
      BY <3>1, FS_CardinalityType DEF Debt
  <2>9. Debt' + k <= Len(nav'.stack) + 1
    <3> DEFINE l == Len(nav.stack)
               e == Debt
    <3>1. l \in Nat /\ e \in Nat /\ k \in Nat /\ e + k <= l + 1
      BY <2>1, <2>6, <2>7, <2>8
    <3> HIDE DEF l, e
    <3>2. e + k <= (l + 1) + 1
      BY <3>1
    <3> QED
      BY <2>6, <2>7, <3>2 DEF l, e
  <2>10. OnVerify'
    BY <1>4, <2>1, <2>4, <2>6, <2>7, <2>9 DEF OnVerify, At
  <2> QED
    BY <2>10 DEF Alone
<1> QED
  BY <1>1, <1>2, <1>3, <1>4 DEF Alone

LEMMA AloneStep == Typed /\ Alone /\ [Next]_vars => Alone'
<1> SUFFICES ASSUME Typed, Alone, [Next]_vars PROVE Alone'
  OBVIOUS
<1>1. CASE UNCHANGED vars
  BY <1>1 DEF vars, history, Alone, Single, OnVerify, Fits, At, Debt, Owes, OwesTwo
<1>2. CASE NoMicrotask /\ (Forgot \/ SheetButton \/ Back \/ Proceed)
  BY <1>2, AloneNavigation
<1>3. ASSUME NEW c \in Call,
             \/ Return(c) \/ Check(c) \/ Entered(c)
             \/ /\ NoMicrotask
                /\ \/ \E p \in Page : Ask(c, p)
                   \/ Resend(c) \/ EnterCode(c) \/ Toasted(c) \/ Delayed(c)
                   \/ Kept(c) \/ Answered(c) \/ Unanswered(c)
                   \/ ResendAnswered(c) \/ CodeAnswered(c) \/ SignUpAnswered(c)
      PROVE  Alone'
  <2>1. CASE touched
    <3>1. touched' = touched
      BY <1>3 DEF Return, Check, Entered, Ask, Resend, EnterCode, Toasted, Delayed,
         Kept, Answered, Unanswered, ResendAnswered, CodeAnswered, SignUpAnswered,
         history
    <3> QED
      BY <2>1, <3>1 DEF Alone
  <2>2. CASE Single
    <3>1. ~(\/ Return(c) \/ Entered(c) \/ EnterCode(c) \/ Kept(c)
            \/ CodeAnswered(c) \/ SignUpAnswered(c))
      <4>1. ~EnterCode(c)
        BY <2>2 DEF EnterCode, Verifies, On, Single
      <4> QED
        BY <2>2, <4>1 DEF Single, Return, Returned, Entered, Kept, CodeAnswered,
           SignUpAnswered, At
    <3>2. CASE \/ NoMicrotask /\ (Resend(c) \/ \E p \in Page : Ask(c, p))
               \/ Answered(c) \/ Toasted(c) \/ Unanswered(c)
      BY <2>2, <3>2, SingleStep DEF Alone
    <3>3. CASE ResendAnswered(c)
      BY <2>2, <3>3, SingleStep, SingleOpens DEF ResendAnswered, Alone
    <3>4. CASE Check(c) \/ Delayed(c)
      BY <2>2, <3>4, SingleCheck DEF Alone
    <3> QED
      BY <1>3, <3>1, <3>2, <3>3, <3>4
  <2>3. CASE OnVerify
    <3>1. ~(\/ Check(c) \/ Toasted(c) \/ Delayed(c) \/ Answered(c))
      BY <2>3 DEF OnVerify, Check, Toasted, Delayed, Answered, At
    <3>2. ~(\E p \in Page : Ask(c, p))
      <4>1. Top(nav) \in Beyond
        BY <2>3, AboveTop DEF OnVerify, Typed
      <4> QED
        BY <4>1, BeyondNames DEF Ask
    <3> QED
      BY <1>3, <2>3, <3>1, <3>2, VerifyStep DEF Alone
  <2> QED
    BY <2>1, <2>2, <2>3 DEF Alone
<1> QED
  BY <1>1, <1>2, <1>3, Steps

LEMMA AlwaysAlone == Spec => []Alone
<1>1. Init => Typed /\ Alone
  <2>1. ASSUME Init PROVE Alone
    <3>1. \A c \in Call : call[c].op = "idle"
      BY <2>1 DEF Init, Idle, Run
    <3>2. \A c \in Call : ~On(nav, c)
      <4>1. NavigatorAt("front") \in Navigator(AnyRoute) /\ "signIn" \in AnyRoute
        BY Names DEF NavigatorAt, Navigator, AnyRoute
      <4>2. Good(NavigatorAt("front")) /\ \A x : On(NavigatorAt("front"), x) => x = "front"
        BY <4>1 DEF Good, NavigatorAt, On, Range
      <4>3. \A x : On(nav, x) => x \in {"front", "signIn"}
        BY <2>1, <4>1, <4>2, GoodPushed DEF Init
      <4> QED
        BY <4>3, CallRoutes, Names
    <3> QED
      BY <3>1, <3>2 DEF Alone, Single, Fits, At
  <2> QED
    BY <2>1, InitiallyTyped
<1>2. (Typed /\ Alone) /\ [Next]_vars => (Typed /\ Alone)'
  BY TypedStep, AloneStep
<1> QED
  BY <1>1, <1>2, PTL DEF Spec

\* Whoever leaves the sheets alone has each taken away by its own delay, and
\* nothing else with it, whatever is resent and verified (Forgot_screen.dart
\* 275-279).
THEOREM DelayTakesSheetHolds == Spec => DelayTakesSheet
<1> DEFINE Step == \A c \in Call :
          Delayed(c) /\ ~touched /\ On(nav, call[c].page)
              => Top(nav) = SheetOf[call[c].page]
<1>1. Alone => Step
  BY DEF Alone, Single, OnVerify, Delayed, At, Fits
<1>2. Alone /\ [Next]_vars => [Step]_vars
  BY <1>1
<1> HIDE DEF Step
<1>3. Spec => [][Step]_vars
  BY <1>2, AlwaysAlone, PTL DEF Spec
<1> QED
  BY <1>3 DEF DelayTakesSheet, Step
-----------------------------------------------------------------------------
(***************************************************************************)
(* LoaderBalance.  While no answer was lost, no calls have overlapped, no  *)
(* delay took away anything but its sheet and no VerifyOtp was left that   *)
(* had asked for something, one call at most is in hand, and what it hides *)
(* next is the topmost route: its own loader.                              *)
(***************************************************************************)
Clean == ~unanswered /\ ~overlapped /\ ~mistaken /\ ~wentBack

Well(n) == Good(n) /\ n.stack[1] = "front"

\* A call that is over, or waits for its delay or for VerifyOtp to go.
AtRest(c) == call[c].op \in {"idle", "delayed", "await"}

OneInHand == \A c, d \in Call : AtRest(c) \/ AtRest(d) \/ c = d

OnTop(n) == Top(n) = Loader /\ n.dialog = Len(n.stack)
TwoOnTop(n) == OnTop(n) /\ Len(n.stack) >= 2 /\ n.stack[Len(n.stack) - 1] = Loader

UnderLoader ==
    \A c \in Call :
        /\ call[c].op \in {"asked", "toast", "resend", "verify"} => OnTop(nav)
        /\ call[c].op \in {"signUp", "kept"} => TwoOnTop(nav)

Balanced == Loaders(nav) = Debt + verified

\* No VerifyOtp, and nobody who waits for one.
Closed ==
    /\ ~tried
    /\ \A c \in Call :
          /\ ~On(nav, c)
          /\ call[c].op \notin {"await", "verify", "signUp", "kept", "entered"}

\* It was left, and the loader of its resend is on top.
Left ==
    /\ ~tried /\ OnTop(nav)
    /\ \A c \in Call : ~On(nav, c) /\ AtRest(c)
    /\ \E c \in Call : At(c, "await") /\ \A d \in Call : At(d, "await") => d = c

\* One VerifyOtp, over that loader.
Lone(n, k) ==
    /\ Above(n, k) /\ k >= 2 /\ n.stack[k - 1] = Loader
    /\ \A i \in 1..Len(n.stack) : i # k => n.stack[i] \notin Call

\* Until it asks for something it is on top.
Open(k) ==
    /\ Lone(nav, k)
    /\ At(nav.stack[k], "await")
    /\ \A d \in Call : At(d, "await") => d = nav.stack[k]
    /\ \A d \in Call : call[d].op \notin {"asked", "toast", "check"}
    /\ ~tried => /\ k = Len(nav.stack) /\ nav.dialog = k - 1
                 /\ \A d \in Call : AtRest(d)
    /\ Top(nav) \in Call => nav.current \in Call
    /\ \A d \in Call : At(d, "resend") => nav.current \in Call

Orderly == Well(nav) /\ OneInHand /\ UnderLoader /\ Balanced

Lined ==
    /\ Orderly
    /\ Closed \/ Left \/ \E k \in 1..Len(nav.stack) : Open(k)

CInv == Clean => Lined
-----------------------------------------------------------------------------
\* A route more on top.
LEMMA WellPushed ==
    ASSUME NEW n, Well(n), NEW r \in AnyRoute
    PROVE  /\ Well(Pushed(n, r)) /\ Top(Pushed(n, r)) = r
           /\ Len(n.stack) \in Nat
           /\ Len(Pushed(n, r).stack) = Len(n.stack) + 1
           /\ Pushed(n, r).stack = Append(n.stack, r)
           /\ \A i \in 1..Len(n.stack) : Pushed(n, r).stack[i] = n.stack[i]
           /\ Pushed(n, r).dialog = n.dialog
           /\ IsPage(r) => Pushed(n, r).current = r
           /\ \A x : On(Pushed(n, r), x) <=> On(n, x) \/ x = r
           /\ r # Loader => Loaders(Pushed(n, r)) = Loaders(n)
<1>1. /\ n \in Navigator(AnyRoute) /\ Len(n.stack) \in Nat /\ Len(n.stack) >= 1
      /\ n.stack[1] = "front"
  BY DEF Well, Good, Navigator
<1>2. /\ Pushed(n, r) \in Navigator(AnyRoute)
      /\ Pushed(n, r).stack = Append(n.stack, r)
      /\ Len(Pushed(n, r).stack) = Len(n.stack) + 1
      /\ Top(Pushed(n, r)) = r
      /\ \A i \in 1..Len(n.stack) : Pushed(n, r).stack[i] = n.stack[i]
      /\ \A x : On(Pushed(n, r), x) <=> On(n, x) \/ x = r
  BY <1>1, PushedFacts
<1>3. r # Loader => Loaders(Pushed(n, r)) = Loaders(n)
  BY <1>1, <1>2, LoadersAppend
<1>4. Pushed(n, r).dialog = n.dialog /\ (IsPage(r) => Pushed(n, r).current = r)
  BY <1>1 DEF Pushed, Navigator
<1>5. Well(Pushed(n, r))
  BY <1>1, <1>2 DEF Well, Good
<1> QED
  BY <1>1, <1>2, <1>3, <1>4, <1>5

LEMMA WellWithLoader ==
    ASSUME NEW n, Well(n)
    PROVE  /\ Well(WithLoader(n)) /\ OnTop(WithLoader(n))
           /\ Len(n.stack) \in Nat /\ Len(WithLoader(n).stack) = Len(n.stack) + 1
           /\ WithLoader(n).stack = Append(n.stack, Loader)
           /\ WithLoader(n).current = n.current
           /\ \A i \in 1..Len(n.stack) : WithLoader(n).stack[i] = n.stack[i]
           /\ \A x : On(WithLoader(n), x) => On(n, x) \/ x = Loader
           /\ Loaders(n) \in Nat /\ Loaders(WithLoader(n)) = Loaders(n) + 1
<1>1. /\ n \in Navigator(AnyRoute) /\ Len(n.stack) \in Nat /\ Len(n.stack) >= 1
      /\ n.stack[1] = "front" /\ Loader \in AnyRoute
  BY Names DEF Well, Good, Navigator, AnyRoute
<1>2. /\ WithLoader(n) \in Navigator(AnyRoute)
      /\ WithLoader(n).stack = Append(n.stack, Loader)
      /\ Len(WithLoader(n).stack) = Len(n.stack) + 1
      /\ \A i \in 1..Len(n.stack) : WithLoader(n).stack[i] = n.stack[i]
      /\ \A x : On(WithLoader(n), x) <=> On(n, x) \/ x = Loader
  BY <1>1, WithLoaderFacts
<1>3. Loaders(n) \in Nat /\ Loaders(WithLoader(n)) = Loaders(n) + 1
  BY <1>1, <1>2, LoadersAppend
<1>4. /\ WithLoader(n).dialog = Len(n.stack) + 1
      /\ WithLoader(n).current = n.current
  <2>1. Pushed(n, Loader) \in Navigator(AnyRoute)
    BY <1>1, PushedFacts
  <2>2. ~IsPage(Loader)
    BY ResetAssumption DEF ResetAssumption, IsPage
  <2>3. Pushed(n, Loader).current = n.current
    BY <1>1, <2>2 DEF Pushed, Navigator
  <2>4. /\ WithLoader(n).current = Pushed(n, Loader).current
        /\ WithLoader(n).dialog = Len(n.stack) + 1
    BY <2>1 DEF WithLoader, Navigator
  <2> QED
    BY <2>3, <2>4
<1>5. Top(WithLoader(n)) = Loader
  BY <1>1, GoodWithLoader DEF Well
<1>6. Well(WithLoader(n))
  BY <1>1, <1>2 DEF Well, Good
<1> QED
  BY <1>1, <1>2, <1>3, <1>4, <1>5, <1>6 DEF OnTop

\* A route less: not the front one.
LEMMA WellTaken ==
    ASSUME NEW n, Well(n), Top(n) # "front" \/ Len(n.stack) > 2
    PROVE  /\ Len(n.stack) \in Nat /\ Len(n.stack) >= 2
           /\ Well(Taken(n)) /\ Taken(n) = Popped(n)
           /\ Len(Taken(n).stack) = Len(n.stack) - 1
           /\ \A i \in 1..(Len(n.stack) - 1) : Taken(n).stack[i] = n.stack[i]
           /\ n.dialog # Len(n.stack) => Taken(n).dialog = n.dialog
           /\ \A x : On(Taken(n), x) => On(n, x)
           /\ Top(Taken(n)) \in Call => Taken(n).current \in Call
           /\ Loaders(n) \in Nat /\ Loaders(Taken(n)) \in Nat
           /\ Loaders(n) = Loaders(Taken(n)) + (IF Top(n) = Loader THEN 1 ELSE 0)
<1>1. /\ n \in Navigator(AnyRoute) /\ Len(n.stack) \in Nat /\ Len(n.stack) >= 1
      /\ n.stack[1] = "front" /\ n.stack \in Seq(AnyRoute)
  BY DEF Well, Good, Navigator
<1>2. Len(n.stack) >= 2 /\ Len(n.stack) > 1
  <2>1. Len(n.stack) # 1
    <3>1. CASE Top(n) # "front"
      BY <1>1, <3>1 DEF Top
    <3>2. CASE Len(n.stack) > 2
      <4>1. \A l \in Nat : l > 2 => l # 1
        OBVIOUS
      <4> QED
        BY <1>1, <3>2, <4>1
    <3> QED
      BY <3>1, <3>2, Zenon
  <2>2. \A l \in Nat : l >= 1 /\ l # 1 => l >= 2 /\ l > 1
    OBVIOUS
  <2> QED
    BY <1>1, <2>1, <2>2
<1>3. /\ Popped(n) \in Navigator(AnyRoute)
      /\ Len(Popped(n).stack) = Len(n.stack) - 1
      /\ \A i \in 1..(Len(n.stack) - 1) : Popped(n).stack[i] = n.stack[i]
      /\ n.stack = Append(Popped(n).stack, Top(n))
      /\ \A x : On(Popped(n), x) => On(n, x)
  BY <1>1, <1>2, PoppedFacts
<1>4. Top(n) \in AnyRoute
  BY <1>1 DEF Top
<1>5. /\ Loaders(n) \in Nat /\ Loaders(Popped(n)) \in Nat
      /\ Loaders(n) = Loaders(Popped(n)) + (IF Top(n) = Loader THEN 1 ELSE 0)
  BY <1>1, <1>3, <1>4, LoadersAppend
<1>6. n.dialog # Len(n.stack) => Popped(n).dialog = n.dialog
  BY DEF Popped
<1>7. Well(Popped(n)) /\ Taken(n) = Popped(n)
  BY <1>1, <1>2, <1>3 DEF Well, Good, Taken
<1>8. Top(Popped(n)) \in Call => Popped(n).current \in Call
  <2>1. Top(Popped(n)) = Last(Front(n.stack))
    BY DEF Popped, Top, Last
  <2>2. IsPage(Last(Front(n.stack))) => Popped(n).current = Last(Front(n.stack))
    BY DEF Popped
  <2> QED
    BY <2>1, <2>2, CallRoutes
<1> QED
  BY <1>1, <1>2, <1>3, <1>5, <1>6, <1>7, <1>8

LEMMA WellOpened ==
    ASSUME NEW n, Well(n), NEW r \in AnyRoute, r # Loader
    PROVE  /\ Well(Opened(n, r)) /\ Loaders(Opened(n, r)) = Loaders(n)
           /\ \A x : On(Opened(n, r), x) => On(n, x) \/ x = r
BY WellPushed DEF Opened

\* Over the one VerifyOtp routes come and go.
LEMMA LonePushed ==
    ASSUME NEW n, Well(n), NEW k, Lone(n, k), NEW m, Well(m),
           NEW r \in {Loader, SignUpSheet, "scan"}, m.stack = Append(n.stack, r)
    PROVE  Lone(m, k) /\ m.stack[k] = n.stack[k] /\ k \in 1..Len(m.stack)
<1>1. r \in Beyond /\ r \notin Call
  <2>1. r \in Route
    BY Names
  <2> QED
    BY <2>1, CallRoutes DEF Beyond
<1>2. /\ Above(m, k) /\ m.stack[k] = n.stack[k]
      /\ Len(n.stack) \in Nat /\ Len(m.stack) = Len(n.stack) + 1
  BY <1>1, AbovePushed DEF Well, Lone
<1>3. /\ k \in 1..Len(n.stack) /\ k \in Nat /\ k >= 2
  BY <1>2 DEF Lone, Above
<1>4. /\ m.stack[Len(n.stack) + 1] = r
      /\ \A i \in 1..Len(n.stack) : m.stack[i] = n.stack[i]
  <2>1. n.stack \in Seq(AnyRoute) /\ r \in AnyRoute
    BY <1>1, BeyondNames DEF Well, Good, Navigator
  <2> QED
    BY <2>1, AppendProperties
<1>5. m.stack[k - 1] = n.stack[k - 1]
  <2>1. k - 1 \in 1..Len(n.stack)
    BY <1>2, <1>3
  <2> QED
    BY <1>4, <2>1
<1>6. ASSUME NEW i \in 1..Len(m.stack), i # k PROVE m.stack[i] \notin Call
  <2>1. i \in 1..Len(n.stack) \/ i = Len(n.stack) + 1
    BY <1>2
  <2> QED
    BY <1>1, <1>4, <1>6, <2>1 DEF Lone
<1> QED
  BY <1>2, <1>3, <1>5, <1>6 DEF Lone, Above

LEMMA LoneTaken ==
    ASSUME NEW n, Well(n), NEW k, Lone(n, k), k < Len(n.stack)
    PROVE  /\ Lone(Taken(n), k) /\ Taken(n).stack[k] = n.stack[k]
           /\ k \in 1..Len(Taken(n).stack)
<1>1. /\ Above(Taken(n), k) /\ Taken(n).stack[k] = n.stack[k]
      /\ Len(n.stack) \in Nat /\ Len(Taken(n).stack) = Len(n.stack) - 1
  BY AboveTaken DEF Well, Lone
<1>2. k \in 1..Len(n.stack) /\ k \in Nat /\ k >= 2
  BY <1>1 DEF Lone, Above
<1>3. Len(n.stack) > 2
  BY <1>1, <1>2
<1>4. \A i \in 1..(Len(n.stack) - 1) : Taken(n).stack[i] = n.stack[i]
  BY <1>3, WellTaken
<1>5. Taken(n).stack[k - 1] = n.stack[k - 1]
  <2>1. k - 1 \in 1..(Len(n.stack) - 1)
    BY <1>1, <1>2
  <2> QED
    BY <1>4, <2>1
<1>6. ASSUME NEW i \in 1..Len(Taken(n).stack), i # k
      PROVE  Taken(n).stack[i] \notin Call
  <2>1. i \in 1..(Len(n.stack) - 1) /\ i \in 1..Len(n.stack)
    BY <1>1
  <2> QED
    BY <1>4, <1>6, <2>1 DEF Lone
<1> QED
  BY <1>1, <1>2, <1>5, <1>6 DEF Lone, Above
-----------------------------------------------------------------------------
\* Loaders and debts stay equal if a step of one call changes them by the same.
LEMMA StaysBalanced ==
    ASSUME Typed, Balanced, Well(nav), Well(nav'), NEW c \in Call,
           call' \in [Call -> CallState], \A d \in Call \ {c} : call'[d] = call[d],
           verified' \in Nat,
           Loaders(nav') + Due(call[c]) + verified
               = Loaders(nav) + Due(call'[c]) + verified'
    PROVE  Balanced'
<1>1. /\ Debt \in Nat /\ Debt' \in Nat
      /\ Due(call[c]) \in Nat /\ Due(call'[c]) \in Nat
      /\ Debt' + Due(call[c]) = Debt + Due(call'[c])
  <2>1. Due(call[c]) \in {0, 1, 2} /\ Due(call'[c]) \in {0, 1, 2}
    BY DebtChanges
  <2> QED
    BY <2>1, DebtChanges
<1>2. /\ Loaders(nav) \in Nat /\ Loaders(nav') \in Nat /\ verified \in Nat
      /\ Loaders(nav) = Debt + verified
  BY WellWithLoader DEF Typed, Balanced
<1> DEFINE d1 == Due(call[c])
           d2 == Due(call'[c])
           e1 == Debt
           e2 == Debt'
           l1 == Loaders(nav)
           l2 == Loaders(nav')
           v1 == verified
           v2 == verified'
<1>3. /\ d1 \in Nat /\ d2 \in Nat /\ e1 \in Nat /\ e2 \in Nat
      /\ l1 \in Nat /\ l2 \in Nat /\ v1 \in Nat /\ v2 \in Nat
      /\ e2 + d1 = e1 + d2 /\ l1 = e1 + v1 /\ l2 + d1 + v1 = l1 + d2 + v2
  BY <1>1, <1>2
<1> HIDE DEF d1, d2, e1, e2, l1, l2, v1, v2
<1>4. l2 = e2 + v2
  BY <1>3
<1> QED
  BY <1>4 DEF e2, l2, v2, Balanced

\* hideLoader with its dialog on top takes it, and the one below it.
LEMMA HidesOf ==
    ASSUME Typed, Well(nav), NEW c \in Call, NEW n \in {1, 2},
           NEW op \in {"idle", "check", "entered"}, Hides(c, n, op),
           OnTop(nav), n = 2 => TwoOnTop(nav)
    PROVE  /\ Well(nav') /\ Loaders(nav) = Loaders(nav') + n
           /\ Loaders(nav) \in Nat /\ Loaders(nav') \in Nat
           /\ \A x : On(nav', x) => On(nav, x)
           /\ nav' = IF n = 1 THEN Taken(nav) ELSE Taken(Taken(nav))
           /\ call' \in [Call -> CallState] /\ call'[c].op = op
           /\ \A d \in Call \ {c} : call'[d] = call[d]
           /\ Top(nav') \in Call => nav'.current \in Call
<1>1. Top(nav) = Loader /\ Top(nav) # "front" /\ nav.dialog = Len(nav.stack)
  BY OtherNames DEF OnTop
<1>2. /\ Well(Taken(nav)) /\ Len(nav.stack) \in Nat /\ Len(nav.stack) >= 2
      /\ Len(Taken(nav).stack) = Len(nav.stack) - 1
      /\ \A i \in 1..(Len(nav.stack) - 1) : Taken(nav).stack[i] = nav.stack[i]
      /\ \A x : On(Taken(nav), x) => On(nav, x)
      /\ Loaders(nav) \in Nat /\ Loaders(Taken(nav)) \in Nat
      /\ Loaders(nav) = Loaders(Taken(nav)) + 1
      /\ Top(Taken(nav)) \in Call => Taken(nav).current \in Call
  BY <1>1, WellTaken
<1>3. nav' = IF n = 1 THEN Taken(nav) ELSE Taken(Taken(nav))
  <2>1. nav.dialog # 0
    BY <1>1, <1>2
  <2>2. HideOutcomes(nav) = {TRUE}
    BY <2>1 DEF HideOutcomes
  <2> QED
    BY <2>2 DEF Hides
<1>4. IF op = "idle" THEN Ends(c) ELSE Goes(c, op)
  <2>1. nav.dialog # 0
    BY <1>1, <1>2
  <2>2. HideOutcomes(nav) = {TRUE}
    BY <2>1 DEF HideOutcomes
  <2> QED
    BY <2>2 DEF Hides
<1>5. /\ call' \in [Call -> CallState] /\ call'[c].op = op
      /\ \A d \in Call \ {c} : call'[d] = call[d]
  <2>1. op \in Ops
    BY DEF Ops
  <2> QED
    BY <1>4, <2>1, CallGoes, CallEnds
<1>6. CASE n = 1
  BY <1>2, <1>3, <1>5, <1>6
<1>7. CASE n = 2
  <2>1. nav.stack[Len(nav.stack) - 1] = Loader
    BY <1>7 DEF TwoOnTop
  <2>2. Top(Taken(nav)) = Loader
    <3>1. Len(nav.stack) - 1 \in 1..(Len(nav.stack) - 1)
      BY <1>2
    <3> QED
      BY <1>2, <2>1, <3>1 DEF Top
  <2>3. /\ Well(Taken(Taken(nav)))
        /\ \A x : On(Taken(Taken(nav)), x) => On(Taken(nav), x)
        /\ Loaders(Taken(Taken(nav))) \in Nat
        /\ Loaders(Taken(nav)) = Loaders(Taken(Taken(nav))) + 1
        /\ Top(Taken(Taken(nav))) \in Call => Taken(Taken(nav)).current \in Call
    BY <1>2, <2>2, OtherNames, WellTaken
  <2>4. nav' = Taken(Taken(nav)) /\ \A x : On(nav', x) => On(nav, x)
    BY <1>2, <1>3, <1>7, <2>3
  <2>5. Loaders(nav) = Loaders(nav') + 2
    BY <1>2, <2>3, <2>4
  <2> QED
    BY <1>2, <1>3, <1>5, <1>7, <2>3, <2>4, <2>5
<1> QED
  BY <1>6, <1>7

\* Under a screen or a sheet no call is in hand.
LEMMA NoneInHand ==
    ASSUME Typed, Orderly, NoMicrotask, Top(nav) # Loader
    PROVE  \A d \in Call : AtRest(d)
<1> SUFFICES ASSUME NEW d \in Call PROVE AtRest(d)
  OBVIOUS
<1>1. call[d].op \notin {"asked", "toast", "resend", "verify", "signUp", "kept"}
  BY DEF Orderly, UnderLoader, OnTop, TwoOnTop
<1>2. call[d].op \notin {"check", "entered"}
  BY DEF NoMicrotask, At
<1> QED
  BY <1>1, <1>2 DEF Typed, CallState, Ops, AtRest

\* What else is in hand than one call.
LEMMA InHand ==
    ASSUME Orderly, NEW c \in Call, ~AtRest(c)
    PROVE  \A d \in Call \ {c} : AtRest(d)
BY DEF Orderly, OneInHand

\* One call takes a step, and is the one in hand.
LEMMA OrderlyKept ==
    ASSUME NEW c \in Call, \A d \in Call \ {c} : call'[d] = call[d],
           \A d \in Call \ {c} : AtRest(d), Well(nav'), Balanced',
           call'[c].op \in {"asked", "toast", "resend", "verify"} => OnTop(nav'),
           call'[c].op \in {"signUp", "kept"} => TwoOnTop(nav')
    PROVE  Orderly'
<1>1. \A d \in Call \ {c} : call'[d].op \in {"idle", "delayed", "await"}
  BY DEF AtRest
<1>2. OneInHand'
  BY <1>1 DEF OneInHand, AtRest
<1>3. UnderLoader'
  <2> SUFFICES ASSUME NEW d \in Call
               PROVE  /\ call'[d].op \in {"asked", "toast", "resend", "verify"}
                            => OnTop(nav')
                      /\ call'[d].op \in {"signUp", "kept"} => TwoOnTop(nav')
    BY DEF UnderLoader
  <2> QED
    BY <1>1
<1> QED
  BY <1>2, <1>3 DEF Orderly

\* Without a VerifyOtp it leaves none.
LEMMA ClosedKept ==
    ASSUME Closed, NEW c \in Call, \A d \in Call \ {c} : call'[d] = call[d],
           Orderly', ~tried', \A d \in Call : ~On(nav', d),
           call'[c].op \notin {"await", "verify", "signUp", "kept", "entered"}
    PROVE  Lined'
<1>1. \A d \in Call :
          call'[d].op \notin {"await", "verify", "signUp", "kept", "entered"}
  BY DEF Closed
<1>2. Closed'
  BY <1>1 DEF Closed
<1> QED
  BY <1>2 DEF Lined

\* What is asked for.
LEMMA ClosedStarts ==
    ASSUME Typed, Orderly, Closed, NEW c \in Call, ~overlapped',
           Resend(c) \/ \E p \in Page : Ask(c, p)
    PROVE  Lined'
<1>1. PICK rec \in CallState : Start(c, rec) /\ rec.op \in {"asked", "resend"}
  BY Records
<1>2. /\ call' \in [Call -> CallState] /\ call'[c] = rec
      /\ \A d \in Call \ {c} : call'[d] = call[d]
      /\ nav' = WithLoader(nav)
  BY <1>1, Started
<1>3. /\ Well(nav) /\ Well(nav') /\ OnTop(nav')
      /\ \A x : On(nav', x) => On(nav, x) \/ x = Loader
      /\ Loaders(nav) \in Nat /\ Loaders(nav') = Loaders(nav) + 1
  BY <1>2, WellWithLoader DEF Orderly
<1>4. \A d \in Call : AtRest(d)
  <2>1. Busy = {}
    BY <1>1 DEF Start
  <2> QED
    BY <2>1 DEF Busy, AtRest
<1>5. verified' = verified /\ verified \in Nat /\ ~tried'
  <2>1. ~(Top(nav) \in Call)
    BY TopIsOn DEF Closed, Typed
  <2> QED
    BY <2>1 DEF Resend, Ask, Typed, Closed
<1>6. Due(call[c]) = 0 /\ Due(call'[c]) = 1
  BY <1>1, <1>2 DEF Start, At, Due
<1>7. Balanced'
  <2>1. Loaders(nav') + Due(call[c]) + verified
            = Loaders(nav) + Due(call'[c]) + verified'
    BY <1>3, <1>5, <1>6
  <2> QED
    BY <1>2, <1>3, <1>5, <2>1, StaysBalanced DEF Orderly
<1>8. \A d \in Call : ~On(nav', d)
  BY <1>3, CallRoutes, Names DEF Closed
<1>9. Orderly'
  BY <1>1, <1>2, <1>3, <1>4, <1>7, OrderlyKept
<1> QED
  BY <1>1, <1>2, <1>5, <1>8, <1>9, ClosedKept

\* Answers, and what follows them.
LEMMA ClosedAnswers ==
    ASSUME Typed, Typed', Orderly, Closed, NEW c \in Call,
           \/ Answered(c) \/ Toasted(c)
           \/ ResendAnswered(c) /\ Hides(c, 1, "idle")
    PROVE  Lined'
<1>1. /\ Well(nav) /\ Balanced /\ verified \in Nat /\ verified' \in Nat
      /\ call[c].op \in {"asked", "toast", "resend"} /\ call[c].page \in Page
      /\ ~tried' /\ call' \in [Call -> CallState]
  BY DEF Orderly, Typed, CallState, Answered, Toasted, ResendAnswered, At, history,
         Closed
<1>2. OnTop(nav) /\ \A d \in Call \ {c} : AtRest(d)
  BY <1>1, InHand DEF Orderly, UnderLoader, AtRest
<1>4. Loaders(nav) \in Nat
  BY <1>1, WellWithLoader
<1>5. CASE \E op \in {"idle", "check"} :
              /\ Hides(c, 1, op) /\ verified' = verified /\ Due(call[c]) = 1
  <2>1. PICK op \in {"idle", "check"} :
            /\ Hides(c, 1, op) /\ verified' = verified /\ Due(call[c]) = 1
    BY <1>5
  <2>2. /\ Well(nav') /\ Loaders(nav) = Loaders(nav') + 1 /\ Loaders(nav') \in Nat
        /\ \A x : On(nav', x) => On(nav, x)
        /\ call'[c].op = op /\ \A d \in Call \ {c} : call'[d] = call[d]
    BY <1>1, <1>2, <2>1, HidesOf
  <2>3. Due(call'[c]) = 0
    BY <2>2 DEF Due
  <2>4. Loaders(nav') + Due(call[c]) + verified
            = Loaders(nav) + Due(call'[c]) + verified'
    BY <1>1, <1>4, <2>1, <2>2, <2>3
  <2>5. Balanced'
    BY <1>1, <2>2, <2>4, StaysBalanced
  <2>6. Orderly'
    BY <1>2, <2>2, <2>5, OrderlyKept
  <2> QED
    BY <1>1, <2>2, <2>6, ClosedKept DEF Closed
<1>6. CASE /\ nav' = nav /\ \E op \in {"toast", "check"} : Goes(c, op)
           /\ Due(call[c]) + verified = Due(call'[c]) + verified'
  <2>1. PICK op \in {"toast", "check"} : Goes(c, op)
    BY <1>6
  <2>2. call'[c].op = op /\ \A d \in Call \ {c} : call'[d] = call[d]
    BY <2>1, CallGoes DEF Ops
  <2>3. Due(call[c]) \in {0, 1, 2} /\ Due(call'[c]) \in {0, 1, 2}
    BY DEF Due
  <2>4. Loaders(nav') + Due(call[c]) + verified
            = Loaders(nav) + Due(call'[c]) + verified'
    <3> DEFINE d1 == Due(call[c])
               d2 == Due(call'[c])
               l == Loaders(nav)
    <3>1. /\ d1 \in Nat /\ d2 \in Nat /\ l \in Nat
          /\ d1 + verified = d2 + verified' /\ Loaders(nav') = l
      BY <1>4, <1>6, <2>3
    <3> HIDE DEF d1, d2, l
    <3>2. l + d1 + verified = l + d2 + verified'
      BY <1>1, <3>1
    <3> QED
      BY <3>1, <3>2 DEF d1, d2, l
  <2>5. Balanced'
    BY <1>1, <1>6, <2>2, <2>4, StaysBalanced
  <2>6. Orderly'
    BY <1>1, <1>2, <1>6, <2>2, <2>5, OrderlyKept
  <2> QED
    BY <1>1, <1>6, <2>2, <2>6, ClosedKept DEF Closed
<1>7. CASE Answered(c)
  <2>1. Due(call[c]) = 1 /\ call[c].op = "asked"
    BY <1>7 DEF Answered, At, Due
  <2>2. CASE Refused(c) /\ verified' = verified
    BY <1>1, <1>5, <2>1, <2>2 DEF Refused
  <2>3. CASE /\ verified' = verified + (IF call[c].page = "otp" THEN 1 ELSE 0)
             /\ IF call[c].page = "reset" THEN Hides(c, 1, "check")
                                          ELSE Goes(c, "toast") /\ UNCHANGED nav
    <3>1. CASE call[c].page = "reset"
      <4>1. verified' = verified /\ Hides(c, 1, "check")
        BY <1>1, <2>3, <3>1
      <4> QED
        BY <1>1, <1>5, <2>1, <4>1
    <3>2. CASE call[c].page # "reset"
      <4>1. Goes(c, "toast") /\ nav' = nav
        BY <2>3, <3>2
      <4>2. call'[c].op = "toast" /\ call'[c].page = call[c].page
        BY <4>1, CallGoes DEF Ops
      <4>3. Due(call[c]) + verified = Due(call'[c]) + verified'
        BY <1>1, <2>1, <2>3, <4>2 DEF Due
      <4> QED
        BY <1>6, <4>1, <4>3
    <3> QED
      BY <3>1, <3>2
  <2> QED
    BY <1>7, <2>2, <2>3 DEF Answered
<1>8. CASE Toasted(c)
  <2>1. verified' = verified /\ call[c].op = "toast"
    BY <1>8 DEF Toasted, At, history
  <2>2. CASE call[c].page = "otp"
    <3>1. Goes(c, "check") /\ nav' = nav
      BY <1>8, <2>2 DEF Toasted
    <3>2. Due(call[c]) = 0 /\ Due(call'[c]) = 0
      BY <2>1, <2>2, <3>1, CallGoes DEF Due, Ops
    <3> QED
      BY <1>6, <2>1, <3>1, <3>2
  <2>3. CASE call[c].page # "otp"
    <3>1. Hides(c, 1, "check") /\ Due(call[c]) = 1
      BY <1>8, <2>1, <2>3 DEF Toasted, Due
    <3> QED
      BY <1>1, <1>5, <2>1, <3>1
  <2> QED
    BY <2>2, <2>3
<1>9. CASE ResendAnswered(c) /\ Hides(c, 1, "idle")
  <2>1. verified' = verified /\ Due(call[c]) = 1
    BY <1>9 DEF ResendAnswered, At, history, Due
  <2> QED
    BY <1>1, <1>5, <1>9, <2>1
<1> QED
  BY <1>7, <1>8, <1>9

LEMMA ClosedChecks ==
    ASSUME Typed, Typed', Orderly, Closed, NEW c \in Call,
           Check(c) \/ (NoMicrotask /\ Delayed(c) /\ ~mistaken')
    PROVE  Lined'
<1>1. /\ Well(nav) /\ Balanced /\ verified \in Nat /\ verified' = verified
      /\ call[c].op \in {"check", "delayed"} /\ call[c].page \in Page
      /\ ~tried' /\ call' \in [Call -> CallState] /\ Loaders(nav) \in Nat
  BY WellWithLoader DEF Orderly, Typed, CallState, Check, Delayed, At, history,
     Closed
<1>2. /\ call'[c].op \in {"idle", "delayed"}
      /\ \A d \in Call \ {c} : call'[d] = call[d]
  BY CallGoes, CallEnds DEF Check, Delayed, Ops
<1>3. Due(call[c]) = 0 /\ Due(call'[c]) = 0
  BY <1>1, <1>2 DEF Due
<1>4. ASSUME Well(nav'), Loaders(nav') = Loaders(nav), \A d \in Call : ~On(nav', d),
             \A d \in Call \ {c} : AtRest(d)
      PROVE  Lined'
  <2>1. Loaders(nav') + Due(call[c]) + verified
            = Loaders(nav) + Due(call'[c]) + verified'
    BY <1>1, <1>3, <1>4
  <2>2. Balanced'
    BY <1>1, <1>2, <1>4, <2>1, StaysBalanced
  <2>3. Orderly'
    BY <1>2, <1>4, <2>2, OrderlyKept
  <2> QED
    BY <1>1, <1>2, <1>4, <2>3, ClosedKept
<1>5. /\ \A d \in Call : ~On(nav, d)
      /\ \A p \in Page : /\ SheetOf[p] \in AnyRoute /\ SheetOf[p] # Loader
                         /\ NextPage[p] \in AnyRoute /\ NextPage[p] # Loader
                         /\ \A d \in Call : d # SheetOf[p] /\ d # NextPage[p]
                         /\ SheetOf[p] # "front"
  BY Names, OtherNames, CallRoutes DEF Closed, AnyRoute
<1>6. CASE Check(c)
  <2>1. \A d \in Call \ {c} : AtRest(d)
    BY <1>6, InHand DEF AtRest, Check, At
  <2>2. nav' = nav \/ nav' = Pushed(nav, SheetOf[call[c].page])
    BY <1>6 DEF Check, WithSheet
  <2>3. Well(nav') /\ Loaders(nav') = Loaders(nav) /\ \A d \in Call : ~On(nav', d)
    BY <1>1, <1>5, <2>2, WellPushed
  <2> QED
    BY <1>4, <2>1, <2>3
<1>7. CASE NoMicrotask /\ Delayed(c) /\ ~mistaken' /\ On(nav, call[c].page)
  <2>1. Top(nav) = SheetOf[call[c].page]
    BY <1>7 DEF Delayed
  <2>2. \A d \in Call : AtRest(d)
    BY <1>1, <1>5, <1>7, <2>1, NoneInHand
  <2>3. /\ Well(Taken(nav)) /\ Loaders(Taken(nav)) = Loaders(nav)
        /\ \A d \in Call : ~On(Taken(nav), d)
    <3>1. Top(nav) # "front" /\ Top(nav) # Loader
      BY <1>1, <1>5, <2>1
    <3>2. /\ Well(Taken(nav)) /\ Loaders(Taken(nav)) \in Nat
          /\ Loaders(nav) = Loaders(Taken(nav)) + 0
          /\ \A x : On(Taken(nav), x) => On(nav, x)
      BY <1>1, <3>1, WellTaken
    <3> QED
      BY <1>1, <1>5, <3>2
  <2>4. nav' = Opened(Taken(nav), NextPage[call[c].page])
    BY <1>7 DEF Delayed, LeadsOn
  <2>5. Well(nav') /\ Loaders(nav') = Loaders(nav) /\ \A d \in Call : ~On(nav', d)
    BY <1>1, <1>5, <2>3, <2>4, WellOpened
  <2> QED
    BY <1>4, <2>2, <2>5
<1>8. CASE NoMicrotask /\ Delayed(c) /\ ~mistaken' /\ ~On(nav, call[c].page)
  <2>1. nav' = nav
    BY <1>8 DEF Delayed
  <2>2. Balanced'
    <3>1. Loaders(nav') + Due(call[c]) + verified
              = Loaders(nav) + Due(call'[c]) + verified'
      BY <1>1, <1>3, <2>1
    <3> QED
      BY <1>1, <1>2, <2>1, <3>1, StaysBalanced
  <2>3. \A d \in Call : /\ AtRest(d) => AtRest(d)'
                        /\ ~AtRest(d)' => call'[d] = call[d]
    BY <1>1, <1>2 DEF AtRest
  <2>4. OneInHand'
    BY <2>3 DEF OneInHand, Orderly
  <2>5. UnderLoader'
    <3> SUFFICES ASSUME NEW d \in Call
                 PROVE  /\ call'[d].op \in {"asked", "toast", "resend", "verify"}
                              => OnTop(nav')
                        /\ call'[d].op \in {"signUp", "kept"} => TwoOnTop(nav')
      BY DEF UnderLoader
    <3>1. CASE d = c
      BY <1>2, <1>8, <3>1, CallEnds DEF Delayed
    <3>2. CASE d # c
      BY <1>2, <2>1, <3>2 DEF Orderly, UnderLoader
    <3> QED
      BY <3>1, <3>2
  <2>6. Orderly'
    BY <1>1, <2>1, <2>2, <2>4, <2>5 DEF Orderly
  <2> QED
    BY <1>1, <1>2, <1>5, <2>1, <2>6, ClosedKept
<1> QED
  BY <1>6, <1>7, <1>8 DEF Check

\* An allowed resend opens VerifyOtp over its loader.
LEMMA ClosedOpens ==
    ASSUME Typed, Orderly, Closed, NEW c \in Call, ResendAnswered(c),
           nav' = Pushed(nav, c), Goes(c, "await")
    PROVE  Lined'
<1>1. /\ Well(nav) /\ Balanced /\ verified \in Nat /\ call[c].op = "resend"
      /\ OnTop(nav) /\ verified' = verified /\ tried' = tried
  BY DEF Orderly, UnderLoader, Typed, At, ResendAnswered, history
<1>2. \A d \in Call \ {c} : AtRest(d) /\ ~On(nav, d)
  BY <1>1, InHand DEF AtRest, Closed
<1>3. /\ call' \in [Call -> CallState] /\ call'[c].op = "await"
      /\ \A d \in Call \ {c} : call'[d] = call[d]
  BY CallGoes DEF Ops
<1>4. /\ Well(nav') /\ Top(nav') = c /\ Loaders(nav') = Loaders(nav)
      /\ Len(nav.stack) \in Nat /\ Len(nav'.stack) = Len(nav.stack) + 1
      /\ \A i \in 1..Len(nav.stack) : nav'.stack[i] = nav.stack[i]
      /\ nav'.dialog = nav.dialog /\ nav'.current = c
  <2>1. c \in AnyRoute /\ c # Loader /\ IsPage(c)
    BY CallRoutes, Names
  <2> QED
    BY <1>1, <2>1, WellPushed
<1>5. Balanced'
  <2>1. Due(call[c]) = 1 /\ Due(call'[c]) = 1 /\ Loaders(nav) \in Nat
    BY <1>1, <1>3, WellWithLoader DEF Due
  <2>2. Loaders(nav') + Due(call[c]) + verified
            = Loaders(nav) + Due(call'[c]) + verified'
    BY <1>1, <1>4, <2>1
  <2> QED
    BY <1>1, <1>3, <1>4, <2>2, StaysBalanced
<1>6. Orderly'
  BY <1>2, <1>3, <1>4, <1>5, OrderlyKept
<1> DEFINE k == Len(nav.stack) + 1
<1>7. /\ k \in Nat /\ k >= 2 /\ k = Len(nav'.stack) /\ nav'.stack[k] = c
      /\ nav'.dialog = k - 1 /\ k \in 1..Len(nav'.stack)
      /\ k - 1 \in 1..Len(nav.stack) /\ nav.stack[k - 1] = Loader
  BY <1>1, <1>4 DEF Well, Good, OnTop, Top
<1>8. /\ \A i \in 1..Len(nav'.stack) : i # k => i \in 1..Len(nav.stack)
      /\ \A i \in k..Len(nav'.stack) : i = k
  BY <1>4
<1> HIDE DEF k
<1>9. \A i \in 1..Len(nav.stack) : nav.stack[i] \notin Call
  BY DEF Closed, On, Range, Well, Good, Navigator, Orderly
<1>10. Lone(nav', k)
  BY <1>4, <1>7, <1>8, <1>9 DEF Lone, Above, Beyond
<1>11. \A d \in Call : AtRest(d)' /\ (At(d, "await")' => d = c)
  BY <1>2, <1>3 DEF AtRest, At, Closed
<1>12. \A d \in Call : call'[d].op \notin {"asked", "toast", "check", "resend"}
  BY <1>11 DEF AtRest
<1>13. k = Len(nav'.stack) /\ nav'.dialog = k - 1 /\ nav'.current \in Call
  BY <1>4, <1>7
<1>14. \E q \in 1..Len(nav'.stack) :
          /\ Lone(nav', q)
          /\ call'[nav'.stack[q]].op = "await"
          /\ \A d \in Call : call'[d].op = "await" => d = nav'.stack[q]
          /\ \A d \in Call : call'[d].op \notin {"asked", "toast", "check"}
          /\ ~tried' => /\ q = Len(nav'.stack) /\ nav'.dialog = q - 1
                        /\ \A d \in Call : AtRest(d)'
          /\ Top(nav') \in Call => nav'.current \in Call
          /\ \A d \in Call : call'[d].op = "resend" => nav'.current \in Call
  BY <1>3, <1>7, <1>10, <1>11, <1>12, <1>13 DEF At
<1>15. (\E q \in 1..Len(nav.stack) : Open(q))'
  BY <1>14 DEF Open, At
<1> QED
  BY <1>6, <1>15 DEF Lined
-----------------------------------------------------------------------------
\* Over a VerifyOtp that has asked for something one call goes on.
LEMMA OpenKept ==
    ASSUME NEW k, Open(k), NEW c \in Call, c # nav.stack[k],
           \A d \in Call \ {c} : call'[d] = call[d],
           \A d \in Call \ {c} : AtRest(d), Orderly', tried',
           Lone(nav', k), nav'.stack[k] = nav.stack[k], k \in 1..Len(nav'.stack),
           call'[c].op \notin {"await", "asked", "toast", "check"},
           Top(nav') \in Call => nav'.current \in Call,
           call'[c].op = "resend" => nav'.current \in Call
    PROVE  Lined'
<1>1. nav.stack[k] \in Call \ {c}
  BY DEF Open, Lone, Above
<1>2. call'[nav'.stack[k]].op = "await"
  BY <1>1 DEF Open, At
<1>3. \A d \in Call : call'[d].op = "await" => d = nav'.stack[k]
  BY DEF Open, At
<1>4. \A d \in Call : call'[d].op \notin {"asked", "toast", "check"}
  BY DEF Open
<1>5. \A d \in Call : call'[d].op = "resend" => nav'.current \in Call
  BY DEF AtRest
<1>6. \E q \in 1..Len(nav'.stack) :
          /\ Lone(nav', q)
          /\ call'[nav'.stack[q]].op = "await"
          /\ \A d \in Call : call'[d].op = "await" => d = nav'.stack[q]
          /\ \A d \in Call : call'[d].op \notin {"asked", "toast", "check"}
          /\ ~tried' => /\ q = Len(nav'.stack) /\ nav'.dialog = q - 1
                        /\ \A d \in Call : AtRest(d)'
          /\ Top(nav') \in Call => nav'.current \in Call
          /\ \A d \in Call : call'[d].op = "resend" => nav'.current \in Call
  BY <1>2, <1>3, <1>4, <1>5
<1>7. (\E q \in 1..Len(nav.stack) : Open(q))'
  BY <1>6 DEF Open, At
<1> QED
  BY <1>7 DEF Lined

\* On what is not a VerifyOtp itself one lies lower.
LEMMA OpenBelow ==
    ASSUME Typed, NEW k, Open(k), Top(nav) \notin Call
    PROVE  tried /\ k < Len(nav.stack)
<1>1. k \in 1..Len(nav.stack) /\ nav.stack[k] \in Call /\ Len(nav.stack) \in Nat
  BY DEF Open, Lone, Above, Typed, Good, Navigator
<1>2. k # Len(nav.stack)
  BY <1>1 DEF Top
<1> QED
  BY <1>1, <1>2 DEF Open

\* A resend, or a code.
LEMMA OpenStarts ==
    ASSUME Typed, Orderly, NEW k, Open(k), NEW c \in Call, ~overlapped',
           Resend(c) \/ EnterCode(c)
    PROVE  Lined'
<1>1. PICK rec \in CallState : Start(c, rec) /\ rec.op \in {"verify", "resend"}
  BY Records
<1>2. /\ call' \in [Call -> CallState] /\ call'[c] = rec
      /\ \A d \in Call \ {c} : call'[d] = call[d]
      /\ nav' = WithLoader(nav)
  BY <1>1, Started
<1>3. /\ Well(nav) /\ Well(nav') /\ OnTop(nav') /\ nav'.current = nav.current
      /\ nav'.stack = Append(nav.stack, Loader)
      /\ Loaders(nav) \in Nat /\ Loaders(nav') = Loaders(nav) + 1
  BY <1>2, WellWithLoader DEF Orderly
<1>4. \A d \in Call : AtRest(d)
  <2>1. Busy = {}
    BY <1>1 DEF Start
  <2> QED
    BY <2>1 DEF Busy, AtRest
<1>5. verified' = verified /\ verified \in Nat
  BY DEF Resend, EnterCode, Typed
<1>6. Due(call[c]) = 0 /\ Due(call'[c]) = 1 /\ At(c, "idle")
  BY <1>1, <1>2 DEF Start, At, Due
<1>7. Balanced'
  <2>1. Loaders(nav') + Due(call[c]) + verified
            = Loaders(nav) + Due(call'[c]) + verified'
    BY <1>3, <1>5, <1>6
  <2> QED
    BY <1>2, <1>3, <1>5, <2>1, StaysBalanced DEF Orderly
<1>8. Orderly'
  BY <1>1, <1>2, <1>3, <1>4, <1>7, OrderlyKept
<1>9. Lone(nav', k) /\ nav'.stack[k] = nav.stack[k] /\ k \in 1..Len(nav'.stack)
  BY <1>3, LonePushed DEF Open
<1>10. /\ tried' /\ Top(nav') \notin Call
       /\ call'[c].op = "resend" => nav'.current \in Call
  <2>1. Top(nav') = Loader /\ Loader \notin Call
    BY <1>3, CallRoutes, Names DEF OnTop
  <2>2. ASSUME Resend(c) PROVE tried' /\ Top(nav) \in Call
    <3>1. Top(nav) \in Beyond /\ "otp" \in Page
      BY AboveTop DEF Open, Lone, Typed, Page
    <3> QED
      BY <2>2, <3>1, BeyondNames DEF Resend
  <2>3. ASSUME EnterCode(c) PROVE tried' /\ call'[c].op # "resend"
    <3>1. PICK v \in Verifies, by \in {"code", "button"} :
              Start(c, Run("verify", "forgot", by, v))
      BY <2>3 DEF EnterCode
    <3>2. call'[c] = Run("verify", "forgot", by, v)
      BY <3>1 DEF Start, Typed
    <3> QED
      BY <2>3, <3>2 DEF EnterCode, Run
  <2> QED
    BY <1>3, <2>1, <2>2, <2>3 DEF Open
<1>11. c # nav.stack[k]
  BY <1>6 DEF Open, At
<1> QED
  BY <1>1, <1>2, <1>4, <1>8, <1>9, <1>10, <1>11, OpenKept

\* Loaders that are hidden over it.
LEMMA OpenHides ==
    ASSUME Typed, Orderly, NEW k, Open(k), NEW c \in Call, NEW n \in {1, 2},
           NEW op \in {"idle", "entered"}, Hides(c, n, op), Due(call[c]) = n,
           call[c].op \in {"resend", "verify", "signUp", "kept"},
           UNCHANGED <<verified, tried>>
    PROVE  Lined'
<1>1. /\ Well(nav) /\ Balanced /\ verified \in Nat /\ Len(nav.stack) \in Nat
      /\ OnTop(nav) /\ (n = 2 => TwoOnTop(nav))
  BY DEF Orderly, UnderLoader, Typed, TwoOnTop, Due, Well, Good, Navigator
<1>2. /\ \A d \in Call \ {c} : AtRest(d)
      /\ tried /\ k < Len(nav.stack) /\ c # nav.stack[k]
  <2>1. Top(nav) \notin Call
    BY <1>1, CallRoutes, Names DEF OnTop
  <2> QED
    BY <2>1, InHand, OpenBelow DEF AtRest, Open, At
<1>3. /\ Well(nav') /\ Loaders(nav) = Loaders(nav') + n /\ Loaders(nav') \in Nat
      /\ Loaders(nav) \in Nat
      /\ nav' = IF n = 1 THEN Taken(nav) ELSE Taken(Taken(nav))
      /\ call' \in [Call -> CallState] /\ call'[c].op = op
      /\ \A d \in Call \ {c} : call'[d] = call[d]
      /\ Top(nav') \in Call => nav'.current \in Call
  BY <1>1, HidesOf
<1>4. Lone(nav', k) /\ nav'.stack[k] = nav.stack[k] /\ k \in 1..Len(nav'.stack)
  <2>1. /\ Lone(Taken(nav), k) /\ Taken(nav).stack[k] = nav.stack[k]
        /\ k \in 1..Len(Taken(nav).stack)
    BY <1>1, <1>2, LoneTaken DEF Open
  <2>2. CASE n = 1
    BY <1>3, <2>1, <2>2
  <2>3. CASE n = 2
    <3>1. /\ Well(Taken(nav)) /\ Len(Taken(nav).stack) = Len(nav.stack) - 1
          /\ Len(nav.stack) >= 2
          /\ \A i \in 1..(Len(nav.stack) - 1) : Taken(nav).stack[i] = nav.stack[i]
      BY <1>1, OtherNames, WellTaken DEF OnTop
    <3>2. Len(nav.stack) - 1 \in 1..(Len(nav.stack) - 1)
      BY <1>1, <3>1
    <3>3. Taken(nav).stack[Len(Taken(nav).stack)] = Loader
      BY <1>1, <2>3, <3>1, <3>2 DEF TwoOnTop
    <3>4. k # Len(Taken(nav).stack)
      <4>1. Taken(nav).stack[k] \in Call
        BY <2>1 DEF Lone, Above
      <4> QED
        BY <3>3, <4>1, CallRoutes, Names
    <3>5. k < Len(Taken(nav).stack)
      BY <1>1, <2>1, <3>1, <3>4
    <3> QED
      BY <1>3, <2>1, <2>3, <3>1, <3>5, LoneTaken
  <2> QED
    BY <2>2, <2>3
<1>5. Due(call'[c]) = 0
  BY <1>3 DEF Due
<1>6. Balanced'
  <2>1. Loaders(nav') + Due(call[c]) + verified
            = Loaders(nav) + Due(call'[c]) + verified'
    BY <1>1, <1>3, <1>5
  <2> QED
    BY <1>1, <1>3, <2>1, StaysBalanced
<1>7. Orderly'
  BY <1>2, <1>3, <1>6, OrderlyKept
<1> QED
  BY <1>2, <1>3, <1>4, <1>7, OpenKept

\* What is put on it, or nothing, when an answer or an entry goes on.
LEMMA OpenGoes ==
    ASSUME Typed, Orderly, NEW k, Open(k), NEW c \in Call,
           \/ CodeAnswered(c) /\ Goes(c, "signUp") /\ nav' = WithLoader(nav)
           \/ SignUpAnswered(c) /\ Goes(c, "kept") /\ UNCHANGED nav
           \/ Entered(c)
    PROVE  Lined'
<1>1. /\ Well(nav) /\ Balanced /\ verified \in Nat /\ verified' = verified
      /\ tried' = tried /\ Loaders(nav) \in Nat
      /\ call[c].op \in {"verify", "signUp", "entered"}
  BY WellWithLoader DEF Orderly, Typed, CodeAnswered, SignUpAnswered, Entered, At,
     history
<1>2. /\ \A d \in Call \ {c} : AtRest(d)
      /\ tried /\ c # nav.stack[k] /\ k \in 1..Len(nav.stack)
  <2>1. ~AtRest(c)
    BY <1>1 DEF AtRest
  <2> QED
    BY <1>1, <2>1, InHand DEF Open, At, Lone, Above
<1>3. ASSUME Well(nav'), \A d \in Call \ {c} : call'[d] = call[d],
             call' \in [Call -> CallState],
             call'[c].op \in {"signUp", "kept"} => TwoOnTop(nav'),
             call'[c].op \in {"signUp", "kept", "idle"},
             Loaders(nav') + Due(call[c]) = Loaders(nav) + Due(call'[c]),
             Lone(nav', k), nav'.stack[k] = nav.stack[k], k \in 1..Len(nav'.stack),
             Top(nav') \in Call => nav'.current \in Call
      PROVE  Lined'
  <2>1. Loaders(nav') \in Nat
    BY <1>3, WellWithLoader
  <2>2. Due(call[c]) \in {0, 1, 2} /\ Due(call'[c]) \in {0, 1, 2}
    BY DEF Due
  <2>3. Loaders(nav') + Due(call[c]) + verified
            = Loaders(nav) + Due(call'[c]) + verified'
    BY <1>1, <1>3, <2>1, <2>2
  <2>4. Balanced'
    BY <1>1, <1>3, <2>3, StaysBalanced
  <2>5. Orderly'
    BY <1>2, <1>3, <2>4, OrderlyKept
  <2> QED
    BY <1>1, <1>2, <1>3, <2>5, OpenKept
<1>4. CASE CodeAnswered(c) /\ Goes(c, "signUp") /\ nav' = WithLoader(nav)
  <2>1. /\ call' \in [Call -> CallState] /\ call'[c].op = "signUp"
        /\ \A d \in Call \ {c} : call'[d] = call[d]
    BY <1>4, CallGoes DEF Ops
  <2>2. /\ Well(nav') /\ OnTop(nav') /\ nav'.stack = Append(nav.stack, Loader)
        /\ Len(nav.stack) \in Nat /\ Len(nav'.stack) = Len(nav.stack) + 1
        /\ \A i \in 1..Len(nav.stack) : nav'.stack[i] = nav.stack[i]
        /\ Loaders(nav') = Loaders(nav) + 1
    BY <1>1, <1>4, WellWithLoader
  <2>3. Due(call[c]) = 1 /\ Due(call'[c]) = 2 /\ OnTop(nav)
    BY <1>4, <2>1 DEF CodeAnswered, At, Due, Orderly, UnderLoader
  <2>4. TwoOnTop(nav')
    <3>1. Len(nav.stack) >= 1 /\ Len(nav.stack) \in 1..Len(nav.stack)
      BY <1>1, <2>2 DEF Well, Good
    <3>2. nav'.stack[Len(nav'.stack) - 1] = Loader
      BY <2>2, <2>3, <3>1 DEF OnTop, Top
    <3> QED
      BY <2>2, <3>1, <3>2 DEF TwoOnTop
  <2>5. Lone(nav', k) /\ nav'.stack[k] = nav.stack[k] /\ k \in 1..Len(nav'.stack)
    BY <1>1, <2>2, LonePushed DEF Open
  <2>6. Top(nav') \notin Call
    BY <2>2, CallRoutes, Names DEF OnTop
  <2> QED
    BY <1>1, <1>3, <2>1, <2>2, <2>3, <2>4, <2>5, <2>6
<1>5. CASE SignUpAnswered(c) /\ Goes(c, "kept") /\ UNCHANGED nav
  <2>1. /\ call' \in [Call -> CallState] /\ call'[c].op = "kept"
        /\ \A d \in Call \ {c} : call'[d] = call[d]
    BY <1>5, CallGoes DEF Ops
  <2>2. Due(call[c]) = 2 /\ Due(call'[c]) = 2 /\ TwoOnTop(nav)
    BY <1>5, <2>1 DEF SignUpAnswered, At, Due, Orderly, UnderLoader
  <2>3. TwoOnTop(nav') /\ Well(nav') /\ Lone(nav', k)
    BY <1>1, <1>5, <2>2 DEF Open
  <2> QED
    BY <1>1, <1>2, <1>3, <1>5, <2>1, <2>2, <2>3 DEF Open
<1>6. CASE Entered(c)
  <2>1. /\ call' \in [Call -> CallState] /\ call'[c].op = "idle"
        /\ \A d \in Call \ {c} : call'[d] = call[d]
    BY <1>6, CallEnds DEF Entered
  <2>2. Due(call[c]) = 0 /\ Due(call'[c]) = 0
    BY <1>6, <2>1 DEF Entered, At, Due
  <2>3. CASE nav' = nav
    <3>1. Well(nav') /\ Lone(nav', k)
      BY <1>1, <2>3 DEF Open
    <3> QED
      BY <1>1, <1>2, <1>3, <2>1, <2>2, <2>3, <3>1 DEF Open
  <2>4. CASE nav' # nav
    <3>1. PICK r \in {"scan", SignUpSheet} : nav' = Pushed(nav, r)
      BY <1>6, <2>4 DEF Entered
    <3>2. r \in AnyRoute /\ r # Loader /\ r \notin Call
      BY Names, OtherNames, CallRoutes DEF AnyRoute
    <3>3. /\ Well(nav') /\ nav'.stack = Append(nav.stack, r) /\ Top(nav') = r
          /\ Loaders(nav') = Loaders(nav)
      BY <1>1, <3>1, <3>2, WellPushed
    <3>4. Lone(nav', k) /\ nav'.stack[k] = nav.stack[k] /\ k \in 1..Len(nav'.stack)
      BY <1>1, <3>3, LonePushed DEF Open
    <3> QED
      BY <1>1, <1>3, <2>1, <2>2, <3>2, <3>3, <3>4
  <2> QED
    BY <2>3, <2>4
<1> QED
  BY <1>4, <1>5, <1>6

\* A delay that is over finds its sheet gone, and with it its screen.
LEMMA OpenDelayed ==
    ASSUME Typed, Typed', Orderly, NEW k, Open(k), NEW c \in Call, Delayed(c), ~mistaken'
    PROVE  Lined'
<1>1. /\ Well(nav) /\ Balanced /\ verified \in Nat /\ verified' = verified
      /\ tried' = tried /\ call[c].op = "delayed" /\ call[c].page \in Page
      /\ call' \in [Call -> CallState] /\ call'[c].op = "idle"
      /\ \A d \in Call \ {c} : call'[d] = call[d]
  BY CallEnds DEF Orderly, Typed, CallState, Delayed, At
<1>2. nav' = nav
  <2>1. Top(nav) \in Beyond
    BY AboveTop DEF Open, Lone, Typed
  <2>2. ~On(nav, call[c].page)
    BY <1>1, <2>1, BeyondNames DEF Delayed
  <2> QED
    BY <2>2 DEF Delayed
<1>3. Balanced'
  <2>1. Due(call[c]) = 0 /\ Due(call'[c]) = 0 /\ Loaders(nav) \in Nat
    BY <1>1, WellWithLoader DEF Due
  <2>2. Loaders(nav') + Due(call[c]) + verified
            = Loaders(nav) + Due(call'[c]) + verified'
    BY <1>1, <1>2, <2>1
  <2> QED
    BY <1>1, <1>2, <2>2, StaysBalanced
<1>4. \A d \in Call : /\ AtRest(d)' <=> AtRest(d)
                      /\ call'[d].op = call[d].op \/ call'[d].op = "idle"
                      /\ At(d, "await")' <=> At(d, "await")
  BY <1>1 DEF AtRest, At
<1>5. OneInHand'
  <2> SUFFICES ASSUME NEW d \in Call, NEW e \in Call, ~AtRest(d)', ~AtRest(e)'
               PROVE  d = e
    BY DEF OneInHand
  <2> QED
    BY <1>4 DEF Orderly, OneInHand
<1>6. UnderLoader'
  <2> SUFFICES ASSUME NEW d \in Call
               PROVE  /\ call'[d].op \in {"asked", "toast", "resend", "verify"}
                            => OnTop(nav')
                      /\ call'[d].op \in {"signUp", "kept"} => TwoOnTop(nav')
    BY DEF UnderLoader
  <2> QED
    BY <1>2, <1>4 DEF Orderly, UnderLoader
<1>7. Orderly'
  BY <1>1, <1>2, <1>3, <1>5, <1>6 DEF Orderly
<1>8. Open(k)'
  <2>1. nav.stack[k] \in Call /\ nav'.stack[k] = nav.stack[k]
    BY <1>2 DEF Open, Lone, Above
  <2>2. Lone(nav', k) /\ At(nav.stack[k], "await")'
    BY <1>2, <1>4, <2>1 DEF Open
  <2>3. \A d \in Call : At(d, "await")' => d = nav'.stack[k]
    BY <1>4, <2>1 DEF Open
  <2>4. \A d \in Call : call'[d].op \notin {"asked", "toast", "check"}
    BY <1>4 DEF Open
  <2>5. ~tried' => /\ k = Len(nav'.stack) /\ nav'.dialog = k - 1
                   /\ \A d \in Call : AtRest(d)'
    BY <1>1, <1>2, <1>4 DEF Open
  <2>6. /\ Top(nav') \in Call => nav'.current \in Call
        /\ \A d \in Call : At(d, "resend")' => nav'.current \in Call
    BY <1>2, <1>4 DEF Open, At
  <2> QED
    BY <2>2, <2>3, <2>4, <2>5, <2>6 DEF Open
<1>9. k \in 1..Len(nav'.stack)
  BY <1>2 DEF Open, Lone, Above
<1> QED
  BY <1>7, <1>8, <1>9 DEF Lined

\* VerifyOtp was left, having asked for nothing.
LEMMA LeftReturns ==
    ASSUME Typed, Orderly, Left, NEW c \in Call, Return(c)
    PROVE  Lined'
<1>1. /\ Well(nav) /\ Balanced /\ verified \in Nat /\ verified' = verified
      /\ tried' = tried /\ call[c].op = "await"
  BY DEF Orderly, Typed, Return, Returned, At, history
<1>2. /\ Well(nav') /\ Loaders(nav) = Loaders(nav') + 1 /\ Loaders(nav') \in Nat
      /\ \A x : On(nav', x) => On(nav, x)
      /\ call' \in [Call -> CallState] /\ call'[c].op = "idle"
      /\ \A d \in Call \ {c} : call'[d] = call[d]
  BY <1>1, HidesOf DEF Return, Left
<1>3. Due(call[c]) = 1 /\ Due(call'[c]) = 0
  BY <1>1, <1>2 DEF Due
<1>4. Balanced'
  <2>1. Loaders(nav') + Due(call[c]) + verified
            = Loaders(nav) + Due(call'[c]) + verified'
    BY <1>1, <1>2, <1>3
  <2> QED
    BY <1>1, <1>2, <2>1, StaysBalanced
<1>5. Orderly'
  BY <1>2, <1>4, OrderlyKept DEF Left
<1>6. \A d \in Call :
          call'[d].op \notin {"await", "verify", "signUp", "kept", "entered"}
  BY <1>1, <1>2 DEF Left, AtRest, At
<1>7. Closed'
  BY <1>1, <1>2, <1>6 DEF Closed, Left
<1> QED
  BY <1>5, <1>7 DEF Lined

\* Where no call changes, its debts do not.
LEMMA NavigationOrderly ==
    ASSUME Orderly, \A d \in Call : AtRest(d), UNCHANGED <<call, verified>>,
           Well(nav'), Loaders(nav') = Loaders(nav)
    PROVE  Orderly'
<1>1. \A d \in Call : AtRest(d)' /\ call'[d].op \in {"idle", "delayed", "await"}
  BY DEF AtRest
<1>2. OneInHand' /\ UnderLoader'
  BY <1>1 DEF OneInHand, UnderLoader
<1>3. Balanced'
  <2>1. Debt' = Debt
    BY SameCalls
  <2> QED
    BY <2>1 DEF Orderly, Balanced
<1> QED
  BY <1>2, <1>3 DEF Orderly

LEMMA NavigationOpen ==
    ASSUME NEW k, Open(k), \A d \in Call : AtRest(d), UNCHANGED <<call, tried>>, tried,
           Lone(nav', k), nav'.stack[k] = nav.stack[k], k \in 1..Len(nav'.stack),
           Top(nav') \in Call => nav'.current \in Call
    PROVE  \E q \in 1..Len(nav'.stack) : Open(q)'
<1>1. nav.stack[k] \in Call
  BY DEF Open, Lone, Above
<1>2. call'[nav'.stack[k]].op = "await"
  BY <1>1 DEF Open, At
<1>3. \A d \in Call : call'[d].op = "await" => d = nav'.stack[k]
  BY DEF Open, At
<1>4. \A d \in Call : call'[d].op \notin {"asked", "toast", "check", "resend"}
  BY DEF AtRest
<1>5. Open(k)'
  BY <1>2, <1>3, <1>4 DEF Open, At
<1> QED
  BY <1>5

LEMMA NavigationLined ==
    ASSUME Typed, Lined, NoMicrotask, Forgot \/ SheetButton \/ Back \/ Proceed,
           ~wentBack'
    PROVE  Lined'
<1>1. /\ Orderly /\ Well(nav) /\ UNCHANGED <<call, verified, tried>>
      /\ Len(nav.stack) \in Nat
  BY DEF Lined, Orderly, Forgot, SheetButton, Back, Proceed, history, Well, Good,
     Navigator
<1>2. Top(nav) # Loader
  BY OtherNames DEF Forgot, SheetButton, Back, Proceed
<1>3. \A d \in Call : AtRest(d)
  BY <1>1, <1>2, NoneInHand
<1>4. ~Left
  BY <1>2 DEF Left, OnTop
<1>5. CASE Forgot \/ SheetButton
  <2>1. PICK r \in Route : nav' = Opened(nav, r) /\ r # Loader
    <3>1. CASE Forgot
      <4>1. "forgot" \in Route /\ "forgot" # Loader
        BY Names DEF Page, Loader
      <4> QED
        BY <3>1, <4>1 DEF Forgot
    <3>2. CASE SheetButton
      BY <3>2, Names, OtherNames DEF SheetButton
    <3> QED
      BY <1>5, <3>1, <3>2
  <2>2. /\ Well(nav') /\ Loaders(nav') = Loaders(nav)
        /\ \A x : On(nav', x) => On(nav, x) \/ x = r
    BY <1>1, <2>1, WellOpened DEF AnyRoute
  <2>3. Orderly'
    BY <1>1, <1>3, <2>2, NavigationOrderly
  <2>4. ASSUME NEW k, Open(k) PROVE FALSE
    <3>1. Top(nav) \in Beyond
      BY <2>4, AboveTop DEF Open, Lone, Typed
    <3> QED
      BY <1>5, <3>1, BeyondNames DEF Forgot, SheetButton
  <2>5. Closed
    BY <1>4, <2>4 DEF Lined
  <2>6. Closed'
    BY <1>1, <2>2, <2>5, CallRoutes DEF Closed
  <2> QED
    BY <2>3, <2>6 DEF Lined
<1>6. CASE Proceed
  <2>1. nav' = Pushed(nav, "scan") /\ "scan" \in AnyRoute /\ "scan" # Loader
    BY <1>6, Names, OtherNames DEF Proceed, AnyRoute
  <2>2. /\ Well(nav') /\ Loaders(nav') = Loaders(nav) /\ Top(nav') = "scan"
        /\ nav'.stack = Append(nav.stack, "scan")
        /\ \A x : On(nav', x) => On(nav, x) \/ x = "scan"
    BY <1>1, <2>1, WellPushed
  <2>3. Orderly'
    BY <1>1, <1>3, <2>2, NavigationOrderly
  <2>4. "scan" \notin Call /\ SignUpSheet \notin Call
    BY CallRoutes, Names
  <2>5. Closed => Closed'
    BY <1>1, <2>2, <2>4 DEF Closed
  <2>6. ASSUME NEW k, Open(k) PROVE \E q \in 1..Len(nav'.stack) : Open(q)'
    <3>1. tried
      BY <1>6, <2>4, <2>6, OpenBelow DEF Proceed
    <3>2. Lone(nav', k) /\ nav'.stack[k] = nav.stack[k] /\ k \in 1..Len(nav'.stack)
      BY <1>1, <2>2, <2>6, LonePushed DEF Open
    <3> QED
      BY <1>1, <1>3, <2>2, <2>4, <2>6, <3>1, <3>2, NavigationOpen
  <2>7. Closed' \/ \E q \in 1..Len(nav'.stack) : Open(q)'
    BY <1>4, <2>5, <2>6 DEF Lined
  <2> QED
    BY <2>3, <2>7 DEF Lined
<1>7. CASE Back
  <2>1. /\ nav' = Taken(nav) /\ Well(nav') /\ Len(nav.stack) >= 2
        /\ Len(nav'.stack) = Len(nav.stack) - 1
        /\ \A i \in 1..(Len(nav.stack) - 1) : nav'.stack[i] = nav.stack[i]
        /\ nav.dialog # Len(nav.stack) => nav'.dialog = nav.dialog
        /\ \A x : On(nav', x) => On(nav, x)
        /\ Top(nav') \in Call => nav'.current \in Call
        /\ Loaders(nav) = Loaders(nav') + 0 /\ Loaders(nav') \in Nat
    BY <1>1, <1>2, <1>7, WellTaken DEF Back
  <2>2. Orderly'
    BY <1>1, <1>3, <2>1, NavigationOrderly
  <2>3. Closed => Closed'
    BY <1>1, <2>1 DEF Closed
  <2>4. ASSUME NEW k, Open(k), Top(nav) \notin Call
        PROVE  \E q \in 1..Len(nav'.stack) : Open(q)'
    <3>1. tried /\ k < Len(nav.stack)
      BY <2>4, OpenBelow
    <3>2. Lone(nav', k) /\ nav'.stack[k] = nav.stack[k] /\ k \in 1..Len(nav'.stack)
      BY <1>1, <2>1, <2>4, <3>1, LoneTaken DEF Open
    <3> QED
      BY <1>1, <1>3, <2>1, <2>4, <3>1, <3>2, NavigationOpen
  <2>5. ASSUME NEW k, Open(k), Top(nav) \in Call
        PROVE  Left'
    <3>1. ~tried
      <4>1. wentBack' = (wentBack \/ (tried /\ Top(nav) \in Call))
        BY <1>7 DEF Back
      <4> QED
        BY <2>5, <4>1, Zenon
    <3>2. /\ k = Len(nav.stack) /\ nav.dialog = k - 1 /\ k \in Nat /\ k >= 2
          /\ nav.stack[k - 1] = Loader /\ nav.stack[k] \in Call
      BY <1>1, <2>5, <3>1 DEF Open, Lone, Above
    <3>3. k - 1 \in 1..(Len(nav.stack) - 1) /\ nav.dialog # Len(nav.stack)
      BY <3>2
    <3>4. OnTop(nav')
      BY <2>1, <3>2, <3>3 DEF OnTop, Top
    <3>5. \A d \in Call : ~On(nav', d)
      <4> SUFFICES ASSUME NEW i \in 1..Len(nav'.stack) PROVE nav'.stack[i] \notin Call
        BY <2>1 DEF On, Range, Well, Good, Navigator
      <4>1. i \in 1..(Len(nav.stack) - 1) /\ i \in 1..Len(nav.stack) /\ i # k
        BY <1>1, <2>1, <3>2
      <4> QED
        BY <2>1, <2>5, <4>1 DEF Open, Lone
    <3>6. \A d \in Call : AtRest(d)' /\ (At(d, "await")' <=> At(d, "await"))
      BY <1>1, <1>3 DEF AtRest, At
    <3>7. At(nav.stack[k], "await") /\ \A d \in Call : At(d, "await") => d = nav.stack[k]
      BY <2>5 DEF Open
    <3>8. \E c \in Call : At(c, "await")' /\ \A d \in Call : At(d, "await")' => d = c
      BY <3>2, <3>6, <3>7
    <3> QED
      BY <1>1, <3>1, <3>4, <3>5, <3>6, <3>8 DEF Left
  <2>6. Closed' \/ Left' \/ \E q \in 1..Len(nav'.stack) : Open(q)'
    BY <1>4, <2>3, <2>4, <2>5 DEF Lined
  <2> QED
    BY <2>2, <2>6 DEF Lined
<1> QED
  BY <1>5, <1>6, <1>7
-----------------------------------------------------------------------------
LEMMA InitiallyLined == Init => CInv
<1> SUFFICES ASSUME Init PROVE Lined
  BY DEF CInv
<1>1. \A c \in Call : call[c].op = "idle"
  BY DEF Init, Idle, Run
<1>2. "front" \in AnyRoute /\ "signIn" \in AnyRoute /\ "signIn" # Loader
  BY Names, OtherNames DEF AnyRoute
<1>3. NavigatorAt("front") \in Navigator(AnyRoute)
  BY <1>2 DEF NavigatorAt, Navigator
<1>4. Well(NavigatorAt("front"))
  BY <1>3 DEF Well, Good, NavigatorAt
<1>5. /\ Well(nav) /\ Loaders(nav) = Loaders(NavigatorAt("front"))
      /\ \A x : On(nav, x) => x = "front" \/ x = "signIn"
  <2>1. \A x : On(NavigatorAt("front"), x) => x = "front"
    BY DEF On, Range, NavigatorAt
  <2> QED
    BY <1>2, <1>4, <2>1, WellPushed DEF Init
<1>6. Loaders(NavigatorAt("front")) = 0
  <2>1. /\ Loaders(NavigatorAt("front")) \in Nat
        /\ Loaders(NavigatorAt("front")) <= Len(NavigatorAt("front").stack) - 1
    BY <1>3, <1>4, LoadersBelow, OtherNames DEF Well, Good
  <2>2. Len(NavigatorAt("front").stack) - 1 = 0
    BY DEF NavigatorAt
  <2>3. \A l \in Nat : l <= 0 => l = 0
    OBVIOUS
  <2> QED
    BY <2>1, <2>2, <2>3
<1>7. Balanced
  <2>1. Owes = {} /\ OwesTwo = {}
    BY <1>1 DEF Owes, OwesTwo, At
  <2> QED
    BY <1>5, <1>6, <2>1, FS_EmptySet DEF Init, Balanced, Debt
<1>8. OneInHand /\ UnderLoader
  BY <1>1 DEF OneInHand, UnderLoader, AtRest
<1>9. Closed
  BY <1>1, <1>5, CallRoutes, Names DEF Init, Closed
<1> QED
  BY <1>5, <1>7, <1>8, <1>9 DEF Lined, Orderly

\* A stutter.
LEMMA LinedUnchanged ==
    ASSUME Lined, UNCHANGED vars
    PROVE  Lined'
<1>1. UNCHANGED <<nav, call, verified, tried>>
  BY DEF vars, history
<1>2. Orderly'
  <2>1. Debt' = Debt
    BY <1>1, SameCalls
  <2>2. OneInHand' /\ UnderLoader'
    BY <1>1 DEF Lined, Orderly, OneInHand, UnderLoader, AtRest
  <2> QED
    BY <1>1, <2>1, <2>2 DEF Lined, Orderly, Balanced
<1>3. Closed => Closed'
  BY <1>1 DEF Closed
<1>4. Left => Left'
  BY <1>1 DEF Left, AtRest, At
<1>5. \A k \in 1..Len(nav.stack) : Open(k) => k \in 1..Len(nav'.stack) /\ Open(k)'
  BY <1>1 DEF Open, AtRest, At
<1> QED
  BY <1>2, <1>3, <1>4, <1>5 DEF Lined

\* What is clean after a step was so before it.
LEMMA CleanStart ==
    ASSUME overlapped' = (overlapped \/ Busy # {}), ~overlapped'
    PROVE  ~overlapped
BY Zenon

LEMMA CleanDelay ==
    ASSUME NEW B, mistaken' = (mistaken \/ B), ~mistaken'
    PROVE  ~mistaken
BY Zenon

LEMMA CleanBack ==
    ASSUME NEW B, wentBack' = (wentBack \/ B), ~wentBack'
    PROVE  ~wentBack
BY Zenon

LEMMA CleanBefore ==
    ASSUME [Next]_vars, Clean'
    PROVE  Clean
<1>1. CASE UNCHANGED vars
  BY <1>1 DEF vars, history, Clean
<1>2. CASE Forgot \/ SheetButton \/ Proceed
  BY <1>2 DEF Forgot, SheetButton, Proceed, history, Clean
<1>3. CASE Back
  BY <1>3, CleanBack DEF Back, Clean
<1>4. ASSUME NEW c \in Call,
             \/ Return(c) \/ Check(c) \/ Entered(c) \/ Toasted(c) \/ Kept(c)
             \/ ResendAnswered(c) \/ CodeAnswered(c) \/ SignUpAnswered(c)
             \/ Answered(c)
      PROVE  Clean
  BY <1>4 DEF Return, Check, Entered, Toasted, Kept, ResendAnswered, CodeAnswered,
     SignUpAnswered, Answered, history, Clean
<1>5. ASSUME NEW c \in Call,
             Resend(c) \/ EnterCode(c) \/ \E p \in Page : Ask(c, p)
      PROVE  Clean
  <2>1. /\ overlapped' = (overlapped \/ Busy # {})
        /\ UNCHANGED <<unanswered, mistaken, wentBack>>
    BY <1>5 DEF Resend, EnterCode, Ask, Start
  <2> QED
    BY <2>1, CleanStart DEF Clean
<1>6. ASSUME NEW c \in Call, Delayed(c)
      PROVE  Clean
  BY <1>6, CleanDelay DEF Delayed, Clean
<1>7. ASSUME NEW c \in Call, Unanswered(c)
      PROVE  Clean
  BY <1>7 DEF Unanswered, Clean
<1> QED
  BY <1>1, <1>2, <1>3, <1>4, <1>5, <1>6, <1>7, Steps

\* One step, in each of the three.
LEMMA ClosedStep ==
    ASSUME Typed, Typed', Orderly, Closed, Clean', NEW c \in Call,
           \/ Return(c) \/ Check(c) \/ Entered(c) \/ Kept(c)
           \/ ResendAnswered(c) \/ CodeAnswered(c) \/ SignUpAnswered(c)
           \/ Answered(c) \/ Toasted(c) \/ (NoMicrotask /\ Delayed(c))
           \/ Resend(c) \/ EnterCode(c) \/ \E p \in Page : Ask(c, p)
    PROVE  Lined'
<1>1. /\ ~Return(c) /\ ~Entered(c) /\ ~Kept(c)
      /\ ~CodeAnswered(c) /\ ~SignUpAnswered(c)
  BY DEF Closed, Return, Returned, Entered, Kept, CodeAnswered, SignUpAnswered, At
<1>2. ~EnterCode(c)
  BY DEF Closed, EnterCode, Verifies, On
<1>3. ~overlapped' /\ ~mistaken'
  BY DEF Clean
<1>4. CASE Resend(c) \/ \E p \in Page : Ask(c, p)
  BY <1>3, <1>4, ClosedStarts
<1>5. CASE Check(c) \/ (NoMicrotask /\ Delayed(c))
  BY <1>3, <1>5, ClosedChecks
<1>6. CASE Answered(c) \/ Toasted(c)
  BY <1>6, ClosedAnswers
<1>7. CASE ResendAnswered(c)
  <2>1. CASE Hides(c, 1, "idle")
    BY <1>7, <2>1, ClosedAnswers
  <2>2. CASE nav' = Pushed(nav, c) /\ Goes(c, "await")
    BY <1>7, <2>2, ClosedOpens
  <2> QED
    BY <1>7, <2>1, <2>2 DEF ResendAnswered
<1> QED
  BY <1>1, <1>2, <1>4, <1>5, <1>6, <1>7

LEMMA OpenStep ==
    ASSUME Typed, Typed', Orderly, NEW k, Open(k), Clean', NEW c \in Call,
           \/ Return(c) \/ Check(c) \/ Entered(c) \/ Kept(c)
           \/ ResendAnswered(c) \/ CodeAnswered(c) \/ SignUpAnswered(c)
           \/ Answered(c) \/ Toasted(c) \/ Delayed(c)
           \/ Resend(c) \/ EnterCode(c) \/ \E p \in Page : Ask(c, p)
    PROVE  Lined'
<1>1. /\ ~Check(c) /\ ~Answered(c) /\ ~Toasted(c)
  BY DEF Open, Check, Answered, Toasted, At
<1>2. ~Return(c)
  <2>1. nav.stack[k] \in Verifies
    BY DEF Open, Lone, Above, Verifies, Range, Typed, Good, Navigator
  <2> QED
    BY <2>1 DEF Open, Return, Returned
<1>3. ~\E p \in Page : Ask(c, p)
  <2>1. Top(nav) \in Beyond
    BY AboveTop DEF Open, Lone, Typed
  <2> QED
    BY <2>1, BeyondNames DEF Ask
<1>4. ~overlapped' /\ ~mistaken'
  BY DEF Clean
<1>5. CASE Resend(c) \/ EnterCode(c)
  BY <1>4, <1>5, OpenStarts
<1>6. CASE Delayed(c)
  BY <1>4, <1>6, OpenDelayed
<1>7. CASE ResendAnswered(c)
  <2>1. call[c].op = "resend" /\ UNCHANGED <<verified, tried>> /\ Due(call[c]) = 1
    BY <1>7 DEF ResendAnswered, At, history, Due
  <2>2. Hides(c, 1, "idle")
    BY <1>7, <2>1 DEF ResendAnswered, Open, At
  <2> QED
    BY <2>1, <2>2, OpenHides
<1>8. CASE CodeAnswered(c)
  <2>1. call[c].op = "verify" /\ UNCHANGED <<verified, tried>> /\ Due(call[c]) = 1
    BY <1>8 DEF CodeAnswered, At, history, Due
  <2>2. CASE Hides(c, 1, "entered")
    BY <2>1, <2>2, OpenHides
  <2>3. CASE Goes(c, "signUp") /\ nav' = WithLoader(nav)
    BY <1>8, <2>3, OpenGoes
  <2> QED
    BY <1>8, <2>2, <2>3 DEF CodeAnswered
<1>9. CASE SignUpAnswered(c) \/ Kept(c)
  <2>1. /\ call[c].op \in {"signUp", "kept"} /\ UNCHANGED <<verified, tried>>
        /\ Due(call[c]) = 2
    BY <1>9 DEF SignUpAnswered, Kept, At, history, Due
  <2>2. CASE Hides(c, 2, "entered")
    BY <2>1, <2>2, OpenHides
  <2>3. CASE SignUpAnswered(c) /\ Goes(c, "kept") /\ UNCHANGED nav
    BY <2>3, OpenGoes
  <2> QED
    BY <1>9, <2>2, <2>3 DEF SignUpAnswered, Kept
<1>10. CASE Entered(c)
  BY <1>10, OpenGoes
<1> QED
  BY <1>1, <1>2, <1>3, <1>5, <1>6, <1>7, <1>8, <1>9, <1>10

LEMMA LinedInductive == Typed /\ CInv /\ [Next]_vars => CInv'
<1> SUFFICES ASSUME Typed, CInv, [Next]_vars, Clean' PROVE Lined'
  BY DEF CInv
<1>1. Typed' /\ Lined /\ Orderly
  BY TypedStep, CleanBefore DEF CInv, Lined
<1>2. CASE UNCHANGED vars
  BY <1>1, <1>2, LinedUnchanged
<1>3. CASE NoMicrotask /\ (Forgot \/ SheetButton \/ Back \/ Proceed)
  BY <1>1, <1>3, NavigationLined DEF Clean
<1>4. ASSUME NEW c \in Call,
             \/ Return(c)
             \/ (\A d \in Call : ~Returned(d)) /\ (Check(c) \/ Entered(c))
             \/ /\ NoMicrotask
                /\ \/ \E p \in Page : Ask(c, p)
                   \/ Resend(c) \/ EnterCode(c) \/ Toasted(c) \/ Delayed(c)
                   \/ Kept(c) \/ Answered(c) \/ ResendAnswered(c)
                   \/ CodeAnswered(c) \/ SignUpAnswered(c)
      PROVE  Lined'
  <2>0. \/ Return(c) \/ Check(c) \/ Entered(c) \/ Kept(c)
        \/ ResendAnswered(c) \/ CodeAnswered(c) \/ SignUpAnswered(c)
        \/ Answered(c) \/ Toasted(c) \/ (NoMicrotask /\ Delayed(c))
        \/ Resend(c) \/ EnterCode(c) \/ \E p \in Page : Ask(c, p)
    BY <1>4
  <2>1. CASE Closed
    BY <1>1, <2>0, <2>1, ClosedStep
  <2>2. CASE Left
    <3>1. PICK d \in Call : Returned(d)
      BY <2>2 DEF Left, Returned, Verifies, On
    <3>2. Return(c)
      BY <1>4, <3>1 DEF NoMicrotask
    <3> QED
      BY <1>1, <2>2, <3>2, LeftReturns
  <2>3. ASSUME NEW k \in 1..Len(nav.stack), Open(k)
        PROVE  Lined'
    BY <1>1, <2>0, <2>3, OpenStep
  <2> QED
    BY <1>1, <2>1, <2>2, <2>3 DEF Lined
<1>5. ASSUME NEW c \in Call, Unanswered(c)
      PROVE  FALSE
  BY <1>5 DEF Unanswered, Clean
<1> QED
  BY <1>2, <1>3, <1>4, <1>5, Steps

\* There is a loader for every call that will hide one, and one more for every
\* code that was accepted: it is left under the reset screen, and whoever goes
\* back from there is locked under it (forgot_password_controller.dart 112-123).
\* But for answers not handled, calls that overlap, delays that take away
\* something else than their sheet, and a VerifyOtp left after it had asked for
\* something: its loader took the place of the resend's in `contexts`, and that
\* one is never hidden (sign_up_controller.dart 269-270).
THEOREM LoaderBalanceHolds == Spec => []LoaderBalance
<1>1. CInv => LoaderBalance
  <2>1. SUFFICES ASSUME CInv PROVE LoaderBalance
    OBVIOUS
  <2>2. Clean \/ unanswered \/ overlapped \/ mistaken \/ wentBack
    BY DEF Clean
  <2>3. Clean => Balanced
    BY <2>1, Zenon DEF CInv, Lined, Orderly
  <2> QED
    BY <2>2, <2>3, Zenon DEF LoaderBalance, Balanced, Debt
<1>2. Typed /\ CInv /\ [Next]_vars => CInv'
  BY LinedInductive
<1> QED
  BY <1>1, <1>2, InitiallyLined, AlwaysTyped, PTL DEF Spec
=============================================================================
