--------------------------- MODULE SignUpOtp_proofs ---------------------------
(***************************************************************************)
(* Proofs about SignUpOtp, for any number of calls under way and of events *)
(* that start one.                                                         *)
(*                                                                         *)
(* LoadersCoverCalls is inductive together with the types: a step that     *)
(* takes loaders away ends or advances the call they are of, so that what  *)
(* the calls owe (Debt) falls at least as far as the loaders.              *)
(*                                                                         *)
(* LockedOnlyIf needs to know which loaders: with no call overlapping, no  *)
(* answer lost and VerifyOtp not left too late, those of the one call      *)
(* under way are on top of all else, the dialog among them (CInv).         *)
(***************************************************************************)
EXTENDS SignUpOtp, Routes_proofs

Route == Call \cup {"form", "scan", Loader, Sheet}
CallState == [op : Ops, by : {None, "code", "button"}, at : Call \cup {None}]

One(op) == IF op \in {"send", "resend", "await", "verify", "signUp", "kept"}
             THEN 1 ELSE 0
Two(op) == IF op \in {"signUp", "kept"} THEN 1 ELSE 0
Debt(op) == One(op) + Two(op)

IInv ==
    /\ TypeOK
    /\ Len(nav.stack) >= 1
    /\ LoadersCoverCalls
-----------------------------------------------------------------------------
\* A step of one call changes what is owed by what that call owes.
LEMMA DebtOfOne ==
    ASSUME TypeOK, NEW c \in Call, call' \in [Call -> CallState],
           \A d \in Call \ {c} : call'[d] = call[d]
    PROVE  \E rest \in Nat :
              /\ Cardinality(Owes) + Cardinality(OwesTwo)
                     = rest + Debt(call[c].op)
              /\ Cardinality(Owes') + Cardinality(OwesTwo')
                     = rest + Debt(call'[c].op)
<1>1. /\ IsFiniteSet(Owes) /\ IsFiniteSet(Owes')
      /\ IsFiniteSet(OwesTwo) /\ IsFiniteSet(OwesTwo')
  BY SignUpAssumption, FS_Subset DEF SignUpAssumption, Owes, OwesTwo
<1>2. Owes' \ {c} = Owes \ {c} /\ OwesTwo' \ {c} = OwesTwo \ {c}
  BY DEF Owes, OwesTwo
<1> DEFINE o == Cardinality(Owes \ {c})
           w == Cardinality(OwesTwo \ {c})
<1>3. /\ o \in Nat /\ w \in Nat
      /\ Cardinality(Owes) = o + One(call[c].op)
      /\ Cardinality(OwesTwo) = w + Two(call[c].op)
  <2>1. o \in Nat /\ w \in Nat
    BY <1>1, CountOne
  <2>2. /\ c \in Owes => Cardinality(Owes) = o + 1
        /\ c \notin Owes => Cardinality(Owes) = o
        /\ c \in OwesTwo => Cardinality(OwesTwo) = w + 1
        /\ c \notin OwesTwo => Cardinality(OwesTwo) = w
    BY <1>1, CountOne
  <2> HIDE DEF o, w
  <2>3. /\ c \in Owes <=> One(call[c].op) = 1
        /\ c \notin Owes <=> One(call[c].op) = 0
        /\ c \in OwesTwo <=> Two(call[c].op) = 1
        /\ c \notin OwesTwo <=> Two(call[c].op) = 0
    BY DEF Owes, OwesTwo, One, Two
  <2> QED
    BY <2>1, <2>2, <2>3
<1>4. /\ Cardinality(Owes') = o + One(call'[c].op)
      /\ Cardinality(OwesTwo') = w + Two(call'[c].op)
  <2>1. o = Cardinality(Owes' \ {c}) /\ w = Cardinality(OwesTwo' \ {c})
    BY <1>2
  <2>2. /\ c \in Owes' => Cardinality(Owes') = o + 1
        /\ c \notin Owes' => Cardinality(Owes') = o
        /\ c \in OwesTwo' => Cardinality(OwesTwo') = w + 1
        /\ c \notin OwesTwo' => Cardinality(OwesTwo') = w
    BY <1>1, <2>1, CountOne
  <2> HIDE DEF o, w
  <2>3. /\ c \in Owes' <=> One(call'[c].op) = 1
        /\ c \notin Owes' <=> One(call'[c].op) = 0
        /\ c \in OwesTwo' <=> Two(call'[c].op) = 1
        /\ c \notin OwesTwo' <=> Two(call'[c].op) = 0
    BY DEF Owes, OwesTwo, One, Two
  <2> QED
    BY <1>3, <2>2, <2>3
<1> HIDE DEF o, w
<1>5. One(call[c].op) \in Nat /\ Two(call[c].op) \in Nat
      /\ One(call'[c].op) \in Nat /\ Two(call'[c].op) \in Nat
  BY DEF One, Two
<1>6. /\ o + w \in Nat
      /\ Cardinality(Owes) + Cardinality(OwesTwo) = (o + w) + Debt(call[c].op)
      /\ Cardinality(Owes') + Cardinality(OwesTwo') = (o + w) + Debt(call'[c].op)
  BY <1>3, <1>4, <1>5 DEF Debt
<1> QED
  BY <1>6

\* The routes a step may leave: the form, and what lies over it.
Good(n) == n \in Navigator(Route) /\ Len(n.stack) >= 1 /\ n.stack[1] = "form"

LEMMA GoodFacts ==
    ASSUME NEW n, Good(n)
    PROVE  /\ Loaders(n) \in Nat /\ Loaders(n) <= Len(n.stack) - 1
           /\ Len(n.stack) \in Nat /\ Top(n) \in Route
<1>1. n \in Navigator(Route) /\ n.stack \in Seq(Route) /\ n.stack[1] # Loader
  BY DEF Good, Navigator, Loader
<1>2. Loaders(n) \in Nat /\ Loaders(n) <= Len(n.stack) - 1
  BY <1>1, LoadersBelow DEF Good
<1> QED
  BY <1>1, <1>2 DEF Good, Top

LEMMA GoodPushed ==
    ASSUME NEW n, Good(n), NEW r \in Route
    PROVE  Good(Pushed(n, r)) /\ Loaders(Pushed(n, r)) >= Loaders(n)
<1>1. n \in Navigator(Route) /\ Len(n.stack) \in Nat
  BY GoodFacts DEF Good
<1>2. /\ Pushed(n, r) \in Navigator(Route)
      /\ Pushed(n, r).stack = Append(n.stack, r)
      /\ Len(Pushed(n, r).stack) = Len(n.stack) + 1
      /\ \A i \in 1..Len(n.stack) : Pushed(n, r).stack[i] = n.stack[i]
  BY <1>1, PushedFacts
<1>3. Good(Pushed(n, r))
  BY <1>1, <1>2 DEF Good
<1>4. /\ Loaders(n) \in Nat /\ Loaders(Pushed(n, r)) \in Nat
      /\ r = Loader => Loaders(Pushed(n, r)) = Loaders(n) + 1
      /\ r # Loader => Loaders(Pushed(n, r)) = Loaders(n)
  BY <1>1, <1>2, LoadersAppend
<1> QED
  BY <1>3, <1>4

LEMMA GoodWithLoader ==
    ASSUME NEW n, Good(n)
    PROVE  Good(WithLoader(n)) /\ Loaders(WithLoader(n)) = Loaders(n) + 1
<1>1. n \in Navigator(Route) /\ Len(n.stack) \in Nat /\ Loader \in Route
  BY GoodFacts DEF Good, Route
<1>2. /\ WithLoader(n) \in Navigator(Route)
      /\ WithLoader(n).stack = Append(n.stack, Loader)
      /\ Len(WithLoader(n).stack) = Len(n.stack) + 1
      /\ \A i \in 1..Len(n.stack) : WithLoader(n).stack[i] = n.stack[i]
  BY <1>1, WithLoaderFacts
<1>3. Good(WithLoader(n))
  BY <1>1, <1>2 DEF Good
<1>4. Loaders(WithLoader(n)) = Loaders(n) + 1
  BY <1>1, <1>2, LoadersAppend
<1> QED
  BY <1>3, <1>4

\* A pop where there is a loader, or of a route over the form, leaves the form.
LEMMA GoodPopped ==
    ASSUME NEW n, Good(n), Loaders(n) >= 1 \/ Top(n) # "form"
    PROVE  /\ Good(Popped(n))
           /\ Loaders(Popped(n)) \in Nat /\ Loaders(n) <= Loaders(Popped(n)) + 1
           /\ Top(n) # Loader => Loaders(Popped(n)) = Loaders(n)
<1>1. /\ n \in Navigator(Route) /\ Len(n.stack) >= 2 /\ Len(n.stack) \in Nat
      /\ Top(n) \in Route
  BY GoodFacts DEF Good, Top
<1>2. /\ Popped(n) \in Navigator(Route)
      /\ Len(Popped(n).stack) = Len(n.stack) - 1
      /\ \A i \in 1..(Len(n.stack) - 1) : Popped(n).stack[i] = n.stack[i]
      /\ n.stack = Append(Popped(n).stack, Top(n))
  BY <1>1, PoppedFacts
<1>3. Good(Popped(n))
  BY <1>1, <1>2 DEF Good
<1>4. /\ Loaders(Popped(n)) \in Nat
      /\ Top(n) = Loader => Loaders(n) = Loaders(Popped(n)) + 1
      /\ Top(n) # Loader => Loaders(n) = Loaders(Popped(n))
  BY <1>1, <1>2, LoadersAppend
<1> QED
  BY <1>3, <1>4
-----------------------------------------------------------------------------
Inner ==
    Good(nav) /\ call \in [Call -> CallState] /\ LoadersCoverCalls

Others ==
    /\ resend_otp \subseteq Call
    /\ sendOtpModel \in Model /\ signUpModel \in Model
    /\ asks \in 0..MaxAsks
    /\ {unanswered, overlapped, tried, wentBack} \subseteq BOOLEAN

LEMMA Parts == IInv <=> Inner /\ Others
  BY DEF IInv, Inner, Others, Good, TypeOK, LoadersCoverCalls, Route, CallState

LEMMA PartsNext == Inner' /\ Others' => IInv'
  BY DEF IInv, Inner, Others, Good, TypeOK, LoadersCoverCalls, Route, CallState

\* A call has its loaders.
LEMMA HasItsLoaders ==
    ASSUME Inner, NEW c \in Call
    PROVE  Debt(call[c].op) <= Loaders(nav) /\ Debt(call[c].op) \in Nat
<1>1. IsFiniteSet(Owes) /\ IsFiniteSet(OwesTwo)
  BY SignUpAssumption, FS_Subset DEF SignUpAssumption, Owes, OwesTwo
<1> DEFINE o == Cardinality(Owes)
           w == Cardinality(OwesTwo)
<1>2. o \in Nat /\ w \in Nat
  BY <1>1, FS_CardinalityType
<1>3. c \in Owes => o >= 1
  <2>1. /\ Cardinality(Owes \ {c}) \in Nat
        /\ c \in Owes => o = Cardinality(Owes \ {c}) + 1
    BY <1>1, CountOne
  <2> QED
    BY <2>1
<1>4. c \in OwesTwo => w >= 1
  <2>1. /\ Cardinality(OwesTwo \ {c}) \in Nat
        /\ c \in OwesTwo => w = Cardinality(OwesTwo \ {c}) + 1
    BY <1>1, CountOne
  <2> QED
    BY <2>1
<1>5. o + w <= Loaders(nav) /\ Loaders(nav) \in Nat
  BY GoodFacts DEF Inner, LoadersCoverCalls
<1> HIDE DEF o, w
<1>6. /\ One(call[c].op) \in Nat /\ One(call[c].op) <= o
      /\ Two(call[c].op) \in Nat /\ Two(call[c].op) <= w
  BY <1>2, <1>3, <1>4 DEF One, Two, Owes, OwesTwo
<1> QED
  BY <1>2, <1>5, <1>6 DEF Debt

\* A step of one call keeps its loaders covered if it takes no more of them than
\* the call owes less.
LEMMA Keeps ==
    ASSUME Inner, TypeOK, NEW c \in Call, call' \in [Call -> CallState],
           \A d \in Call \ {c} : call'[d] = call[d],
           Good(nav'),
           Loaders(nav) + Debt(call'[c].op) <= Loaders(nav') + Debt(call[c].op)
    PROVE  Inner'
<1>1. PICK rest \in Nat :
              /\ Cardinality(Owes) + Cardinality(OwesTwo)
                     = rest + Debt(call[c].op)
              /\ Cardinality(Owes') + Cardinality(OwesTwo')
                     = rest + Debt(call'[c].op)
  BY DebtOfOne
<1>2. /\ Debt(call[c].op) \in Nat /\ Debt(call'[c].op) \in Nat
      /\ Loaders(nav) \in Nat /\ Loaders(nav') \in Nat
  BY GoodFacts DEF Debt, One, Two, Inner
<1>3. Cardinality(Owes) + Cardinality(OwesTwo) <= Loaders(nav)
  BY DEF Inner, LoadersCoverCalls
<1>4. Cardinality(Owes') + Cardinality(OwesTwo') <= Loaders(nav')
  BY <1>1, <1>2, <1>3
<1> QED
  BY <1>4 DEF Inner, LoadersCoverCalls, Good

\* So does a step of none that takes no loader.
LEMMA KeepsCalls ==
    ASSUME Inner, UNCHANGED call, Good(nav'), Loaders(nav) <= Loaders(nav')
    PROVE  Inner'
<1>1. Owes' = Owes /\ OwesTwo' = OwesTwo
  BY DEF Owes, OwesTwo
<1>2. /\ Cardinality(Owes) \in Nat /\ Cardinality(OwesTwo) \in Nat
      /\ Loaders(nav) \in Nat /\ Loaders(nav') \in Nat
  BY SignUpAssumption, FS_Subset, FS_CardinalityType, GoodFacts
     DEF SignUpAssumption, Owes, OwesTwo, Inner
<1>3. Cardinality(Owes) + Cardinality(OwesTwo) <= Loaders(nav)
  BY DEF Inner, LoadersCoverCalls
<1>4. Cardinality(Owes') + Cardinality(OwesTwo') <= Loaders(nav')
  BY <1>1, <1>2, <1>3
<1> QED
  BY <1>4 DEF Inner, LoadersCoverCalls, Good

\* What the ways to go on do to a call.
LEMMA CallGoes ==
    ASSUME Inner, NEW c \in Call, NEW op \in Ops, Goes(c, op) \/ (Ends(c) /\ op = "idle")
    PROVE  /\ call' \in [Call -> CallState] /\ call'[c].op = op
           /\ \A d \in Call \ {c} : call'[d] = call[d]
<1>1. Idle \in CallState
  BY DEF Idle, CallState, Ops
<1> QED
  BY <1>1 DEF Inner, Goes, Ends, CallState, Idle

LEMMA CallStarts ==
    ASSUME Inner, Others, NEW c \in Call, NEW op \in Ops,
           NEW by \in {None, "code", "button"}, NEW at \in Call \cup {None},
           Start(c, op, by, at)
    PROVE  /\ call' \in [Call -> CallState] /\ call'[c].op = op
           /\ \A d \in Call \ {c} : call'[d] = call[d]
           /\ Debt(call[c].op) = 0
           /\ asks' \in 0..MaxAsks /\ overlapped' \in BOOLEAN
<1>1. /\ call' \in [Call -> CallState] /\ call'[c].op = op
      /\ \A d \in Call \ {c} : call'[d] = call[d]
  BY DEF Inner, Start, CallState
<1>2. Debt(call[c].op) = 0
  BY DEF Start, At, Debt, One, Two
<1>3. asks' \in 0..MaxAsks
  BY SignUpAssumption DEF SignUpAssumption, Others, Start
<1>4. overlapped' \in BOOLEAN
  BY DEF Others, Start
<1> QED
  BY <1>1, <1>2, <1>3, <1>4

\* hideLoader, for a call that owes as many.
LEMMA Hidden ==
    ASSUME Inner, TypeOK, NEW c \in Call, NEW n \in {1, 2}, NEW op \in {"idle", "check"},
           n <= Debt(call[c].op), Hides(c, n, op)
    PROVE  Inner'
<1>1. Good(nav) /\ n <= Loaders(nav) /\ Loaders(nav) \in Nat /\ Debt(call[c].op) \in Nat
  BY HasItsLoaders, GoodFacts DEF Inner
<1>2. PICK pops \in HideOutcomes(nav) :
        IF pops
        THEN /\ nav' = IF n = 1 THEN Popped(nav) ELSE Popped(Popped(nav))
             /\ IF op = "idle" THEN Ends(c) ELSE Goes(c, op)
        ELSE Ends(c) /\ UNCHANGED nav
  BY DEF Hides
<1>3. PICK to \in {"idle", "check"} : Goes(c, to) \/ (Ends(c) /\ to = "idle")
  BY <1>2
<1>4. /\ call' \in [Call -> CallState] /\ call'[c].op = to
      /\ \A d \in Call \ {c} : call'[d] = call[d]
  BY <1>3, CallGoes DEF Ops
<1>5. Debt(call'[c].op) = 0
  BY <1>3, <1>4 DEF Debt, One, Two
<1>6. /\ Good(Popped(nav)) /\ Loaders(Popped(nav)) \in Nat
      /\ Loaders(nav) <= Loaders(Popped(nav)) + 1
  BY <1>1, GoodPopped
<1>7. Good(nav') /\ Loaders(nav') \in Nat /\ Loaders(nav) <= Loaders(nav') + n
  <2>1. CASE nav' = nav
    BY <1>1, <2>1
  <2>2. CASE n = 1 /\ nav' = Popped(nav)
    BY <1>6, <2>2
  <2>3. CASE n = 2 /\ nav' = Popped(Popped(nav))
    <3>1. Loaders(Popped(nav)) >= 1
      BY <1>1, <1>6, <2>3
    <3>2. /\ Good(Popped(Popped(nav))) /\ Loaders(Popped(Popped(nav))) \in Nat
          /\ Loaders(Popped(nav)) <= Loaders(Popped(Popped(nav))) + 1
      BY <1>6, <3>1, GoodPopped
    <3> QED
      BY <1>1, <1>6, <2>3, <3>2
  <2> QED
    BY <1>2, <2>1, <2>2, <2>3
<1>8. Loaders(nav) + Debt(call'[c].op) <= Loaders(nav') + Debt(call[c].op)
  BY <1>1, <1>5, <1>7
<1> QED
  BY <1>4, <1>7, <1>8, Keeps
-----------------------------------------------------------------------------
LEMMA Initially == Init => IInv
<1> SUFFICES ASSUME Init PROVE IInv
  OBVIOUS
<1>1. /\ nav \in Navigator(Route) /\ nav.stack = <<"form">>
  BY DEF Init, NavigatorAt, Navigator, Route
<1>2. Good(nav)
  BY <1>1 DEF Good
<1>3. call \in [Call -> CallState] /\ Owes = {} /\ OwesTwo = {}
  BY DEF Init, Idle, CallState, Ops, Owes, OwesTwo
<1>4. Cardinality(Owes) + Cardinality(OwesTwo) <= Loaders(nav)
  BY <1>2, <1>3, FS_EmptySet, GoodFacts
<1>5. Others
  <2>1. asks \in 0..MaxAsks
    BY SignUpAssumption DEF Init, SignUpAssumption
  <2> QED
    BY <2>1 DEF Init, Others, Model
<1> QED
  BY <1>2, <1>3, <1>4, <1>5, Parts DEF Inner, LoadersCoverCalls, Good

\* An event that starts a call, under a loader or none.
LEMMA StartsUnderLoader ==
    ASSUME IInv, NEW c \in Call, NEW op \in Ops, Debt(op) = 1,
           NEW by \in {None, "code", "button"}, NEW at \in Call \cup {None},
           Start(c, op, by, at), nav' = WithLoader(nav)
    PROVE  Inner' /\ asks' \in 0..MaxAsks /\ overlapped' \in BOOLEAN
<1>1. Inner /\ Others /\ TypeOK
  BY Parts DEF IInv
<1>2. /\ call' \in [Call -> CallState] /\ call'[c].op = op
      /\ \A d \in Call \ {c} : call'[d] = call[d]
      /\ Debt(call[c].op) = 0
      /\ asks' \in 0..MaxAsks /\ overlapped' \in BOOLEAN
  BY <1>1, CallStarts
<1>3. /\ Good(nav') /\ Loaders(nav') = Loaders(nav) + 1 /\ Loaders(nav) \in Nat
  BY <1>1, GoodWithLoader, GoodFacts DEF Inner
<1>4. Loaders(nav) + Debt(call'[c].op) <= Loaders(nav') + Debt(call[c].op)
  BY <1>2, <1>3
<1> QED
  BY <1>1, <1>2, <1>3, <1>4, Keeps

\* A call that goes on, leaving all routes, owes no more than before.
LEMMA GoesOn ==
    ASSUME Inner, TypeOK, NEW c \in Call, NEW op \in Ops,
           Goes(c, op) \/ (Ends(c) /\ op = "idle"),
           Good(nav'), Loaders(nav) + Debt(op) <= Loaders(nav') + Debt(call[c].op)
    PROVE  Inner'
<1>1. /\ call' \in [Call -> CallState] /\ call'[c].op = op
      /\ \A d \in Call \ {c} : call'[d] = call[d]
  BY CallGoes
<1> QED
  BY <1>1, Keeps

LEMMA NextTapKeeps ==
    ASSUME IInv, NEW c \in Call, Next_Tap(c)
    PROVE  Inner' /\ Others'
<1>1. Inner /\ Others /\ TypeOK /\ Start(c, "submit", None, None)
  BY Parts DEF IInv, Next_Tap
<1>2. /\ call' \in [Call -> CallState] /\ call'[c].op = "submit"
      /\ \A d \in Call \ {c} : call'[d] = call[d]
      /\ Debt(call[c].op) = 0
      /\ asks' \in 0..MaxAsks /\ overlapped' \in BOOLEAN
  BY <1>1, CallStarts DEF Ops
<1>3. Good(nav') /\ Loaders(nav') = Loaders(nav) /\ Loaders(nav) \in Nat
  BY <1>1, GoodFacts DEF Next_Tap, Inner
<1>4. Debt(call'[c].op) = 0
  BY <1>2 DEF Debt, One, Two
<1>5. Inner'
  BY <1>1, <1>2, <1>3, <1>4, Keeps
<1> QED
  BY <1>1, <1>2, <1>5 DEF Others, Next_Tap, models

LEMMA SendOtpAPiKeeps ==
    ASSUME IInv, NEW c \in Call, SendOtpAPi(c)
    PROVE  Inner' /\ Others'
<1>1. Inner /\ Others /\ TypeOK /\ Goes(c, "send")
  BY Parts DEF IInv, SendOtpAPi
<1>2. Good(nav') /\ Loaders(nav') = Loaders(nav) + 1 /\ Loaders(nav) \in Nat
  BY <1>1, GoodWithLoader, GoodFacts DEF SendOtpAPi, Inner
<1>3. Debt(call[c].op) = 0 /\ Debt("send") = 1
  BY DEF SendOtpAPi, At, Debt, One, Two
<1>4. Inner'
  BY <1>1, <1>2, <1>3, GoesOn DEF Ops
<1> QED
  BY <1>1, <1>4 DEF Others, SendOtpAPi, models, history

LEMMA ResendKeeps ==
    ASSUME IInv, NEW c \in Call, Resend(c)
    PROVE  Inner' /\ Others'
<1>1. Others /\ Debt("resend") = 1
  BY Parts DEF Debt, One, Two
<1>2. /\ Start(c, "resend", None, None) /\ nav' = WithLoader(nav)
      /\ UNCHANGED <<models, unanswered, wentBack>> /\ tried' = TRUE
  BY DEF Resend
<1>3. resend_otp' \subseteq Call
  BY <1>1 DEF Resend, Verifies, Others
<1>4. Inner' /\ asks' \in 0..MaxAsks /\ overlapped' \in BOOLEAN
  BY <1>1, <1>2, StartsUnderLoader DEF Ops
<1> QED
  BY <1>1, <1>2, <1>3, <1>4 DEF Others, models

LEMMA CodeChangedKeeps ==
    ASSUME IInv, NEW c \in Call, CodeChanged(c) \/ Verify(c)
    PROVE  Inner' /\ Others'
<1>1. Others /\ Debt("verify") = 1
  BY Parts DEF Debt, One, Two
<1>2. PICK v \in Call, by \in {"code", "button"} :
          /\ Start(c, "verify", by, v) /\ nav' = WithLoader(nav)
          /\ UNCHANGED <<resend_otp, models, unanswered, wentBack>>
          /\ tried' = TRUE
  BY DEF CodeChanged, Verify, Verifies
<1>3. Inner' /\ asks' \in 0..MaxAsks /\ overlapped' \in BOOLEAN
  BY <1>1, <1>2, StartsUnderLoader DEF Ops
<1> QED
  BY <1>1, <1>2, <1>3 DEF Others, models

LEMMA SendAnsweredKeeps ==
    ASSUME IInv, NEW c \in Call, SendAnswered(c)
    PROVE  Inner' /\ Others'
<1>1. Inner /\ Others /\ TypeOK
  BY Parts DEF IInv
<1>2. Debt(call[c].op) = 1 /\ Debt("await") = 1
  BY DEF SendAnswered, At, Debt, One, Two
<1>3. sendOtpModel' \in Model /\ UNCHANGED <<signUpModel, asks, history>>
  BY DEF SendAnswered, Model
<1>4. CASE Hides(c, 1, "idle") /\ UNCHANGED resend_otp
  <2>1. Inner'
    BY <1>1, <1>2, <1>4, Hidden
  <2> QED
    BY <1>1, <1>3, <1>4, <2>1 DEF Others, history
<1>5. CASE /\ nav' = OverLoader(c) /\ Goes(c, "await")
           /\ resend_otp' = resend_otp \cup {c}
  <2>1. c \in Route /\ "await" \in Ops
    BY DEF Route, Ops
  <2>2. Good(nav') /\ Loaders(nav') >= Loaders(nav)
    BY <1>1, <1>5, <2>1, GoodPushed DEF OverLoader, Inner
  <2>3. Loaders(nav) \in Nat /\ Loaders(nav') \in Nat
    BY <1>1, <2>2, GoodFacts DEF Inner
  <2>4. Inner'
    BY <1>1, <1>2, <1>5, <2>1, <2>2, <2>3, GoesOn
  <2> QED
    BY <1>1, <1>3, <1>5, <2>4 DEF Others, history
<1> QED
  BY <1>4, <1>5 DEF SendAnswered, GetToVerifyOtp

LEMMA ReturnKeeps ==
    ASSUME IInv, NEW c \in Call, Return(c)
    PROVE  Inner' /\ Others'
<1>1. Inner /\ Others /\ TypeOK
  BY Parts DEF IInv
<1>2. Debt(call[c].op) = 1 /\ Hides(c, 1, "idle")
  BY DEF Return, Returned, At, Debt, One, Two
<1>3. Inner'
  BY <1>1, <1>2, Hidden
<1> QED
  BY <1>1, <1>3 DEF Others, Return, models, history

LEMMA VerifyAnsweredKeeps ==
    ASSUME IInv, NEW c \in Call, VerifyAnswered(c)
    PROVE  Inner' /\ Others'
<1>1. Inner /\ Others /\ TypeOK
  BY Parts DEF IInv
<1>2. Debt(call[c].op) = 1 /\ Debt("signUp") = 2
  BY DEF VerifyAnswered, At, Debt, One, Two
<1>3. ASSUME Goes(c, "signUp") /\ nav' = WithLoader(nav)
      PROVE  Inner'
  <2>1. Good(nav') /\ Loaders(nav') = Loaders(nav) + 1 /\ Loaders(nav) \in Nat
    BY <1>1, <1>3, GoodWithLoader, GoodFacts DEF Inner
  <2> QED
    BY <1>1, <1>2, <1>3, <2>1, GoesOn DEF Ops
<1>4. ASSUME Hides(c, 1, "check")
      PROVE  Inner'
  BY <1>1, <1>2, <1>4, Hidden
<1>5. Inner'
  BY <1>3, <1>4 DEF VerifyAnswered
<1> QED
  BY <1>1, <1>5 DEF Others, VerifyAnswered, models, history

LEMMA SignUpAnsweredKeeps ==
    ASSUME IInv, NEW c \in Call, SignUpAnswered(c) \/ Kept(c)
    PROVE  Inner' /\ Others'
<1>1. Inner /\ Others /\ TypeOK
  BY Parts DEF IInv
<1>2. Debt(call[c].op) = 2 /\ Debt("kept") = 2
  BY DEF SignUpAnswered, Kept, At, Debt, One, Two
<1>3. ASSUME Goes(c, "kept") /\ UNCHANGED nav
      PROVE  Inner'
  <2>1. Good(nav') /\ Loaders(nav') = Loaders(nav) /\ Loaders(nav) \in Nat
    BY <1>1, <1>3, GoodFacts DEF Inner
  <2> QED
    BY <1>1, <1>2, <1>3, <2>1, GoesOn DEF Ops
<1>4. ASSUME HidesBoth(c)
      PROVE  Inner'
  BY <1>1, <1>2, <1>4, Hidden DEF HidesBoth
<1>5. Inner'
  BY <1>3, <1>4 DEF SignUpAnswered, Kept
<1>6. Others'
  BY <1>1 DEF Others, SignUpAnswered, Kept, models, history, Model
<1> QED
  BY <1>5, <1>6

LEMMA UnansweredKeeps ==
    ASSUME IInv, NEW c \in Call, Unanswered(c)
    PROVE  Inner' /\ Others'
<1>1. Inner /\ Others /\ TypeOK
  BY Parts DEF IInv
<1>2. PICK op \in {"idle", "check"} : Goes(c, op) \/ (Ends(c) /\ op = "idle")
  BY DEF Unanswered
<1>3. Good(nav') /\ Loaders(nav') = Loaders(nav) /\ Loaders(nav) \in Nat
  BY <1>1, GoodFacts DEF Unanswered, Inner
<1>4. Debt(op) = 0 /\ Debt(call[c].op) \in Nat
  BY DEF Debt, One, Two
<1>5. Inner'
  BY <1>1, <1>2, <1>3, <1>4, GoesOn DEF Ops
<1> QED
  BY <1>1, <1>5 DEF Others, Unanswered, models

LEMMA CheckKeeps ==
    ASSUME IInv, NEW c \in Call, Check(c)
    PROVE  Inner' /\ Others'
<1>1. Inner /\ Others /\ TypeOK /\ Ends(c)
  BY Parts DEF IInv, Check
<1>2. "scan" \in Route /\ Sheet \in Route
  BY DEF Route
<1>3. Good(nav') /\ Loaders(nav) <= Loaders(nav')
  <2>1. Good(nav) /\ Loaders(nav) <= Loaders(nav)
    BY <1>1, GoodFacts DEF Inner
  <2>2. \/ nav' = nav \/ nav' = Pushed(nav, "scan") \/ nav' = Pushed(nav, Sheet)
    BY DEF Check
  <2> QED
    BY <1>2, <2>1, <2>2, GoodPushed
<1>4. /\ Debt("idle") = 0 /\ Debt(call[c].op) = 0
      /\ Loaders(nav) \in Nat /\ Loaders(nav') \in Nat
  BY <1>1, <1>3, GoodFacts DEF Debt, One, Two, Check, At, Inner
<1>5. Inner'
  BY <1>1, <1>3, <1>4, GoesOn DEF Ops
<1> QED
  BY <1>1, <1>5 DEF Others, Check, models, history

LEMMA NavigationKeeps ==
    ASSUME IInv, Proceed \/ Back
    PROVE  Inner' /\ Others'
<1>1. Inner /\ Others /\ UNCHANGED call
  BY Parts DEF Proceed, Back
<1>2. Good(nav') /\ Loaders(nav) <= Loaders(nav')
  <2>1. CASE Proceed
    BY <1>1, <2>1, GoodPushed DEF Proceed, Route, Inner
  <2>2. CASE Back
    <3>1. Good(nav) /\ Top(nav) # "form" /\ Top(nav) # Loader /\ nav' = Popped(nav)
      BY <1>1, <2>2 DEF Back, Inner
    <3>2. /\ Good(Popped(nav)) /\ Loaders(Popped(nav)) \in Nat
          /\ Loaders(Popped(nav)) = Loaders(nav)
      BY <3>1, GoodPopped
    <3> QED
      BY <3>1, <3>2
  <2> QED
    BY <2>1, <2>2
<1>3. Inner'
  BY <1>1, <1>2, KeepsCalls
<1>4. Others'
  BY <1>1 DEF Others, Proceed, Back, models, history
<1> QED
  BY <1>3, <1>4

LEMMA CountdownKeeps ==
    ASSUME IInv, NEW v \in Call, CountdownEnds(v)
    PROVE  Inner' /\ Others'
<1>1. Inner /\ Others /\ UNCHANGED <<nav, call>>
  BY Parts DEF CountdownEnds
<1>2. Inner'
  BY <1>1, GoodFacts, KeepsCalls DEF Inner
<1> QED
  BY <1>1, <1>2 DEF Others, CountdownEnds, models, history
-----------------------------------------------------------------------------
LEMMA Inductive == IInv /\ [Next]_vars => IInv'
<1> SUFFICES ASSUME IInv, [Next]_vars PROVE IInv'
  OBVIOUS
<1>1. CASE UNCHANGED vars
  BY <1>1 DEF vars, models, history, IInv, TypeOK, LoadersCoverCalls, Owes, OwesTwo
<1>2. CASE Proceed \/ Back
  BY <1>2, NavigationKeeps, PartsNext
<1>3. ASSUME NEW c \in Call, Microtask(c)
      PROVE  IInv'
  BY <1>3, ReturnKeeps, CheckKeeps, PartsNext DEF Microtask
<1>4. ASSUME NEW c \in Call,
             \/ Next_Tap(c) \/ SendOtpAPi(c) \/ Resend(c) \/ CountdownEnds(c)
             \/ CodeChanged(c) \/ Verify(c) \/ Answer(c) \/ Kept(c)
      PROVE  IInv'
  <2>1. CASE Next_Tap(c) \/ SendOtpAPi(c) \/ Resend(c)
    BY <2>1, NextTapKeeps, SendOtpAPiKeeps, ResendKeeps, PartsNext
  <2>2. CASE CountdownEnds(c) \/ CodeChanged(c) \/ Verify(c)
    BY <2>2, CountdownKeeps, CodeChangedKeeps, PartsNext
  <2>3. CASE Answer(c) \/ Kept(c)
    BY <2>3, SendAnsweredKeeps, VerifyAnsweredKeeps, SignUpAnsweredKeeps,
       UnansweredKeeps, PartsNext DEF Answer
  <2> QED
    BY <1>4, <2>1, <2>2, <2>3
<1> QED
  BY <1>1, <1>2, <1>3, <1>4 DEF Next

LEMMA Always == Spec => []IInv
<1> QED
  BY Initially, Inductive, PTL DEF Spec

\* The state of the sign-up is of its type: every navigator, call and model the
\* handlers leave (sign_up_controller.dart 23-330).
THEOREM TypeCorrect == Spec => []TypeOK
<1>1. IInv => TypeOK
  BY DEF IInv
<1> QED
  BY <1>1, Always, PTL

\* However many calls overlap, and whatever is never answered, there is a loader
\* for every hideLoader that is to come, and the form is never popped
\* (sign_up_controller.dart 102-327).
THEOREM LoadersCoverCallsHolds == Spec => []LoadersCoverCalls
<1>1. IInv => LoadersCoverCalls
  BY DEF IInv
<1> QED
  BY <1>1, Always, PTL
-----------------------------------------------------------------------------
(***************************************************************************)
(* Who is left under a loader.  While no answer was lost, no calls have    *)
(* overlapped and VerifyOtp was not left after it asked for something, the *)
(* loaders on top are those of the one call under way.                     *)
(***************************************************************************)
Clean == ~unanswered /\ ~overlapped /\ ~wentBack

\* The k topmost routes are loaders, and the one below them is none.
Above(n, k) ==
    /\ k < Len(n.stack) /\ n.stack[Len(n.stack) - k] # Loader
    /\ \A i \in (Len(n.stack) - k + 1)..Len(n.stack) : n.stack[i] = Loader

\* GetX knows a page that is on top; over a loader there is a loader or VerifyOtp,
\* and over nothing the form.
Tidy(n) ==
    /\ IsPage(Top(n)) => n.current = Top(n)
    /\ \A i \in 2..Len(n.stack) : n.stack[i - 1] = Loader => n.stack[i] \in Call \cup {Loader}
    /\ \A i \in 2..Len(n.stack) : n.stack[i] # "form"

\* The one call under way has its loaders on top, the dialog among them.
Alone ==
    /\ \A c, d \in Busy : c = d
    /\ \A c \in Busy : /\ Above(nav, Debt(call[c].op))
                       /\ Debt(call[c].op) > 0 => nav.dialog = Len(nav.stack)

FormsLoader(n) == Len(n.stack) = 2 /\ n.stack[2] = Loader /\ n.dialog = 2

\* With none under way no loader is, but that of a VerifyOtp just left.
Clear ==
    /\ \A c \in Call : Returned(c) => Busy = {} /\ FormsLoader(nav)
    /\ Busy = {} /\ (\A c \in Call : ~Returned(c)) => Top(nav) # Loader

\* What the calls come from.
Origins ==
    /\ \A c \in Call :
        /\ call[c].op \in {"resend", "verify", "signUp", "kept", "check"} => tried
        /\ At(c, "submit") => Len(nav.stack) = 1
        /\ At(c, "send") => Len(nav.stack) = 2
        /\ At(c, "resend") => nav.current \in Call
    /\ \A c, d \in Call : At(c, "await") =>
        (At(d, "await") => c = d) /\ ~At(d, "submit") /\ ~At(d, "send")
    /\ \A v \in Verifies : At(v, "await")

\* Before VerifyOtp asks for anything it is over the form's loader, if anywhere.
Untried ==
    ~tried => /\ ~On(nav, "scan") /\ ~On(nav, Sheet)
              /\ Top(nav) \in Call =>
                    Len(nav.stack) = 3 /\ nav.stack[2] = Loader /\ nav.dialog = 2

Lined == Tidy(nav) /\ Alone /\ Clear /\ Origins /\ Untried

CInv == Clean => Lined
-----------------------------------------------------------------------------
LEMMA Names ==
    /\ Call \cap {"form", "scan", Sheet, None, Loader} = {}
    /\ Overlays = {Loader, Sheet} /\ Loader # Sheet /\ Loader # "form"
    /\ Loader # "scan"
BY SignUpAssumption DEF SignUpAssumption, Loader, Sheet, None

LEMMA PushedPlaces ==
    ASSUME NEW n, Good(n), NEW r \in Route
    PROVE  /\ Len(n.stack) \in Nat /\ Len(n.stack) >= 1 /\ n.stack[1] = "form"
           /\ Len(Pushed(n, r).stack) = Len(n.stack) + 1
           /\ Pushed(n, r).stack[Len(n.stack) + 1] = r
           /\ \A i \in 1..Len(n.stack) : Pushed(n, r).stack[i] = n.stack[i]
           /\ Pushed(n, r).dialog = n.dialog
           /\ Pushed(n, r).current = IF IsPage(r) THEN r ELSE n.current
           /\ \A x : On(Pushed(n, r), x) <=> On(n, x) \/ x = r
<1>1. /\ n \in Navigator(Route) /\ n.stack \in Seq(Route)
      /\ Len(n.stack) \in Nat /\ Len(n.stack) >= 1 /\ n.stack[1] = "form"
  BY GoodFacts DEF Good, Navigator
<1>2. /\ Len(Pushed(n, r).stack) = Len(n.stack) + 1
      /\ Pushed(n, r).stack = Append(n.stack, r)
      /\ \A i \in 1..Len(n.stack) : Pushed(n, r).stack[i] = n.stack[i]
      /\ \A x : On(Pushed(n, r), x) <=> On(n, x) \/ x = r
  BY <1>1, PushedFacts
<1>3. Append(n.stack, r)[Len(n.stack) + 1] = r
  BY <1>1, AppendProperties
<1>4. /\ Pushed(n, r).dialog = n.dialog
      /\ Pushed(n, r).current = IF IsPage(r) THEN r ELSE n.current
  BY <1>1 DEF Pushed, Navigator
<1> QED
  BY <1>1, <1>2, <1>3, <1>4

LEMMA LoaderPlaces ==
    ASSUME NEW n, Good(n)
    PROVE  /\ Len(n.stack) \in Nat /\ Len(n.stack) >= 1 /\ n.stack[1] = "form"
           /\ Len(WithLoader(n).stack) = Len(n.stack) + 1
           /\ WithLoader(n).stack[Len(n.stack) + 1] = Loader
           /\ \A i \in 1..Len(n.stack) : WithLoader(n).stack[i] = n.stack[i]
           /\ WithLoader(n).dialog = Len(n.stack) + 1
           /\ WithLoader(n).current = n.current
           /\ \A x : On(WithLoader(n), x) <=> On(n, x) \/ x = Loader
<1>1. /\ n \in Navigator(Route) /\ Loader \in Route /\ ~IsPage(Loader)
      /\ Len(n.stack) \in Nat
  BY Names, GoodFacts DEF Good, Route, IsPage
<1>2. /\ Len(WithLoader(n).stack) = Len(n.stack) + 1
      /\ WithLoader(n).stack = Append(n.stack, Loader)
      /\ \A i \in 1..Len(n.stack) : WithLoader(n).stack[i] = n.stack[i]
      /\ \A x : On(WithLoader(n), x) <=> On(n, x) \/ x = Loader
  BY <1>1, WithLoaderFacts
<1>3. /\ Append(n.stack, Loader) = Pushed(n, Loader).stack
      /\ Pushed(n, Loader) \in Navigator(Route)
  BY <1>1, PushedFacts
<1>4. /\ WithLoader(n).dialog = Len(n.stack) + 1
      /\ WithLoader(n).current = Pushed(n, Loader).current
  BY <1>3 DEF WithLoader, Navigator
<1> QED
  BY <1>1, <1>2, <1>3, <1>4, PushedPlaces

LEMMA PoppedPlaces ==
    ASSUME NEW n, Good(n), Len(n.stack) >= 2
    PROVE  /\ Len(n.stack) \in Nat /\ Good(Popped(n))
           /\ Len(Popped(n).stack) = Len(n.stack) - 1
           /\ \A i \in 1..(Len(n.stack) - 1) : Popped(n).stack[i] = n.stack[i]
           /\ n.dialog # Len(n.stack) => Popped(n).dialog = n.dialog
           /\ IsPage(Top(Popped(n))) => Popped(n).current = Top(Popped(n))
           /\ \A x : On(Popped(n), x) => On(n, x)
           /\ \A x : On(n, x) /\ x # Top(n) => On(Popped(n), x)
<1>1. n \in Navigator(Route) /\ Len(n.stack) \in Nat /\ n.stack[1] = "form"
  BY GoodFacts DEF Good
<1>2. /\ Popped(n) \in Navigator(Route)
      /\ Len(Popped(n).stack) = Len(n.stack) - 1
      /\ \A i \in 1..(Len(n.stack) - 1) : Popped(n).stack[i] = n.stack[i]
      /\ \A x : On(Popped(n), x) => On(n, x)
      /\ \A x : On(n, x) /\ x # Top(n) => On(Popped(n), x)
  BY <1>1, PoppedFacts
<1>3. Good(Popped(n))
  BY <1>1, <1>2 DEF Good
<1>4. /\ n.dialog # Len(n.stack) => Popped(n).dialog = n.dialog
      /\ IsPage(Last(Front(n.stack))) => Popped(n).current = Last(Front(n.stack))
      /\ Last(Front(n.stack)) = Top(Popped(n))
  BY DEF Popped, Top, Last
<1> QED
  BY <1>1, <1>2, <1>3, <1>4
-----------------------------------------------------------------------------
LEMMA AboveNone ==
    ASSUME NEW n, Good(n)
    PROVE  Above(n, 0) <=> Top(n) # Loader
<1>1. Len(n.stack) \in Nat /\ Len(n.stack) >= 1
  BY GoodFacts DEF Good
<1> QED
  BY <1>1 DEF Above, Top

LEMMA AboveSome ==
    ASSUME NEW n, Good(n), NEW k \in Nat, k > 0, Above(n, k)
    PROVE  Top(n) = Loader /\ Len(n.stack) >= 2
<1>1. Len(n.stack) \in Nat /\ Len(n.stack) >= 1
  BY GoodFacts DEF Good
<1> QED
  BY <1>1 DEF Above, Top

LEMMA AboveMore ==
    ASSUME NEW n, Good(n), NEW k \in Nat, Above(n, k)
    PROVE  /\ Above(WithLoader(n), k + 1)
           /\ WithLoader(n).dialog = Len(WithLoader(n).stack)
<1> DEFINE l == Len(n.stack)
           s == n.stack
           t == WithLoader(n).stack
<1>1. /\ l \in Nat /\ l >= 1 /\ Len(t) = l + 1 /\ t[l + 1] = Loader
      /\ \A i \in 1..l : t[i] = s[i]
      /\ WithLoader(n).dialog = l + 1
  BY LoaderPlaces
<1>2. k < l /\ s[l - k] # Loader /\ \A i \in (l - k + 1)..l : s[i] = Loader
  BY DEF Above
<1> HIDE DEF l, s, t
<1>3. (l + 1) - (k + 1) = l - k /\ l - k \in 1..l
  BY <1>1, <1>2
<1>4. ASSUME NEW i \in (l - k + 1)..(l + 1) PROVE t[i] = Loader
  <2>1. CASE i = l + 1
    BY <1>1, <2>1
  <2>2. CASE i # l + 1
    <3>1. i \in (l - k + 1)..l /\ i \in 1..l
      BY <1>1, <1>2, <2>2
    <3> QED
      BY <1>1, <1>2, <3>1
  <2> QED
    BY <2>1, <2>2
<1>5. k + 1 < Len(t) /\ t[Len(t) - (k + 1)] # Loader
  BY <1>1, <1>2, <1>3
<1>6. Len(t) - (k + 1) + 1 = l - k + 1
  BY <1>1, <1>2
<1> QED
  BY <1>1, <1>4, <1>5, <1>6 DEF Above, t

LEMMA AboveLess ==
    ASSUME NEW n, Good(n), NEW k \in Nat, Above(n, k + 1)
    PROVE  Above(Popped(n), k) /\ Good(Popped(n))
<1> DEFINE l == Len(n.stack)
           s == n.stack
           t == Popped(n).stack
<1>1. l \in Nat
  BY GoodFacts DEF Good
<1>2. /\ k + 1 < l /\ s[l - (k + 1)] # Loader
      /\ \A i \in (l - (k + 1) + 1)..l : s[i] = Loader
  BY DEF Above
<1>3. l >= 2
  BY <1>1, <1>2
<1>4. Len(t) = l - 1 /\ Good(Popped(n)) /\ \A i \in 1..(l - 1) : t[i] = s[i]
  BY <1>3, PoppedPlaces
<1> HIDE DEF l, s, t
<1>5. (l - 1) - k = l - (k + 1) /\ l - (k + 1) \in 1..(l - 1)
  BY <1>1, <1>2
<1>6. k < Len(t) /\ t[Len(t) - k] # Loader
  BY <1>1, <1>2, <1>4, <1>5
<1>7. ASSUME NEW i \in (Len(t) - k + 1)..Len(t) PROVE t[i] = Loader
  <2>1. i \in 1..(l - 1) /\ i \in (l - (k + 1) + 1)..l
    BY <1>1, <1>2, <1>4
  <2> QED
    BY <1>2, <1>4, <2>1
<1> QED
  BY <1>4, <1>6, <1>7 DEF Above, t

\* A navigator one route longer is tidy if that route is in its place.
LEMMA TidyLonger ==
    ASSUME NEW n, NEW m, Tidy(n), Len(n.stack) \in Nat, Len(n.stack) >= 1,
           Len(m.stack) = Len(n.stack) + 1,
           \A i \in 1..Len(n.stack) : m.stack[i] = n.stack[i],
           Top(m) # "form", Top(m) \in Call \cup {Loader} \/ Top(n) # Loader,
           IsPage(Top(m)) => m.current = Top(m)
    PROVE  Tidy(m)
<1> DEFINE l == Len(n.stack)
           s == n.stack
           t == m.stack
<1>1. \A i \in 2..l : s[i - 1] = Loader => s[i] \in Call \cup {Loader}
  BY DEF Tidy
<1>2. \A i \in 2..l : s[i] # "form"
  BY DEF Tidy
<1>3. /\ l \in Nat /\ l >= 1 /\ Len(t) = l + 1 /\ \A i \in 1..l : t[i] = s[i]
      /\ t[l + 1] # "form"
      /\ t[l + 1] \in Call \cup {Loader} \/ s[l] # Loader
  BY DEF Top
<1> HIDE DEF l, s, t
<1>4. ASSUME NEW i \in 2..(l + 1)
      PROVE  /\ t[i - 1] = Loader => t[i] \in Call \cup {Loader}
             /\ t[i] # "form"
  <2>1. i - 1 \in 1..l
    BY <1>3
  <2>2. CASE i = l + 1
    <3>1. i - 1 = l /\ t[i - 1] = s[l]
      BY <1>3, <2>1, <2>2
    <3> QED
      BY <1>3, <2>2, <3>1
  <2>3. CASE i # l + 1
    <3>1. i \in 2..l /\ i \in 1..l
      BY <1>3, <2>3
    <3> QED
      BY <1>1, <1>2, <1>3, <2>1, <3>1
  <2> QED
    BY <2>2, <2>3
<1> QED
  BY <1>3, <1>4 DEF Tidy, t

LEMMA TidyPushed ==
    ASSUME NEW n, Good(n), Tidy(n), NEW r \in Route \ {"form", Loader},
           r \in Call \/ Top(n) # Loader
    PROVE  Tidy(Pushed(n, r)) /\ Top(Pushed(n, r)) = r
<1>1. /\ Len(n.stack) \in Nat /\ Len(n.stack) >= 1
      /\ Len(Pushed(n, r).stack) = Len(n.stack) + 1
      /\ Pushed(n, r).stack[Len(n.stack) + 1] = r
      /\ \A i \in 1..Len(n.stack) : Pushed(n, r).stack[i] = n.stack[i]
      /\ Pushed(n, r).current = IF IsPage(r) THEN r ELSE n.current
  BY PushedPlaces
<1>2. Top(Pushed(n, r)) = r
  BY <1>1 DEF Top
<1> QED
  BY <1>1, <1>2, TidyLonger

LEMMA TidyWithLoader ==
    ASSUME NEW n, Good(n), Tidy(n)
    PROVE  Tidy(WithLoader(n)) /\ Top(WithLoader(n)) = Loader
<1>1. /\ Len(n.stack) \in Nat /\ Len(n.stack) >= 1
      /\ Len(WithLoader(n).stack) = Len(n.stack) + 1
      /\ WithLoader(n).stack[Len(n.stack) + 1] = Loader
      /\ \A i \in 1..Len(n.stack) : WithLoader(n).stack[i] = n.stack[i]
  BY LoaderPlaces
<1>2. ~IsPage(Loader) /\ Loader # "form"
  BY Names DEF IsPage
<1>3. Top(WithLoader(n)) = Loader
  BY <1>1 DEF Top
<1> QED
  BY <1>1, <1>2, <1>3, TidyLonger

LEMMA TidyPopped ==
    ASSUME NEW n, Good(n), Tidy(n), Len(n.stack) >= 2
    PROVE  Tidy(Popped(n))
<1> DEFINE l == Len(n.stack)
           s == n.stack
           t == Popped(n).stack
<1>1. /\ l \in Nat /\ l >= 2 /\ Len(t) = l - 1
      /\ \A i \in 1..(l - 1) : t[i] = s[i]
      /\ IsPage(Top(Popped(n))) => Popped(n).current = Top(Popped(n))
  BY PoppedPlaces
<1>2. \A i \in 2..l : s[i - 1] = Loader => s[i] \in Call \cup {Loader}
  BY DEF Tidy
<1>3. \A i \in 2..l : s[i] # "form"
  BY DEF Tidy
<1> HIDE DEF l, s, t
<1>4. ASSUME NEW i \in 2..(l - 1)
      PROVE  /\ t[i - 1] = Loader => t[i] \in Call \cup {Loader}
             /\ t[i] # "form"
  <2>1. i - 1 \in 1..(l - 1) /\ i \in 1..(l - 1) /\ i \in 2..l
    BY <1>1
  <2> QED
    BY <1>1, <1>2, <1>3, <2>1
<1> QED
  BY <1>1, <1>4 DEF Tidy, t
-----------------------------------------------------------------------------
\* What is left once a step has let the only call under way go on to o, or none:
\* its loaders are on top, and VerifyOtp has asked for something.
LEMMA Settles ==
    ASSUME Lined, \A d \in Call : ~Returned(d), tried',
           Tidy(nav'), Good(nav'), Verifies' = Verifies,
           NEW c, NEW o \in {"idle", "check", "resend", "verify", "signUp", "kept"},
           c \in Call => call[c].op # "await", c \in Call \/ o = "idle",
           \A d \in Call : call'[d].op = IF d = c THEN o ELSE call[d].op,
           Busy \subseteq {c},
           Above(nav', Debt(o)), Debt(o) > 0 => nav'.dialog = Len(nav'.stack),
           o = "resend" => nav'.current \in Call
    PROVE  Lined'
<1>1. Busy' \subseteq {c} /\ \A d \in Busy' : d = c /\ call'[d].op = o
  BY DEF Busy
<1>2. \A d \in Call : /\ call'[d].op = "await" => d # c /\ call[d].op = "await"
                      /\ d # c => call'[d].op \in {"idle", "await"}
                      /\ d = c => call'[d].op = o
  BY DEF Busy
<1>3. Alone'
  BY <1>1 DEF Alone
<1>4. \A d \in Call : ~Returned(d)'
  BY <1>2 DEF Returned, At
<1>5. Busy' = {} => Top(nav') # Loader
  <2>1. CASE o = "idle"
    BY <2>1, AboveNone DEF Debt, One, Two
  <2>2. CASE o # "idle"
    BY <1>2, <2>2 DEF Busy
  <2> QED
    BY <2>1, <2>2
<1>6. Clear'
  BY <1>4, <1>5 DEF Clear
<1>7. Origins'
  <2>1. ASSUME NEW d \in Call
        PROVE  /\ call'[d].op # "submit" /\ call'[d].op # "send"
               /\ call'[d].op = "resend" => nav'.current \in Call
    BY <1>2
  <2>2. ASSUME NEW d \in Call, NEW e \in Call, call'[d].op = "await", call'[e].op = "await"
        PROVE  d = e
    BY <1>2, <2>2 DEF Lined, Origins, At
  <2>3. ASSUME NEW v \in Verifies' PROVE call'[v].op = "await"
    <3>1. v \in Call /\ call[v].op = "await"
      BY <2>3 DEF Lined, Origins, At, Verifies
    <3> QED
      BY <3>1
  <2> QED
    BY <2>1, <2>2, <2>3 DEF Origins, At
<1>8. Untried'
  BY DEF Untried
<1> QED
  BY <1>3, <1>6, <1>7, <1>8 DEF Lined

\* Back on the form with no call at all.
LEMMA Home ==
    ASSUME Lined, Tidy(nav'), Good(nav'), Len(nav'.stack) = 1,
           \A d \in Call : call'[d].op = "idle"
    PROVE  Lined'
<1>1. /\ nav'.stack[1] = "form" /\ Top(nav') = "form"
      /\ \A x : On(nav', x) => x = "form"
  BY DEF Good, Top, On, Range, Navigator
<1>2. Busy' = {} /\ Verifies' = {}
  BY <1>1, Names DEF Busy, Verifies, On
<1>3. Alone' /\ Clear' /\ Origins'
  BY <1>1, <1>2, Names DEF Alone, Clear, Origins, Returned, At
<1>4. Untried'
  BY <1>1, Names DEF Untried, Sheet
<1> QED
  BY <1>3, <1>4 DEF Lined

LEMMA Free ==
    ASSUME Lined, NoMicrotask, NEW c \in Call, NEW op, NEW by, NEW at,
           Start(c, op, by, at), ~overlapped'
    PROVE  /\ Busy = {} /\ Top(nav) # Loader /\ call[c].op = "idle"
           /\ \A d \in Call : ~Returned(d)
<1>1. Busy = {} /\ call[c].op = "idle"
  BY DEF Start, At
<1> QED
  BY <1>1 DEF NoMicrotask, Lined, Clear

\* hideLoader with its dialog on top of the stack.
LEMMA HidesOf ==
    ASSUME Inner, NEW c \in Call, NEW n \in {1, 2}, NEW op \in {"idle", "check"},
           nav.dialog = Len(nav.stack), Hides(c, n, op)
    PROVE  /\ nav' = IF n = 1 THEN Popped(nav) ELSE Popped(Popped(nav))
           /\ \A d \in Call : call'[d].op = IF d = c THEN op ELSE call[d].op
<1>1. nav.dialog # 0
  BY GoodFacts DEF Inner, Good
<1>2. /\ nav' = IF n = 1 THEN Popped(nav) ELSE Popped(Popped(nav))
      /\ IF op = "idle" THEN Ends(c) ELSE Goes(c, op)
  BY <1>1 DEF Hides, HideOutcomes
<1>3. Goes(c, op) \/ (Ends(c) /\ op = "idle")
  BY <1>2
<1>4. /\ call'[c].op = op /\ \A d \in Call \ {c} : call'[d] = call[d]
  BY <1>3, CallGoes DEF Ops
<1> QED
  BY <1>2, <1>4

\* Of the routes a step puts or takes, only VerifyOtp's are Verifies.
LEMMA VerifiesKept ==
    ASSUME Good(nav), NEW r \in Route \ Call, nav' = WithLoader(nav) \/ nav' = Pushed(nav, r)
    PROVE  Verifies' = Verifies
<1>1. \A x : On(nav', x) <=> On(nav, x) \/ x = IF nav' = WithLoader(nav) THEN Loader ELSE r
  BY LoaderPlaces, PushedPlaces
<1>2. Loader \notin Call
  BY Names
<1>3. \A x \in Call : On(nav', x) <=> On(nav, x)
  BY <1>1, <1>2
<1> QED
  BY <1>3 DEF Verifies, On

LEMMA VerifiesPopped ==
    ASSUME NEW n, Good(n), Len(n.stack) >= 2, Top(n) \notin Call
    PROVE  Range(Popped(n).stack) \cap Call = Range(n.stack) \cap Call
<1>1. \A x \in Call : On(Popped(n), x) <=> On(n, x)
  BY PoppedPlaces
<1> QED
  BY <1>1 DEF On
-----------------------------------------------------------------------------
LEMMA StartLined ==
    ASSUME Inner, Others, Lined, NoMicrotask, NEW c \in Call, ~overlapped',
           NEW op \in {"resend", "verify"},
           NEW by \in {None, "code", "button"}, NEW at \in Call \cup {None},
           Start(c, op, by, at), nav' = WithLoader(nav), tried',
           op = "resend" => Top(nav) \in Call
    PROVE  Lined'
<1>1. /\ Busy = {} /\ Top(nav) # Loader /\ call[c].op = "idle"
      /\ \A d \in Call : ~Returned(d)
  BY Free
<1>2. \A d \in Call : call'[d].op = IF d = c THEN op ELSE call[d].op
  BY CallStarts DEF Ops
<1>3. Good(nav) /\ Tidy(nav) /\ Above(nav, 0)
  BY <1>1, AboveNone DEF Inner, Lined
<1>4. /\ Above(nav', 0 + 1) /\ nav'.dialog = Len(nav'.stack)
      /\ Tidy(nav') /\ Good(nav') /\ nav'.current = nav.current
  BY <1>3, AboveMore, TidyWithLoader, GoodWithLoader, LoaderPlaces
<1>5. Debt(op) = 0 + 1
  BY DEF Debt, One, Two
<1>6. op = "resend" => nav'.current \in Call
  BY <1>3, <1>4, Names DEF Tidy, IsPage
<1>7. Verifies' = Verifies
  <2>1. "form" \in Route \ Call
    BY Names DEF Route
  <2> QED
    BY <1>3, <2>1, VerifiesKept
<1> QED
  BY <1>1, <1>2, <1>4, <1>5, <1>6, <1>7, Settles

LEMMA NextTapLined ==
    ASSUME Inner, Others, Lined, NoMicrotask, NEW c \in Call, ~overlapped', Next_Tap(c)
    PROVE  Lined'
<1>1. /\ Busy = {} /\ Top(nav) # Loader /\ call[c].op = "idle"
      /\ \A d \in Call : ~Returned(d)
  BY Free DEF Next_Tap
<1>2. \A d \in Call : call'[d].op = IF d = c THEN "submit" ELSE call[d].op
  BY CallStarts DEF Ops, Next_Tap, None
<1>3. Len(nav.stack) = 1 /\ nav.stack[1] = "form" /\ Good(nav) /\ nav' = nav
  <2>1. /\ Good(nav) /\ Top(nav) = "form" /\ nav' = nav
        /\ Len(nav.stack) \in Nat /\ Len(nav.stack) >= 1
    BY GoodFacts DEF Inner, Next_Tap, Good
  <2>2. \A i \in 2..Len(nav.stack) : nav.stack[i] # "form"
    BY DEF Lined, Tidy
  <2>3. Len(nav.stack) \notin 2..Len(nav.stack)
    BY <2>1, <2>2 DEF Top
  <2>4. \A l \in Nat : l >= 1 /\ l \notin 2..l => l = 1
    OBVIOUS
  <2> QED
    BY <2>1, <2>3, <2>4 DEF Good
<1>4. Verifies = {} /\ Verifies' = {}
  BY <1>3, Names DEF Verifies, Range, Good, Navigator
<1>5. \A d \in Call : call[d].op = "idle"
  BY <1>1, <1>4 DEF Busy, Returned, At
<1>6. \A d \in Call : call'[d].op = IF d = c THEN "submit" ELSE "idle"
  BY <1>2, <1>5
<1>7. Busy' = {c}
  BY <1>6 DEF Busy
<1>8. Alone'
  BY <1>1, <1>3, <1>6, <1>7, AboveNone DEF Alone, Debt, One, Two
<1>9. Clear' /\ Origins'
  BY <1>3, <1>4, <1>6, <1>7 DEF Clear, Origins, Returned, At
<1>10. Tidy(nav') /\ Untried'
  BY <1>3 DEF Lined, Untried, Next_Tap
<1> QED
  BY <1>8, <1>9, <1>10 DEF Lined

LEMMA SendOtpLined ==
    ASSUME Inner, Lined, NEW c \in Call, SendOtpAPi(c)
    PROVE  Lined'
<1>1. /\ At(c, "submit") /\ Len(nav.stack) = 1 /\ Good(nav) /\ Tidy(nav)
      /\ nav.stack[1] = "form" /\ Top(nav) = "form"
      /\ nav' = WithLoader(nav) /\ tried' = tried
  BY DEF SendOtpAPi, Lined, Origins, Inner, Good, Top, history
<1>2. \A d \in Call : d # c => call[d].op = "idle"
  <2>1. c \in Busy
    BY <1>1 DEF Busy, At
  <2> QED
    BY <1>1, <2>1 DEF Lined, Alone, Origins, Busy, At
<1>3. \A d \in Call : call'[d].op = IF d = c THEN "send" ELSE "idle"
  BY <1>2, CallGoes DEF SendOtpAPi, Ops
<1>4. Busy' = {c}
  BY <1>3 DEF Busy
<1>5. /\ Len(nav'.stack) = 2 /\ nav'.stack[2] = Loader /\ Tidy(nav') /\ Good(nav')
      /\ Top(nav') = Loader
      /\ \A x : On(nav', x) <=> On(nav, x) \/ x = Loader
  <2>1. /\ Len(nav'.stack) = Len(nav.stack) + 1 /\ nav'.stack[Len(nav.stack) + 1] = Loader
        /\ \A x : On(nav', x) <=> On(nav, x) \/ x = Loader
    BY <1>1, LoaderPlaces
  <2>2. Len(nav.stack) + 1 = 2
    BY <1>1
  <2>3. Tidy(nav') /\ Good(nav') /\ Top(nav') = Loader
    BY <1>1, TidyWithLoader, GoodWithLoader
  <2> QED
    BY <2>1, <2>2, <2>3
<1>6. Above(nav', 0 + 1) /\ nav'.dialog = Len(nav'.stack)
  BY <1>1, AboveNone, AboveMore, Names
<1>7. Debt("send") = 0 + 1
  BY DEF Debt, One, Two
<1>8. Alone'
  BY <1>3, <1>4, <1>6, <1>7 DEF Alone
<1>9. Clear'
  BY <1>3, <1>4 DEF Clear, Returned, At
<1>10. Verifies' = {}
  <2>1. \A x : On(nav, x) => x = "form"
    BY <1>1 DEF On, Range, Good, Navigator
  <2> QED
    BY <1>5, <2>1, Names DEF Verifies, On
<1>11. Origins'
  BY <1>3, <1>5, <1>10 DEF Origins, At
<1>12. Untried'
  BY <1>1, <1>5, Names DEF Lined, Untried
<1> QED
  BY <1>5, <1>8, <1>9, <1>11, <1>12 DEF Lined
-----------------------------------------------------------------------------
LEMMA SendAnsweredLined ==
    ASSUME Inner, Lined, NEW c \in Call, ~Returned(c), \A d \in Call : ~Returned(d),
           SendAnswered(c)
    PROVE  Lined'
<1>1. /\ Good(nav) /\ Tidy(nav) /\ c \in Busy /\ Busy \subseteq {c}
      /\ Debt(call[c].op) = 1 /\ call[c].op \in {"send", "resend"}
      /\ call[c].op = "resend" => tried
      /\ tried' = tried
  BY DEF SendAnswered, Inner, Lined, Alone, Origins, Busy, At, Debt, One, Two, history
<1>2. /\ Above(nav, 0 + 1) /\ nav.dialog = Len(nav.stack)
      /\ Top(nav) = Loader /\ Len(nav.stack) >= 2
  <2>1. Above(nav, 1) /\ nav.dialog = Len(nav.stack)
    BY <1>1 DEF Lined, Alone
  <2> QED
    BY <1>1, <2>1, AboveSome
<1>3. ASSUME Hides(c, 1, "idle")
      PROVE  /\ Tidy(nav') /\ Good(nav') /\ Above(nav', 0)
             /\ Len(nav'.stack) = Len(nav.stack) - 1
             /\ Verifies' = Verifies
             /\ \A d \in Call : call'[d].op = IF d = c THEN "idle" ELSE call[d].op
  <2>1. /\ nav' = Popped(nav)
        /\ \A d \in Call : call'[d].op = IF d = c THEN "idle" ELSE call[d].op
    BY <1>2, <1>3, HidesOf
  <2>2. Above(nav', 0) /\ Good(nav') /\ Tidy(nav')
    BY <1>1, <1>2, <2>1, AboveLess, TidyPopped
  <2>3. Verifies' = Verifies
    BY <1>1, <1>2, <2>1, VerifiesPopped, Names DEF Verifies
  <2>4. Len(nav'.stack) = Len(nav.stack) - 1
    BY <1>1, <1>2, <2>1, PoppedPlaces
  <2> QED
    BY <2>1, <2>2, <2>3, <2>4
<1>4. CASE call[c].op = "resend"
  <2>1. Hides(c, 1, "idle")
    BY <1>4 DEF SendAnswered, GetToVerifyOtp, Opens, Lined, Origins, At
  <2>2. Debt("idle") = 0
    BY DEF Debt, One, Two
  <2> QED
    BY <1>1, <1>3, <1>4, <2>1, <2>2, Settles
<1>5. CASE call[c].op = "send"
  <2>1. Len(nav.stack) = 2 /\ nav.stack[1] = "form" /\ nav.stack[2] = Loader
    BY <1>1, <1>2, <1>5 DEF Lined, Origins, At, Top, Good
  <2>2. \A d \in Call : d # c => call[d].op = "idle"
    BY <1>1, <1>5 DEF Lined, Origins, At, Busy
  <2>3. CASE Hides(c, 1, "idle")
    <3>1. Len(nav'.stack) = 1
      BY <1>3, <2>1, <2>3
    <3> QED
      BY <1>3, <2>2, <2>3, <3>1, Home
  <2>4. CASE nav' = Pushed(nav, c) /\ Goes(c, "await")
    <3>1. \A d \in Call : call'[d].op = IF d = c THEN "await" ELSE "idle"
      BY <2>2, <2>4, CallGoes DEF Ops
    <3>2. c \in Route \ {"form", Loader}
      BY Names DEF Route
    <3>3. /\ Tidy(nav') /\ Top(nav') = c
          /\ Len(nav'.stack) = Len(nav.stack) + 1
          /\ \A i \in 1..Len(nav.stack) : nav'.stack[i] = nav.stack[i]
          /\ nav'.dialog = nav.dialog
          /\ \A x : On(nav', x) <=> On(nav, x) \/ x = c
      BY <1>1, <2>4, <3>2, TidyPushed, PushedPlaces
    <3>4. /\ Len(nav'.stack) = 3 /\ nav'.stack[2] = Loader /\ nav'.dialog = 2
      BY <1>2, <2>1, <3>3
    <3>5. \A x : On(nav, x) => x = "form" \/ x = Loader
      BY <2>1 DEF On, Range
    <3>6. Verifies' = {c}
      BY <3>3, <3>5, Names DEF Verifies, On
    <3>7. Busy' = {}
      BY <3>1 DEF Busy
    <3>8. Alone' /\ Clear'
      BY <3>1, <3>3, <3>6, <3>7, Names DEF Alone, Clear, Returned, At
    <3>9. Origins'
      BY <3>1, <3>6 DEF Origins, At
    <3>10. Untried'
      BY <3>3, <3>4, <3>5, Names DEF Untried, Sheet
    <3> QED
      BY <3>3, <3>8, <3>9, <3>10 DEF Lined
  <2> QED
    BY <2>3, <2>4 DEF SendAnswered, GetToVerifyOtp, OverLoader
<1> QED
  BY <1>1, <1>4, <1>5

LEMMA ReturnLined ==
    ASSUME Inner, Lined, NEW c \in Call, Return(c)
    PROVE  Lined'
<1>1. /\ Busy = {} /\ FormsLoader(nav) /\ Good(nav) /\ Tidy(nav) /\ call[c].op = "await"
  BY DEF Return, Returned, Lined, Clear, Inner, At
<1>2. \A d \in Call : d # c => call[d].op = "idle"
  BY <1>1 DEF Busy, Lined, Origins, At
<1>3. /\ nav' = Popped(nav)
      /\ \A d \in Call : call'[d].op = IF d = c THEN "idle" ELSE call[d].op
  BY <1>1, HidesOf DEF Return, FormsLoader
<1>4. Tidy(nav') /\ Good(nav') /\ Len(nav'.stack) = 1
  <2>1. Len(nav.stack) = 2 /\ Len(nav.stack) >= 2
    BY <1>1 DEF FormsLoader
  <2>2. Tidy(nav') /\ Good(nav') /\ Len(nav'.stack) = Len(nav.stack) - 1
    BY <1>1, <1>3, <2>1, TidyPopped, PoppedPlaces
  <2> QED
    BY <2>1, <2>2
<1> QED
  BY <1>2, <1>3, <1>4, Home

LEMMA VerifyAnsweredLined ==
    ASSUME Inner, Lined, NEW c \in Call, \A d \in Call : ~Returned(d), VerifyAnswered(c)
    PROVE  Lined'
<1>1. /\ Good(nav) /\ Tidy(nav) /\ c \in Busy /\ Busy \subseteq {c}
      /\ call[c].op = "verify" /\ tried'
      /\ Debt(call[c].op) = 1 /\ Debt("signUp") = 1 + 1 /\ Debt("check") = 0
  BY DEF VerifyAnswered, Inner, Lined, Alone, Origins, Busy, At, Debt, One, Two, history
<1>2. /\ Above(nav, 0 + 1) /\ nav.dialog = Len(nav.stack)
      /\ Top(nav) = Loader /\ Len(nav.stack) >= 2
  <2>1. Above(nav, 1) /\ nav.dialog = Len(nav.stack)
    BY <1>1 DEF Lined, Alone
  <2> QED
    BY <1>1, <2>1, AboveSome
<1>3. CASE Goes(c, "signUp") /\ nav' = WithLoader(nav)
  <2>1. Above(nav', 1 + 1) /\ nav'.dialog = Len(nav'.stack) /\ Tidy(nav') /\ Good(nav')
    BY <1>1, <1>2, <1>3, AboveMore, TidyWithLoader, GoodWithLoader
  <2>2. Verifies' = Verifies
    <3>1. "form" \in Route \ Call
      BY Names DEF Route
    <3> QED
      BY <1>1, <1>3, <3>1, VerifiesKept
  <2>3. \A d \in Call : call'[d].op = IF d = c THEN "signUp" ELSE call[d].op
    BY <1>3, CallGoes DEF Ops
  <2> QED
    BY <1>1, <2>1, <2>2, <2>3, Settles
<1>4. CASE Hides(c, 1, "check")
  <2>1. /\ nav' = Popped(nav)
        /\ \A d \in Call : call'[d].op = IF d = c THEN "check" ELSE call[d].op
    BY <1>2, <1>4, HidesOf
  <2>2. Above(nav', 0) /\ Good(nav') /\ Tidy(nav')
    BY <1>1, <1>2, <2>1, AboveLess, TidyPopped
  <2>3. Verifies' = Verifies
    BY <1>1, <1>2, <2>1, VerifiesPopped, Names DEF Verifies
  <2> QED
    BY <1>1, <2>1, <2>2, <2>3, Settles
<1> QED
  BY <1>3, <1>4 DEF VerifyAnswered

LEMMA SignUpAnsweredLined ==
    ASSUME Inner, Lined, NEW c \in Call, \A d \in Call : ~Returned(d),
           SignUpAnswered(c) \/ Kept(c)
    PROVE  Lined'
<1>1. /\ Good(nav) /\ Tidy(nav) /\ c \in Busy /\ Busy \subseteq {c}
      /\ call[c].op \in {"signUp", "kept"} /\ tried'
      /\ Debt(call[c].op) = 2 /\ Debt("kept") = 2 /\ Debt("check") = 0
  BY DEF SignUpAnswered, Kept, Inner, Lined, Alone, Origins, Busy, At, Debt, One, Two,
         history
<1>2. /\ Above(nav, 1 + 1) /\ nav.dialog = Len(nav.stack)
      /\ Top(nav) = Loader /\ Len(nav.stack) >= 2
  <2>1. Above(nav, 2) /\ nav.dialog = Len(nav.stack)
    BY <1>1 DEF Lined, Alone
  <2> QED
    BY <1>1, <2>1, AboveSome
<1>3. CASE Goes(c, "kept") /\ UNCHANGED nav
  <2>1. \A d \in Call : call'[d].op = IF d = c THEN "kept" ELSE call[d].op
    BY <1>3, CallGoes DEF Ops
  <2>2. Above(nav', 2) /\ nav'.dialog = Len(nav'.stack) /\ Tidy(nav') /\ Good(nav')
    BY <1>1, <1>2, <1>3
  <2>3. Verifies' = Verifies
    BY <1>3 DEF Verifies
  <2> QED
    BY <1>1, <2>1, <2>2, <2>3, Settles
<1>4. CASE HidesBoth(c)
  <2>1. /\ nav' = Popped(Popped(nav))
        /\ \A d \in Call : call'[d].op = IF d = c THEN "check" ELSE call[d].op
    BY <1>2, <1>4, HidesOf DEF HidesBoth
  <2>2. Above(Popped(nav), 0 + 1) /\ Good(Popped(nav)) /\ Tidy(Popped(nav))
    BY <1>1, <1>2, AboveLess, TidyPopped
  <2>3. Top(Popped(nav)) = Loader /\ Len(Popped(nav).stack) >= 2
    BY <2>2, AboveSome
  <2>4. Above(nav', 0) /\ Good(nav') /\ Tidy(nav')
    BY <2>1, <2>2, <2>3, AboveLess, TidyPopped
  <2>5. Verifies' = Verifies
    BY <1>1, <1>2, <2>1, <2>2, <2>3, VerifiesPopped, Names DEF Verifies
  <2> QED
    BY <1>1, <2>1, <2>4, <2>5, Settles
<1> QED
  BY <1>3, <1>4 DEF SignUpAnswered, Kept

LEMMA CheckLined ==
    ASSUME Inner, Lined, NEW c \in Call, \A d \in Call : ~Returned(d), Check(c)
    PROVE  Lined'
<1>1. /\ Good(nav) /\ Tidy(nav) /\ c \in Busy /\ Busy \subseteq {c}
      /\ call[c].op = "check" /\ tried'
      /\ Debt(call[c].op) = 0 /\ Debt("idle") = 0
  BY DEF Check, Inner, Lined, Alone, Origins, Busy, At, Debt, One, Two, history
<1>2. Above(nav, 0) /\ Top(nav) # Loader
  <2>1. Above(nav, 0)
    BY <1>1 DEF Lined, Alone
  <2> QED
    BY <1>1, <2>1, AboveNone
<1>3. \A d \in Call : call'[d].op = IF d = c THEN "idle" ELSE call[d].op
  <2>1. Ends(c)
    BY DEF Check
  <2> QED
    BY <2>1, CallGoes DEF Ops
<1>4. PICK r \in {"scan", Sheet} : nav' = nav \/ nav' = Pushed(nav, r)
  BY DEF Check
<1>5. r \in Route \ {"form", Loader} /\ r \in Route \ Call
  BY Names DEF Route, Sheet
<1>6. Above(nav', 0) /\ Tidy(nav') /\ Good(nav') /\ Verifies' = Verifies
  <2>1. CASE nav' = nav
    BY <1>1, <1>2, <2>1 DEF Verifies
  <2>2. CASE nav' = Pushed(nav, r)
    <3>1. Tidy(nav') /\ Good(nav') /\ Top(nav') = r
      BY <1>1, <1>2, <1>5, <2>2, TidyPushed, GoodPushed
    <3>2. Above(nav', 0)
      BY <1>5, <3>1, AboveNone
    <3>3. Verifies' = Verifies
      BY <1>1, <1>5, <2>2, VerifiesKept
    <3> QED
      BY <3>1, <3>2, <3>3
  <2> QED
    BY <1>4, <2>1, <2>2
<1> QED
  BY <1>1, <1>3, <1>6, Settles
-----------------------------------------------------------------------------
\* Back from what lies over VerifyOtp, or on from a sheet.
LEMMA OverLined ==
    ASSUME Inner, Lined, NoMicrotask, Top(nav) \in {"scan", Sheet},
           UNCHANGED <<call, tried>>,
           nav' = Popped(nav) \/ (Top(nav) = Sheet /\ nav' = Pushed(nav, "scan"))
    PROVE  Lined'
<1>1. Good(nav) /\ Tidy(nav) /\ Len(nav.stack) \in Nat /\ Len(nav.stack) >= 2
  <2>1. Good(nav) /\ Tidy(nav) /\ Len(nav.stack) \in Nat /\ Len(nav.stack) >= 1
    BY GoodFacts DEF Inner, Lined, Good
  <2>2. nav.stack[1] # Top(nav)
    BY <2>1 DEF Good, Sheet
  <2> QED
    BY <2>1, <2>2 DEF Top
<1>2. tried'
  <2>1. On(nav, Top(nav))
    BY <1>1 DEF Top, On, Range, Good, Navigator
  <2> QED
    BY <2>1 DEF Lined, Untried
<1>3. \A d \in Call : ~Returned(d) /\ call[d].op # "check"
  BY DEF NoMicrotask, At
<1>4. Busy = {}
  <2>1. SUFFICES ASSUME NEW d \in Busy PROVE FALSE
    OBVIOUS
  <2>2. Above(nav, Debt(call[d].op)) /\ Top(nav) # Loader /\ d \in Call
    BY <2>1, Names DEF Lined, Alone, Busy
  <2>3. Debt(call[d].op) \in {0, 1, 2}
    BY DEF Debt, One, Two
  <2>4. Debt(call[d].op) = 0
    BY <1>1, <2>2, <2>3, AboveSome
  <2>5. call[d].op = "submit"
    BY <1>3, <2>1, <2>2, <2>4 DEF Busy, Debt, One, Two, Inner, CallState, Ops
  <2>6. Len(nav.stack) = 1
    BY <2>2, <2>5 DEF Lined, Origins, At
  <2> QED
    BY <1>1, <2>6
<1>5. /\ "scan" \in Route \ {"form", Loader} /\ "scan" \in Route \ Call
      /\ Top(nav) \notin Call \cup {Loader} /\ None \notin Call
  BY Names DEF Route
<1>6. CASE nav' = Popped(nav)
  <2>1. /\ Tidy(nav') /\ Good(nav') /\ Len(nav'.stack) = Len(nav.stack) - 1
        /\ \A i \in 1..(Len(nav.stack) - 1) : nav'.stack[i] = nav.stack[i]
    BY <1>1, <1>6, TidyPopped, PoppedPlaces
  <2>2. nav.stack[Len(nav.stack) - 1] # Loader
    BY <1>1, <1>5 DEF Tidy, Top
  <2>3. Top(nav') # Loader
    BY <1>1, <2>1, <2>2 DEF Top
  <2>4. Above(nav', 0)
    BY <2>1, <2>3, AboveNone
  <2>5. Verifies' = Verifies
    BY <1>1, <1>5, <1>6, VerifiesPopped DEF Verifies
  <2> QED
    BY <1>2, <1>3, <1>4, <1>5, <2>1, <2>4, <2>5, Settles DEF Debt, One, Two
<1>7. CASE nav' = Pushed(nav, "scan")
  <2>1. Tidy(nav') /\ Good(nav') /\ Top(nav') = "scan"
    BY <1>1, <1>5, <1>7, TidyPushed, GoodPushed
  <2>2. Above(nav', 0)
    BY <2>1, AboveNone, Names
  <2>3. Verifies' = Verifies
    BY <1>1, <1>5, <1>7, VerifiesKept
  <2> QED
    BY <1>2, <1>3, <1>4, <1>5, <2>1, <2>2, <2>3, Settles DEF Debt, One, Two
<1> QED
  BY <1>6, <1>7

\* Back from VerifyOtp before it has asked for anything.
LEMMA LeftLined ==
    ASSUME Inner, Lined, NoMicrotask, Top(nav) \in Call, ~tried,
           UNCHANGED <<call, tried>>, nav' = Popped(nav)
    PROVE  Lined'
<1>1. /\ Good(nav) /\ Tidy(nav) /\ nav.stack[1] = "form"
      /\ Len(nav.stack) = 3 /\ Len(nav.stack) >= 2
      /\ nav.stack[2] = Loader /\ nav.dialog = 2
  BY DEF Inner, Lined, Untried, Good
<1>2. PICK v \in Call : v = Top(nav) /\ call[v].op = "await"
  <2>1. Top(nav) \in Verifies
    BY <1>1 DEF Verifies, Top, Range, Good, Navigator
  <2> QED
    BY <2>1 DEF Lined, Origins, At
<1>3. \A d \in Call : d # v => call[d].op = "idle"
  <2>1. ASSUME NEW d \in Call
        PROVE  call[d].op \notin {"resend", "verify", "signUp", "kept", "check",
                                  "submit", "send"}
    BY <1>1 DEF Lined, Origins, At
  <2>2. ASSUME NEW d \in Call, call[d].op = "await" PROVE d = v
    BY <1>2, <2>2 DEF Lined, Origins, At
  <2> QED
    BY <2>1, <2>2 DEF Inner, CallState, Ops
<1>4. /\ Tidy(nav') /\ Good(nav') /\ Len(nav'.stack) = Len(nav.stack) - 1
      /\ \A i \in 1..(Len(nav.stack) - 1) : nav'.stack[i] = nav.stack[i]
      /\ nav.dialog # Len(nav.stack) => nav'.dialog = nav.dialog
      /\ \A x : On(nav', x) => On(nav, x)
  BY <1>1, TidyPopped, PoppedPlaces
<1>5. /\ Len(nav'.stack) = 2 /\ nav'.stack[1] = "form" /\ nav'.stack[2] = Loader
      /\ nav'.dialog = 2
  BY <1>1, <1>4
<1>6. Busy' = {} /\ Verifies' = {}
  <2>1. Busy' = {}
    BY <1>2, <1>3 DEF Busy
  <2>2. \A x : On(nav', x) => x = "form" \/ x = Loader
    BY <1>5 DEF On, Range
  <2> QED
    BY <2>1, <2>2, Names DEF Verifies, On
<1>7. Alone' /\ Clear'
  <2>1. Returned(v)'
    BY <1>2, <1>6 DEF Returned, At
  <2> QED
    BY <1>5, <1>6, <2>1 DEF Alone, Clear, FormsLoader
<1>8. Origins'
  BY <1>2, <1>3, <1>6 DEF Origins, At
<1>9. Untried'
  BY <1>4, <1>5, Names DEF Lined, Untried, Top
<1> QED
  BY <1>4, <1>7, <1>8, <1>9 DEF Lined

LEMMA CountdownLined ==
    ASSUME Lined, NEW v \in Call, CountdownEnds(v)
    PROVE  Lined'
BY DEF Lined, CountdownEnds, history, Alone, Clear, Origins, Untried, Returned, At,
       Busy, Verifies
-----------------------------------------------------------------------------
\* What is clean after a step was so before it.
LEMMA CleanStart ==
    ASSUME Clean', unanswered' = unanswered, wentBack' = wentBack,
           NEW B, overlapped' = (overlapped \/ B)
    PROVE  Clean /\ ~overlapped'
<1>1. ~unanswered' /\ ~overlapped' /\ ~wentBack'
  BY DEF Clean
<1>2. ~(overlapped \/ B)
  BY <1>1, Zenon
<1>3. ~unanswered /\ ~wentBack
  BY <1>1, Zenon
<1> QED
  BY <1>1, <1>2, <1>3 DEF Clean

LEMMA CleanBack ==
    ASSUME Clean', unanswered' = unanswered, overlapped' = overlapped,
           NEW B, wentBack' = (wentBack \/ B)
    PROVE  Clean /\ ~B
<1>1. ~unanswered' /\ ~overlapped' /\ ~wentBack'
  BY DEF Clean
<1>2. ~(wentBack \/ B)
  BY <1>1, Zenon
<1>3. ~unanswered /\ ~overlapped
  BY <1>1, Zenon
<1> QED
  BY <1>1, <1>2, <1>3 DEF Clean

LEMMA InitiallyLined == Init => CInv
<1> SUFFICES ASSUME Init PROVE Lined
  BY DEF CInv
<1>1. nav.stack = <<"form">> /\ nav.current = "form" /\ Top(nav) = "form"
  BY DEF Init, NavigatorAt, Top
<1>2. /\ Busy = {} /\ Verifies = {} /\ \A c \in Call : call[c].op = "idle"
      /\ \A x : On(nav, x) => x = "form"
  BY <1>1, Names DEF Init, Idle, Busy, Verifies, On, Range
<1>3. Tidy(nav)
  BY <1>1 DEF Tidy
<1>4. Alone /\ Clear /\ Origins
  BY <1>1, <1>2, Names DEF Alone, Clear, Origins, Returned, At
<1>5. Untried
  BY <1>1, <1>2, Names DEF Untried, Sheet
<1> QED
  BY <1>3, <1>4, <1>5 DEF Lined

LEMMA LinedInductive == IInv /\ CInv /\ [Next]_vars => CInv'
<1> SUFFICES ASSUME IInv, CInv, [Next]_vars, Clean' PROVE Lined'
  BY DEF CInv
<1>1. Inner /\ Others
  BY Parts
<1>2. CASE UNCHANGED vars
  <2>1. Lined
    BY <1>2 DEF CInv, Clean, vars, history
  <2> QED
    BY <1>2, <2>1 DEF vars, models, history, Lined, Alone, Clear, Origins, Untried,
       Returned, At, Busy, Verifies
<1>3. ASSUME NEW c \in Call, Return(c)
      PROVE  Lined'
  <2>1. Lined
    BY <1>3 DEF CInv, Clean, Return, history
  <2> QED
    BY <1>1, <1>3, <2>1, ReturnLined
<1>4. ASSUME NEW c \in Call, Check(c), \A d \in Call : ~Returned(d)
      PROVE  Lined'
  <2>1. Lined
    BY <1>4 DEF CInv, Clean, Check, history
  <2> QED
    BY <1>1, <1>4, <2>1, CheckLined
<1>5. ASSUME NoMicrotask, Proceed
      PROVE  Lined'
  <2>1. Lined /\ UNCHANGED <<call, tried>>
    BY <1>5 DEF CInv, Clean, Proceed, history
  <2> QED
    BY <1>1, <1>5, <2>1, OverLined DEF Proceed
<1>6. ASSUME NoMicrotask, Back
      PROVE  Lined'
  <2>1. /\ unanswered' = unanswered /\ overlapped' = overlapped
        /\ wentBack' = (wentBack \/ (tried /\ Top(nav) \in Call))
    BY <1>6 DEF Back
  <2>2. Clean /\ ~(tried /\ Top(nav) \in Call)
    BY <2>1, CleanBack
  <2>3. Lined /\ UNCHANGED <<call, tried>> /\ nav' = Popped(nav)
    BY <1>6, <2>2 DEF CInv, Back
  <2>4. Top(nav) \in Route \ {"form", Loader}
    BY <1>1, <1>6, GoodFacts DEF Inner, Back
  <2>5. CASE Top(nav) \in {"scan", Sheet}
    BY <1>1, <1>6, <2>3, <2>5, OverLined
  <2>6. CASE Top(nav) \in Call
    <3>1. ~tried
      BY <2>2, <2>6
    <3> QED
      BY <1>1, <1>6, <2>3, <2>6, <3>1, LeftLined
  <2> QED
    BY <2>4, <2>5, <2>6 DEF Route
<1>7. ASSUME NEW c \in Call, SendOtpAPi(c) \/ CountdownEnds(c)
      PROVE  Lined'
  <2>1. Lined
    BY <1>7 DEF CInv, Clean, SendOtpAPi, CountdownEnds, history
  <2> QED
    BY <1>1, <1>7, <2>1, SendOtpLined, CountdownLined
<1>8. ASSUME NoMicrotask, NEW c \in Call,
             Next_Tap(c) \/ Resend(c) \/ CodeChanged(c) \/ Verify(c)
      PROVE  Lined'
  <2>1. /\ unanswered' = unanswered /\ wentBack' = wentBack
        /\ overlapped' = (overlapped \/ Busy # {})
    BY <1>8 DEF Next_Tap, Resend, CodeChanged, Verify, Start
  <2>2. Clean /\ ~overlapped'
    BY <2>1, CleanStart
  <2>3. Lined
    BY <2>2 DEF CInv
  <2>4. CASE Next_Tap(c)
    BY <1>1, <1>8, <2>2, <2>3, <2>4, NextTapLined
  <2>5. CASE Resend(c)
    <3>1. /\ Start(c, "resend", None, None) /\ nav' = WithLoader(nav) /\ tried'
          /\ Top(nav) \in Call
      BY <2>5 DEF Resend, Verifies
    <3> QED
      BY <1>1, <1>8, <2>2, <2>3, <3>1, StartLined
  <2>6. CASE CodeChanged(c) \/ Verify(c)
    <3>1. PICK v \in Call, by \in {"code", "button"} :
              Start(c, "verify", by, v) /\ nav' = WithLoader(nav) /\ tried'
      BY <2>6 DEF CodeChanged, Verify, Verifies
    <3> QED
      BY <1>1, <1>8, <2>2, <2>3, <3>1, StartLined
  <2> QED
    BY <1>8, <2>4, <2>5, <2>6
<1>9. ASSUME NoMicrotask, NEW c \in Call, Answer(c) \/ Kept(c)
      PROVE  Lined'
  <2>1. ~Unanswered(c)
    BY DEF Clean, Unanswered
  <2>2. Lined /\ \A d \in Call : ~Returned(d)
    BY <1>9, <2>1 DEF CInv, Clean, Answer, SendAnswered, VerifyAnswered, SignUpAnswered,
       Kept, history, NoMicrotask
  <2> QED
    BY <1>1, <1>9, <2>1, <2>2, SendAnsweredLined, VerifyAnsweredLined,
       SignUpAnsweredLined DEF Answer
<1> QED
  BY <1>2, <1>3, <1>4, <1>5, <1>6, <1>7, <1>8, <1>9 DEF Next, Microtask

\* With nothing under way the user is under a loader only if an answer was not
\* handled, calls overlapped, or VerifyOtp was left after it had tried a code or
\* resent one (sign_up_controller.dart 102-327): in every other case each call
\* hides all the loaders it showed.
THEOREM LockedOnlyIfHolds == Spec => []LockedOnlyIf
<1>1. CInv => LockedOnlyIf
  BY DEF CInv, Clean, Lined, Clear, LockedOnlyIf, NoMicrotask
<1>2. Init => IInv /\ CInv
  BY Initially, InitiallyLined
<1>3. (IInv /\ CInv) /\ [Next]_vars => (IInv /\ CInv)'
  BY Inductive, LinedInductive
<1> QED
  BY <1>1, <1>2, <1>3, PTL DEF Spec
=============================================================================
