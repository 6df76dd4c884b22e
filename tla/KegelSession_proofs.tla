------------------------- MODULE KegelSession_proofs -------------------------
(***************************************************************************)
(* Theorems about KegelSession, for every value of its constants: all      *)
(* levels and durations, every mix of replies, promotions of the account.  *)
(***************************************************************************)
EXTENDS KegelSession, SequenceTheorems, TLAPS

Rests == Seq([by : Levels, left : 0..Rest])

\* What the operators on a stopwatch return.
LEMMA WatchTypes ==
    ASSUME NEW w \in Stopwatch
    PROVE  /\ Running(w) \in Stopwatch /\ Stopped(w) \in Stopwatch
           /\ Cleared(w) \in Stopwatch /\ Advanced(w) \in Stopwatch
           /\ Zero \in Stopwatch
<1>1. w.at \in 0..(Minute - 1) /\ w.run \in BOOLEAN /\ 0 \in 0..(Minute - 1)
  BY TimeAssumption, MinuteAssumption DEF Stopwatch
<1>2. \A n \in 0..(Minute - 1) : \A b \in BOOLEAN :
        [run |-> b, at |-> n] \in Stopwatch
  BY DEF Stopwatch
<1>3. (IF w.at + 1 = Minute THEN 0 ELSE w.at + 1) \in 0..(Minute - 1)
  BY <1>1, TimeAssumption, MinuteAssumption
<1>4. Advanced(w) \in Stopwatch
  <2>1. CASE w.run
    BY <2>1, <1>2, <1>3 DEF Advanced
  <2>2. CASE ~w.run
    BY <2>2 DEF Advanced
  <2> QED BY <2>1, <2>2
<1> QED BY <1>1, <1>2, <1>4 DEF Running, Stopped, Cleared, Zero

LEMMA WatchFacts ==
    ASSUME NEW w \in Stopwatch
    PROVE  /\ Running(w).at = w.at /\ Stopped(w).at = w.at
           /\ Cleared(w).at = 0 /\ Zero.at = 0
           /\ w.at + 1 < Minute => Advanced(w).at \in {w.at, w.at + 1}
  BY TimeAssumption, MinuteAssumption DEF Stopwatch, Running, Stopped, Cleared, Advanced, Zero

\* The only element of a queue leaves it empty.
LEMMA TailOfOne ==
    ASSUME NEW R, NEW s \in Seq(R), Len(s) = 1
    PROVE  Tail(s) = <<>>
<1>1. s # <<>>
  BY EmptySeq
<1>2. Tail(s) \in Seq(R) /\ Len(Tail(s)) = 0
  BY <1>1, HeadTailProperties
<1> QED BY <1>2, EmptySeq

LEMMA HandlerFact == \A l : Handler(l) \in Levels
  BY LevelsAssumption DEF Handler

-----------------------------------------------------------------------------
\* The operations on the queue of rests keep its type.
LEMMA RestsFacts ==
    ASSUME NEW q \in Rests
    PROVE  /\ \A h \in Levels : Append(q, [by |-> h, left |-> Rest]) \in Rests
           /\ q # <<>> => Tail(q) \in Rests /\ Head(q).by \in Levels
           /\ ~(\E i \in DOMAIN q : q[i].left = 0) =>
                [i \in DOMAIN q |-> [by |-> q[i].by, left |-> q[i].left - 1]]
                    \in Rests
<1> DEFINE R == [by : Levels, left : 0..Rest]
<1>1. \A h \in Levels : [by |-> h, left |-> Rest] \in R
  BY TimeAssumption, MinuteAssumption
<1>q. q \in Seq(R)
  BY DEF Rests
<1>2. ASSUME NEW h \in Levels
      PROVE  Append(q, [by |-> h, left |-> Rest]) \in Seq(R)
  <2>1. [by |-> h, left |-> Rest] \in R
    BY <1>1
  <2> HIDE DEF R
  <2> QED BY <1>q, <2>1
<1>3. q # <<>> => Tail(q) \in Seq(R) /\ Head(q) \in R
  <2> SUFFICES ASSUME q # <<>> PROVE Tail(q) \in Seq(R) /\ Head(q) \in R
    OBVIOUS
  <2>1. q \in Seq(R)
    BY DEF Rests
  <2> HIDE DEF R
  <2> QED BY <2>1
<1>4. ASSUME ~(\E i \in DOMAIN q : q[i].left = 0)
      PROVE  [i \in DOMAIN q |-> [by |-> q[i].by, left |-> q[i].left - 1]] \in Seq(R)
  <2>0. \A i \in 1..Len(q) : q[i] \in R
    <3> HIDE DEF R
    <3> QED BY <1>q
  <2>1. \A i \in 1..Len(q) : q[i] \in R /\ q[i].left # 0
    BY <1>4, <1>q, <2>0
  <2>2. \A i \in 1..Len(q) : [by |-> q[i].by, left |-> q[i].left - 1] \in R
    BY <2>1, TimeAssumption, MinuteAssumption
  <2>3. DOMAIN q = 1..Len(q) /\ Len(q) \in Nat
    BY DEF Rests
  <2> HIDE DEF R
  <2> QED BY <2>2, <2>3
<1> QED BY <1>2, <1>3, <1>4 DEF Rests, R
-----------------------------------------------------------------------------
(***************************************************************************)
(* Type correctness, together with the balance of the loaders: a counter   *)
(* that only ever goes down by what it went up is a natural number because *)
(* it equals a sum of naturals.                                            *)
(***************************************************************************)
OpenNeverPosts == chains["open"]["post"] = 0 /\ chains["open"]["postGet"] = 0

LInv == TypeOK /\ LoaderBalance /\ OpenNeverPosts

\* The screen's part of TypeOK.
ScreenOK ==
    /\ mounted \in BOOLEAN /\ started \in BOOLEAN
    /\ four_started \in BOOLEAN /\ finishing \in BOOLEAN
    /\ level \in Levels \cup {Unread}
    /\ watch \in Stopwatch /\ watch3 \in Stopwatch
    /\ timers \in SUBSET Levels
    /\ rests \in Rests
    /\ counter \in Nat

\* The rest of TypeOK.
DataOK ==
    /\ sets \in Nat /\ kegelGetModel \in Model
    /\ kegel_performed \in BOOLEAN /\ k_running \in BOOLEAN
    /\ chains \in [Kind -> [Stage -> Nat]]
    /\ loaders \in Nat /\ contexts \in BOOLEAN
    /\ pref \in Levels /\ account \in Levels /\ serverSets \in Nat
    /\ done \in Nat /\ left \in Nat

MishapsOK ==
    /\ uncounted \in BOOLEAN /\ withheld \in BOOLEAN
    /\ interrupted \in BOOLEAN /\ demoted \in BOOLEAN

LEMMA TypeParts == TypeOK <=> ScreenOK /\ DataOK /\ MishapsOK
<1>1. {uncounted, withheld, interrupted, demoted} \subseteq BOOLEAN <=> MishapsOK
  BY DEF MishapsOK
<1> QED BY <1>1 DEF TypeOK, LoaderTypeOK, ScreenOK, DataOK, Rests

LEMMA FreshChains ==
    /\ NoChains \in [Kind -> [Stage -> Nat]]
    /\ LoadersOut(NoChains) = 0
    /\ NoChains["open"]["post"] = 0 /\ NoChains["open"]["postGet"] = 0
  BY DEF NoChains, Kind, Stage, LoadersOut, RowLoaders

LEMMA InitLInv == Init => LInv
<1> SUFFICES ASSUME Init PROVE LInv
  OBVIOUS
<1>1. HomeModels(0) \subseteq Model
  BY DEF HomeModels, Model, FetchedModel, ErrorModel, NoModel
<1>2. Zero \in Stopwatch
  BY TimeAssumption, MinuteAssumption DEF Zero, Stopwatch
<1>3. ScreenOK
  <2>1. <<>> \in Rests
    BY DEF Rests
  <2> QED BY <1>2, <2>1 DEF Init, ScreenOK
<1>4. DataOK
  BY <1>1, FreshChains DEF Init, DataOK
<1>5. MishapsOK
  BY DEF Init, MishapsOK
<1> QED BY <1>3, <1>4, <1>5, TypeParts, FreshChains
        DEF Init, LInv, LoaderBalance, OpenNeverPosts

\* The history variables stay Booleans.
LEMMA MishapStep == MishapsOK /\ [Next]_vars => MishapsOK'
<1> SUFFICES ASSUME MishapsOK, [Next]_vars PROVE MishapsOK'
  OBVIOUS
<1> USE DEF MishapsOK
<1>1. CASE UNCHANGED mishapVars
  BY <1>1 DEF mishapVars
<1>2. CASE Dispose \/ Relaunch
  BY <1>2 DEF Dispose, Relaunch, NoScreen
<1>3. ASSUME NEW k \in Kind, ProfileReply(k) PROVE MishapsOK'
  <2>1. /\ demoted' = (demoted \/ \E h \in timers : ~Up(h, pref'))
        /\ UNCHANGED <<uncounted, withheld, interrupted>>
    BY <1>3 DEF ProfileReply
  <2> QED BY <2>1
<1>4. ASSUME NEW k \in Kind, NEW r \in Replies, NEW hides \in BOOLEAN,
             PostReply(k, r, hides)
      PROVE  MishapsOK'
  BY <1>4 DEF PostReply
<1>5. ASSUME NEW k \in Kind, NEW r \in Replies, NEW hides \in BOOLEAN,
             PostGetReply(k, r, hides)
      PROVE  MishapsOK'
  BY <1>5 DEF PostGetReply, Withholds
<1>6. ASSUME NEW k \in Kind, NEW r \in Replies, NEW hides \in BOOLEAN,
             GetReply(k, r, hides)
      PROVE  MishapsOK'
  BY <1>6 DEF GetReply, Withholds
<1> QED
  BY <1>1, <1>2, <1>3, <1>4, <1>5, <1>6
  DEF Next, User, Clock, Network, Enter, BackArrow, Swipe, SystemBack, Leave,
      StartSet, ResumeSet, FinishTap, FinishDone, CountdownTick, SqueezeTick,
      NextRep, SetDone, Pass, ProfileDropped, AlarmGet, Promote, vars,
      historyVars

\* What each operation leaves of the screen is well-typed.
LEMMA ScreenStep == ScreenOK /\ DataOK /\ [Next]_vars => ScreenOK'
<1> SUFFICES ASSUME ScreenOK, DataOK, [Next]_vars PROVE ScreenOK'
  OBVIOUS
<1> USE WatchTypes, RestsFacts, HandlerFact DEF ScreenOK
<1>0. CASE UNCHANGED <<stateVars>>
  BY <1>0 DEF stateVars, clockVars
<1>1. CASE Enter
  BY <1>1 DEF Enter, clockVars
<1>2. CASE NoScreen
  <2>1. Zero \in Stopwatch
    BY TimeAssumption, MinuteAssumption DEF Zero, Stopwatch
  <2>2. <<>> \in Rests
    BY DEF Rests
  <2> QED BY <1>2, <2>1, <2>2 DEF NoScreen
<1>3. CASE StartSet
  BY <1>3 DEF StartSet
<1>4. CASE ResumeSet
  BY <1>4 DEF ResumeSet, StartWatch
<1>5. CASE FinishTap
  BY <1>5 DEF FinishTap, StopWatches
<1>6. CASE FinishDone
  BY <1>6 DEF FinishDone
<1>7. CASE CountdownTick
  BY <1>7 DEF CountdownTick, StartWatch
<1>8. CASE NextRep
  BY <1>8 DEF NextRep, StartWatch, RestDue
<1>9. CASE SetDone
  BY <1>9 DEF SetDone, RestDue
<1>10. CASE Pass
  BY <1>10 DEF Pass, Due
<1>11. ASSUME NEW h \in Levels, SqueezeTick(h) PROVE ScreenOK'
  <2>1. Append(rests, [by |-> h, left |-> Rest]) \in Rests
    BY RestsFacts
  <2> QED BY <1>11, <2>1 DEF SqueezeTick, StartWatch
<1>12. ASSUME NEW k \in Kind, ProfileReply(k) PROVE ScreenOK'
  BY <1>12 DEF ProfileReply, DataOK
<1>13. ASSUME NEW k \in Kind, NEW r \in Replies,
           NEW hides \in BOOLEAN, GetReply(k, r, hides) PROVE ScreenOK'
  <2>1. UNCHANGED <<mounted, level, timers, rests, finishing>>
    BY <1>13 DEF GetReply
  <2>2. CASE UNCHANGED <<watch, watch3, four_started, started, counter>>
    BY <2>1, <2>2
  <2>3. CASE /\ StopWatches /\ four_started' = FALSE
             /\ started' = TRUE /\ counter' = 0
    BY <2>1, <2>3 DEF StopWatches
  <2> QED BY <1>13, <2>2, <2>3 DEF GetReply, CheckDay
<1> QED
  BY <1>0, <1>1, <1>2, <1>3, <1>4, <1>5, <1>6, <1>7, <1>8, <1>9, <1>10, <1>11, <1>12, <1>13
  DEF Next, User, Clock, Network, BackArrow, Swipe, SystemBack, Leave, Dispose,
      PostReply, PostGetReply, ProfileDropped, AlarmGet, Promote, Relaunch, vars

\* A chain that starts, moves on or ends takes with it the loaders of its
\* stage: one in "post" and "get", two in "postGet", none in "wait".
Weight(s) == CASE s = "post" -> 1 [] s = "postGet" -> 2 [] s = "get" -> 1 [] OTHER -> 0
Row == [Stage -> Nat]

LEMMA RowFacts ==
    ASSUME NEW row \in Row, NEW s \in Stage, NEW t \in Stage, s # t
    PROVE  /\ RowLoaders(row) \in Nat
           /\ LET up == [row EXCEPT ![s] = @ + 1] IN
              up \in Row /\ RowLoaders(up) = RowLoaders(row) + Weight(s)
           /\ LET down == [row EXCEPT ![s] = @ - 1] IN
              row[s] > 0 =>
                down \in Row /\ RowLoaders(down) = RowLoaders(row) - Weight(s)
           /\ LET moved == [row EXCEPT ![s] = @ - 1, ![t] = @ + 1] IN
              row[s] > 0 =>
                /\ moved \in Row
                /\ RowLoaders(moved) = RowLoaders(row) - Weight(s) + Weight(t)
  BY DEF Row, Stage, RowLoaders, Weight

\* What changing one row of the chains does to the sum and to "open".
LEMMA RowStep ==
    ASSUME DataOK, OpenNeverPosts, NEW k \in Kind, NEW row \in Row,
           chains' = [chains EXCEPT ![k] = row],
           k = "open" => row["post"] = 0 /\ row["postGet"] = 0
    PROVE  /\ chains' \in [Kind -> Row] /\ OpenNeverPosts'
           /\ LoadersOut(chains')
                = LoadersOut(chains) - RowLoaders(chains[k]) + RowLoaders(row)
           /\ LoadersOut(chains) \in Nat /\ LoadersOut(chains') \in Nat
           /\ RowLoaders(chains[k]) \in Nat /\ chains[k] \in Row
<1>1. chains \in [Kind -> Row]
  BY DEF DataOK, Row
<1>2. chains' \in [Kind -> Row] /\ chains[k] \in Row
  BY <1>1
<1>3. OpenNeverPosts'
  BY <1>1 DEF OpenNeverPosts, Kind
<1>4. RowLoaders(chains[k]) \in Nat
  BY <1>2 DEF Row, RowLoaders, Stage
<1>5. LoadersOut(chains) \in Nat /\ LoadersOut(chains') \in Nat
  <2>1. \A c \in [Kind -> Row] : LoadersOut(c) \in Nat
    BY DEF LoadersOut, RowLoaders, Row, Kind, Stage
  <2> QED BY <1>1, <1>2, <2>1
<1>6. LoadersOut(chains') = LoadersOut(chains) - RowLoaders(chains[k]) + RowLoaders(row)
  <2>1. \A q \in Row : RowLoaders(q) \in Nat
    BY DEF Row, RowLoaders, Stage
  <2>2. \A j \in Kind : chains[j] \in Row /\ chains'[j] = IF j = k THEN row ELSE chains[j]
    BY <1>1
  <2>3. /\ "open" \in Kind /\ "resync" \in Kind /\ "alarm" \in Kind
        /\ k \in {"open", "resync", "alarm"}
    BY DEF Kind
  <2> QED BY <2>1, <2>2, <2>3 DEF LoadersOut
<1> QED BY <1>2, <1>3, <1>4, <1>5, <1>6

\* What each of the three operations on the chains does to them.
LEMMA StartFact ==
    ASSUME DataOK, OpenNeverPosts, NEW k \in Kind, NEW s \in Stage, Start(k, s),
           k = "open" => s \notin {"post", "postGet"}
    PROVE  /\ chains' \in [Kind -> Row] /\ OpenNeverPosts'
           /\ LoadersOut(chains') = LoadersOut(chains) + Weight(s)
           /\ LoadersOut(chains) \in Nat
<1> DEFINE row == [chains[k] EXCEPT ![s] = @ + 1]
<1>1. chains[k] \in Row
  BY DEF DataOK, Row
<1>2. row \in Row /\ RowLoaders(row) = RowLoaders(chains[k]) + Weight(s)
  <2>1. PICK t \in Stage : t # s
    BY DEF Stage
  <2> QED BY <1>1, <2>1, RowFacts
<1>3. k = "open" => row["post"] = 0 /\ row["postGet"] = 0
  BY <1>1 DEF OpenNeverPosts, Row, Stage
<1>4. chains' = [chains EXCEPT ![k] = row]
  BY DEF Start
<1>5. Weight(s) \in Nat
  BY DEF Weight
<1> HIDE DEF row
<1>6. /\ chains' \in [Kind -> Row] /\ OpenNeverPosts'
      /\ LoadersOut(chains') = LoadersOut(chains) - RowLoaders(chains[k]) + RowLoaders(row)
      /\ LoadersOut(chains) \in Nat /\ LoadersOut(chains') \in Nat
      /\ RowLoaders(chains[k]) \in Nat
  BY <1>2, <1>3, <1>4, RowStep
<1> QED BY <1>2, <1>5, <1>6

LEMMA MoveFact ==
    ASSUME DataOK, OpenNeverPosts, NEW k \in Kind, NEW s \in Stage,
           NEW t \in Stage, s # t, chains[k][s] > 0, Move(k, s, t),
           k = "open" => t \notin {"post", "postGet"}
    PROVE  /\ chains' \in [Kind -> Row] /\ OpenNeverPosts'
           /\ LoadersOut(chains') = LoadersOut(chains) - Weight(s) + Weight(t)
           /\ LoadersOut(chains) \in Nat /\ LoadersOut(chains') \in Nat
<1> DEFINE row == [chains[k] EXCEPT ![s] = @ - 1, ![t] = @ + 1]
<1>1. chains[k] \in Row
  BY DEF DataOK, Row
<1>2. row \in Row /\ RowLoaders(row) = RowLoaders(chains[k]) - Weight(s) + Weight(t)
  BY <1>1, RowFacts
<1>3. k = "open" => row["post"] = 0 /\ row["postGet"] = 0
  BY <1>1 DEF OpenNeverPosts, Row, Stage
<1>4. chains' = [chains EXCEPT ![k] = row]
  BY DEF Move
<1>5. Weight(s) \in Nat /\ Weight(t) \in Nat
  BY DEF Weight
<1> HIDE DEF row
<1>6. /\ chains' \in [Kind -> Row] /\ OpenNeverPosts'
      /\ LoadersOut(chains') = LoadersOut(chains) - RowLoaders(chains[k]) + RowLoaders(row)
      /\ LoadersOut(chains) \in Nat /\ LoadersOut(chains') \in Nat
      /\ RowLoaders(chains[k]) \in Nat
  BY <1>2, <1>3, <1>4, RowStep
<1> QED BY <1>2, <1>5, <1>6

LEMMA EndFact ==
    ASSUME DataOK, OpenNeverPosts, NEW k \in Kind, NEW s \in Stage,
           chains[k][s] > 0, End(k, s)
    PROVE  /\ chains' \in [Kind -> Row] /\ OpenNeverPosts'
           /\ LoadersOut(chains') = LoadersOut(chains) - Weight(s)
           /\ LoadersOut(chains) \in Nat /\ LoadersOut(chains') \in Nat
<1> DEFINE row == [chains[k] EXCEPT ![s] = @ - 1]
<1>1. chains[k] \in Row
  BY DEF DataOK, Row
<1>2. row \in Row /\ RowLoaders(row) = RowLoaders(chains[k]) - Weight(s)
  <2>1. PICK t \in Stage : t # s
    BY DEF Stage
  <2> QED BY <1>1, <2>1, RowFacts
<1>3. k = "open" => row["post"] = 0 /\ row["postGet"] = 0
  BY <1>1 DEF OpenNeverPosts, Row, Stage
<1>4. chains' = [chains EXCEPT ![k] = row]
  BY DEF End
<1>5. Weight(s) \in Nat
  BY DEF Weight
<1> HIDE DEF row
<1>6. /\ chains' \in [Kind -> Row] /\ OpenNeverPosts'
      /\ LoadersOut(chains') = LoadersOut(chains) - RowLoaders(chains[k]) + RowLoaders(row)
      /\ LoadersOut(chains) \in Nat /\ LoadersOut(chains') \in Nat
      /\ RowLoaders(chains[k]) \in Nat
  BY <1>2, <1>3, <1>4, RowStep
<1> QED BY <1>2, <1>5, <1>6

LEMMA Weights ==
    /\ Weight("post") = 1 /\ Weight("postGet") = 2
    /\ Weight("get") = 1 /\ Weight("wait") = 0
  BY DEF Weight

LEMMA ModelFacts ==
    /\ \A n \in Nat : FetchedModel(n) \in Model /\ HomeModels(n) \subseteq Model
    /\ ErrorModel \in Model /\ NoModel \in Model
  BY DEF HomeModels, Model, FetchedModel, ErrorModel, NoModel

LEMMA FetchFact ==
    ASSUME DataOK, NEW r \in Replies, Fetch(r)
    PROVE  kegelGetModel' \in Model
  BY ModelFacts DEF Fetch, DataOK

\* A reply takes down its loader, or leaves it up for good.
LEMMA HiddenOrOrphaned ==
    ASSUME NEW r \in Replies
    PROVE  /\ Hidden(r) \in {0, 1} /\ Orphaned(r) \in {0, 1}
           /\ Hidden(r) + Orphaned(r) = 1
           /\ r = "ok" => Orphaned(r) = 0
           /\ r = "error" => Orphaned(r) = 0
           /\ r \notin {"ok", "error", "refused"} => Orphaned(r) = 1
  BY DEF Hidden, Orphaned, Handled, Replies

LEMMA PostReplyStep ==
    ASSUME LInv, DataOK, NEW k \in Kind, NEW r \in Replies,
           NEW hides \in BOOLEAN, PostReply(k, r, hides)
    PROVE  DataOK' /\ LoaderBalance' /\ OpenNeverPosts'
<1>1. k # "open" /\ chains[k]["post"] > 0 /\ r # "refused"
  BY NetAssumption DEF PostReply, LInv, OpenNeverPosts
<1>2. "post" \in Stage /\ "postGet" \in Stage /\ "wait" \in Stage
  BY DEF Stage
<1>3. serverSets' \in Nat
  BY DEF PostReply, DataOK
<1>4. chains' \in [Kind -> Row] /\ OpenNeverPosts' /\ loaders' \in Nat
      /\ left' \in Nat /\ LoaderBalance'
  <2> USE DEF LoaderBalance, DataOK
  <2>0. OpenNeverPosts /\ loaders = left + LoadersOut(chains)
    BY DEF LInv
  <2>1. CASE r = "ok"
    <3>1. Move(k, "post", "postGet") /\ loaders' = loaders + 1 /\ left' = left
      BY <2>1 DEF PostReply, AfterPost, ShowLoader
    <3> QED BY <1>1, <1>2, <2>0, <3>1, MoveFact, Weights
  <2>2. CASE r = "dropped" \/ (r = "error" /\ ~hides)
    <3>1. End(k, "post") /\ loaders' = loaders /\ left' = left + 1
      BY <2>2 DEF PostReply, AfterPost, loaderVars
    <3> QED BY <1>1, <1>2, <2>0, <3>1, EndFact, Weights
  <2>3. CASE r = "error" /\ hides
    <3>1. Move(k, "post", "wait") /\ loaders' = loaders - 1 /\ left' = left
      BY <2>3 DEF PostReply, AfterPost, HideLoader
    <3>2. /\ chains' \in [Kind -> Row] /\ OpenNeverPosts'
          /\ LoadersOut(chains') = LoadersOut(chains) - Weight("post") + Weight("wait")
          /\ LoadersOut(chains) \in Nat /\ LoadersOut(chains') \in Nat
      BY <1>1, <1>2, <2>0, <3>1, MoveFact
    <3>3. PICK a \in Nat, b \in Nat : a = left /\ b = LoadersOut(chains')
      BY <3>2
    <3>4. loaders = a + b + 1
      BY <2>0, <3>2, <3>3, Weights
    <3>5. loaders' = a + b /\ left' = a
      BY <3>1, <3>3, <3>4
    <3> QED BY <3>2, <3>3, <3>5
  <2>4. CASE r = "unhandled"
    <3>1. Move(k, "post", "wait") /\ loaders' = loaders /\ left' = left + 1
      BY <2>4 DEF PostReply, AfterPost, loaderVars
    <3>2. /\ chains' \in [Kind -> Row] /\ OpenNeverPosts'
          /\ LoadersOut(chains') = LoadersOut(chains) - Weight("post") + Weight("wait")
          /\ LoadersOut(chains) \in Nat
      BY <1>1, <1>2, <2>0, <3>1, MoveFact
    <3> QED BY <2>0, <3>1, <3>2, Weights
  <2> QED BY <1>1, <2>1, <2>2, <2>3, <2>4 DEF Replies, Handled
<1>5. contexts' \in BOOLEAN
  BY DEF PostReply, DataOK, ShowLoader, HideLoader, loaderVars
<1> QED BY <1>3, <1>4, <1>5 DEF PostReply, DataOK, controllerVars, Row

LEMMA PostGetReplyStep ==
    ASSUME LInv, DataOK, NEW k \in Kind, NEW r \in Replies,
           NEW hides \in BOOLEAN, PostGetReply(k, r, hides)
    PROVE  DataOK' /\ LoaderBalance' /\ OpenNeverPosts'
<1>1. k # "open" /\ chains[k]["postGet"] > 0
  BY DEF PostGetReply, LInv, OpenNeverPosts
<1>2. "postGet" \in Stage /\ "wait" \in Stage
  BY DEF Stage
<1>3. kegelGetModel' \in Model
  BY FetchFact DEF PostGetReply
<1>4. chains' \in [Kind -> Row] /\ OpenNeverPosts' /\ loaders' \in Nat
      /\ left' \in Nat /\ LoaderBalance'
  <2> USE DEF LoaderBalance, DataOK
  <2>0. OpenNeverPosts /\ loaders = left + LoadersOut(chains)
    BY DEF LInv
  <2>1. CASE r = "dropped" \/ ~hides
    <3>1. End(k, "postGet") /\ loaders' = loaders /\ left' = left + 2
      BY <2>1 DEF PostGetReply, loaderVars
    <3>2. /\ chains' \in [Kind -> Row] /\ OpenNeverPosts'
          /\ LoadersOut(chains') = LoadersOut(chains) - Weight("postGet")
          /\ LoadersOut(chains) \in Nat /\ LoadersOut(chains') \in Nat
      BY <1>1, <1>2, <2>0, <3>1, EndFact
    <3> QED BY <2>0, <3>1, <3>2, Weights
  <2>2. CASE r # "dropped" /\ hides
    <3>1. /\ Move(k, "postGet", "wait") /\ loaders' = loaders - (1 + Hidden(r))
          /\ left' = left + Orphaned(r)
      BY <2>2 DEF PostGetReply, HideLoader
    <3>2. /\ chains' \in [Kind -> Row] /\ OpenNeverPosts'
          /\ LoadersOut(chains')
               = LoadersOut(chains) - Weight("postGet") + Weight("wait")
          /\ LoadersOut(chains) \in Nat /\ LoadersOut(chains') \in Nat
      BY <1>1, <1>2, <2>0, <3>1, MoveFact
    <3>3. /\ Hidden(r) = 1 - Orphaned(r) /\ Orphaned(r) \in {0, 1}
      BY HiddenOrOrphaned
    <3>4. LoadersOut(chains) = LoadersOut(chains') + 2
      BY <3>2, Weights
    <3>5. PICK a \in Nat, b \in Nat, c \in {0, 1} :
             a = left /\ b = LoadersOut(chains') /\ c = Orphaned(r)
      BY <3>2, <3>3
    <3>6. loaders = a + b + 2 /\ Hidden(r) = 1 - c
      BY <2>0, <3>3, <3>4, <3>5
    <3>7. loaders' = a + b + c /\ left' = a + c
      BY <3>1, <3>5, <3>6
    <3>8. loaders' = left' + LoadersOut(chains') /\ left' \in Nat /\ loaders' \in Nat
      BY <3>5, <3>7
    <3> QED BY <3>2, <3>8
  <2> QED BY <2>1, <2>2
<1>5. contexts' \in BOOLEAN
  BY DEF PostGetReply, DataOK, HideLoader, loaderVars
<1> QED BY <1>3, <1>4, <1>5 DEF PostGetReply, DataOK, serverVars, Row

\* A chain shows the loader of the get that ends it ...
LEMMA ShowStep ==
    ASSUME LInv, DataOK, NEW k \in Kind, chains[k]["wait"] > 0,
           Move(k, "wait", "get"), loaders' = loaders + 1, left' = left
    PROVE  /\ chains' \in [Kind -> Row] /\ OpenNeverPosts'
           /\ loaders' \in Nat /\ LoaderBalance'
<1> USE DEF LoaderBalance, DataOK
<1>1. "wait" \in Stage /\ "get" \in Stage
  BY DEF Stage
<1>2. OpenNeverPosts /\ loaders = left + LoadersOut(chains)
  BY DEF LInv
<1>3. /\ chains' \in [Kind -> Row] /\ OpenNeverPosts'
      /\ LoadersOut(chains') = LoadersOut(chains) - Weight("wait") + Weight("get")
      /\ LoadersOut(chains) \in Nat
  BY <1>1, <1>2, MoveFact
<1> QED BY <1>2, <1>3, Weights

\* ... and its reply takes it down, or leaves it up for good.
LEMMA GetReplyStep ==
    ASSUME LInv, DataOK, NEW k \in Kind, NEW r \in Replies,
           NEW hides \in BOOLEAN, GetReply(k, r, hides)
    PROVE  DataOK' /\ LoaderBalance' /\ OpenNeverPosts'
<1>1. kegelGetModel' \in Model
  BY FetchFact DEF GetReply
<1>2. sets' \in Nat
  BY <1>1 DEF GetReply, DataOK, Model
<1>3. chains' \in [Kind -> Row] /\ OpenNeverPosts' /\ loaders' \in Nat
      /\ left' \in Nat /\ LoaderBalance'
  <2> USE DEF LoaderBalance, DataOK
  <2>0. OpenNeverPosts /\ loaders = left + LoadersOut(chains) /\ "get" \in Stage
    BY DEF LInv, Stage
  <2>1. End(k, "get") /\ chains[k]["get"] > 0
    BY DEF GetReply
  <2>3. \/ loaders' = loaders - 1 /\ left' = left
        \/ loaders' = loaders /\ left' = left + 1
    BY HiddenOrOrphaned DEF GetReply, HideLoader, loaderVars
  <2>2. /\ chains' \in [Kind -> Row] /\ OpenNeverPosts'
        /\ LoadersOut(chains') = LoadersOut(chains) - Weight("get")
        /\ LoadersOut(chains) \in Nat /\ LoadersOut(chains') \in Nat
    BY <2>0, <2>1, EndFact
  <2> QED BY <2>0, <2>2, <2>3, Weights
<1>4. contexts' \in BOOLEAN
  BY DEF GetReply, DataOK, HideLoader, loaderVars
<1> QED BY <1>1, <1>2, <1>3, <1>4 DEF GetReply, DataOK, serverVars, Row

LEMMA DataStep ==
    LInv /\ DataOK /\ [Next]_vars => DataOK' /\ LoaderBalance' /\ OpenNeverPosts'
<1> SUFFICES ASSUME LInv, DataOK, [Next]_vars
             PROVE  DataOK' /\ LoaderBalance' /\ OpenNeverPosts'
  OBVIOUS
<1>0. LoaderBalance /\ OpenNeverPosts
  BY DEF LInv
<1> DEFINE Idle == UNCHANGED <<chains, loaderVars, left>>
<1>1. ASSUME Idle, UNCHANGED <<sets, kegelGetModel, kegel_performed, serverSets, done, pref>>,
             k_running' \in BOOLEAN, account' \in Levels
      PROVE  DataOK' /\ LoaderBalance' /\ OpenNeverPosts'
  BY <1>0, <1>1 DEF DataOK, LoaderBalance, OpenNeverPosts, loaderVars
<1>2. CASE Enter
  <2>1. Start("open", "wait") /\ UNCHANGED loaderVars /\ left' = left
    BY <1>2 DEF Enter, historyVars
  <2>2. "open" \in Kind /\ "wait" \in Stage
    BY DEF Kind, Stage
  <2>3. /\ chains' \in [Kind -> Row] /\ OpenNeverPosts'
        /\ LoadersOut(chains') = LoadersOut(chains) + Weight("wait")
        /\ LoadersOut(chains) \in Nat
    BY <1>0, <2>1, <2>2, StartFact
  <2>4. LoaderBalance'
    BY <1>0, <2>1, <2>3, Weights DEF LoaderBalance, loaderVars
  <2> QED BY <1>2, <2>3, <2>4
          DEF Enter, loaderVars, controllerVars, serverVars, historyVars, DataOK, Row
<1>3. CASE Swipe \/ Leave
  <2>0. Dispose /\ k_running' \in BOOLEAN
    BY <1>3 DEF Swipe, Leave, DataOK
  <2>1. LoadersOut(chains) \in Nat
    BY DEF DataOK, LoadersOut, RowLoaders, Kind, Stage
  <2>2. left = 0
    BY <1>0, <2>0, <2>1 DEF Dispose, LoaderBalance, DataOK
  <2>3. LoaderBalance' /\ OpenNeverPosts'
    BY <2>0, <2>2, FreshChains DEF Dispose, LoaderBalance, OpenNeverPosts, loaderVars, historyVars
  <2> QED BY <2>0, <2>3, FreshChains
          DEF Dispose, loaderVars, serverVars, historyVars, DataOK
<1>4. CASE SetDone
  <2>1. PICK k \in {"resync", "alarm"} : Start(k, "post")
    BY <1>4 DEF SetDone
  <2>2. k \in Kind /\ "post" \in Stage
    BY DEF Kind, Stage
  <2>3. /\ chains' \in [Kind -> Row] /\ OpenNeverPosts'
        /\ LoadersOut(chains') = LoadersOut(chains) + Weight("post")
        /\ LoadersOut(chains) \in Nat
    BY <1>0, <2>1, <2>2, StartFact
  <2>4. LoaderBalance'
    BY <1>0, <1>4, <2>3, Weights DEF LoaderBalance, SetDone, ShowLoader, DataOK
  <2> QED BY <1>4, <2>3, <2>4 DEF SetDone, ShowLoader, serverVars, DataOK, Row
<1>5. ASSUME NEW k \in Kind, ProfileReply(k)
      PROVE  DataOK' /\ LoaderBalance' /\ OpenNeverPosts'
  <2>1. /\ chains' \in [Kind -> Row] /\ OpenNeverPosts'
        /\ loaders' \in Nat /\ LoaderBalance'
    BY <1>5, ShowStep DEF ProfileReply, ShowLoader, historyVars
  <2> QED BY <1>5, <2>1 DEF ProfileReply, ShowLoader, controllerVars, historyVars, DataOK, Row
<1>6. ASSUME NEW k \in Kind, ProfileDropped(k)
      PROVE  DataOK' /\ LoaderBalance' /\ OpenNeverPosts'
  <2>1. /\ chains[k]["wait"] > 0 /\ End(k, "wait") /\ "wait" \in Stage
        /\ loaders' = loaders /\ left' = left
    BY <1>6 DEF ProfileDropped, loaderVars, historyVars, Stage
  <2>2. /\ chains' \in [Kind -> Row] /\ OpenNeverPosts'
        /\ LoadersOut(chains') = LoadersOut(chains) - Weight("wait")
        /\ LoadersOut(chains) \in Nat
    BY <1>0, <2>1, EndFact
  <2>3. LoaderBalance'
    BY <1>0, <2>1, <2>2, Weights DEF LoaderBalance
  <2> QED BY <1>6, <2>2, <2>3
          DEF ProfileDropped, loaderVars, controllerVars, serverVars, historyVars, DataOK, Row
<1>7. CASE AlarmGet
  <2>1. "alarm" \in Kind
    BY DEF Kind
  <2>2. /\ chains' \in [Kind -> Row] /\ OpenNeverPosts'
        /\ loaders' \in Nat /\ LoaderBalance'
    BY <1>7, <2>1, ShowStep DEF AlarmGet, ShowLoader, historyVars
  <2> QED BY <1>7, <2>2
          DEF AlarmGet, ShowLoader, controllerVars, serverVars, historyVars, DataOK, Row
<1>8. CASE Relaunch
  <2>1. PostsInFlight \in Nat
    BY DEF PostsInFlight, DataOK, Kind, Stage
  <2>2. serverSets' \in Nat
    BY <1>8, <2>1 DEF Relaunch, DataOK
  <2>3. kegelGetModel' \in Model
    BY <1>8, <2>2, ModelFacts DEF Relaunch
  <2>4. LoaderBalance' /\ OpenNeverPosts'
    BY <1>8, FreshChains DEF Relaunch, LoaderBalance, OpenNeverPosts
  <2> QED BY <1>8, <2>2, <2>3, <2>4, FreshChains DEF Relaunch, DataOK
<1>9. CASE StartSet \/ FinishDone
  BY <1>1, <1>9 DEF StartSet, FinishDone, netVars, serverVars, historyVars, DataOK
<1>10. CASE ResumeSet \/ FinishTap \/ CountdownTick \/ NextRep \/ Pass
  BY <1>1, <1>10 DEF ResumeSet, FinishTap, CountdownTick, NextRep, Pass,
                     controllerVars, netVars, serverVars, historyVars, DataOK
<1>11. ASSUME NEW h \in Levels, SqueezeTick(h)
       PROVE  DataOK' /\ LoaderBalance' /\ OpenNeverPosts'
  BY <1>1, <1>11 DEF SqueezeTick, controllerVars, netVars, serverVars, historyVars, DataOK
<1>12. CASE Promote
  <2>1. account' \in Levels
    BY <1>12, LevelsAssumption DEF Promote, DataOK
  <2> QED BY <1>1, <1>12, <2>1
          DEF Promote, controllerVars, netVars, historyVars, DataOK
<1>13. CASE UNCHANGED vars
  BY <1>1, <1>13
  DEF vars, controllerVars, netVars, serverVars, historyVars, DataOK
<1> QED
  BY <1>2, <1>3, <1>4, <1>5, <1>6, <1>7, <1>8, <1>9, <1>10, <1>11, <1>12, <1>13,
     PostReplyStep, PostGetReplyStep, GetReplyStep
  DEF Next, User, Clock, Network, BackArrow, SystemBack

LEMMA LInvStep == LInv /\ [Next]_vars => LInv'
<1> SUFFICES ASSUME LInv, [Next]_vars PROVE LInv'
  OBVIOUS
<1>1. ScreenOK /\ DataOK /\ MishapsOK
  BY TypeParts DEF LInv
<1>2. /\ ScreenOK' /\ DataOK' /\ MishapsOK'
      /\ LoaderBalance' /\ OpenNeverPosts'
  BY <1>1, ScreenStep, DataStep, MishapStep
<1>3. TypeOK'
  <2>1. {uncounted, withheld, interrupted, demoted}' \subseteq BOOLEAN
    BY <1>2 DEF MishapsOK
  <2> QED BY <1>2, <2>1 DEF TypeOK, LoaderTypeOK, ScreenOK, DataOK, Rests
<1> QED BY <1>2, <1>3 DEF LInv

\* Whatever the levels, the replies and the order they come in, no variable of
\* the screen ever leaves its type: in particular the watches stay on the
\* display's minute and the number of loader dialogs never falls below zero.
THEOREM TypeCorrect == Spec => []TypeOK
<1>1. Spec => []LInv
  BY InitLInv, LInvStep, PTL DEF Spec
<1>2. LInv => TypeOK
  BY DEF LInv
<1> QED BY <1>1, <1>2, PTL

\* Every loader dialog on the navigator belongs to a call that is still out or
\* to one whose reply has no branch in the code: showLoader and hideLoader
\* balance along every path of Kegel_post_API and Kegel_get_API.
THEOREM LoaderBalanced == Spec => []LoaderBalance
<1>1. Spec => []LInv
  BY InitLInv, LInvStep, PTL DEF Spec
<1>2. LInv => LoaderBalance
  BY DEF LInv
<1> QED BY <1>1, <1>2, PTL
-----------------------------------------------------------------------------
(***************************************************************************)
(* A completed set is posted once.                                         *)
(***************************************************************************)
LEMMA PostingRow ==
    ASSUME NEW row, DataOK, NEW k \in Kind, row \in Row,
           chains' = [chains EXCEPT ![k] = row]
    PROVE  /\ PostsInFlight \in Nat /\ PostsInFlight' \in Nat
           /\ k = "open" => PostsInFlight' = PostsInFlight
           /\ k # "open" =>
                PostsInFlight' = PostsInFlight - chains[k]["post"] + row["post"]
<1>1. /\ chains \in [Kind -> Row]
      /\ \A j \in Kind : chains[j]["post"] \in Nat
      /\ row["post"] \in Nat
  BY DEF DataOK, Row, Stage
<1>2. \A j \in Kind : chains'[j] = IF j = k THEN row ELSE chains[j]
  BY <1>1
<1>3. /\ "resync" \in Kind /\ "alarm" \in Kind
      /\ k \in {"open", "resync", "alarm"}
  BY DEF Kind
<1> QED BY <1>1, <1>2, <1>3 DEF PostsInFlight

LEMMA PostingStart ==
    ASSUME DataOK, NEW k \in Kind, NEW s \in Stage, Start(k, s)
    PROVE  PostsInFlight \in Nat /\
           PostsInFlight' = PostsInFlight + (IF s = "post" /\ k # "open" THEN 1 ELSE 0)
<1> DEFINE row == [chains[k] EXCEPT ![s] = @ + 1]
<1>1. chains[k] \in Row
  BY DEF DataOK, Row
<1>2. row \in Row /\ row["post"] = chains[k]["post"] + (IF s = "post" THEN 1 ELSE 0)
  BY <1>1 DEF Row, Stage
<1>3. chains' = [chains EXCEPT ![k] = row]
  BY DEF Start
<1>4. chains[k]["post"] \in Nat
  BY <1>1 DEF Row, Stage
<1> HIDE DEF row
<1>5. /\ PostsInFlight \in Nat
      /\ k = "open" => PostsInFlight' = PostsInFlight
      /\ k # "open" =>
           PostsInFlight' = PostsInFlight - chains[k]["post"] + row["post"]
  BY <1>2, <1>3, PostingRow
<1> QED BY <1>2, <1>4, <1>5

LEMMA PostingMove ==
    ASSUME DataOK, NEW k \in Kind, NEW s \in Stage, NEW t \in Stage, s # t,
           t # "post", chains[k][s] > 0, Move(k, s, t)
    PROVE  PostsInFlight \in Nat /\ PostsInFlight' \in Nat /\
           PostsInFlight' = PostsInFlight - (IF s = "post" /\ k # "open" THEN 1 ELSE 0)
<1> DEFINE row == [chains[k] EXCEPT ![s] = @ - 1, ![t] = @ + 1]
<1>1. chains[k] \in Row
  BY DEF DataOK, Row
<1>2. row \in Row /\ row["post"] = chains[k]["post"] - (IF s = "post" THEN 1 ELSE 0)
  BY <1>1 DEF Row, Stage
<1>3. chains' = [chains EXCEPT ![k] = row]
  BY DEF Move
<1>4. chains[k]["post"] \in Nat
  BY <1>1 DEF Row, Stage
<1> HIDE DEF row
<1>5. /\ PostsInFlight \in Nat /\ PostsInFlight' \in Nat
      /\ k = "open" => PostsInFlight' = PostsInFlight
      /\ k # "open" =>
           PostsInFlight' = PostsInFlight - chains[k]["post"] + row["post"]
  BY <1>2, <1>3, PostingRow
<1> QED BY <1>2, <1>4, <1>5

LEMMA PostingEnd ==
    ASSUME DataOK, NEW k \in Kind, NEW s \in Stage, chains[k][s] > 0, End(k, s)
    PROVE  PostsInFlight \in Nat /\ PostsInFlight' \in Nat /\
           PostsInFlight' = PostsInFlight - (IF s = "post" /\ k # "open" THEN 1 ELSE 0)
<1> DEFINE row == [chains[k] EXCEPT ![s] = @ - 1]
<1>1. chains[k] \in Row
  BY DEF DataOK, Row
<1>2. row \in Row /\ row["post"] = chains[k]["post"] - (IF s = "post" THEN 1 ELSE 0)
  BY <1>1 DEF Row, Stage
<1>3. chains' = [chains EXCEPT ![k] = row]
  BY DEF End
<1>4. chains[k]["post"] \in Nat
  BY <1>1 DEF Row, Stage
<1> HIDE DEF row
<1>5. /\ PostsInFlight \in Nat /\ PostsInFlight' \in Nat
      /\ k = "open" => PostsInFlight' = PostsInFlight
      /\ k # "open" =>
           PostsInFlight' = PostsInFlight - chains[k]["post"] + row["post"]
  BY <1>2, <1>3, PostingRow
<1> QED BY <1>2, <1>4, <1>5

LEMMA CountStep == LInv /\ NeverOvercounted /\ [Next]_vars => NeverOvercounted'
<1> SUFFICES ASSUME LInv, NeverOvercounted, [Next]_vars PROVE NeverOvercounted'
  OBVIOUS
<1>0. DataOK
  BY TypeParts DEF LInv
<1>t. PostsInFlight \in Nat /\ serverSets \in Nat /\ done \in Nat
  BY <1>0 DEF PostsInFlight, DataOK, Kind, Stage
<1>i. serverSets + PostsInFlight <= done
  BY DEF NeverOvercounted
<1>n. "wait" \in Stage /\ "get" \in Stage /\ "post" \in Stage /\ "postGet" \in Stage
      /\ "open" \in Kind /\ "resync" \in Kind /\ "alarm" \in Kind
  BY DEF Stage, Kind
<1>1. ASSUME UNCHANGED <<serverSets, done>>, PostsInFlight' = PostsInFlight
      PROVE  NeverOvercounted'
  BY <1>i, <1>1 DEF NeverOvercounted
<1>2. CASE Enter
  <2>1. PostsInFlight' = PostsInFlight
    BY <1>0, <1>2, <1>n, <1>t, PostingStart DEF Enter
  <2> QED BY <1>1, <1>2, <2>1 DEF Enter, serverVars, historyVars
<1>3. CASE Dispose \/ Relaunch
  <2>1. PostsInFlight' = 0
    BY <1>3 DEF Dispose, Relaunch, PostsInFlight, NoChains, Kind, Stage
  <2>2. serverSets' \in serverSets..(serverSets + PostsInFlight) /\ done' = done
    BY <1>3, <1>t DEF Dispose, Relaunch, serverVars, historyVars
  <2>3. PICK p \in Nat, n \in Nat : p = PostsInFlight /\ n = serverSets'
    BY <1>t, <2>2
  <2>4. n <= serverSets + p /\ serverSets + p <= done
    BY <1>i, <1>t, <2>2, <2>3
  <2>5. n + 0 <= done
    BY <1>t, <2>4
  <2> QED BY <2>1, <2>2, <2>3, <2>5 DEF NeverOvercounted
<1>4. CASE SetDone
  <2>1. PICK k \in {"resync", "alarm"} : Start(k, "post")
    BY <1>4 DEF SetDone
  <2>2. PostsInFlight' = PostsInFlight + 1
    BY <1>0, <1>n, <2>1, PostingStart DEF Kind
  <2> QED BY <1>4, <1>i, <1>t, <2>2 DEF SetDone, serverVars, NeverOvercounted
<1>5. ASSUME NEW k \in Kind, NEW r \in Replies,
           NEW hides \in BOOLEAN, PostReply(k, r, hides)
      PROVE  NeverOvercounted'
  <2>1. k # "open" /\ chains[k]["post"] > 0
    BY <1>5 DEF PostReply, LInv, OpenNeverPosts
  <2>2. PostsInFlight' \in Nat /\ PostsInFlight' = PostsInFlight - 1
    <3>1. Move(k, "post", "postGet") \/ Move(k, "post", "wait") \/ End(k, "post")
      BY <1>5 DEF PostReply, AfterPost
    <3> QED BY <1>0, <1>n, <2>1, <3>1, PostingMove, PostingEnd
  <2>3. serverSets' \in {serverSets, serverSets + 1} /\ done' = done
    BY <1>5 DEF PostReply
  <2>4. done' = done
    BY <2>3
  <2>5. serverSets' + PostsInFlight' <= done
    <3>1. PICK p \in Nat, q \in Nat, n \in Nat :
              p = PostsInFlight /\ q = PostsInFlight' /\ n = serverSets'
      BY <1>t, <2>2, <2>3
    <3>2. q = p - 1 /\ n <= serverSets + 1 /\ serverSets + p <= done
      BY <1>i, <1>t, <2>2, <2>3, <3>1
    <3>3. n + q <= done
      BY <1>t, <3>2
    <3> QED BY <3>1, <3>3
  <2> QED BY <2>4, <2>5 DEF NeverOvercounted
<1>6. ASSUME NEW k \in Kind, NEW r \in Replies,
           NEW hides \in BOOLEAN, PostGetReply(k, r, hides)
      PROVE  NeverOvercounted'
  <2>1. chains[k]["postGet"] > 0 /\ (Move(k, "postGet", "wait") \/ End(k, "postGet"))
    BY <1>6 DEF PostGetReply
  <2>2. PostsInFlight' = PostsInFlight
    BY <1>0, <1>n, <1>t, <2>1, PostingMove, PostingEnd
  <2> QED BY <1>1, <1>6, <2>2 DEF PostGetReply, serverVars
<1>7. ASSUME NEW k \in Kind, ProfileReply(k) \/ ProfileDropped(k)
      PROVE  NeverOvercounted'
  <2>1. chains[k]["wait"] > 0 /\ (Move(k, "wait", "get") \/ End(k, "wait"))
    BY <1>7 DEF ProfileReply, ProfileDropped
  <2>2. PostsInFlight' = PostsInFlight
    BY <1>0, <1>n, <1>t, <2>1, PostingMove, PostingEnd
  <2> QED BY <1>1, <1>7, <2>2 DEF ProfileReply, ProfileDropped, serverVars, historyVars
<1>8. CASE AlarmGet
  <2>1. PostsInFlight' = PostsInFlight
    BY <1>0, <1>8, <1>n, <1>t, PostingMove DEF AlarmGet
  <2> QED BY <1>1, <1>8, <2>1 DEF AlarmGet, serverVars, historyVars
<1>9. ASSUME NEW k \in Kind, NEW r \in Replies,
           NEW hides \in BOOLEAN, GetReply(k, r, hides)
      PROVE  NeverOvercounted'
  <2>1. PostsInFlight' = PostsInFlight
    BY <1>0, <1>9, <1>n, <1>t, PostingEnd DEF GetReply
  <2> QED BY <1>1, <1>9, <2>1 DEF GetReply, serverVars
<1>10. CASE UNCHANGED <<chains, serverSets, done>>
  BY <1>1, <1>10 DEF PostsInFlight
<1> QED
  BY <1>2, <1>3, <1>4, <1>5, <1>6, <1>7, <1>8, <1>9, <1>10
  DEF Next, User, Clock, Network, BackArrow, Swipe, SystemBack, Leave, StartSet,
      ResumeSet, FinishTap, FinishDone, CountdownTick, SqueezeTick, NextRep, Pass,
      Promote, vars, netVars, serverVars, historyVars

\* Whatever the replies to a post and the moments the process is killed, the
\* server never counts more sets than were completed: the delayed callback that
\* completes a set posts it once, and nothing posts it again.
THEOREM CountedOnce == Spec => []NeverOvercounted
<1>1. Init => NeverOvercounted
  BY FreshChains DEF Init, NeverOvercounted, PostsInFlight, NoChains, Kind, Stage
<1>2. Spec => [](LInv /\ NeverOvercounted)
  BY <1>1, InitLInv, LInvStep, CountStep, PTL DEF Spec
<1> QED BY <1>2, PTL
-----------------------------------------------------------------------------
(***************************************************************************)
(* A rest is never counted.  The watch runs during a rest too, but a rest  *)
(* is over before the watch shows the digits any handler waits for, so     *)
(* there is one rest at a time.                                            *)
(***************************************************************************)
OneRest ==
    /\ rests = <<>> \/ Len(rests) = 1
    /\ rests # <<>> => watch.at + rests[1].left <= Rest
    /\ four_started => rests # <<>>

LEMMA OneRestStep ==
    ASSUME SqueezeOutlastsRest
    PROVE  TypeOK /\ OneRest /\ [Next]_vars
             => OneRest' /\ (counter' = counter + 1 => ~four_started)
<1> SUFFICES ASSUME TypeOK, OneRest, [Next]_vars
             PROVE  OneRest' /\ (counter' = counter + 1 => ~four_started)
  OBVIOUS
<1>t. watch \in Stopwatch /\ counter \in Nat /\ rests \in Rests
  BY DEF TypeOK, Rests
<1>w. watch.at \in 0..(Minute - 1) /\ Rest \in Nat
  BY <1>t, TimeAssumption, MinuteAssumption DEF Stopwatch
<1>r. rests # <<>> => rests[1].left \in 0..Rest
  <2> DEFINE R == [by : Levels, left : 0..Rest]
  <2>1. rests \in Seq(R)
    BY <1>t DEF Rests
  <2>2. \A x \in R : x.left \in 0..Rest
    OBVIOUS
  <2> HIDE DEF R
  <2>3. rests # <<>> => rests[1] \in R
    BY <2>1
  <2> QED BY <2>2, <2>3
<1>1. ASSUME counter' = counter \/ counter' = 0, UNCHANGED rests \/ rests' = <<>>,
             watch'.at = watch.at \/ watch'.at = 0,
             four_started' = FALSE \/ (four_started' = four_started /\ UNCHANGED rests)
      PROVE  OneRest' /\ (counter' = counter + 1 => ~four_started)
  <2>1. counter' # counter + 1
    BY <1>1, <1>t
  <2>2. rests' # <<>> => watch'.at + rests'[1].left <= Rest
    <3> SUFFICES ASSUME rests' # <<>> PROVE watch'.at + rests'[1].left <= Rest
      OBVIOUS
    <3>4. rests' = rests /\ rests[1].left \in Int
      BY <1>1, <1>r, <1>w
    <3>5. watch'.at \in Int /\ watch.at \in Int
      BY <1>1, <1>w
    <3>1. PICK a \in Int, b \in Int, n \in Int :
             a = watch'.at /\ b = rests[1].left /\ n = watch.at
      BY <3>4, <3>5
    <3>2. rests' = rests /\ (a = n \/ a = 0) /\ n >= 0 /\ n + b <= Rest
      BY <1>1, <1>w, <3>1 DEF OneRest
    <3>3. a + b <= Rest
      BY <1>w, <3>2
    <3> QED BY <3>1, <3>2, <3>3
  <2> QED BY <1>1, <2>1, <2>2 DEF OneRest
<1>2. CASE NoScreen
  <2>1. counter' # counter + 1 /\ rests' = <<>> /\ ~four_started'
    BY <1>2, <1>t DEF NoScreen
  <2> QED BY <2>1 DEF OneRest
<1>k. /\ Running(watch).at = watch.at /\ Stopped(watch).at = watch.at
      /\ Cleared(watch).at = 0 /\ Running(Cleared(watch)).at = 0
  BY <1>t, WatchFacts, WatchTypes
<1>3. CASE Enter \/ StartSet \/ Promote \/ AlarmGet
  BY <1>1, <1>3 DEF Enter, StartSet, Promote, AlarmGet, clockVars, stateVars
<1>4. CASE ResumeSet \/ CountdownTick
  BY <1>1, <1>4, <1>k DEF ResumeSet, CountdownTick, StartWatch
<1>5. CASE FinishTap
  BY <1>1, <1>5, <1>k DEF FinishTap, StopWatches
<1>6. CASE FinishDone
  <2>1. watch' = Cleared(watch) /\ UNCHANGED <<counter, rests, four_started>>
    BY <1>6 DEF FinishDone
  <2>2. watch'.at = 0
    BY <2>1, <1>k
  <2> QED BY <1>1, <2>1, <2>2
<1>7. CASE NextRep \/ SetDone
  <2>1. Len(rests) = 1
    BY <1>7 DEF NextRep, SetDone, RestDue, OneRest
  <2>2. rests' = Tail(rests)
    BY <1>7 DEF NextRep, SetDone
  <2>4. rests' = <<>>
    BY <1>t, <2>1, <2>2, TailOfOne DEF Rests
  <2>3. four_started' = FALSE /\ counter' # counter + 1
    BY <1>7, <1>t DEF NextRep, SetDone
  <2> QED BY <2>3, <2>4 DEF OneRest
<1>8. CASE Pass
  <2>1. counter' # counter + 1
    BY <1>8, <1>t DEF Pass
  <2>2. CASE rests = <<>>
    BY <1>8, <2>1, <2>2 DEF Pass, OneRest
  <2>3. CASE rests # <<>>
    <3>1. Len(rests) = 1 /\ DOMAIN rests = {1}
      BY <2>3, <1>t DEF OneRest, Rests
    <3>2. rests[1].left # 0
      BY <1>8, <3>1 DEF Pass, Due
    <3>3. rests' # <<>> /\ Len(rests') = 1 /\ rests'[1].left = rests[1].left - 1
      BY <1>8, <3>1 DEF Pass
    <3>4. watch.at + 1 <= Rest
      BY <1>r, <1>w, <2>3, <3>2 DEF OneRest
    <3>5. watch'.at \in {watch.at, watch.at + 1}
      <4>1. watch.at + 1 < Minute
        BY <1>w, <3>4, TimeAssumption, MinuteAssumption DEF SqueezeOutlastsRest
      <4> QED BY <1>8, <1>t, <4>1, WatchFacts DEF Pass
    <3>6. watch'.at + rests'[1].left <= Rest
      <4>1. PICK a \in Int, b \in Int, c \in Int, d \in Int :
               a = watch.at /\ b = rests[1].left /\ c = watch'.at /\ d = rests'[1].left
        BY <1>r, <1>w, <2>3, <3>3, <3>5
      <4>2. a + b <= Rest /\ (c = a \/ c = a + 1) /\ d = b - 1
        BY <2>3, <3>3, <3>5, <4>1 DEF OneRest
      <4>3. c + d <= Rest
        BY <1>w, <4>2
      <4> QED BY <4>1, <4>3
    <3> QED BY <1>8, <2>1, <2>3, <3>3, <3>6 DEF Pass, OneRest
  <2> QED BY <2>2, <2>3
<1>9. ASSUME NEW h \in Levels, SqueezeTick(h)
      PROVE  OneRest' /\ (counter' = counter + 1 => ~four_started)
  <2>1. watch.at = Squeeze[h] /\ watch.at > Rest
    BY <1>9 DEF SqueezeTick, SqueezeOutlastsRest
  <2>2. rests = <<>>
    BY <1>r, <1>w, <2>1 DEF OneRest
  <2>3. rests' = <<[by |-> h, left |-> Rest]>> /\ watch'.at = 0
    BY <1>9, <1>k, <2>2 DEF SqueezeTick, StartWatch
  <2>4. Len(rests') = 1 /\ rests'[1].left = Rest /\ rests' # <<>>
    BY <2>3
  <2>5. watch'.at + rests'[1].left <= Rest
    BY <1>w, <2>3, <2>4
  <2> QED BY <2>2, <2>4, <2>5 DEF OneRest
<1>10. ASSUME NEW k \in Kind, NEW r \in Replies, NEW hides \in BOOLEAN,
              PostReply(k, r, hides) \/ PostGetReply(k, r, hides) \/ ProfileDropped(k) \/ ProfileReply(k)
       PROVE  OneRest' /\ (counter' = counter + 1 => ~four_started)
  BY <1>1, <1>10
  DEF PostReply, PostGetReply, ProfileDropped, ProfileReply, stateVars, clockVars
<1>11. ASSUME NEW k \in Kind, NEW r \in Replies,
           NEW hides \in BOOLEAN, GetReply(k, r, hides)
       PROVE  OneRest' /\ (counter' = counter + 1 => ~four_started)
  <2>1. UNCHANGED rests
    BY <1>11 DEF GetReply
  <2>2. \/ UNCHANGED <<watch, four_started, counter>>
        \/ watch' = Stopped(watch) /\ four_started' = FALSE /\ counter' = 0
    BY <1>11 DEF GetReply, CheckDay, StopWatches
  <2>3. watch'.at = watch.at
    BY <2>2, <1>k
  <2> QED BY <1>1, <2>1, <2>2, <2>3
<1>12. CASE UNCHANGED vars
  BY <1>1, <1>12 DEF vars, stateVars, clockVars
<1> QED
  BY <1>2, <1>3, <1>4, <1>5, <1>6, <1>7, <1>8, <1>9, <1>10, <1>11, <1>12
  DEF Next, User, Clock, Network, BackArrow, Swipe, SystemBack, Leave, Dispose, Relaunch, Replies

\* A rest is never counted as a squeeze, whatever the replies, at every level
\* whose squeeze outlasts a rest: the digits of `watch` a handler waits for
\* cannot show while a Future.delayed of startWatch2 is pending.
THEOREM OnlySqueezesCounted ==
    ASSUME SqueezeOutlastsRest
    PROVE  Spec => OnlySqueezesCount
<1>1. Init => OneRest
  BY DEF Init, OneRest
<1>2. TypeOK /\ OneRest /\ [Next]_vars => OneRest' /\ (counter' = counter + 1 => ~four_started)
  BY OneRestStep
<1>3. TypeOK /\ OneRest /\ [Next]_vars
        => OneRest' /\ [counter' = counter + 1 => ~four_started]_vars
  BY <1>2
<1> QED BY <1>1, <1>3, TypeCorrect, PTL DEF Spec, OnlySqueezesCount
-----------------------------------------------------------------------------
(***************************************************************************)
(* The shape of a session.  The flags, the watches and the queue of rests  *)
(* are set by different handlers, and every exit looks at some of them     *)
(* only; they agree as long as no reply stops a session that is running.   *)
(***************************************************************************)
Shape ==
    /\ rests # <<>> => four_started /\ watch.run /\ ~started /\ ~finishing
    /\ started => ~watch.run /\ ~watch3.run /\ ~finishing
    /\ finishing => ~watch.run /\ ~watch3.run
    /\ watch3.run => counter = 0 /\ rests = <<>>

Shaped == LInv /\ OneRest /\ (interrupted \/ Shape)

LEMMA WatchRuns ==
    ASSUME NEW w \in Stopwatch
    PROVE  /\ Running(w).run = TRUE /\ Stopped(w).run = FALSE /\ Zero.run = FALSE
           /\ Cleared(w).run = w.run /\ Advanced(w).run = w.run
           /\ Stopped(Cleared(w)).run = FALSE
  BY DEF Stopwatch, Running, Stopped, Cleared, Advanced, Zero

\* Chains behind a set that are at this stage.
At(s) == chains["resync"][s] + chains["alarm"][s]

\* What the steps of a chain do to the numbers of chains at each stage.
LEMMA AtRow ==
    ASSUME DataOK, NEW k \in Kind, NEW row \in Row, chains' = [chains EXCEPT ![k] = row]
    PROVE  \A u \in Stage :
              /\ At(u) \in Nat /\ At(u)' \in Nat
              /\ chains[k][u] \in Nat /\ row[u] \in Nat
              /\ At(u)' = IF k = "open" THEN At(u) ELSE At(u) - chains[k][u] + row[u]
<1> SUFFICES ASSUME NEW u \in Stage
             PROVE  /\ At(u) \in Nat /\ At(u)' \in Nat
                    /\ chains[k][u] \in Nat /\ row[u] \in Nat
                    /\ At(u)' = IF k = "open" THEN At(u)
                                              ELSE At(u) - chains[k][u] + row[u]
  OBVIOUS
<1>1. \A j \in Kind : chains[j][u] \in Nat
  BY DEF DataOK
<1>2. row[u] \in Nat
  BY DEF Row
<1>3. \A j \in Kind : chains'[j] = IF j = k THEN row ELSE chains[j]
  BY DEF DataOK
<1>4. /\ "resync" \in Kind /\ "alarm" \in Kind
      /\ k \in {"open", "resync", "alarm"}
  BY DEF Kind
<1> QED BY <1>1, <1>2, <1>3, <1>4 DEF At

LEMMA AtStart ==
    ASSUME DataOK, NEW k \in Kind, NEW s \in Stage, Start(k, s)
    PROVE  \A u \in Stage :
              /\ At(u) \in Nat
              /\ At(u)' = IF k # "open" /\ u = s THEN At(u) + 1 ELSE At(u)
<1> DEFINE row == [chains[k] EXCEPT ![s] = @ + 1]
<1>1. chains[k] \in Row
  BY DEF DataOK, Row
<1>2. row \in Row /\ \A u \in Stage : row[u] = IF u = s THEN chains[k][u] + 1 ELSE chains[k][u]
  BY <1>1 DEF Row
<1>3. chains' = [chains EXCEPT ![k] = row]
  BY DEF Start
<1> HIDE DEF row
<1>4. \A u \in Stage :
         /\ At(u) \in Nat /\ At(u)' \in Nat
         /\ chains[k][u] \in Nat /\ row[u] \in Nat
         /\ At(u)' = IF k = "open" THEN At(u) ELSE At(u) - chains[k][u] + row[u]
  BY <1>2, <1>3, AtRow
<1> SUFFICES ASSUME NEW u \in Stage
             PROVE  /\ At(u) \in Nat
                    /\ At(u)' = IF k # "open" /\ u = s THEN At(u) + 1 ELSE At(u)
  OBVIOUS
<1>5. PICK a \in Nat, b \in Nat, c \in Nat, d \in Nat :
         a = At(u) /\ b = At(u)' /\ c = chains[k][u] /\ d = row[u]
  BY <1>4
<1>6. /\ b = IF k = "open" THEN a ELSE a - c + d
      /\ d = IF u = s THEN c + 1 ELSE c
  BY <1>2, <1>4, <1>5
<1>7. b = IF k # "open" /\ u = s THEN a + 1 ELSE a
  BY <1>6
<1> QED BY <1>5, <1>7

LEMMA AtEnd ==
    ASSUME DataOK, NEW k \in Kind, NEW s \in Stage, chains[k][s] > 0, End(k, s)
    PROVE  \A u \in Stage :
              /\ At(u) \in Nat /\ At(u)' \in Nat
              /\ At(u)' = IF k # "open" /\ u = s THEN At(u) - 1 ELSE At(u)
<1> DEFINE row == [chains[k] EXCEPT ![s] = @ - 1]
<1>1. chains[k] \in Row
  BY DEF DataOK, Row
<1>2. row \in Row /\ \A u \in Stage : row[u] = IF u = s THEN chains[k][u] - 1 ELSE chains[k][u]
  BY <1>1 DEF Row
<1>3. chains' = [chains EXCEPT ![k] = row]
  BY DEF End
<1> HIDE DEF row
<1>4. \A u \in Stage :
         /\ At(u) \in Nat /\ At(u)' \in Nat
         /\ chains[k][u] \in Nat /\ row[u] \in Nat
         /\ At(u)' = IF k = "open" THEN At(u) ELSE At(u) - chains[k][u] + row[u]
  BY <1>2, <1>3, AtRow
<1> SUFFICES ASSUME NEW u \in Stage
             PROVE  /\ At(u) \in Nat /\ At(u)' \in Nat
                    /\ At(u)' = IF k # "open" /\ u = s THEN At(u) - 1 ELSE At(u)
  OBVIOUS
<1>5. PICK a \in Nat, b \in Nat, c \in Nat, d \in Nat :
         a = At(u) /\ b = At(u)' /\ c = chains[k][u] /\ d = row[u]
  BY <1>4
<1>6. /\ b = IF k = "open" THEN a ELSE a - c + d
      /\ d = IF u = s THEN c - 1 ELSE c
  BY <1>2, <1>4, <1>5
<1>7. b = IF k # "open" /\ u = s THEN a - 1 ELSE a
  BY <1>6
<1> QED BY <1>5, <1>7

LEMMA AtMove ==
    ASSUME DataOK, NEW k \in Kind, NEW s \in Stage, NEW t \in Stage, s # t,
           chains[k][s] > 0, Move(k, s, t)
    PROVE  \A u \in Stage :
              /\ At(u) \in Nat /\ At(u)' \in Nat
              /\ At(u)' = IF k # "open" /\ u = s THEN At(u) - 1
                     ELSE IF k # "open" /\ u = t THEN At(u) + 1 ELSE At(u)
<1> DEFINE row == [chains[k] EXCEPT ![s] = @ - 1, ![t] = @ + 1]
<1>1. chains[k] \in Row
  BY DEF DataOK, Row
<1>2. row \in Row /\ \A u \in Stage : row[u] = IF u = s THEN chains[k][u] - 1
                                         ELSE IF u = t THEN chains[k][u] + 1
                                         ELSE chains[k][u]
  BY <1>1 DEF Row
<1>3. chains' = [chains EXCEPT ![k] = row]
  BY DEF Move
<1> HIDE DEF row
<1>4. \A u \in Stage :
         /\ At(u) \in Nat /\ At(u)' \in Nat
         /\ chains[k][u] \in Nat /\ row[u] \in Nat
         /\ At(u)' = IF k = "open" THEN At(u) ELSE At(u) - chains[k][u] + row[u]
  BY <1>2, <1>3, AtRow
<1> SUFFICES ASSUME NEW u \in Stage
             PROVE  /\ At(u) \in Nat /\ At(u)' \in Nat
                    /\ At(u)' = IF k # "open" /\ u = s THEN At(u) - 1
                           ELSE IF k # "open" /\ u = t THEN At(u) + 1 ELSE At(u)
  OBVIOUS
<1>5. PICK a \in Nat, b \in Nat, c \in Nat, d \in Nat :
         a = At(u) /\ b = At(u)' /\ c = chains[k][u] /\ d = row[u]
  BY <1>4
<1>6. /\ b = IF k = "open" THEN a ELSE a - c + d
      /\ d = IF u = s THEN c - 1 ELSE IF u = t THEN c + 1 ELSE c
  BY <1>2, <1>4, <1>5
<1>7. b = IF k # "open" /\ u = s THEN a - 1
               ELSE IF k # "open" /\ u = t THEN a + 1 ELSE a
  BY <1>6
<1> QED BY <1>5, <1>7

\* Without a loader nothing is out but chains that wait.
LEMMA NothingOut ==
    ASSUME LInv, loaders = 0
    PROVE  left = 0 /\ At("post") = 0 /\ At("postGet") = 0
<1>1. /\ chains["resync"] \in Row /\ chains["alarm"] \in Row /\ chains["open"] \in Row
      /\ left \in Nat /\ 0 = left + LoadersOut(chains)
  BY DEF LInv, TypeOK, LoaderBalance, Row, Kind
<1>2. \A row \in Row : /\ RowLoaders(row) \in Nat
                       /\ RowLoaders(row) = 0 => row["post"] = 0 /\ row["postGet"] = 0
  BY DEF Row, RowLoaders, Stage
<1>3. \A a, b, c, d \in Nat : 0 = a + (b + c + d) => a = 0 /\ c = 0 /\ d = 0
  OBVIOUS
<1>4. left = 0 /\ RowLoaders(chains["resync"]) = 0 /\ RowLoaders(chains["alarm"]) = 0
  BY <1>1, <1>2, <1>3 DEF LoadersOut
<1> QED BY <1>1, <1>2, <1>4 DEF At

-----------------------------------------------------------------------------
LEMMA CountTypes ==
    ASSUME LInv
    PROVE  /\ DataOK /\ OpenNeverPosts /\ At("post") \in Nat /\ At("postGet") \in Nat
           /\ sets \in Nat /\ serverSets \in Nat /\ left \in Nat /\ done \in Nat
           /\ DailySets \in Nat \ {0} /\ kegelGetModel \in Model
           /\ kegelGetModel.sets \in Nat
<1>1. DataOK /\ OpenNeverPosts
  BY TypeParts DEF LInv
<1> QED BY <1>1, NetAssumption DEF DataOK, Model, At, Kind, Stage

\* The chains an operation leaves alone, as far as posts and the gets nested in
\* them are concerned.
LEMMA AtUnmoved ==
    ASSUME DataOK,
           \/ Enter \/ AlarmGet \/ UNCHANGED chains
           \/ \E k \in Kind : ProfileReply(k) \/ ProfileDropped(k)
           \/ \E k \in Kind, r \in Replies, hides \in BOOLEAN : GetReply(k, r, hides)
    PROVE  At("post")' = At("post") /\ At("postGet")' = At("postGet")
<1>n. /\ "wait" \in Stage /\ "get" \in Stage /\ "post" \in Stage /\ "postGet" \in Stage
      /\ "open" \in Kind /\ "alarm" \in Kind
  BY DEF Stage, Kind
<1>1. CASE Enter
  BY <1>1, <1>n, AtStart DEF Enter
<1>2. CASE AlarmGet
  BY <1>2, <1>n, AtMove DEF AlarmGet
<1>3. CASE UNCHANGED chains
  BY <1>3 DEF At
<1>4. ASSUME NEW k \in Kind, ProfileReply(k) \/ ProfileDropped(k)
      PROVE  At("post")' = At("post") /\ At("postGet")' = At("postGet")
  <2>1. chains[k]["wait"] > 0 /\ (Move(k, "wait", "get") \/ End(k, "wait"))
    BY <1>4 DEF ProfileReply, ProfileDropped
  <2> QED BY <1>n, <2>1, AtMove, AtEnd
<1>5. ASSUME NEW k \in Kind, NEW r \in Replies,
             NEW hides \in BOOLEAN, GetReply(k, r, hides)
      PROVE  At("post")' = At("post") /\ At("postGet")' = At("postGet")
  BY <1>5, <1>n, AtEnd DEF GetReply
<1> QED BY <1>1, <1>2, <1>3, <1>4, <1>5

\* Leaving the screen and killing the app end every chain.
LEMMA AtLost ==
    ASSUME chains' = NoChains
    PROVE  At("post")' = 0 /\ At("postGet")' = 0
  BY DEF At, NoChains, Kind, Stage

\* A completed set is posted ...
LEMMA AtSetDone ==
    ASSUME LInv, SetDone
    PROVE  At("post")' = At("post") + 1 /\ At("postGet")' = At("postGet")
<1>1. PICK k \in {"resync", "alarm"} : Start(k, "post")
  BY DEF SetDone
<1>2. k \in Kind /\ k # "open" /\ "post" \in Stage /\ "postGet" \in Stage /\ DataOK
  BY CountTypes DEF Kind, Stage
<1> QED BY <1>1, <1>2, AtStart

\* ... which one reply answers ...
LEMMA AtPostReply ==
    ASSUME LInv, NEW k \in Kind, NEW r \in Replies,
           NEW hides \in BOOLEAN, PostReply(k, r, hides)
    PROVE  /\ At("post") > 0 /\ At("post")' = At("post") - 1
           /\ r = "ok" => At("postGet")' = At("postGet") + 1
           /\ r # "ok" => At("postGet")' = At("postGet")
<1>1. chains[k]["post"] > 0 /\ k # "open" /\ DataOK
  BY CountTypes DEF PostReply, OpenNeverPosts
<1>2. "post" \in Stage /\ "postGet" \in Stage /\ "wait" \in Stage
  BY DEF Stage
<1>3. At("post") > 0
  <2>1. chains["resync"]["post"] \in Nat /\ chains["alarm"]["post"] \in Nat
    BY <1>1, <1>2 DEF DataOK, Kind
  <2> QED BY <1>1, <2>1 DEF At, Kind
<1>4. \/ r = "ok" /\ Move(k, "post", "postGet")
      \/ r # "ok" /\ (Move(k, "post", "wait") \/ End(k, "post"))
  BY DEF PostReply, AfterPost
<1> QED BY <1>1, <1>2, <1>3, <1>4, AtMove, AtEnd

\* ... and the get nested in the post ends with it.
LEMMA AtPostGetReply ==
    ASSUME LInv, NEW k \in Kind, NEW r \in Replies,
           NEW hides \in BOOLEAN, PostGetReply(k, r, hides)
    PROVE  At("postGet") > 0 /\ At("post")' = At("post")
<1>1. chains[k]["postGet"] > 0 /\ k # "open" /\ DataOK
  BY CountTypes DEF PostGetReply, OpenNeverPosts
<1>2. "post" \in Stage /\ "postGet" \in Stage /\ "wait" \in Stage
  BY DEF Stage
<1>3. At("postGet") > 0
  <2>1. chains["resync"]["postGet"] \in Nat /\ chains["alarm"]["postGet"] \in Nat
    BY <1>1, <1>2 DEF DataOK, Kind
  <2> QED BY <1>1, <2>1 DEF At, Kind
<1>4. Move(k, "postGet", "wait") \/ End(k, "postGet")
  BY DEF PostGetReply
<1> QED BY <1>1, <1>2, <1>3, <1>4, AtMove, AtEnd
\* What becomes of the screen's history: only its end resets it.
LEMMA MishapsKept ==
    ASSUME [Next]_vars
    PROVE  \/ Dispose \/ Relaunch
           \/ UNCHANGED <<interrupted, demoted>>
           \/ /\ \E k \in Kind, r \in Replies, hides \in BOOLEAN :
                    GetReply(k, r, hides)
              /\ demoted' = demoted /\ (interrupted => interrupted')
           \/ /\ \E k \in Kind : ProfileReply(k)
              /\ interrupted' = interrupted /\ (demoted => demoted')
<1>1. ASSUME NEW k \in Kind, NEW r \in Replies, NEW hides \in BOOLEAN,
             GetReply(k, r, hides)
      PROVE  demoted' = demoted /\ (interrupted => interrupted')
  <2>1. /\ interrupted' = (interrupted \/ (~started /\ started'))
        /\ demoted' = demoted
    BY <1>1 DEF GetReply
  <2> QED BY <2>1
<1>2. ASSUME NEW k \in Kind, ProfileReply(k)
      PROVE  interrupted' = interrupted /\ (demoted => demoted')
  <2>1. /\ demoted' = (demoted \/ \E h \in timers : ~Up(h, pref'))
        /\ interrupted' = interrupted
    BY <1>2 DEF ProfileReply
  <2> QED BY <2>1
<1>3. ASSUME NEW k \in Kind, NEW r \in Replies, NEW hides \in BOOLEAN,
             PostReply(k, r, hides) \/ PostGetReply(k, r, hides)
      PROVE  UNCHANGED <<interrupted, demoted>>
  BY <1>3 DEF PostReply, PostGetReply
<1>4. CASE User \/ Clock \/ Promote \/ UNCHANGED vars
  BY <1>4
  DEF User, Clock, Enter, BackArrow, Swipe, SystemBack, Leave,
      StartSet, ResumeSet, FinishTap, FinishDone, CountdownTick, SqueezeTick,
      NextRep, SetDone, Pass, Promote, vars, historyVars, mishapVars
<1>5. ASSUME AlarmGet \/ \E k \in Kind : ProfileDropped(k)
      PROVE  UNCHANGED <<interrupted, demoted>>
  BY <1>5 DEF AlarmGet, ProfileDropped, historyVars, mishapVars
<1> QED BY <1>1, <1>2, <1>3, <1>4, <1>5 DEF Next, Network

\* The check behind a set leaves a running session alone, or is on record.
LEMMA ReplyKeepsSession ==
    ASSUME NEW k \in Kind, NEW r \in Replies, NEW hides \in BOOLEAN,
           GetReply(k, r, hides), started \in BOOLEAN, ~interrupted'
    PROVE  \/ UNCHANGED <<watch, watch3, four_started, started, counter>>
           \/ /\ started /\ started' = TRUE /\ four_started' = FALSE /\ counter' = 0
              /\ watch' = Stopped(watch) /\ watch3' = Stopped(watch3)
<1>1. interrupted' = (interrupted \/ (~started /\ started'))
  BY DEF GetReply
<1>2. started \/ ~started'
  BY <1>1
<1> QED BY <1>2 DEF GetReply, CheckDay, StopWatches

LEMMA ShapeStep ==
    ASSUME SqueezeOutlastsRest
    PROVE  Shaped /\ [Next]_vars => interrupted' \/ Shape'
<1> SUFFICES ASSUME Shaped, [Next]_vars, ~interrupted' PROVE Shape'
  OBVIOUS
<1>0. TypeOK /\ OneRest /\ OneRest'
  BY OneRestStep DEF Shaped, LInv
<1>i. interrupted \in BOOLEAN /\ started \in BOOLEAN
  BY <1>0, TypeParts DEF MishapsOK, ScreenOK
<1>3. CASE NoScreen
  BY <1>3 DEF NoScreen, Shape, Zero
<1> SUFFICES ASSUME Shape PROVE Shape'
  BY <1>3, MishapsKept DEF Shaped, Dispose, Relaunch
<1> USE DEF Shape
<1>1. TypeOK /\ OneRest /\ OneRest' /\ Shape
  BY <1>0
<1>t. watch \in Stopwatch /\ watch3 \in Stopwatch /\ rests \in Rests
  BY <1>1 DEF TypeOK, Rests
<1>w. \A w \in Stopwatch : /\ Running(w).run = TRUE /\ Stopped(w).run = FALSE
                           /\ Zero.run = FALSE /\ Cleared(w).run = w.run
                           /\ Advanced(w).run = w.run
                           /\ Running(Cleared(w)).run = TRUE
                           /\ Stopped(Cleared(w)).run = FALSE
  BY WatchRuns, WatchTypes
<1>2. CASE UNCHANGED <<watch, watch3, rests, counter, started, four_started, finishing>>
  BY <1>1, <1>2
<1>4. CASE StartSet
  BY <1>1, <1>4, <1>w, <1>t DEF StartSet
<1>5. CASE ResumeSet
  BY <1>1, <1>5, <1>w, <1>t DEF ResumeSet, StartWatch
<1>6. CASE FinishTap
  BY <1>1, <1>6, <1>w, <1>t DEF FinishTap, FinishAllowed, StopWatches
<1>7. CASE FinishDone
  BY <1>1, <1>7, <1>w, <1>t DEF FinishDone
<1>8. CASE CountdownTick
  BY <1>1, <1>8, <1>w, <1>t DEF CountdownTick, StartWatch
<1>9. ASSUME NEW h \in Levels, SqueezeTick(h) PROVE Shape'
  BY <1>1, <1>9, <1>w, <1>t DEF SqueezeTick, StartWatch
<1>10. CASE NextRep \/ SetDone
  <2>1. rests # <<>> /\ Len(rests) = 1 /\ rests' = Tail(rests)
    BY <1>0, <1>10 DEF NextRep, SetDone, RestDue, OneRest
  <2>2. rests' = <<>>
    BY <1>t, <2>1, TailOfOne DEF Rests
  <2>3. watch3' = Stopped(watch3) \/ watch3' = Stopped(Cleared(watch3))
    BY <1>10 DEF NextRep, SetDone
  <2>4. CASE NextRep
    BY <1>1, <1>w, <1>t, <2>1, <2>2, <2>3, <2>4 DEF NextRep, StartWatch
  <2>5. CASE SetDone
    <3>1. watch' = Stopped(watch) \/ watch' = Stopped(Cleared(watch))
      BY <2>5 DEF SetDone
    <3> QED BY <1>1, <1>w, <1>t, <2>1, <2>2, <2>3, <2>5, <3>1 DEF SetDone
  <2> QED BY <1>10, <2>4, <2>5
<1>11. CASE Pass
  <2>1. rests' # <<>> => rests # <<>>
    BY <1>11 DEF Pass
  <2>2. watch'.run = watch.run /\ watch3'.run = watch3.run
    BY <1>11, <1>w, <1>t DEF Pass
  <2> QED BY <1>1, <1>11, <2>1, <2>2 DEF Pass
<1>12. ASSUME NEW k \in Kind, NEW r \in Replies,
           NEW hides \in BOOLEAN, GetReply(k, r, hides) PROVE Shape'
  <2>1. UNCHANGED <<rests, finishing>>
    BY <1>12 DEF GetReply
  <2>2. \/ UNCHANGED <<watch, watch3, four_started, started, counter>>
        \/ /\ started /\ started' = TRUE /\ four_started' = FALSE /\ counter' = 0
           /\ watch' = Stopped(watch) /\ watch3' = Stopped(watch3)
    BY <1>12, <1>i, ReplyKeepsSession
  <2> QED BY <1>1, <1>w, <1>t, <2>1, <2>2
<1> QED
  BY <1>2, <1>3, <1>4, <1>5, <1>6, <1>7, <1>8, <1>9, <1>10, <1>11, <1>12
  DEF Next, User, Clock, Network, Enter, BackArrow, Swipe, SystemBack, Leave,
      Dispose, PostReply, PostGetReply, ProfileReply, ProfileDropped, AlarmGet,
      Promote, Relaunch, vars, stateVars, clockVars

-----------------------------------------------------------------------------
(***************************************************************************)
(* The day's sets.  What the server, the fetched model and `sets` count is *)
(* the same number, or less, as long as answers bring counts: without a    *)
(* loader nothing is out, so a session that begins finds them below the    *)
(* limit, and while it is active no post is out that could raise them.     *)
(* Where an answer brought no count, the history says so.                  *)
(***************************************************************************)
\* Something of a session is left that could act.
Active == ~started \/ rests # <<>> \/ watch.run \/ watch3.run

Settled == Active => At("post") = 0 /\ At("postGet") = 0

\* The model is behind the server only while the user cannot begin a set.
Known ==
    /\ kegelGetModel.sets <= serverSets
    /\ Unaware => withheld \/ left > 0 \/ At("postGet") > 0

Capped ==
    \/ withheld
    \/ /\ serverSets + At("post") <= DailySets
       /\ Active => serverSets < DailySets

Earned ==
    /\ uncounted \/ left > 0 \/ sets <= serverSets + At("post")
    /\ uncounted \/ (Active => sets <= serverSets)

Explained == interrupted => uncounted \/ withheld

Counts == Settled /\ Known /\ Capped /\ Earned /\ Explained

Counting == LInv /\ OneRest /\ Counts

\* A session becomes active by the user's tap only ...
LEMMA ActiveStep ==
    ASSUME LInv, OneRest, [Next]_vars, Active'
    PROVE  Active \/ StartSet \/ ResumeSet
<1> SUFFICES ASSUME ~Active, ~StartSet, ~ResumeSet PROVE FALSE
  OBVIOUS
<1>t. watch \in Stopwatch /\ watch3 \in Stopwatch
  BY DEF LInv, TypeOK
<1>a. started /\ rests = <<>> /\ ~watch.run /\ ~watch3.run
  BY DEF Active
<1>w. \A w \in Stopwatch : /\ Stopped(w).run = FALSE /\ Cleared(w).run = w.run
                           /\ Advanced(w).run = w.run
  BY WatchRuns
<1>1. CASE UNCHANGED <<started, rests, watch, watch3>>
  BY <1>1, <1>a DEF Active
<1>2. CASE NoScreen
  BY <1>2 DEF NoScreen, Active, Zero
<1>3. CASE CountdownTick \/ NextRep \/ SetDone \/ \E h \in Levels : SqueezeTick(h)
  BY <1>3, <1>a DEF CountdownTick, NextRep, SetDone, RestDue, SqueezeTick
<1>4. CASE FinishTap \/ FinishDone
  <2>1. /\ UNCHANGED rests /\ started'
        /\ watch' = Stopped(watch) \/ watch' = Cleared(watch)
        /\ watch3' = Stopped(watch3) \/ watch3' = watch3
    BY <1>4, <1>a DEF FinishTap, FinishDone, StopWatches
  <2> QED BY <1>a, <1>t, <1>w, <2>1 DEF Active
<1>5. CASE Pass
  BY <1>5, <1>a DEF Pass
<1>6. ASSUME NEW k \in Kind, NEW r \in Replies, NEW hides \in BOOLEAN,
             GetReply(k, r, hides)
      PROVE  FALSE
  <2>1. UNCHANGED rests
    BY <1>6 DEF GetReply
  <2>2. \/ UNCHANGED <<watch, watch3, started>>
        \/ /\ watch' = Stopped(watch) /\ watch3' = Stopped(watch3)
           /\ started' = TRUE
    BY <1>6 DEF GetReply, CheckDay, StopWatches
  <2> QED BY <1>a, <1>t, <1>w, <2>1, <2>2 DEF Active
<1> QED
  BY <1>1, <1>2, <1>3, <1>4, <1>5, <1>6
  DEF Next, User, Clock, Network, Enter, BackArrow, Swipe, SystemBack, Leave,
      Dispose, Relaunch, PostReply, PostGetReply, ProfileReply, ProfileDropped,
      AlarmGet, Promote, vars, stateVars, clockVars

\* ... and ends with a completed set and with the screen.
LEMMA Inactive ==
    ASSUME LInv, OneRest, SetDone \/ Dispose \/ Relaunch
    PROVE  ~Active'
<1>1. CASE SetDone
  <2>1. watch \in Stopwatch /\ watch3 \in Stopwatch /\ rests \in Rests
    BY DEF LInv, TypeOK, Rests
  <2>2. rests # <<>> /\ Len(rests) = 1 /\ rests' = Tail(rests)
    BY <1>1 DEF SetDone, RestDue, OneRest
  <2>3. rests' = <<>>
    BY <2>1, <2>2, TailOfOne DEF Rests
  <2>4. /\ watch' = Stopped(watch) \/ watch' = Stopped(Cleared(watch))
        /\ watch3' = Stopped(watch3) /\ started' = TRUE
    BY <1>1 DEF SetDone
  <2>5. \A w \in Stopwatch : Stopped(w).run = FALSE /\ Stopped(Cleared(w)).run = FALSE
    BY WatchRuns
  <2>6. ~watch'.run /\ ~watch3'.run
    BY <2>1, <2>4, <2>5
  <2> QED BY <2>3, <2>4, <2>6 DEF Active
<1>2. CASE Dispose \/ Relaunch
  BY <1>2 DEF Dispose, Relaunch, NoScreen, Active, Zero
<1> QED BY <1>1, <1>2

\* The steps that count nothing and hear of no count.
Local ==
    /\ At("post")' = At("post") /\ At("postGet")' = At("postGet")
    /\ UNCHANGED <<sets, kegelGetModel, serverSets, left>>
    /\ UNCHANGED <<uncounted, withheld, interrupted>>

LEMMA LocalOrCounts ==
    ASSUME LInv, [Next]_vars
    PROVE  \/ Local \/ SetDone \/ Dispose \/ Relaunch
           \/ \E k \in Kind, r \in Replies, hides \in BOOLEAN :
                 \/ PostReply(k, r, hides) \/ PostGetReply(k, r, hides)
                 \/ GetReply(k, r, hides)
<1>t. DataOK
  BY CountTypes
<1>1. CASE \/ Enter \/ AlarmGet
           \/ \E k \in Kind : ProfileReply(k) \/ ProfileDropped(k)
  <2>1. At("post")' = At("post") /\ At("postGet")' = At("postGet")
    BY <1>1, <1>t, AtUnmoved
  <2> QED BY <1>1, <2>1
          DEF Local, Enter, AlarmGet, ProfileReply, ProfileDropped,
              controllerVars, serverVars, historyVars, mishapVars
<1>2. CASE UNCHANGED <<chains, sets, kegelGetModel, serverSets, left, mishapVars>>
  <2>1. At("post")' = At("post") /\ At("postGet")' = At("postGet")
    BY <1>2, <1>t, AtUnmoved
  <2> QED BY <1>2, <2>1 DEF Local, mishapVars
<1> QED
  BY <1>1, <1>2
  DEF Next, User, Clock, Network, BackArrow, Swipe, SystemBack, Leave, StartSet,
      ResumeSet, FinishTap, FinishDone, CountdownTick, SqueezeTick, NextRep, Pass,
      Promote, vars, netVars, controllerVars, serverVars, historyVars

\* Such a step may begin a session: then no answer is out.
LEMMA LocalStep ==
    ASSUME Counting, [Next]_vars, Local
    PROVE  Counts'
<1>t. /\ At("post") \in Nat /\ At("postGet") \in Nat /\ sets \in Nat
      /\ serverSets \in Nat /\ DailySets \in Nat /\ kegelGetModel.sets \in Nat
  BY CountTypes DEF Counting
<1>1. Unaware' = Unaware
  BY DEF Local, Unaware, DayDone
<1>2. CASE ~Active' \/ Active
  BY <1>1, <1>2 DEF Local, Counting, Counts, Settled, Known, Capped, Earned, Explained
<1>3. CASE Active' /\ ~Active
  <2>1. Tappable /\ ~DayDone
    BY <1>3, ActiveStep DEF Counting, StartSet, ResumeSet
  <2>2. left = 0 /\ At("post") = 0 /\ At("postGet") = 0
    BY <2>1, NothingOut DEF Tappable, Counting
  <2>3. withheld \/ serverSets < DailySets
    <3>1. withheld \/ ~Unaware
      BY <2>2 DEF Counting, Counts, Known
    <3>2. Unaware \/ ~(serverSets >= DailySets)
      BY <2>1 DEF Tappable, Unaware
    <3> QED BY <1>t, <3>1, <3>2
  <2>4. uncounted \/ sets <= serverSets
    BY <1>t, <2>2 DEF Counting, Counts, Earned
  <2> QED BY <1>1, <2>2, <2>3, <2>4
          DEF Local, Counting, Counts, Settled, Known, Capped, Earned, Explained
<1> QED BY <1>2, <1>3

\* A completed set was begun below the limit, and is on its way alone.
LEMMA SetDoneCounts ==
    ASSUME Counting, SetDone
    PROVE  Counts'
<1>t. /\ At("post") \in Nat /\ At("postGet") \in Nat /\ sets \in Nat
      /\ serverSets \in Nat /\ DailySets \in Nat /\ kegelGetModel.sets \in Nat
  BY CountTypes DEF Counting
<1>1. Active /\ ~Active'
  BY Inactive DEF Counting, SetDone, RestDue, Active
<1>2. At("post")' = At("post") + 1 /\ At("postGet")' = At("postGet")
  BY AtSetDone DEF Counting
<1>3. /\ sets' = sets + 1
      /\ UNCHANGED <<kegelGetModel, serverSets, left, uncounted, withheld, interrupted>>
  BY DEF SetDone, serverVars, mishapVars
<1>4. Unaware' = Unaware
  BY <1>3 DEF Unaware, DayDone
<1>5. Settled' /\ Known' /\ Explained'
  BY <1>1, <1>2, <1>3, <1>4 DEF Counting, Counts, Settled, Known, Explained
<1>6. Capped'
  <2>1. withheld \/ (At("post") = 0 /\ serverSets < DailySets)
    BY <1>1 DEF Counting, Counts, Settled, Capped
  <2> QED BY <1>t, <1>1, <1>2, <1>3, <2>1 DEF Capped
<1>7. Earned'
  <2>1. uncounted \/ left > 0 \/ sets <= serverSets + At("post")
    BY DEF Counting, Counts, Earned
  <2> QED BY <1>t, <1>1, <1>2, <1>3, <2>1 DEF Earned
<1> QED BY <1>5, <1>6, <1>7 DEF Counts

\* A reply to a post finds no session active; one that counts nothing and lets
\* the user go on is on record.
LEMMA PostReplyCounts ==
    ASSUME Counting, NEW k \in Kind, NEW r \in Replies, NEW hides \in BOOLEAN,
           PostReply(k, r, hides)
    PROVE  Counts'
<1>t. /\ At("post") \in Nat /\ At("postGet") \in Nat /\ sets \in Nat /\ left \in Nat
      /\ serverSets \in Nat /\ DailySets \in Nat /\ kegelGetModel.sets \in Nat
  BY CountTypes DEF Counting
<1>1. /\ At("post") > 0 /\ At("post")' = At("post") - 1
      /\ r = "ok" => At("postGet")' = At("postGet") + 1
      /\ r # "ok" => At("postGet")' = At("postGet")
  BY AtPostReply DEF Counting
<1>2. /\ UNCHANGED <<stateVars, sets, kegelGetModel, withheld, interrupted>>
      /\ serverSets' \in {serverSets, serverSets + 1}
      /\ uncounted' = (uncounted \/ (r = "error" /\ hides))
  BY DEF PostReply, controllerVars
<1>3. ~Active /\ ~Active'
  <2>1. ~Active
    BY <1>t, <1>1 DEF Counting, Counts, Settled
  <2> QED BY <1>2, <2>1 DEF Active, stateVars, clockVars
<1>4. \/ r = "ok" /\ serverSets' = serverSets + 1 /\ left' = left
      \/ r = "error" /\ hides /\ serverSets' = serverSets /\ left' = left
      \/ r # "ok" /\ left' = left + 1
  BY DEF PostReply
<1>6. PICK n \in Nat, p \in Nat, q \in Nat :
         n = serverSets' /\ p = At("post") /\ q = At("postGet")
  BY <1>t, <1>2
<1>7. Known'
  <2>1. kegelGetModel'.sets <= serverSets'
    BY <1>t, <1>2, <1>6 DEF Counting, Counts, Known
  <2>2. Unaware' => withheld' \/ left' > 0 \/ At("postGet")' > 0
    <3>1. CASE r = "ok"
      BY <1>t, <1>1, <3>1
    <3>2. CASE r = "error" /\ serverSets' = serverSets /\ left' = left
      <4>1. Unaware' = Unaware
        BY <1>2, <3>2 DEF Unaware, DayDone
      <4> QED BY <1>1, <1>2, <3>2, <4>1 DEF Counting, Counts, Known
    <3>3. CASE left' = left + 1
      BY <1>t, <3>3
    <3> QED BY <1>4, <3>1, <3>2, <3>3
  <2> QED BY <2>1, <2>2 DEF Known
<1>8. Capped'
  <2>1. withheld \/ serverSets + p <= DailySets
    BY <1>6 DEF Counting, Counts, Capped
  <2>2. p > 0 /\ At("post")' = p - 1 /\ n <= serverSets + 1
    BY <1>t, <1>1, <1>2, <1>6
  <2>3. withheld \/ n + (p - 1) <= DailySets
    BY <1>t, <1>6, <2>1, <2>2
  <2> QED BY <1>2, <1>3, <1>6, <2>2, <2>3 DEF Capped
<1>9. Earned'
  <2>1. uncounted' \/ left' > 0 \/ sets' <= serverSets' + At("post")'
    <3>1. CASE r = "ok" /\ serverSets' = serverSets + 1 /\ left' = left
      <4>1. uncounted \/ left > 0 \/ sets <= serverSets + At("post")
        BY DEF Counting, Counts, Earned
      <4>2. uncounted => uncounted'
        BY <1>2
      <4>3. serverSets' + At("post")' = serverSets + At("post")
        BY <1>t, <1>1, <3>1
      <4> QED BY <1>2, <3>1, <4>1, <4>2, <4>3
    <3>2. CASE r = "error" /\ hides
      BY <1>2, <3>2
    <3>3. CASE left' = left + 1
      BY <1>t, <3>3
    <3> QED BY <1>4, <3>1, <3>2, <3>3
  <2> QED BY <1>3, <2>1 DEF Earned
<1>10. Explained'
  BY <1>2 DEF Counting, Counts, Explained
<1> QED BY <1>3, <1>7, <1>8, <1>9, <1>10 DEF Counts, Settled

\* An answer to a get brings the count, or is on record, or leaves its loader.
LEMMA FetchCounts ==
    ASSUME Counting, NEW r \in Replies, Fetch(r), Withholds(r),
           serverSets' = serverSets
    PROVE  /\ kegelGetModel'.sets <= serverSets /\ kegelGetModel'.sets \in Nat
           /\ withheld => withheld'
           /\ r = "ok" => ~Unaware'
           /\ r \in {"error", "refused"} => (Unaware' => withheld')
<1>t. /\ serverSets \in Nat /\ DailySets \in Nat /\ kegelGetModel.sets \in Nat
      /\ kegelGetModel.sets <= serverSets
  BY CountTypes DEF Counting, Counts, Known
<1>1. \/ kegelGetModel' = FetchedModel(serverSets)
      \/ kegelGetModel' = ErrorModel \/ kegelGetModel' = kegelGetModel
  BY DEF Fetch
<1>2. kegelGetModel'.sets <= serverSets /\ kegelGetModel'.sets \in Nat
  BY <1>t, <1>1 DEF FetchedModel, ErrorModel
<1>3. r = "ok" => ~Unaware'
  <2>1. r = "ok" => kegelGetModel'.st = "ok" /\ kegelGetModel'.sets = serverSets
    BY DEF Fetch, FetchedModel
  <2> QED BY <2>1 DEF Unaware, DayDone
<1>4. withheld' = (withheld \/ (r \in {"error", "refused"} /\ Unaware'))
  BY DEF Withholds
<1> QED BY <1>2, <1>3, <1>4

LEMMA PostGetReplyCounts ==
    ASSUME Counting, NEW k \in Kind, NEW r \in Replies, NEW hides \in BOOLEAN,
           PostGetReply(k, r, hides)
    PROVE  Counts'
<1>t. /\ At("post") \in Nat /\ At("postGet") \in Nat /\ left \in Nat
  BY CountTypes DEF Counting
<1>1. At("postGet") > 0 /\ At("post")' = At("post")
  BY AtPostGetReply DEF Counting
<1>2. UNCHANGED <<stateVars, sets, serverSets, uncounted, interrupted>>
  BY DEF PostGetReply, serverVars
<1>3. ~Active /\ ~Active'
  <2>1. ~Active
    BY <1>t, <1>1 DEF Counting, Counts, Settled
  <2> QED BY <1>2, <2>1 DEF Active, stateVars, clockVars
<1>4. /\ kegelGetModel'.sets <= serverSets
      /\ withheld => withheld'
      /\ r = "ok" => ~Unaware'
      /\ r \in {"error", "refused"} => (Unaware' => withheld')
  BY <1>2, FetchCounts DEF PostGetReply
<1>5. left' \in Nat /\ left' >= left /\ (r \in {"ok", "error", "refused"} \/ left' > 0)
  <2>1. Orphaned(r) \in {0, 1} /\ (r \notin {"ok", "error", "refused"} => Orphaned(r) = 1)
    BY HiddenOrOrphaned
  <2>2. left' = left + 2 \/ left' = left + Orphaned(r)
    BY DEF PostGetReply
  <2> QED BY <1>t, <2>1, <2>2
<1>6. Known'
  BY <1>2, <1>4, <1>5 DEF Known
<1>7. Capped' /\ Earned' /\ Explained'
  <2>1. left > 0 => left' > 0
    BY <1>t, <1>5
  <2> QED BY <1>1, <1>2, <1>3, <1>4, <2>1
          DEF Counting, Counts, Capped, Earned, Explained
<1> QED BY <1>3, <1>6, <1>7 DEF Counts, Settled

LEMMA GetReplyCounts ==
    ASSUME Counting,
           NEW k \in Kind, NEW r \in Replies, NEW hides \in BOOLEAN,
           GetReply(k, r, hides)
    PROVE  Counts'
<1>t. /\ At("post") \in Nat /\ At("postGet") \in Nat /\ left \in Nat /\ sets \in Nat
      /\ serverSets \in Nat /\ DailySets \in Nat
  BY CountTypes DEF Counting
<1>1. At("postGet")' = At("postGet") /\ At("post")' = At("post")
  BY AtUnmoved, CountTypes DEF Counting
<1>2. UNCHANGED <<serverSets, uncounted>>
  BY DEF GetReply, serverVars
<1>3. Active' => Active
  <2>1. watch \in Stopwatch /\ watch3 \in Stopwatch
    BY DEF Counting, LInv, TypeOK
  <2>2. UNCHANGED rests
    BY DEF GetReply
  <2>3. \/ UNCHANGED <<watch, watch3, started>>
        \/ /\ watch' = Stopped(watch) /\ watch3' = Stopped(watch3)
           /\ started' = TRUE
    BY DEF GetReply, CheckDay, StopWatches
  <2>4. \A w \in Stopwatch : Stopped(w).run = FALSE
    BY WatchRuns
  <2> QED BY <2>1, <2>2, <2>3, <2>4 DEF Active
<1>4. /\ kegelGetModel'.sets <= serverSets /\ kegelGetModel'.sets \in Nat
      /\ withheld => withheld'
      /\ r = "ok" => ~Unaware'
      /\ r \in {"error", "refused"} => (Unaware' => withheld')
  BY <1>2, FetchCounts DEF GetReply
<1>5. left' \in Nat /\ left' >= left /\ (r \in {"ok", "error", "refused"} \/ left' > 0)
  <2>1. Orphaned(r) \in {0, 1} /\ (r \notin {"ok", "error", "refused"} => Orphaned(r) = 1)
    BY HiddenOrOrphaned
  <2>2. left' = left + 1 \/ left' = left + Orphaned(r)
    BY DEF GetReply
  <2> QED BY <1>t, <2>1, <2>2
<1>6. left > 0 => left' > 0
  BY <1>t, <1>5
<1>7. sets' = sets \/ sets' = kegelGetModel'.sets
  BY DEF GetReply
<1>8. Settled' /\ Known' /\ Capped'
  BY <1>1, <1>2, <1>3, <1>4, <1>5, <1>6
  DEF Counting, Counts, Settled, Known, Capped
<1>9. Earned'
  <2>1. sets' <= sets \/ sets' <= serverSets
    BY <1>t, <1>4, <1>7
  <2>2. sets' \in Nat
    BY <1>t, <1>4, <1>7
  <2>3. uncounted \/ left > 0 \/ sets' <= serverSets + At("post")
    BY <1>t, <2>1, <2>2 DEF Counting, Counts, Earned
  <2>4. uncounted \/ (Active => sets' <= serverSets)
    BY <1>t, <2>1, <2>2 DEF Counting, Counts, Earned
  <2> QED BY <1>1, <1>2, <1>3, <1>6, <2>3, <2>4 DEF Earned
<1>10. Explained'
  <2>1. interrupted' = (interrupted \/ (~started /\ started'))
    BY DEF GetReply
  <2>2. CASE interrupted
    BY <1>2, <1>4, <2>2 DEF Counting, Counts, Explained
  <2>3. CASE ~started /\ started' /\ ~uncounted /\ ~withheld
    <3>1. serverSets < DailySets /\ sets <= serverSets
      BY <2>3 DEF Counting, Counts, Capped, Earned, Active
    <3>2. sets' = DailySets
      BY <2>3 DEF GetReply, CheckDay
    <3>3. FALSE
      BY <1>t, <1>4, <1>7, <3>1, <3>2
    <3> QED BY <3>3
  <2>4. CASE interrupted' /\ (uncounted \/ withheld)
    BY <1>2, <1>4, <2>4 DEF Explained
  <2> QED BY <2>1, <2>2, <2>3, <2>4 DEF Explained
<1> QED BY <1>8, <1>9, <1>10 DEF Counts

\* Where the screen goes nothing is out; the process takes with it what the
\* device counted.
LEMMA LostCounts ==
    ASSUME Counting, Dispose \/ Relaunch
    PROVE  Counts'
<1>t. /\ At("post") \in Nat /\ At("postGet") \in Nat /\ sets \in Nat
      /\ serverSets \in Nat /\ left \in Nat /\ DailySets \in Nat
  BY CountTypes DEF Counting
<1>1. At("post")' = 0 /\ At("postGet")' = 0 /\ ~Active' /\ interrupted' = FALSE
  BY AtLost, Inactive DEF Dispose, Relaunch, NoScreen, Counting
<1>2. CASE Dispose
  <2>1. /\ loaders = 0
        /\ UNCHANGED <<sets, kegelGetModel, serverSets, left, withheld, uncounted>>
    BY <1>2 DEF Dispose
  <2>2. left = 0 /\ At("post") = 0 /\ At("postGet") = 0
    BY <2>1, NothingOut DEF Counting
  <2>3. Unaware' = Unaware
    BY <2>1 DEF Unaware, DayDone
  <2> QED BY <1>t, <1>1, <2>1, <2>2, <2>3
          DEF Counting, Counts, Settled, Known, Capped, Earned, Explained
<1>3. CASE Relaunch
  <2>1. /\ serverSets' \in serverSets..(serverSets + At("post"))
        /\ kegelGetModel' \in HomeModels(serverSets') /\ sets' = 0
        /\ withheld' = (withheld \/ Unaware')
    BY <1>3 DEF Relaunch, PostsInFlight, At
  <2>2. serverSets' \in Nat /\ serverSets' <= serverSets + At("post")
    BY <1>t, <2>1
  <2>3. kegelGetModel'.sets = serverSets' \/ kegelGetModel'.sets = 0
    BY <2>1 DEF HomeModels, FetchedModel, ErrorModel, NoModel
  <2>4. (withheld => withheld') /\ (Unaware' => withheld')
    BY <2>1
  <2>5. Known'
    BY <2>2, <2>3, <2>4 DEF Known
  <2>6. Capped'
    <3>1. withheld \/ serverSets + At("post") <= DailySets
      BY DEF Counting, Counts, Capped
    <3>3. PICK n \in Nat, p \in Nat : n = serverSets' /\ p = At("post")
      BY <1>t, <2>2
    <3>4. n <= serverSets + p
      BY <2>2, <3>3
    <3>5. withheld \/ n + 0 <= DailySets
      <4> SUFFICES ASSUME ~withheld PROVE n + 0 <= DailySets
        OBVIOUS
      <4>1. serverSets + p <= DailySets
        BY <3>1, <3>3
      <4> QED BY <1>t, <3>4, <4>1
    <3>2. withheld' \/ serverSets' + 0 <= DailySets
      BY <2>4, <3>3, <3>5
    <3> QED BY <1>1, <3>2 DEF Capped
  <2>7. Earned'
    BY <1>1, <2>1, <2>2 DEF Earned
  <2> QED BY <1>1, <2>5, <2>6, <2>7 DEF Counts, Settled, Explained
<1> QED BY <1>2, <1>3

LEMMA CountsStep == Counting /\ [Next]_vars => Counts'
  BY LocalOrCounts, LocalStep, SetDoneCounts, PostReplyCounts,
     PostGetReplyCounts, GetReplyCounts, LostCounts
  DEF Counting

LEMMA InitCounts == Init => Counts
<1> SUFFICES ASSUME Init PROVE Counts
  OBVIOUS
<1>1. At("post") = 0 /\ At("postGet") = 0
  BY DEF Init, At, NoChains, Kind, Stage
<1>2. kegelGetModel.sets = 0 /\ serverSets = 0
  BY DEF Init, HomeModels, FetchedModel, ErrorModel, NoModel
<1>3. ~Active /\ ~Unaware
  BY <1>2, NetAssumption DEF Init, Active, Zero, Unaware
<1> QED BY <1>1, <1>2, <1>3, NetAssumption
        DEF Init, Counts, Settled, Known, Capped, Earned, Explained
-----------------------------------------------------------------------------
Sound == Shaped /\ Counts

LEMMA SoundAlways ==
    ASSUME SqueezeOutlastsRest
    PROVE  Spec => []Sound
<1>1. Init => Sound
  <2> SUFFICES ASSUME Init PROVE Sound
    OBVIOUS
  <2>1. OneRest /\ Shape
    BY DEF Init, Shape, OneRest, Zero
  <2> QED BY <2>1, InitLInv, InitCounts DEF Sound, Shaped
<1>2. Sound /\ [Next]_vars => Sound'
  <2> SUFFICES ASSUME Sound, [Next]_vars PROVE Sound'
    OBVIOUS
  <2>1. LInv' /\ OneRest'
    BY LInvStep, OneRestStep DEF Sound, Shaped, LInv
  <2>2. interrupted' \/ Shape'
    BY ShapeStep DEF Sound
  <2>3. Counts'
    BY CountsStep DEF Sound, Shaped, Counting
  <2> QED BY <2>1, <2>2, <2>3 DEF Sound, Shaped
<1> QED BY <1>1, <1>2, PTL DEF Spec

\* There is one uncancellable rest at a time, and while it is pending the flags
\* keep both exits of the screen shut: no Finish, no back arrow and no late
\* reply ever runs beside a Future.delayed of startWatch2, whatever the server
\* answers, but the check that stops a session (427-460).
THEOREM RestsAreExclusive ==
    ASSUME SqueezeOutlastsRest
    PROVE  Spec => []RestIsExclusive
<1>1. Sound => RestIsExclusive
  BY DEF Sound, Shaped, Shape, OneRest, RestIsExclusive
<1> QED BY <1>1, SoundAlways, PTL

\* Whenever the button says Start, whatever led there (a completed set, a
\* Finish, a late reply), no watch runs and no rest is pending that could act
\* on the next session, unless a check stopped the session: and that happens
\* only after an answer with an error or a refusal in place of a count.
THEOREM StartIsQuiet ==
    ASSUME SqueezeOutlastsRest
    PROVE  Spec => []StartMeansQuiet
<1>1. Sound => StartMeansQuiet
  BY DEF Sound, Shaped, Shape, OneRest, Counts, Explained, StartMeansQuiet
<1> QED BY <1>1, SoundAlways, PTL

\* The server never counts more than a day's sets: the fetched model the button
\* looks at does not lag behind the server when it can be tapped, and a set
\* that runs has none before it still on its way; unless an answer without a
\* count once left the button to a user whose day was over.
THEOREM DayIsCapped ==
    ASSUME SqueezeOutlastsRest
    PROVE  Spec => []DailyCap
<1>1. Sound => DailyCap
  BY CountTypes DEF Sound, Shaped, Counts, Capped, DailyCap
<1> QED BY <1>1, SoundAlways, PTL

\* A session that runs can be finished: no reply makes the fetched model reach
\* the day's sets under it, with the same exception.
THEOREM SessionCanFinish ==
    ASSUME SqueezeOutlastsRest
    PROVE  Spec => []CanFinish
<1>1. Sound => CanFinish
  BY CountTypes
  DEF Sound, Shaped, Counts, Capped, Known, Active, CanFinish, DayDone
<1> QED BY <1>1, SoundAlways, PTL
-----------------------------------------------------------------------------
(***************************************************************************)
(* Several periodic handlers may be installed at once, for the levels read *)
(* so far, and only the counter says when a set is over.  A higher level   *)
(* squeezes longer and repeats at least as often: unless a lower one is    *)
(* read under them the handlers form a chain, the lowest one ends the      *)
(* squeeze, and what it counts is within the length of all.                *)
(***************************************************************************)
Rising ==
    /\ \A h \in timers : Up(h, Handler(level))
    /\ \A g, h \in timers : Up(g, h) \/ Up(h, g)

Counted ==
    /\ timers = {} => /\ counter = 0 /\ watch.at = 0 /\ ~watch.run
                      /\ rests = <<>>
    /\ \A h \in timers : watch.at <= Squeeze[h]
    /\ rests = <<>> => \A h \in timers : counter < Reps[h]
    /\ rests # <<>> => /\ counter <= Reps[rests[1].by]
                       /\ \A h \in timers : Up(rests[1].by, h)

Climbing == LInv /\ OneRest /\ (demoted \/ (Rising /\ Counted))

LEMMA UpFacts ==
    \A a, b, c \in Levels :
        /\ Up(a, a)
        /\ Up(a, b) /\ Up(b, c) => Up(a, c)
        /\ Up(a, b) => Squeeze[a] <= Squeeze[b] /\ Reps[a] <= Reps[b]
        /\ Squeeze[a] \in Nat /\ Squeeze[a] > 0 /\ Reps[a] \in Nat /\ Reps[a] > 0
  BY LevelsAssumption DEF Up

LEMMA RisingStep == LInv /\ Rising /\ [Next]_vars /\ ~demoted' => Rising'
<1> SUFFICES ASSUME LInv, Rising, [Next]_vars, ~demoted' PROVE Rising'
  OBVIOUS
<1>t. /\ pref \in Levels /\ account \in Levels /\ timers \subseteq Levels
  BY DEF LInv, TypeOK
<1>h. Handler(level) \in Levels
  BY HandlerFact
<1>r. /\ \A h \in timers : Up(h, Handler(level))
      /\ \A g, h \in timers : Up(g, h) \/ Up(h, g)
  BY DEF Rising
<1>1. ASSUME level' = level,
             timers' = timers \/ timers' = timers \cup {Handler(level)}
      PROVE  Rising'
  <2>1. Handler(level)' = Handler(level)
    BY <1>1 DEF Handler
  <2>2. \A h \in timers' : h \in Levels /\ Up(h, Handler(level))
    BY <1>1, <1>t, <1>h, <1>r, UpFacts
  <2>3. \A g, h \in timers' : Up(g, h) \/ Up(h, g)
    BY <1>1, <1>r, <2>2
  <2> QED BY <2>1, <2>2, <2>3 DEF Rising
<1>2. CASE NoScreen
  BY <1>2 DEF NoScreen, Rising
<1>3. ASSUME NEW k \in Kind, ProfileReply(k) PROVE Rising'
  <2>1. /\ pref' \in Levels /\ level' = pref' /\ timers' = timers
        /\ demoted' = (demoted \/ \E h \in timers : ~Up(h, pref'))
    BY <1>3, <1>t DEF ProfileReply
  <2>2. \A h \in timers : Up(h, pref')
    BY <2>1
  <2>3. Handler(level)' = pref'
    BY <2>1 DEF Handler
  <2> QED BY <1>r, <2>1, <2>2, <2>3 DEF Rising
<1>4. CASE Enter \/ StartSet \/ ResumeSet \/ FinishTap
  BY <1>1, <1>4 DEF Enter, StartSet, ResumeSet, FinishTap, StartWatch, clockVars
<1>5. CASE Pass \/ FinishDone \/ CountdownTick \/ NextRep \/ SetDone
             \/ \E h \in Levels : SqueezeTick(h)
  BY <1>1, <1>5 DEF Pass, FinishDone, CountdownTick, NextRep, SetDone, SqueezeTick,
                    StartWatch
<1>6. CASE AlarmGet \/ Promote \/ UNCHANGED vars \/ \E k \in Kind : ProfileDropped(k)
  BY <1>1, <1>6 DEF AlarmGet, Promote, ProfileDropped, vars, stateVars, clockVars
<1>7. ASSUME NEW k \in Kind, NEW r \in Replies, NEW hides \in BOOLEAN,
             \/ PostReply(k, r, hides) \/ PostGetReply(k, r, hides)
             \/ GetReply(k, r, hides)
      PROVE  Rising'
  BY <1>1, <1>7 DEF PostReply, PostGetReply, GetReply, stateVars, clockVars
<1> QED
  BY <1>2, <1>3, <1>4, <1>5, <1>6, <1>7
  DEF Next, User, Clock, Network, BackArrow, Swipe, SystemBack, Leave, Dispose,
      Relaunch

\* What startWatch does to the handlers: the one it adds is the highest.
LEMMA StartWatchFact ==
    ASSUME LInv, Rising, NEW w \in Stopwatch, StartWatch(w)
    PROVE  /\ Handler(level) \in timers' /\ timers' \subseteq Levels
           /\ timers \subseteq timers'
           /\ \A g \in timers' : g \in timers \/ g = Handler(level)
           /\ \A g \in timers : Up(g, Handler(level))
           /\ watch'.at = w.at /\ watch'.run = TRUE
<1>1. watch' = Running(w) /\ timers' = timers \cup {Handler(level)}
  BY DEF StartWatch
<1>2. watch'.at = w.at /\ watch'.run = TRUE
  BY <1>1, WatchFacts, WatchRuns
<1>3. timers \subseteq Levels /\ \A g \in timers : Up(g, Handler(level))
  BY DEF LInv, TypeOK, Rising
<1> QED BY <1>1, <1>2, <1>3, HandlerFact

LEMMA CountedStep ==
    ASSUME SqueezeOutlastsRest
    PROVE  LInv /\ OneRest /\ Rising /\ Counted /\ [Next]_vars => Counted'
<1> SUFFICES ASSUME LInv, OneRest, Rising, Counted, [Next]_vars PROVE Counted'
  OBVIOUS
<1>t. /\ LInv /\ Rising /\ OneRest
      /\ watch \in Stopwatch /\ rests \in Rests /\ counter \in Nat
      /\ timers \subseteq Levels /\ DOMAIN rests = 1..Len(rests)
  BY DEF LInv, TypeOK, Rests
<1>n. watch.at \in Nat
  BY <1>t, TimeAssumption, MinuteAssumption DEF Stopwatch
<1>w. \A w \in Stopwatch :
         /\ Stopped(w).at = w.at /\ Stopped(w).run = FALSE
         /\ Cleared(w).at = 0 /\ Cleared(w).run = w.run
         /\ Stopped(Cleared(w)).at = 0 /\ Stopped(Cleared(w)).run = FALSE
  BY WatchTypes, WatchFacts, WatchRuns
<1>c. /\ timers = {} => /\ counter = 0 /\ watch.at = 0 /\ ~watch.run
                        /\ rests = <<>>
      /\ \A h \in timers : watch.at <= Squeeze[h]
      /\ rests = <<>> => \A h \in timers : counter < Reps[h]
      /\ rests # <<>> => /\ counter <= Reps[rests[1].by]
                         /\ \A h \in timers : Up(rests[1].by, h)
  BY DEF Counted
<1>b. rests # <<>> => rests[1].by \in Levels
  <2>1. rests # <<>> => Head(rests).by \in Levels
    BY <1>t, RestsFacts
  <2> QED BY <1>t, <2>1 DEF Rests
<1>1. CASE UNCHANGED <<timers, watch, counter, rests>>
  BY <1>1, <1>c DEF Counted
<1>2. CASE NoScreen
  BY <1>2 DEF NoScreen, Counted, Zero
\* The watch stops or is reset, between two squeezes or for good.
<1>3. ASSUME UNCHANGED <<timers, rests>>, counter' = counter \/ counter' = 0,
             watch'.at = watch.at \/ watch'.at = 0,
             watch'.run = watch.run \/ ~watch'.run
      PROVE  Counted'
  <2>1. timers' = {} => /\ counter' = 0 /\ watch'.at = 0 /\ ~watch'.run
                        /\ rests' = <<>>
    BY <1>3, <1>c
  <2>2. \A h \in timers' : watch'.at <= Squeeze[h]
    BY <1>3, <1>c, <1>n, <1>t, UpFacts
  <2>3. rests' = <<>> => \A h \in timers' : counter' < Reps[h]
    BY <1>3, <1>c, <1>t, UpFacts
  <2>4. rests' # <<>> => /\ counter' <= Reps[rests'[1].by]
                         /\ \A h \in timers' : Up(rests'[1].by, h)
    BY <1>3, <1>c, <1>b, <1>t, UpFacts
  <2> QED BY <2>1, <2>2, <2>3, <2>4 DEF Counted
<1>4. CASE FinishTap \/ FinishDone
  <2>1. UNCHANGED <<timers, rests, counter>>
    BY <1>4 DEF FinishTap, FinishDone
  <2>2. watch' = Stopped(watch) \/ watch' = Cleared(watch)
    BY <1>4 DEF FinishTap, FinishDone, StopWatches
  <2>3. /\ watch'.at = watch.at \/ watch'.at = 0
        /\ watch'.run = watch.run \/ ~watch'.run
    BY <1>w, <1>t, <2>2
  <2> QED BY <1>3, <2>1, <2>3
\* The squeeze begins, or goes on where it was interrupted.
<1>5. CASE ResumeSet \/ CountdownTick
  <2>1. UNCHANGED <<rests, counter>> /\ StartWatch(watch)
    BY <1>5 DEF ResumeSet, CountdownTick
  <2>2. \A g \in timers' :
           g \in timers \/ timers = {} \/ \E f \in timers : Up(f, g)
    BY <1>t, <2>1, StartWatchFact
  <2>3. timers' # {} /\ timers' \subseteq Levels /\ watch'.at = watch.at
    BY <1>t, <2>1, StartWatchFact
  <2>4. \A g \in timers' : /\ watch.at <= Squeeze[g]
                           /\ rests = <<>> => counter < Reps[g]
                           /\ rests # <<>> => Up(rests[1].by, g)
    <3> SUFFICES ASSUME NEW g \in timers'
                 PROVE  /\ watch.at <= Squeeze[g]
                        /\ rests = <<>> => counter < Reps[g]
                        /\ rests # <<>> => Up(rests[1].by, g)
      OBVIOUS
    <3>1. CASE g \in timers
      BY <1>c, <3>1
    <3>2. CASE timers = {}
      BY <1>c, <2>3, <3>2, UpFacts
    <3>3. ASSUME NEW f \in timers, Up(f, g)
          PROVE  /\ watch.at <= Squeeze[g]
                 /\ rests = <<>> => counter < Reps[g]
                 /\ rests # <<>> => Up(rests[1].by, g)
      <4>1. f \in Levels /\ g \in Levels
        BY <1>t, <2>3
      <4>2. /\ watch.at <= Squeeze[f] /\ (rests = <<>> => counter < Reps[f])
            /\ Squeeze[f] <= Squeeze[g] /\ Reps[f] <= Reps[g]
        BY <1>c, <3>3, <4>1, UpFacts
      <4>3. /\ watch.at <= Squeeze[g]
            /\ rests = <<>> => counter < Reps[g]
        BY <1>n, <1>t, <4>1, <4>2, UpFacts
      <4>4. rests # <<>> => Up(rests[1].by, g)
        BY <1>b, <1>c, <3>3, <4>1, UpFacts
      <4> QED BY <4>3, <4>4
    <3> QED BY <2>2, <3>1, <3>2, <3>3
  <2> QED BY <1>c, <2>1, <2>3, <2>4 DEF Counted
\* The squeeze is ended by the lowest handler.
<1>6. ASSUME NEW h \in Levels, SqueezeTick(h) PROVE Counted'
  <2>1. /\ h \in timers /\ watch.run /\ watch.at = Squeeze[h]
        /\ counter' = counter + 1 /\ StartWatch(Cleared(watch))
        /\ rests' = Append(rests, [by |-> h, left |-> Rest])
    BY <1>6 DEF SqueezeTick
  <2>2. rests = <<>>
    <3>1. Squeeze[h] > Rest /\ Rest \in Nat
      BY TimeAssumption DEF SqueezeOutlastsRest
    <3>2. rests # <<>> => watch.at + rests[1].left <= Rest /\ rests[1].left \in Nat
      <4>1. rests # <<>> => Head(rests) \in [by : Levels, left : 0..Rest]
        <5> DEFINE R == [by : Levels, left : 0..Rest]
        <5>1. rests \in Seq(R)
          BY <1>t DEF Rests
        <5> HIDE DEF R
        <5>2. rests # <<>> => Head(rests) \in R
          BY <5>1
        <5> QED BY <5>2 DEF R
      <4> QED BY <1>t, <3>1, <4>1 DEF OneRest, Rests
    <3> QED BY <1>n, <2>1, <3>1, <3>2
  <2>3. /\ watch'.at = 0 /\ timers' # {} /\ timers' \subseteq Levels
        /\ \A g \in timers' : g \in timers \/ Up(h, g)
    <3>1. Cleared(watch) \in Stopwatch /\ Cleared(watch).at = 0
      BY <1>t, WatchTypes, WatchFacts
    <3> QED BY <1>t, <2>1, <3>1, StartWatchFact
  <2>4. \A g \in timers : Up(h, g)
    <3> SUFFICES ASSUME NEW g \in timers, ~Up(h, g) PROVE FALSE
      OBVIOUS
    <3>1. Up(g, h) /\ g # h
      BY <1>t, <2>1 DEF Rising, Up
    <3>2. Squeeze[g] < Squeeze[h] /\ watch.at <= Squeeze[g]
      BY <1>c, <3>1 DEF Up
    <3>3. Squeeze[g] \in Nat /\ Squeeze[h] \in Nat
      BY <1>t, UpFacts
    <3> QED BY <1>n, <2>1, <3>2, <3>3
  <2>5. rests' = <<[by |-> h, left |-> Rest]>>
    BY <2>1, <2>2
  <2>6. rests' # <<>> /\ rests'[1].by = h
    BY <2>5
  <2>7. counter' <= Reps[h]
    <3>1. counter < Reps[h]
      BY <1>c, <2>1, <2>2
    <3> QED BY <1>t, <2>1, <3>1, UpFacts
  <2>8. \A g \in timers' : watch'.at <= Squeeze[g]
    BY <2>3, UpFacts
  <2> QED BY <2>3, <2>4, <2>6, <2>7, <2>8 DEF Counted
\* The rest is over: the counter is below the length of every handler ...
<1>7. CASE NextRep
  <2> DEFINE h == rests[1].by
  <2>1. /\ rests # <<>> /\ Len(rests) = 1 /\ rests' = Tail(rests)
        /\ counter # Reps[Head(rests).by] /\ counter' = counter
        /\ StartWatch(Cleared(watch))
    BY <1>7, <1>t DEF NextRep, RestDue, SetComplete, OneRest
  <2>2. rests' = <<>> /\ Head(rests) = rests[1]
    BY <1>t, <2>1, TailOfOne DEF Rests
  <2>3. h \in Levels /\ counter < Reps[h]
    BY <1>b, <1>c, <1>t, <2>1, <2>2, UpFacts
  <2>4. /\ watch'.at = 0 /\ timers' # {} /\ timers' \subseteq Levels
        /\ \A g \in timers' : g \in timers \/ g = Handler(level)
        /\ \A g \in timers : Up(g, Handler(level))
    <3>1. Cleared(watch) \in Stopwatch /\ Cleared(watch).at = 0
      BY <1>t, WatchTypes, WatchFacts
    <3> QED BY <1>t, <2>1, <3>1, StartWatchFact
  <2>5. PICK f \in timers : TRUE
    BY <1>c, <2>1
  <2>6. \A g \in timers' : Up(h, g)
    <3>1. \A g \in timers : Up(h, g)
      BY <1>c, <2>1
    <3>2. Up(h, Handler(level))
      BY <1>t, <2>3, <2>4, <2>5, <3>1, HandlerFact, UpFacts
    <3> QED BY <2>4, <3>1, <3>2
  <2> HIDE DEF h
  <2>7. \A g \in timers' : watch'.at <= Squeeze[g] /\ counter' < Reps[g]
    <3> SUFFICES ASSUME NEW g \in timers' PROVE watch'.at <= Squeeze[g] /\ counter' < Reps[g]
      OBVIOUS
    <3>1. g \in Levels /\ Reps[h] <= Reps[g]
      BY <2>3, <2>4, <2>6, UpFacts
    <3> QED BY <1>t, <2>1, <2>3, <2>4, <3>1, UpFacts
  <2> QED BY <2>2, <2>4, <2>7 DEF Counted
\* ... or the set is.
<1>8. CASE SetDone
  <2>1. /\ rests # <<>> /\ Len(rests) = 1 /\ rests' = Tail(rests)
        /\ counter' = 0 /\ timers' = timers
        /\ watch' = Stopped(watch) \/ watch' = Stopped(Cleared(watch))
    BY <1>8, <1>t DEF SetDone, RestDue, OneRest
  <2>2. rests' = <<>>
    BY <1>t, <2>1, TailOfOne DEF Rests
  <2>3. ~watch'.run /\ (watch'.at = watch.at \/ watch'.at = 0)
    BY <1>w, <1>t, <2>1
  <2>4. \A h \in timers : watch'.at <= Squeeze[h]
    BY <1>c, <1>n, <1>t, <2>3, UpFacts
  <2>5. \A h \in timers : counter' < Reps[h]
    BY <1>t, <2>1, UpFacts
  <2> QED BY <1>c, <2>1, <2>2, <2>3, <2>4, <2>5 DEF Counted
\* A second passes only while no handler is due.
<1>9. CASE Pass
  <2>1. UNCHANGED <<timers, counter>> /\ watch' = Advanced(watch)
    BY <1>9 DEF Pass
  <2>2. timers' = {} => /\ counter' = 0 /\ watch'.at = 0 /\ ~watch'.run
                        /\ rests = <<>>
    BY <1>c, <2>1 DEF Advanced
  <2>3. \A h \in timers' : watch'.at <= Squeeze[h]
    <3> SUFFICES ASSUME NEW h \in timers PROVE watch'.at <= Squeeze[h]
      BY <2>1
    <3>1. watch.at <= Squeeze[h] /\ Squeeze[h] \in Nat /\ (watch.run => watch.at # Squeeze[h])
      BY <1>9, <1>c, <1>t, UpFacts DEF Pass, Due
    <3>2. CASE ~watch.run
      BY <2>1, <3>1, <3>2 DEF Advanced
    <3>3. CASE watch.run
      <4>1. watch'.at = 0 \/ watch'.at = watch.at + 1
        BY <2>1, <3>3 DEF Advanced
      <4> QED BY <1>n, <3>1, <3>3, <4>1
    <3> QED BY <3>2, <3>3
  <2>4. rests' = <<>> <=> rests = <<>>
    <3>1. CASE rests = <<>>
      BY <1>9, <3>1 DEF Pass
    <3>2. CASE rests # <<>>
      <4>1. DOMAIN rests = {1} /\ Len(rests) = 1
        BY <1>t, <3>2 DEF OneRest
      <4>2. Len(rests') = 1
        BY <1>9, <4>1 DEF Pass
      <4> QED BY <3>2, <4>2
    <3> QED BY <3>1, <3>2
  <2>5. rests # <<>> => rests'[1].by = rests[1].by
    BY <1>9, <1>t DEF Pass, OneRest
  <2> QED BY <1>c, <2>1, <2>2, <2>3, <2>4, <2>5 DEF Counted
<1>10. ASSUME NEW k \in Kind, NEW r \in Replies,
              NEW hides \in BOOLEAN, GetReply(k, r, hides) PROVE Counted'
  <2>1. UNCHANGED <<timers, rests>>
    BY <1>10 DEF GetReply
  <2>2. \/ UNCHANGED <<watch, counter>>
        \/ counter' = 0 /\ watch' = Stopped(watch)
    BY <1>10 DEF GetReply, CheckDay, StopWatches
  <2>3. watch'.at = watch.at /\ (watch'.run = watch.run \/ ~watch'.run)
    BY <1>w, <1>t, <2>2
  <2> QED BY <1>3, <2>1, <2>2, <2>3
<1>11. CASE StartSet \/ Enter
  BY <1>1, <1>11 DEF StartSet, Enter, clockVars
<1> QED
  BY <1>1, <1>2, <1>4, <1>5, <1>6, <1>7, <1>8, <1>9, <1>10, <1>11
  DEF Next, User, Clock, Network, BackArrow, Swipe, SystemBack, Leave,
      Dispose, PostReply, PostGetReply, ProfileReply, ProfileDropped, AlarmGet,
      Promote, Relaunch, vars, stateVars, clockVars

LEMMA ClimbingStep ==
    ASSUME SqueezeOutlastsRest
    PROVE  Climbing /\ [Next]_vars => Climbing'
<1> SUFFICES ASSUME Climbing, [Next]_vars PROVE Climbing'
  OBVIOUS
<1>1. LInv' /\ OneRest'
  BY LInvStep, OneRestStep DEF Climbing, LInv
<1>2. demoted' \/ (Rising' /\ Counted')
  <2> SUFFICES ASSUME ~demoted' PROVE Rising' /\ Counted'
    OBVIOUS
  <2>1. CASE NoScreen
    BY <2>1 DEF NoScreen, Rising, Counted, Zero
  <2>2. CASE ~demoted
    BY <2>2, RisingStep, CountedStep DEF Climbing
  <2> QED BY <2>1, <2>2, MishapsKept DEF Dispose, Relaunch
<1> QED BY <1>1, <1>2 DEF Climbing

LEMMA InitClimbing == Init => Climbing
  BY InitLInv DEF Init, Climbing, OneRest, Rising, Counted, Zero

\* The counter never gets past the length of the set that a pending rest will
\* compare it with, so the comparison for equality does end the set: whatever
\* the server answers, and also when the level is read anew in the middle of a
\* set and handlers of several levels run, unless it is a lower one.
THEOREM NeverOverrun ==
    ASSUME SqueezeOutlastsRest
    PROVE  Spec => []NoOverrun
<1>1. Climbing => NoOverrun
  <2> SUFFICES ASSUME Climbing PROVE NoOverrun
    OBVIOUS
  <2>1. \A i \in DOMAIN rests : i = 1 /\ rests # <<>>
    BY DEF Climbing, OneRest, LInv, TypeOK
  <2> QED BY <2>1 DEF Climbing, Counted, NoOverrun
<1> QED BY <1>1, InitClimbing, ClimbingStep, PTL DEF Spec
-----------------------------------------------------------------------------
(***************************************************************************)
(* The screen implements KegelRegimen, step by step: a Start begins a      *)
(* squeeze, updateTime ends it, the delayed callback ends the rest or the  *)
(* set, Finish stops, a post that is counted records, and whatever takes   *)
(* the count away abandons.  A check that stops a session and a level that *)
(* is lowered lead it astray; everything else is a stutter.                *)
(***************************************************************************)
PhaseOf(idle, resting) ==
    CASE idle -> "idle" [] resting -> "rest" [] OTHER -> "squeeze"
Phase == PhaseOf(started \/ finishing, four_started /\ ~started)
Astray == interrupted \/ demoted

LEMMA PhaseFacts ==
    \A idle, resting \in BOOLEAN :
        /\ idle /\ ~resting => PhaseOf(idle, resting) = "idle"
        /\ ~idle /\ resting => PhaseOf(idle, resting) = "rest"
        /\ ~idle /\ ~resting => PhaseOf(idle, resting) = "squeeze"
        /\ PhaseOf(idle, resting) \in {"idle", "squeeze", "rest"}
  BY DEF PhaseOf

\* What has to be shown of a step, in terms of this module.
LEMMA RegimenSession ==
    ASSUME Astray = FALSE, Astray' = FALSE,
           \/ /\ Phase = "idle" /\ Phase' = "squeeze"
              /\ UNCHANGED <<counter, done, serverSets>>
           \/ /\ Phase = "squeeze" /\ Phase' = "rest"
              /\ \E n \in {Reps[l] : l \in Levels} : counter < n
              /\ counter' = counter + 1 /\ UNCHANGED <<done, serverSets>>
           \/ /\ Phase = "rest" /\ Phase' = "squeeze"
              /\ UNCHANGED <<counter, done, serverSets>>
           \/ /\ Phase = "rest" /\ counter \in {Reps[l] : l \in Levels}
              /\ Phase' = "idle" /\ counter' = 0 /\ done' = done + 1
              /\ UNCHANGED serverSets
           \/ /\ Phase = "squeeze" /\ Phase' = "idle"
              /\ UNCHANGED <<counter, done, serverSets>>
    PROVE  [Regimen!Next]_(Regimen!vars)
<1> USE DEF Phase, PhaseOf, Astray
<1>1. Regimen!Begin \/ Regimen!EndSqueeze \/ Regimen!EndRest \/ Regimen!Complete
        \/ Regimen!Stop
  BY DEF Regimen!Begin, Regimen!EndSqueeze, Regimen!EndRest, Regimen!Complete,
         Regimen!Stop
<1> QED BY <1>1 DEF Regimen!Next, Regimen!Session

LEMMA RegimenOther ==
    /\ Phase = "idle" /\ counter = 0 /\ done = 0 /\ serverSets = 0
       /\ Astray = FALSE => Regimen!Init
    /\ /\ serverSets < done /\ serverSets' = serverSets + 1
       /\ UNCHANGED <<Phase, counter, done, Astray>>
      => [Regimen!Next]_(Regimen!vars)
    /\ /\ Phase' = "idle" /\ counter' = 0 /\ Astray' = FALSE
       /\ serverSets' \in serverSets..done /\ UNCHANGED done
      => [Regimen!Next]_(Regimen!vars)
    /\ /\ Astray = FALSE /\ Astray' = TRUE
       /\ (Phase' = "idle" /\ counter' = 0) \/ UNCHANGED <<Phase, counter>>
       /\ UNCHANGED <<done, serverSets>>
      => [Regimen!Next]_(Regimen!vars)
    /\ /\ Astray = TRUE /\ Astray' = TRUE
       /\ Phase' \in {"idle", "squeeze", "rest"} /\ counter' \in Nat
       /\ done' \in {done, done + 1} /\ UNCHANGED serverSets
      => [Regimen!Next]_(Regimen!vars)
    /\ UNCHANGED <<Phase, counter, done, serverSets, Astray>>
      => [Regimen!Next]_(Regimen!vars)
<1> USE DEF Phase, PhaseOf, Astray
<1>1. Phase = "idle" /\ counter = 0 /\ done = 0 /\ serverSets = 0
        /\ Astray = FALSE => Regimen!Init
  BY DEF Regimen!Init
<1>2. /\ serverSets < done /\ serverSets' = serverSets + 1
      /\ UNCHANGED <<Phase, counter, done, Astray>>
     => [Regimen!Next]_(Regimen!vars)
  BY DEF Regimen!Next, Regimen!Record
<1>3. /\ Phase' = "idle" /\ counter' = 0 /\ Astray' = FALSE
      /\ serverSets' \in serverSets..done /\ UNCHANGED done
     => [Regimen!Next]_(Regimen!vars)
  BY DEF Regimen!Next, Regimen!Abandon
<1>4. /\ Astray = FALSE /\ Astray' = TRUE
      /\ (Phase' = "idle" /\ counter' = 0) \/ UNCHANGED <<Phase, counter>>
      /\ UNCHANGED <<done, serverSets>>
     => [Regimen!Next]_(Regimen!vars)
  BY DEF Regimen!Next, Regimen!GoAstray
<1>5. /\ Astray = TRUE /\ Astray' = TRUE
      /\ Phase' \in {"idle", "squeeze", "rest"} /\ counter' \in Nat
      /\ done' \in {done, done + 1} /\ UNCHANGED serverSets
     => [Regimen!Next]_(Regimen!vars)
  BY DEF Regimen!Next, Regimen!Stray
<1>6. UNCHANGED <<Phase, counter, done, serverSets, Astray>>
     => [Regimen!Next]_(Regimen!vars)
  BY DEF Regimen!vars
<1> HIDE DEF Phase, PhaseOf, Astray
<1> QED BY <1>1, <1>2, <1>3, <1>4, <1>5, <1>6

Sane == Sound /\ Climbing /\ NeverOvercounted

LEMMA SaneFacts ==
    ASSUME Sane
    PROVE  /\ LInv /\ OneRest /\ Counting
           /\ started \in BOOLEAN /\ finishing \in BOOLEAN /\ four_started \in BOOLEAN
           /\ interrupted \in BOOLEAN /\ demoted \in BOOLEAN
           /\ serverSets \in Nat /\ done \in Nat /\ counter \in Nat
           /\ At("post") \in Nat /\ serverSets + At("post") <= done
           /\ rests \in Rests
           /\ Astray = FALSE => Shape /\ Rising /\ Counted
           /\ Phase \in {"idle", "squeeze", "rest"}
<1>1. LInv /\ OneRest /\ Counting
  BY DEF Sane, Sound, Shaped, Counting
<1>2. ScreenOK /\ DataOK /\ MishapsOK /\ At("post") \in Nat
  BY <1>1, TypeParts, CountTypes DEF LInv
<1>3. serverSets + At("post") <= done
  BY DEF Sane, NeverOvercounted, PostsInFlight, At
<1>4. Astray = FALSE => Shape /\ Rising /\ Counted
  BY <1>2 DEF Sane, Sound, Shaped, Climbing, Astray, MishapsOK
<1>5. Phase \in {"idle", "squeeze", "rest"}
  BY <1>2, PhaseFacts DEF ScreenOK, Phase
<1> QED BY <1>1, <1>2, <1>3, <1>4, <1>5 DEF ScreenOK, DataOK, MishapsOK

\* The end of the screen and a counted post, astray or not.
LEMMA EndOrRecord ==
    ASSUME Sane,
           \/ Dispose \/ Relaunch
           \/ \E k \in Kind, r \in Replies, hides \in BOOLEAN : PostReply(k, r, hides)
    PROVE  [Regimen!Next]_(Regimen!vars)
<1>n. /\ serverSets \in Nat /\ done \in Nat /\ At("post") \in Nat
      /\ serverSets + At("post") <= done
  BY SaneFacts
<1>1. CASE Dispose \/ Relaunch
  <2>1. Phase' = "idle" /\ counter' = 0 /\ Astray' = FALSE
    <3>1. /\ started' = TRUE /\ finishing' = FALSE /\ four_started' = FALSE
          /\ interrupted' = FALSE /\ demoted' = FALSE /\ counter' = 0
      BY <1>1 DEF Dispose, Relaunch, NoScreen
    <3> QED BY <3>1, PhaseFacts DEF Phase, Astray
  <2>2. done' = done /\ serverSets' \in serverSets..(serverSets + At("post"))
    BY <1>1, <1>n DEF Dispose, Relaunch, PostsInFlight, At
  <2>3. serverSets' \in serverSets..done
    BY <1>n, <2>2
  <2> QED BY <2>1, <2>2, <2>3, RegimenOther
<1>2. ASSUME NEW k \in Kind, NEW r \in Replies, NEW hides \in BOOLEAN,
             PostReply(k, r, hides)
      PROVE  [Regimen!Next]_(Regimen!vars)
  <2>1. UNCHANGED <<started, finishing, four_started, counter, done, interrupted,
                    demoted>>
    BY <1>2 DEF PostReply, stateVars
  <2>2. serverSets' = serverSets \/ serverSets' = serverSets + 1
    BY <1>2 DEF PostReply
  <2>3. serverSets < done
    <3>1. At("post") > 0
      BY <1>2, AtPostReply, SaneFacts
    <3> QED BY <1>n, <3>1
  <2>4. Phase' = Phase /\ Astray' = Astray
    BY <2>1 DEF Phase, Astray
  <2> QED BY <2>1, <2>2, <2>3, <2>4, RegimenOther
<1> QED BY <1>1, <1>2

\* Whatever else happens to a session that is astray keeps the record.
LEMMA AstrayStep ==
    ASSUME SqueezeOutlastsRest, Sane, [Next]_vars, Astray = TRUE
    PROVE  [Regimen!Next]_(Regimen!vars)
<1>1. CASE \/ Dispose \/ Relaunch
           \/ \E k \in Kind, r \in Replies, hides \in BOOLEAN : PostReply(k, r, hides)
  BY <1>1, EndOrRecord
<1>2. CASE ~Dispose /\ ~Relaunch
           /\ ~\E k \in Kind, r \in Replies, hides \in BOOLEAN : PostReply(k, r, hides)
  <2>1. TypeOK'
    BY LInvStep, SaneFacts DEF LInv
  <2>2. Astray' = TRUE
    <3>1. (interrupted => interrupted') /\ (demoted => demoted')
      BY <1>2, MishapsKept
    <3> QED BY <3>1 DEF Astray
  <2>3. Phase' \in {"idle", "squeeze", "rest"} /\ counter' \in Nat
    BY <2>1, PhaseFacts DEF TypeOK, Phase
  <2>4. done' \in {done, done + 1} /\ serverSets' = serverSets
    <3>1. CASE User \/ Clock \/ Promote \/ UNCHANGED vars
      BY <1>2, <3>1
      DEF User, Clock, Enter, BackArrow, Swipe, SystemBack, Leave, StartSet,
          ResumeSet, FinishTap, FinishDone, CountdownTick, SqueezeTick, NextRep,
          SetDone, Pass, Promote, vars, historyVars, serverVars
    <3>2. ASSUME NEW k \in Kind, NEW r \in Replies, NEW hides \in BOOLEAN,
                 PostGetReply(k, r, hides) \/ GetReply(k, r, hides)
          PROVE  done' \in {done, done + 1} /\ serverSets' = serverSets
      BY <3>2 DEF PostGetReply, GetReply, serverVars
    <3>3. CASE AlarmGet \/ \E k \in Kind : ProfileReply(k) \/ ProfileDropped(k)
      BY <3>3 DEF AlarmGet, ProfileReply, ProfileDropped, historyVars, serverVars
    <3> QED BY <1>2, <3>1, <3>2, <3>3 DEF Next, Network
  <2> QED BY <2>2, <2>3, <2>4, RegimenOther
<1> QED BY <1>1, <1>2

\* As long as it is not: every operation is one of the regimen's.
LEMMA RegimenStep ==
    ASSUME SqueezeOutlastsRest
    PROVE  Sane /\ [Next]_vars => [Regimen!Next]_(Regimen!vars)
<1> SUFFICES ASSUME Sane, [Next]_vars, Astray = FALSE
             PROVE  [Regimen!Next]_(Regimen!vars)
  BY AstrayStep, SaneFacts DEF Astray
<1>t. /\ started \in BOOLEAN /\ finishing \in BOOLEAN /\ four_started \in BOOLEAN
      /\ rests \in Rests /\ counter \in Nat
      /\ LInv /\ OneRest /\ Shape /\ Counted
  BY SaneFacts
<1>u. started' \in BOOLEAN /\ finishing' \in BOOLEAN /\ four_started' \in BOOLEAN
  BY LInvStep, SaneFacts DEF LInv, TypeOK
<1>p. /\ started \/ finishing => Phase = "idle"
      /\ four_started => Phase = "rest"
      /\ ~started /\ ~finishing /\ ~four_started => Phase = "squeeze"
  BY <1>t, PhaseFacts DEF Phase, Shape, OneRest
<1>q. /\ (started' \/ finishing') /\ (started' \/ ~four_started') => Phase' = "idle"
      /\ ~started' /\ ~finishing' /\ four_started' => Phase' = "rest"
      /\ ~started' /\ ~finishing' /\ ~four_started' => Phase' = "squeeze"
  BY <1>u, PhaseFacts DEF Phase
<1>1. ASSUME UNCHANGED <<started, finishing, four_started, counter, done, serverSets>>,
             Astray' = FALSE
      PROVE  [Regimen!Next]_(Regimen!vars)
  <2>1. Phase' = Phase
    BY <1>1 DEF Phase
  <2> QED BY <1>1, <2>1, RegimenOther
<1>2. CASE \/ Dispose \/ Relaunch
           \/ \E k \in Kind, r \in Replies, hides \in BOOLEAN : PostReply(k, r, hides)
  BY <1>2, EndOrRecord
<1> DEFINE Straight == UNCHANGED <<interrupted, demoted>>
<1>s. Straight => Astray' = FALSE
  BY DEF Astray
<1>3. CASE StartSet \/ ResumeSet
  <2>1. /\ started /\ ~started' /\ ~finishing' /\ ~four_started'
        /\ UNCHANGED <<counter, done, serverSets>> /\ Straight
    BY <1>3, <1>t
    DEF StartSet, ResumeSet, Shape, OneRest, serverVars, historyVars, mishapVars
  <2> QED BY <1>p, <1>q, <1>s, <2>1, RegimenSession
<1>4. CASE FinishTap
  <2>1. /\ ~started /\ ~four_started /\ finishing' /\ ~four_started'
        /\ UNCHANGED <<counter, done, serverSets>> /\ Straight
    BY <1>4, <1>t
    DEF FinishTap, FinishAllowed, serverVars, historyVars, mishapVars
  <2>2. Phase' = "idle"
    BY <1>q, <2>1
  <2>3. CASE finishing
    <3>1. Phase' = Phase
      BY <1>p, <2>2, <2>3
    <3> QED BY <1>s, <2>1, <3>1, RegimenOther
  <2>4. CASE ~finishing
    <3>1. Phase = "squeeze"
      BY <1>p, <2>1, <2>4
    <3> QED BY <1>s, <2>1, <2>2, <3>1, RegimenSession
  <2> QED BY <2>3, <2>4
<1>5. CASE FinishDone
  <2>1. /\ finishing /\ started' /\ UNCHANGED <<four_started, counter, done, serverSets>>
        /\ Straight
    BY <1>5 DEF FinishDone, serverVars, historyVars, mishapVars
  <2>2. Phase' = Phase
    BY <1>p, <1>q, <2>1
  <2> QED BY <1>s, <2>1, <2>2, RegimenOther
<1>6. CASE CountdownTick
  <2>1. /\ ~started /\ UNCHANGED <<finishing, four_started, counter, done, serverSets>>
        /\ started' = FALSE /\ Straight
    BY <1>6, <1>t DEF CountdownTick, Shape, serverVars, historyVars, mishapVars
  <2> QED BY <1>1, <1>t, <1>s, <2>1
<1>7. ASSUME NEW h \in Levels, SqueezeTick(h) PROVE [Regimen!Next]_(Regimen!vars)
  <2>1. /\ ~started /\ ~finishing /\ four_started' /\ counter' = counter + 1
        /\ ~started' /\ ~finishing'
        /\ UNCHANGED <<done, serverSets>> /\ Straight
    BY <1>7, <1>t DEF SqueezeTick, Shape, serverVars, historyVars, mishapVars
  <2>2. ~four_started
    BY <1>t, <2>1, OneRestStep DEF LInv
  <2>3. counter < Reps[h]
    BY <1>t, <1>7, <2>2 DEF SqueezeTick, Counted, Shape
  <2> QED BY <1>p, <1>q, <1>s, <2>1, <2>2, <2>3, RegimenSession
<1>8. CASE NextRep
  <2>1. four_started /\ ~started /\ ~finishing
    BY <1>8, <1>t DEF NextRep, RestDue, Shape
  <2>2. /\ ~started' /\ ~finishing' /\ ~four_started'
        /\ UNCHANGED <<counter, done, serverSets>> /\ Straight
    BY <1>8, <2>1 DEF NextRep, serverVars, historyVars, mishapVars
  <2> QED BY <1>p, <1>q, <1>s, <2>1, <2>2, RegimenSession
<1>9. CASE SetDone
  <2>1. four_started /\ Head(rests).by \in Levels
    BY <1>9, <1>t, RestsFacts DEF SetDone, RestDue, Shape
  <2>2. /\ started' /\ counter = Reps[Head(rests).by] /\ counter' = 0
        /\ done' = done + 1 /\ UNCHANGED serverSets /\ Straight
    BY <1>9 DEF SetDone, SetComplete, serverVars, mishapVars
  <2> QED BY <1>p, <1>q, <1>s, <2>1, <2>2, RegimenSession
\* The check behind a set stops a session, or finds none.
<1>10. ASSUME NEW k \in Kind, NEW r \in Replies, NEW hides \in BOOLEAN,
              GetReply(k, r, hides)
       PROVE  [Regimen!Next]_(Regimen!vars)
  <2>1. UNCHANGED <<finishing, done, serverSets, demoted>>
    BY <1>10 DEF GetReply, serverVars
  <2>2. \/ UNCHANGED <<started, four_started, counter>>
        \/ started' /\ counter' = 0
    BY <1>10 DEF GetReply, CheckDay
  <2>3. Astray' \in BOOLEAN
    BY DEF Astray
  <2>4. interrupted' = (interrupted \/ (~started /\ started'))
    BY <1>10 DEF GetReply
  <2>5. CASE UNCHANGED <<started, four_started, counter>>
    <3>1. Astray' = FALSE
      BY <2>1, <2>4, <2>5 DEF Astray
    <3> QED BY <1>1, <2>1, <2>5, <3>1
  <2>6. CASE started' /\ counter' = 0
    <3>1. Phase' = "idle"
      BY <1>q, <2>6
    <3>2. CASE Astray' = TRUE
      BY <2>1, <2>6, <3>1, <3>2, RegimenOther
    <3>3. CASE Astray' = FALSE
      <4>1. serverSets' \in serverSets..done
        BY <2>1, SaneFacts
      <4> QED BY <2>1, <2>6, <3>1, <3>3, <4>1, RegimenOther
    <3> QED BY <2>3, <3>2, <3>3
  <2> QED BY <2>2, <2>5, <2>6
\* A level is read: a lower one may lead astray.
<1>11. ASSUME NEW k \in Kind, ProfileReply(k)
       PROVE  [Regimen!Next]_(Regimen!vars)
  <2>1. UNCHANGED <<started, finishing, four_started, counter, done, serverSets>>
    BY <1>11 DEF ProfileReply
  <2>2. Phase' = Phase /\ Astray' \in BOOLEAN
    BY <2>1 DEF Phase, Astray
  <2> QED BY <1>1, <2>1, <2>2, RegimenOther
<1>12. CASE Enter \/ Pass \/ Promote \/ AlarmGet \/ UNCHANGED vars
              \/ \E k \in Kind : ProfileDropped(k)
  <2>1. UNCHANGED <<started, finishing, four_started, counter, done, serverSets,
                    interrupted, demoted>>
    BY <1>12 DEF Enter, Pass, Promote, AlarmGet, ProfileDropped,
                 vars, stateVars, serverVars, historyVars, mishapVars
  <2> QED BY <1>1, <1>s, <2>1
<1>13. ASSUME NEW k \in Kind, NEW r \in Replies, NEW hides \in BOOLEAN,
              PostGetReply(k, r, hides)
       PROVE  [Regimen!Next]_(Regimen!vars)
  <2>1. UNCHANGED <<started, finishing, four_started, counter, done, serverSets,
                    interrupted, demoted>>
    BY <1>13 DEF PostGetReply, stateVars, serverVars
  <2> QED BY <1>1, <1>s, <2>1
<1> QED
  BY <1>2, <1>3, <1>4, <1>5, <1>6, <1>7, <1>8, <1>9, <1>10, <1>11, <1>12, <1>13
  DEF Next, User, Clock, Network, BackArrow, Swipe, SystemBack, Leave

\* The screen, with its flags, overlapping timers, late replies and lost posts,
\* does nothing but run the regimen: squeezes and rests alternate, every squeeze
\* counts once, a set is complete after a rest and at the length of a level, and
\* the server records a completed set at most once and nothing else.  A session
\* that the check behind a set stops, or whose level is lowered, is astray: of
\* it only the record is kept.
THEOREM ScreenImplementsRegimen ==
    ASSUME SqueezeOutlastsRest
    PROVE  Spec => RegimenSpec
<1>1. Init => Regimen!Init
  <2> SUFFICES ASSUME Init PROVE Regimen!Init
    OBVIOUS
  <2>1. Phase = "idle" /\ Astray = FALSE
    BY PhaseFacts DEF Init, Phase, Astray
  <2> QED BY <2>1, RegimenOther DEF Init
<1>2. Spec => []Sane
  <2>1. Init => Climbing /\ NeverOvercounted
    BY InitClimbing, FreshChains
    DEF Init, NeverOvercounted, PostsInFlight, NoChains, Kind, Stage
  <2>2. Climbing /\ NeverOvercounted /\ [Next]_vars => (Climbing /\ NeverOvercounted)'
    BY ClimbingStep, CountStep DEF Climbing
  <2> QED BY <2>1, <2>2, SoundAlways, PTL DEF Spec, Sane
<1>3. Sane /\ [Next]_vars => [Regimen!Next]_(Regimen!vars)
  BY RegimenStep
<1> QED BY <1>1, <1>2, <1>3, PTL DEF Spec, RegimenSpec, Regimen!Spec
=============================================================================
