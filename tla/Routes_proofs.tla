---------------------------- MODULE Routes_proofs ----------------------------
(***************************************************************************)
(* What the operations of Routes do to a navigator, whatever its routes,   *)
(* and what a set counts.                                                  *)
(***************************************************************************)
EXTENDS Routes, SequenceTheorems, FiniteSetTheorems, TLAPS

\* Pushing a route leaves all others where they are.
LEMMA PushedFacts ==
    ASSUME NEW R, NEW n \in Navigator(R), NEW r \in R
    PROVE  /\ Pushed(n, r) \in Navigator(R)
           /\ Pushed(n, r).stack = Append(n.stack, r)
           /\ Len(Pushed(n, r).stack) = Len(n.stack) + 1
           /\ Top(Pushed(n, r)) = r
           /\ \A i \in 1..Len(n.stack) : Pushed(n, r).stack[i] = n.stack[i]
           /\ \A x : On(Pushed(n, r), x) <=> On(n, x) \/ x = r
<1>1. n.stack \in Seq(R) /\ n.dialog \in Nat /\ n.current \in R
  BY DEF Navigator
<1>2. Pushed(n, r).stack = Append(n.stack, r) /\ Pushed(n, r) \in Navigator(R)
  BY <1>1, AppendProperties DEF Pushed, Navigator
<1>3. /\ Len(Append(n.stack, r)) = Len(n.stack) + 1
      /\ Append(n.stack, r)[Len(n.stack) + 1] = r
      /\ \A i \in 1..Len(n.stack) : Append(n.stack, r)[i] = n.stack[i]
  BY <1>1, AppendProperties
<1>4. Range(Append(n.stack, r)) = Range(n.stack) \cup {r}
  BY <1>1, <1>3 DEF Range
<1> QED
  BY <1>2, <1>3, <1>4 DEF Top, On

\* So does the loader's dialog.
LEMMA WithLoaderFacts ==
    ASSUME NEW R, NEW n \in Navigator(R), Loader \in R
    PROVE  /\ WithLoader(n) \in Navigator(R)
           /\ WithLoader(n).stack = Append(n.stack, Loader)
           /\ Len(WithLoader(n).stack) = Len(n.stack) + 1
           /\ \A i \in 1..Len(n.stack) : WithLoader(n).stack[i] = n.stack[i]
           /\ \A x : On(WithLoader(n), x) <=> On(n, x) \/ x = Loader
<1>1. Pushed(n, Loader) \in Navigator(R) /\ n.stack \in Seq(R)
  BY PushedFacts DEF Navigator
<1>2. /\ WithLoader(n).stack = Pushed(n, Loader).stack
      /\ WithLoader(n) \in Navigator(R)
  BY <1>1 DEF WithLoader, Navigator
<1>3. /\ Pushed(n, Loader).stack = Append(n.stack, Loader)
      /\ Len(Pushed(n, Loader).stack) = Len(n.stack) + 1
      /\ \A i \in 1..Len(n.stack) : Pushed(n, Loader).stack[i] = n.stack[i]
      /\ \A x : On(Pushed(n, Loader), x) <=> On(n, x) \/ x = Loader
  BY PushedFacts
<1>4. \A x : On(WithLoader(n), x) <=> On(Pushed(n, Loader), x)
  BY <1>2 DEF On
<1> QED
  BY <1>2, <1>3, <1>4

\* A pop takes the topmost route, and no other.
LEMMA PoppedFacts ==
    ASSUME NEW R, NEW n \in Navigator(R), Len(n.stack) >= 2
    PROVE  /\ Popped(n) \in Navigator(R)
           /\ Len(Popped(n).stack) = Len(n.stack) - 1
           /\ \A i \in 1..(Len(n.stack) - 1) : Popped(n).stack[i] = n.stack[i]
           /\ n.stack = Append(Popped(n).stack, Top(n))
           /\ \A x : On(Popped(n), x) => On(n, x)
           /\ \A x : On(n, x) /\ x # Top(n) => On(Popped(n), x)
<1>1. n.stack \in Seq(R) /\ n.dialog \in Nat /\ n.current \in R
  BY DEF Navigator
<1> DEFINE below == SubSeq(n.stack, 1, Len(n.stack) - 1)
<1>2. /\ below \in Seq(R) /\ Len(below) = Len(n.stack) - 1
      /\ \A i \in 1..(Len(n.stack) - 1) : below[i] = n.stack[i]
  BY <1>1, SubSeqProperties
<1>3. Popped(n).stack = below
  BY DEF Popped, Front
<1>4. Last(below) \in R
  BY <1>2 DEF Last
<1>5. Popped(n) \in Navigator(R)
  BY <1>1, <1>2, <1>4 DEF Popped, Front, Navigator
<1>6. n.stack = Append(below, Top(n))
  BY <1>1, <1>2, AppendProperties, SeqEqual DEF Top
<1>7. \A x : On(Popped(n), x) => On(n, x)
  BY <1>1, <1>2, <1>3 DEF On, Range
<1>8. ASSUME NEW x, On(n, x), x # Top(n)
      PROVE  On(Popped(n), x)
  <2>1. PICK i \in 1..Len(n.stack) : n.stack[i] = x
    BY <1>1, <1>8 DEF On, Range
  <2>2. i \in 1..(Len(n.stack) - 1)
    BY <1>1, <1>8, <2>1 DEF Top
  <2>3. below[i] = x /\ i \in DOMAIN below
    BY <1>2, <2>1, <2>2
  <2> QED
    BY <1>3, <2>3 DEF On, Range
<1> QED
  BY <1>2, <1>3, <1>5, <1>6, <1>7, <1>8

\* A route more is a loader more if it is one.
LEMMA LoadersAppend ==
    ASSUME NEW R, NEW n \in Navigator(R), NEW m \in Navigator(R), NEW r \in R,
           m.stack = Append(n.stack, r)
    PROVE  /\ Loaders(n) \in Nat /\ Loaders(m) \in Nat
           /\ r = Loader => Loaders(m) = Loaders(n) + 1
           /\ r # Loader => Loaders(m) = Loaders(n)
<1> DEFINE at(s) == {i \in DOMAIN s : s[i] = Loader}
           l == Len(n.stack)
<1>1. n.stack \in Seq(R) /\ l \in Nat
  BY DEF Navigator
<1>2. /\ DOMAIN n.stack = 1..l /\ DOMAIN m.stack = 1..(l + 1)
      /\ m.stack[l + 1] = r
      /\ \A i \in 1..l : m.stack[i] = n.stack[i]
  BY <1>1, AppendProperties
<1> HIDE DEF l
<1>3. IsFiniteSet(at(n.stack)) /\ Cardinality(at(n.stack)) \in Nat
  <2>1. IsFiniteSet(1..l)
    BY <1>1, FS_Interval
  <2> QED
    BY <1>2, <2>1, FS_Subset, FS_CardinalityType
<1>4. l + 1 \notin at(n.stack)
  BY <1>1, <1>2
<1>5. ASSUME r = Loader PROVE Loaders(m) = Loaders(n) + 1
  <2>1. at(m.stack) = at(n.stack) \cup {l + 1}
    BY <1>1, <1>2, <1>5
  <2>2. Cardinality(at(n.stack) \cup {l + 1}) = Cardinality(at(n.stack)) + 1
    BY <1>3, <1>4, FS_AddElement
  <2> QED
    BY <1>3, <1>5, <2>1, <2>2 DEF Loaders
<1>6. ASSUME r # Loader PROVE Loaders(m) = Loaders(n)
  <2>1. at(m.stack) = at(n.stack)
    BY <1>1, <1>2, <1>6
  <2> QED
    BY <1>3, <1>6, <2>1 DEF Loaders
<1>7. Loaders(n) \in Nat
  BY <1>3 DEF Loaders
<1> QED
  BY <1>5, <1>6, <1>7

\* Over a route that is no loader there are as many others at least as loaders.
LEMMA LoadersBelow ==
    ASSUME NEW R, NEW n \in Navigator(R), Len(n.stack) >= 1, n.stack[1] # Loader
    PROVE  Loaders(n) \in Nat /\ Loaders(n) <= Len(n.stack) - 1
<1> DEFINE at == {i \in DOMAIN n.stack : n.stack[i] = Loader}
           l == Len(n.stack)
<1>1. l \in Nat /\ l >= 1 /\ DOMAIN n.stack = 1..l
  BY DEF Navigator
<1> HIDE DEF l
<1>2. at \subseteq 2..l
  BY <1>1
<1>3. IsFiniteSet(2..l) /\ Cardinality(2..l) = l - 1
  <2>1. IsFiniteSet(2..l) /\ Cardinality(2..l) = IF 2 > l THEN 0 ELSE l - 2 + 1
    <3>1. 2 \in Int /\ l \in Int
      BY <1>1
    <3> QED
      BY <3>1, FS_Interval, Zenon
  <2> QED
    BY <1>1, <2>1
<1>4. Cardinality(at) \in Nat /\ Cardinality(at) <= Cardinality(2..l)
  BY <1>2, <1>3, FS_Subset, FS_CardinalityType
<1> QED
  BY <1>1, <1>3, <1>4 DEF Loaders, l

\* A set counts its other members and the one looked at.
LEMMA CountOne ==
    ASSUME NEW S, IsFiniteSet(S), NEW x
    PROVE  /\ Cardinality(S \ {x}) \in Nat
           /\ x \in S => Cardinality(S) = Cardinality(S \ {x}) + 1
           /\ x \notin S => Cardinality(S) = Cardinality(S \ {x})
<1>1. IsFiniteSet(S \ {x}) /\ Cardinality(S \ {x}) \in Nat
  BY FS_RemoveElement, FS_CardinalityType
<1>2. ASSUME x \in S PROVE Cardinality(S) = Cardinality(S \ {x}) + 1
  <2>1. (S \ {x}) \cup {x} = S /\ x \notin S \ {x}
    BY <1>2
  <2>2. Cardinality((S \ {x}) \cup {x}) = Cardinality(S \ {x}) + 1
    BY <1>1, <2>1, FS_AddElement
  <2> QED
    BY <2>1, <2>2
<1>3. ASSUME x \notin S PROVE S \ {x} = S
  BY <1>3
<1> QED
  BY <1>1, <1>2, <1>3
=============================================================================
