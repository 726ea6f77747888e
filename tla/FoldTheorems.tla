------------------------------ MODULE FoldTheorems -----------------------------
(***************************************************************************)
(* Facts about the operators over sequences and functions that the models  *)
(* use and that are defined by recursion.  They are proved by induction,   *)
(* which is stated about a set of numbers: every set of numbers that is    *)
(* not empty has a least one.                                              *)
(***************************************************************************)
EXTENDS Integers, SequencesExt, SequenceTheorems, FiniteSetTheorems, WellFoundedInduction, TLAPS

\* A set of natural numbers has a least one unless it is empty.
LEMMA LeastNumber ==
  ASSUME NEW T, T \subseteq Nat, T # {}
  PROVE  \E m \in T : \A k \in T : m <= k
<1> DEFINE R == {ss \in Nat \X Nat : ss[1] < ss[2]}
<1>1. IsWellFoundedOn(R, Nat)
  BY NatLessThanWellFounded DEF OpToRel
<1> HIDE DEF R
<1>2. PICK x \in T : \A y \in T : ~ (<<y, x>> \in R)
  BY <1>1, WFMin
<1>3. \A y \in T : ~(y < x)
  <2>1. TAKE y \in T
  <2>2. <<y, x>> \in Nat \X Nat /\ <<y, x>>[1] = y /\ <<y, x>>[2] = x
    OBVIOUS
  <2> QED BY <1>2, <2>2 DEF R
<1> QED BY <1>3

\* What has 0, and each next number, has all of them.
LEMMA Induction ==
  ASSUME NEW T, 0 \in T, \A n \in Nat : n \in T => n + 1 \in T
  PROVE  Nat \subseteq T
<1> DEFINE S == {n \in Nat : n \notin T}
<1>1. CASE S = {}
  BY <1>1
<1>2. CASE S # {}
  <2>1. PICK m \in S : \A k \in S : m <= k
    BY <1>2, LeastNumber
  <2> QED BY <2>1
<1> QED BY <1>1, <1>2

-----------------------------------------------------------------------------
(* Division *)

\* Quotient and remainder.
LEMMA Division ==
  /\ \A n \in Nat, w \in Nat \ {0} : n \div w \in Nat /\ n % w \in 0..(w - 1)
  /\ \A n \in Nat, w \in Nat \ {0} : n = (n \div w) * w + (n % w)
  /\ \A w \in Nat \ {0}, q \in Nat : \A r \in 0..(w - 1) : (q * w + r) \div w = q
  /\ \A w \in Nat \ {0}, q \in Nat : \A r \in 0..(w - 1) : (q * w + r) % w = r
  /\ \A w \in Nat \ {0}, h \in Nat, q \in Nat, r \in Nat : q * w + r < h * w => q < h
  /\ \A w \in Nat, h \in Nat : \A q \in 0..(w - 1), r \in 0..(h - 1) : q * h + r \in 0..(w * h - 1)
<1>1. \A n \in Nat, w \in Nat \ {0} : n \div w \in Nat /\ n % w \in 0..(w - 1)
  BY SMTT(20)
<1>2. \A n \in Nat, w \in Nat \ {0} : n = (n \div w) * w + (n % w)
  BY SMTT(20)
<1>3. \A w \in Nat \ {0}, q \in Nat : \A r \in 0..(w - 1) : (q * w + r) \div w = q
  BY SMTT(20)
<1>4. \A w \in Nat \ {0}, q \in Nat : \A r \in 0..(w - 1) : (q * w + r) % w = r
  BY SMTT(20)
<1>5. \A w \in Nat \ {0}, h \in Nat, q \in Nat, r \in Nat : q * w + r < h * w => q < h
  BY SMTT(20)
<1>6. \A w \in Nat, h \in Nat : \A q \in 0..(w - 1), r \in 0..(h - 1) : q * h + r \in 0..(w * h - 1)
  BY SMTT(20)
<1> QED BY <1>1, <1>2, <1>3, <1>4, <1>5, <1>6, Zenon

-----------------------------------------------------------------------------
(* FlattenSeq *)

\* The first n parts of s, joined one after the other.
Joins(n, s, g) == g = [i \in 1..n |-> IF i = 1 THEN s[i] ELSE g[i - 1] \o s[i]]

LEMMA JoinsAt ==
  ASSUME NEW n, NEW s, NEW g, Joins(n, s, g), NEW i \in 1..n
  PROVE  g[i] = IF i = 1 THEN s[i] ELSE g[i - 1] \o s[i]
  BY Zenon DEF Joins

LEMMA JoinsNext ==
  ASSUME NEW n \in Nat, NEW s, NEW g, Joins(n, s, g)
  PROVE  \E h : Joins(n + 1, s, h)
<1> DEFINE last == IF n = 0 THEN s[n + 1] ELSE g[n] \o s[n + 1]
           h == [i \in 1..(n + 1) |-> IF i = n + 1 THEN last ELSE g[i]]
<1>1. \A i \in 1..(n + 1) : h[i] = IF i = 1 THEN s[i] ELSE h[i - 1] \o s[i]
  <2> TAKE i \in 1..(n + 1)
  <2>1. CASE i = n + 1
    <3>1. n # 0 => n \in 1..(n + 1) /\ n # n + 1 OBVIOUS
    <3>2. n # 0 => h[n] = g[n] BY <3>1
    <3>3. h[i] = last BY <2>1
    <3>4. i = 1 <=> n = 0 BY <2>1
    <3>5. i - 1 = n BY <2>1
    <3> HIDE DEF h
    <3> QED BY <2>1, <3>2, <3>3, <3>4, <3>5
  <2>2. CASE i # n + 1
    <3>1. i \in 1..n /\ (i # 1 => i - 1 \in 1..n) BY <2>2
    <3>2. h[i] = g[i] /\ (i # 1 => h[i - 1] = g[i - 1]) BY <2>2, <3>1
    <3>3. g[i] = IF i = 1 THEN s[i] ELSE g[i - 1] \o s[i]
      BY <3>1, JoinsAt
    <3> QED BY <3>2, <3>3
  <2> QED BY <2>1, <2>2
<1>2. h = [i \in 1..(n + 1) |-> h[i]] OBVIOUS
<1> HIDE DEF h
<1>3. Joins(n + 1, s, h)
  BY <1>1, <1>2 DEF Joins
<1> QED BY <1>3

LEMMA JoinsExist ==
  ASSUME NEW n \in Nat, NEW s
  PROVE  \E g : Joins(n, s, g)
<1> DEFINE T == {m \in Nat : \E g : Joins(m, s, g)}
<1>1. 0 \in T
  <2>1. Joins(0, s, <<>>) BY DEF Joins
  <2> QED BY <2>1
<1>2. \A m \in Nat : m \in T => m + 1 \in T
  BY JoinsNext
<1>3. Nat \subseteq T
  <2> HIDE DEF T
  <2> QED BY <1>1, <1>2, Induction
<1> QED BY <1>3

LEMMA FlattenJoins ==
  ASSUME NEW s, Len(s) \in Nat, Len(s) # 0
  PROVE  \E g : Joins(Len(s), s, g) /\ FlattenSeq(s) = g[Len(s)]
<1> DEFINE flatten[i \in 1..Len(s)] == IF i = 1 THEN s[i] ELSE flatten[i - 1] \o s[i]
<1>1. Joins(Len(s), s, flatten)
  BY JoinsExist DEF Joins
<1>2. FlattenSeq(s) = flatten[Len(s)]
  BY DEF FlattenSeq
<1> QED BY <1>1, <1>2

\* They are the same for a longer sequence.
LEMMA JoinsUnique ==
  ASSUME NEW m \in Nat, NEW s, NEW t, NEW g, NEW h,
         Joins(m + 1, s, g), Joins(m, t, h), \A i \in 1..m : s[i] = t[i]
  PROVE  \A i \in 1..m : g[i] = h[i]
<1> DEFINE T == {k \in Nat : k \in 1..m => g[k] = h[k]}
<1>1. 0 \in T OBVIOUS
<1>2. ASSUME NEW k \in Nat, k \in T PROVE k + 1 \in T
  <2>1. SUFFICES ASSUME k + 1 \in 1..m PROVE g[k + 1] = h[k + 1] OBVIOUS
  <2>2. k + 1 \in 1..(m + 1) BY <2>1
  <2>3. /\ g[k + 1] = IF k + 1 = 1 THEN s[k + 1] ELSE g[k + 1 - 1] \o s[k + 1]
        /\ h[k + 1] = IF k + 1 = 1 THEN t[k + 1] ELSE h[k + 1 - 1] \o t[k + 1]
    BY <2>1, <2>2, JoinsAt
  <2>4. k + 1 - 1 = k /\ (k + 1 = 1 <=> k = 0) /\ (k # 0 => k \in 1..m) BY <2>1
  <2>5. k # 0 => g[k] = h[k] BY <1>2, <2>4
  <2> QED BY <2>1, <2>3, <2>4, <2>5
<1>3. Nat \subseteq T
  <2> HIDE DEF T
  <2> QED BY <1>1, <1>2, Induction
<1> QED BY <1>3

LEMMA JoinsTyped ==
  ASSUME NEW S, NEW s \in Seq(Seq(S)), NEW g, Joins(Len(s), s, g)
  PROVE  \A i \in 1..Len(s) : g[i] \in Seq(S)
<1> DEFINE T == {k \in Nat : k \in 1..Len(s) => g[k] \in Seq(S)}
<1>1. 0 \in T OBVIOUS
<1>2. ASSUME NEW k \in Nat, k \in T PROVE k + 1 \in T
  <2>1. SUFFICES ASSUME k + 1 \in 1..Len(s) PROVE g[k + 1] \in Seq(S) OBVIOUS
  <2>2. g[k + 1] = IF k + 1 = 1 THEN s[k + 1] ELSE g[k + 1 - 1] \o s[k + 1]
    BY <2>1, JoinsAt
  <2>3. k + 1 - 1 = k /\ (k + 1 = 1 <=> k = 0) /\ (k # 0 => k \in 1..Len(s)) BY <2>1
  <2>4. s[k + 1] \in Seq(S) BY <2>1
  <2>5. k # 0 => g[k] \in Seq(S) BY <1>2, <2>3
  <2>6. k # 0 => g[k] \o s[k + 1] \in Seq(S) BY <2>4, <2>5
  <2> QED BY <2>2, <2>3, <2>4, <2>6
<1>3. Nat \subseteq T
  <2> HIDE DEF T
  <2> QED BY <1>1, <1>2, Induction
<1> QED BY <1>3

LEMMA FlattenLonger ==
  ASSUME NEW s, NEW u, Len(s) \in Nat, Len(s) # 0, Len(u) = Len(s) + 1,
         \A i \in 1..Len(s) : u[i] = s[i]
  PROVE  FlattenSeq(u) = FlattenSeq(s) \o u[Len(s) + 1]
<1>1. PICK g : Joins(Len(s), s, g) /\ FlattenSeq(s) = g[Len(s)]
  BY FlattenJoins
<1>2. PICK h : Joins(Len(s) + 1, u, h) /\ FlattenSeq(u) = h[Len(s) + 1]
  <2>1. Len(u) \in Nat /\ Len(u) # 0 OBVIOUS
  <2> QED BY <2>1, FlattenJoins
<1>3. h[Len(s)] = g[Len(s)]
  <2>1. \A i \in 1..Len(s) : h[i] = g[i]
    BY <1>1, <1>2, JoinsUnique
  <2> QED BY <2>1
<1>4. h[Len(s) + 1] = IF Len(s) + 1 = 1 THEN u[Len(s) + 1] ELSE h[Len(s) + 1 - 1] \o u[Len(s) + 1]
  <2>1. Len(s) + 1 \in 1..(Len(s) + 1) OBVIOUS
  <2> QED BY <1>2, <2>1, JoinsAt
<1>5. Len(s) + 1 # 1 /\ Len(s) + 1 - 1 = Len(s) OBVIOUS
<1> QED BY <1>1, <1>2, <1>3, <1>4, <1>5

LEMMA FlattenOne ==
  ASSUME NEW u, Len(u) = 1
  PROVE  FlattenSeq(u) = u[1]
<1>1. PICK g : Joins(Len(u), u, g) /\ FlattenSeq(u) = g[Len(u)]
  <2>1. Len(u) \in Nat /\ Len(u) # 0 OBVIOUS
  <2> QED BY <2>1, FlattenJoins, Zenon
<1>2. 1 \in 1..1 OBVIOUS
<1>3. g[1] = IF 1 = 1 THEN u[1] ELSE g[1 - 1] \o u[1]
  BY <1>1, <1>2, JoinsAt
<1> QED BY <1>1, <1>3

\* FlattenSeq of a sequence of sequences over a set is a sequence over that set (the
\* points of a list of clouds are points).
THEOREM FlattenTyped ==
  ASSUME NEW S, NEW s \in Seq(Seq(S))
  PROVE  FlattenSeq(<<>>) = <<>> /\ FlattenSeq(s) \in Seq(S)
<1>1. FlattenSeq(<<>>) = <<>> BY DEF FlattenSeq
<1>2. FlattenSeq(s) \in Seq(S)
  <2>1. CASE Len(s) = 0 
    <3>1. s = <<>> BY <2>1
    <3>2. FlattenSeq(s) = <<>> BY <1>1, <3>1, Zenon
    <3> QED BY <3>2
  <2>2. CASE Len(s) # 0
    <3>1. Len(s) \in Nat /\ Len(s) \in 1..Len(s) BY <2>2
    <3>2. PICK g : Joins(Len(s), s, g) /\ FlattenSeq(s) = g[Len(s)] BY <2>2, <3>1, FlattenJoins
    <3> QED BY <3>1, <3>2, JoinsTyped
  <2> QED BY <2>1, <2>2
<1> QED BY <1>1, <1>2

\* One more sequence at the end comes after what the others have joined to (a cloud
\* published last has the last points).
THEOREM FlattenAppend ==
  ASSUME NEW S, NEW s \in Seq(Seq(S)), NEW x \in Seq(S)
  PROVE  FlattenSeq(Append(s, x)) = FlattenSeq(s) \o x
<1>1. FlattenSeq(<<>>) = <<>> BY DEF FlattenSeq
<1>2. FlattenSeq(Append(s, x)) = FlattenSeq(s) \o x
  <2> DEFINE u == Append(s, x)
  <2>1. /\ Len(s) \in Nat /\ Len(u) = Len(s) + 1
        /\ \A i \in 1..Len(s) : u[i] = s[i]
        /\ u[Len(s) + 1] = x
    OBVIOUS
  <2>2. CASE Len(s) = 0
    <3>1. s = <<>> BY <2>2
    <3>2. <<>> \o x = x OBVIOUS
    <3>3. FlattenSeq(s) = <<>> BY <1>1, <3>1, Zenon
    <3> HIDE DEF u
    <3>4. FlattenSeq(u) = x
      BY <2>1, <2>2, FlattenOne
    <3> QED BY <3>2, <3>3, <3>4 DEF u
  <2>3. CASE Len(s) # 0
    <3> HIDE DEF u
    <3>1. FlattenSeq(u) = FlattenSeq(s) \o u[Len(s) + 1]
      BY <2>1, <2>3, FlattenLonger
    <3> QED BY <2>1, <3>1 DEF u
  <2> QED BY <2>1, <2>2, <2>3
<1> QED BY <1>2

-----------------------------------------------------------------------------
(* SumFunction *)

\* The sums of f over the sets of at most k elements of D, as MapThenFoldSet
\* takes them: one element after the other.
SmallSets(D, k) == {s \in SUBSET D : Cardinality(s) <= k}
FirstTaken(s) == CHOOSE x \in s : TRUE
Sums(P, f, g) ==
  g = [s \in P |-> IF s = {} THEN 0 ELSE f[FirstTaken(s)] + g[s \ {FirstTaken(s)}]]

LEMMA SumsAt ==
  ASSUME NEW P, NEW f, NEW g, Sums(P, f, g), NEW s \in P
  PROVE  g[s] = IF s = {} THEN 0 ELSE f[FirstTaken(s)] + g[s \ {FirstTaken(s)}]
  BY Zenon DEF Sums

LEMMA SmallerSet ==
  ASSUME NEW D, IsFiniteSet(D), NEW k \in Nat, NEW s \in SmallSets(D, k + 1), NEW x \in s
  PROVE  s \ {x} \in SmallSets(D, k)
<1>1. s \in SUBSET D /\ Cardinality(s) <= k + 1 BY DEF SmallSets
<1>2. IsFiniteSet(s) BY <1>1, FS_Subset
<1>3. Cardinality(s \ {x}) = Cardinality(s) - 1 /\ Cardinality(s) \in Nat
  BY <1>2, FS_RemoveElement, FS_CardinalityType
<1> QED BY <1>1, <1>3 DEF SmallSets

LEMMA SumsNext ==
  ASSUME NEW D, IsFiniteSet(D), NEW k \in Nat, NEW f, NEW g, Sums(SmallSets(D, k), f, g)
  PROVE  \E h : Sums(SmallSets(D, k + 1), f, h)
<1> DEFINE h == [s \in SmallSets(D, k + 1) |-> IF s = {} THEN 0 ELSE f[FirstTaken(s)] + g[s \ {FirstTaken(s)}]]
<1>1. \A s \in SmallSets(D, k) : s \in SmallSets(D, k + 1) /\ h[s] = g[s]
  <2> TAKE s \in SmallSets(D, k)
  <2>1. s \in SmallSets(D, k + 1)
    <3>1. IsFiniteSet(s) BY FS_Subset DEF SmallSets
    <3>2. Cardinality(s) \in Nat BY <3>1, FS_CardinalityType
    <3> QED BY <3>2 DEF SmallSets
  <2>2. h[s] = IF s = {} THEN 0 ELSE f[FirstTaken(s)] + g[s \ {FirstTaken(s)}] BY <2>1, Zenon
  <2>3. g[s] = IF s = {} THEN 0 ELSE f[FirstTaken(s)] + g[s \ {FirstTaken(s)}] BY SumsAt
  <2> QED BY <2>1, <2>2, <2>3, Zenon
<1>2. ASSUME NEW s \in SmallSets(D, k + 1), s # {}
      PROVE  h[s \ {FirstTaken(s)}] = g[s \ {FirstTaken(s)}]
  <2>1. FirstTaken(s) \in s BY <1>2, Zenon DEF FirstTaken
  <2>2. s \ {FirstTaken(s)} \in SmallSets(D, k) BY <2>1, SmallerSet
  <2> QED BY <1>1, <2>2, Zenon
<1>3. h = [s \in SmallSets(D, k + 1) |-> IF s = {} THEN 0 ELSE f[FirstTaken(s)] + h[s \ {FirstTaken(s)}]]
  <2>1. \A s \in SmallSets(D, k + 1) :
          (IF s = {} THEN 0 ELSE f[FirstTaken(s)] + g[s \ {FirstTaken(s)}])
            = (IF s = {} THEN 0 ELSE f[FirstTaken(s)] + h[s \ {FirstTaken(s)}])
    <3> HIDE DEF h
    <3> QED BY <1>2, Zenon
  <2> QED BY <2>1, Zenon
<1> HIDE DEF h
<1> QED BY <1>3, Zenon DEF Sums

LEMMA SumsExist ==
  ASSUME NEW D, IsFiniteSet(D), NEW k \in Nat, NEW f
  PROVE  \E g : Sums(SmallSets(D, k), f, g)
<1> DEFINE T == {m \in Nat : \E g : Sums(SmallSets(D, m), f, g)}
<1>1. 0 \in T
  <2>1. SmallSets(D, 0) = {{}}
    <3>1. \A s \in SmallSets(D, 0) : s = {}
      <4> TAKE s \in SmallSets(D, 0)
      <4>1. IsFiniteSet(s) /\ Cardinality(s) <= 0 BY FS_Subset DEF SmallSets
      <4>2. Cardinality(s) \in Nat BY <4>1, FS_CardinalityType
      <4> QED BY <4>1, <4>2, FS_EmptySet
    <3>2. {} \in SmallSets(D, 0) BY FS_EmptySet DEF SmallSets
    <3> QED BY <3>1, <3>2
  <2> DEFINE z == [s \in {{}} |-> 0]
  <2>2. z = [s \in {{}} |-> IF s = {} THEN 0 ELSE f[FirstTaken(s)] + z[s \ {FirstTaken(s)}]]
    OBVIOUS
  <2> HIDE DEF z
  <2>3. Sums(SmallSets(D, 0), f, z) BY <2>1, <2>2, Zenon DEF Sums
  <2> QED BY <2>3
<1>2. \A m \in Nat : m \in T => m + 1 \in T
  BY SumsNext
<1>3. Nat \subseteq T
  <2> HIDE DEF T
  <2> QED BY <1>1, <1>2, Induction
<1> QED BY <1>3

LEMMA SumFunctionSums ==
  ASSUME NEW f, IsFiniteSet(DOMAIN f)
  PROVE  \E g : Sums(SUBSET DOMAIN f, f, g) /\ SumFunction(f) = g[DOMAIN f]
<1>1. SUBSET DOMAIN f = SmallSets(DOMAIN f, Cardinality(DOMAIN f)) /\ Cardinality(DOMAIN f) \in Nat
  BY FS_Subset, FS_CardinalityType DEF SmallSets
<1> DEFINE iter[s \in SUBSET DOMAIN f] ==
             IF s = {} THEN 0 ELSE LET x == CHOOSE y \in s : TRUE IN f[x] + iter[s \ {x}]
<1>2. \E g : Sums(SUBSET DOMAIN f, f, g)
  <2>1. \E g : Sums(SmallSets(DOMAIN f, Cardinality(DOMAIN f)), f, g)
    BY <1>1, SumsExist
  <2> QED BY <1>1, <2>1, Zenon
<1>3. Sums(SUBSET DOMAIN f, f, iter)
  BY <1>2 DEF Sums, FirstTaken
<1>4. SumFunction(f) = iter[DOMAIN f]
  BY DEF SumFunction, SumFunctionOnSet, FoldFunctionOnSet, MapThenFoldSet
<1> QED BY <1>3, <1>4

\* Any of the elements may be taken first.
AnyFirst(D, f, g) ==
  \A s \in SUBSET D : g[s] \in Int /\ \A x \in s : g[s] = f[x] + g[s \ {x}]

LEMMA SumsAny ==
  ASSUME NEW D, NEW f, NEW g, IsFiniteSet(D), f \in [D -> Int], Sums(SUBSET D, f, g)
  PROVE  AnyFirst(D, f, g)
<1> DEFINE OneFirst(s) == g[s] \in Int /\ \A x \in s : g[s] = f[x] + g[s \ {x}]
           T == {k \in Nat : \A s \in SmallSets(D, k) : OneFirst(s)}
<1>1. 0 \in T
  <2> SUFFICES ASSUME NEW s \in SmallSets(D, 0) PROVE OneFirst(s) OBVIOUS
  <2>1. s \in SUBSET D /\ IsFiniteSet(s) /\ Cardinality(s) <= 0 BY FS_Subset DEF SmallSets
  <2>2. Cardinality(s) \in Nat BY <2>1, FS_CardinalityType
  <2>3. s = {} BY <2>1, <2>2, FS_EmptySet
  <2>4. g[s] = 0 BY <2>1, <2>3, SumsAt
  <2> QED BY <2>3, <2>4
<1>2. ASSUME NEW k \in Nat, k \in T PROVE k + 1 \in T
  <2> SUFFICES ASSUME NEW s \in SmallSets(D, k + 1) PROVE OneFirst(s) OBVIOUS
  <2>1. s \in SUBSET D BY DEF SmallSets
  <2>2. CASE s = {}
    <3>1. g[s] = 0 BY <2>1, <2>2, SumsAt
    <3> QED BY <2>2, <3>1
  <2>3. CASE s # {}
    <3> DEFINE c == FirstTaken(s)
    <3>1. c \in s BY <2>3, Zenon DEF FirstTaken
    <3>2. g[s] = f[c] + g[s \ {c}]
      <4>1. g[s] = IF s = {} THEN 0 ELSE f[FirstTaken(s)] + g[s \ {FirstTaken(s)}]
        BY <2>1, SumsAt
      <4> QED BY <2>3, <4>1, Zenon
    <3> HIDE DEF c
    <3>3. \A x \in s : s \ {x} \in SmallSets(D, k) BY SmallerSet
    <3>4. \A x \in s : OneFirst(s \ {x}) BY <1>2, <3>3
    <3>5. \A x \in s : f[x] \in Int BY <2>1
    <3>6. g[s] \in Int
      <4>1. f[c] \in Int /\ g[s \ {c}] \in Int BY <3>1, <3>4, <3>5
      <4> QED BY <3>2, <4>1
    <3>7. ASSUME NEW x \in s PROVE g[s] = f[x] + g[s \ {x}]
      <4>1. CASE x = c BY <3>2, <4>1
      <4>2. CASE x # c
        <5>1. x \in s \ {c} /\ c \in s \ {x} BY <3>1, <4>2
        <5>2. g[s \ {c}] = f[x] + g[(s \ {c}) \ {x}] BY <3>1, <3>4, <5>1
        <5>3. g[s \ {x}] = f[c] + g[(s \ {x}) \ {c}] BY <3>4, <5>1
        <5>4. (s \ {c}) \ {x} = (s \ {x}) \ {c} OBVIOUS
        <5> DEFINE a == f[x]
                   b == f[c]
                   r == g[(s \ {x}) \ {c}]
        <5>5. a \in Int /\ b \in Int BY <3>1, <3>5
        <5>6. r \in Int
          <6>1. (s \ {x}) \ {c} \in SmallSets(D, k)
            <7>1. s \ {x} \in SmallSets(D, k) BY <3>3
            <7>2. (s \ {x}) \ {c} \subseteq s \ {x} /\ s \ {x} \subseteq D BY <7>1 DEF SmallSets
            <7>3. IsFiniteSet(s \ {x}) BY <7>2, FS_Subset
            <7>4. Cardinality((s \ {x}) \ {c}) <= Cardinality(s \ {x}) /\ Cardinality(s \ {x}) \in Nat
                  /\ Cardinality((s \ {x}) \ {c}) \in Nat
              BY <7>2, <7>3, FS_Subset, FS_CardinalityType
            <7>5. Cardinality(s \ {x}) <= k BY <7>1 DEF SmallSets
            <7> QED BY <7>2, <7>4, <7>5 DEF SmallSets
          <6> QED BY <1>2, <6>1
        <5>7. g[s] = b + (a + r) BY <3>2, <5>2, <5>4
        <5>8. g[s \ {x}] = b + r BY <5>3
        <5> HIDE DEF a, b, r
        <5>9. b + (a + r) = a + (b + r) BY <5>5, <5>6
        <5> QED BY <5>7, <5>8, <5>9 DEF a
      <4> QED BY <4>1, <4>2
    <3> QED BY <3>6, <3>7
  <2> QED BY <2>2, <2>3
<1>3. Nat \subseteq T
  <2> HIDE DEF T
  <2> QED BY <1>1, <1>2, Induction
<1>4. ASSUME NEW s \in SUBSET D PROVE OneFirst(s)
  <2>1. IsFiniteSet(s) BY FS_Subset
  <2>2. Cardinality(s) \in Nat BY <2>1, FS_CardinalityType
  <2>3. s \in SmallSets(D, Cardinality(s)) BY <2>2 DEF SmallSets
  <2> QED BY <1>3, <2>2, <2>3
<1> QED BY <1>4 DEF AnyFirst

\* What adds up the steps of f one by one (a clock that each sample moves on) ends
\* with SumFunction(f) more than it began with.
THEOREM SumSteps ==
  ASSUME NEW n \in Nat, NEW f \in [1..n -> Int], NEW p \in [0..n -> Int],
         \A i \in 1..n : p[i] = p[i - 1] + f[i]
  PROVE  SumFunction(f) = p[n] - p[0]
<1>1. IsFiniteSet(1..n) /\ DOMAIN f = 1..n BY FS_Interval
<1>2. PICK g : Sums(SUBSET (1..n), f, g) /\ SumFunction(f) = g[1..n]
  BY <1>1, SumFunctionSums
<1>3. \A s \in SUBSET (1..n) : g[s] \in Int /\ \A x \in s : g[s] = f[x] + g[s \ {x}]
  <2>1. AnyFirst(1..n, f, g) BY <1>1, <1>2, SumsAny
  <2> QED BY <2>1, Zenon DEF AnyFirst
<1> DEFINE T == {i \in Nat : i <= n => g[1..i] = p[i] - p[0]}
<1>4. 0 \in T
  <2>1. {} \in SUBSET (1..n) BY Zenon
  <2>2. g[{}] = 0 BY <1>2, <2>1, Zenon DEF Sums
  <2>3. 1..0 = {} OBVIOUS
  <2>4. p[0] \in Int OBVIOUS
  <2> QED BY <2>2, <2>3, <2>4
<1>5. ASSUME NEW i \in Nat, i \in T PROVE i + 1 \in T
  <2> SUFFICES ASSUME i + 1 <= n PROVE g[1..(i + 1)] = p[i + 1] - p[0] OBVIOUS
  <2>1. /\ 1..(i + 1) \in SUBSET (1..n) /\ i + 1 \in 1..(i + 1) /\ i + 1 \in 1..n
        /\ (1..(i + 1)) \ {i + 1} = 1..i
    <3>1. \A k \in 1..(i + 1) : k \in 1..n OBVIOUS
    <3>2. i + 1 \in 1..(i + 1) /\ i + 1 \in 1..n OBVIOUS
    <3>3. (1..(i + 1)) \ {i + 1} = 1..i
      <4>1. \A k \in 1..i : k \in 1..(i + 1) /\ k # i + 1 OBVIOUS
      <4>2. \A k \in 1..(i + 1) : k # i + 1 => k \in 1..i OBVIOUS
      <4> QED BY <4>1, <4>2, Zenon
    <3>4. 1..(i + 1) \in SUBSET (1..n) BY <3>1, Zenon
    <3> QED BY <3>2, <3>3, <3>4
  <2>2. g[1..(i + 1)] = f[i + 1] + g[1..i] BY <1>3, <2>1
  <2>3. p[i + 1] = p[i + 1 - 1] + f[i + 1] /\ i + 1 - 1 = i BY <2>1
  <2>4. p[i] \in Int /\ p[0] \in Int /\ f[i + 1] \in Int BY <2>1
  <2>5. g[1..i] = p[i] - p[0] BY <1>5
  <2> QED BY <2>2, <2>3, <2>4, <2>5
<1>6. Nat \subseteq T
  <2> HIDE DEF T
  <2> QED BY <1>4, <1>5, Induction
<1> QED BY <1>2, <1>6

LEMMA PrefixSums ==
  ASSUME NEW n \in Nat, NEW f \in [1..n -> Int]
  PROVE  \E p \in [0..n -> Int] : p[0] = 0 /\ \A i \in 1..n : p[i] = p[i - 1] + f[i]
<1> DEFINE Sum(m, p) == p \in [0..m -> Int] /\ p[0] = 0 /\ \A i \in 1..m : p[i] = p[i - 1] + f[i]
           T == {m \in Nat : m <= n => \E p : Sum(m, p)}
<1>1. 0 \in T
  <2> DEFINE z == [i \in 0..0 |-> 0]
  <2>1. Sum(0, z) OBVIOUS
  <2> HIDE DEF Sum, z
  <2> QED BY <2>1
<1>2. ASSUME NEW m \in Nat, m \in T PROVE m + 1 \in T
  <2> SUFFICES ASSUME m + 1 <= n PROVE \E p : Sum(m + 1, p) OBVIOUS
  <2>1. PICK p : Sum(m, p) BY <1>2
  <2> DEFINE h == [i \in 0..(m + 1) |-> IF i = m + 1 THEN p[m] + f[m + 1] ELSE p[i]]
  <2>2. f[m + 1] \in Int /\ p[m] \in Int
    <3>1. m + 1 \in 1..n /\ m \in 0..m OBVIOUS
    <3> QED BY <2>1, <3>1
  <2>3. h \in [0..(m + 1) -> Int] /\ h[0] = 0
    <3>1. \A i \in 0..(m + 1) : i # m + 1 => i \in 0..m OBVIOUS
    <3>2. 0 \in 0..(m + 1) /\ 0 # m + 1 OBVIOUS
    <3> QED BY <2>1, <2>2, <3>1, <3>2
  <2>4. ASSUME NEW i \in 1..(m + 1) PROVE h[i] = h[i - 1] + f[i]
    <3>1. i \in 0..(m + 1) /\ i - 1 \in 0..(m + 1) /\ i - 1 # m + 1 OBVIOUS
    <3>2. h[i - 1] = p[i - 1] BY <3>1
    <3>3. CASE i = m + 1
      <4>1. h[i] = p[m] + f[m + 1] /\ i - 1 = m BY <3>1, <3>3
      <4> HIDE DEF h
      <4> QED BY <3>2, <3>3, <4>1
    <3>4. CASE i # m + 1
      <4>1. i \in 1..m /\ h[i] = p[i] BY <3>1, <3>4
      <4> HIDE DEF h
      <4> QED BY <2>1, <3>2, <4>1
    <3> QED BY <3>3, <3>4
  <2> HIDE DEF h
  <2>5. Sum(m + 1, h) BY <2>3, <2>4
  <2> QED BY <2>5
<1>3. Nat \subseteq T
  <2> HIDE DEF T
  <2> QED BY <1>1, <1>2, Induction
<1>4. \E p : Sum(n, p)
  <2> HIDE DEF Sum
  <2>1. n \in T BY <1>3
  <2> QED BY <2>1
<1> QED BY <1>4

\* The sum of numbers that are not 0 is at least how many there are (a cloud of blocks
\* with points has points), and the sum of n equal numbers is n times one.
THEOREM SumBounds ==
  ASSUME NEW n \in Nat, NEW f \in [1..n -> Nat]
  PROVE  /\ SumFunction(f) \in Nat
         /\ (\A i \in 1..n : f[i] # 0) => SumFunction(f) >= n
         /\ \A c \in Nat : (\A i \in 1..n : f[i] = c) => SumFunction(f) = n * c
<1>1. f \in [1..n -> Int] OBVIOUS
<1>2. PICK p \in [0..n -> Int] : p[0] = 0 /\ \A i \in 1..n : p[i] = p[i - 1] + f[i]
  BY <1>1, PrefixSums
<1>3. SumFunction(f) = p[n] - p[0] /\ p[n] \in Int
  <2>1. n \in 0..n OBVIOUS
  <2> QED BY <1>1, <1>2, <2>1, SumSteps
<1>4. SumFunction(f) = p[n] BY <1>2, <1>3
<1> DEFINE T == {i \in Nat : i <= n => p[i] \in Nat}
           U == {i \in Nat : i <= n => p[i] >= i}
           V(c) == {i \in Nat : i <= n => p[i] = i * c}
<1>5. ASSUME NEW i \in Nat, i + 1 <= n PROVE p[i + 1] = p[i] + f[i + 1] /\ f[i + 1] \in Nat /\ p[i] \in Int
  <2>1. i + 1 \in 1..n /\ i + 1 - 1 = i /\ i \in 0..n BY <1>5
  <2> QED BY <1>2, <2>1
<1>6. p[n] \in Nat
  <2>1. 0 \in T BY <1>2
  <2>2. ASSUME NEW i \in Nat, i \in T PROVE i + 1 \in T
    <3> SUFFICES ASSUME i + 1 <= n PROVE p[i + 1] \in Nat OBVIOUS
    <3>1. p[i] \in Nat BY <2>2
    <3> QED BY <1>5, <3>1
  <2>3. Nat \subseteq T
    <3> HIDE DEF T
    <3> QED BY <2>1, <2>2, Induction
  <2> QED BY <2>3
<1>7. ASSUME \A i \in 1..n : f[i] # 0 PROVE p[n] >= n
  <2>1. 0 \in U BY <1>2
  <2>2. ASSUME NEW i \in Nat, i \in U PROVE i + 1 \in U
    <3> SUFFICES ASSUME i + 1 <= n PROVE p[i + 1] >= i + 1 OBVIOUS
    <3>1. p[i] >= i BY <2>2
    <3>2. f[i + 1] # 0
      <4>1. i + 1 \in 1..n OBVIOUS
      <4> QED BY <1>7, <4>1
    <3> QED BY <1>5, <3>1, <3>2
  <2>3. Nat \subseteq U
    <3> HIDE DEF U
    <3> QED BY <2>1, <2>2, Induction
  <2> QED BY <2>3
<1>8. ASSUME NEW c \in Nat, \A i \in 1..n : f[i] = c PROVE p[n] = n * c
  <2>1. 0 \in V(c) BY <1>2
  <2>2. ASSUME NEW i \in Nat, i \in V(c) PROVE i + 1 \in V(c)
    <3> SUFFICES ASSUME i + 1 <= n PROVE p[i + 1] = (i + 1) * c OBVIOUS
    <3>1. p[i] = i * c BY <2>2
    <3>2. f[i + 1] = c
      <4>1. i + 1 \in 1..n OBVIOUS
      <4> QED BY <1>8, <4>1
    <3>3. (i + 1) * c = i * c + c BY SMTT(20)
    <3> QED BY <1>5, <3>1, <3>2, <3>3
  <2>3. Nat \subseteq V(c)
    <3> HIDE DEF V
    <3> QED BY <2>1, <2>2, Induction
  <2> QED BY <2>3
<1> QED BY <1>3, <1>4, <1>6, <1>7, <1>8
===============================================================================
