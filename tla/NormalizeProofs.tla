--------------------------- MODULE NormalizeProofs ---------------------------
(****************************************************************************)
(* Proofs about module Normalize, for all headers that the parser can hand  *)
(* over (InputsAssumption), however many and however long:                  *)
(*                                                                          *)
(*   InvariantHolds           IInv is an invariant                          *)
(*   DeclaredHandles          so is HandlesDeclared                         *)
(*   KindsAlwaysFit           so is KindsFit                                *)
(*   HandlesAlwaysNameClasses so is HandlesNameClasses                      *)
(*   AllAccountedFor          so is DeclarationsAccountedFor                *)
(*   ClassesAlwaysPass        so is ClassesNeverAbort                       *)
(*                                                                          *)
(* IInv says of the header at hand (Current) and of those that are finished *)
(* (Finished) what has become of their declarations so far (Progress): each *)
(* type of a wrapper is well formed, and that of a declaration translates   *)
(* one which some header mentions, under the context of the wrapper's own   *)
(* header (Faithful); each declaration before the next one is wrapped with  *)
(* its full list of parameters, or reported as skipped (CoversDeclaration); *)
(* each wrapper is of such a declaration (OfDeclaration), and no two are of *)
(* one call (OneEach).  Handles that accessors of arrays take are taken by  *)
(* a pointer, too (Backed), which the list of handles sees.                 *)
(****************************************************************************)
EXTENDS Normalize, Integers, WellFoundedInduction, TLAPS

------------------------------------------------------------------------------
(* Sequences, laid one after the other.                                    *)

\* A set that holds 0, and the next number with each, holds all.
LEMMA AllNumbers ==
    ASSUME NEW T, 0 \in T, \A m \in Nat : m \in T => m + 1 \in T
    PROVE  \A m \in Nat : m \in T
<1> DEFINE R == OpToRel(<, Nat)
           U == {m \in Nat : m \notin T}
<1>1. \A a, b \in Nat : a < b => <<a, b>> \in R
  BY DEF OpToRel
<1>2. IsWellFoundedOn(R, Nat)
  BY NatLessThanWellFounded
<1> HIDE DEF R
<1>3. SUFFICES ASSUME U # {} PROVE FALSE
  OBVIOUS
<1>4. PICK i \in U : \A j \in U : ~(<<j, i>> \in R)
  <2>1. U \subseteq Nat
    OBVIOUS
  <2> HIDE DEF U
  <2> QED BY <1>2, <1>3, <2>1, WFMin
<1>5. i \in Nat /\ i # 0 /\ i - 1 \in Nat
  BY <1>4
<1>6. i - 1 \in T
  <2>1. <<i - 1, i>> \in R
    BY <1>1, <1>5
  <2>2. i - 1 \notin U
    BY <1>4, <2>1
  <2> QED BY <1>5, <2>2
<1>7. (i - 1) + 1 \in T
  BY <1>5, <1>6
<1> QED BY <1>4, <1>5, <1>7

\* A sequence is one whatever its elements are.
LEMMA SeqFacts ==
    ASSUME NEW s, IsSeq(s)
    PROVE  /\ Len(s) \in Nat /\ DOMAIN s = 1..Len(s) /\ s = [i \in 1..Len(s) |-> s[i]]
           /\ \A i \in 1..Len(s) : s[i] \in ToSet(s)
           /\ \A e \in ToSet(s) : \E i \in 1..Len(s) : e = s[i]
  BY DEF IsSeq, ToSet

\* What is a function on 1..n is a sequence.
LEMMA FunctionIsSeq ==
    ASSUME NEW n \in Nat, NEW s, DOMAIN s = 1..n, s = [i \in 1..n |-> s[i]]
    PROVE  IsSeq(s) /\ Len(s) = n
<1>1. s \in [1..n -> ToSet(s)]
  BY DEF ToSet
<1> QED BY <1>1 DEF IsSeq

\* Two sequences, one after the other.
LEMMA ConcatFacts ==
    ASSUME NEW s, NEW t, IsSeq(s), IsSeq(t)
    PROVE  /\ IsSeq(s \o t) /\ Len(s \o t) = Len(s) + Len(t)
           /\ \A i \in 1..Len(s) : (s \o t)[i] = s[i]
           /\ \A i \in 1..Len(t) : (s \o t)[Len(s) + i] = t[i]
           /\ ToSet(s \o t) = ToSet(s) \cup ToSet(t)
<1> DEFINE E == ToSet(s) \cup ToSet(t)
           u == s \o t
<1>1. s \in Seq(E) /\ t \in Seq(E)
  BY DEF IsSeq, ToSet
<1>2. /\ u \in Seq(E) /\ Len(u) = Len(s) + Len(t)
      /\ \A i \in 1..Len(s) : u[i] = s[i]
      /\ \A i \in 1..Len(t) : u[Len(s) + i] = t[i]
  BY <1>1
<1>3. IsSeq(u)
  <2> HIDE DEF u
  <2>1. DOMAIN u = 1..Len(u) /\ Len(u) \in Nat /\ u = [i \in 1..Len(u) |-> u[i]]
    BY <1>2
  <2> QED BY <2>1, FunctionIsSeq
<1>4. ASSUME NEW i \in 1..Len(u) PROVE i \in 1..Len(s) \/ (i - Len(s) \in 1..Len(t) /\ i = Len(s) + (i - Len(s)))
  BY <1>1, <1>2
<1>5. \A e \in ToSet(u) : e \in E
  BY <1>1, <1>2 DEF ToSet
<1>6. \A i \in 1..Len(s) : i \in 1..Len(u)
  BY <1>1, <1>2
<1>7. \A i \in 1..Len(t) : Len(s) + i \in 1..Len(u)
  BY <1>1, <1>2
<1>8. DOMAIN u = 1..Len(u) /\ DOMAIN s = 1..Len(s) /\ DOMAIN t = 1..Len(t)
  BY <1>1, <1>2
<1> HIDE DEF u
<1>9. ToSet(s) \subseteq ToSet(u)
  BY <1>2, <1>6, <1>8 DEF ToSet
<1>10. ToSet(t) \subseteq ToSet(u)
  BY <1>2, <1>7, <1>8 DEF ToSet
<1> QED BY <1>2, <1>3, <1>5, <1>9, <1>10 DEF u

\* No two places of s hold elements that R relates.
Apart(s, R) == \A i, j \in DOMAIN s : <<s[i], s[j]>> \in R => i = j

\* Two sequences whose elements are apart under R, and apart from each other, make one that is.
LEMMA ConcatApart ==
    ASSUME NEW s, NEW t, NEW R, IsSeq(s), IsSeq(t), Apart(s, R), Apart(t, R),
           \A a \in ToSet(s), b \in ToSet(t) : <<a, b>> \notin R /\ <<b, a>> \notin R
    PROVE  Apart(s \o t, R)
<1> DEFINE u == s \o t
<1>1. /\ IsSeq(u) /\ Len(u) = Len(s) + Len(t)
      /\ \A i \in 1..Len(s) : u[i] = s[i]
      /\ \A i \in 1..Len(t) : u[Len(s) + i] = t[i]
  BY ConcatFacts
<1>2. /\ Len(s) \in Nat /\ DOMAIN s = 1..Len(s) /\ \A i \in 1..Len(s) : s[i] \in ToSet(s)
      /\ Len(t) \in Nat /\ DOMAIN t = 1..Len(t) /\ \A i \in 1..Len(t) : t[i] \in ToSet(t)
      /\ DOMAIN u = 1..Len(u)
  BY <1>1, SeqFacts
<1> HIDE DEF u
<1> DEFINE k(i) == i - Len(s)
<1>3. \A i \in 1..Len(u) : \/ i \in 1..Len(s) /\ u[i] = s[i]
                           \/ k(i) \in 1..Len(t) /\ u[i] = t[k(i)]
  <2>1. \A i \in 1..Len(u) : i \in 1..Len(s) \/ (k(i) \in 1..Len(t) /\ i = Len(s) + k(i))
    BY <1>1, <1>2
  <2> QED BY <1>1, <2>1
<1>4. ASSUME NEW i \in 1..Len(u), NEW j \in 1..Len(u), <<u[i], u[j]>> \in R PROVE i = j
  <2>1. CASE i \in 1..Len(s) /\ u[i] = s[i] /\ j \in 1..Len(s) /\ u[j] = s[j]
    BY <1>2, <1>4, <2>1 DEF Apart
  <2>2. CASE k(i) \in 1..Len(t) /\ u[i] = t[k(i)] /\ k(j) \in 1..Len(t) /\ u[j] = t[k(j)]
    <3>1. k(i) = k(j)
      BY <1>2, <1>4, <2>2 DEF Apart
    <3> QED BY <3>1, <1>2
  <2>3. CASE i \in 1..Len(s) /\ u[i] = s[i] /\ k(j) \in 1..Len(t) /\ u[j] = t[k(j)]
    BY <1>2, <1>4, <2>3
  <2>4. CASE j \in 1..Len(s) /\ u[j] = s[j] /\ k(i) \in 1..Len(t) /\ u[i] = t[k(i)]
    BY <1>2, <1>4, <2>4
  <2> QED BY <1>3, <2>1, <2>2, <2>3, <2>4
<1> QED BY <1>2, <1>4 DEF Apart, u

\* The first sequences of seqs, one after the other, each as it is reached.
Glued(f, seqs, n) ==
    f = [i \in 1 .. n |-> IF i = 1 THEN seqs[i] ELSE f[i - 1] \o seqs[i]]

\* How the concatenation of sequences grows, one of them at a time.
LEMMA GluedFacts ==
    ASSUME NEW f, NEW seqs, NEW n \in Nat, Glued(f, seqs, n)
    PROVE  /\ 1 \in 1..n => f[1] = seqs[1]
           /\ \A m \in 1..n : m + 1 \in 1..n => f[m + 1] = f[m] \o seqs[m + 1]
<1> DEFINE e(i) == IF i = 1 THEN seqs[i] ELSE f[i - 1] \o seqs[i]
           g == [i \in 1..n |-> e(i)]
<1>1. f = g
  BY DEF Glued
<1>2. \A i \in 1..n : g[i] = e(i)
  OBVIOUS
<1> HIDE DEF g
<1>3. \A i \in 1..n : f[i] = e(i)
  BY <1>1, <1>2
<1>4. \A m \in 1..n : (m + 1) - 1 = m /\ m + 1 # 1
  OBVIOUS
<1>5. ASSUME NEW m \in 1..n, m + 1 \in 1..n PROVE f[m + 1] = f[m] \o seqs[m + 1]
  <2>1. f[m + 1] = f[(m + 1) - 1] \o seqs[m + 1]
    BY <1>3, <1>4, <1>5
  <2> QED BY <2>1, <1>4
<1> QED BY <1>3, <1>5

\* There is such a function for every number of sequences: the least counterexample would have one.
LEMMA SomeGlued ==
    ASSUME NEW seqs, NEW n \in Nat
    PROVE  \E f : Glued(f, seqs, n)
<1> DEFINE T == {m \in Nat : \E f : Glued(f, seqs, m)}
<1>1. 0 \in T
  <2> DEFINE f == [i \in 1 .. 0 |-> IF i = 1 THEN seqs[i] ELSE << >>]
  <2>1. Glued(f, seqs, 0)
    BY DEF Glued
  <2> QED BY <2>1
<1>2. ASSUME NEW m \in Nat, m \in T PROVE m + 1 \in T
  <2>1. PICK f : Glued(f, seqs, m)
    BY <1>2
  <2> DEFINE g == [i \in 1 .. m + 1 |->
                      IF i = 1 THEN seqs[i] ELSE f[i - 1] \o seqs[i]]
  <2>2. ASSUME NEW i \in 1..m PROVE g[i] = f[i]
    <3>1. CASE i = 1
      <4>1. f[i] = seqs[i]
        BY <2>1, <3>1, GluedFacts
      <4> QED BY <3>1, <4>1
    <3>2. CASE i # 1
      <4>1. i - 1 \in 1..m /\ (i - 1) + 1 = i
        BY <3>2
      <4>2. f[(i - 1) + 1] = f[i - 1] \o seqs[(i - 1) + 1]
        BY <2>1, <4>1, GluedFacts
      <4>3. f[i] = f[i - 1] \o seqs[i]
        BY <4>1, <4>2
      <4>4. i \in 1..m + 1
        OBVIOUS
      <4> QED BY <3>2, <4>3, <4>4
    <3> QED BY <3>1, <3>2
  <2>3. \A i \in 1..m + 1 : i # 1 => g[i - 1] = f[i - 1]
    <3> HIDE DEF g
    <3>1. \A i \in 1..m + 1 : i # 1 => i - 1 \in 1..m
      OBVIOUS
    <3> QED BY <2>2, <3>1
  <2>4. g = [i \in 1 .. m + 1 |-> IF i = 1 THEN seqs[i] ELSE g[i - 1] \o seqs[i]]
    BY <2>3
  <2> HIDE DEF g
  <2>5. Glued(g, seqs, m + 1)
    BY <2>4 DEF Glued
  <2> QED BY <2>5
<1> HIDE DEF T
<1>3. n \in T
  BY <1>1, <1>2, AllNumbers
<1> QED BY <1>3 DEF T

\* FlattenSeq is the last of them.
LEMMA FlattenIsGlued ==
    ASSUME NEW seqs, IsSeq(seqs), Len(seqs) # 0
    PROVE  \E f : Glued(f, seqs, Len(seqs)) /\ FlattenSeq(seqs) = f[Len(seqs)]
<1>1. \E f : Glued(f, seqs, Len(seqs))
  BY SeqFacts, SomeGlued
<1>2. FlattenSeq(seqs) = (CHOOSE f : Glued(f, seqs, Len(seqs)))[Len(seqs)]
  BY DEF FlattenSeq, Glued
<1> QED BY <1>1, <1>2

\* FlattenSeq of sequences is a sequence of what is in them.
LEMMA FlattenFacts ==
    ASSUME NEW seqs, IsSeq(seqs), \A i \in DOMAIN seqs : IsSeq(seqs[i])
    PROVE  /\ IsSeq(FlattenSeq(seqs))
           /\ ToSet(FlattenSeq(seqs)) = UNION {ToSet(seqs[i]) : i \in DOMAIN seqs}
<1>1. Len(seqs) \in Nat /\ DOMAIN seqs = 1..Len(seqs)
  BY SeqFacts
<1>2. CASE Len(seqs) = 0
  <2>1. FlattenSeq(seqs) = seqs
    BY <1>2 DEF FlattenSeq
  <2> QED BY <1>1, <1>2, <2>1 DEF ToSet
<1>3. CASE Len(seqs) # 0
  <2>1. PICK f : Glued(f, seqs, Len(seqs)) /\ FlattenSeq(seqs) = f[Len(seqs)]
    BY <1>3, FlattenIsGlued
  <2>g. /\ 1 \in 1..Len(seqs) => f[1] = seqs[1]
        /\ \A m \in 1..Len(seqs) : m + 1 \in 1..Len(seqs) => f[m + 1] = f[m] \o seqs[m + 1]
    <3> DEFINE n == Len(seqs)
    <3>1. n \in Nat /\ Glued(f, seqs, n)
      BY <1>1, <2>1
    <3> HIDE DEF n
    <3>2. /\ 1 \in 1..n => f[1] = seqs[1]
          /\ \A m \in 1..n : m + 1 \in 1..n => f[m + 1] = f[m] \o seqs[m + 1]
      BY <3>1, GluedFacts
    <3> QED BY <3>2 DEF n
  <2> DEFINE T == {m \in Nat : m \in 1..Len(seqs) =>
                      IsSeq(f[m]) /\ ToSet(f[m]) = UNION {ToSet(seqs[i]) : i \in 1..m}}
  <2>2. 0 \in T
    OBVIOUS
  <2>3. ASSUME NEW m \in Nat, m \in T PROVE m + 1 \in T
    <3>1. SUFFICES ASSUME m + 1 \in 1..Len(seqs)
          PROVE  /\ IsSeq(f[m + 1])
                 /\ ToSet(f[m + 1]) = UNION {ToSet(seqs[i]) : i \in 1..(m + 1)}
      OBVIOUS
    <3>2. IsSeq(seqs[m + 1])
      BY <1>1, <3>1
    <3>3. CASE m = 0
      <4>1. f[m + 1] = seqs[m + 1]
        BY <1>1, <2>g, <3>1, <3>3
      <4>2. 1..(m + 1) = {m + 1}
        BY <3>3
      <4> QED BY <3>2, <4>1, <4>2
    <3>4. CASE m # 0
      <4>1. f[m + 1] = f[m] \o seqs[m + 1]
        <5>1. m \in 1..Len(seqs)
          BY <1>1, <2>3, <3>1, <3>4
        <5> QED BY <2>g, <3>1, <5>1
      <4>2. IsSeq(f[m]) /\ ToSet(f[m]) = UNION {ToSet(seqs[i]) : i \in 1..m}
        BY <1>1, <2>3, <3>1, <3>4
      <4>3. IsSeq(f[m + 1]) /\ ToSet(f[m + 1]) = ToSet(f[m]) \cup ToSet(seqs[m + 1])
        BY <3>2, <4>1, <4>2, ConcatFacts
      <4>4. 1..(m + 1) = (1..m) \cup {m + 1}
        OBVIOUS
      <4> QED BY <4>2, <4>3, <4>4
    <3> QED BY <3>3, <3>4
  <2> HIDE DEF T
  <2>4. Len(seqs) \in T
    BY <1>1, <2>2, <2>3, AllNumbers
  <2> QED BY <1>1, <1>3, <2>1, <2>4 DEF T
<1> QED BY <1>2, <1>3

\* What is apart in each of them and between any two is apart in all.
LEMMA FlattenApart ==
    ASSUME NEW seqs, NEW R, IsSeq(seqs),
           \A i \in DOMAIN seqs : IsSeq(seqs[i]) /\ Apart(seqs[i], R),
           \A i, j \in DOMAIN seqs : i # j =>
               \A a \in ToSet(seqs[i]), b \in ToSet(seqs[j]) : <<a, b>> \notin R
    PROVE  Apart(FlattenSeq(seqs), R)
<1>1. Len(seqs) \in Nat /\ DOMAIN seqs = 1..Len(seqs)
  BY SeqFacts
<1>2. CASE Len(seqs) = 0
  <2>1. FlattenSeq(seqs) = seqs
    BY <1>2 DEF FlattenSeq
  <2> QED BY <1>1, <1>2, <2>1 DEF Apart
<1>3. CASE Len(seqs) # 0
  <2>1. PICK f : Glued(f, seqs, Len(seqs)) /\ FlattenSeq(seqs) = f[Len(seqs)]
    BY <1>3, FlattenIsGlued
  <2>g. /\ 1 \in 1..Len(seqs) => f[1] = seqs[1]
        /\ \A m \in 1..Len(seqs) : m + 1 \in 1..Len(seqs) => f[m + 1] = f[m] \o seqs[m + 1]
    <3> DEFINE n == Len(seqs)
    <3>1. n \in Nat /\ Glued(f, seqs, n)
      BY <1>1, <2>1
    <3> HIDE DEF n
    <3>2. /\ 1 \in 1..n => f[1] = seqs[1]
          /\ \A m \in 1..n : m + 1 \in 1..n => f[m + 1] = f[m] \o seqs[m + 1]
      BY <3>1, GluedFacts
    <3> QED BY <3>2 DEF n
  <2> DEFINE T == {m \in Nat : m \in 1..Len(seqs) =>
                      /\ IsSeq(f[m]) /\ Apart(f[m], R)
                      /\ \A e \in ToSet(f[m]) : \E i \in 1..m : e \in ToSet(seqs[i])}
  <2>2. 0 \in T
    OBVIOUS
  <2>3. ASSUME NEW m \in Nat, m \in T PROVE m + 1 \in T
    <3>1. SUFFICES ASSUME m + 1 \in 1..Len(seqs)
          PROVE  /\ IsSeq(f[m + 1]) /\ Apart(f[m + 1], R)
                 /\ \A e \in ToSet(f[m + 1]) : \E i \in 1..(m + 1) : e \in ToSet(seqs[i])
      OBVIOUS
    <3>2. IsSeq(seqs[m + 1]) /\ Apart(seqs[m + 1], R)
      BY <1>1, <3>1
    <3>3. CASE m = 0
      <4>1. f[m + 1] = seqs[m + 1]
        BY <1>1, <2>g, <3>1, <3>3
      <4>2. m + 1 \in 1..(m + 1)
        OBVIOUS
      <4> QED BY <3>2, <4>1, <4>2
    <3>4. CASE m # 0
      <4>1. f[m + 1] = f[m] \o seqs[m + 1]
        <5>1. m \in 1..Len(seqs)
          BY <1>1, <2>3, <3>1, <3>4
        <5> QED BY <2>g, <3>1, <5>1
      <4>2. /\ IsSeq(f[m]) /\ Apart(f[m], R)
            /\ \A e \in ToSet(f[m]) : \E i \in 1..m : e \in ToSet(seqs[i])
        BY <1>1, <2>3, <3>1, <3>4
      <4>3. IsSeq(f[m + 1]) /\ ToSet(f[m + 1]) = ToSet(f[m]) \cup ToSet(seqs[m + 1])
        BY <3>2, <4>1, <4>2, ConcatFacts
      <4>4. /\ \A i \in 1..m : i \in 1..(m + 1) /\ i \in DOMAIN seqs /\ i # m + 1
            /\ m + 1 \in 1..(m + 1) /\ m + 1 \in DOMAIN seqs
        BY <1>1, <3>1
      <4>5. \A a \in ToSet(f[m]), b \in ToSet(seqs[m + 1]) : <<a, b>> \notin R /\ <<b, a>> \notin R
        BY <4>2, <4>4
      <4>6. Apart(f[m + 1], R)
        BY <3>2, <4>1, <4>2, <4>5, ConcatApart
      <4> QED BY <4>2, <4>3, <4>4, <4>6
    <3> QED BY <3>3, <3>4
  <2> HIDE DEF T
  <2>4. Len(seqs) \in T
    BY <1>1, <2>2, <2>3, AllNumbers
  <2> QED BY <1>1, <1>3, <2>1, <2>4 DEF T
<1> QED BY <1>2, <1>3

------------------------------------------------------------------------------
(* Types.                                                                  *)

\* The place SelectInSeq finds is the first.
LEMMA LeastPlace ==
    ASSUME NEW n \in Nat, NEW T, T \subseteq 1..n, T # {}
    PROVE  Min(T) \in T /\ \A j \in T : Min(T) <= j
<1> DEFINE R == OpToRel(<, Nat)
<1>1. \A a, b \in Nat : a < b => <<a, b>> \in R
  BY DEF OpToRel
<1>2. IsWellFoundedOn(R, Nat)
  BY NatLessThanWellFounded
<1>3. T \subseteq Nat
  OBVIOUS
<1> HIDE DEF R
<1>4. PICK i \in T : \A j \in T : ~(<<j, i>> \in R)
  BY <1>2, <1>3, WFMin
<1>5. \A j \in T : ~(j < i)
  BY <1>1, <1>3, <1>4
<1>6. \A j \in T : i <= j
  BY <1>3, <1>5
<1> QED BY <1>6 DEF Min

\* Of five attempts, the first that is a type.
LEMMA OneOfFive ==
    ASSUME NEW a, NEW b, NEW c, NEW d, NEW e
    PROVE  OneOf(<<a, b, c, d, e>>) =
             IF a # NoType THEN a ELSE IF b # NoType THEN b ELSE IF c # NoType THEN c
             ELSE IF d # NoType THEN d ELSE e
<1> DEFINE s == <<a, b, c, d, e>>
           T == {i \in 1..Len(s) : s[i] # NoType}
<1>1. SelectInSeq(s, LAMBDA t : t # NoType) = IF T # {} THEN Min(T) ELSE 0
  BY DEF SelectInSeq
<1>2. Len(s) = 5 /\ s[1] = a /\ s[2] = b /\ s[3] = c /\ s[4] = d /\ s[5] = e
  OBVIOUS
<1>3. OneOf(s) = IF T = {} THEN NoType ELSE s[Min(T)]
  <2>1. T # {} => Min(T) # 0
    <3>1. T \subseteq 1..5 /\ 5 \in Nat
      BY <1>2
    <3> HIDE DEF T
    <3>2. T # {} => Min(T) \in T
      BY <3>1, LeastPlace
    <3> QED BY <3>1, <3>2
  <2> HIDE DEF T, s
  <2> QED BY <1>1, <2>1 DEF OneOf
<1> HIDE DEF s
<1>4. T \subseteq 1..5 /\ 5 \in Nat /\ 1..5 = {1, 2, 3, 4, 5}
  BY <1>2
<1>5. /\ 1 \in T <=> a # NoType
      /\ 2 \in T <=> b # NoType
      /\ 3 \in T <=> c # NoType
      /\ 4 \in T <=> d # NoType
      /\ 5 \in T <=> e # NoType
  BY <1>2
<1> HIDE DEF T
<1>6. T # {} => Min(T) \in T /\ \A j \in T : Min(T) <= j
  BY <1>4, LeastPlace
<1>7. T \subseteq {1, 2, 3, 4, 5} /\ (T # {} => Min(T) \in {1, 2, 3, 4, 5})
  BY <1>4, <1>6
<1>8. 1 \in T => Min(T) = 1
  BY <1>6, <1>7
<1>9. 1 \notin T /\ 2 \in T => Min(T) = 2
  BY <1>6, <1>7
<1>10. 1 \notin T /\ 2 \notin T /\ 3 \in T => Min(T) = 3
  BY <1>6, <1>7
<1>11. 1 \notin T /\ 2 \notin T /\ 3 \notin T /\ 4 \in T => Min(T) = 4
  BY <1>6, <1>7
<1>12. 1 \notin T /\ 2 \notin T /\ 3 \notin T /\ 4 \notin T /\ 5 \in T => Min(T) = 5
  BY <1>6, <1>7
<1>13. 1 \notin T /\ 2 \notin T /\ 3 \notin T /\ 4 \notin T /\ 5 \notin T => T = {}
  BY <1>7
<1>14. OneOf(s) =
         IF a # NoType THEN a ELSE IF b # NoType THEN b ELSE IF c # NoType THEN c
         ELSE IF d # NoType THEN d ELSE e
  BY <1>2, <1>3, <1>5, <1>8, <1>9, <1>10, <1>11, <1>12, <1>13
<1> QED BY <1>14 DEF s

\* A type that is no double pointer, spelling by spelling.
LEMMA NormalizeSteps ==
    ASSUME NEW t, NEW known,
           ~("double" \in {t.display.shape, t.canonical.shape})
    PROVE  LET e == ResolvedEnum(t.display, t.canonical, known.enums)
               shown == KnownRecordType(t.display, known.records)
               meant == KnownRecordType(t.canonical, known.records)
               seen == ByDisplay(t.display, t.canonical, known.callbacks)
               plain == NormalizeType(t.canonical, known.callbacks)
               u == NormalizeWithCanonical(t, known)
               same == SameShape(t.display, t.canonical)
           IN  \/ e # NoSpelling /\ u = IrType("Enum", e, NoHandle)
               \/ e = NoSpelling /\ shown # NoType /\ u = shown
               \/ /\ e = NoSpelling /\ shown = NoType /\ meant # NoType /\ same
                  /\ u = [meant EXCEPT !.cpp.const = t.display.const]
               \/ /\ e = NoSpelling /\ shown = NoType /\ (meant = NoType \/ ~same)
                  /\ seen # NoType /\ u = seen
               \/ /\ e = NoSpelling /\ shown = NoType /\ (meant = NoType \/ ~same) /\ seen = NoType
                  /\ plain # NoType /\ same /\ u = [plain EXCEPT !.cpp = t.display]
               \/ /\ e = NoSpelling /\ shown = NoType /\ (meant = NoType \/ ~same) /\ seen = NoType
                  /\ (plain = NoType \/ ~same) /\ u = NoType
<1> DEFINE e == ResolvedEnum(t.display, t.canonical, known.enums)
           shown == KnownRecordType(t.display, known.records)
           meant == KnownRecordType(t.canonical, known.records)
           seen == ByDisplay(t.display, t.canonical, known.callbacks)
           plain == NormalizeType(t.canonical, known.callbacks)
           same == SameShape(t.display, t.canonical)
           u == NormalizeWithCanonical(t, known)
           a1 == IF e # NoSpelling THEN IrType("Enum", e, NoHandle) ELSE NoType
           a3 == IF meant # NoType /\ same THEN [meant EXCEPT !.cpp.const = t.display.const] ELSE NoType
           a5 == IF plain # NoType /\ same THEN [plain EXCEPT !.cpp = t.display] ELSE NoType
<1>1. u = OneOf(<<a1, shown, a3, seen, a5>>)
  BY DEF NormalizeWithCanonical
<1>2. e # NoSpelling => a1 # NoType
  BY DEF IrType, NoType
<1>3. meant # NoType => [meant EXCEPT !.cpp.const = t.display.const] # NoType
  <2> SUFFICES ASSUME meant # NoType PROVE [meant EXCEPT !.cpp.const = t.display.const] # NoType
    OBVIOUS
  <2>1. PICK k, c, h : meant = [kind |-> k, cpp |-> c, handle |-> h]
    BY DEF KnownRecordType, IrType
  <2> HIDE DEF meant
  <2>2. [meant EXCEPT !.cpp.const = t.display.const].handle = h
    BY <2>1
  <2>3. DOMAIN [meant EXCEPT !.cpp.const = t.display.const] = {"kind", "cpp", "handle"}
    BY <2>1
  <2>4. DOMAIN NoType = {"kind"}
    BY DEF NoType
  <2> QED BY <2>3, <2>4
<1> HIDE DEF e, shown, meant, seen, plain, same, u
<1>4. u = IF a1 # NoType THEN a1 ELSE IF shown # NoType THEN shown ELSE IF a3 # NoType THEN a3
          ELSE IF seen # NoType THEN seen ELSE a5
  <2> HIDE DEF a1, a3, a5
  <2> QED BY <1>1, OneOfFive
<1>5. QED
  BY <1>2, <1>3, <1>4 DEF e, shown, meant, seen, plain, same, u

\* The qualifiers run into the name leave something of it.
LEMMA FlattenName ==
    ASSUME NEW base, IsName(base)
    PROVE  Flatten(base) # NoHandle
<1>1. IsSeq(base) /\ 1 \in DOMAIN base /\ IsSeq(base[1]) /\ base[1] # << >>
  BY SeqFacts DEF IsName
<1>2. base[1][1] \in ToSet(base[1])
  BY <1>1 DEF IsSeq, ToSet
<1>3. ToSet(FlattenSeq(base)) = UNION {ToSet(base[i]) : i \in DOMAIN base}
  BY FlattenFacts DEF IsName
<1>4. base[1][1] \in ToSet(FlattenSeq(base))
  BY <1>1, <1>2, <1>3
<1>5. ToSet(<< >>) = {}
  BY DEF ToSet
<1> QED BY <1>4, <1>5 DEF Flatten, NoHandle

\* A record of the IR's types.
IsIrType(u) == u = IrType(u.kind, u.cpp, u.handle)

\* The parts of an IrType are what it was made of, and it is not the absence of a type.
LEMMA IrTypeFields ==
    ASSUME NEW k, NEW c, NEW h
    PROVE  /\ IsIrType(IrType(k, c, h)) /\ IrType(k, c, h).kind = k
           /\ IrType(k, c, h).cpp = c /\ IrType(k, c, h).handle = h
           /\ IrType(k, c, h) # NoType
  BY DEF IsIrType, IrType, NoType

\* Another spelling in a type leaves its kind and its handle.
LEMMA OtherSpelling ==
    ASSUME NEW u, IsIrType(u), NEW x
    PROVE  /\ [u EXCEPT !.cpp = x] = IrType(u.kind, x, u.handle)
           /\ [u EXCEPT !.cpp.const = x] = IrType(u.kind, [u.cpp EXCEPT !.const = x], u.handle)
<1>1. PICK k, c, h : u = [kind |-> k, cpp |-> c, handle |-> h]
  BY DEF IsIrType, IrType
<1>2. [u EXCEPT !.cpp = x] = [kind |-> k, cpp |-> x, handle |-> h]
  BY <1>1
<1>3. [u EXCEPT !.cpp.const = x] = [kind |-> k, cpp |-> [c EXCEPT !.const = x], handle |-> h]
  BY <1>1
<1> QED BY <1>1, <1>2, <1>3 DEF IrType

\* What normalize_type gives is nothing, or well formed.
LEMMA PlainType ==
    ASSUME NEW s, IsName(s.base), s.shape \in Shape, NEW callbacks
    PROVE  LET u == NormalizeType(s, callbacks) IN
           u = NoType \/ (IsIrType(u) /\ WellFormed(u) /\ u.kind \notin {"Opaque", "Enum"})
<1> DEFINE good(u) == u = NoType \/ (IsIrType(u) /\ WellFormed(u) /\ u.kind \notin {"Opaque", "Enum"})
<1>1. ASSUME NEW k \in {"CString", "FixedByteArray", "FixedArray", "Void", "Primitive", "String",
                        "Pointer", "Reference", "ExternStructPointer", "ExternStructReference",
                        "Callback"}, NEW c
      PROVE  good(IrType(k, c, NoHandle))
  <2>1. k \in IrKind /\ k \notin ModelKind \cup {"FixedModelArray", "Opaque", "Enum"}
    BY <1>1 DEF IrKind, ModelKind, AccessibleKind
  <2> QED BY <2>1, IrTypeFields DEF WellFormed
<1>2. ASSUME NEW k \in ModelKind \cup {"FixedModelArray"}, NEW c, NEW h, h # NoHandle
      PROVE  good(IrType(k, c, h))
  <2>1. k \in IrKind /\ k \notin {"Opaque", "Enum"}
    BY <1>2 DEF IrKind, ModelKind, AccessibleKind
  <2> QED BY <1>2, <2>1, IrTypeFields DEF WellFormed
<1>3. ModelKindOf(s) \in ModelKind \cup {"FixedModelArray"}
  BY DEF ModelKindOf, ModelKind
<1>4. good(ModelType(s))
  <2>1. good(IrType(ModelKindOf(s), s, Flatten(s.base)))
    BY <1>2, <1>3, FlattenName
  <2> QED BY <2>1 DEF ModelType
<1>5. good(IrType("ModelPointer", Spelled(s.base, FALSE, FALSE, "value"), <<"NPVOID">>))
  <2>1. <<"NPVOID">> # NoHandle
    BY DEF NoHandle
  <2> QED BY <1>2, <2>1 DEF ModelKind
<1> HIDE DEF good
<1>6. good(ArrayType(s))
  BY <1>1, <1>4 DEF ArrayType
<1>7. good(ValueType(s))
  BY <1>1, <1>4 DEF ValueType
<1>8. good(PointerType(s))
  BY <1>1, <1>4, <1>5 DEF PointerType
<1>9. good(ReferenceType(s))
  BY <1>1, <1>4 DEF ReferenceType
<1>10. good(NoType) /\ good(IrType("Callback", s, NoHandle))
  BY <1>1 DEF good
<1>11. good(IF ExternStruct(s) THEN IrType("ExternStructReference", s, NoHandle) ELSE ModelType(s))
  BY <1>1, <1>4
<1>12. good(NormalizeType(s, callbacks))
  BY <1>4, <1>6, <1>7, <1>8, <1>9, <1>10, <1>11 DEF NormalizeType, Shape
<1> QED BY <1>12 DEF good

\* The records a header knows have handles.
HaveHandles(records) ==
    IsSeq(records) /\ \A i \in DOMAIN records : records[i].handle # NoHandle

\* known_record finds a record that matches, if there is one.
LEMMA KnownRecordFacts ==
    ASSUME NEW s, NEW records, IsSeq(records)
    PROVE  LET i == KnownRecord(s, records) IN
           /\ i = 0 => \A j \in DOMAIN records : ~NamesMatch(records[j].cpp, s.base)
           /\ i # 0 => i \in DOMAIN records /\ NamesMatch(records[i].cpp, s.base)
<1> DEFINE T == {i \in 1..Len(records) : NamesMatch(records[i].cpp, s.base)}
<1>1. KnownRecord(s, records) = IF T # {} THEN Min(T) ELSE 0
  BY DEF KnownRecord, SelectInSeq
<1>2. Len(records) \in Nat /\ DOMAIN records = 1..Len(records) /\ T \subseteq 1..Len(records)
  BY SeqFacts
<1>3. T # {} => Min(T) \in T
  <2> HIDE DEF T
  <2> QED BY <1>2, LeastPlace
<1>4. T # {} => Min(T) # 0 /\ Min(T) \in DOMAIN records
  BY <1>2, <1>3
<1> QED BY <1>1, <1>2, <1>3, <1>4

\* A base name is looked up among the records by its leaf: what is found has the handle of one of them.
LEMMA KnownRecordTypeFacts ==
    ASSUME NEW s, NEW records, HaveHandles(records)
    PROVE  LET u == KnownRecordType(s, records) IN
           \/ u = NoType /\ \A j \in DOMAIN records : ~NamesMatch(records[j].cpp, s.base)
           \/ /\ IsIrType(u) /\ u # NoType
              /\ \E i \in DOMAIN records : NamesMatch(records[i].cpp, s.base) /\ u.handle = records[i].handle
              /\ u.kind = ModelKindOf(s) /\ u.handle # NoHandle
<1> DEFINE i == KnownRecord(s, records)
<1>1. /\ i = 0 => \A j \in DOMAIN records : ~NamesMatch(records[j].cpp, s.base)
      /\ i # 0 => i \in DOMAIN records /\ NamesMatch(records[i].cpp, s.base)
  BY KnownRecordFacts DEF HaveHandles
<1>2. CASE i = 0
  BY <1>1, <1>2 DEF KnownRecordType
<1>3. CASE i # 0
  <2>1. PICK c : KnownRecordType(s, records) = IrType(ModelKindOf(s), c, records[i].handle)
    BY <1>3 DEF KnownRecordType
  <2> HIDE DEF i
  <2> QED BY <1>1, <1>3, <2>1, IrTypeFields DEF HaveHandles
<1> QED BY <1>2, <1>3

\* A display that stands for itself has its own kind or the canonical one.
LEMMA ByDisplayFacts ==
    ASSUME NEW t, IsType(t), NEW callbacks
    PROVE  LET u == ByDisplay(t.display, t.canonical, callbacks)
               d == NormalizeType(t.display, callbacks)
               c == NormalizeType(t.canonical, callbacks)
           IN  /\ u = NoType <=> d = NoType
               /\ u # NoType => IsIrType(u) /\ WellFormed(u) /\ u.kind \notin {"Opaque", "Enum"}
               /\ u # NoType =>
                     \/ u.kind = d.kind /\ u.handle = d.handle
                     \/ /\ u.kind = c.kind /\ u.handle = c.handle /\ c.kind \in CanonicalDecides
                        /\ c # NoType /\ d.kind \in ModelKind \cup {"FixedModelArray"}
<1> DEFINE d == NormalizeType(t.display, callbacks)
           c == NormalizeType(t.canonical, callbacks)
           u == ByDisplay(t.display, t.canonical, callbacks)
           good(v) == IsIrType(v) /\ WellFormed(v) /\ v.kind \notin {"Opaque", "Enum"}
<1>1. d = NoType \/ good(d)
  BY PlainType DEF IsType
<1>2. c = NoType \/ good(c)
  BY PlainType DEF IsType
<1>3. NoType.kind \notin CanonicalDecides \cup ModelKind \cup {"FixedModelArray"}
  BY DEF NoType, CanonicalDecides, ModelKind
<1>4. u = CASE d = NoType -> NoType
            [] /\ t.display # t.canonical
               /\ d.kind \in ModelKind \cup {"FixedModelArray"}
               /\ c.kind \in CanonicalDecides -> [c EXCEPT !.cpp = t.display]
            [] /\ t.display # t.canonical
               /\ d.kind \in ModelKind \cup {"FixedModelArray"}
               /\ c.kind \in ModelKind -> [d EXCEPT !.cpp = t.canonical]
            [] OTHER -> d
  BY DEF ByDisplay, Combined
<1>5. \A x : /\ good(c) => LET v == [c EXCEPT !.cpp = x] IN
                   good(v) /\ v.kind = c.kind /\ v.handle = c.handle /\ v # NoType
             /\ good(d) => LET v == [d EXCEPT !.cpp = x] IN
                   good(v) /\ v.kind = d.kind /\ v.handle = d.handle /\ v # NoType
  <2>1. ASSUME NEW v, good(v), NEW x
        PROVE  LET w == [v EXCEPT !.cpp = x] IN
               good(w) /\ w.kind = v.kind /\ w.handle = v.handle /\ w # NoType
    <3>1. [v EXCEPT !.cpp = x] = IrType(v.kind, x, v.handle)
      BY <2>1, OtherSpelling
    <3> QED BY <2>1, <3>1, IrTypeFields DEF WellFormed
  <2> HIDE DEF d, c, good
  <2> QED BY <2>1
<1>6. \A k : ~(k \in CanonicalDecides /\ k \in ModelKind)
  BY DEF CanonicalDecides, ModelKind
<1>7. good(d) => d # NoType
  BY IrTypeFields DEF IsIrType
<1> HIDE DEF d, c, u
<1>8. /\ u = NoType <=> d = NoType
      /\ u # NoType => good(u)
      /\ u # NoType =>
            \/ u.kind = d.kind /\ u.handle = d.handle
            \/ /\ u.kind = c.kind /\ u.handle = c.handle /\ c.kind \in CanonicalDecides
               /\ c # NoType /\ d.kind \in ModelKind \cup {"FixedModelArray"}
  <2> HIDE DEF good
  <2>1. CASE d = NoType
    BY <1>3, <1>4, <2>1
  <2>2. CASE d # NoType /\ t.display # t.canonical /\ d.kind \in ModelKind \cup {"FixedModelArray"}
               /\ c.kind \in CanonicalDecides
    <3>1. c # NoType /\ good(c)
      BY <1>2, <1>3, <2>2
    <3>2. u = [c EXCEPT !.cpp = t.display]
      BY <1>4, <1>6, <2>2
    <3> QED BY <1>5, <2>2, <3>1, <3>2
  <2>3. CASE d # NoType /\ t.display # t.canonical /\ d.kind \in ModelKind \cup {"FixedModelArray"}
               /\ c.kind \in ModelKind
    <3>1. u = [d EXCEPT !.cpp = t.canonical]
      BY <1>4, <1>6, <2>3
    <3> QED BY <1>1, <1>5, <2>3, <3>1
  <2>4. CASE d # NoType /\ ~(t.display # t.canonical /\ d.kind \in ModelKind \cup {"FixedModelArray"}
                              /\ c.kind \in CanonicalDecides \cup ModelKind)
    <3>1. u = d
      BY <1>4, <2>4
    <3> QED BY <1>1, <2>4, <3>1
  <2> QED BY <2>1, <2>2, <2>3, <2>4
<1> QED BY <1>8 DEF d, c, u

\* normalize_type_with_canonical gives nothing, or a well-formed type.
LEMMA TypeWellFormed ==
    ASSUME NEW t, IsType(t), NEW known, HaveHandles(known.records)
    PROVE  LET u == NormalizeWithCanonical(t, known) IN
           u = NoType \/ (u # NoType /\ IsIrType(u) /\ WellFormed(u) /\ u.kind # "Opaque")
<1> DEFINE e == ResolvedEnum(t.display, t.canonical, known.enums)
           shown == KnownRecordType(t.display, known.records)
           meant == KnownRecordType(t.canonical, known.records)
           seen == ByDisplay(t.display, t.canonical, known.callbacks)
           plain == NormalizeType(t.canonical, known.callbacks)
           u == NormalizeWithCanonical(t, known)
           same == SameShape(t.display, t.canonical)
           good(v) == v # NoType /\ IsIrType(v) /\ WellFormed(v) /\ v.kind # "Opaque"
<1>1. CASE "double" \in {t.display.shape, t.canonical.shape}
  BY <1>1 DEF NormalizeWithCanonical
<1>2. CASE ~("double" \in {t.display.shape, t.canonical.shape})
  <2>1. \/ e # NoSpelling /\ u = IrType("Enum", e, NoHandle)
        \/ shown # NoType /\ u = shown
        \/ meant # NoType /\ u = [meant EXCEPT !.cpp.const = t.display.const]
        \/ seen # NoType /\ u = seen
        \/ plain # NoType /\ u = [plain EXCEPT !.cpp = t.display]
        \/ u = NoType
    BY <1>2, NormalizeSteps
  <2>2. good(IrType("Enum", e, NoHandle))
    <3>1. "Enum" \in IrKind /\ "Enum" \notin ModelKind \cup {"FixedModelArray", "Opaque"}
      BY DEF IrKind, ModelKind, AccessibleKind
    <3> QED BY <3>1, IrTypeFields DEF WellFormed
  <2>3. \A s : LET v == KnownRecordType(s, known.records) IN v # NoType => good(v)
    <3>1. \A s : ModelKindOf(s) \in ModelKind \cup {"FixedModelArray"}
      BY DEF ModelKindOf, ModelKind
    <3>2. ModelKind \cup {"FixedModelArray"} \subseteq IrKind /\ "Opaque" \notin ModelKind \cup {"FixedModelArray"}
      BY DEF IrKind, ModelKind, AccessibleKind
    <3> QED BY <3>1, <3>2, KnownRecordTypeFacts DEF WellFormed
  <2>4. seen # NoType => good(seen)
    BY ByDisplayFacts
  <2>5. plain # NoType => good(plain)
    BY PlainType DEF IsType
  <2>6. ASSUME NEW v, good(v), NEW x
        PROVE  good([v EXCEPT !.cpp = x]) /\ good([v EXCEPT !.cpp.const = x])
    <3>1. [v EXCEPT !.cpp = x] = IrType(v.kind, x, v.handle)
      BY <2>6, OtherSpelling
    <3>2. [v EXCEPT !.cpp.const = x] = IrType(v.kind, [v.cpp EXCEPT !.const = x], v.handle)
      BY <2>6, OtherSpelling
    <3>3. \A y : good(IrType(v.kind, y, v.handle))
      BY <2>6, IrTypeFields DEF WellFormed
    <3> HIDE DEF good
    <3> QED BY <3>1, <3>2, <3>3
  <2>7. (shown # NoType => good(shown)) /\ (meant # NoType => good(meant))
    BY <2>3
  <2> HIDE DEF good, e, shown, meant, seen, plain, u
  <2>8. meant # NoType => good([meant EXCEPT !.cpp.const = t.display.const])
    BY <2>6, <2>7
  <2>9. plain # NoType => good([plain EXCEPT !.cpp = t.display])
    BY <2>5, <2>6
  <2>10. u = NoType \/ good(u)
    BY <2>1, <2>2, <2>4, <2>7, <2>8, <2>9
  <2> QED BY <2>10 DEF good, u
<1> QED BY <1>1, <1>2

------------------------------------------------------------------------------
(* What the headers mention.                                               *)

CallTypes(c) == {c.returns} \cup TypesOf(c.params)

MemberTypes(r) ==
    {r.fields[i].type : i \in DOMAIN r.fields}
        \cup (UNION {TypesOf(c.params) : c \in ToSet(r.constructors)})
        \cup (UNION {CallTypes(c) : c \in ToSet(r.methods)})

\* Callables whose parameters are sequences.
Listed(callables) == IsSeq(callables) /\ \A c \in ToSet(callables) : IsSeq(c.params)

\* The types of the parameters, as a sequence and as a set.
LEMMA ParamTypesFacts ==
    ASSUME NEW params, IsSeq(params)
    PROVE  IsSeq(ParamTypes(params)) /\ ToSet(ParamTypes(params)) = TypesOf(params)
<1>1. Len(params) \in Nat /\ DOMAIN params = 1..Len(params)
  BY SeqFacts
<1>2. IsSeq(ParamTypes(params))
  BY <1>1, FunctionIsSeq DEF ParamTypes
<1> QED BY <1>2 DEF ParamTypes, TypesOf, ToSet

\* The types of the callables, as a sequence and as a set.
LEMMA AllTypesFacts ==
    ASSUME NEW callables, Listed(callables)
    PROVE  /\ IsSeq(AllTypes(callables))
           /\ ToSet(AllTypes(callables)) = UNION {CallTypes(c) : c \in ToSet(callables)}
<1> DEFINE s == [i \in DOMAIN callables |-> CallableTypes(callables[i])]
<1>1. /\ Len(callables) \in Nat /\ DOMAIN callables = 1..Len(callables)
      /\ \A i \in DOMAIN callables : callables[i] \in ToSet(callables)
      /\ \A c \in ToSet(callables) : \E i \in DOMAIN callables : c = callables[i]
  BY SeqFacts DEF Listed
<1>2. IsSeq(s) /\ DOMAIN s = DOMAIN callables /\ \A i \in DOMAIN s : s[i] = CallableTypes(callables[i])
  BY <1>1, FunctionIsSeq
<1>3. ASSUME NEW c \in ToSet(callables)
      PROVE  IsSeq(CallableTypes(c)) /\ ToSet(CallableTypes(c)) = CallTypes(c)
  <2>1. IsSeq(ParamTypes(c.params)) /\ ToSet(ParamTypes(c.params)) = TypesOf(c.params)
    BY ParamTypesFacts DEF Listed
  <2>2. IsSeq(<<c.returns>>) /\ ToSet(<<c.returns>>) = {c.returns}
    BY DEF IsSeq, ToSet
  <2> QED BY <2>1, <2>2, ConcatFacts DEF CallableTypes, CallTypes
<1> HIDE DEF s
<1>4. \A i \in DOMAIN s : IsSeq(s[i])
  BY <1>1, <1>2, <1>3
<1>5. IsSeq(FlattenSeq(s)) /\ ToSet(FlattenSeq(s)) = UNION {ToSet(s[i]) : i \in DOMAIN s}
  BY <1>2, <1>4, FlattenFacts
<1>6. UNION {ToSet(s[i]) : i \in DOMAIN s} = UNION {CallTypes(c) : c \in ToSet(callables)}
  <2>1. \A i \in DOMAIN s : ToSet(s[i]) = CallTypes(callables[i])
    BY <1>1, <1>2, <1>3
  <2> QED BY <1>1, <1>2, <2>1
<1> QED BY <1>5, <1>6 DEF AllTypes, s

\* The types in a record, as a sequence and as a set.
LEMMA RecordTypesFacts ==
    ASSUME NEW r, IsSeq(r.fields), Listed(r.constructors), Listed(r.methods)
    PROVE  IsSeq(RecordTypes(r)) /\ ToSet(RecordTypes(r)) = MemberTypes(r)
<1> DEFINE f == [i \in DOMAIN r.fields |-> r.fields[i].type]
           c == [i \in DOMAIN r.constructors |-> ParamTypes(r.constructors[i].params)]
<1>1. IsSeq(f) /\ ToSet(f) = {r.fields[i].type : i \in DOMAIN r.fields}
  <2>1. Len(r.fields) \in Nat /\ DOMAIN r.fields = 1..Len(r.fields)
    BY SeqFacts
  <2>2. IsSeq(f)
    BY <2>1, FunctionIsSeq
  <2> QED BY <2>2 DEF ToSet
<1>2. /\ Len(r.constructors) \in Nat /\ DOMAIN r.constructors = 1..Len(r.constructors)
      /\ \A i \in DOMAIN r.constructors : r.constructors[i] \in ToSet(r.constructors)
      /\ \A e \in ToSet(r.constructors) : \E i \in DOMAIN r.constructors : e = r.constructors[i]
  BY SeqFacts DEF Listed
<1>3. IsSeq(c) /\ DOMAIN c = DOMAIN r.constructors
      /\ \A i \in DOMAIN c : c[i] = ParamTypes(r.constructors[i].params)
  BY <1>2, FunctionIsSeq
<1>4. \A e \in ToSet(r.constructors) :
          IsSeq(ParamTypes(e.params)) /\ ToSet(ParamTypes(e.params)) = TypesOf(e.params)
  BY ParamTypesFacts DEF Listed
<1> HIDE DEF c, f
<1>5. IsSeq(FlattenSeq(c)) /\ ToSet(FlattenSeq(c)) = UNION {ToSet(c[i]) : i \in DOMAIN c}
  <2>1. \A i \in DOMAIN c : IsSeq(c[i])
    BY <1>2, <1>3, <1>4
  <2> QED BY <1>3, <2>1, FlattenFacts
<1>6. UNION {ToSet(c[i]) : i \in DOMAIN c} = UNION {TypesOf(e.params) : e \in ToSet(r.constructors)}
  <2>1. \A i \in DOMAIN c : ToSet(c[i]) = TypesOf(r.constructors[i].params)
    BY <1>2, <1>3, <1>4
  <2> QED BY <1>2, <1>3, <2>1
<1>7. /\ IsSeq(AllTypes(r.methods))
      /\ ToSet(AllTypes(r.methods)) = UNION {CallTypes(m) : m \in ToSet(r.methods)}
  BY AllTypesFacts
<1>8. IsSeq(f \o FlattenSeq(c)) /\ ToSet(f \o FlattenSeq(c)) = ToSet(f) \cup ToSet(FlattenSeq(c))
  BY <1>1, <1>5, ConcatFacts
<1>9. /\ IsSeq((f \o FlattenSeq(c)) \o AllTypes(r.methods))
      /\ ToSet((f \o FlattenSeq(c)) \o AllTypes(r.methods)) = ToSet(f \o FlattenSeq(c)) \cup ToSet(AllTypes(r.methods))
  BY <1>7, <1>8, ConcatFacts
<1>10. RecordTypes(r) = (f \o FlattenSeq(c)) \o AllTypes(r.methods)
  BY DEF RecordTypes, f, c
<1> QED BY <1>1, <1>5, <1>6, <1>7, <1>8, <1>9, <1>10 DEF MemberTypes

\* Records whose members are listed so.
RecordsListed(records) ==
    IsSeq(records) /\ \A r \in ToSet(records) :
        IsSeq(r.fields) /\ Listed(r.constructors) /\ Listed(r.methods) /\ Listed(r.operators)

\* The types that aliases are collected from, as a sequence and as a set.
LEMMA AliasTypesFacts ==
    ASSUME NEW records, NEW callables, NEW callbacks,
           RecordsListed(records), Listed(callables), Listed(callbacks)
    PROVE  /\ IsSeq(AliasTypes(records, callables, callbacks))
           /\ ToSet(AliasTypes(records, callables, callbacks)) =
                 (UNION {MemberTypes(r) : r \in ToSet(records)})
                 \cup (UNION {CallTypes(c) : c \in ToSet(callables)})
                 \cup (UNION {CallTypes(c) : c \in ToSet(callbacks)})
<1> DEFINE s == [i \in DOMAIN records |-> RecordTypes(records[i])]
<1>1. /\ Len(records) \in Nat /\ DOMAIN records = 1..Len(records)
      /\ \A i \in DOMAIN records : records[i] \in ToSet(records)
      /\ \A r \in ToSet(records) : \E i \in DOMAIN records : r = records[i]
  BY SeqFacts DEF RecordsListed
<1>2. IsSeq(s) /\ DOMAIN s = DOMAIN records /\ \A i \in DOMAIN s : s[i] = RecordTypes(records[i])
  BY <1>1, FunctionIsSeq
<1>3. \A r \in ToSet(records) : IsSeq(RecordTypes(r)) /\ ToSet(RecordTypes(r)) = MemberTypes(r)
  BY RecordTypesFacts DEF RecordsListed
<1> HIDE DEF s
<1>4. IsSeq(FlattenSeq(s)) /\ ToSet(FlattenSeq(s)) = UNION {ToSet(s[i]) : i \in DOMAIN s}
  <2>1. \A i \in DOMAIN s : IsSeq(s[i])
    BY <1>1, <1>2, <1>3
  <2> QED BY <1>2, <2>1, FlattenFacts
<1>5. UNION {ToSet(s[i]) : i \in DOMAIN s} = UNION {MemberTypes(r) : r \in ToSet(records)}
  <2>1. \A i \in DOMAIN s : ToSet(s[i]) = MemberTypes(records[i])
    BY <1>1, <1>2, <1>3
  <2> QED BY <1>1, <1>2, <2>1
<1>6. /\ IsSeq(AllTypes(callables)) /\ IsSeq(AllTypes(callbacks))
      /\ ToSet(AllTypes(callables)) = UNION {CallTypes(c) : c \in ToSet(callables)}
      /\ ToSet(AllTypes(callbacks)) = UNION {CallTypes(c) : c \in ToSet(callbacks)}
  BY AllTypesFacts
<1> DEFINE a == FlattenSeq(s) \o AllTypes(callables)
<1>7. IsSeq(a) /\ ToSet(a) = ToSet(FlattenSeq(s)) \cup ToSet(AllTypes(callables))
  BY <1>4, <1>6, ConcatFacts
<1>8. AliasTypes(records, callables, callbacks) = a \o AllTypes(callbacks)
  BY DEF AliasTypes, s
<1> HIDE DEF a
<1>9. IsSeq(a \o AllTypes(callbacks)) /\ ToSet(a \o AllTypes(callbacks)) = ToSet(a) \cup ToSet(AllTypes(callbacks))
  BY <1>6, <1>7, ConcatFacts
<1> QED BY <1>4, <1>5, <1>6, <1>7, <1>8, <1>9

\* The declarations of a header are listed.
HeaderListed(x) ==
    RecordsListed(x.records) /\ Listed(x.functions) /\ Listed(x.operators) /\ Listed(x.callbacks)

\* Overloads are listed with their parameters listed.
LEMMA OverloadsListed ==
    ASSUME NEW callables, Overloads(callables)
    PROVE  Listed(callables)
  BY SeqFacts DEF Overloads, Listed

\* Everything in a header is listed.
LEMMA HeaderIsListed ==
    ASSUME NEW x, IsHeader(x)
    PROVE  HeaderListed(x)
<1>1. Listed(x.functions) /\ Listed(x.operators)
  BY OverloadsListed DEF IsHeader
<1>2. Listed(x.callbacks)
  BY DEF IsHeader, Listed
<1>3. \A r \in ToSet(x.records) : IsSeq(r.fields) /\ Listed(r.constructors) /\ Listed(r.methods) /\ Listed(r.operators)
  BY OverloadsListed DEF IsHeader, IsRecord
<1> QED BY <1>1, <1>2, <1>3 DEF HeaderListed, RecordsListed, IsHeader

\* What the assumption on the inputs says of the headers.
LEMMA HeadersFacts ==
    ASSUME headers \in Inputs
    PROVE  /\ IsSeq(headers) /\ Len(headers) \in Nat /\ DOMAIN headers = 1..Len(headers)
           /\ \A g \in DOMAIN headers : IsHeader(headers[g]) /\ HeaderListed(headers[g])
<1>1. IsSeq(headers) /\ \A x \in ToSet(headers) : IsHeader(x)
  BY InputsAssumption
<1>2. \A g \in DOMAIN headers : headers[g] \in ToSet(headers)
  BY DEF ToSet
<1> QED BY <1>1, <1>2, SeqFacts, HeaderIsListed

\* Of all headers: what lists of one kind give together.
LEMMA GatheredFacts ==
    ASSUME NEW lists, IsSeq(lists), \A g \in DOMAIN lists : IsSeq(lists[g])
    PROVE  /\ IsSeq(FlattenSeq(lists))
           /\ \A e : e \in ToSet(FlattenSeq(lists)) <=> \E g \in DOMAIN lists : e \in ToSet(lists[g])
  BY FlattenFacts

\* The declarations of all headers as one are those of the headers.
LEMMA EverywhereFacts ==
    ASSUME headers \in Inputs
    PROVE  LET rs == Everywhere(LAMBDA x : x.records)
               fs == Everywhere(LAMBDA x : x.functions)
               os == Everywhere(LAMBDA x : x.operators)
               bs == Everywhere(LAMBDA x : x.callbacks)
           IN  /\ RecordsListed(rs) /\ Listed(fs) /\ Listed(os) /\ Listed(bs)
               /\ \A e : e \in ToSet(rs) <=> \E g \in DOMAIN headers : e \in ToSet(headers[g].records)
               /\ \A e : e \in ToSet(fs) <=> \E g \in DOMAIN headers : e \in ToSet(headers[g].functions)
               /\ \A e : e \in ToSet(os) <=> \E g \in DOMAIN headers : e \in ToSet(headers[g].operators)
               /\ \A e : e \in ToSet(bs) <=> \E g \in DOMAIN headers : e \in ToSet(headers[g].callbacks)
<1>1. /\ Len(headers) \in Nat /\ DOMAIN headers = 1..Len(headers)
      /\ \A g \in DOMAIN headers : HeaderListed(headers[g])
  BY HeadersFacts
<1> DEFINE lr == [g \in DOMAIN headers |-> headers[g].records]
           lf == [g \in DOMAIN headers |-> headers[g].functions]
           lo == [g \in DOMAIN headers |-> headers[g].operators]
           lb == [g \in DOMAIN headers |-> headers[g].callbacks]
<1>2. /\ IsSeq(lr) /\ DOMAIN lr = DOMAIN headers /\ \A g \in DOMAIN headers : lr[g] = headers[g].records
      /\ IsSeq(lf) /\ DOMAIN lf = DOMAIN headers /\ \A g \in DOMAIN headers : lf[g] = headers[g].functions
      /\ IsSeq(lo) /\ DOMAIN lo = DOMAIN headers /\ \A g \in DOMAIN headers : lo[g] = headers[g].operators
      /\ IsSeq(lb) /\ DOMAIN lb = DOMAIN headers /\ \A g \in DOMAIN headers : lb[g] = headers[g].callbacks
  BY <1>1, FunctionIsSeq
<1>3. /\ Everywhere(LAMBDA x : x.records) = FlattenSeq(lr)
      /\ Everywhere(LAMBDA x : x.functions) = FlattenSeq(lf)
      /\ Everywhere(LAMBDA x : x.operators) = FlattenSeq(lo)
      /\ Everywhere(LAMBDA x : x.callbacks) = FlattenSeq(lb)
  BY DEF Everywhere
<1>4. \A g \in DOMAIN headers : /\ IsSeq(headers[g].records) /\ IsSeq(headers[g].functions)
                                /\ IsSeq(headers[g].operators) /\ IsSeq(headers[g].callbacks)
  BY <1>1 DEF HeaderListed, RecordsListed, Listed
<1> HIDE DEF lr, lf, lo, lb
<1>5. /\ IsSeq(FlattenSeq(lr))
      /\ \A e : e \in ToSet(FlattenSeq(lr)) <=> \E g \in DOMAIN headers : e \in ToSet(headers[g].records)
  BY <1>2, <1>4, GatheredFacts
<1>6. /\ IsSeq(FlattenSeq(lf))
      /\ \A e : e \in ToSet(FlattenSeq(lf)) <=> \E g \in DOMAIN headers : e \in ToSet(headers[g].functions)
  BY <1>2, <1>4, GatheredFacts
<1>7. /\ IsSeq(FlattenSeq(lo))
      /\ \A e : e \in ToSet(FlattenSeq(lo)) <=> \E g \in DOMAIN headers : e \in ToSet(headers[g].operators)
  BY <1>2, <1>4, GatheredFacts
<1>8. /\ IsSeq(FlattenSeq(lb))
      /\ \A e : e \in ToSet(FlattenSeq(lb)) <=> \E g \in DOMAIN headers : e \in ToSet(headers[g].callbacks)
  BY <1>2, <1>4, GatheredFacts
<1>9. RecordsListed(FlattenSeq(lr))
  BY <1>1, <1>5 DEF HeaderListed, RecordsListed
<1>10. Listed(FlattenSeq(lf)) /\ Listed(FlattenSeq(lo)) /\ Listed(FlattenSeq(lb))
  BY <1>1, <1>6, <1>7, <1>8 DEF HeaderListed, Listed
<1> QED BY <1>3, <1>5, <1>6, <1>7, <1>8, <1>9, <1>10

\* What is known of the types of a header.
LEMMA HeaderTypes ==
    ASSUME NEW x, HeaderListed(x)
    PROVE  /\ OtherTypes(x) = (UNION {MemberTypes(r) : r \in ToSet(x.records)})
                              \cup (UNION {CallTypes(c) : c \in ToSet(x.functions)})
                              \cup (UNION {CallTypes(c) : c \in ToSet(x.callbacks)})
           /\ OperatorTypes(x) = (UNION {CallTypes(c) : c \in ToSet(x.operators)})
                  \cup (UNION {UNION {CallTypes(c) : c \in ToSet(r.operators)} : r \in ToSet(x.records)})
<1>1. ToSet(AllTypes(x.operators)) = UNION {CallTypes(c) : c \in ToSet(x.operators)}
  BY AllTypesFacts DEF HeaderListed
<1>2. \A r \in ToSet(x.records) : ToSet(AllTypes(r.operators)) = UNION {CallTypes(c) : c \in ToSet(r.operators)}
  BY AllTypesFacts DEF HeaderListed, RecordsListed
<1>3. /\ \A i \in DOMAIN x.records : x.records[i] \in ToSet(x.records)
      /\ \A r \in ToSet(x.records) : \E i \in DOMAIN x.records : r = x.records[i]
  BY DEF ToSet
<1>4. UNION {ToSet(AllTypes(x.records[i].operators)) : i \in DOMAIN x.records} =
         UNION {UNION {CallTypes(c) : c \in ToSet(r.operators)} : r \in ToSet(x.records)}
  <2>1. \A i \in DOMAIN x.records : ToSet(AllTypes(x.records[i].operators)) =
            UNION {CallTypes(c) : c \in ToSet(x.records[i].operators)}
    BY <1>2, <1>3
  <2> QED BY <1>3, <2>1
<1>5. OtherTypes(x) = (UNION {MemberTypes(r) : r \in ToSet(x.records)})
                              \cup (UNION {CallTypes(c) : c \in ToSet(x.functions)})
                              \cup (UNION {CallTypes(c) : c \in ToSet(x.callbacks)})
  BY AliasTypesFacts DEF OtherTypes, HeaderListed
<1> QED BY <1>1, <1>4, <1>5 DEF OperatorTypes

\* Every type a header mentions is a type the parser can hand over.
LEMMA MentionedAreTypes ==
    ASSUME headers \in Inputs
    PROVE  /\ \A t \in MentionedTypes : IsType(t)
           /\ AliasedTypes \subseteq MentionedTypes
<1>1. \A g \in DOMAIN headers : IsHeader(headers[g])
  BY HeadersFacts
<1>2. \A t \in MentionedTypes : \E g \in DOMAIN headers : t \in OperatorTypes(headers[g]) \cup OtherTypes(headers[g])
  BY DEF MentionedTypes, AliasedTypes
<1>3. \A g \in DOMAIN headers : \A t \in OperatorTypes(headers[g]) \cup OtherTypes(headers[g]) : IsType(t)
  BY <1>1 DEF IsHeader
<1> QED BY <1>2, <1>3 DEF MentionedTypes

\* All headers as one mention the same types.
LEMMA PreferredAliasesFacts ==
    ASSUME headers \in Inputs, NEW h
    PROVE  IsSeq(PreferredAliases(h)) /\ ToSet(PreferredAliases(h)) = AliasedTypes
<1> DEFINE rs == Everywhere(LAMBDA x : x.records)
           fs == Everywhere(LAMBDA x : x.functions)
           bs == Everywhere(LAMBDA x : x.callbacks)
<1>1. /\ RecordsListed(rs) /\ Listed(fs) /\ Listed(bs)
      /\ \A e : e \in ToSet(rs) <=> \E g \in DOMAIN headers : e \in ToSet(headers[g].records)
      /\ \A e : e \in ToSet(fs) <=> \E g \in DOMAIN headers : e \in ToSet(headers[g].functions)
      /\ \A e : e \in ToSet(bs) <=> \E g \in DOMAIN headers : e \in ToSet(headers[g].callbacks)
  BY EverywhereFacts
<1>2. PreferredAliases(h) = AliasTypes(rs, fs, bs)
  BY DEF PreferredAliases
<1> HIDE DEF rs, fs, bs
<1>3. /\ IsSeq(AliasTypes(rs, fs, bs))
      /\ ToSet(AliasTypes(rs, fs, bs)) = (UNION {MemberTypes(r) : r \in ToSet(rs)})
                 \cup (UNION {CallTypes(c) : c \in ToSet(fs)})
                 \cup (UNION {CallTypes(c) : c \in ToSet(bs)})
  BY <1>1, AliasTypesFacts
<1>4. \A g \in DOMAIN headers :
          OtherTypes(headers[g]) = (UNION {MemberTypes(r) : r \in ToSet(headers[g].records)})
                              \cup (UNION {CallTypes(c) : c \in ToSet(headers[g].functions)})
                              \cup (UNION {CallTypes(c) : c \in ToSet(headers[g].callbacks)})
  BY HeadersFacts, HeaderTypes
<1>5. \A t : t \in ToSet(AliasTypes(rs, fs, bs)) <=> \E g \in DOMAIN headers : t \in OtherTypes(headers[g])
  <2>1. ASSUME NEW t, t \in ToSet(AliasTypes(rs, fs, bs)) PROVE \E g \in DOMAIN headers : t \in OtherTypes(headers[g])
    BY <1>1, <1>3, <1>4, <2>1
  <2>2. ASSUME NEW g \in DOMAIN headers, NEW t \in OtherTypes(headers[g]) PROVE t \in ToSet(AliasTypes(rs, fs, bs))
    <3>1. CASE \E r \in ToSet(headers[g].records) : t \in MemberTypes(r)
      BY <1>1, <1>3, <3>1
    <3>2. CASE \E c \in ToSet(headers[g].functions) : t \in CallTypes(c)
      BY <1>1, <1>3, <3>2
    <3>3. CASE \E c \in ToSet(headers[g].callbacks) : t \in CallTypes(c)
      BY <1>1, <1>3, <3>3
    <3> QED BY <1>4, <3>1, <3>2, <3>3
  <2> QED BY <2>1, <2>2
<1> QED BY <1>2, <1>3, <1>5 DEF AliasedTypes

\* The declarations of a header at hand are some header's.
LEMMA HeaderAtFacts ==
    ASSUME headers \in Inputs, NEW h \in 0 .. Len(headers)
    PROVE  LET x == HeaderAt(h) IN
           /\ HeaderListed(x)
           /\ \A r \in ToSet(x.records) : \E g \in DOMAIN headers : r \in ToSet(headers[g].records)
           /\ \A c \in ToSet(x.functions) : \E g \in DOMAIN headers : c \in ToSet(headers[g].functions)
           /\ \A c \in ToSet(x.operators) : \E g \in DOMAIN headers : c \in ToSet(headers[g].operators)
           /\ \A c \in ToSet(x.callbacks) : \E g \in DOMAIN headers : c \in ToSet(headers[g].callbacks)
           /\ h > 0 => h \in DOMAIN headers /\ x = headers[h]
<1>1. Len(headers) \in Nat /\ DOMAIN headers = 1..Len(headers)
  BY HeadersFacts
<1>2. CASE h = 0
  <2>1. /\ HeaderAt(h).records = Everywhere(LAMBDA x : x.records)
        /\ HeaderAt(h).functions = Everywhere(LAMBDA x : x.functions)
        /\ HeaderAt(h).operators = Everywhere(LAMBDA x : x.operators)
        /\ HeaderAt(h).callbacks = Everywhere(LAMBDA x : x.callbacks)
    BY <1>2 DEF HeaderAt
  <2> HIDE DEF HeaderAt
  <2>2. HeaderListed(HeaderAt(h))
    BY <2>1, EverywhereFacts DEF HeaderListed
  <2> QED BY <1>2, <2>1, <2>2, EverywhereFacts
<1>3. CASE h # 0
  <2>1. h \in DOMAIN headers /\ HeaderAt(h) = headers[h]
    BY <1>1, <1>3 DEF HeaderAt
  <2> QED BY <2>1, HeadersFacts
<1> QED BY <1>2, <1>3

\* ... and legal C++ as a whole each.
LEMMA DeclaredFacts ==
    ASSUME headers \in Inputs, NEW g \in DOMAIN headers
    PROVE  /\ \A r \in ToSet(headers[g].records) :
                 /\ IsRecord(r) /\ Qualified(r) \in RecordNames /\ MemberTypes(r) \subseteq AliasedTypes
                 /\ \A c \in ToSet(r.operators) : CallTypes(c) \subseteq MentionedTypes
           /\ \A c \in ToSet(headers[g].functions) \cup ToSet(headers[g].callbacks) :
                 CallTypes(c) \subseteq AliasedTypes
           /\ \A c \in ToSet(headers[g].operators) : CallTypes(c) \subseteq MentionedTypes
<1>1. IsHeader(headers[g]) /\ HeaderListed(headers[g])
  BY HeadersFacts
<1>2. OtherTypes(headers[g]) \subseteq AliasedTypes /\ OperatorTypes(headers[g]) \subseteq MentionedTypes
  BY DEF AliasedTypes, MentionedTypes
<1>3. \A r \in ToSet(headers[g].records) : Qualified(r) \in RecordNames
  BY DEF RecordNames, ToSet
<1>4. \A r \in ToSet(headers[g].records) : IsRecord(r)
  BY <1>1 DEF IsHeader
<1> QED BY <1>1, <1>2, <1>3, <1>4, HeaderTypes

\* The preferred name of a class is its own, or a typedef's that is mentioned.
LEMMA PreferredNameFacts ==
    ASSUME NEW cpp, NEW types, IsSeq(types)
    PROVE  \/ /\ PreferredName(cpp, types) = cpp
              /\ \A t \in ToSet(types) : ~(GivesAlias(t) /\ t.canonical.base = cpp)
           \/ \E t \in ToSet(types) : /\ GivesAlias(t) /\ t.canonical.base = cpp
                                      /\ PreferredName(cpp, types) = t.display.base
<1> DEFINE T == {i \in 1..Len(types) : GivesAlias(types[i]) /\ types[i].canonical.base = cpp}
           i == SelectInSeq(types, LAMBDA t : GivesAlias(t) /\ t.canonical.base = cpp)
<1>1. i = IF T # {} THEN Min(T) ELSE 0
  BY DEF SelectInSeq
<1>2. /\ Len(types) \in Nat /\ DOMAIN types = 1..Len(types) /\ T \subseteq 1..Len(types)
      /\ \A k \in 1..Len(types) : types[k] \in ToSet(types)
      /\ \A t \in ToSet(types) : \E k \in 1..Len(types) : t = types[k]
  BY SeqFacts
<1>3. PreferredName(cpp, types) = IF i = 0 THEN cpp ELSE types[i].display.base
  BY DEF PreferredName
<1> HIDE DEF i
<1>4. T # {} => Min(T) \in T
  <2> HIDE DEF T
  <2> QED BY <1>2, LeastPlace
<1>5. CASE T = {}
  BY <1>1, <1>2, <1>3, <1>5
<1>6. CASE T # {}
  <2>1. i \in T /\ i # 0
    BY <1>1, <1>2, <1>4, <1>6
  <2> QED BY <1>2, <1>3, <2>1
<1> QED BY <1>5, <1>6

\* The records a header knows.
LEMMA IrRecordsFacts ==
    ASSUME headers \in Inputs, NEW h \in 0 .. Len(headers)
    PROVE  LET records == HeaderAt(h).records
               known == IrRecords(h)
           IN  /\ HaveHandles(known) /\ DOMAIN known = DOMAIN records
               /\ \A i \in DOMAIN known :
                     /\ known[i].cpp = Qualified(records[i]) /\ known[i].cpp \in RecordNames
                     /\ known[i].handle = Flatten(PreferredName(known[i].cpp, PreferredAliases(h)))
                     /\ DOMAIN known[i] = {"cpp", "handle"}
                     /\ IsName(known[i].cpp)
<1> DEFINE records == HeaderAt(h).records
           known == IrRecords(h)
<1>1. /\ Len(records) \in Nat /\ DOMAIN records = 1..Len(records)
      /\ \A i \in DOMAIN records : records[i] \in ToSet(records)
  <2>1. IsSeq(records)
    BY HeaderAtFacts DEF HeaderListed, RecordsListed
  <2> QED BY <2>1, SeqFacts
<1>2. \A r \in ToSet(records) : IsRecord(r) /\ Qualified(r) \in RecordNames
  BY HeaderAtFacts, DeclaredFacts
<1>3. known = [i \in DOMAIN records |->
                 [cpp    |-> Qualified(records[i]),
                  handle |-> Flatten(PreferredName(Qualified(records[i]), PreferredAliases(h)))]]
  BY DEF IrRecords
<1> HIDE DEF records, known
<1>4. IsSeq(known) /\ DOMAIN known = DOMAIN records
  BY <1>1, <1>3, FunctionIsSeq
<1>5. \A i \in DOMAIN known :
         /\ known[i].cpp = Qualified(records[i])
         /\ known[i].handle = Flatten(PreferredName(known[i].cpp, PreferredAliases(h)))
         /\ DOMAIN known[i] = {"cpp", "handle"}
  BY <1>3
<1>6. \A i \in DOMAIN known : known[i].cpp \in RecordNames /\ IsName(known[i].cpp)
  BY <1>1, <1>2, <1>4, <1>5 DEF IsRecord
<1>7. ASSUME NEW i \in DOMAIN known PROVE known[i].handle # NoHandle
  <2>1. IsName(PreferredName(known[i].cpp, PreferredAliases(h)))
    <3>1. \A t \in ToSet(PreferredAliases(h)) : IsName(t.display.base)
      BY PreferredAliasesFacts, MentionedAreTypes DEF IsType
    <3> QED BY <1>6, <3>1, PreferredAliasesFacts, PreferredNameFacts
  <2> QED BY <1>5, <2>1, FlattenName
<1> QED BY <1>4, <1>5, <1>6, <1>7 DEF HaveHandles, records, known

------------------------------------------------------------------------------
(* What becomes of the type of a class or an enum.                         *)

\* Names that match have one last part.
LEMMA MatchingNames ==
    ASSUME NEW m, NEW n, NamesMatch(m, n)
    PROVE  Last(m) = Last(n)
<1>1. \A x : Last(<<x>>) = x
  BY DEF Last
<1> QED BY <1>1 DEF NamesMatch, LeafOnly

\* References, and references to pointers.
ReferenceShape == {"reference", "pointerreference"}

\* A kind that goes with the shape of a spelling.
Fits(kind, s) ==
    /\ kind = "ModelValue" <=> s.shape = "value"
    /\ kind \in {"ModelReference", "ExternStructReference"} <=> s.shape \in ReferenceShape

\* The kind that a class has by its shape goes with it.
LEMMA ModelKindFits ==
    ASSUME NEW s, s.shape \in Shape, s.shape # "double"
    PROVE  Fits(ModelKindOf(s), s)
  BY DEF Fits, ModelKindOf, Shape, ArrayShape, ReferenceShape

\* A spelling of a class on its own.
LEMMA ClassSpelling ==
    ASSUME NEW s, NEW callbacks, s.shape \in Shape, s.shape # "double", s.base \notin callbacks,
           Builtin(s.base) \in {"name", "library", "marked", "bracketed"},
           Bracketed(s) => s.shape \in {"value", "array"}
    PROVE  LET u == NormalizeType(s, callbacks) IN
           /\ RawSafe(s) => u = IrType(ModelKindOf(s), s, Flatten(s.base))
           /\ Bracketed(s) => u = NoType
           /\ u # NoType /\ u.kind \in ModelKind \cup {"FixedModelArray"} => u.handle = Flatten(s.base)
           /\ u # NoType => Fits(u.kind, s)
<1> DEFINE b == Builtin(s.base)
           u == NormalizeType(s, callbacks)
           m == IrType(ModelKindOf(s), s, Flatten(s.base))
           p == IrType("ExternStructPointer", s, NoHandle)
           q == IrType("ExternStructReference", s, NoHandle)
<1>1. b \in {"name", "library", "marked", "bracketed"}
  OBVIOUS
<1>2. /\ ModelType(s) = IF RawSafe(s) THEN m ELSE NoType
      /\ RawSafe(s) <=> ~s.struct /\ b \in {"name", "marked"}
  BY <1>1 DEF ModelType, RawSafe
<1>3. ~IsPrimitive(s.base) /\ (ExternStruct(s) <=> s.struct)
  BY <1>1 DEF IsPrimitive, ExternStruct
<1>4. /\ s.shape \in {"value", "array", "pointerarray"} => u = ModelType(s)
      /\ s.shape = "pointer" => u = IF s.struct THEN p ELSE ModelType(s)
      /\ s.shape \in ReferenceShape => u = IF s.struct THEN q ELSE ModelType(s)
  BY <1>1, <1>3 DEF NormalizeType, ValueType, ArrayType, PointerType, ReferenceType, ReferenceShape
<1>5. /\ m.kind = ModelKindOf(s) /\ m.handle = Flatten(s.base) /\ m # NoType
      /\ p.kind = "ExternStructPointer" /\ q.kind = "ExternStructReference"
  BY IrTypeFields
<1>6. Fits(m.kind, s)
  BY <1>5, ModelKindFits
<1>7. s.shape \in {"value", "array", "pointerarray", "pointer"} \cup ReferenceShape
  BY DEF Shape, ReferenceShape
<1>8. /\ "ExternStructPointer" \notin ModelKind \cup {"FixedModelArray"}
      /\ "ExternStructReference" \notin ModelKind \cup {"FixedModelArray"}
      /\ s.shape = "pointer" => Fits("ExternStructPointer", s)
      /\ s.shape \in ReferenceShape => Fits("ExternStructReference", s)
  BY DEF ModelKind, Fits, ReferenceShape
<1>9. Bracketed(s) => s.shape \in {"value", "array"} /\ ~RawSafe(s)
  BY <1>2 DEF Bracketed
<1>10. RawSafe(s) => ~s.struct
  BY <1>2
<1> HIDE DEF u, m, b, p, q
<1>11. CASE s.shape \in {"value", "array", "pointerarray"}
  BY <1>2, <1>4, <1>5, <1>6, <1>9, <1>11 DEF u, m
<1>12. CASE s.shape = "pointer"
  BY <1>2, <1>4, <1>5, <1>6, <1>8, <1>9, <1>10, <1>12 DEF u, m
<1>13. CASE s.shape \in ReferenceShape
  <2>1. ~Bracketed(s)
    BY <1>9, <1>13 DEF ReferenceShape
  <2> QED BY <1>2, <1>4, <1>5, <1>6, <1>8, <1>10, <1>13, <2>1 DEF u, m
<1> QED BY <1>7, <1>11, <1>12, <1>13

\* The callbacks of a header are callbacks of all headers.
LEMMA CallbacksOfAll ==
    ASSUME headers \in Inputs, NEW h \in 0 .. Len(headers)
    PROVE  CallbackNames(h) \subseteq CallbackNames(0)
<1>1. 0 \in 0 .. Len(headers)
  BY HeadersFacts
<1> DEFINE C(g) == HeaderAt(g).callbacks
<1>2. \A g : CallbackNames(g) = UNION {{<<C(g)[i].name>>, Qualified(C(g)[i])} : i \in DOMAIN C(g)}
  BY DEF CallbackNames
<1>3. \A c \in ToSet(C(h)) : c \in ToSet(C(0))
  <2>1. \A c \in ToSet(C(h)) : \E g \in DOMAIN headers : c \in ToSet(headers[g].callbacks)
    BY HeaderAtFacts
  <2>2. C(0) = Everywhere(LAMBDA x : x.callbacks)
    BY DEF HeaderAt
  <2>3. \A c : c \in ToSet(C(0)) <=> \E g \in DOMAIN headers : c \in ToSet(headers[g].callbacks)
    BY <2>2, EverywhereFacts
  <2> HIDE DEF C
  <2> QED BY <2>1, <2>3
<1> HIDE DEF C
<1>4. \A n : n \in CallbackNames(h) => \E c \in ToSet(C(h)) : n \in {<<c.name>>, Qualified(c)}
  BY <1>2 DEF ToSet
<1>5. \A n : (\E c \in ToSet(C(0)) : n \in {<<c.name>>, Qualified(c)}) => n \in CallbackNames(0)
  BY <1>2 DEF ToSet
<1> QED BY <1>3, <1>4, <1>5

\* With leaves unique, an enum that is found is the one that is meant.
LEMMA ResolvedEnumFacts ==
    ASSUME headers \in Inputs, UniqueLeaves, NEW t \in MentionedTypes
    PROVE  ResolvedEnum(t.display, t.canonical, KnownEnums) # NoSpelling =>
              /\ t.canonical.base \in KnownEnums
              /\ t.display.shape \in {"value"} \cup ArrayShape
              /\ t.display.shape \notin ArrayShape \/ t.canonical.shape \notin ArrayShape
<1>1. \A n \in KnownEnums :
         Last(n) \in {Last(t.display.base), Last(Untagged(t.display.base)), Last(t.canonical.base)}
             => t.canonical.base = n
  BY DEF UniqueLeaves, ProgramNames
<1>2. SUFFICES ASSUME ResolvedEnum(t.display, t.canonical, KnownEnums) # NoSpelling
      PROVE /\ t.canonical.base \in KnownEnums
            /\ t.display.shape \in {"value"} \cup ArrayShape
            /\ t.display.shape \notin ArrayShape \/ t.canonical.shape \notin ArrayShape
  OBVIOUS
<1>3. RawShape(t.display) = "value" /\ (KnownEnum(t.display, KnownEnums) \/ KnownEnum(t.canonical, KnownEnums))
  BY <1>2 DEF ResolvedEnum
<1>4. IsType(t)
  BY MentionedAreTypes
<1>5. t.display.shape \in {"value"} \cup ArrayShape
  BY <1>3, <1>4 DEF RawShape, IsType, Shape, ArrayShape
<1>6. Untagged(t.canonical.base) = t.canonical.base
  BY <1>4 DEF IsType
<1>7. t.canonical.base \in KnownEnums
  BY <1>1, <1>3, <1>6, MatchingNames DEF KnownEnum
<1> QED BY <1>3, <1>5, <1>7 DEF KnownEnum

\* An enum by value is found.
LEMMA EnumByValue ==
    ASSUME NEW t, IsType(t), NEW enums, t.canonical.base \in enums,
           t.canonical.shape = "value", t.display.shape = "value"
    PROVE  ResolvedEnum(t.display, t.canonical, enums) # NoSpelling
<1>1. KnownEnum(t.canonical, enums)
  BY DEF KnownEnum, NamesMatch, IsType, ArrayShape
<1>2. RawShape(t.display) = "value"
  BY DEF RawShape
<1>3. t.display # NoSpelling /\ t.canonical # NoSpelling
  BY DEF NoSpelling
<1> QED BY <1>1, <1>2, <1>3 DEF ResolvedEnum

\* With leaves unique, a record that is found is the one that is meant.
LEMMA FoundRecord ==
    ASSUME headers \in Inputs, UniqueLeaves, NEW h \in 0 .. Len(headers), NEW t \in MentionedTypes,
           NEW s \in {t.display, t.canonical}, KnownRecordType(s, IrRecords(h)) # NoType
    PROVE  LET u == KnownRecordType(s, IrRecords(h)) IN
           /\ IsIrType(u) /\ u.kind = ModelKindOf(s)
           /\ t.canonical.base \in RecordNames /\ Last(t.canonical.base) = Last(s.base)
           /\ u.handle = Flatten(PreferredName(t.canonical.base, PreferredAliases(h)))
<1> DEFINE known == IrRecords(h)
           u == KnownRecordType(s, known)
<1>1. /\ HaveHandles(known)
      /\ \A i \in DOMAIN known : known[i].cpp \in RecordNames
           /\ known[i].handle = Flatten(PreferredName(known[i].cpp, PreferredAliases(h)))
  BY IrRecordsFacts
<1> HIDE DEF known
<1>2. /\ IsIrType(u) /\ u.kind = ModelKindOf(s)
      /\ \E i \in DOMAIN known : NamesMatch(known[i].cpp, s.base) /\ u.handle = known[i].handle
  BY <1>1, KnownRecordTypeFacts DEF known
<1> HIDE DEF u
<1>3. PICK i \in DOMAIN known : NamesMatch(known[i].cpp, s.base) /\ u.handle = known[i].handle
  BY <1>2
<1>4. Last(known[i].cpp) = Last(s.base)
  BY <1>3, MatchingNames
<1>5. known[i].cpp \in ProgramNames
  BY <1>1 DEF ProgramNames
<1>6. t.canonical.base = known[i].cpp
  BY <1>4, <1>5 DEF UniqueLeaves
<1> QED BY <1>1, <1>2, <1>3, <1>4, <1>6 DEF u, known

\* The parts of the context of a header.
LEMMA EnvFields ==
    ASSUME NEW h
    PROVE  /\ NormalizeEnv(h).callbacks = CallbackNames(h) /\ NormalizeEnv(h).enums = KnownEnums
           /\ NormalizeEnv(h).records = IrRecords(h)
  BY DEF NormalizeEnv

\* What ends as the name of a class does has no brackets.
LEMMA BracketsStay ==
    ASSUME NEW b, NEW c, Builtin(b) = "name", Last(c) = Last(b)
    PROVE  Builtin(c) # "bracketed"
<1>1. ~IsBracketed(b)
  <2>1. SUFFICES ASSUME IsBracketed(b) PROVE Builtin(b) # "name"
    OBVIOUS
  <2>2. IsLibrary(b) \/ ~IsLibrary(b)
    OBVIOUS
  <2> QED BY <2>1, <2>2 DEF Builtin
<1>2. ~IsBracketed(c)
  BY <1>1 DEF IsBracketed
<1>3. Builtin(c) = "bracketed" => IsBracketed(c)
  BY DEF Builtin
<1> QED BY <1>2, <1>3

\* How a type of a class comes to its kind.
LEMMA ClassTypeSteps ==
    ASSUME headers \in Inputs, UniqueLeaves, NEW h \in 0 .. Len(headers), NEW t \in MentionedTypes,
           NormalizeWithCanonical(t, NormalizeEnv(h)) # NoType,
           Builtin(t.canonical.base) = "name", t.canonical.base \notin KnownEnums
    PROVE  LET u == NormalizeWithCanonical(t, NormalizeEnv(h))
               b == t.canonical.base
               known == Flatten(PreferredName(b, PreferredAliases(h)))
               model == u.kind \in ModelKind \cup {"FixedModelArray"}
           IN  \/ Fits(u.kind, t.display) /\ ~Bracketed(t.display) /\ u.handle = known
               \/ Fits(u.kind, t.canonical) /\ u.handle = known
               \/ /\ Fits(u.kind, t.display) /\ ~Bracketed(t.display)
                  /\ model => u.handle = Flatten(t.display.base)
               \/ /\ Fits(u.kind, t.canonical) /\ ~RawSafe(t.display)
                  /\ model => u.handle = Flatten(b)
<1> DEFINE env0 == NormalizeEnv(h)
           u == NormalizeWithCanonical(t, env0)
           b == t.canonical.base
           shown == KnownRecordType(t.display, IrRecords(h))
           meant == KnownRecordType(t.canonical, IrRecords(h))
           seen == ByDisplay(t.display, t.canonical, CallbackNames(h))
           plain == NormalizeType(t.canonical, CallbackNames(h))
           d == NormalizeType(t.display, CallbackNames(h))
           model(v) == v.kind \in ModelKind \cup {"FixedModelArray"}
<1>1. IsType(t)
  BY MentionedAreTypes
<1>2. t.display.shape # "double" /\ t.canonical.shape # "double"
  BY DEF NormalizeWithCanonical
<1>3. ResolvedEnum(t.display, t.canonical, KnownEnums) = NoSpelling
  BY ResolvedEnumFacts
<1>4. {t.display.base, t.canonical.base} \cap CallbackNames(h) = {}
  BY CallbacksOfAll DEF UniqueLeaves
<1>5. \/ shown # NoType /\ u = shown
      \/ meant # NoType /\ u = [meant EXCEPT !.cpp.const = t.display.const] /\ SameShape(t.display, t.canonical)
      \/ seen # NoType /\ u = seen
      \/ /\ seen = NoType /\ plain # NoType /\ u = [plain EXCEPT !.cpp = t.display]
         /\ SameShape(t.display, t.canonical)
  BY <1>2, <1>3, NormalizeSteps, EnvFields
<1>6. \A s \in {t.display, t.canonical} :
         s.shape \in Shape /\ s.shape # "double" /\ (Bracketed(s) => s.shape \in {"value", "array"})
  BY <1>1, <1>2 DEF IsType
<1>7. \A s \in {t.display, t.canonical} : Fits(ModelKindOf(s), s)
  BY <1>6, ModelKindFits
<1>8. CASE shown # NoType /\ u = shown
  <2>1. /\ shown.kind = ModelKindOf(t.display)
        /\ Last(b) = Last(t.display.base)
        /\ shown.handle = Flatten(PreferredName(b, PreferredAliases(h)))
    BY <1>8, FoundRecord
  <2>2. Fits(u.kind, t.display)
    BY <1>7, <1>8, <2>1
  <2>3. ~Bracketed(t.display)
    BY <2>1, BracketsStay DEF Bracketed
  <2> QED BY <1>8, <2>1, <2>2, <2>3
<1>9. CASE meant # NoType /\ u = [meant EXCEPT !.cpp.const = t.display.const] /\ SameShape(t.display, t.canonical)
  <2>1. /\ IsIrType(meant) /\ meant.kind = ModelKindOf(t.canonical)
        /\ meant.handle = Flatten(PreferredName(b, PreferredAliases(h)))
    BY <1>9, FoundRecord
  <2>2. u.kind = meant.kind /\ u.handle = meant.handle
    <3> HIDE DEF meant, u
    <3> QED BY <1>9, <2>1, OtherSpelling, IrTypeFields
  <2>3. Fits(u.kind, t.canonical)
    BY <1>7, <2>1, <2>2
  <2> QED BY <1>9, <2>1, <2>2, <2>3
<1>10. /\ d # NoType /\ model(d) => d.handle = Flatten(t.display.base)
       /\ d # NoType => Fits(d.kind, t.display)
       /\ RawSafe(t.display) => d = IrType(ModelKindOf(t.display), t.display, Flatten(t.display.base))
       /\ Bracketed(t.display) => d = NoType
  <2>1. Builtin(t.display.base) \in {"name", "library", "marked", "bracketed"}
    BY <1>1 DEF IsType
  <2> QED BY <1>4, <1>6, <2>1, ClassSpelling
<1>11. plain = IrType(ModelKindOf(t.canonical), t.canonical, Flatten(b))
  <2>1. RawSafe(t.canonical)
    BY <1>1 DEF IsType, RawSafe
  <2> QED BY <1>4, <1>6, <2>1, ClassSpelling
<1>12. plain.kind = ModelKindOf(t.canonical) /\ plain.handle = Flatten(b) /\ IsIrType(plain)
  BY <1>11, IrTypeFields
<1>13. /\ seen = NoType <=> d = NoType
       /\ seen # NoType =>
             \/ seen.kind = d.kind /\ seen.handle = d.handle
             \/ seen.kind = plain.kind /\ plain.kind \in CanonicalDecides
  BY <1>1, ByDisplayFacts
<1>14. plain.kind \notin CanonicalDecides
  BY <1>12 DEF ModelKindOf, CanonicalDecides
<1>15. CASE seen # NoType /\ u = seen
  <2>1. d # NoType /\ u.kind = d.kind /\ u.handle = d.handle
    BY <1>13, <1>14, <1>15
  <2>2. Fits(u.kind, t.display) /\ (model(u) => u.handle = Flatten(t.display.base))
    BY <1>10, <2>1
  <2>3. ~Bracketed(t.display)
    BY <1>10, <2>1
  <2> QED BY <2>2, <2>3
<1>16. CASE /\ seen = NoType /\ plain # NoType /\ u = [plain EXCEPT !.cpp = t.display]
            /\ SameShape(t.display, t.canonical)
  <2>1. u.kind = plain.kind /\ u.handle = plain.handle
    <3> HIDE DEF plain, u
    <3> QED BY <1>12, <1>16, OtherSpelling, IrTypeFields
  <2>2. Fits(u.kind, t.canonical) /\ u.handle = Flatten(b)
    BY <1>7, <1>12, <2>1
  <2>3. ~RawSafe(t.display)
    BY <1>10, <1>13, <1>16, IrTypeFields
  <2> QED BY <1>16, <2>2, <2>3
<1> HIDE DEF u, shown, meant, seen, plain, d
<1> QED BY <1>5, <1>8, <1>9, <1>15, <1>16

\* A class that a header knows has its preferred name.
LEMMA KnownHandle ==
    ASSUME headers \in Inputs, ConsistentNames, NEW h, NEW n, Builtin(n) = "name"
    PROVE  PreferredName(n, PreferredAliases(h)) = NameOf(n)
<1>1. IsSeq(PreferredAliases(h)) /\ ToSet(PreferredAliases(h)) = AliasedTypes
  BY PreferredAliasesFacts
<1>2. AliasedTypes \subseteq MentionedTypes /\ \A t \in MentionedTypes : IsType(t)
  BY MentionedAreTypes
<1>3. CASE \E t \in AliasedTypes : /\ GivesAlias(t) /\ t.canonical.base = n
                                   /\ PreferredName(n, PreferredAliases(h)) = t.display.base
  BY <1>2, <1>3 DEF ConsistentNames
<1>4. CASE /\ PreferredName(n, PreferredAliases(h)) = n
           /\ \A t \in AliasedTypes : ~(GivesAlias(t) /\ t.canonical.base = n)
  <2>1. CASE \E t \in MentionedTypes : t.canonical.base = n
    <3>1. PICK t \in MentionedTypes : t.canonical.base = n
      BY <2>1
    <3>2. /\ t.display.base = NameOf(n)
          /\ t.display.base = n \/ (t \in AliasedTypes /\ AliasBase(t.display) /\ ~Underscored(t.display.base))
      BY <3>1 DEF ConsistentNames
    <3>3. ASSUME t.display.base # n PROVE FALSE
      <4>1. t \in AliasedTypes /\ AliasBase(t.display) /\ ~Underscored(t.display.base)
        BY <3>2, <3>3
      <4>2. AliasBase(t.canonical)
        BY <1>2, <3>1 DEF AliasBase, RawSafe, IsType
      <4>3. PreferredBase(t.display.base, t.canonical.base) # t.canonical.base
        BY <3>1, <3>3, <4>1 DEF PreferredBase
      <4>4. GivesAlias(t)
        BY <4>1, <4>2, <4>3 DEF GivesAlias
      <4> QED BY <1>4, <3>1, <4>1, <4>4
    <3> QED BY <1>4, <3>2, <3>3
  <2>2. CASE ~\E t \in MentionedTypes : t.canonical.base = n
    BY <1>4, <2>2 DEF NameOf
  <2> QED BY <2>1, <2>2
<1> QED BY <1>1, <1>3, <1>4, PreferredNameFacts

\* What is by value stays so, and so is an enum.
LEMMA KindFits ==
    ASSUME headers \in Inputs, UniqueLeaves, NoHiddenPointers,
           NEW h \in 0 .. Len(headers), NEW t \in MentionedTypes,
           NormalizeWithCanonical(t, NormalizeEnv(h)) # NoType
    PROVE  LET u == NormalizeWithCanonical(t, NormalizeEnv(h))
               s == t.canonical
           IN  /\ u.kind = "Enum" <=> s.base \in KnownEnums /\ s.shape = "value"
               /\ Builtin(s.base) = "name" /\ s.base \notin KnownEnums => Fits(u.kind, s)
<1> DEFINE u == NormalizeWithCanonical(t, NormalizeEnv(h))
           s == t.canonical
           e == ResolvedEnum(t.display, t.canonical, KnownEnums)
<1>1. IsType(t)
  BY MentionedAreTypes
<1>2. \/ t.display.shape = s.shape
      \/ (t.display.shape \in ArrayShape \/ Bracketed(t.display)) /\ s.base \notin KnownEnums
  BY DEF NoHiddenPointers
<1>3. t.display.shape # "double" /\ s.shape # "double"
  BY DEF NormalizeWithCanonical
<1>4. e # NoSpelling <=> s.base \in KnownEnums /\ s.shape = "value"
  <2>1. e # NoSpelling => s.base \in KnownEnums /\ s.shape = "value"
    BY <1>2, ResolvedEnumFacts
  <2>2. s.base \in KnownEnums /\ s.shape = "value" => e # NoSpelling
    BY <1>1, <1>2, EnumByValue
  <2> QED BY <2>1, <2>2
<1>5. u.kind = "Enum" <=> e # NoSpelling
  <2>1. CASE e # NoSpelling
    <3>1. u = IrType("Enum", e, NoHandle)
      BY <1>3, <2>1, NormalizeSteps, EnvFields
    <3> QED BY <2>1, <3>1, IrTypeFields
  <2>2. CASE e = NoSpelling
    <3> DEFINE shown == KnownRecordType(t.display, IrRecords(h))
               meant == KnownRecordType(t.canonical, IrRecords(h))
               seen == ByDisplay(t.display, t.canonical, CallbackNames(h))
               plain == NormalizeType(t.canonical, CallbackNames(h))
    <3>1. \/ shown # NoType /\ u = shown
          \/ meant # NoType /\ u = [meant EXCEPT !.cpp.const = t.display.const]
          \/ seen # NoType /\ u = seen
          \/ plain # NoType /\ u = [plain EXCEPT !.cpp = t.display]
      BY <1>3, <2>2, NormalizeSteps, EnvFields
    <3>2. HaveHandles(IrRecords(h))
      BY IrRecordsFacts
    <3>3. \A x : ModelKindOf(x) # "Enum"
      BY DEF ModelKindOf
    <3>4. /\ shown # NoType => shown.kind # "Enum"
          /\ meant # NoType => meant.kind # "Enum" /\ IsIrType(meant)
      BY <3>2, <3>3, KnownRecordTypeFacts
    <3>5. seen # NoType => seen.kind # "Enum"
      BY <1>1, ByDisplayFacts
    <3>6. plain # NoType => plain.kind # "Enum" /\ IsIrType(plain)
      BY <1>1, PlainType DEF IsType
    <3> HIDE DEF shown, meant, seen, plain, u
    <3>7. meant # NoType => [meant EXCEPT !.cpp.const = t.display.const].kind = meant.kind
      BY <3>4, OtherSpelling, IrTypeFields
    <3>8. plain # NoType => [plain EXCEPT !.cpp = t.display].kind = plain.kind
      BY <3>6, OtherSpelling, IrTypeFields
    <3> QED BY <2>2, <3>1, <3>4, <3>5, <3>6, <3>7, <3>8
  <2> QED BY <2>1, <2>2
<1>6. ASSUME Builtin(s.base) = "name", s.base \notin KnownEnums
      PROVE  Fits(u.kind, s)
  <2>1. Fits(u.kind, s) \/ (Fits(u.kind, t.display) /\ ~Bracketed(t.display))
    BY <1>6, ClassTypeSteps
  <2>2. CASE t.display.shape = s.shape
    BY <2>1, <2>2 DEF Fits
  <2>3. CASE t.display.shape \in ArrayShape
    <3>1. s.shape \notin {"value"} \cup ReferenceShape
      BY <1>1, <2>3 DEF IsType, ArrayShape, ReferenceShape
    <3>2. t.display.shape \notin {"value"} \cup ReferenceShape
      BY <2>3 DEF ArrayShape, ReferenceShape
    <3> HIDE DEF u
    <3> QED BY <2>1, <3>1, <3>2 DEF Fits
  <2> QED BY <1>2, <2>1, <2>2, <2>3
<1> QED BY <1>4, <1>5, <1>6

\* A class has one handle.
LEMMA HandleOfClass ==
    ASSUME headers \in Inputs, UniqueLeaves, ConsistentNames,
           NEW h \in 0 .. Len(headers), NEW t \in MentionedTypes,
           NormalizeWithCanonical(t, NormalizeEnv(h)) # NoType,
           Builtin(t.canonical.base) = "name", t.canonical.base \notin KnownEnums,
           NormalizeWithCanonical(t, NormalizeEnv(h)).kind \in ModelKind \cup {"FixedModelArray"}
    PROVE  NormalizeWithCanonical(t, NormalizeEnv(h)).handle = Flatten(NameOf(t.canonical.base))
<1> DEFINE u == NormalizeWithCanonical(t, NormalizeEnv(h))
           b == t.canonical.base
<1>1. \/ u.handle = Flatten(PreferredName(b, PreferredAliases(h)))
      \/ u.handle = Flatten(t.display.base)
      \/ u.handle = Flatten(b) /\ ~RawSafe(t.display)
  BY ClassTypeSteps
<1>2. PreferredName(b, PreferredAliases(h)) = NameOf(b)
  BY KnownHandle
<1>3. /\ t.display.base = NameOf(b)
      /\ t.display.base = b \/ AliasBase(t.display)
  BY DEF ConsistentNames
<1>4. ~RawSafe(t.display) => t.display.base = b
  BY <1>3 DEF AliasBase
<1> QED BY <1>1, <1>2, <1>3, <1>4

------------------------------------------------------------------------------
(* Variants of callables.                                                  *)

\* The first n parameters of a list.
LEMMA ShortenedParams ==
    ASSUME NEW params, IsSeq(params), NEW n \in 0 .. Len(params)
    PROVE  /\ IsSeq(SubSeq(params, 1, n)) /\ DOMAIN SubSeq(params, 1, n) = 1..n
           /\ \A k \in 1..n : SubSeq(params, 1, n)[k] = params[k] /\ k \in DOMAIN params
           /\ TypesOf(SubSeq(params, 1, n)) \subseteq TypesOf(params)
           /\ n = Len(params) => SubSeq(params, 1, n) = params
<1> DEFINE s == SubSeq(params, 1, n)
<1>1. params \in Seq(ToSet(params)) /\ Len(params) \in Nat /\ DOMAIN params = 1..Len(params)
  BY SeqFacts DEF IsSeq
<1>2. s \in Seq(ToSet(params)) /\ Len(s) = n /\ \A k \in 1..n : s[k] = params[k]
  BY <1>1
<1>3. DOMAIN s = 1..n /\ n \in Nat /\ s = [k \in 1..n |-> s[k]]
  BY <1>1, <1>2
<1> HIDE DEF s
<1>4. IsSeq(s)
  BY <1>3, FunctionIsSeq
<1>5. \A k \in 1..n : k \in DOMAIN params
  BY <1>1
<1>6. TypesOf(s) \subseteq TypesOf(params)
  BY <1>2, <1>3, <1>5 DEF TypesOf
<1>7. n = Len(params) => s = params
  BY <1>1, <1>2
<1> QED BY <1>2, <1>3, <1>4, <1>5, <1>6, <1>7 DEF s

\* The signature a callable has with its first n parameters.
LEMMA CutFacts ==
    ASSUME NEW c, IsSeq(c.params), NEW n \in 0 .. Len(c.params)
    PROVE  /\ DOMAIN Cut(c, n) = 1..n
           /\ Cut(c, n) = Signature(SubSeq(c.params, 1, n))
           /\ n = Len(c.params) => Cut(c, n) = Signature(c.params)
           /\ Len(c.params) \in Nat
<1>1. DOMAIN SubSeq(c.params, 1, n) = 1..n /\ (n = Len(c.params) => SubSeq(c.params, 1, n) = c.params)
  BY ShortenedParams
<1>2. Len(c.params) \in Nat
  BY SeqFacts
<1> QED BY <1>1, <1>2 DEF Cut, Signature

\* Two variants of overloads differ in what they take.
LEMMA VariantsDiffer ==
    ASSUME NEW callables, Listed(callables), NEW i \in DOMAIN callables, NEW j \in DOMAIN callables,
           NEW n \in Variants(callables, i), NEW m \in Variants(callables, j),
           SameGroup(callables[i], callables[j]), Cut(callables[i], n) = Cut(callables[j], m)
    PROVE  i = j /\ n = m
<1>1. /\ Len(callables) \in Nat /\ DOMAIN callables = 1..Len(callables)
      /\ \A k \in DOMAIN callables : callables[k] \in ToSet(callables) /\ IsSeq(callables[k].params)
  BY SeqFacts DEF Listed
<1>2. /\ n \in Lengths(callables[i]) /\ Offers(callables, i, n)
      /\ m \in Lengths(callables[j]) /\ Offers(callables, j, m)
  BY DEF Variants
<1>3. \A k \in 1 .. i - 1 : SameGroup(callables[i], callables[k]) =>
        \A l \in Lengths(callables[k]) : Offers(callables, k, l) => Cut(callables[k], l) # Cut(callables[i], n)
  BY DEF Variants
<1>4. \A k \in 1 .. j - 1 : SameGroup(callables[j], callables[k]) =>
        \A l \in Lengths(callables[k]) : Offers(callables, k, l) => Cut(callables[k], l) # Cut(callables[j], m)
  BY DEF Variants
<1>5. SameGroup(callables[j], callables[i])
  BY DEF SameGroup
<1>6. ~(j < i)
  BY <1>1, <1>2, <1>3
<1>7. ~(i < j)
  BY <1>1, <1>2, <1>4, <1>5
<1>8. i = j
  BY <1>1, <1>6, <1>7
<1>9. n \in 0 .. Len(callables[i].params) /\ m \in 0 .. Len(callables[i].params)
  BY <1>2, <1>8 DEF Lengths
<1>10. 1..n = 1..m /\ Len(callables[i].params) \in Nat
  BY <1>1, <1>8, <1>9, CutFacts
<1>11. n = m
  BY <1>9, <1>10
<1> QED BY <1>8, <1>11

\* The full list is always offered.
LEMMA FullListOffered ==
    ASSUME NEW callables, Overloads(callables), NEW i \in DOMAIN callables
    PROVE  Len(callables[i].params) \in Variants(callables, i)
<1> DEFINE full == Len(callables[i].params)
<1>1. /\ Len(callables) \in Nat /\ DOMAIN callables = 1..Len(callables)
      /\ \A k \in DOMAIN callables : IsSeq(callables[k].params) /\ Len(callables[k].params) \in Nat
  BY SeqFacts DEF Overloads
<1>2. full \in Lengths(callables[i])
  BY <1>1 DEF Lengths
<1>3. Offers(callables, i, full)
  BY DEF Offers
<1>4. Cut(callables[i], full) = Signature(callables[i].params)
  BY <1>1, CutFacts
<1>5. ASSUME NEW j \in 1 .. i - 1, SameGroup(callables[i], callables[j]),
             NEW m \in Lengths(callables[j]), Offers(callables, j, m),
             Cut(callables[j], m) = Cut(callables[i], full)
      PROVE  FALSE
  <2>1. j \in DOMAIN callables /\ j # i /\ SameGroup(callables[j], callables[i])
    BY <1>1, <1>5 DEF SameGroup
  <2>2. CASE m = Len(callables[j].params)
    <3>1. m \in 0 .. Len(callables[j].params)
      BY DEF Lengths
    <3>2. Cut(callables[j], m) = Signature(callables[j].params)
      BY <1>1, <2>1, <2>2, <3>1, CutFacts
    <3> QED BY <1>4, <1>5, <2>1, <3>2 DEF Overloads
  <2>3. CASE m # Len(callables[j].params)
    BY <1>4, <1>5, <2>1, <2>3 DEF Offers
  <2> QED BY <2>2, <2>3
<1> HIDE DEF full
<1>6. full \in Variants(callables, i)
  BY <1>2, <1>3, <1>5 DEF Variants
<1> QED BY <1>6 DEF full

\* What VariantsOf lists, each variant's outcome being in w.
Listing(callables, i, w) ==
    FlattenSeq([k \in 1 .. Len(callables[i].params) + 1 |->
        IF Len(callables[i].params) + 1 - k \in Variants(callables, i)
        THEN <<w[Len(callables[i].params) + 1 - k]>> ELSE << >>])

\* The variants of one callable, from the full list of parameters to the shortest one.
LEMMA ListingFacts ==
    ASSUME NEW callables, Listed(callables), NEW i \in DOMAIN callables, NEW w
    PROVE  LET s == Listing(callables, i, w) IN
           /\ IsSeq(s)
           /\ \A e : e \in ToSet(s) <=> \E n \in Variants(callables, i) : e = w[n]
           /\ \A R : (\A m, n \in Variants(callables, i) : <<w[m], w[n]>> \in R => m = n) => Apart(s, R)
<1> DEFINE full == Len(callables[i].params)
           V == Variants(callables, i)
           p == [k \in 1 .. full + 1 |-> IF full + 1 - k \in V THEN <<w[full + 1 - k]>> ELSE << >>]
<1>1. full \in Nat
  <2>1. callables[i] \in ToSet(callables)
    BY DEF ToSet
  <2> QED BY <2>1, SeqFacts DEF Listed
<1>2. V \subseteq 0 .. full
  BY DEF Variants, Lengths
<1>3. Listing(callables, i, w) = FlattenSeq(p)
  BY DEF Listing
<1> HIDE DEF full, V
<1>4. /\ DOMAIN p = 1 .. full + 1
      /\ \A k \in 1 .. full + 1 : p[k] = IF full + 1 - k \in V THEN <<w[full + 1 - k]>> ELSE << >>
  OBVIOUS
<1>5. IsSeq(p)
  BY <1>1, FunctionIsSeq
<1> HIDE DEF p
<1>6. \A e : IsSeq(<<e>>) /\ ToSet(<<e>>) = {e} /\ DOMAIN <<e>> = {1}
  BY DEF IsSeq, ToSet
<1>7. IsSeq(<< >>) /\ ToSet(<< >>) = {} /\ DOMAIN << >> = {}
  BY DEF IsSeq, ToSet
<1>8. \A k \in DOMAIN p : IsSeq(p[k]) /\ \A R : Apart(p[k], R)
  BY <1>4, <1>6, <1>7 DEF Apart
<1>9. \A k \in DOMAIN p : \A e : e \in ToSet(p[k]) <=> full + 1 - k \in V /\ e = w[full + 1 - k]
  BY <1>4, <1>6, <1>7
<1>10. IsSeq(FlattenSeq(p)) /\ ToSet(FlattenSeq(p)) = UNION {ToSet(p[k]) : k \in DOMAIN p}
  BY <1>5, <1>8, FlattenFacts
<1>11. \A n \in V : full + 1 - n \in DOMAIN p /\ full + 1 - (full + 1 - n) = n
  BY <1>1, <1>2, <1>4
<1>12. \A e : e \in ToSet(FlattenSeq(p)) <=> \E n \in V : e = w[n]
  <2>1. ASSUME NEW e \in ToSet(FlattenSeq(p)) PROVE \E n \in V : e = w[n]
    BY <1>9, <1>10
  <2>2. ASSUME NEW n \in V PROVE w[n] \in ToSet(FlattenSeq(p))
    BY <1>9, <1>10, <1>11
  <2> QED BY <2>1, <2>2
<1>13. ASSUME NEW R, \A m, n \in V : <<w[m], w[n]>> \in R => m = n PROVE Apart(FlattenSeq(p), R)
  <2>1. ASSUME NEW k \in DOMAIN p, NEW l \in DOMAIN p, k # l, NEW a \in ToSet(p[k]), NEW b \in ToSet(p[l])
        PROVE  <<a, b>> \notin R
    <3>1. full + 1 - k \in V /\ a = w[full + 1 - k] /\ full + 1 - l \in V /\ b = w[full + 1 - l]
      BY <1>9, <2>1
    <3>2. full + 1 - k # full + 1 - l
      BY <1>1, <1>4, <2>1
    <3> QED BY <1>13, <3>1, <3>2
  <2> QED BY <1>5, <1>8, <2>1, FlattenApart
<1> QED BY <1>3, <1>10, <1>12, <1>13 DEF V

\* All callables of a list.
Listings(callables, w) == FlattenSeq([i \in DOMAIN callables |-> Listing(callables, i, w[i])])

\* The variants of all callables of a list.
LEMMA ListingsFacts ==
    ASSUME NEW callables, Listed(callables), NEW w
    PROVE  LET s == Listings(callables, w) IN
           /\ IsSeq(s)
           /\ \A e : e \in ToSet(s) <=> \E i \in DOMAIN callables : \E n \in Variants(callables, i) : e = w[i][n]
           /\ \A R : (\A i, j \in DOMAIN callables : \A m \in Variants(callables, i), n \in Variants(callables, j) :
                          <<w[i][m], w[j][n]>> \in R => i = j /\ m = n) => Apart(s, R)
<1> DEFINE p == [i \in DOMAIN callables |-> Listing(callables, i, w[i])]
<1>1. Len(callables) \in Nat /\ DOMAIN callables = 1..Len(callables)
  BY SeqFacts DEF Listed
<1>2. IsSeq(p) /\ DOMAIN p = DOMAIN callables /\ \A i \in DOMAIN callables : p[i] = Listing(callables, i, w[i])
  BY <1>1, FunctionIsSeq
<1>3. Listings(callables, w) = FlattenSeq(p)
  BY DEF Listings
<1> HIDE DEF p
<1>4. \A i \in DOMAIN callables :
        /\ IsSeq(p[i])
        /\ \A e : e \in ToSet(p[i]) <=> \E n \in Variants(callables, i) : e = w[i][n]
        /\ \A R : (\A m, n \in Variants(callables, i) : <<w[i][m], w[i][n]>> \in R => m = n) => Apart(p[i], R)
  BY <1>2, ListingFacts
<1>5. IsSeq(FlattenSeq(p)) /\ ToSet(FlattenSeq(p)) = UNION {ToSet(p[i]) : i \in DOMAIN p}
  BY <1>2, <1>4, FlattenFacts
<1>6. \A e : e \in ToSet(FlattenSeq(p)) <=> \E i \in DOMAIN callables : e \in ToSet(p[i])
  BY <1>2, <1>5
<1>7. \A e : e \in ToSet(FlattenSeq(p)) <=>
            \E i \in DOMAIN callables : \E n \in Variants(callables, i) : e = w[i][n]
  <2>1. ASSUME NEW e \in ToSet(FlattenSeq(p))
        PROVE  \E i \in DOMAIN callables : \E n \in Variants(callables, i) : e = w[i][n]
    <3>1. PICK i \in DOMAIN callables : e \in ToSet(p[i])
      BY <1>6, <2>1
    <3> QED BY <1>4, <3>1
  <2>2. ASSUME NEW i \in DOMAIN callables, NEW n \in Variants(callables, i)
        PROVE  w[i][n] \in ToSet(FlattenSeq(p))
    <3>1. w[i][n] \in ToSet(p[i])
      BY <1>4, <2>2
    <3> QED BY <1>6, <3>1
  <2> QED BY <2>1, <2>2
<1>8. ASSUME NEW R, \A i, j \in DOMAIN callables :
                      \A m \in Variants(callables, i), n \in Variants(callables, j) :
                          <<w[i][m], w[j][n]>> \in R => i = j /\ m = n
      PROVE  Apart(FlattenSeq(p), R)
  <2>1. \A i \in DOMAIN p : IsSeq(p[i]) /\ Apart(p[i], R)
    BY <1>2, <1>4, <1>8
  <2>2. ASSUME NEW i \in DOMAIN p, NEW j \in DOMAIN p, i # j, NEW a \in ToSet(p[i]), NEW b \in ToSet(p[j])
        PROVE  <<a, b>> \notin R
    <3>1. PICK m \in Variants(callables, i) : a = w[i][m]
      BY <1>2, <1>4, <2>2
    <3>2. PICK n \in Variants(callables, j) : b = w[j][n]
      BY <1>2, <1>4, <2>2
    <3> QED BY <1>2, <1>8, <2>2, <3>1, <3>2
  <2> QED BY <1>2, <2>1, <2>2, FlattenApart
<1> QED BY <1>3, <1>5, <1>7, <1>8

\* What is of the library is no name of the program.
LEMMA LibraryBase ==
    ASSUME NEW b, IsLibrary(b)
    PROVE  Builtin(b) # "name" /\ Builtin(b) # "marked" /\ Builtin(b) # "bracketed"
<1>1. b = <<<<"std">>, <<"string">>>> \/ b # <<<<"std">>, <<"string">>>>
  OBVIOUS
<1>2. Builtin(b) # "name"
  BY <1>1 DEF Builtin
<1>3. Builtin(b) # "marked"
  BY DEF Builtin
<1>4. Builtin(b) # "bracketed"
  BY DEF Builtin
<1> QED BY <1>2, <1>3, <1>4

\* The text of a base that is not of the library does not look like it.
LEMMA OwnBase ==
    ASSUME NEW b, Builtin(b) \in {"name", "marked", "bracketed"}
    PROVE  "<" \notin Marks(b) /\ b[1] # <<"std">> /\ ~IsPrimitive(b)
<1>1. ~IsLibrary(b)
  BY LibraryBase
<1>2. Builtin(b) \notin {"char", "uchar", "primitive", "typedef"}
  OBVIOUS
<1> QED BY <1>1, <1>2 DEF IsLibrary, IsPrimitive

\* A type of a class or an enum, or of a number, is understood, but for arrays with
\* a tag and spellings with brackets.
LEMMA TypeUnderstood ==
    ASSUME NEW t, IsType(t), NEW known, IsNamed(t) \/ IsPlainValue(t),
           "double" \notin {t.display.shape, t.canonical.shape},
           NormalizeWithCanonical(t, known) = NoType
    PROVE  (TaggedArray(t) \/ Bracketed(t.display)) /\ ByValueCandidate(t.display)
<1> DEFINE d == NormalizeType(t.display, known.callbacks)
           c == NormalizeType(t.canonical, known.callbacks)
           seen == ByDisplay(t.display, t.canonical, known.callbacks)
<1>1. \A k, x, h : IrType(k, x, h) # NoType
  BY IrTypeFields
<1>2. /\ seen = NoType
      /\ c = NoType \/ ~SameShape(t.display, t.canonical)
  <2>1. ResolvedEnum(t.display, t.canonical, known.enums) # NoSpelling \/ ResolvedEnum(t.display, t.canonical, known.enums) = NoSpelling
    OBVIOUS
  <2>2. ASSUME NEW u, NEW x, IsIrType(u)
        PROVE  [u EXCEPT !.cpp = x] # NoType /\ [u EXCEPT !.cpp.const = x] # NoType
    <3>1. [u EXCEPT !.cpp = x] = IrType(u.kind, x, u.handle)
      BY <2>2, OtherSpelling
    <3>2. [u EXCEPT !.cpp.const = x] = IrType(u.kind, [u.cpp EXCEPT !.const = x], u.handle)
      BY <2>2, OtherSpelling
    <3>3. IrType(u.kind, x, u.handle) # NoType /\ IrType(u.kind, [u.cpp EXCEPT !.const = x], u.handle) # NoType
      BY <1>1
    <3> QED BY <3>1, <3>2, <3>3
  <2>3. c # NoType => [c EXCEPT !.cpp = t.display] # NoType
    BY <2>2, PlainType DEF IsType
  <2>4. KnownRecordType(t.canonical, known.records) # NoType =>
            [KnownRecordType(t.canonical, known.records) EXCEPT !.cpp.const = t.display.const] # NoType
    <3>1. KnownRecordType(t.canonical, known.records) # NoType => IsIrType(KnownRecordType(t.canonical, known.records))
      <4>1. ASSUME KnownRecordType(t.canonical, known.records) # NoType
            PROVE  \E k, x, h : KnownRecordType(t.canonical, known.records) = IrType(k, x, h)
        BY <4>1 DEF KnownRecordType
      <4>2. PICK k, x, h : KnownRecordType(t.canonical, known.records) # NoType =>
                              KnownRecordType(t.canonical, known.records) = IrType(k, x, h)
        BY <4>1
      <4> QED BY <4>2, IrTypeFields
    <3> QED BY <2>2, <3>1
  <2> QED BY <1>1, <2>3, <2>4, NormalizeSteps
<1>3. d = NoType
  BY <1>2, ByDisplayFacts
<1>4. t.display.shape \in {"value", "pointer"} \cup ArrayShape \cup ReferenceShape
  BY DEF IsType, Shape, ArrayShape, ReferenceShape
<1>5. t.display.shape = "value" => t.display.base \notin known.callbacks
  BY <1>1, <1>3 DEF NormalizeType
<1>6. IsNamed(t)
  <2>1. ASSUME IsPlainValue(t) PROVE FALSE
    <3>1. ValueType(t.display) # NoType
      BY <1>1, <2>1 DEF IsPlainValue, ValueType
    <3> QED BY <1>3, <1>5, <2>1, <3>1 DEF NormalizeType, IsPlainValue
  <2> QED BY <2>1
<1>7. {Builtin(t.display.base), Builtin(t.canonical.base)} \subseteq {"name", "marked", "bracketed"}
  BY <1>6 DEF IsNamed
<1>8. \A s : Builtin(s.base) \in {"name", "marked"} =>
                 (ModelType(s) = NoType <=> s.struct)
  BY <1>1 DEF ModelType, RawSafe
<1>9. \A s : Builtin(s.base) \in {"name", "marked", "bracketed"} =>
                 ValueType(s) = ModelType(s) /\ ArrayType(s) = ModelType(s)
  BY DEF ValueType, ArrayType
<1>10. \A s \in {t.display, t.canonical} : Bracketed(s) => s.shape \in {"value", "array"}
  BY DEF IsType
<1>11. t.display.shape \in {"value"} \cup ArrayShape
  <2>1. SUFFICES ASSUME t.display.shape \in {"pointer"} \cup ReferenceShape PROVE FALSE
    BY <1>4
  <2>2. Builtin(t.display.base) \in {"name", "marked"}
    BY <1>7, <1>10, <2>1 DEF Bracketed, ReferenceShape
  <2>3. CASE t.display.shape = "pointer"
    <3>1. PointerType(t.display) =
              IF t.display.struct THEN IrType("ExternStructPointer", t.display, NoHandle)
              ELSE ModelType(t.display)
      BY <2>2 DEF PointerType, ExternStruct
    <3>2. PointerType(t.display) # NoType
      BY <1>1, <1>8, <2>2, <3>1
    <3> QED BY <1>3, <2>3, <3>2 DEF NormalizeType
  <2>4. CASE t.display.shape = "reference"
    <3>1. ReferenceType(t.display) # NoType
      BY <1>1, <1>8, <2>2 DEF ReferenceType, ExternStruct, IsPrimitive
    <3> QED BY <1>3, <2>4, <3>1 DEF NormalizeType
  <2>5. CASE t.display.shape = "pointerreference"
    BY <1>1, <1>3, <1>8, <2>2, <2>5 DEF NormalizeType, ExternStruct
  <2> QED BY <2>1, <2>3, <2>4, <2>5 DEF ReferenceShape
<1>12. ByValueCandidate(t.display)
  <2>1. "<" \notin Marks(t.display.base) /\ t.display.base[1] # <<"std">> /\ ~IsPrimitive(t.display.base)
    BY <1>7, OwnBase
  <2>2. Builtin(t.display.base) # "void"
    BY <1>7
  <2> QED BY <1>11, <2>1, <2>2 DEF ByValueCandidate
<1>13. CASE Bracketed(t.display)
  BY <1>12, <1>13
<1>14. CASE ~Bracketed(t.display)
  <2>1. Builtin(t.display.base) \in {"name", "marked"}
    BY <1>7, <1>14 DEF Bracketed
  <2>2. d = ModelType(t.display)
    BY <1>5, <1>7, <1>9, <1>11 DEF NormalizeType, ArrayShape
  <2>3. t.display.struct
    BY <1>3, <1>8, <2>1, <2>2
  <2>4. t.display.shape \in {t.canonical.shape} \cup ArrayShape /\ ~Bracketed(t.canonical)
    BY <1>14, <2>3 DEF IsType
  <2>5. ASSUME t.canonical.shape \in {"value", "pointerarray"}, t.canonical.shape = t.display.shape
        PROVE  FALSE
    <3>1. Builtin(t.canonical.base) \in {"name", "marked"} /\ ~t.canonical.struct
      BY <1>7, <2>4 DEF Bracketed, IsType
    <3>2. ModelType(t.canonical) # NoType
      BY <1>8, <3>1
    <3>3. c # NoType
      BY <1>1, <1>7, <1>9, <2>5, <3>2 DEF NormalizeType
    <3>4. SameShape(t.display, t.canonical)
      BY <2>5 DEF SameShape, RawShape
    <3> QED BY <1>2, <3>3, <3>4
  <2>6. t.display.shape # "value"
    BY <2>4, <2>5 DEF ArrayShape
  <2>7. t.display.shape # "pointerarray"
    BY <2>5 DEF IsType
  <2> QED BY <1>11, <1>12, <2>3, <2>6, <2>7 DEF ArrayShape, TaggedArray
<1> QED BY <1>13, <1>14

------------------------------------------------------------------------------
(* What comes of a declaration.                                            *)

FunctionFields ==
    {"name", "kind", "cpp", "owner", "const", "accessor", "params", "returns", "takes", "gives"}

FromCode(f) == f.accessor = "" /\ f.kind # "Destructor"

\* u is what header h makes of a type with the canonical spelling s.
Translated(u, s, h) ==
    \E t \in MentionedTypes :
        u = NormalizeWithCanonical(t, NormalizeEnv(h)) /\ u # NoType /\ s = t.canonical

\* A function whose types are well formed, and translated from those of its C++.
Faithful(f, h) ==
    /\ DOMAIN f = FunctionFields /\ IsSeq(f.params)
    /\ \A t \in TypesIn(f) : WellFormed(t)
    /\ FromCode(f) =>
          /\ \A k \in DOMAIN f.params : Translated(f.params[k], f.takes[k], h)
          /\ f.kind # "Constructor" => Translated(f.returns, f.gives, h)

\* The handle of an array that an accessor takes or gives is also taken by pointer.
Backed(fs) ==
    \A f \in fs : \A t \in TypesIn(f) : t.kind = "FixedModelArray" /\ f.accessor # "" =>
        \E g \in fs : \E u \in TypesIn(g) : u.kind \in ModelKind /\ u.handle = t.handle

\* Wrappers whose arrays are backed among themselves are backed in a larger set of such.
LEMMA BackedUnion ==
    ASSUME NEW S, \A fs \in S : Backed(fs)
    PROVE  Backed(UNION S)
  BY DEF Backed

\* What emitted outcomes have.
EmitsAs(o, kind, cpp, const, takes, gives) ==
    /\ o.out = "emit"
    /\ o.function.kind = kind /\ o.function.cpp = cpp /\ o.function.const = const
    /\ o.function.takes = takes /\ o.function.gives = gives /\ FromCode(o.function)

\* The three kinds of outcome.
LEMMA OutcomeFacts ==
    ASSUME NEW x
    PROVE  /\ Emit(x).out = "emit" /\ Emit(x).function = x
           /\ Skip(x).out = "skip" /\ Skip(x).cpp = x
           /\ Failure.out = "fail"
  BY DEF Emit, Skip, Failure

\* A type that is translated is well formed, and is not the opaque type of a receiver.
LEMMA TypesAreWellFormed ==
    ASSUME headers \in Inputs, NEW h \in 0 .. Len(headers), NEW t \in MentionedTypes
    PROVE  LET u == NormalizeWithCanonical(t, NormalizeEnv(h)) IN
           u # NoType => WellFormed(u) /\ IsIrType(u) /\ u.kind # "Opaque"
<1>1. IsType(t)
  BY MentionedAreTypes
<1>2. HaveHandles(NormalizeEnv(h).records)
  BY IrRecordsFacts, EnvFields
<1> QED BY <1>1, <1>2, TypeWellFormed

Results(params) == [i \in DOMAIN params |-> NormalizeWithCanonical(params[i].type, env)]

\* Of the parameters of a variant there is a number.
LEMMA CountIsNatural ==
    ASSUME NEW s, IsSeq(s), NEW n \in 0 .. Len(s)
    PROVE  n \in Nat
  BY SeqFacts

\* The function that a callable, or a constructor, becomes.
LEMMA FunctionFaithful ==
    ASSUME headers \in Inputs, NEW h \in 0 .. Len(headers), env = NormalizeEnv(h),
           NEW c, IsSeq(c.params), NEW n \in 0 .. Len(c.params), TypesOf(c.params) \subseteq MentionedTypes,
           ~ParamsFail(SubSeq(c.params, 1, n)),
           NEW f, DOMAIN f = FunctionFields, f.accessor = "", f.kind # "Destructor",
           f.params = Results(SubSeq(c.params, 1, n)), f.takes = Signature(SubSeq(c.params, 1, n)),
           WellFormed(f.returns), f.kind # "Constructor" => Translated(f.returns, f.gives, h)
    PROVE  Faithful(f, h) /\ FromCode(f) /\ f.takes = Cut(c, n)
<1> DEFINE params == SubSeq(c.params, 1, n)
           made == Results(params)
<1>2. f.takes = Cut(c, n)
  BY CutFacts
<1>n. n \in Nat
  BY CountIsNatural
<1>p. DOMAIN params = 1..n /\ TypesOf(params) \subseteq TypesOf(c.params)
  BY ShortenedParams
<1>3. DOMAIN params = 1..n /\ n \in Nat /\ TypesOf(params) \subseteq MentionedTypes
  BY <1>n, <1>p
<1>4. IsSeq(made) /\ DOMAIN made = 1..n
  BY <1>3, FunctionIsSeq DEF Results
<1>5. \A k \in 1..n : params[k].type \in MentionedTypes
  BY <1>3 DEF TypesOf
<1>6. \A k \in 1..n : f.takes[k] = params[k].type.canonical
  BY <1>3 DEF Signature
<1>7. \A k \in 1..n : made[k] = NormalizeWithCanonical(params[k].type, NormalizeEnv(h)) /\ made[k] # NoType
  BY <1>3 DEF ParamsFail, Results
<1>m. f.params = made
  OBVIOUS
<1> HIDE DEF made, params
<1>8. \A k \in 1..n : Translated(made[k], f.takes[k], h) /\ WellFormed(made[k])
  BY <1>5, <1>6, <1>7, TypesAreWellFormed DEF Translated
<1>9. \A t \in TypesIn(f) : WellFormed(t)
  BY <1>m, <1>4, <1>8 DEF TypesIn
<1>10. Faithful(f, h)
  BY <1>m, <1>4, <1>8, <1>9 DEF Faithful
<1>11. FromCode(f)
  BY DEF FromCode
<1> QED BY <1>2, <1>10, <1>11

\* normalize_function, normalize_method, normalize_operator
LEMMA CallableOutcome ==
    ASSUME headers \in Inputs, NEW h \in 0 .. Len(headers), env = NormalizeEnv(h),
           NEW c, IsSeq(c.params), NEW n \in 0 .. Len(c.params), CallTypes(c) \subseteq MentionedTypes,
           NEW owner
    PROVE  LET o == NormalizeCallable(c, n, owner)
               cpp == IF owner = << >> THEN Qualified(c) ELSE Append(owner[1].cpp, c.name)
           IN  \/ o = Failure \/ o = Skip(cpp)
               \/ /\ EmitsAs(o, IF owner = << >> THEN "Function" ELSE "Method", cpp,
                             IF owner = << >> THEN FALSE ELSE c.const, Cut(c, n), c.returns.canonical)
                  /\ Faithful(o.function, h)
<1> DEFINE o == NormalizeCallable(c, n, owner)
           params == SubSeq(c.params, 1, n)
           cpp == IF owner = << >> THEN Qualified(c) ELSE Append(owner[1].cpp, c.name)
           returns == NormalizeWithCanonical(c.returns, env)
           no == FALSE
           freeName == SymbolName(c.ns, << >>, c.tail)
           memberName == SymbolName(Front(owner[1].cpp), <<Last(owner[1].cpp)>>, c.tail)
           handle == owner[1].handle
           const == c.const
           free == Function(freeName, "Function", cpp, NoHandle, no, params, returns, c)
           member == Function(memberName, "Method", cpp, handle, const, params, returns, c)
<1>1. o = IF ~c.supported \/ SkipReason(c, params) THEN Skip(cpp)
          ELSE IF ParamsFail(params) \/ returns = NoType THEN Failure
          ELSE IF owner = << >> THEN Emit(free) ELSE Emit(member)
  BY DEF NormalizeCallable
<1>2. c.returns \in MentionedTypes /\ TypesOf(c.params) \subseteq MentionedTypes
  BY DEF CallTypes
<1>3. returns # NoType => WellFormed(returns) /\ Translated(returns, c.returns.canonical, h)
  BY <1>2, TypesAreWellFormed DEF Translated
<1> HIDE DEF returns, o, cpp, no, freeName, memberName, handle, const
<1>4. ~ParamsFail(params) /\ returns # NoType =>
         /\ Faithful(free, h) /\ FromCode(free) /\ free.kind = "Function" /\ free.cpp = cpp
         /\ free.const = no /\ free.takes = Cut(c, n) /\ free.gives = c.returns.canonical
  <2> SUFFICES ASSUME ~ParamsFail(params), returns # NoType
               PROVE  /\ Faithful(free, h) /\ FromCode(free) /\ free.kind = "Function" /\ free.cpp = cpp
                      /\ free.const = no /\ free.takes = Cut(c, n) /\ free.gives = c.returns.canonical
    OBVIOUS
  <2>1. /\ DOMAIN free = FunctionFields /\ free.accessor = "" /\ free.kind = "Function"
        /\ free.cpp = cpp /\ free.const = no /\ free.gives = c.returns.canonical
        /\ free.params = Results(params) /\ free.takes = Signature(params) /\ free.returns = returns
    BY DEF Function, FunctionFields, Results
  <2> HIDE DEF free, member
  <2> QED BY <1>2, <1>3, <2>1, FunctionFaithful
<1>5. ~ParamsFail(params) /\ returns # NoType =>
         /\ Faithful(member, h) /\ FromCode(member) /\ member.kind = "Method" /\ member.cpp = cpp
         /\ member.const = const /\ member.takes = Cut(c, n) /\ member.gives = c.returns.canonical
  <2> SUFFICES ASSUME ~ParamsFail(params), returns # NoType
               PROVE  /\ Faithful(member, h) /\ FromCode(member) /\ member.kind = "Method" /\ member.cpp = cpp
                      /\ member.const = const /\ member.takes = Cut(c, n) /\ member.gives = c.returns.canonical
    OBVIOUS
  <2>1. /\ DOMAIN member = FunctionFields /\ member.accessor = "" /\ member.kind = "Method"
        /\ member.cpp = cpp /\ member.const = const /\ member.gives = c.returns.canonical
        /\ member.params = Results(params) /\ member.takes = Signature(params) /\ member.returns = returns
    BY DEF Function, FunctionFields, Results
  <2> HIDE DEF free, member
  <2> QED BY <1>2, <1>3, <2>1, FunctionFaithful
<1> HIDE DEF free, member
<1> DEFINE k == IF owner = << >> THEN "Function" ELSE "Method"
           q == IF owner = << >> THEN no ELSE const
<1>6. CASE o = Emit(free) /\ ~ParamsFail(params) /\ returns # NoType /\ owner = << >>
  <2>1. o.out = "emit" /\ o.function = free
    BY <1>6, OutcomeFacts
  <2>2. EmitsAs(o, k, cpp, q, Cut(c, n), c.returns.canonical) /\ Faithful(o.function, h)
    BY <1>4, <1>6, <2>1 DEF EmitsAs
  <2> QED BY <2>2 DEF o, cpp, no, const
<1>7. CASE o = Emit(member) /\ ~ParamsFail(params) /\ returns # NoType /\ owner # << >>
  <2>1. o.out = "emit" /\ o.function = member
    BY <1>7, OutcomeFacts
  <2>2. EmitsAs(o, k, cpp, q, Cut(c, n), c.returns.canonical) /\ Faithful(o.function, h)
    BY <1>5, <1>7, <2>1 DEF EmitsAs
  <2> QED BY <2>2 DEF o, cpp, no, const
<1> QED BY <1>1, <1>6, <1>7 DEF o, cpp

\* The receiver of a method is an opaque handle.
LEMMA SelfTypeWellFormed ==
    ASSUME NEW record, record.handle # NoHandle, NEW const
    PROVE  WellFormed(SelfType(record, const)) /\ SelfType(record, const).kind = "Opaque"
<1>1. "Opaque" \in IrKind
  BY DEF IrKind
<1>2. \E x : SelfType(record, const) = IrType("Opaque", x, record.handle)
  BY DEF SelfType
<1>3. SelfType(record, const).kind = "Opaque" /\ SelfType(record, const).handle = record.handle
  BY <1>2, IrTypeFields
<1> QED BY <1>1, <1>3 DEF WellFormed

\* normalize_constructor
LEMMA ConstructorOutcome ==
    ASSUME headers \in Inputs, NEW h \in 0 .. Len(headers), env = NormalizeEnv(h),
           NEW c, IsSeq(c.params), NEW n \in 0 .. Len(c.params), TypesOf(c.params) \subseteq MentionedTypes,
           NEW record, record.handle # NoHandle
    PROVE  LET o == NormalizeConstructor(c, n, record)
           IN  \/ o = Failure \/ o = Skip(record.cpp)
               \/ /\ EmitsAs(o, "Constructor", record.cpp, FALSE, Cut(c, n), c.returns.canonical)
                  /\ Faithful(o.function, h)
<1> DEFINE o == NormalizeConstructor(c, n, record)
           params == SubSeq(c.params, 1, n)
           no == FALSE
           self == SelfType(record, no)
           name == SymbolName(Front(record.cpp), <<Last(record.cpp)>>, <<"new">>)
           cpp == record.cpp
           handle == record.handle
           f == Function(name, "Constructor", cpp, handle, no, params, self, c)
<1>1. o = IF ConstructorSkipReason(params) THEN Skip(record.cpp)
          ELSE IF ParamsFail(params) THEN Failure ELSE Emit(f)
  BY DEF NormalizeConstructor
<1> HIDE DEF o, no
<1>w. WellFormed(self)
  BY SelfTypeWellFormed
<1> HIDE DEF self, name, cpp, handle
<1>2. ~ParamsFail(params) =>
         /\ Faithful(f, h) /\ FromCode(f) /\ f.kind = "Constructor" /\ f.cpp = record.cpp
         /\ f.const = no /\ f.takes = Cut(c, n) /\ f.gives = c.returns.canonical
  <2> SUFFICES ASSUME ~ParamsFail(params)
               PROVE  /\ Faithful(f, h) /\ FromCode(f) /\ f.kind = "Constructor" /\ f.cpp = cpp
                      /\ f.const = no /\ f.takes = Cut(c, n) /\ f.gives = c.returns.canonical
    BY DEF cpp
  <2>1. /\ DOMAIN f = FunctionFields /\ f.accessor = "" /\ f.kind = "Constructor"
        /\ f.cpp = cpp /\ f.const = no /\ f.gives = c.returns.canonical
        /\ f.params = Results(params) /\ f.takes = Signature(params) /\ f.returns = self
    BY DEF Function, FunctionFields, Results
  <2> HIDE DEF f
  <2> QED BY <1>w, <2>1, FunctionFaithful
<1> HIDE DEF f
<1>3. CASE o = Emit(f) /\ ~ParamsFail(params)
  <2>1. o.out = "emit" /\ o.function = f
    BY <1>3, OutcomeFacts
  <2>2. EmitsAs(o, "Constructor", record.cpp, no, Cut(c, n), c.returns.canonical) /\ Faithful(o.function, h)
    BY <1>2, <1>3, <2>1 DEF EmitsAs
  <2> QED BY <2>2 DEF o, no, cpp
<1> QED BY <1>1, <1>3 DEF o

\* Constructor and destructor that no declaration asks for.
LEMMA LifecycleFaithful ==
    ASSUME NEW record, NEW tail, NEW kind, NEW returns, WellFormed(returns),
           kind \in {"Constructor", "Destructor"}, NEW h
    PROVE  LET f == Lifecycle(record, tail, kind, returns) IN
           /\ Faithful(f, h) /\ f.kind = kind /\ f.cpp = record.cpp /\ f.const = FALSE
           /\ f.takes = << >> /\ f.gives = NoSpelling /\ f.accessor = "" /\ f.params = << >>
<1> DEFINE f == Lifecycle(record, tail, kind, returns)
<1>1. /\ DOMAIN f = FunctionFields /\ f.kind = kind /\ f.cpp = record.cpp /\ f.const = FALSE
      /\ f.takes = << >> /\ f.gives = NoSpelling /\ f.accessor = "" /\ f.params = << >> /\ f.returns = returns
  BY DEF Lifecycle, FunctionFields
<1>2. IsSeq(<< >>) /\ DOMAIN << >> = {}
  BY DEF IsSeq
<1> HIDE DEF f
<1>3. TypesIn(f) = {returns}
  BY <1>1, <1>2 DEF TypesIn
<1>4. Faithful(f, h)
  BY <1>1, <1>2, <1>3 DEF Faithful, FromCode
<1> QED BY <1>1, <1>4 DEF f

\* void is well formed.
LEMMA VoidWellFormed ==
    WellFormed(Void)
<1>1. "Void" \in IrKind /\ "Void" \notin ModelKind \cup {"FixedModelArray", "Opaque"}
  BY DEF IrKind, ModelKind
<1>2. \E x : Void = IrType("Void", x, NoHandle)
  BY DEF Void
<1>3. Void.kind = "Void" /\ Void.handle = NoHandle
  BY <1>2, IrTypeFields
<1> QED BY <1>1, <1>3 DEF WellFormed

------------------------------------------------------------------------------
(* Accessors of fields.                                                    *)

\* A list of accessors: well formed, and with the handles of arrays.
Accessors(s, h) ==
    /\ IsSeq(s) /\ Backed(ToSet(s))
    /\ \A f \in ToSet(s) : Faithful(f, h) /\ f.accessor # "" /\ ~FromCode(f)

\* An accessor of a field of type t.
AccessorOf(f, t, h) ==
    /\ Faithful(f, h) /\ f.accessor # "" /\ ~FromCode(f)
    /\ \A u \in TypesIn(f) : u.kind = "FixedModelArray" => u = t

\* An accessor has no type but that of its field, numbers, and the receiver.
LEMMA AccessorFaithful ==
    ASSUME NEW f, DOMAIN f = FunctionFields, f.accessor # "", NEW t, NEW h,
           IsSeq(f.params), \A i \in DOMAIN f.params : f.params[i] # t => f.params[i].kind # "FixedModelArray",
           \A i \in DOMAIN f.params : WellFormed(f.params[i]),
           WellFormed(f.returns), f.returns # t => f.returns.kind # "FixedModelArray"
    PROVE  AccessorOf(f, t, h)
<1>1. ~FromCode(f)
  BY DEF FromCode
<1>2. \A u \in TypesIn(f) : WellFormed(u) /\ (u.kind = "FixedModelArray" => u = t)
  BY DEF TypesIn
<1>3. Faithful(f, h)
  BY <1>1, <1>2 DEF Faithful
<1> QED BY <1>1, <1>2, <1>3 DEF AccessorOf

\* The types that accessors have beside the field's own.
LEMMA AccessorTypes ==
    ASSUME NEW t, t.handle # NoHandle, NEW base
    PROVE  /\ WellFormed(ElementPointer(t)) /\ ElementPointer(t).kind = "ModelPointer"
           /\ ElementPointer(t).handle = t.handle
<1>1. \E x : ElementPointer(t) = IrType("ModelPointer", x, t.handle)
  BY DEF ElementPointer
<1>2. "ModelPointer" \in IrKind \cap ModelKind
  BY DEF IrKind, ModelKind
<1>3. ElementPointer(t).kind = "ModelPointer" /\ ElementPointer(t).handle = t.handle
  BY <1>1, IrTypeFields
<1> QED BY <1>2, <1>3 DEF WellFormed

\* The index of an array accessor is a plain number.
LEMMA NumberWellFormed ==
    ASSUME NEW base
    PROVE  WellFormed(Value(base)) /\ Value(base).kind = "Primitive"
<1>1. \E x : Value(base) = IrType("Primitive", x, NoHandle)
  BY DEF Value
<1>2. "Primitive" \in IrKind /\ "Primitive" \notin ModelKind \cup {"FixedModelArray", "Opaque"}
  BY DEF IrKind, ModelKind, AccessibleKind
<1>3. Value(base).kind = "Primitive" /\ Value(base).handle = NoHandle
  BY <1>1, IrTypeFields
<1> QED BY <1>2, <1>3 DEF WellFormed

\* void has a kind of its own.
LEMMA VoidKind ==
    Void.kind = "Void"
<1>1. \E x : Void = IrType("Void", x, NoHandle)
  BY DEF Void
<1> QED BY <1>1, IrTypeFields

\* Sequences of one element and of none.
LEMMA Singletons ==
    ASSUME NEW e
    PROVE  /\ IsSeq(<<e>>) /\ ToSet(<<e>>) = {e} /\ DOMAIN <<e>> = {1} /\ <<e>>[1] = e
           /\ IsSeq(<< >>) /\ ToSet(<< >>) = {} /\ DOMAIN << >> = {}
  BY DEF IsSeq, ToSet

\* Sequences of two elements.
LEMMA Pairs ==
    ASSUME NEW a, NEW b
    PROVE  IsSeq(<<a, b>>) /\ DOMAIN <<a, b>> = {1, 2} /\ <<a, b>>[1] = a /\ <<a, b>>[2] = b
  BY DEF IsSeq, ToSet

\* make_struct_field_getter and the getter of an element
LEMMA GettersFacts ==
    ASSUME NEW record, NEW suffix, NEW t, WellFormed(t), t.kind \in AccessibleKind, NEW h
    PROVE  LET s == Getters(record, suffix, t) IN
           /\ IsSeq(s)
           /\ \A f \in ToSet(s) : AccessorOf(f, t, h)
           /\ t.kind = "FixedModelArray" =>
                 \E f \in ToSet(s) : \E u \in TypesIn(f) : u.kind \in ModelKind /\ u.handle = t.handle
<1> DEFINE yes == TRUE
           no == FALSE
           get == <<"Get">> \o suffix
           getAt == <<"Get">> \o suffix \o <<"At">>
           none == << >>
           index == <<Value("int")>>
           element == ElementPointer(t)
           byPointer == Accessor(record, "Get", get, no, none, element)
           whole1 == Accessor(record, "Get", get, yes, none, t)
           at1 == Accessor(record, "GetAt", getAt, yes, index, element)
           first == Getter(record, get, t)
           s == Getters(record, suffix, t)
           good(f) == AccessorOf(f, t, h)
<1>1. /\ first = IF t.kind = "ModelValue" THEN byPointer ELSE whole1
      /\ s = <<first>> \o (IF t.kind # "FixedModelArray" THEN << >> ELSE <<at1>>)
  BY DEF Getter, Getters
<1>2. /\ IsSeq(none) /\ DOMAIN none = {}
      /\ IsSeq(index) /\ DOMAIN index = {1} /\ index[1] = Value("int")
  BY Singletons
<1>3. WellFormed(Value("int")) /\ Value("int").kind = "Primitive"
  BY NumberWellFormed
<1>4. t.kind \in {"ModelValue", "FixedModelArray"} =>
         WellFormed(element) /\ element.kind = "ModelPointer" /\ element.handle = t.handle
  BY AccessorTypes DEF WellFormed, ModelKind
<1>5. "ModelPointer" \in ModelKind
  BY DEF ModelKind
<1> HIDE DEF yes, no, get, getAt, none, index, element, first, s
<1>6. t.kind = "ModelValue" => good(byPointer)
  <2>1. ASSUME t.kind = "ModelValue" PROVE good(byPointer)
    <3>1. /\ DOMAIN byPointer = FunctionFields /\ byPointer.accessor = "Get"
          /\ byPointer.params = none /\ byPointer.returns = element
      BY DEF Accessor, FunctionFields
    <3> HIDE DEF byPointer
    <3> QED BY <1>2, <1>4, <2>1, <3>1, AccessorFaithful
  <2> QED BY <2>1
<1>7. good(whole1)
  <2>1. /\ DOMAIN whole1 = FunctionFields /\ whole1.accessor = "Get"
        /\ whole1.params = none /\ whole1.returns = t
    BY DEF Accessor, FunctionFields
  <2> HIDE DEF whole1
  <2> QED BY <1>2, <2>1, AccessorFaithful
<1>8. t.kind = "FixedModelArray" => good(at1) /\ element \in TypesIn(at1)
  <2>1. ASSUME t.kind = "FixedModelArray" PROVE good(at1) /\ element \in TypesIn(at1)
    <3>1. /\ DOMAIN at1 = FunctionFields /\ at1.accessor = "GetAt"
          /\ at1.params = index /\ at1.returns = element
      BY DEF Accessor, FunctionFields
    <3> HIDE DEF at1
    <3>2. element \in TypesIn(at1)
      BY <1>2, <1>3, <1>4, <2>1, <3>1 DEF TypesIn
    <3> QED BY <1>2, <1>3, <1>4, <2>1, <3>1, <3>2, AccessorFaithful
  <2> QED BY <2>1
<1> HIDE DEF byPointer, whole1, at1, good
<1>9. good(first)
  BY <1>1, <1>6, <1>7
<1>10. \A e : IsSeq(<<e>>) /\ ToSet(<<e>>) = {e}
  BY Singletons
<1>11. IsSeq(<< >>) /\ ToSet(<< >>) = {}
  BY Singletons
<1>12. /\ IsSeq(s)
       /\ t.kind # "FixedModelArray" => ToSet(s) = {first}
       /\ t.kind = "FixedModelArray" => ToSet(s) = {first, at1}
  <2>1. ASSUME t.kind # "FixedModelArray" PROVE IsSeq(s) /\ ToSet(s) = {first}
    <3>1. s = <<first>> \o << >>
      BY <1>1, <2>1
    <3>2. IsSeq(s) /\ ToSet(s) = ToSet(<<first>>) \cup ToSet(<< >>)
      BY <1>10, <1>11, <3>1, ConcatFacts
    <3> QED BY <1>10, <1>11, <2>1, <3>2
  <2>2. ASSUME t.kind = "FixedModelArray" PROVE IsSeq(s) /\ ToSet(s) = {first, at1}
    <3>1. s = <<first>> \o <<at1>>
      BY <1>1, <2>2
    <3>2. IsSeq(s) /\ ToSet(s) = ToSet(<<first>>) \cup ToSet(<<at1>>)
      BY <1>10, <3>1, ConcatFacts
    <3>3. ToSet(<<first>>) = {first} /\ ToSet(<<at1>>) = {at1}
      BY <1>10
    <3>4. ToSet(s) = {first} \cup {at1}
      BY <3>2, <3>3
    <3> QED BY <3>2, <3>4
  <2>3. IsSeq(s)
    BY <2>1, <2>2
  <2>4. t.kind # "FixedModelArray" => ToSet(s) = {first}
    BY <2>1
  <2>5. t.kind = "FixedModelArray" => ToSet(s) = {first, at1}
    BY <2>2
  <2> QED BY <2>3, <2>4, <2>5
<1>13. \A f \in ToSet(s) : good(f)
  BY <1>8, <1>9, <1>12
<1>14. t.kind = "FixedModelArray" =>
          \E f \in ToSet(s) : \E u \in TypesIn(f) : u.kind \in ModelKind /\ u.handle = t.handle
  BY <1>4, <1>5, <1>8, <1>12
<1> QED BY <1>12, <1>13, <1>14 DEF good, s

\* The setters of a field are accessors of its type.
LEMMA SettersFacts ==
    ASSUME NEW record, NEW suffix, NEW t, WellFormed(t), t.kind \in AccessibleKind, NEW h
    PROVE  LET s == Setters(record, suffix, t) IN
           /\ IsSeq(s)
           /\ \A f \in ToSet(s) : AccessorOf(f, t, h)
<1> DEFINE no == FALSE
           set == <<"Set">> \o suffix
           setAt == <<"Set">> \o suffix \o <<"At">>
           value == <<t>>
           element == ElementPointer(t)
           number == Value("int")
           indexed == <<number, element>>
           first == Accessor(record, "Set", set, no, value, Void)
           at1 == Accessor(record, "SetAt", setAt, no, indexed, Void)
           s == Setters(record, suffix, t)
           good(f) == AccessorOf(f, t, h)
<1>1. s = <<first>> \o (IF t.kind # "FixedModelArray" THEN << >> ELSE <<at1>>)
  BY DEF Setters
<1>2. /\ IsSeq(value) /\ DOMAIN value = {1} /\ value[1] = t
      /\ IsSeq(indexed) /\ DOMAIN indexed = {1, 2} /\ indexed[1] = number /\ indexed[2] = element
  BY Singletons, Pairs
<1>3. WellFormed(number) /\ number.kind = "Primitive" /\ WellFormed(Void) /\ Void.kind = "Void"
  BY NumberWellFormed, VoidWellFormed, VoidKind
<1>4. t.kind = "FixedModelArray" => WellFormed(element) /\ element.kind = "ModelPointer"
  BY AccessorTypes DEF WellFormed
<1> HIDE DEF no, set, setAt, value, element, number, indexed, s
<1>5. good(first)
  <2>1. /\ DOMAIN first = FunctionFields /\ first.accessor = "Set"
        /\ first.params = value /\ first.returns = Void
    BY DEF Accessor, FunctionFields
  <2> HIDE DEF first
  <2> QED BY <1>2, <1>3, <2>1, AccessorFaithful
<1>6. t.kind = "FixedModelArray" => good(at1)
  <2>1. ASSUME t.kind = "FixedModelArray" PROVE good(at1)
    <3>1. /\ DOMAIN at1 = FunctionFields /\ at1.accessor = "SetAt"
          /\ at1.params = indexed /\ at1.returns = Void
      BY DEF Accessor, FunctionFields
    <3> HIDE DEF at1
    <3> QED BY <1>2, <1>3, <1>4, <2>1, <3>1, AccessorFaithful
  <2> QED BY <2>1
<1> HIDE DEF first, at1, good
<1>7. \A e : IsSeq(<<e>>) /\ ToSet(<<e>>) = {e}
  BY Singletons
<1>8. IsSeq(<< >>) /\ ToSet(<< >>) = {}
  BY Singletons
<1>9. /\ IsSeq(s)
      /\ t.kind # "FixedModelArray" => ToSet(s) = {first}
      /\ t.kind = "FixedModelArray" => ToSet(s) = {first, at1}
  <2>1. CASE t.kind # "FixedModelArray"
    <3>1. s = <<first>> \o << >>
      BY <1>1, <2>1
    <3>2. IsSeq(s) /\ ToSet(s) = ToSet(<<first>>) \cup ToSet(<< >>)
      BY <1>7, <1>8, <3>1, ConcatFacts
    <3> QED BY <1>7, <1>8, <2>1, <3>2
  <2>2. CASE t.kind = "FixedModelArray"
    <3>1. s = <<first>> \o <<at1>>
      BY <1>1, <2>2
    <3>2. IsSeq(s) /\ ToSet(s) = ToSet(<<first>>) \cup ToSet(<<at1>>)
      BY <1>7, <3>1, ConcatFacts
    <3> QED BY <1>7, <2>2, <3>2
  <2> QED BY <2>1, <2>2
<1>10. \A f \in ToSet(s) : good(f)
  BY <1>5, <1>6, <1>9
<1> QED BY <1>9, <1>10 DEF good, s

\* A field that cannot be accessed has no accessors.
LEMMA NoAccessors ==
    ASSUME NEW h
    PROVE  Accessors(<< >>, h)
<1>1. IsSeq(<< >>) /\ ToSet(<< >>) = {}
  BY Singletons
<1> QED BY <1>1 DEF Accessors, Backed

\* The accessors of a field
LEMMA FieldAccessorsFacts ==
    ASSUME NEW r, NEW record, NEW field, IsType(field.type), HaveHandles(env.records), NEW h
    PROVE  Accessors(FieldAccessors(r, record, field), h)
<1> DEFINE suffix == AccessorSuffix(field.name)
           methods == {r.methods[i].name : i \in DOMAIN r.methods}
           t == NormalizeWithCanonical(field.type, env)
           get == Getters(record, suffix, t)
           set == Setters(record, suffix, t)
           all == FieldAccessors(r, record, field)
<1>1. \/ all = << >>
      \/ t.kind \in AccessibleKind /\ (all = get \o << >> \/ all = get \o set)
  BY DEF FieldAccessors
<1>2. t.kind \in AccessibleKind => WellFormed(t)
  <2>1. t = NoType \/ WellFormed(t)
    BY TypeWellFormed
  <2>2. "none" \notin AccessibleKind
    BY DEF AccessibleKind
  <2> QED BY <2>1, <2>2 DEF NoType
<1>5. Accessors(<< >>, h) /\ IsSeq(<< >>) /\ ToSet(<< >>) = {}
  BY NoAccessors, Singletons
<1> HIDE DEF all, t, suffix
<1>3. t.kind \in AccessibleKind =>
         /\ IsSeq(get) /\ \A f \in ToSet(get) : AccessorOf(f, t, h)
         /\ t.kind = "FixedModelArray" =>
               \E f \in ToSet(get) : \E u \in TypesIn(f) : u.kind \in ModelKind /\ u.handle = t.handle
  BY <1>2, GettersFacts
<1>4. t.kind \in AccessibleKind => IsSeq(set) /\ \A f \in ToSet(set) : AccessorOf(f, t, h)
  BY <1>2, SettersFacts
<1> HIDE DEF get, set
<1>6. ASSUME t.kind \in AccessibleKind, NEW more, more \in {<< >>, set} PROVE Accessors(get \o more, h)
  <2>1. IsSeq(more) /\ \A f \in ToSet(more) : AccessorOf(f, t, h)
    BY <1>4, <1>5, <1>6
  <2>2. IsSeq(get \o more) /\ ToSet(get \o more) = ToSet(get) \cup ToSet(more)
    BY <1>3, <1>6, <2>1, ConcatFacts
  <2>3. \A f \in ToSet(get \o more) : AccessorOf(f, t, h)
    BY <1>3, <1>6, <2>1, <2>2
  <2>4. Backed(ToSet(get \o more))
    <3>1. t.kind = "FixedModelArray" =>
             \E g \in ToSet(get \o more) : \E u \in TypesIn(g) : u.kind \in ModelKind /\ u.handle = t.handle
      BY <1>3, <1>6, <2>2
    <3>2. \A f \in ToSet(get \o more) : \A u \in TypesIn(f) : u.kind = "FixedModelArray" => u = t
      BY <2>3 DEF AccessorOf
    <3> QED BY <3>1, <3>2 DEF Backed
  <2>5. \A f \in ToSet(get \o more) : Faithful(f, h) /\ f.accessor # "" /\ ~FromCode(f)
    BY <2>3 DEF AccessorOf
  <2> QED BY <2>2, <2>4, <2>5 DEF Accessors
<1>7. all = << >> => Accessors(all, h)
  BY <1>5
<1>8. t.kind \in AccessibleKind /\ (all = get \o << >> \/ all = get \o set) => Accessors(all, h)
  BY <1>6
<1> QED BY <1>1, <1>7, <1>8 DEF all

\* normalize_struct_fields
LEMMA StructFieldsFacts ==
    ASSUME NEW r, IsSeq(r.fields), \A i \in DOMAIN r.fields : IsType(r.fields[i].type),
           NEW record, HaveHandles(env.records), NEW h
    PROVE  Accessors(StructFields(r, record), h)
<1> DEFINE p == [i \in DOMAIN r.fields |-> FieldAccessors(r, record, r.fields[i])]
           s == StructFields(r, record)
<1>1. s = FlattenSeq(p) \/ s = << >>
  BY DEF StructFields
<1>2. \A i \in DOMAIN r.fields : Accessors(FieldAccessors(r, record, r.fields[i]), h)
  BY FieldAccessorsFacts
<1>3. DOMAIN p = DOMAIN r.fields /\ \A i \in DOMAIN p : p[i] = FieldAccessors(r, record, r.fields[i])
  OBVIOUS
<1>4. IsSeq(p)
  <2>1. Len(r.fields) \in Nat /\ DOMAIN r.fields = 1..Len(r.fields)
    BY SeqFacts
  <2> QED BY <2>1, FunctionIsSeq
<1> HIDE DEF p, s
<1>5. \A i \in DOMAIN p : Accessors(p[i], h)
  BY <1>2, <1>3
<1>6. IsSeq(FlattenSeq(p)) /\ ToSet(FlattenSeq(p)) = UNION {ToSet(p[i]) : i \in DOMAIN p}
  BY <1>4, <1>5, FlattenFacts DEF Accessors
<1>7. Backed(ToSet(FlattenSeq(p)))
  <2>1. \A fs \in {ToSet(p[i]) : i \in DOMAIN p} : Backed(fs)
    BY <1>5 DEF Accessors
  <2> QED BY <1>6, <2>1, BackedUnion
<1>8. \A f \in ToSet(FlattenSeq(p)) : Faithful(f, h) /\ f.accessor # "" /\ ~FromCode(f)
  BY <1>5, <1>6 DEF Accessors
<1>9. Accessors(FlattenSeq(p), h)
  BY <1>6, <1>7, <1>8 DEF Accessors
<1> QED BY <1>1, <1>9, NoAccessors DEF s

------------------------------------------------------------------------------
(* Lists of outcomes.                                                      *)

\* Two functions make the same C++ call.
SameCall(f, g) ==
    /\ FromCode(f) /\ FromCode(g)
    /\ f.kind = g.kind /\ f.cpp = g.cpp /\ f.const = g.const /\ f.takes = g.takes

\* No C++ call has two wrappers among fs.
OneEach(fs) == \A i, j \in DOMAIN fs : SameCall(fs[i], fs[j]) => i = j

Meet(o, p) == o.out = "emit" /\ p.out = "emit" /\ SameCall(o.function, p.function)

NoneMeet(outs) == \A i, j \in DOMAIN outs : Meet(outs[i], outs[j]) => i = j

Made(outs) == {o.function : o \in {p \in ToSet(outs) : p.out = "emit"}}

\* Outcomes of header h.
Batch(outs, h) ==
    /\ IsSeq(outs) /\ Backed(Made(outs))
    /\ \A f \in Made(outs) : Faithful(f, h)

\* A callable that is cpp in C++ has a wrapper for its full list, or is skipped.
Accounts(outs, c, cpp) ==
    \/ \E o \in ToSet(outs) : o.out = "skip" /\ o.cpp = cpp
    \/ \E f \in Made(outs) :
          /\ f.accessor = "" /\ f.cpp = cpp /\ f.const = c.const
          /\ f.takes = Signature(c.params) /\ f.gives = c.returns.canonical

MeetPairs(S) == {p \in S \X S : Meet(p[1], p[2])}

\* No two outcomes of a sequence are wrappers of one call: they are apart.
LEMMA MeetingApart ==
    ASSUME NEW s, IsSeq(s), NEW S, ToSet(s) \subseteq S
    PROVE  Apart(s, MeetPairs(S)) <=> NoneMeet(s)
<1>1. \A i \in DOMAIN s : s[i] \in S
  BY SeqFacts
<1>2. \A i, j \in DOMAIN s : <<s[i], s[j]>> \in MeetPairs(S) <=> Meet(s[i], s[j])
  BY <1>1 DEF MeetPairs
<1> QED BY <1>2 DEF Apart, NoneMeet

CallPairs(S) == {p \in S \X S : SameCall(p[1], p[2])}

\* No two wrappers of a sequence are of one call: they are apart.
LEMMA CallsApart ==
    ASSUME NEW s, IsSeq(s), NEW S, ToSet(s) \subseteq S
    PROVE  Apart(s, CallPairs(S)) <=> OneEach(s)
<1>1. \A i \in DOMAIN s : s[i] \in S
  BY SeqFacts
<1>2. \A i, j \in DOMAIN s : <<s[i], s[j]>> \in CallPairs(S) <=> SameCall(s[i], s[j])
  BY <1>1 DEF CallPairs
<1> QED BY <1>2 DEF Apart, OneEach

\* Wrappers of two sequences, of which none is of the call of another.
LEMMA OneEachConcat ==
    ASSUME NEW s, NEW t, IsSeq(s), IsSeq(t), OneEach(s), OneEach(t),
           \A f \in ToSet(s), g \in ToSet(t) : ~SameCall(f, g)
    PROVE  OneEach(s \o t)
<1> DEFINE S == ToSet(s) \cup ToSet(t)
<1>1. IsSeq(s \o t) /\ ToSet(s \o t) = S
  BY ConcatFacts
<1>2. Apart(s, CallPairs(S)) /\ Apart(t, CallPairs(S))
  BY CallsApart
<1>3. \A a \in ToSet(s), b \in ToSet(t) : <<a, b>> \notin CallPairs(S) /\ <<b, a>> \notin CallPairs(S)
  BY DEF CallPairs, SameCall
<1> HIDE DEF S
<1>4. Apart(s \o t, CallPairs(S))
  BY <1>2, <1>3, ConcatApart
<1> QED BY <1>1, <1>4, CallsApart

\* Outcomes of two sequences, of which none meets another.
LEMMA NoneMeetConcat ==
    ASSUME NEW s, NEW t, IsSeq(s), IsSeq(t), NoneMeet(s), NoneMeet(t),
           \A a \in ToSet(s), b \in ToSet(t) : ~Meet(a, b)
    PROVE  NoneMeet(s \o t)
<1> DEFINE S == ToSet(s) \cup ToSet(t)
<1>1. IsSeq(s \o t) /\ ToSet(s \o t) = S
  BY ConcatFacts
<1>2. Apart(s, MeetPairs(S)) /\ Apart(t, MeetPairs(S))
  BY MeetingApart
<1>3. \A a \in ToSet(s), b \in ToSet(t) : <<a, b>> \notin MeetPairs(S) /\ <<b, a>> \notin MeetPairs(S)
  BY DEF MeetPairs, Meet, SameCall
<1> HIDE DEF S
<1>4. Apart(s \o t, MeetPairs(S))
  BY <1>2, <1>3, ConcatApart
<1> QED BY <1>1, <1>4, MeetingApart

\* The wrappers of two sequences of outcomes.
LEMMA MadeConcat ==
    ASSUME NEW s, NEW t, IsSeq(s), IsSeq(t)
    PROVE  Made(s \o t) = Made(s) \cup Made(t)
<1>1. ToSet(s \o t) = ToSet(s) \cup ToSet(t)
  BY ConcatFacts
<1> QED BY <1>1 DEF Made

\* Outcomes of a header, one sequence after the other.
LEMMA BatchConcat ==
    ASSUME NEW h, NEW s, NEW t, Batch(s, h), Batch(t, h), NEW u, u = s \o t
    PROVE  Batch(u, h)
<1>1. IsSeq(s) /\ IsSeq(t)
  BY DEF Batch
<1>2. IsSeq(s \o t) /\ ToSet(s \o t) = ToSet(s) \cup ToSet(t)
  BY <1>1, ConcatFacts
<1>3. Made(s \o t) = Made(s) \cup Made(t)
  BY <1>1, MadeConcat
<1>4. Backed(Made(s) \cup Made(t))
  BY DEF Batch, Backed
<1> QED BY <1>2, <1>3, <1>4 DEF Batch

\* What is accounted for stays so when there are more outcomes.
LEMMA AccountsMore ==
    ASSUME NEW s, NEW t, ToSet(s) \subseteq ToSet(t), NEW c, NEW cpp, Accounts(s, c, cpp)
    PROVE  Accounts(t, c, cpp)
<1>1. Made(s) \subseteq Made(t)
  BY DEF Made
<1> QED BY <1>1 DEF Accounts

\* What Take makes of outcomes: the functions among them.
Emitted(outs) ==
    FlattenSeq([i \in DOMAIN outs |-> IF outs[i].out = "emit" THEN <<outs[i].function>> ELSE << >>])

\* Take keeps the wrappers among the outcomes, in their order.
LEMMA EmittedFacts ==
    ASSUME NEW outs, IsSeq(outs)
    PROVE  /\ IsSeq(Emitted(outs)) /\ ToSet(Emitted(outs)) = Made(outs)
           /\ NoneMeet(outs) => OneEach(Emitted(outs))
<1> DEFINE p == [i \in DOMAIN outs |-> IF outs[i].out = "emit" THEN <<outs[i].function>> ELSE << >>]
<1>1. /\ DOMAIN p = DOMAIN outs
      /\ \A i \in DOMAIN outs : p[i] = IF outs[i].out = "emit" THEN <<outs[i].function>> ELSE << >>
  OBVIOUS
<1>2. Emitted(outs) = FlattenSeq(p)
  BY DEF Emitted
<1>3. Len(outs) \in Nat /\ DOMAIN outs = 1..Len(outs) /\ \A i \in DOMAIN outs : outs[i] \in ToSet(outs)
  BY SeqFacts
<1>4. IsSeq(p)
  BY <1>3, FunctionIsSeq
<1> HIDE DEF p
<1>5. \A e : IsSeq(<<e>>) /\ ToSet(<<e>>) = {e} /\ DOMAIN <<e>> = {1}
  BY Singletons
<1>6. IsSeq(<< >>) /\ ToSet(<< >>) = {} /\ DOMAIN << >> = {}
  BY Singletons
<1>7. \A i \in DOMAIN p : IsSeq(p[i]) /\ \A R : Apart(p[i], R)
  BY <1>1, <1>5, <1>6 DEF Apart
<1>8. \A i \in DOMAIN p : \A f : f \in ToSet(p[i]) <=> outs[i].out = "emit" /\ f = outs[i].function
  BY <1>1, <1>5, <1>6
<1>9. IsSeq(FlattenSeq(p)) /\ ToSet(FlattenSeq(p)) = UNION {ToSet(p[i]) : i \in DOMAIN p}
  BY <1>4, <1>7, FlattenFacts
<1>10. \A f : f \in Made(outs) <=> \E i \in DOMAIN outs : outs[i].out = "emit" /\ f = outs[i].function
  BY <1>3 DEF Made, ToSet
<1>11. ToSet(FlattenSeq(p)) = Made(outs)
  <2>1. \A f : f \in ToSet(FlattenSeq(p)) <=> \E i \in DOMAIN outs : f \in ToSet(p[i])
    BY <1>1, <1>9
  <2>2. \A f : f \in ToSet(FlattenSeq(p)) <=> f \in Made(outs)
    BY <1>1, <1>8, <1>10, <2>1
  <2> HIDE DEF Made
  <2> QED BY <2>2, Zenon
<1>12. ASSUME NoneMeet(outs) PROVE OneEach(FlattenSeq(p))
  <2> DEFINE R == CallPairs(Made(outs))
  <2>1. ASSUME NEW i \in DOMAIN p, NEW j \in DOMAIN p, i # j, NEW a \in ToSet(p[i]), NEW b \in ToSet(p[j])
        PROVE  <<a, b>> \notin R
    <3>1. /\ outs[i].out = "emit" /\ a = outs[i].function
          /\ outs[j].out = "emit" /\ b = outs[j].function
      BY <1>8, <2>1
    <3>2. ~SameCall(a, b)
      BY <1>1, <1>12, <2>1, <3>1 DEF NoneMeet, Meet
    <3> QED BY <3>2 DEF CallPairs
  <2> HIDE DEF R
  <2>2. \A i \in DOMAIN p : IsSeq(p[i]) /\ Apart(p[i], R)
    BY <1>7
  <2>3. \A i, j \in DOMAIN p : i # j => \A a \in ToSet(p[i]), b \in ToSet(p[j]) : <<a, b>> \notin R
    BY <2>1
  <2>4. Apart(FlattenSeq(p), R)
    BY <1>4, <2>2, <2>3, FlattenApart
  <2> QED BY <1>9, <1>11, <2>4, CallsApart DEF R
<1> QED BY <1>2, <1>9, <1>11, <1>12

------------------------------------------------------------------------------
(* What comes of the callables of one list.                                *)

KindOf(owner) == IF owner = << >> THEN "Function" ELSE "Method"
CppOf(c, owner) == IF owner = << >> THEN Qualified(c) ELSE Append(owner[1].cpp, c.name)
ConstFor(c, owner) == IF owner = << >> THEN FALSE ELSE c.const

\* o is the variant of c with n parameters.
Comes(o, c, n, owner) ==
    EmitsAs(o, KindOf(owner), CppOf(c, owner), ConstFor(c, owner), Cut(c, n), c.returns.canonical)

\* A variant of a callable fails, is skipped, or comes out as a faithful wrapper of its signature.
LEMMA VariantOutcome ==
    ASSUME headers \in Inputs, NEW h \in 0 .. Len(headers), env = NormalizeEnv(h),
           NEW c, IsSeq(c.params), NEW n \in 0 .. Len(c.params), CallTypes(c) \subseteq MentionedTypes,
           NEW owner
    PROVE  LET o == NormalizeCallable(c, n, owner) IN
           o = Failure \/ o = Skip(CppOf(c, owner)) \/ (Comes(o, c, n, owner) /\ Faithful(o.function, h))
  BY CallableOutcome DEF Comes, KindOf, CppOf, ConstFor

\* A batch is one if what is emitted is faithful and none is an accessor.
LEMMA PlainBatch ==
    ASSUME NEW s, IsSeq(s), NEW h,
           \A o \in ToSet(s) : o.out = "emit" => Faithful(o.function, h) /\ FromCode(o.function)
    PROVE  Batch(s, h)
<1>1. \A f \in Made(s) : Faithful(f, h) /\ FromCode(f)
  BY DEF Made
<1>2. Backed(Made(s))
  BY <1>1 DEF Backed, FromCode
<1> QED BY <1>1, <1>2 DEF Batch

\* s has the outcomes of the variants of those callables whose places are in I.
OutcomesOf(s, callables, own, I) ==
    /\ IsSeq(s)
    /\ \A e : e \in ToSet(s) <=>
          \E i \in I : \E n \in Variants(callables, i) : e = NormalizeCallable(callables[i], n, own[i])

\* The variants of callables: faithful wrappers, and if none fails each callable is accounted for.
LEMMA CallableBatch ==
    ASSUME headers \in Inputs, NEW h \in 0 .. Len(headers), env = NormalizeEnv(h),
           NEW callables, Listed(callables), \A c \in ToSet(callables) : CallTypes(c) \subseteq MentionedTypes,
           NEW own, NEW I, I \subseteq DOMAIN callables, NEW s, OutcomesOf(s, callables, own, I)
    PROVE  /\ Batch(s, h)
           /\ \A o \in ToSet(s) : o.out = "emit" =>
                 \E i \in I : \E n \in Variants(callables, i) :
                     o = NormalizeCallable(callables[i], n, own[i]) /\ Comes(o, callables[i], n, own[i])
           /\ (\A o \in ToSet(s) : o.out # "fail") => \A i \in I :
                 Overloads(callables) /\ ConstFor(callables[i], own[i]) = callables[i].const =>
                     Accounts(s, callables[i], CppOf(callables[i], own[i]))
<1>1. \A i \in I : callables[i] \in ToSet(callables)
  BY DEF ToSet
<1>2. \A i \in I : IsSeq(callables[i].params) /\ CallTypes(callables[i]) \subseteq MentionedTypes
  BY <1>1 DEF Listed
<1>3. \A i \in I : \A n \in Variants(callables, i) : n \in 0 .. Len(callables[i].params)
  BY DEF Variants, Lengths
<1>4. ASSUME NEW i \in I, NEW n \in Variants(callables, i)
      PROVE  LET o == NormalizeCallable(callables[i], n, own[i]) IN
             \/ o = Failure \/ o = Skip(CppOf(callables[i], own[i]))
             \/ (Comes(o, callables[i], n, own[i]) /\ Faithful(o.function, h))
  <2> DEFINE c == callables[i]
             owner == own[i]
  <2>1. IsSeq(c.params) /\ CallTypes(c) \subseteq MentionedTypes /\ n \in 0 .. Len(c.params)
    BY <1>2, <1>3, <1>4
  <2> HIDE DEF c, owner
  <2>2. LET o == NormalizeCallable(c, n, owner) IN
        o = Failure \/ o = Skip(CppOf(c, owner)) \/ (Comes(o, c, n, owner) /\ Faithful(o.function, h))
    BY <2>1, VariantOutcome
  <2> QED BY <2>2 DEF c, owner
<1>5. /\ Failure.out = "fail"
      /\ \A x : Skip(x).out = "skip" /\ Skip(x).cpp = x
  BY OutcomeFacts
<1>6. ASSUME NEW o \in ToSet(s), o.out = "emit"
      PROVE  /\ \E i \in I : \E n \in Variants(callables, i) :
                   o = NormalizeCallable(callables[i], n, own[i]) /\ Comes(o, callables[i], n, own[i])
             /\ Faithful(o.function, h) /\ FromCode(o.function)
  <2>i. PICK i \in I : \E n \in Variants(callables, i) : o = NormalizeCallable(callables[i], n, own[i])
    BY DEF OutcomesOf
  <2>1. PICK n \in Variants(callables, i) : o = NormalizeCallable(callables[i], n, own[i])
    BY <2>i
  <2>2. o # Failure /\ o # Skip(CppOf(callables[i], own[i]))
    BY <1>5, <1>6
  <2>3. Comes(o, callables[i], n, own[i]) /\ Faithful(o.function, h)
    BY <1>4, <2>1, <2>2
  <2>4. FromCode(o.function)
    BY <2>3 DEF Comes, EmitsAs
  <2> QED BY <2>1, <2>3, <2>4
<1>7. Batch(s, h)
  BY <1>6, PlainBatch DEF OutcomesOf
<1>8. ASSUME \A o \in ToSet(s) : o.out # "fail", NEW i \in I, Overloads(callables),
             ConstFor(callables[i], own[i]) = callables[i].const
      PROVE  Accounts(s, callables[i], CppOf(callables[i], own[i]))
  <2> DEFINE c == callables[i]
             n == Len(c.params)
             o == NormalizeCallable(c, n, own[i])
  <2>1. n \in Variants(callables, i)
    BY <1>8, FullListOffered
  <2>2. o \in ToSet(s)
    BY <2>1 DEF OutcomesOf
  <2>3. o # Failure
    BY <1>5, <1>8, <2>2
  <2>4. o = Skip(CppOf(c, own[i])) \/ Comes(o, c, n, own[i])
    BY <1>4, <2>1, <2>3
  <2>5. Cut(c, n) = Signature(c.params)
    <3>1. IsSeq(c.params) /\ n \in 0 .. Len(c.params)
      BY <1>2, <1>3, <2>1
    <3> QED BY <3>1, CutFacts
  <2>6. CASE o = Skip(CppOf(c, own[i]))
    BY <1>5, <2>2, <2>6 DEF Accounts
  <2>7. CASE Comes(o, c, n, own[i])
    <3>1. /\ o.out = "emit" /\ o.function.accessor = "" /\ o.function.cpp = CppOf(c, own[i])
          /\ o.function.const = c.const /\ o.function.takes = Signature(c.params)
          /\ o.function.gives = c.returns.canonical
      BY <1>8, <2>5, <2>7 DEF Comes, EmitsAs, FromCode
    <3>2. o.function \in Made(s)
      BY <2>2, <3>1 DEF Made
    <3> QED BY <3>1, <3>2 DEF Accounts
  <2> QED BY <2>4, <2>6, <2>7
<1>9. \A o \in ToSet(s) : o.out = "emit" =>
         \E i \in I : \E n \in Variants(callables, i) :
             o = NormalizeCallable(callables[i], n, own[i]) /\ Comes(o, callables[i], n, own[i])
  BY <1>6
<1>10. (\A o \in ToSet(s) : o.out # "fail") => \A i \in I :
          Overloads(callables) /\ ConstFor(callables[i], own[i]) = callables[i].const =>
              Accounts(s, callables[i], CppOf(callables[i], own[i]))
  BY <1>8
<1> QED BY <1>7, <1>9, <1>10

\* No two variants of overloads meet.
LEMMA VariantsMeetNot ==
    ASSUME headers \in Inputs, NEW h \in 0 .. Len(headers), env = NormalizeEnv(h),
           NEW callables, Listed(callables), \A c \in ToSet(callables) : CallTypes(c) \subseteq MentionedTypes,
           NEW own, NEW i \in DOMAIN callables, NEW j \in DOMAIN callables,
           KindOf(own[i]) = KindOf(own[j]) /\ CppOf(callables[i], own[i]) = CppOf(callables[j], own[j])
                /\ ConstFor(callables[i], own[i]) = ConstFor(callables[j], own[j])
              => SameGroup(callables[i], callables[j]),
           NEW m \in Variants(callables, i), NEW n \in Variants(callables, j),
           Meet(NormalizeCallable(callables[i], m, own[i]), NormalizeCallable(callables[j], n, own[j]))
    PROVE  i = j /\ m = n
<1> DEFINE o(k, l) == NormalizeCallable(callables[k], l, own[k])
<1>1. ASSUME NEW k \in DOMAIN callables, NEW l \in Variants(callables, k), o(k, l).out = "emit"
      PROVE  Comes(o(k, l), callables[k], l, own[k])
  <2> DEFINE c == callables[k]
             owner == own[k]
  <2>1. callables[k] \in ToSet(callables)
    BY DEF ToSet
  <2>2. IsSeq(c.params) /\ CallTypes(c) \subseteq MentionedTypes /\ l \in 0 .. Len(c.params)
    BY <2>1 DEF Listed, Variants, Lengths
  <2>3. o(k, l) = NormalizeCallable(c, l, owner)
    OBVIOUS
  <2> HIDE DEF c, owner, o
  <2>4. o(k, l) = Failure \/ o(k, l) = Skip(CppOf(c, owner)) \/ Comes(o(k, l), c, l, owner)
    BY <2>2, <2>3, VariantOutcome
  <2>5. Failure.out = "fail" /\ \A x : Skip(x).out = "skip"
    BY OutcomeFacts
  <2>6. Comes(o(k, l), c, l, owner)
    BY <1>1, <2>4, <2>5
  <2> QED BY <2>6 DEF c, owner, o
<1>2. o(i, m).out = "emit" /\ o(j, n).out = "emit" /\ SameCall(o(i, m).function, o(j, n).function)
  BY DEF Meet
<1> HIDE DEF o
<1>3. Comes(o(i, m), callables[i], m, own[i]) /\ Comes(o(j, n), callables[j], n, own[j])
  BY <1>1, <1>2
<1>4. SameGroup(callables[i], callables[j]) /\ Cut(callables[i], m) = Cut(callables[j], n)
  BY <1>2, <1>3 DEF Comes, EmitsAs, SameCall
<1> QED BY <1>4, VariantsDiffer

\* The outcomes of all variants of callables.
Outcomes(callables, own) ==
    [i \in DOMAIN callables |->
        [n \in 0 .. Len(callables[i].params) |-> NormalizeCallable(callables[i], n, own[i])]]

\* No two different variants meet.
VariantsApart(callables, own, I) ==
    \A i, j \in I : \A m \in Variants(callables, i), n \in Variants(callables, j) :
        Meet(NormalizeCallable(callables[i], m, own[i]), NormalizeCallable(callables[j], n, own[j]))
            => i = j /\ m = n

\* The outcome of a callable at a number of parameters.
LEMMA OutcomesAt ==
    ASSUME NEW callables, NEW own, NEW i \in DOMAIN callables
    PROVE  /\ Variants(callables, i) \subseteq 0 .. Len(callables[i].params)
           /\ \A n \in 0 .. Len(callables[i].params) :
                 Outcomes(callables, own)[i][n] = NormalizeCallable(callables[i], n, own[i])
           /\ \A n \in Variants(callables, i) :
                 Outcomes(callables, own)[i][n] = NormalizeCallable(callables[i], n, own[i])
<1>1. Variants(callables, i) \subseteq 0 .. Len(callables[i].params)
  BY DEF Variants, Lengths
<1>2. \A n \in 0 .. Len(callables[i].params) :
         Outcomes(callables, own)[i][n] = NormalizeCallable(callables[i], n, own[i])
  BY DEF Outcomes
<1> QED BY <1>1, <1>2

\* The outcomes of one callable, in the order of the code.
LEMMA ListingOutcomes ==
    ASSUME NEW callables, Listed(callables), NEW own, NEW i \in DOMAIN callables
    PROVE  LET s == Listing(callables, i, Outcomes(callables, own)[i]) IN
           /\ OutcomesOf(s, callables, own, {i})
           /\ VariantsApart(callables, own, {i}) => NoneMeet(s)
<1> DEFINE w == Outcomes(callables, own)[i]
           s == Listing(callables, i, w)
<1>1. \A n \in Variants(callables, i) : w[n] = NormalizeCallable(callables[i], n, own[i])
  BY OutcomesAt
<1> HIDE DEF w
<1>2. /\ IsSeq(s)
      /\ \A e : e \in ToSet(s) <=> \E n \in Variants(callables, i) : e = w[n]
      /\ \A R : (\A m, n \in Variants(callables, i) : <<w[m], w[n]>> \in R => m = n) => Apart(s, R)
  BY ListingFacts
<1> HIDE DEF s
<1>3. OutcomesOf(s, callables, own, {i})
  BY <1>1, <1>2 DEF OutcomesOf
<1>4. ASSUME VariantsApart(callables, own, {i}) PROVE NoneMeet(s)
  <2>1. \A m, n \in Variants(callables, i) : <<w[m], w[n]>> \in MeetPairs(ToSet(s)) => m = n
    BY <1>1, <1>4 DEF VariantsApart, MeetPairs
  <2>2. Apart(s, MeetPairs(ToSet(s)))
    BY <1>2, <2>1
  <2> QED BY <1>2, <2>2, MeetingApart
<1> QED BY <1>3, <1>4 DEF s, w

\* The outcomes of all callables of a list, in the order of the code.
LEMMA ListingsOutcomes ==
    ASSUME NEW callables, Listed(callables), NEW own
    PROVE  LET s == Listings(callables, Outcomes(callables, own)) IN
           /\ OutcomesOf(s, callables, own, DOMAIN callables)
           /\ VariantsApart(callables, own, DOMAIN callables) => NoneMeet(s)
<1> DEFINE w == Outcomes(callables, own)
           s == Listings(callables, w)
<1>1. \A i \in DOMAIN callables : \A n \in Variants(callables, i) :
          w[i][n] = NormalizeCallable(callables[i], n, own[i])
  BY OutcomesAt
<1> HIDE DEF w
<1>2. /\ IsSeq(s)
      /\ \A e : e \in ToSet(s) <=> \E i \in DOMAIN callables : \E n \in Variants(callables, i) : e = w[i][n]
      /\ \A R : (\A i, j \in DOMAIN callables : \A m \in Variants(callables, i), n \in Variants(callables, j) :
                     <<w[i][m], w[j][n]>> \in R => i = j /\ m = n) => Apart(s, R)
  BY ListingsFacts
<1> HIDE DEF s
<1>3. OutcomesOf(s, callables, own, DOMAIN callables)
  BY <1>1, <1>2 DEF OutcomesOf
<1>4. ASSUME VariantsApart(callables, own, DOMAIN callables) PROVE NoneMeet(s)
  <2>1. \A i, j \in DOMAIN callables : \A m \in Variants(callables, i), n \in Variants(callables, j) :
            <<w[i][m], w[j][n]>> \in MeetPairs(ToSet(s)) => i = j /\ m = n
    BY <1>1, <1>4 DEF VariantsApart, MeetPairs
  <2>2. Apart(s, MeetPairs(ToSet(s)))
    BY <1>2, <2>1
  <2> QED BY <1>2, <2>2, MeetingApart
<1> QED BY <1>3, <1>4 DEF s, w

\* Functions, or operators, that are no members.
FreeOwners(callables) == [i \in DOMAIN callables |-> << >>]

\* A free function belongs to no record.
LEMMA FreeVariants ==
    ASSUME NEW callables, NEW i \in DOMAIN callables
    PROVE  VariantsOf(callables, i, FreeCallable) =
               Listing(callables, i, Outcomes(callables, FreeOwners(callables))[i])
<1> DEFINE full == Len(callables[i].params)
           w == Outcomes(callables, FreeOwners(callables))[i]
           a == [k \in 1 .. full + 1 |-> IF full + 1 - k \in Variants(callables, i)
                    THEN <<FreeCallable(callables[i], full + 1 - k)>> ELSE << >>]
           b == [k \in 1 .. full + 1 |-> IF full + 1 - k \in Variants(callables, i)
                    THEN <<w[full + 1 - k]>> ELSE << >>]
<1>2. Listing(callables, i, w) = FlattenSeq(b)
  BY DEF Listing
<1>3. \A n \in Variants(callables, i) : w[n] = FreeCallable(callables[i], n)
  <2>1. FreeOwners(callables)[i] = << >>
    BY DEF FreeOwners
  <2>2. \A n \in Variants(callables, i) : w[n] = NormalizeCallable(callables[i], n, FreeOwners(callables)[i])
    BY OutcomesAt
  <2> HIDE DEF w
  <2> QED BY <2>1, <2>2 DEF FreeCallable
<1> HIDE DEF w, full
<1>4. a = b
  BY <1>3
<1>5. FlattenSeq(a) = Listing(callables, i, w)
  BY <1>2, <1>4
<1> QED BY <1>5 DEF VariantsOf, w, full

MemberOwners(callables, record) == [i \in DOMAIN callables |-> <<record>>]

\* A method belongs to its record.
LEMMA MemberVariants ==
    ASSUME NEW callables, NEW record
    PROVE  AllVariants(callables, LAMBDA c, n : NormalizeCallable(c, n, <<record>>)) =
               Listings(callables, Outcomes(callables, MemberOwners(callables, record)))
<1> DEFINE w == Outcomes(callables, MemberOwners(callables, record))
           a(i) == FlattenSeq([k \in 1 .. Len(callables[i].params) + 1 |->
                       IF Len(callables[i].params) + 1 - k \in Variants(callables, i)
                       THEN <<NormalizeCallable(callables[i], Len(callables[i].params) + 1 - k, <<record>>)>>
                       ELSE << >>])
<1>1. AllVariants(callables, LAMBDA c, n : NormalizeCallable(c, n, <<record>>)) =
          FlattenSeq([i \in DOMAIN callables |-> a(i)])
  BY DEF AllVariants, VariantsOf
<1>2. Listings(callables, w) = FlattenSeq([i \in DOMAIN callables |-> Listing(callables, i, w[i])])
  BY DEF Listings
<1>3. ASSUME NEW i \in DOMAIN callables PROVE a(i) = Listing(callables, i, w[i])
  <2> DEFINE full == Len(callables[i].params)
             x == [k \in 1 .. full + 1 |-> IF full + 1 - k \in Variants(callables, i)
                      THEN <<NormalizeCallable(callables[i], full + 1 - k, <<record>>)>> ELSE << >>]
             y == [k \in 1 .. full + 1 |-> IF full + 1 - k \in Variants(callables, i)
                      THEN <<w[i][full + 1 - k]>> ELSE << >>]
  <2>1. MemberOwners(callables, record)[i] = <<record>>
    BY DEF MemberOwners
  <2>2. \A n \in Variants(callables, i) :
            w[i][n] = NormalizeCallable(callables[i], n, MemberOwners(callables, record)[i])
    BY OutcomesAt
  <2>3. a(i) = FlattenSeq(x) /\ Listing(callables, i, w[i]) = FlattenSeq(y)
    BY DEF Listing
  <2> HIDE DEF w, full, a
  <2>4. x = y
    BY <2>1, <2>2
  <2> QED BY <2>3, <2>4
<1> HIDE DEF w, a
<1>4. [i \in DOMAIN callables |-> a(i)] = [i \in DOMAIN callables |-> Listing(callables, i, w[i])]
  BY <1>3
<1> QED BY <1>1, <1>2, <1>4 DEF w

\* Operators of a class, some of them friends.
OperatorOwners(callables, record) ==
    [i \in DOMAIN callables |-> IF callables[i].friend THEN << >> ELSE <<record>>]

\* An operator in a class belongs to its record, unless it is a friend (operators.rs).
LEMMA OperatorVariants ==
    ASSUME NEW callables, NEW record
    PROVE  AllVariants(callables, LAMBDA c, n :
                   NormalizeCallable(c, n, IF c.friend THEN << >> ELSE <<record>>)) =
               Listings(callables, Outcomes(callables, OperatorOwners(callables, record)))
<1> DEFINE w == Outcomes(callables, OperatorOwners(callables, record))
           owner(i) == IF callables[i].friend THEN << >> ELSE <<record>>
           a(i) == FlattenSeq([k \in 1 .. Len(callables[i].params) + 1 |->
                       IF Len(callables[i].params) + 1 - k \in Variants(callables, i)
                       THEN <<NormalizeCallable(callables[i], Len(callables[i].params) + 1 - k, owner(i))>>
                       ELSE << >>])
<1>1. AllVariants(callables, LAMBDA c, n :
              NormalizeCallable(c, n, IF c.friend THEN << >> ELSE <<record>>)) =
          FlattenSeq([i \in DOMAIN callables |-> a(i)])
  BY DEF AllVariants, VariantsOf
<1>2. Listings(callables, w) = FlattenSeq([i \in DOMAIN callables |-> Listing(callables, i, w[i])])
  BY DEF Listings
<1>3. ASSUME NEW i \in DOMAIN callables PROVE a(i) = Listing(callables, i, w[i])
  <2> DEFINE full == Len(callables[i].params)
             x == [k \in 1 .. full + 1 |-> IF full + 1 - k \in Variants(callables, i)
                      THEN <<NormalizeCallable(callables[i], full + 1 - k, owner(i))>> ELSE << >>]
             y == [k \in 1 .. full + 1 |-> IF full + 1 - k \in Variants(callables, i)
                      THEN <<w[i][full + 1 - k]>> ELSE << >>]
  <2>1. OperatorOwners(callables, record)[i] = owner(i)
    BY DEF OperatorOwners
  <2>2. \A n \in Variants(callables, i) :
            w[i][n] = NormalizeCallable(callables[i], n, OperatorOwners(callables, record)[i])
    BY OutcomesAt
  <2>3. a(i) = FlattenSeq(x) /\ Listing(callables, i, w[i]) = FlattenSeq(y)
    BY DEF Listing
  <2> HIDE DEF w, full, a, owner
  <2>4. x = y
    BY <2>1, <2>2
  <2> QED BY <2>3, <2>4
<1> HIDE DEF w, a
<1>4. [i \in DOMAIN callables |-> a(i)] = [i \in DOMAIN callables |-> Listing(callables, i, w[i])]
  BY <1>3
<1> QED BY <1>1, <1>2, <1>4 DEF w

ConstructorOutcomes(callables, record) ==
    [i \in DOMAIN callables |->
        [n \in 0 .. Len(callables[i].params) |-> NormalizeConstructor(callables[i], n, record)]]

\* A constructor belongs to its record.
LEMMA ConstructorVariants ==
    ASSUME NEW callables, NEW record
    PROVE  AllVariants(callables, LAMBDA c, n : NormalizeConstructor(c, n, record)) =
               Listings(callables, ConstructorOutcomes(callables, record))
<1> DEFINE w == ConstructorOutcomes(callables, record)
           a(i) == FlattenSeq([k \in 1 .. Len(callables[i].params) + 1 |->
                       IF Len(callables[i].params) + 1 - k \in Variants(callables, i)
                       THEN <<NormalizeConstructor(callables[i], Len(callables[i].params) + 1 - k, record)>>
                       ELSE << >>])
<1>1. AllVariants(callables, LAMBDA c, n : NormalizeConstructor(c, n, record)) =
          FlattenSeq([i \in DOMAIN callables |-> a(i)])
  BY DEF AllVariants, VariantsOf
<1>2. Listings(callables, w) = FlattenSeq([i \in DOMAIN callables |-> Listing(callables, i, w[i])])
  BY DEF Listings
<1>3. ASSUME NEW i \in DOMAIN callables PROVE a(i) = Listing(callables, i, w[i])
  <2> DEFINE full == Len(callables[i].params)
             x == [k \in 1 .. full + 1 |-> IF full + 1 - k \in Variants(callables, i)
                      THEN <<NormalizeConstructor(callables[i], full + 1 - k, record)>> ELSE << >>]
             y == [k \in 1 .. full + 1 |-> IF full + 1 - k \in Variants(callables, i)
                      THEN <<w[i][full + 1 - k]>> ELSE << >>]
  <2>1. \A n \in Variants(callables, i) : w[i][n] = NormalizeConstructor(callables[i], n, record)
    BY DEF ConstructorOutcomes, Variants, Lengths
  <2>2. a(i) = FlattenSeq(x) /\ Listing(callables, i, w[i]) = FlattenSeq(y)
    BY DEF Listing
  <2> HIDE DEF w, full, a
  <2>3. x = y
    BY <2>1
  <2> QED BY <2>2, <2>3
<1> HIDE DEF w, a
<1>4. [i \in DOMAIN callables |-> a(i)] = [i \in DOMAIN callables |-> Listing(callables, i, w[i])]
  BY <1>3
<1> QED BY <1>1, <1>2, <1>4 DEF w

\* A variant of a constructor.
ConstructorComes(o, c, n, record) ==
    EmitsAs(o, "Constructor", record.cpp, FALSE, Cut(c, n), c.returns.canonical)

\* The declared constructors of a record: faithful, accounted for, and no call wrapped twice.
LEMMA DeclaredConstructors ==
    ASSUME headers \in Inputs, NEW h \in 0 .. Len(headers), env = NormalizeEnv(h),
           NEW callables, Listed(callables), NEW record, record.handle # NoHandle,
           \A c \in ToSet(callables) : TypesOf(c.params) \subseteq MentionedTypes
    PROVE  LET s == Listings(callables, ConstructorOutcomes(callables, record)) IN
           /\ Batch(s, h)
           /\ \A o \in ToSet(s) : \E i \in DOMAIN callables : \E n \in Variants(callables, i) :
                 o = NormalizeConstructor(callables[i], n, record)
           /\ \A f \in Made(s) : f.kind = "Constructor" /\ f.cpp = record.cpp
           /\ Overloads(callables) /\ (\A i \in DOMAIN callables : callables[i].const = FALSE)
                 /\ (\A o \in ToSet(s) : o.out # "fail") =>
                 \A i \in DOMAIN callables : Accounts(s, callables[i], record.cpp)
           /\ (\A i, j \in DOMAIN callables : SameGroup(callables[i], callables[j])) => NoneMeet(s)
<1> DEFINE w == ConstructorOutcomes(callables, record)
           s == Listings(callables, w)
<1>1. \A i \in DOMAIN callables :
          /\ callables[i] \in ToSet(callables)
          /\ \A n \in Variants(callables, i) : n \in 0 .. Len(callables[i].params)
  BY DEF ToSet, Variants, Lengths
<1>2. \A i \in DOMAIN callables : \A n \in Variants(callables, i) :
          w[i][n] = NormalizeConstructor(callables[i], n, record)
  BY <1>1 DEF ConstructorOutcomes
<1>3. ASSUME NEW i \in DOMAIN callables, NEW n \in Variants(callables, i)
      PROVE  \/ w[i][n] = Failure \/ w[i][n] = Skip(record.cpp)
             \/ ConstructorComes(w[i][n], callables[i], n, record) /\ Faithful(w[i][n].function, h)
  <2> DEFINE c == callables[i]
             o == NormalizeConstructor(c, n, record)
  <2>1. IsSeq(c.params) /\ TypesOf(c.params) \subseteq MentionedTypes /\ n \in 0 .. Len(c.params)
    BY <1>1 DEF Listed
  <2>2. w[i][n] = o
    BY <1>2
  <2> HIDE DEF c, w
  <2>3. \/ o = Failure \/ o = Skip(record.cpp)
        \/ ConstructorComes(o, c, n, record) /\ Faithful(o.function, h)
    BY <2>1, ConstructorOutcome DEF ConstructorComes
  <2> QED BY <2>2, <2>3 DEF c, w
<1> HIDE DEF w
<1>4. /\ IsSeq(s)
      /\ \A e : e \in ToSet(s) <=> \E i \in DOMAIN callables : \E n \in Variants(callables, i) : e = w[i][n]
      /\ \A R : (\A i, j \in DOMAIN callables : \A m \in Variants(callables, i), n \in Variants(callables, j) :
                     <<w[i][m], w[j][n]>> \in R => i = j /\ m = n) => Apart(s, R)
  BY ListingsFacts
<1> HIDE DEF s
<1>5. Failure.out = "fail" /\ \A x : Skip(x).out = "skip" /\ Skip(x).cpp = x
  BY OutcomeFacts
<1>6. ASSUME NEW o \in ToSet(s), o.out = "emit"
      PROVE  /\ Faithful(o.function, h) /\ FromCode(o.function)
             /\ o.function.kind = "Constructor" /\ o.function.cpp = record.cpp
  <2>1. PICK i \in DOMAIN callables : \E n \in Variants(callables, i) : o = w[i][n]
    BY <1>4
  <2>2. PICK n \in Variants(callables, i) : o = w[i][n]
    BY <2>1
  <2>3. ConstructorComes(o, callables[i], n, record) /\ Faithful(o.function, h)
    BY <1>3, <1>5, <1>6, <2>2
  <2> QED BY <2>3 DEF ConstructorComes, EmitsAs
<1>7. Batch(s, h)
  BY <1>4, <1>6, PlainBatch
<1>8. \A f \in Made(s) : f.kind = "Constructor" /\ f.cpp = record.cpp
  BY <1>6 DEF Made
<1>9. ASSUME Overloads(callables), \A i \in DOMAIN callables : callables[i].const = FALSE,
             \A o \in ToSet(s) : o.out # "fail", NEW i \in DOMAIN callables
      PROVE  Accounts(s, callables[i], record.cpp)
  <2> DEFINE c == callables[i]
             n == Len(c.params)
             o == w[i][n]
  <2>1. n \in Variants(callables, i)
    BY <1>9, FullListOffered
  <2>2. o \in ToSet(s) /\ o # Failure
    BY <1>4, <1>5, <1>9, <2>1
  <2>4. o = Skip(record.cpp) \/ ConstructorComes(o, c, n, record)
    BY <1>3, <2>1, <2>2
  <2>5. Cut(c, n) = Signature(c.params)
    <3>1. IsSeq(c.params) /\ n \in 0 .. Len(c.params)
      BY <1>1, <2>1 DEF Listed
    <3> QED BY <3>1, CutFacts
  <2>6. CASE o = Skip(record.cpp)
    BY <1>5, <2>2, <2>6 DEF Accounts
  <2>7. CASE ConstructorComes(o, c, n, record)
    <3>1. /\ o.out = "emit" /\ o.function.accessor = "" /\ o.function.cpp = record.cpp
          /\ o.function.const = c.const /\ o.function.takes = Signature(c.params)
          /\ o.function.gives = c.returns.canonical
      BY <1>9, <2>5, <2>7 DEF ConstructorComes, EmitsAs, FromCode
    <3>2. o.function \in Made(s)
      BY <2>2, <3>1 DEF Made
    <3> QED BY <3>1, <3>2 DEF Accounts
  <2> QED BY <2>4, <2>6, <2>7
<1>10. ASSUME \A i, j \in DOMAIN callables : SameGroup(callables[i], callables[j]) PROVE NoneMeet(s)
  <2>1. ASSUME NEW i \in DOMAIN callables, NEW j \in DOMAIN callables,
               NEW m \in Variants(callables, i), NEW n \in Variants(callables, j), Meet(w[i][m], w[j][n])
        PROVE  i = j /\ m = n
    <3>1. ConstructorComes(w[i][m], callables[i], m, record) /\ ConstructorComes(w[j][n], callables[j], n, record)
      BY <1>3, <1>5, <2>1 DEF Meet
    <3>2. Cut(callables[i], m) = Cut(callables[j], n)
      BY <2>1, <3>1 DEF Meet, SameCall, ConstructorComes, EmitsAs
    <3>3. SameGroup(callables[i], callables[j])
      BY <1>10
    <3> QED BY <2>1, <3>2, <3>3, VariantsDiffer
  <2>2. Apart(s, MeetPairs(ToSet(s)))
    BY <1>4, <2>1 DEF MeetPairs
  <2> QED BY <1>4, <2>2, MeetingApart
<1>11. \A o \in ToSet(s) : \E i \in DOMAIN callables : \E n \in Variants(callables, i) :
          o = NormalizeConstructor(callables[i], n, record)
  BY <1>2, <1>4
<1>12. Overloads(callables) /\ (\A i \in DOMAIN callables : callables[i].const = FALSE)
          /\ (\A o \in ToSet(s) : o.out # "fail") =>
          \A i \in DOMAIN callables : Accounts(s, callables[i], record.cpp)
  BY <1>9
<1> QED BY <1>7, <1>8, <1>10, <1>11, <1>12 DEF s, w

\* One function that no declaration asks for.
LEMMA LoneEmit ==
    ASSUME NEW f, NEW h, Faithful(f, h), f.params = << >>, f.returns.kind # "FixedModelArray"
    PROVE  LET s == <<Emit(f)>> IN
           Batch(s, h) /\ Made(s) = {f} /\ NoneMeet(s) /\ (\A o \in ToSet(s) : o.out # "fail")
<1> DEFINE o == Emit(f)
           s == <<o>>
<1>1. o.out = "emit" /\ o.function = f
  BY OutcomeFacts
<1> HIDE DEF o
<1>2. IsSeq(s) /\ ToSet(s) = {o} /\ DOMAIN s = {1}
  BY Singletons
<1> HIDE DEF s
<1>3. Made(s) = {f}
  BY <1>1, <1>2 DEF Made
<1>4. NoneMeet(s)
  BY <1>2 DEF NoneMeet
<1>5. TypesIn(f) = {f.returns}
  <2>1. DOMAIN << >> = {}
    BY Singletons
  <2> QED BY <2>1 DEF TypesIn
<1>6. Batch(s, h)
  BY <1>2, <1>3, <1>5 DEF Batch, Backed
<1> QED BY <1>1, <1>2, <1>3, <1>4, <1>6 DEF s, o

\* A declaration that is skipped, and nothing else.
LEMMA LoneSkip ==
    ASSUME NEW cpp, NEW h
    PROVE  LET s == <<Skip(cpp)>> IN
           /\ Batch(s, h) /\ Made(s) = {} /\ NoneMeet(s) /\ (\A o \in ToSet(s) : o.out # "fail")
           /\ \A c : Accounts(s, c, cpp)
<1> DEFINE o == Skip(cpp)
           s == <<o>>
<1>1. o.out = "skip" /\ o.cpp = cpp
  BY OutcomeFacts
<1> HIDE DEF o
<1>2. IsSeq(s) /\ ToSet(s) = {o} /\ DOMAIN s = {1}
  BY Singletons
<1> HIDE DEF s
<1>3. Made(s) = {}
  BY <1>1, <1>2 DEF Made
<1>4. NoneMeet(s)
  BY <1>2 DEF NoneMeet
<1>5. Batch(s, h)
  BY <1>2, <1>3 DEF Batch, Backed
<1>6. \A c : Accounts(s, c, cpp)
  BY <1>1, <1>2 DEF Accounts
<1> QED BY <1>1, <1>2, <1>3, <1>4, <1>5, <1>6 DEF s, o

\* Constructors of a class.
LEMMA ConstructorsFacts ==
    ASSUME headers \in Inputs, NEW h \in 0 .. Len(headers), env = NormalizeEnv(h),
           NEW r, Listed(r.constructors), NEW record, record.handle # NoHandle,
           \A c \in ToSet(r.constructors) : TypesOf(c.params) \subseteq MentionedTypes
    PROVE  LET s == Constructors(r, record) IN
           /\ Batch(s, h)
           /\ \A o \in ToSet(s) : o.out = "fail" => ~r.abstract /\
                 \E i \in DOMAIN r.constructors : \E n \in Variants(r.constructors, i) :
                     o = NormalizeConstructor(r.constructors[i], n, record)
           /\ \A f \in Made(s) : f.kind = "Constructor" /\ f.cpp = record.cpp
           /\ Overloads(r.constructors) /\ (\A c \in ToSet(r.constructors) : c.const = FALSE)
                 /\ (\A o \in ToSet(s) : o.out # "fail") =>
                 \A c \in ToSet(r.constructors) : Accounts(s, c, record.cpp)
           /\ (\A c, d \in ToSet(r.constructors) : SameGroup(c, d)) => NoneMeet(s)
<1> DEFINE s == Constructors(r, record)
           goal(t) ==
              /\ Batch(t, h)
              /\ \A o \in ToSet(t) : o.out = "fail" => ~r.abstract /\
                    \E i \in DOMAIN r.constructors : \E n \in Variants(r.constructors, i) :
                        o = NormalizeConstructor(r.constructors[i], n, record)
              /\ \A f \in Made(t) : f.kind = "Constructor" /\ f.cpp = record.cpp
              /\ Overloads(r.constructors) /\ (\A c \in ToSet(r.constructors) : c.const = FALSE)
                    /\ (\A o \in ToSet(t) : o.out # "fail") =>
                    \A c \in ToSet(r.constructors) : Accounts(t, c, record.cpp)
              /\ (\A c, d \in ToSet(r.constructors) : SameGroup(c, d)) => NoneMeet(t)
<1>1. /\ \A i \in DOMAIN r.constructors : r.constructors[i] \in ToSet(r.constructors)
      /\ \A c \in ToSet(r.constructors) : \E i \in DOMAIN r.constructors : c = r.constructors[i]
  BY SeqFacts DEF Listed
<1>2. CASE r.abstract
  <2>1. s = <<Skip(record.cpp)>>
    BY <1>2 DEF Constructors
  <2> HIDE DEF s
  <2>2. /\ Batch(s, h) /\ Made(s) = {} /\ NoneMeet(s) /\ (\A o \in ToSet(s) : o.out # "fail")
        /\ \A c : Accounts(s, c, record.cpp)
    BY <2>1, LoneSkip
  <2>3. goal(s)
    BY <2>2
  <2> QED BY <2>3 DEF s
<1>3. CASE ~r.abstract /\ r.constructors = << >>
  <2> DEFINE no == FALSE
             self == SelfType(record, no)
             f == Lifecycle(record, "new", "Constructor", self)
  <2>1. s = <<Emit(f)>>
    BY <1>3 DEF Constructors
  <2>2. WellFormed(self) /\ self.kind = "Opaque"
    BY SelfTypeWellFormed
  <2> HIDE DEF self, s
  <2>3. /\ Faithful(f, h) /\ f.kind = "Constructor" /\ f.cpp = record.cpp /\ f.params = << >>
        /\ f.returns = self
    BY <2>2, LifecycleFaithful DEF Lifecycle
  <2> HIDE DEF f
  <2>4. Batch(s, h) /\ Made(s) = {f} /\ NoneMeet(s) /\ (\A o \in ToSet(s) : o.out # "fail")
    BY <2>1, <2>2, <2>3, LoneEmit
  <2>5. ToSet(r.constructors) = {}
    BY <1>3, Singletons
  <2>6. goal(s)
    BY <2>3, <2>4, <2>5
  <2> QED BY <2>6 DEF s
<1>4. CASE ~r.abstract /\ r.constructors # << >>
  <2> DEFINE t == Listings(r.constructors, ConstructorOutcomes(r.constructors, record))
  <2>1. s = t
    BY <1>4, ConstructorVariants DEF Constructors
  <2>2. /\ Batch(t, h)
        /\ \A o \in ToSet(t) : \E i \in DOMAIN r.constructors : \E n \in Variants(r.constructors, i) :
              o = NormalizeConstructor(r.constructors[i], n, record)
        /\ \A f \in Made(t) : f.kind = "Constructor" /\ f.cpp = record.cpp
        /\ Overloads(r.constructors) /\ (\A i \in DOMAIN r.constructors : r.constructors[i].const = FALSE)
              /\ (\A o \in ToSet(t) : o.out # "fail") =>
              \A i \in DOMAIN r.constructors : Accounts(t, r.constructors[i], record.cpp)
        /\ (\A i, j \in DOMAIN r.constructors : SameGroup(r.constructors[i], r.constructors[j])) => NoneMeet(t)
    BY DeclaredConstructors
  <2> HIDE DEF t, s
  <2>3. goal(t)
    BY <1>1, <1>4, <2>2
  <2>4. goal(s)
    BY <2>1, <2>3
  <2> QED BY <2>4 DEF s
<1> QED BY <1>2, <1>3, <1>4

\* A qualified name is its scope and its leaf.
LEMMA AppendApart ==
    ASSUME NEW a, NEW b, IsSeq(a), IsSeq(b), NEW x, NEW y, Append(a, x) = Append(b, y)
    PROVE  a = b /\ x = y
<1> DEFINE S == ToSet(a) \cup ToSet(b) \cup {x, y}
<1>1. a \in Seq(ToSet(a)) /\ b \in Seq(ToSet(b))
  BY DEF IsSeq
<1> HIDE DEF S
<1>2. ToSet(a) \subseteq S /\ ToSet(b) \subseteq S /\ x \in S /\ y \in S
  BY DEF S
<1>3. a \in Seq(S) /\ b \in Seq(S)
  BY <1>1, <1>2
<1>4. Len(a) \in Nat /\ Len(b) \in Nat /\ Len(a) + 1 = Len(b) + 1
  BY <1>2, <1>3
<1>5. Len(a) = Len(b)
  BY <1>4
<1>6. \A i \in 1..Len(a) : Append(a, x)[i] = a[i] /\ Append(b, y)[i] = b[i]
  BY <1>2, <1>3, <1>5
<1>7. Append(a, x)[Len(a) + 1] = x /\ Append(b, y)[Len(a) + 1] = y
  BY <1>2, <1>3, <1>5
<1>8. a = b
  BY <1>3, <1>5, <1>6
<1> QED BY <1>7, <1>8

\* f is made of a member of r, or of a friend of it.
OfRecord(f, r) ==
    \/ f.kind = "Constructor" /\ f.cpp = Qualified(r)
    \/ f.kind = "Method" /\ \E c \in ToSet(r.methods) \cup ToSet(r.operators) : f.cpp = Append(Qualified(r), c.name)
    \/ f.kind = "Function" /\ \E c \in ToSet(r.operators) : c.friend /\ f.cpp = Qualified(c)

\* The failures among outs are of those callables.
FailsOf(outs, callables) ==
    \A o \in ToSet(outs) : o.out = "fail" =>
        \E c \in ToSet(callables) : \E n \in 0 .. Len(c.params) : \E owner : o = NormalizeCallable(c, n, owner)

\* An outcome that fails is that of one of the callables.
LEMMA FailuresOf ==
    ASSUME NEW s, NEW callables, NEW own, NEW I, I \subseteq DOMAIN callables, OutcomesOf(s, callables, own, I)
    PROVE  FailsOf(s, callables)
<1>1. ASSUME NEW o \in ToSet(s)
      PROVE  \E c \in ToSet(callables) : \E n \in 0 .. Len(c.params) : \E owner : o = NormalizeCallable(c, n, owner)
  <2>1. PICK i \in I : \E n \in Variants(callables, i) : o = NormalizeCallable(callables[i], n, own[i])
    BY DEF OutcomesOf
  <2>2. PICK n \in Variants(callables, i) : o = NormalizeCallable(callables[i], n, own[i])
    BY <2>1
  <2>3. callables[i] \in ToSet(callables) /\ n \in 0 .. Len(callables[i].params)
    BY <2>2 DEF ToSet, Variants, Lengths
  <2> QED BY <2>2, <2>3
<1> QED BY <1>1 DEF FailsOf

\* Methods.
LEMMA MethodsFacts ==
    ASSUME headers \in Inputs, NEW h \in 0 .. Len(headers), env = NormalizeEnv(h),
           NEW callables, Listed(callables), \A c \in ToSet(callables) : CallTypes(c) \subseteq MentionedTypes,
           NEW record
    PROVE  LET s == Listings(callables, Outcomes(callables, MemberOwners(callables, record))) IN
           /\ Batch(s, h) /\ FailsOf(s, callables)
           /\ \A f \in Made(s) :
                 f.kind = "Method" /\ \E c \in ToSet(callables) : f.cpp = Append(record.cpp, c.name)
           /\ Overloads(callables) /\ (\A o \in ToSet(s) : o.out # "fail") =>
                 \A c \in ToSet(callables) : Accounts(s, c, Append(record.cpp, c.name))
           /\ IsSeq(record.cpp) /\ (\A c, d \in ToSet(callables) : c.ns = d.ns /\ c.friend = d.friend) => NoneMeet(s)
<1> DEFINE own == MemberOwners(callables, record)
           s == Listings(callables, Outcomes(callables, own))
<1>1. /\ \A i \in DOMAIN callables : callables[i] \in ToSet(callables)
      /\ \A c \in ToSet(callables) : \E i \in DOMAIN callables : c = callables[i]
  BY SeqFacts DEF Listed
<1>2. \A i \in DOMAIN callables :
          /\ KindOf(own[i]) = "Method" /\ CppOf(callables[i], own[i]) = Append(record.cpp, callables[i].name)
          /\ ConstFor(callables[i], own[i]) = callables[i].const
  <2>1. ASSUME NEW i \in DOMAIN callables PROVE own[i] = <<record>> /\ own[i] # << >> /\ own[i][1] = record
    BY DEF MemberOwners
  <2> HIDE DEF own
  <2> QED BY <2>1 DEF KindOf, CppOf, ConstFor
<1> HIDE DEF own
<1>3. /\ OutcomesOf(s, callables, own, DOMAIN callables)
      /\ VariantsApart(callables, own, DOMAIN callables) => NoneMeet(s)
  BY ListingsOutcomes
<1> HIDE DEF s
<1>4. /\ Batch(s, h)
      /\ \A o \in ToSet(s) : o.out = "emit" =>
            \E i \in DOMAIN callables : \E n \in Variants(callables, i) :
                o = NormalizeCallable(callables[i], n, own[i]) /\ Comes(o, callables[i], n, own[i])
      /\ (\A o \in ToSet(s) : o.out # "fail") => \A i \in DOMAIN callables :
            Overloads(callables) /\ ConstFor(callables[i], own[i]) = callables[i].const =>
                Accounts(s, callables[i], CppOf(callables[i], own[i]))
  BY <1>3, CallableBatch
<1>5. FailsOf(s, callables)
  BY <1>3, FailuresOf
<1>6. ASSUME NEW f \in Made(s)
      PROVE  f.kind = "Method" /\ \E c \in ToSet(callables) : f.cpp = Append(record.cpp, c.name)
  <2>1. PICK o \in ToSet(s) : o.out = "emit" /\ f = o.function
    BY DEF Made
  <2>2. PICK i \in DOMAIN callables : \E n \in Variants(callables, i) : Comes(o, callables[i], n, own[i])
    BY <1>4, <2>1
  <2>3. f.kind = KindOf(own[i]) /\ f.cpp = CppOf(callables[i], own[i])
    BY <2>1, <2>2 DEF Comes, EmitsAs
  <2> QED BY <1>1, <1>2, <2>3
<1>7. Overloads(callables) /\ (\A o \in ToSet(s) : o.out # "fail") =>
         \A c \in ToSet(callables) : Accounts(s, c, Append(record.cpp, c.name))
  BY <1>1, <1>2, <1>4
<1>8. ASSUME IsSeq(record.cpp), \A c, d \in ToSet(callables) : c.ns = d.ns /\ c.friend = d.friend
      PROVE  NoneMeet(s)
  <2>1. ASSUME NEW i \in DOMAIN callables, NEW j \in DOMAIN callables,
               CppOf(callables[i], own[i]) = CppOf(callables[j], own[j]),
               ConstFor(callables[i], own[i]) = ConstFor(callables[j], own[j])
        PROVE  SameGroup(callables[i], callables[j])
    <3>1. callables[i].name = callables[j].name
      BY <1>2, <1>8, <2>1, AppendApart
    <3>2. callables[i].ns = callables[j].ns /\ callables[i].friend = callables[j].friend
      BY <1>1, <1>8
    <3> QED BY <1>2, <2>1, <3>1, <3>2 DEF SameGroup, Qualified
  <2>2. VariantsApart(callables, own, DOMAIN callables)
    BY <2>1, VariantsMeetNot DEF VariantsApart
  <2> QED BY <1>3, <2>2
<1> QED BY <1>4, <1>5, <1>6, <1>7, <1>8 DEF s, own

\* Operators of a class: members, and friends that become functions.
LEMMA OperatorsFacts ==
    ASSUME headers \in Inputs, NEW h \in 0 .. Len(headers), env = NormalizeEnv(h),
           NEW callables, Listed(callables), \A c \in ToSet(callables) : CallTypes(c) \subseteq MentionedTypes,
           NEW record
    PROVE  LET s == Listings(callables, Outcomes(callables, OperatorOwners(callables, record))) IN
           /\ Batch(s, h) /\ FailsOf(s, callables)
           /\ \A f \in Made(s) : \E c \in ToSet(callables) :
                 IF c.friend THEN f.kind = "Function" /\ f.cpp = Qualified(c)
                 ELSE f.kind = "Method" /\ f.cpp = Append(record.cpp, c.name)
           /\ Overloads(callables) /\ (\A o \in ToSet(s) : o.out # "fail")
                 /\ (\A c \in ToSet(callables) : c.friend => c.const = FALSE) =>
                 \A c \in ToSet(callables) :
                     Accounts(s, c, IF c.friend THEN Qualified(c) ELSE Append(record.cpp, c.name))
           /\ IsSeq(record.cpp) /\ (\A c, d \in ToSet(callables) : c.ns = d.ns)
                 /\ (\A c \in ToSet(callables) : c.friend \in BOOLEAN /\ (c.friend => c.const = FALSE)) => NoneMeet(s)
<1> DEFINE own == OperatorOwners(callables, record)
           s == Listings(callables, Outcomes(callables, own))
           cpp(c) == IF c.friend THEN Qualified(c) ELSE Append(record.cpp, c.name)
<1>1. /\ \A i \in DOMAIN callables : callables[i] \in ToSet(callables)
      /\ \A c \in ToSet(callables) : \E i \in DOMAIN callables : c = callables[i]
  BY SeqFacts DEF Listed
<1>2. \A i \in DOMAIN callables :
          /\ KindOf(own[i]) = IF callables[i].friend THEN "Function" ELSE "Method"
          /\ CppOf(callables[i], own[i]) = cpp(callables[i])
          /\ callables[i].friend => ConstFor(callables[i], own[i]) = FALSE
          /\ ~callables[i].friend => ConstFor(callables[i], own[i]) = callables[i].const
  <2>1. ASSUME NEW i \in DOMAIN callables
        PROVE  /\ callables[i].friend => own[i] = << >>
               /\ ~callables[i].friend => own[i] = <<record>> /\ own[i] # << >> /\ own[i][1] = record
    BY DEF OperatorOwners
  <2> HIDE DEF own
  <2> QED BY <2>1 DEF KindOf, CppOf, ConstFor
<1> HIDE DEF own
<1>3. /\ OutcomesOf(s, callables, own, DOMAIN callables)
      /\ VariantsApart(callables, own, DOMAIN callables) => NoneMeet(s)
  BY ListingsOutcomes
<1> HIDE DEF s
<1>4. /\ Batch(s, h)
      /\ \A o \in ToSet(s) : o.out = "emit" =>
            \E i \in DOMAIN callables : \E n \in Variants(callables, i) :
                o = NormalizeCallable(callables[i], n, own[i]) /\ Comes(o, callables[i], n, own[i])
      /\ (\A o \in ToSet(s) : o.out # "fail") => \A i \in DOMAIN callables :
            Overloads(callables) /\ ConstFor(callables[i], own[i]) = callables[i].const =>
                Accounts(s, callables[i], CppOf(callables[i], own[i]))
  BY <1>3, CallableBatch
<1>5. FailsOf(s, callables)
  BY <1>3, FailuresOf
<1>6. ASSUME NEW f \in Made(s)
      PROVE  \E c \in ToSet(callables) :
                 IF c.friend THEN f.kind = "Function" /\ f.cpp = Qualified(c)
                 ELSE f.kind = "Method" /\ f.cpp = Append(record.cpp, c.name)
  <2>1. PICK o \in ToSet(s) : o.out = "emit" /\ f = o.function
    BY DEF Made
  <2>2. PICK i \in DOMAIN callables : \E n \in Variants(callables, i) : Comes(o, callables[i], n, own[i])
    BY <1>4, <2>1
  <2>3. f.kind = KindOf(own[i]) /\ f.cpp = CppOf(callables[i], own[i])
    BY <2>1, <2>2 DEF Comes, EmitsAs
  <2> QED BY <1>1, <1>2, <2>3
<1>7. ASSUME Overloads(callables), \A o \in ToSet(s) : o.out # "fail",
             \A c \in ToSet(callables) : c.friend => c.const = FALSE, NEW c \in ToSet(callables)
      PROVE  Accounts(s, c, cpp(c))
  <2>1. PICK i \in DOMAIN callables : c = callables[i]
    BY <1>1
  <2>2. ConstFor(callables[i], own[i]) = callables[i].const
    BY <1>2, <1>7, <2>1
  <2>3. Accounts(s, callables[i], CppOf(callables[i], own[i]))
    BY <1>4, <1>7, <2>2
  <2> QED BY <1>2, <2>1, <2>3
<1>8. ASSUME IsSeq(record.cpp), \A c, d \in ToSet(callables) : c.ns = d.ns,
             \A c \in ToSet(callables) : c.friend \in BOOLEAN /\ (c.friend => c.const = FALSE)
      PROVE  NoneMeet(s)
  <2>1. ASSUME NEW i \in DOMAIN callables, NEW j \in DOMAIN callables,
               KindOf(own[i]) = KindOf(own[j]), CppOf(callables[i], own[i]) = CppOf(callables[j], own[j]),
               ConstFor(callables[i], own[i]) = ConstFor(callables[j], own[j])
        PROVE  SameGroup(callables[i], callables[j])
    <3>1. callables[i] \in ToSet(callables) /\ callables[j] \in ToSet(callables)
      BY <1>1
    <3>2. callables[i].friend = callables[j].friend
      BY <1>2, <1>8, <2>1, <3>1
    <3>3. CASE callables[i].friend
      BY <1>2, <1>8, <2>1, <3>1, <3>2, <3>3 DEF SameGroup
    <3>4. CASE ~callables[i].friend
      <4>a. ~callables[j].friend
        BY <1>8, <3>1, <3>2, <3>4
      <4>b. Append(record.cpp, callables[i].name) = Append(record.cpp, callables[j].name)
        BY <1>2, <2>1, <3>4, <4>a
      <4>1. callables[i].name = callables[j].name
        BY <1>8, <4>b, AppendApart
      <4> QED BY <1>2, <1>8, <2>1, <3>1, <3>2, <3>4, <4>1 DEF SameGroup, Qualified
    <3> QED BY <3>3, <3>4
  <2>2. VariantsApart(callables, own, DOMAIN callables)
    BY <2>1, VariantsMeetNot DEF VariantsApart
  <2> QED BY <1>3, <2>2
<1> QED BY <1>4, <1>5, <1>6, <1>7, <1>8 DEF s, own

\* Accessors, as outcomes.
LEMMA AccessorOutcomes ==
    ASSUME NEW made, NEW h, Accessors(made, h)
    PROVE  LET s == [i \in DOMAIN made |-> Emit(made[i])] IN
           /\ Batch(s, h) /\ NoneMeet(s) /\ (\A o \in ToSet(s) : o.out # "fail")
           /\ \A f \in Made(s) : ~FromCode(f)
<1> DEFINE s == [i \in DOMAIN made |-> Emit(made[i])]
<1>1. DOMAIN s = DOMAIN made /\ \A i \in DOMAIN made : s[i] = Emit(made[i])
  OBVIOUS
<1>2. IsSeq(made) /\ Len(made) \in Nat /\ DOMAIN made = 1..Len(made)
  BY SeqFacts DEF Accessors
<1>3. IsSeq(s)
  BY <1>2, FunctionIsSeq
<1>4. /\ \A i \in DOMAIN made : Emit(made[i]).out = "emit" /\ Emit(made[i]).function = made[i]
      /\ Failure.out = "fail"
  BY OutcomeFacts
<1> HIDE DEF s
<1>5. /\ \A o \in ToSet(s) : \E i \in DOMAIN s : o = s[i]
      /\ \A i \in DOMAIN s : s[i] \in ToSet(s)
  BY <1>3, SeqFacts
<1>6. /\ \A f \in ToSet(made) : \E i \in DOMAIN made : f = made[i]
      /\ \A i \in DOMAIN made : made[i] \in ToSet(made)
  BY <1>2, SeqFacts
<1>7. Made(s) = ToSet(made)
  <2>1. \A f : f \in Made(s) <=> f \in ToSet(made)
    BY <1>1, <1>4, <1>5, <1>6 DEF Made
  <2> HIDE DEF Made
  <2> QED BY <2>1, Zenon
<1>8. NoneMeet(s)
  <2>1. \A i \in DOMAIN s : s[i].function = made[i] /\ ~FromCode(made[i])
    BY <1>1, <1>4, <1>6 DEF Accessors
  <2> QED BY <2>1 DEF NoneMeet, Meet, SameCall
<1> QED BY <1>1, <1>3, <1>4, <1>5, <1>7, <1>8 DEF s, Batch, Accessors

\* What holds of the flags of overloads.
LEMMA OverloadsFlags ==
    ASSUME NEW callables, Overloads(callables), NEW c \in ToSet(callables)
    PROVE  c.const \in BOOLEAN /\ c.friend \in BOOLEAN /\ IsSeq(c.ns) /\ IsSeq(c.params)
<1>1. \A e \in ToSet(callables) : \E i \in DOMAIN callables : e = callables[i]
  BY SeqFacts DEF Overloads
<1> QED BY <1>1 DEF Overloads

\* What holds of a record that a header declares.
LEMMA RecordParts ==
    ASSUME headers \in Inputs, NEW g \in DOMAIN headers, NEW r \in ToSet(headers[g].records)
    PROVE  /\ Listed(r.constructors) /\ Listed(r.methods) /\ Listed(r.operators)
           /\ \A c \in ToSet(r.constructors) : TypesOf(c.params) \subseteq MentionedTypes
           /\ \A c \in ToSet(r.methods) \cup ToSet(r.operators) : CallTypes(c) \subseteq MentionedTypes
           /\ IsSeq(r.fields) /\ \A i \in DOMAIN r.fields : IsType(r.fields[i].type)
           /\ \A c \in ToSet(r.constructors) :
                 c.ns = r.ns /\ c.name = r.name /\ c.const = FALSE /\ c.friend = FALSE
           /\ \A c \in ToSet(r.methods) : c.ns = r.ns /\ c.friend = FALSE
           /\ \A c \in ToSet(r.operators) :
                 c.ns = r.ns /\ c.friend \in BOOLEAN /\ (c.friend => c.const = FALSE)
           /\ \A c \in ToSet(r.operators), d \in ToSet(r.methods) : c.name # d.name
           /\ IsName(Qualified(r)) /\ IsSeq(Qualified(r))
           /\ Overloads(r.constructors) /\ Overloads(r.methods) /\ Overloads(r.operators)
<1>1. /\ IsRecord(r) /\ MemberTypes(r) \subseteq AliasedTypes
      /\ \A c \in ToSet(r.operators) : CallTypes(c) \subseteq MentionedTypes
  BY DeclaredFacts
<1>2. /\ \A t \in MentionedTypes : IsType(t)
      /\ AliasedTypes \subseteq MentionedTypes
  BY MentionedAreTypes
<1>3. /\ Overloads(r.constructors) /\ Overloads(r.methods) /\ Overloads(r.operators)
      /\ IsName(Qualified(r)) /\ IsSeq(r.fields)
  BY <1>1 DEF IsRecord
<1>4. Listed(r.constructors) /\ Listed(r.methods) /\ Listed(r.operators)
  BY <1>3, OverloadsListed
<1>5. \A c \in ToSet(r.constructors) : TypesOf(c.params) \subseteq MentionedTypes
  BY <1>1, <1>2 DEF MemberTypes
<1>6. \A c \in ToSet(r.methods) : CallTypes(c) \subseteq MentionedTypes
  BY <1>1, <1>2 DEF MemberTypes
<1>7. \A i \in DOMAIN r.fields : IsType(r.fields[i].type)
  BY <1>1, <1>2 DEF MemberTypes
<1>8. \A c \in ToSet(r.constructors) :
         c.ns = r.ns /\ c.name = r.name /\ c.const = FALSE /\ c.friend = FALSE
  <2>1. \A c \in ToSet(r.constructors) : c.ns = r.ns /\ c.name = r.name /\ ~c.const /\ ~c.friend
    BY <1>1 DEF IsRecord
  <2>2. \A c \in ToSet(r.constructors) : c.const \in BOOLEAN /\ c.friend \in BOOLEAN
    BY <1>3, OverloadsFlags
  <2> QED BY <2>1, <2>2
<1>9. \A c \in ToSet(r.methods) : c.ns = r.ns /\ c.friend = FALSE
  <2>1. \A c \in ToSet(r.methods) : c.ns = r.ns /\ ~c.friend
    BY <1>1 DEF IsRecord
  <2>2. \A c \in ToSet(r.methods) : c.friend \in BOOLEAN
    BY <1>3, OverloadsFlags
  <2> QED BY <2>1, <2>2
<1>10. \A c \in ToSet(r.operators) :
          c.ns = r.ns /\ c.friend \in BOOLEAN /\ (c.friend => c.const = FALSE)
  <2>1. \A c \in ToSet(r.operators) : c.ns = r.ns /\ (c.friend => ~c.const)
    BY <1>1 DEF IsRecord
  <2>2. \A c \in ToSet(r.operators) : c.const \in BOOLEAN /\ c.friend \in BOOLEAN
    BY <1>3, OverloadsFlags
  <2> QED BY <2>1, <2>2
<1>11. \A c \in ToSet(r.operators), d \in ToSet(r.methods) : c.name # d.name
  BY <1>1 DEF IsRecord
<1>12. IsSeq(Qualified(r))
  BY <1>3 DEF IsName
<1> QED BY <1>1, <1>3, <1>4, <1>5, <1>6, <1>7, <1>8, <1>9, <1>10, <1>11, <1>12

\* Every overload of a record is accounted for in outs.
RecordAccounted(outs, r) ==
    /\ \A c \in ToSet(r.constructors) : Accounts(outs, c, Qualified(r))
    /\ \A c \in ToSet(r.methods) \cup ToSet(r.operators) :
          Accounts(outs, c, IF c.friend THEN Qualified(c) ELSE Append(Qualified(r), c.name))

\* Where the failures of a record come from.
RecordFails(outs, r, record) ==
    \A o \in ToSet(outs) : o.out = "fail" =>
        \/ \E c \in ToSet(r.methods) \cup ToSet(r.operators) : \E n \in 0 .. Len(c.params) : \E owner :
              o = NormalizeCallable(c, n, owner)
        \/ \E c \in ToSet(r.constructors) : \E n \in 0 .. Len(c.params) :
              o = NormalizeConstructor(c, n, record)

\* The wrapper that deletes a record has no types but the receiver and void.
LEMMA DestructorFacts ==
    ASSUME NEW record, NEW h
    PROVE  LET f == Lifecycle(record, "delete", "Destructor", Void) IN
           Faithful(f, h) /\ ~FromCode(f) /\ f.params = << >> /\ f.returns.kind # "FixedModelArray"
<1> DEFINE f == Lifecycle(record, "delete", "Destructor", Void)
<1>1. /\ DOMAIN f = FunctionFields /\ f.kind = "Destructor" /\ f.params = << >> /\ f.returns = Void
  BY DEF Lifecycle, FunctionFields
<1> HIDE DEF f
<1>2. IsSeq(<< >>) /\ DOMAIN << >> = {}
  BY Singletons
<1>3. TypesIn(f) = {Void}
  BY <1>1, <1>2 DEF TypesIn
<1>4. ~FromCode(f)
  BY <1>1 DEF FromCode
<1>5. Faithful(f, h)
  BY <1>1, <1>2, <1>3, <1>4, VoidWellFormed DEF Faithful
<1> QED BY <1>1, <1>4, <1>5, VoidKind DEF f

\* What the outcomes of a record consist of.
PartsOf(A, B, C, D, E, gone, r, record, h) ==
    /\ record.cpp = Qualified(r) /\ IsSeq(Qualified(r))
    /\ \A c \in ToSet(r.operators), d \in ToSet(r.methods) : c.name # d.name
    /\ Batch(A, h) /\ Batch(B, h) /\ Batch(C, h) /\ Batch(D, h) /\ Batch(E, h)
    /\ NoneMeet(A) /\ NoneMeet(B) /\ NoneMeet(C) /\ NoneMeet(D) /\ NoneMeet(E)
    /\ \A f \in Made(A) : f.kind = "Constructor" /\ f.cpp = record.cpp
    /\ Made(B) = {gone} /\ ~FromCode(gone)
    /\ \A f \in Made(C) :
          f.kind = "Method" /\ \E c \in ToSet(r.methods) : f.cpp = Append(record.cpp, c.name)
    /\ \A f \in Made(D) : \E c \in ToSet(r.operators) :
          IF c.friend THEN f.kind = "Function" /\ f.cpp = Qualified(c)
          ELSE f.kind = "Method" /\ f.cpp = Append(record.cpp, c.name)
    /\ \A f \in Made(E) : ~FromCode(f)

\* Constructors, destructor, methods, operators and accessors of one record never wrap one call twice.
LEMMA RecordAsParts ==
    ASSUME NEW h, NEW A, NEW B, NEW C, NEW D, NEW E, NEW gone, NEW r, NEW record,
           PartsOf(A, B, C, D, E, gone, r, record, h)
    PROVE  LET s == A \o B \o C \o D \o E IN
           /\ Batch(s, h) /\ NoneMeet(s)
           /\ ToSet(s) = ToSet(A) \cup ToSet(B) \cup ToSet(C) \cup ToSet(D) \cup ToSet(E)
           /\ \A f \in Made(s) : FromCode(f) => OfRecord(f, r)
<1> DEFINE AB == A \o B
           ABC == AB \o C
           ABCD == ABC \o D
           s == ABCD \o E
<1>s. AB = A \o B /\ ABC = AB \o C /\ ABCD = ABC \o D /\ s = ABCD \o E
  OBVIOUS
<1> HIDE DEF AB, ABC, ABCD, s
<1>b. Batch(A, h) /\ Batch(B, h) /\ Batch(C, h) /\ Batch(D, h) /\ Batch(E, h)
  BY DEF PartsOf
<1>1. Batch(AB, h) /\ ToSet(AB) = ToSet(A) \cup ToSet(B) /\ Made(AB) = Made(A) \cup Made(B)
  BY <1>s, <1>b, BatchConcat, ConcatFacts, MadeConcat DEF Batch
<1>2. Batch(ABC, h) /\ ToSet(ABC) = ToSet(AB) \cup ToSet(C) /\ Made(ABC) = Made(AB) \cup Made(C)
  BY <1>s, <1>b, <1>1, BatchConcat, ConcatFacts, MadeConcat DEF Batch
<1>3. Batch(ABCD, h) /\ ToSet(ABCD) = ToSet(ABC) \cup ToSet(D) /\ Made(ABCD) = Made(ABC) \cup Made(D)
  BY <1>s, <1>b, <1>2, BatchConcat, ConcatFacts, MadeConcat DEF Batch
<1>4. Batch(s, h) /\ ToSet(s) = ToSet(ABCD) \cup ToSet(E) /\ Made(s) = Made(ABCD) \cup Made(E)
  BY <1>s, <1>b, <1>3, BatchConcat, ConcatFacts, MadeConcat DEF Batch
<1> USE DEF PartsOf
<1>8. /\ Batch(s, h)
      /\ ToSet(s) = ToSet(A) \cup ToSet(B) \cup ToSet(C) \cup ToSet(D) \cup ToSet(E)
      /\ Made(s) = Made(A) \cup {gone} \cup Made(C) \cup Made(D) \cup Made(E)
  BY <1>1, <1>2, <1>3, <1>4
<1>10. NoneMeet(s)
  <2>1. \A S, a : a \in ToSet(S) /\ a.out = "emit" => a.function \in Made(S)
    BY DEF Made
  <2>2. \A a \in ToSet(A), b \in ToSet(B) : ~Meet(a, b)
    BY <2>1 DEF Meet, SameCall
  <2>3. NoneMeet(AB)
    BY <2>2, <1>s, NoneMeetConcat DEF Batch
  <2>4. \A a \in ToSet(AB), b \in ToSet(C) : ~Meet(a, b)
    BY <1>1, <2>1 DEF Meet, SameCall
  <2>5. NoneMeet(ABC)
    BY <1>1, <2>3, <2>4, <1>s, NoneMeetConcat DEF Batch
  <2>6. ASSUME NEW a \in ToSet(ABC), NEW b \in ToSet(D), Meet(a, b) PROVE FALSE
    <3>1. PICK c \in ToSet(r.operators) :
             IF c.friend THEN b.function.kind = "Function" /\ b.function.cpp = Qualified(c)
             ELSE b.function.kind = "Method" /\ b.function.cpp = Append(record.cpp, c.name)
      BY <2>1, <2>6 DEF Meet
    <3>2. a.function \in Made(A) \cup {gone} \cup Made(C) /\ FromCode(a.function)
          /\ a.function.kind = b.function.kind /\ a.function.cpp = b.function.cpp
      BY <1>1, <1>2, <2>1, <2>6 DEF Meet, SameCall
    <3>3. a.function \in Made(C)
      BY <3>1, <3>2
    <3>4. PICK d \in ToSet(r.methods) : a.function.cpp = Append(record.cpp, d.name)
      BY <3>3
    <3>5. b.function.cpp = Append(record.cpp, c.name)
      BY <3>1, <3>2, <3>3
    <3>6. c.name = d.name
      <4>1. Append(record.cpp, c.name) = Append(record.cpp, d.name) /\ IsSeq(record.cpp)
        BY <3>2, <3>4, <3>5
      <4> QED BY <4>1, AppendApart
    <3> QED BY <3>6
  <2>7. NoneMeet(ABCD)
    BY <1>2, <2>5, <2>6, <1>s, NoneMeetConcat DEF Batch
  <2>8. \A a \in ToSet(ABCD), b \in ToSet(E) : ~Meet(a, b)
    BY <2>1 DEF Meet, SameCall
  <2>9. NoneMeet(s)
    BY <1>3, <2>7, <2>8, <1>s, NoneMeetConcat DEF Batch
  <2> QED BY <2>9
<1>11. ASSUME NEW f \in Made(s), FromCode(f) PROVE OfRecord(f, r)
  <2>1. f \in Made(A) \/ f \in Made(C) \/ f \in Made(D)
    BY <1>8, <1>11
  <2>2. CASE f \in Made(A)
    BY <2>2 DEF OfRecord
  <2>3. CASE f \in Made(C)
    BY <2>3 DEF OfRecord
  <2>4. CASE f \in Made(D)
    BY <2>4 DEF OfRecord
  <2> QED BY <2>1, <2>2, <2>3, <2>4
<1> QED BY <1>s, <1>8, <1>10, <1>11

\* normalize_record
LEMMA RecordFacts ==
    ASSUME headers \in Inputs, NEW h \in 0 .. Len(headers), env = NormalizeEnv(h),
           NEW g \in DOMAIN headers, NEW r \in ToSet(headers[g].records),
           NEW record, record.handle # NoHandle, record.cpp = Qualified(r)
    PROVE  LET s == RecordOutcomes(r, record) IN
           /\ Batch(s, h) /\ NoneMeet(s) /\ RecordFails(s, r, record)
           /\ \A f \in Made(s) : FromCode(f) => OfRecord(f, r)
           /\ (\A o \in ToSet(s) : o.out # "fail") => RecordAccounted(s, r)
<1> DEFINE A == Constructors(r, record)
           gone == Lifecycle(record, "delete", "Destructor", Void)
           B == <<Emit(gone)>>
           C == Listings(r.methods, Outcomes(r.methods, MemberOwners(r.methods, record)))
           D == Listings(r.operators, Outcomes(r.operators, OperatorOwners(r.operators, record)))
           fields == StructFields(r, record)
           E == [i \in DOMAIN fields |-> Emit(fields[i])]
           s == RecordOutcomes(r, record)
<1>1. s = A \o B \o C \o D \o E
  BY MemberVariants, OperatorVariants DEF RecordOutcomes
<1> HIDE DEF s
<1>2. /\ Listed(r.constructors) /\ Listed(r.methods) /\ Listed(r.operators)
      /\ \A c \in ToSet(r.constructors) : TypesOf(c.params) \subseteq MentionedTypes
      /\ \A c \in ToSet(r.methods) \cup ToSet(r.operators) : CallTypes(c) \subseteq MentionedTypes
      /\ IsSeq(r.fields) /\ \A i \in DOMAIN r.fields : IsType(r.fields[i].type)
      /\ \A c \in ToSet(r.constructors) :
            c.ns = r.ns /\ c.name = r.name /\ c.const = FALSE /\ c.friend = FALSE
      /\ \A c \in ToSet(r.methods) : c.ns = r.ns /\ c.friend = FALSE
      /\ \A c \in ToSet(r.operators) :
            c.ns = r.ns /\ c.friend \in BOOLEAN /\ (c.friend => c.const = FALSE)
      /\ \A c \in ToSet(r.operators), d \in ToSet(r.methods) : c.name # d.name
      /\ IsSeq(Qualified(r))
      /\ Overloads(r.constructors) /\ Overloads(r.methods) /\ Overloads(r.operators)
  BY RecordParts
<1>3. HaveHandles(env.records)
  BY IrRecordsFacts, EnvFields
<1>a. /\ Batch(A, h)
      /\ \A o \in ToSet(A) : o.out = "fail" => ~r.abstract /\
            \E i \in DOMAIN r.constructors : \E n \in Variants(r.constructors, i) :
                o = NormalizeConstructor(r.constructors[i], n, record)
      /\ \A f \in Made(A) : f.kind = "Constructor" /\ f.cpp = record.cpp
      /\ Overloads(r.constructors) /\ (\A c \in ToSet(r.constructors) : c.const = FALSE)
            /\ (\A o \in ToSet(A) : o.out # "fail") =>
            \A c \in ToSet(r.constructors) : Accounts(A, c, record.cpp)
      /\ (\A c, d \in ToSet(r.constructors) : SameGroup(c, d)) => NoneMeet(A)
  BY <1>2, ConstructorsFacts
<1>n. NoneMeet(A)
  <2>1. \A c, d \in ToSet(r.constructors) : SameGroup(c, d)
    BY <1>2 DEF SameGroup, Qualified
  <2> QED BY <1>a, <2>1
<1>b. Batch(B, h) /\ Made(B) = {gone} /\ NoneMeet(B) /\ (\A o \in ToSet(B) : o.out # "fail") /\ ~FromCode(gone)
  <2>1. Faithful(gone, h) /\ ~FromCode(gone) /\ gone.params = << >> /\ gone.returns.kind # "FixedModelArray"
    BY DestructorFacts
  <2> HIDE DEF gone
  <2> QED BY <2>1, LoneEmit
<1>c. /\ Batch(C, h) /\ FailsOf(C, r.methods)
      /\ \A f \in Made(C) :
            f.kind = "Method" /\ \E c \in ToSet(r.methods) : f.cpp = Append(record.cpp, c.name)
      /\ Overloads(r.methods) /\ (\A o \in ToSet(C) : o.out # "fail") =>
            \A c \in ToSet(r.methods) : Accounts(C, c, Append(record.cpp, c.name))
      /\ IsSeq(record.cpp) /\ (\A c, d \in ToSet(r.methods) : c.ns = d.ns /\ c.friend = d.friend) => NoneMeet(C)
  BY <1>2, MethodsFacts
<1>d. /\ Batch(D, h) /\ FailsOf(D, r.operators)
      /\ \A f \in Made(D) : \E c \in ToSet(r.operators) :
            IF c.friend THEN f.kind = "Function" /\ f.cpp = Qualified(c)
            ELSE f.kind = "Method" /\ f.cpp = Append(record.cpp, c.name)
      /\ Overloads(r.operators) /\ (\A o \in ToSet(D) : o.out # "fail")
            /\ (\A c \in ToSet(r.operators) : c.friend => c.const = FALSE) =>
            \A c \in ToSet(r.operators) :
                Accounts(D, c, IF c.friend THEN Qualified(c) ELSE Append(record.cpp, c.name))
      /\ IsSeq(record.cpp) /\ (\A c, d \in ToSet(r.operators) : c.ns = d.ns)
            /\ (\A c \in ToSet(r.operators) : c.friend \in BOOLEAN /\ (c.friend => c.const = FALSE)) => NoneMeet(D)
  BY <1>2, OperatorsFacts
<1>e. Batch(E, h) /\ NoneMeet(E) /\ (\A o \in ToSet(E) : o.out # "fail") /\ \A f \in Made(E) : ~FromCode(f)
  <2>1. Accessors(fields, h)
    BY <1>2, <1>3, StructFieldsFacts
  <2> HIDE DEF fields
  <2> QED BY <2>1, AccessorOutcomes
<1> HIDE DEF A, B, C, D, E, gone
<1>9. NoneMeet(C) /\ NoneMeet(D)
  BY <1>2, <1>c, <1>d
<1>8. LET t == A \o B \o C \o D \o E IN
      /\ Batch(t, h) /\ NoneMeet(t)
      /\ ToSet(t) = ToSet(A) \cup ToSet(B) \cup ToSet(C) \cup ToSet(D) \cup ToSet(E)
      /\ \A f \in Made(t) : FromCode(f) => OfRecord(f, r)
  <2>1. PartsOf(A, B, C, D, E, gone, r, record, h)
    BY <1>2, <1>n, <1>9, <1>a, <1>b, <1>c, <1>d, <1>e DEF PartsOf
  <2> QED BY <2>1, RecordAsParts
<1>10. /\ Batch(s, h) /\ NoneMeet(s)
       /\ ToSet(s) = ToSet(A) \cup ToSet(B) \cup ToSet(C) \cup ToSet(D) \cup ToSet(E)
       /\ \A f \in Made(s) : FromCode(f) => OfRecord(f, r)
  BY <1>1, <1>8
<1>12. RecordFails(s, r, record)
  <2>1. ASSUME NEW o \in ToSet(s), o.out = "fail"
        PROVE  \/ \E c \in ToSet(r.methods) \cup ToSet(r.operators) : \E n \in 0 .. Len(c.params) : \E owner :
                     o = NormalizeCallable(c, n, owner)
               \/ \E c \in ToSet(r.constructors) : \E n \in 0 .. Len(c.params) :
                     o = NormalizeConstructor(c, n, record)
    <3>1. o \in ToSet(A) \/ o \in ToSet(C) \/ o \in ToSet(D)
      BY <1>10, <1>b, <1>e, <2>1
    <3>2. CASE o \in ToSet(A)
      <4>1. PICK i \in DOMAIN r.constructors : \E n \in Variants(r.constructors, i) :
                o = NormalizeConstructor(r.constructors[i], n, record)
        BY <1>a, <2>1, <3>2
      <4>2. r.constructors[i] \in ToSet(r.constructors)
            /\ Variants(r.constructors, i) \subseteq 0 .. Len(r.constructors[i].params)
        BY DEF ToSet, Variants, Lengths
      <4> QED BY <4>1, <4>2
    <3>3. CASE o \in ToSet(C)
      BY <1>c, <2>1, <3>3 DEF FailsOf
    <3>4. CASE o \in ToSet(D)
      BY <1>d, <2>1, <3>4 DEF FailsOf
    <3> QED BY <3>1, <3>2, <3>3, <3>4
  <2> QED BY <2>1 DEF RecordFails
<1>13. ASSUME \A o \in ToSet(s) : o.out # "fail" PROVE RecordAccounted(s, r)
  <2>1. ToSet(A) \subseteq ToSet(s) /\ ToSet(C) \subseteq ToSet(s) /\ ToSet(D) \subseteq ToSet(s)
    BY <1>10
  <2>2. \A c \in ToSet(r.constructors) : Accounts(s, c, Qualified(r))
    <3>1. \A c \in ToSet(r.constructors) : Accounts(A, c, Qualified(r))
      BY <1>2, <1>13, <1>a, <2>1
    <3> QED BY <2>1, <3>1, AccountsMore
  <2>3. \A c \in ToSet(r.methods) : Accounts(s, c, Append(Qualified(r), c.name)) /\ c.friend = FALSE
    <3>1. \A c \in ToSet(r.methods) : Accounts(C, c, Append(Qualified(r), c.name))
      BY <1>2, <1>13, <1>c, <2>1
    <3> QED BY <1>2, <2>1, <3>1, AccountsMore
  <2>4. \A c \in ToSet(r.operators) :
           Accounts(s, c, IF c.friend THEN Qualified(c) ELSE Append(Qualified(r), c.name))
    <3>1. \A c \in ToSet(r.operators) :
             Accounts(D, c, IF c.friend THEN Qualified(c) ELSE Append(Qualified(r), c.name))
      BY <1>2, <1>13, <1>d, <2>1
    <3> QED BY <2>1, <3>1, AccountsMore
  <2> QED BY <2>2, <2>3, <2>4 DEF RecordAccounted
<1> QED BY <1>10, <1>12, <1>13 DEF s

\* f is a variant of the i-th callable, which is no member.
OfFree(f, callables, i) ==
    /\ f.kind = "Function" /\ f.cpp = Qualified(callables[i])
    /\ \E n \in Variants(callables, i) : f.takes = Cut(callables[i], n)

\* A function or an operator outside of classes, with its variants.
LEMMA FreeFacts ==
    ASSUME headers \in Inputs, NEW h \in 0 .. Len(headers), env = NormalizeEnv(h),
           NEW callables, Listed(callables), \A c \in ToSet(callables) : CallTypes(c) \subseteq MentionedTypes,
           NEW i \in DOMAIN callables
    PROVE  LET s == VariantsOf(callables, i, FreeCallable) IN
           /\ Batch(s, h) /\ NoneMeet(s) /\ FailsOf(s, callables)
           /\ \A f \in Made(s) : OfFree(f, callables, i)
           /\ Overloads(callables) /\ callables[i].const = FALSE /\ (\A o \in ToSet(s) : o.out # "fail") =>
                 Accounts(s, callables[i], Qualified(callables[i]))
<1> DEFINE own == FreeOwners(callables)
           s == Listing(callables, i, Outcomes(callables, own)[i])
<1>1. own[i] = << >>
  BY DEF FreeOwners
<1> HIDE DEF own
<1>2. /\ OutcomesOf(s, callables, own, {i})
      /\ VariantsApart(callables, own, {i}) => NoneMeet(s)
  BY ListingOutcomes
<1>3. VariantsOf(callables, i, FreeCallable) = s
  BY FreeVariants DEF own
<1> HIDE DEF s
<1>4. {i} \subseteq DOMAIN callables
  OBVIOUS
<1>5. /\ Batch(s, h)
      /\ \A o \in ToSet(s) : o.out = "emit" =>
            \E j \in {i} : \E n \in Variants(callables, j) :
                o = NormalizeCallable(callables[j], n, own[j]) /\ Comes(o, callables[j], n, own[j])
      /\ (\A o \in ToSet(s) : o.out # "fail") => \A j \in {i} :
            Overloads(callables) /\ ConstFor(callables[j], own[j]) = callables[j].const =>
                Accounts(s, callables[j], CppOf(callables[j], own[j]))
  BY <1>2, <1>4, CallableBatch
<1>6. FailsOf(s, callables)
  BY <1>2, <1>4, FailuresOf
<1>7. /\ KindOf(own[i]) = "Function" /\ CppOf(callables[i], own[i]) = Qualified(callables[i])
      /\ ConstFor(callables[i], own[i]) = FALSE
  BY <1>1 DEF KindOf, CppOf, ConstFor
<1>8. ASSUME NEW f \in Made(s) PROVE OfFree(f, callables, i)
  <2>1. PICK o \in ToSet(s) : o.out = "emit" /\ f = o.function
    BY DEF Made
  <2>2. PICK n \in Variants(callables, i) : Comes(o, callables[i], n, own[i])
    BY <1>5, <2>1
  <2> QED BY <1>7, <2>1, <2>2 DEF Comes, EmitsAs, OfFree
<1>9. NoneMeet(s)
  <2>1. SameGroup(callables[i], callables[i])
    BY DEF SameGroup
  <2>2. \A m, n \in Variants(callables, i) :
           Meet(NormalizeCallable(callables[i], m, own[i]), NormalizeCallable(callables[i], n, own[i])) => m = n
    BY <2>1, VariantsMeetNot
  <2>3. VariantsApart(callables, own, {i})
    BY <2>2 DEF VariantsApart
  <2> QED BY <1>2, <2>3
<1>10. Overloads(callables) /\ callables[i].const = FALSE /\ (\A o \in ToSet(s) : o.out # "fail") =>
          Accounts(s, callables[i], Qualified(callables[i]))
  BY <1>5, <1>7
<1>11. \A f \in Made(s) : OfFree(f, callables, i)
  BY <1>8
<1> HIDE DEF own
<1> QED BY <1>3, <1>5, <1>6, <1>9, <1>10, <1>11, Zenon

\* f is made of the d-th declaration of header x.
OfDeclaration(f, x, d) ==
    \/ d \in DOMAIN x.records /\ OfRecord(f, x.records[d])
    \/ \E i \in DOMAIN x.functions : d = Len(x.records) + i /\ OfFree(f, x.functions, i)
    \/ \E i \in DOMAIN x.operators :
          d = Len(x.records) + Len(x.functions) + i /\ OfFree(f, x.operators, i)

\* A variant of a callable is of no other.
LEMMA FreeApart ==
    ASSUME NEW callables, Overloads(callables),
           \A c \in ToSet(callables) : ~c.const /\ ~c.friend,
           NEW i \in DOMAIN callables, NEW j \in DOMAIN callables,
           NEW f, NEW g, OfFree(f, callables, i), OfFree(g, callables, j), SameCall(f, g)
    PROVE  i = j
<1>1. callables[i] \in ToSet(callables) /\ callables[j] \in ToSet(callables)
  BY DEF ToSet
<1>2. /\ callables[i].const = FALSE /\ callables[i].friend = FALSE
      /\ callables[j].const = FALSE /\ callables[j].friend = FALSE
  BY <1>1, OverloadsFlags
<1>3. f.cpp = g.cpp /\ f.takes = g.takes
  BY DEF SameCall
<1>4. SameGroup(callables[i], callables[j])
  BY <1>2, <1>3 DEF OfFree, SameGroup
<1>5. PICK m \in Variants(callables, i) : f.takes = Cut(callables[i], m)
  BY DEF OfFree
<1>6. PICK n \in Variants(callables, j) : g.takes = Cut(callables[j], n)
  BY DEF OfFree
<1>7. Listed(callables)
  BY OverloadsListed
<1>8. Cut(callables[i], m) = Cut(callables[j], n)
  BY <1>3, <1>5, <1>6
<1> QED BY <1>4, <1>7, <1>8, VariantsDiffer

\* What is made of one declaration is made of no other.
LEMMA DeclarationsApart ==
    ASSUME NEW x, IsHeader(x), FriendsOnce(x), NEW d, NEW e, NEW f, NEW g, SameCall(f, g),
           OfDeclaration(f, x, d), OfDeclaration(g, x, e)
    PROVE  d = e
<1>1. /\ IsSeq(x.records)
      /\ \A r \in ToSet(x.records) : IsRecord(r)
      /\ \A i, j \in DOMAIN x.records : Qualified(x.records[i]) = Qualified(x.records[j]) => i = j
      /\ Overloads(x.functions) /\ Overloads(x.operators)
      /\ \A c \in ToSet(x.functions) : ~c.const /\ ~c.friend
      /\ \A c \in ToSet(x.operators) : ~c.const /\ ~c.friend
  BY DEF IsHeader
<1>2. \A c \in ToSet(x.functions), o \in ToSet(x.operators) : c.name # o.name
  BY DEF IsHeader
<1>3. \A c \in ToSet(x.functions), r \in ToSet(x.records) : \A o \in ToSet(r.operators) : c.name # o.name
  BY DEF IsHeader
<1>4. /\ \A i \in DOMAIN x.records : x.records[i] \in ToSet(x.records)
      /\ \A i \in DOMAIN x.functions : x.functions[i] \in ToSet(x.functions)
      /\ \A i \in DOMAIN x.operators : x.operators[i] \in ToSet(x.operators)
  BY DEF ToSet
<1>5. \A r \in ToSet(x.records) : IsSeq(Qualified(r)) /\ \A o \in ToSet(r.operators) : IsSeq(o.ns)
  <2>1. \A r \in ToSet(x.records) : IsName(Qualified(r)) /\ Overloads(r.operators)
    BY <1>1 DEF IsRecord
  <2> QED BY <2>1, OverloadsFlags DEF IsName
<1>6. /\ \A c \in ToSet(x.functions) : IsSeq(c.ns)
      /\ \A c \in ToSet(x.operators) : IsSeq(c.ns)
  BY <1>1, OverloadsFlags
<1>7. \A i, j \in DOMAIN x.records : \A c \in ToSet(x.records[i].operators), o \in ToSet(x.records[j].operators) :
         c.friend /\ o.friend /\ Qualified(c) = Qualified(o) => i = j
  BY DEF FriendsOnce
<1>8. \A i \in DOMAIN x.records : \A c \in ToSet(x.records[i].operators), o \in ToSet(x.operators) :
         c.friend => Qualified(c) # Qualified(o)
  BY DEF FriendsOnce
<1>9. \A a, b : IsSeq(a.ns) /\ IsSeq(b.ns) /\ Qualified(a) = Qualified(b) => a.name = b.name
  BY AppendApart DEF Qualified
<1>10. f.kind = g.kind /\ f.cpp = g.cpp
  BY DEF SameCall
\* the two ways in which a record and another declaration could meet
<1>11. ASSUME NEW i \in DOMAIN x.records, NEW u, NEW v, u.kind = v.kind, u.cpp = v.cpp,
              OfRecord(u, x.records[i]), NEW j \in DOMAIN x.functions, OfFree(v, x.functions, j)
       PROVE  FALSE
  <2>1. PICK c \in ToSet(x.records[i].operators) : u.cpp = Qualified(c)
    BY <1>11 DEF OfRecord, OfFree
  <2>2. Qualified(c) = Qualified(x.functions[j])
    BY <1>11, <2>1 DEF OfFree
  <2>3. c.name = x.functions[j].name
    BY <1>4, <1>5, <1>6, <1>9, <2>2
  <2> QED BY <1>3, <1>4, <2>3
<1>12. ASSUME NEW i \in DOMAIN x.records, NEW u, NEW v, u.kind = v.kind, u.cpp = v.cpp,
              OfRecord(u, x.records[i]), NEW j \in DOMAIN x.operators, OfFree(v, x.operators, j)
       PROVE  FALSE
  <2>1. PICK c \in ToSet(x.records[i].operators) : c.friend /\ u.cpp = Qualified(c)
    BY <1>12 DEF OfRecord, OfFree
  <2>2. Qualified(c) = Qualified(x.operators[j])
    BY <1>12, <2>1 DEF OfFree
  <2> QED BY <1>4, <1>8, <2>1, <2>2
<1>13. ASSUME NEW u, NEW v, u.cpp = v.cpp, NEW i \in DOMAIN x.functions, OfFree(u, x.functions, i),
              NEW j \in DOMAIN x.operators, OfFree(v, x.operators, j)
       PROVE  FALSE
  <2>1. Qualified(x.functions[i]) = Qualified(x.operators[j])
    BY <1>13 DEF OfFree
  <2>2. x.functions[i].name = x.operators[j].name
    BY <1>4, <1>6, <1>9, <2>1
  <2> QED BY <1>2, <1>4, <2>2
<1>14. ASSUME NEW i \in DOMAIN x.records, NEW j \in DOMAIN x.records,
              OfRecord(f, x.records[i]), OfRecord(g, x.records[j])
       PROVE  i = j
  <2>1. CASE f.kind = "Constructor"
    BY <1>1, <1>10, <1>14, <2>1 DEF OfRecord
  <2>2. CASE f.kind = "Method"
    <3>1. PICK m : f.cpp = Append(Qualified(x.records[i]), m)
      BY <1>14, <2>2 DEF OfRecord
    <3>2. PICK n : g.cpp = Append(Qualified(x.records[j]), n)
      BY <1>10, <1>14, <2>2 DEF OfRecord
    <3>3. Qualified(x.records[i]) = Qualified(x.records[j])
      <4>1. IsSeq(Qualified(x.records[i])) /\ IsSeq(Qualified(x.records[j]))
        BY <1>4, <1>5
      <4>2. Append(Qualified(x.records[i]), m) = Append(Qualified(x.records[j]), n)
        BY <1>10, <3>1, <3>2
      <4> QED BY <4>1, <4>2, AppendApart
    <3> QED BY <1>1, <3>3
  <2>3. CASE f.kind = "Function"
    BY <1>7, <1>10, <1>14, <2>3 DEF OfRecord
  <2> QED BY <1>14, <2>1, <2>2, <2>3 DEF OfRecord
<1>15. CASE d \in DOMAIN x.records /\ OfRecord(f, x.records[d])
  BY <1>10, <1>11, <1>12, <1>14, <1>15 DEF OfDeclaration
<1>16. CASE \E i \in DOMAIN x.functions : d = Len(x.records) + i /\ OfFree(f, x.functions, i)
  <2>1. PICK i \in DOMAIN x.functions : d = Len(x.records) + i /\ OfFree(f, x.functions, i)
    BY <1>16
  <2>2. \E j \in DOMAIN x.functions : e = Len(x.records) + j /\ OfFree(g, x.functions, j)
    BY <1>10, <1>11, <1>13, <2>1 DEF OfDeclaration
  <2>3. PICK j \in DOMAIN x.functions : e = Len(x.records) + j /\ OfFree(g, x.functions, j)
    BY <2>2
  <2>4. i = j
    BY <1>1, <2>1, <2>3, FreeApart
  <2> QED BY <2>1, <2>3, <2>4
<1>17. CASE \E i \in DOMAIN x.operators :
          d = Len(x.records) + Len(x.functions) + i /\ OfFree(f, x.operators, i)
  <2>1. PICK i \in DOMAIN x.operators : d = Len(x.records) + Len(x.functions) + i /\ OfFree(f, x.operators, i)
    BY <1>17
  <2>2. \E j \in DOMAIN x.operators : e = Len(x.records) + Len(x.functions) + j /\ OfFree(g, x.operators, j)
    BY <1>10, <1>12, <1>13, <2>1 DEF OfDeclaration
  <2>3. PICK j \in DOMAIN x.operators : e = Len(x.records) + Len(x.functions) + j /\ OfFree(g, x.operators, j)
    BY <2>2
  <2>4. i = j
    BY <1>1, <2>1, <2>3, FreeApart
  <2> QED BY <2>1, <2>3, <2>4
<1> QED BY <1>15, <1>16, <1>17 DEF OfDeclaration

------------------------------------------------------------------------------
(* Headers of which every type is understood.                              *)

OnlyClasses ==
    UncheckedFit /\ (\A t \in MentionedTypes : t.fn = "no" /\ (IsNamed(t) \/ IsPlainValue(t)))

\* Of classes, pointers to them and plain values, no callable fails.
LEMMA CallableUnderstood ==
    ASSUME headers \in Inputs, OnlyClasses,
           NEW c, IsSeq(c.params), CallTypes(c) \subseteq MentionedTypes,
           NEW n \in 0 .. Len(c.params), NEW owner
    PROVE  NormalizeCallable(c, n, owner).out # "fail"
<1> DEFINE params == SubSeq(c.params, 1, n)
           o == NormalizeCallable(c, n, owner)
           types == TypesOf(params) \cup {c.returns}
<1>1. types \subseteq MentionedTypes
  <2>1. TypesOf(params) \subseteq TypesOf(c.params)
    BY ShortenedParams
  <2> QED BY <2>1 DEF CallTypes
<1>2. SUFFICES ASSUME o.out = "fail" PROVE FALSE
  OBVIOUS
<1>3. ~SkipReason(c, params) /\ (ParamsFail(params) \/ NormalizeWithCanonical(c.returns, env) = NoType)
  BY <1>2, OutcomeFacts DEF NormalizeCallable
<1>4. PICK t \in types : NormalizeWithCanonical(t, env) = NoType
  BY <1>3 DEF ParamsFail, TypesOf
<1>5. ~DoublePointerReason(types) /\ ~ByValueReason(types, env)
  BY <1>3 DEF SkipReason
<1> HIDE DEF types
<1>6. IsType(t) /\ (IsNamed(t) \/ IsPlainValue(t))
  BY <1>1, <1>4, MentionedAreTypes DEF OnlyClasses
<1>7. "double" \notin {t.display.shape, t.canonical.shape}
  BY <1>4, <1>5 DEF DoublePointerReason
<1>8. ByValueCandidate(t.display)
  BY <1>4, <1>6, <1>7, TypeUnderstood
<1> QED BY <1>4, <1>5, <1>8 DEF ByValueReason

\* Nor does a constructor, if it takes no array that goes unchecked.
LEMMA ConstructorUnderstood ==
    ASSUME headers \in Inputs, OnlyClasses, NEW g \in DOMAIN headers, NEW r \in ToSet(headers[g].records),
           NEW c \in ToSet(r.constructors), IsSeq(c.params), TypesOf(c.params) \subseteq MentionedTypes,
           NEW n \in 0 .. Len(c.params), NEW record
    PROVE  NormalizeConstructor(c, n, record).out # "fail"
<1> DEFINE params == SubSeq(c.params, 1, n)
           o == NormalizeConstructor(c, n, record)
<1>1. TypesOf(params) \subseteq TypesOf(c.params)
  BY ShortenedParams
<1>2. SUFFICES ASSUME o.out = "fail" PROVE FALSE
  OBVIOUS
<1>3. ~ConstructorSkipReason(params) /\ ParamsFail(params)
  BY <1>2, OutcomeFacts DEF NormalizeConstructor
<1>4. PICK t \in TypesOf(params) : NormalizeWithCanonical(t, env) = NoType
  BY <1>3 DEF ParamsFail, TypesOf
<1>5. ~DoublePointerReason(TypesOf(params))
  BY <1>3 DEF ConstructorSkipReason
<1>6. IsType(t) /\ (IsNamed(t) \/ IsPlainValue(t))
  BY <1>1, <1>4, MentionedAreTypes DEF OnlyClasses
<1>7. "double" \notin {t.display.shape, t.canonical.shape}
  BY <1>4, <1>5 DEF DoublePointerReason
<1>8. TaggedArray(t) \/ Bracketed(t.display)
  BY <1>4, <1>6, <1>7, TypeUnderstood
<1>9. headers[g] \in ToSet(headers)
  BY DEF ToSet
<1> QED BY <1>1, <1>4, <1>8, <1>9 DEF OnlyClasses, UncheckedFit

\* Nor does a callback type, if it takes no double pointer that goes unchecked.
LEMMA CallbackUnderstood ==
    ASSUME headers \in Inputs, OnlyClasses, NEW g \in DOMAIN headers, NEW c \in ToSet(headers[g].callbacks)
    PROVE  ~(ParamsFail(c.params) \/ NormalizeWithCanonical(c.returns, env) = NoType)
<1>1. CallTypes(c) \subseteq MentionedTypes
  BY DeclaredFacts, MentionedAreTypes
<1>2. SUFFICES ASSUME NEW t \in CallTypes(c), NormalizeWithCanonical(t, env) = NoType PROVE FALSE
  BY DEF CallTypes, ParamsFail, TypesOf
<1>3. IsType(t) /\ (IsNamed(t) \/ IsPlainValue(t))
  BY <1>1, <1>2, MentionedAreTypes DEF OnlyClasses
<1>4. headers[g] \in ToSet(headers)
  BY DEF ToSet
<1>5. ~TaggedArray(t) /\ ~Bracketed(t.display) /\ "double" \notin {t.display.shape, t.canonical.shape}
  BY <1>2, <1>4 DEF OnlyClasses, UncheckedFit, CallTypes
<1> QED BY <1>2, <1>3, <1>5, TypeUnderstood

\* No list of callables that a header mentions fails.
LEMMA NoFailuresOf ==
    ASSUME headers \in Inputs, OnlyClasses, NEW callables, Listed(callables),
           \A c \in ToSet(callables) : CallTypes(c) \subseteq MentionedTypes,
           NEW outs, FailsOf(outs, callables)
    PROVE  \A o \in ToSet(outs) : o.out # "fail"
<1> SUFFICES ASSUME NEW o \in ToSet(outs), o.out = "fail" PROVE FALSE
  OBVIOUS
<1>1. PICK c \in ToSet(callables) : \E n \in 0 .. Len(c.params) : \E owner : o = NormalizeCallable(c, n, owner)
  BY DEF FailsOf
<1>2. IsSeq(c.params) /\ CallTypes(c) \subseteq MentionedTypes
  BY DEF Listed
<1> QED BY <1>1, <1>2, CallableUnderstood

\* So no record of such a header fails.
LEMMA NoRecordFails ==
    ASSUME headers \in Inputs, OnlyClasses, NEW g \in DOMAIN headers, NEW r \in ToSet(headers[g].records),
           NEW record, NEW outs, RecordFails(outs, r, record)
    PROVE  \A o \in ToSet(outs) : o.out # "fail"
<1> SUFFICES ASSUME NEW o \in ToSet(outs), o.out = "fail" PROVE FALSE
  OBVIOUS
<1>1. /\ Listed(r.constructors) /\ Listed(r.methods) /\ Listed(r.operators)
      /\ \A c \in ToSet(r.constructors) : TypesOf(c.params) \subseteq MentionedTypes
      /\ \A c \in ToSet(r.methods) \cup ToSet(r.operators) : CallTypes(c) \subseteq MentionedTypes
  BY RecordParts
<1>2. ASSUME NEW c \in ToSet(r.methods) \cup ToSet(r.operators), NEW n \in 0 .. Len(c.params), NEW owner
      PROVE  NormalizeCallable(c, n, owner).out # "fail"
  <2>1. IsSeq(c.params) /\ CallTypes(c) \subseteq MentionedTypes
    BY <1>1 DEF Listed
  <2> QED BY <2>1, CallableUnderstood
<1>3. ASSUME NEW c \in ToSet(r.constructors), NEW n \in 0 .. Len(c.params)
      PROVE  NormalizeConstructor(c, n, record).out # "fail"
  <2>1. IsSeq(c.params) /\ TypesOf(c.params) \subseteq MentionedTypes
    BY <1>1 DEF Listed
  <2> QED BY <2>1, ConstructorUnderstood
<1> QED BY <1>2, <1>3 DEF RecordFails

------------------------------------------------------------------------------
(* Steps, and what they leave.                                             *)

\* A record is found among those the header knows.
LEMMA RecordFound ==
    ASSUME headers \in Inputs, NEW h \in 0 .. Len(headers), env = NormalizeEnv(h),
           NEW i \in DOMAIN HeaderAt(h).records
    PROVE  LET r == HeaderAt(h).records[i]
               record == env.records[SelectInSeq(env.records, LAMBDA x : x.cpp = Qualified(r))]
           IN  record.cpp = Qualified(r) /\ record.handle # NoHandle
<1> DEFINE r == HeaderAt(h).records[i]
           known == env.records
           T == {k \in 1..Len(known) : known[k].cpp = Qualified(r)}
           k == SelectInSeq(known, LAMBDA x : x.cpp = Qualified(r))
<1>1. known = IrRecords(h)
  BY EnvFields
<1>2. /\ HaveHandles(IrRecords(h)) /\ i \in DOMAIN IrRecords(h)
      /\ IrRecords(h)[i].cpp = Qualified(r)
  BY IrRecordsFacts
<1>3. k = IF T # {} THEN Min(T) ELSE 0
  BY DEF SelectInSeq
<1> HIDE DEF k, r, known
<1>4. /\ Len(known) \in Nat /\ DOMAIN known = 1..Len(known)
      /\ \A j \in DOMAIN known : known[j].handle # NoHandle
  BY <1>1, <1>2, SeqFacts DEF HaveHandles
<1>5. i \in T
  BY <1>1, <1>2, <1>4
<1>6. Min(T) \in T
  <2>1. T \subseteq 1..Len(known) /\ T # {}
    BY <1>5
  <2> HIDE DEF T
  <2> QED BY <1>4, <2>1, LeastPlace
<1>7. k \in DOMAIN known /\ known[k].cpp = Qualified(r)
  BY <1>3, <1>4, <1>5, <1>6
<1> QED BY <1>4, <1>7 DEF k, r, known

\* The skips among outcomes.
Skips(outs) == {o.cpp : o \in {p \in ToSet(outs) : p.out = "skip"}}

\* Take: the whole run stops at a type that is not understood, or everything is kept.
LEMMA TakeFacts ==
    ASSUME NEW outs, IsSeq(outs), Take(outs)
    PROVE  \/ /\ \E o \in ToSet(outs) : o.out = "fail"
              /\ fault' = "type" /\ UNCHANGED <<next, functions, skipped>>
           \/ /\ \A o \in ToSet(outs) : o.out # "fail"
              /\ functions' = functions \o Emitted(outs) /\ skipped' = skipped \cup Skips(outs)
              /\ next' = next + 1 /\ UNCHANGED fault
<1>1. /\ \A i \in DOMAIN outs : outs[i] \in ToSet(outs)
      /\ \A o \in ToSet(outs) : \E i \in DOMAIN outs : o = outs[i]
  BY SeqFacts
<1>2. CASE \E i \in DOMAIN outs : outs[i].out = "fail"
  BY <1>1, <1>2 DEF Take
<1>3. CASE ~\E i \in DOMAIN outs : outs[i].out = "fail"
  <2>1. /\ functions' = functions \o Emitted(outs)
        /\ skipped' = skipped \cup {outs[i].cpp : i \in {j \in DOMAIN outs : outs[j].out = "skip"}}
        /\ next' = next + 1 /\ UNCHANGED fault
    BY <1>3 DEF Take, Emitted
  <2>2. {outs[i].cpp : i \in {j \in DOMAIN outs : outs[j].out = "skip"}} = Skips(outs)
    BY <1>1 DEF Skips
  <2> QED BY <1>1, <1>3, <2>1, <2>2
<1> QED BY <1>2, <1>3

\* Of a callable that is cpp in C++, fs has a wrapper for the full list, or it
\* is among skips.
Covers(fs, skips, c, cpp) ==
    \/ \E f \in fs :
          /\ f.accessor = "" /\ f.cpp = cpp /\ f.const = c.const
          /\ f.takes = Signature(c.params) /\ f.gives = c.returns.canonical
    \/ cpp \in skips

CoversRecord(fs, skips, r) ==
    /\ \A c \in ToSet(r.constructors) : Covers(fs, skips, c, Qualified(r))
    /\ \A c \in ToSet(r.methods) \cup ToSet(r.operators) :
          Covers(fs, skips, c, IF c.friend THEN Qualified(c) ELSE Append(Qualified(r), c.name))

\* All of the d-th declaration of header x is.
CoversDeclaration(fs, skips, x, d) ==
    /\ d \in DOMAIN x.records => CoversRecord(fs, skips, x.records[d])
    /\ \A i \in DOMAIN x.functions : d = Len(x.records) + i =>
          Covers(fs, skips, x.functions[i], Qualified(x.functions[i]))
    /\ \A i \in DOMAIN x.operators : d = Len(x.records) + Len(x.functions) + i =>
          Covers(fs, skips, x.operators[i], Qualified(x.operators[i]))

\* What is covered stays so when there are more wrappers and more skips.
LEMMA CoversMore ==
    ASSUME NEW fs, NEW skips, NEW gs, NEW more, fs \subseteq gs, skips \subseteq more
    PROVE  /\ \A c, cpp : Covers(fs, skips, c, cpp) => Covers(gs, more, c, cpp)
           /\ \A x, d : CoversDeclaration(fs, skips, x, d) => CoversDeclaration(gs, more, x, d)
<1>1. \A c, cpp : Covers(fs, skips, c, cpp) => Covers(gs, more, c, cpp)
  BY DEF Covers
<1>2. \A r : CoversRecord(fs, skips, r) => CoversRecord(gs, more, r)
  BY <1>1 DEF CoversRecord
<1>3. ASSUME NEW x, NEW d, CoversDeclaration(fs, skips, x, d) PROVE CoversDeclaration(gs, more, x, d)
  BY <1>1, <1>2, <1>3 DEF CoversDeclaration
<1> QED BY <1>1, <1>3

\* What the outcomes of a declaration account for is covered by their wrappers and skips.
LEMMA AccountsCovers ==
    ASSUME NEW outs, NEW c, NEW cpp, Accounts(outs, c, cpp)
    PROVE  Covers(Made(outs), Skips(outs), c, cpp)
  BY DEF Accounts, Covers, Skips

\* What holds of a header's functions and skips when the declarations before
\* the n-th are done.
Progress(h, n, fs, skips) ==
    /\ IsSeq(fs) /\ Backed(ToSet(fs)) /\ \A f \in ToSet(fs) : Faithful(f, h)
    /\ h > 0 =>
          /\ \A d \in 1 .. n - 1 : CoversDeclaration(ToSet(fs), skips, headers[h], d)
          /\ \A f \in ToSet(fs) : FromCode(f) => \E d \in 1 .. n - 1 : OfDeclaration(f, headers[h], d)
          /\ FriendsOnce(headers[h]) => OneEach(fs)

\* ... and what the outcomes of the n-th are to have.
Contribution(h, n, outs) ==
    /\ Batch(outs, h) /\ NoneMeet(outs)
    /\ h > 0 =>
          /\ CoversDeclaration(Made(outs), Skips(outs), headers[h], n)
          /\ \A f \in Made(outs) : FromCode(f) => OfDeclaration(f, headers[h], n)

\* Taking the outcomes of the n-th declaration keeps what was so of those before it.
LEMMA ProgressMade ==
    ASSUME headers \in Inputs, NEW h \in 0 .. Len(headers), NEW n \in Nat \ {0}, NEW fs, NEW skips,
           Progress(h, n, fs, skips), NEW outs, Contribution(h, n, outs)
    PROVE  Progress(h, n + 1, fs \o Emitted(outs), skips \cup Skips(outs))
<1> DEFINE es == Emitted(outs)
           gs == fs \o es
           more == skips \cup Skips(outs)
<1>1. IsSeq(fs) /\ IsSeq(outs) /\ IsSeq(es) /\ ToSet(es) = Made(outs) /\ OneEach(es)
  BY EmittedFacts DEF Progress, Contribution, Batch
<1> HIDE DEF es
<1>2. IsSeq(gs) /\ ToSet(gs) = ToSet(fs) \cup Made(outs)
  BY <1>1, ConcatFacts
<1>3. Backed(ToSet(fs)) /\ Backed(Made(outs))
  BY DEF Progress, Contribution, Batch
<1>4. Backed(ToSet(gs))
  BY <1>2, <1>3 DEF Backed
<1>5. \A f \in ToSet(gs) : Faithful(f, h)
  BY <1>2 DEF Progress, Contribution, Batch
<1>6. ASSUME h > 0
      PROVE  /\ \A d \in 1 .. n : CoversDeclaration(ToSet(gs), more, headers[h], d)
             /\ \A f \in ToSet(gs) : FromCode(f) => \E d \in 1 .. n : OfDeclaration(f, headers[h], d)
             /\ FriendsOnce(headers[h]) => OneEach(gs)
  <2>1. /\ \A d \in 1 .. n - 1 : CoversDeclaration(ToSet(fs), skips, headers[h], d)
        /\ \A f \in ToSet(fs) : FromCode(f) => \E d \in 1 .. n - 1 : OfDeclaration(f, headers[h], d)
        /\ FriendsOnce(headers[h]) => OneEach(fs)
    BY <1>6 DEF Progress
  <2>2. /\ CoversDeclaration(Made(outs), Skips(outs), headers[h], n)
        /\ \A f \in Made(outs) : FromCode(f) => OfDeclaration(f, headers[h], n)
    BY <1>6 DEF Contribution
  <2>3. /\ ToSet(fs) \subseteq ToSet(gs) /\ skips \subseteq more
        /\ Made(outs) \subseteq ToSet(gs) /\ Skips(outs) \subseteq more
    BY <1>2
  <2> HIDE DEF gs, more
  <2>4. \A d \in 1 .. n - 1 : CoversDeclaration(ToSet(gs), more, headers[h], d)
    BY <2>1, <2>3, CoversMore
  <2>5. CoversDeclaration(ToSet(gs), more, headers[h], n)
    BY <2>2, <2>3, CoversMore
  <2>6. \A d \in 1 .. n : d = n \/ d \in 1 .. n - 1
    OBVIOUS
  <2>7. \A d \in 1 .. n : CoversDeclaration(ToSet(gs), more, headers[h], d)
    BY <2>4, <2>5, <2>6
  <2>8. n \in 1 .. n /\ 1 .. n - 1 \subseteq 1 .. n
    OBVIOUS
  <2>9. \A f \in ToSet(gs) : FromCode(f) => \E d \in 1 .. n : OfDeclaration(f, headers[h], d)
    BY <1>2, <2>1, <2>2, <2>8 DEF gs
  <2>10. ASSUME FriendsOnce(headers[h]) PROVE OneEach(gs)
    <3>1. IsHeader(headers[h])
      <4>1. h \in DOMAIN headers
        BY <1>6, HeadersFacts
      <4> QED BY <4>1, HeadersFacts
    <3>2. ASSUME NEW f \in ToSet(fs), NEW g \in Made(outs), SameCall(f, g) PROVE FALSE
      <4>1. FromCode(f) /\ FromCode(g)
        BY <3>2 DEF SameCall
      <4>2. PICK d \in 1 .. n - 1 : OfDeclaration(f, headers[h], d)
        BY <2>1, <4>1
      <4>3. OfDeclaration(g, headers[h], n)
        BY <2>2, <4>1
      <4>4. d = n
        BY <2>10, <3>1, <3>2, <4>2, <4>3, DeclarationsApart
      <4> QED BY <4>2, <4>4
    <3> QED BY <1>1, <2>1, <2>10, <3>2, OneEachConcat DEF gs
  <2> QED BY <2>7, <2>9, <2>10
<1>7. n = (n + 1) - 1
  OBVIOUS
<1> HIDE DEF gs, more
<1>8. Progress(h, n + 1, gs, more)
  BY <1>2, <1>4, <1>5, <1>6, <1>7 DEF Progress, gs
<1> QED BY <1>8 DEF gs, es, more

\* The declarations of a header are numbered through.
LEMMA Places ==
    ASSUME headers \in Inputs, NEW h \in 0 .. Len(headers)
    PROVE  LET x == HeaderAt(h) IN
           /\ Len(x.records) \in Nat /\ DOMAIN x.records = 1 .. Len(x.records)
           /\ Len(x.functions) \in Nat /\ DOMAIN x.functions = 1 .. Len(x.functions)
           /\ Len(x.operators) \in Nat /\ DOMAIN x.operators = 1 .. Len(x.operators)
           /\ Len(x.callbacks) \in Nat /\ DOMAIN x.callbacks = 1 .. Len(x.callbacks)
<1> DEFINE x == HeaderAt(h)
<1>1. HeaderListed(x)
  BY HeaderAtFacts
<1> HIDE DEF x
<1>2. IsSeq(x.records) /\ IsSeq(x.functions) /\ IsSeq(x.operators) /\ IsSeq(x.callbacks)
  BY <1>1 DEF HeaderListed, RecordsListed, Listed
<1> QED BY <1>2, SeqFacts DEF x

\* Records, functions, operators and callbacks are numbered one after the other.
LEMMA Sums ==
    ASSUME NEW a \in Nat, NEW b \in Nat, NEW c \in Nat
    PROVE  /\ \A n \in 1 .. a : \A i \in Nat \ {0} : n # a + i /\ n # a + b + i
           /\ \A i \in 1 .. c : a + b + i \notin 1 .. a /\ \A j \in 1 .. b : a + b + i # a + j
           /\ \A i, j \in 1 .. c : a + b + i = a + b + j => i = j
           /\ \A n \in Nat : n > a + b + c =>
                 /\ n \notin 1 .. a
                 /\ \A j \in 1 .. b : n # a + j
                 /\ \A j \in 1 .. c : n # a + b + j
  OBVIOUS

\* What a record contributes.
LEMMA RecordContributes ==
    ASSUME headers \in Inputs, NEW h \in 0 .. Len(headers), env = NormalizeEnv(h),
           NEW n \in DOMAIN HeaderAt(h).records,
           NEW record, record.handle # NoHandle, record.cpp = Qualified(HeaderAt(h).records[n])
    PROVE  LET r == HeaderAt(h).records[n]
               s == RecordOutcomes(r, record)
           IN  /\ IsSeq(s) /\ \E g \in DOMAIN headers : r \in ToSet(headers[g].records)
               /\ RecordFails(s, r, record)
               /\ (\A o \in ToSet(s) : o.out # "fail") => Contribution(h, n, s)
<1> DEFINE x == HeaderAt(h)
           r == x.records[n]
           s == RecordOutcomes(r, record)
<1>1. /\ \A e \in ToSet(x.records) : \E g \in DOMAIN headers : e \in ToSet(headers[g].records)
      /\ h > 0 => x = headers[h]
  BY HeaderAtFacts
<1>2. r \in ToSet(x.records)
  BY DEF ToSet
<1>3. PICK g \in DOMAIN headers : r \in ToSet(headers[g].records)
  BY <1>1, <1>2
<1>4. /\ Batch(s, h) /\ NoneMeet(s) /\ RecordFails(s, r, record)
      /\ \A f \in Made(s) : FromCode(f) => OfRecord(f, r)
      /\ (\A o \in ToSet(s) : o.out # "fail") => RecordAccounted(s, r)
  BY <1>3, RecordFacts
<1>5. /\ Len(x.records) \in Nat /\ DOMAIN x.records = 1 .. Len(x.records)
      /\ Len(x.functions) \in Nat /\ DOMAIN x.functions = 1 .. Len(x.functions)
      /\ Len(x.operators) \in Nat /\ DOMAIN x.operators = 1 .. Len(x.operators)
  BY Places
<1>n. n \in DOMAIN x.records
  OBVIOUS
<1> HIDE DEF s, x
<1>6. ASSUME \A o \in ToSet(s) : o.out # "fail" PROVE Contribution(h, n, s)
  <2>1. RecordAccounted(s, r)
    BY <1>4, <1>6
  <2>2. CoversRecord(Made(s), Skips(s), r)
    BY <2>1, AccountsCovers DEF RecordAccounted, CoversRecord
  <2>3. /\ \A i \in DOMAIN x.functions : n # Len(x.records) + i
        /\ \A i \in DOMAIN x.operators : n # Len(x.records) + Len(x.functions) + i
    <3>1. DOMAIN x.functions \subseteq Nat \ {0} /\ DOMAIN x.operators \subseteq Nat \ {0}
      BY <1>5
    <3> QED BY <1>5, <1>n, <3>1, Sums
  <2>4. CoversDeclaration(Made(s), Skips(s), x, n)
    BY <2>2, <2>3 DEF CoversDeclaration
  <2>5. \A f \in Made(s) : FromCode(f) => OfDeclaration(f, x, n)
    BY <1>4, <1>n DEF OfDeclaration
  <2> QED BY <1>1, <1>4, <2>4, <2>5 DEF Contribution
<1>7. IsSeq(s)
  BY <1>4 DEF Batch
<1> QED BY <1>3, <1>4, <1>6, <1>7 DEF s, x

\* What a function contributes.
LEMMA FunctionContributes ==
    ASSUME headers \in Inputs, NEW h \in 0 .. Len(headers), env = NormalizeEnv(h),
           NEW i \in DOMAIN HeaderAt(h).functions
    PROVE  LET x == HeaderAt(h)
               s == VariantsOf(x.functions, i, FreeCallable)
           IN  /\ IsSeq(s) /\ FailsOf(s, x.functions)
               /\ Listed(x.functions) /\ \A c \in ToSet(x.functions) : CallTypes(c) \subseteq MentionedTypes
               /\ (\A o \in ToSet(s) : o.out # "fail") => Contribution(h, Len(x.records) + i, s)
<1> DEFINE x == HeaderAt(h)
           cs == x.functions
           s == VariantsOf(cs, i, FreeCallable)
           n == Len(x.records) + i
<1>1. /\ Listed(cs) /\ \A c \in ToSet(cs) : \E g \in DOMAIN headers : c \in ToSet(headers[g].functions)
      /\ h > 0 => h \in DOMAIN headers /\ x = headers[h]
  BY HeaderAtFacts DEF HeaderListed
<1>2. \A c \in ToSet(cs) : CallTypes(c) \subseteq MentionedTypes
  BY <1>1, DeclaredFacts, MentionedAreTypes
<1>3. i \in DOMAIN cs
  OBVIOUS
<1>4. /\ Len(x.records) \in Nat /\ DOMAIN x.records = 1 .. Len(x.records)
      /\ Len(cs) \in Nat /\ DOMAIN cs = 1 .. Len(cs)
      /\ Len(x.operators) \in Nat /\ DOMAIN x.operators = 1 .. Len(x.operators)
  BY Places
<1> HIDE DEF cs
<1>5. /\ Batch(s, h) /\ NoneMeet(s) /\ FailsOf(s, cs)
      /\ \A f \in Made(s) : OfFree(f, cs, i)
      /\ Overloads(cs) /\ cs[i].const = FALSE /\ (\A o \in ToSet(s) : o.out # "fail") =>
            Accounts(s, cs[i], Qualified(cs[i]))
  BY <1>1, <1>2, <1>3, FreeFacts
<1> HIDE DEF s, x
<1>6. ASSUME \A o \in ToSet(s) : o.out # "fail", h > 0
      PROVE  /\ CoversDeclaration(Made(s), Skips(s), x, n)
             /\ \A f \in Made(s) : FromCode(f) => OfDeclaration(f, x, n)
  <2>1. IsHeader(x)
    BY <1>1, <1>6, HeadersFacts
  <2>2. Overloads(cs) /\ \A c \in ToSet(cs) : ~c.const
    BY <2>1 DEF IsHeader, cs
  <2>3. cs[i].const = FALSE
    <3>1. cs[i] \in ToSet(cs)
      BY <1>3 DEF ToSet
    <3> QED BY <2>2, <3>1, OverloadsFlags
  <2>4. Covers(Made(s), Skips(s), cs[i], Qualified(cs[i]))
    BY <1>5, <1>6, <2>2, <2>3, AccountsCovers
  <2>5. n \notin DOMAIN x.records /\ \A j \in DOMAIN x.operators : n # Len(x.records) + Len(cs) + j
    BY <1>3, <1>4
  <2>6. \A j \in DOMAIN cs : n = Len(x.records) + j => j = i
    BY <1>3, <1>4
  <2>7. CoversDeclaration(Made(s), Skips(s), x, n)
    BY <2>4, <2>5, <2>6 DEF CoversDeclaration, cs
  <2>8. \A f \in Made(s) : OfDeclaration(f, x, n)
    BY <1>3, <1>5 DEF OfDeclaration, cs
  <2> QED BY <2>7, <2>8
<1>7. (\A o \in ToSet(s) : o.out # "fail") => Contribution(h, n, s)
  BY <1>1, <1>5, <1>6 DEF Contribution
<1>8. IsSeq(s)
  BY <1>5 DEF Batch
<1> QED BY <1>1, <1>2, <1>5, <1>7, <1>8 DEF s, x, cs

\* What an operator outside of classes contributes.
LEMMA OperatorContributes ==
    ASSUME headers \in Inputs, NEW h \in 0 .. Len(headers), env = NormalizeEnv(h),
           NEW i \in DOMAIN HeaderAt(h).operators
    PROVE  LET x == HeaderAt(h)
               s == VariantsOf(x.operators, i, FreeCallable)
           IN  /\ IsSeq(s) /\ FailsOf(s, x.operators)
               /\ Listed(x.operators) /\ \A c \in ToSet(x.operators) : CallTypes(c) \subseteq MentionedTypes
               /\ (\A o \in ToSet(s) : o.out # "fail") =>
                     Contribution(h, Len(x.records) + Len(x.functions) + i, s)
<1> DEFINE x == HeaderAt(h)
           cs == x.operators
           s == VariantsOf(cs, i, FreeCallable)
           n == Len(x.records) + Len(x.functions) + i
<1>1. /\ Listed(cs) /\ \A c \in ToSet(cs) : \E g \in DOMAIN headers : c \in ToSet(headers[g].operators)
      /\ h > 0 => h \in DOMAIN headers /\ x = headers[h]
  BY HeaderAtFacts DEF HeaderListed
<1>2. \A c \in ToSet(cs) : CallTypes(c) \subseteq MentionedTypes
  BY <1>1, DeclaredFacts
<1>3. i \in DOMAIN cs
  OBVIOUS
<1>4. /\ Len(x.records) \in Nat /\ DOMAIN x.records = 1 .. Len(x.records)
      /\ Len(x.functions) \in Nat /\ DOMAIN x.functions = 1 .. Len(x.functions)
      /\ Len(cs) \in Nat /\ DOMAIN cs = 1 .. Len(cs)
  BY Places
<1> HIDE DEF cs
<1>5. /\ Batch(s, h) /\ NoneMeet(s) /\ FailsOf(s, cs)
      /\ \A f \in Made(s) : OfFree(f, cs, i)
      /\ Overloads(cs) /\ cs[i].const = FALSE /\ (\A o \in ToSet(s) : o.out # "fail") =>
            Accounts(s, cs[i], Qualified(cs[i]))
  BY <1>1, <1>2, <1>3, FreeFacts
<1> HIDE DEF s, x
<1>6. ASSUME \A o \in ToSet(s) : o.out # "fail", h > 0
      PROVE  /\ CoversDeclaration(Made(s), Skips(s), x, n)
             /\ \A f \in Made(s) : FromCode(f) => OfDeclaration(f, x, n)
  <2>1. IsHeader(x)
    BY <1>1, <1>6, HeadersFacts
  <2>2. Overloads(cs) /\ \A c \in ToSet(cs) : ~c.const
    BY <2>1 DEF IsHeader, cs
  <2>3. cs[i].const = FALSE
    <3>1. cs[i] \in ToSet(cs)
      BY <1>3 DEF ToSet
    <3> QED BY <2>2, <3>1, OverloadsFlags
  <2>4. Covers(Made(s), Skips(s), cs[i], Qualified(cs[i]))
    BY <1>5, <1>6, <2>2, <2>3, AccountsCovers
  <2>5. n \notin DOMAIN x.records /\ \A j \in DOMAIN x.functions : n # Len(x.records) + j
    BY <1>3, <1>4, Sums
  <2>6. \A j \in DOMAIN cs : n = Len(x.records) + Len(x.functions) + j => j = i
    <3> DEFINE a == Len(x.records)
               b == Len(x.functions)
               c == Len(cs)
    <3>1. a \in Nat /\ b \in Nat /\ c \in Nat /\ i \in 1 .. c /\ DOMAIN cs = 1 .. c
      BY <1>3, <1>4
    <3> HIDE DEF a, b, c
    <3>2. \A j \in 1 .. c : a + b + i = a + b + j => j = i
      BY <3>1, Sums
    <3> QED BY <3>1, <3>2 DEF a, b
  <2>7. CoversDeclaration(Made(s), Skips(s), x, n)
    BY <2>4, <2>5, <2>6 DEF CoversDeclaration, cs
  <2>8. \A f \in Made(s) : OfDeclaration(f, x, n)
    BY <1>3, <1>5 DEF OfDeclaration, cs
  <2> QED BY <2>7, <2>8
<1>7. (\A o \in ToSet(s) : o.out # "fail") => Contribution(h, n, s)
  BY <1>1, <1>5, <1>6 DEF Contribution
<1>8. IsSeq(s)
  BY <1>5 DEF Batch
<1> QED BY <1>1, <1>2, <1>5, <1>7, <1>8 DEF s, x, cs

\* Callbacks contribute nothing.
LEMMA CallbackContributes ==
    ASSUME headers \in Inputs, NEW h \in 0 .. Len(headers), NEW n \in Nat \ {0}, NEW fs, NEW skips,
           n > Len(HeaderAt(h).records) + Len(HeaderAt(h).functions) + Len(HeaderAt(h).operators),
           Progress(h, n, fs, skips)
    PROVE  Progress(h, n + 1, fs, skips)
<1> DEFINE x == HeaderAt(h)
<1>1. /\ Len(x.records) \in Nat /\ DOMAIN x.records = 1 .. Len(x.records)
      /\ Len(x.functions) \in Nat /\ DOMAIN x.functions = 1 .. Len(x.functions)
      /\ Len(x.operators) \in Nat /\ DOMAIN x.operators = 1 .. Len(x.operators)
  BY Places
<1>2. n > Len(x.records) + Len(x.functions) + Len(x.operators)
  OBVIOUS
<1>3. h > 0 => x = headers[h]
  BY HeaderAtFacts
<1> HIDE DEF x
<1>4. CoversDeclaration(ToSet(fs), skips, x, n)
  <2>1. /\ n \notin DOMAIN x.records
        /\ \A i \in DOMAIN x.functions : n # Len(x.records) + i
        /\ \A i \in DOMAIN x.operators : n # Len(x.records) + Len(x.functions) + i
    BY <1>1, <1>2, Sums
  <2> QED BY <2>1 DEF CoversDeclaration
<1>5. (n + 1) - 1 = n /\ (\A d \in 1 .. n : d = n \/ d \in 1 .. n - 1) /\ 1 .. n - 1 \subseteq 1 .. n
  OBVIOUS
<1> QED BY <1>3, <1>4, <1>5 DEF Progress

\* While the headers stay, so does all that is read off them.
LEMMA SameHeaderAt ==
    ASSUME headers' = headers, NEW h
    PROVE  HeaderAt(h)' = HeaderAt(h)
  BY DEF HeaderAt, Everywhere

\* The enums depend on the headers alone.
LEMMA SameEnums ==
    ASSUME headers' = headers
    PROVE  KnownEnums' = KnownEnums
  BY DEF KnownEnums

\* So do the preferred aliases of a header,
LEMMA SameAliases ==
    ASSUME headers' = headers, NEW h
    PROVE  PreferredAliases(h)' = PreferredAliases(h)
  BY DEF PreferredAliases, Everywhere

\* its callbacks,
LEMMA SameNames ==
    ASSUME headers' = headers, NEW h
    PROVE  CallbackNames(h)' = CallbackNames(h)
  BY SameHeaderAt DEF CallbackNames

\* its records,
LEMMA SameRecords ==
    ASSUME headers' = headers, NEW h
    PROVE  IrRecords(h)' = IrRecords(h)
  BY SameHeaderAt, SameAliases DEF IrRecords

\* its context,
LEMMA SameEnv ==
    ASSUME headers' = headers, NEW h
    PROVE  NormalizeEnv(h)' = NormalizeEnv(h)
  BY SameNames, SameEnums, SameRecords DEF NormalizeEnv

\* the types that are mentioned,
LEMMA SameMentioned ==
    ASSUME headers' = headers
    PROVE  MentionedTypes' = MentionedTypes
  BY DEF MentionedTypes, AliasedTypes

\* what they translate to,
LEMMA SameTranslated ==
    ASSUME headers' = headers, NEW u, NEW s, NEW h
    PROVE  Translated(u, s, h)' <=> Translated(u, s, h)
  BY SameMentioned, SameEnv DEF Translated

\* which wrappers are faithful,
LEMMA SameFaithful ==
    ASSUME headers' = headers, NEW f, NEW h
    PROVE  Faithful(f, h)' <=> Faithful(f, h)
  BY SameTranslated DEF Faithful

\* and what is so of the declarations before one.
LEMMA SameProgress ==
    ASSUME headers' = headers, NEW h, NEW n, NEW fs, NEW skips
    PROVE  Progress(h, n, fs, skips)' <=> Progress(h, n, fs, skips)
  BY SameFaithful DEF Progress

EndOf(h) ==
    Len(HeaderAt(h).records) + Len(HeaderAt(h).functions) + Len(HeaderAt(h).operators)
        + Len(HeaderAt(h).callbacks) + 1

\* g is f by another name.
Alike(f, g) ==
    /\ DOMAIN g = DOMAIN f
    /\ g.kind = f.kind /\ g.cpp = f.cpp /\ g.const = f.const /\ g.accessor = f.accessor
    /\ g.params = f.params /\ g.returns = f.returns /\ g.takes = f.takes /\ g.gives = f.gives

\* Renaming a wrapper changes neither its types nor its call.
LEMMA SameFacts ==
    ASSUME NEW f, NEW g, Alike(f, g)
    PROVE  /\ TypesIn(g) = TypesIn(f) /\ (FromCode(g) <=> FromCode(f))
           /\ \A h : Faithful(f, h) => Faithful(g, h)
           /\ \A x, d : OfDeclaration(f, x, d) => OfDeclaration(g, x, d)
<1>1. TypesIn(g) = TypesIn(f) /\ (FromCode(g) <=> FromCode(f))
  BY DEF Alike, TypesIn, FromCode
<1>2. ASSUME NEW h, Faithful(f, h) PROVE Faithful(g, h)
  <2>1. /\ DOMAIN g = FunctionFields /\ IsSeq(g.params) /\ \A t \in TypesIn(g) : WellFormed(t)
    BY <1>1, <1>2 DEF Faithful, Alike
  <2>2. FromCode(g) =>
          /\ \A k \in DOMAIN g.params : Translated(g.params[k], g.takes[k], h)
          /\ g.kind # "Constructor" => Translated(g.returns, g.gives, h)
    BY <1>1, <1>2 DEF Faithful, Alike
  <2> QED BY <2>1, <2>2 DEF Faithful
<1>3. ASSUME NEW x, NEW d, OfDeclaration(f, x, d) PROVE OfDeclaration(g, x, d)
  <2>1. \A r : OfRecord(f, r) => OfRecord(g, r)
    BY DEF OfRecord, Alike
  <2>2. \A callables, i : OfFree(f, callables, i) => OfFree(g, callables, i)
    BY DEF OfFree, Alike
  <2> QED BY <1>3, <2>1, <2>2 DEF OfDeclaration
<1> QED BY <1>1, <1>2, <1>3

\* assign_unique_function_symbols changes names and nothing else.
LEMMA RenamingFacts ==
    ASSUME NEW fs, IsSeq(fs), \A f \in ToSet(fs) : DOMAIN f = FunctionFields
    PROVE  LET gs == AssignUnique(fs) IN
           /\ IsSeq(gs) /\ DOMAIN gs = DOMAIN fs
           /\ \A i \in DOMAIN fs : Alike(fs[i], gs[i])
<1> DEFINE gs == AssignUnique(fs)
<1>1. Len(fs) \in Nat /\ DOMAIN fs = 1..Len(fs) /\ \A i \in DOMAIN fs : DOMAIN fs[i] = FunctionFields
  BY SeqFacts
<1>2. /\ DOMAIN gs = DOMAIN fs /\ gs = [i \in DOMAIN fs |-> gs[i]]
      /\ \A i \in DOMAIN fs : gs[i] = fs[i] \/ gs[i] = [fs[i] EXCEPT !.name = Renamed(fs, i)]
  BY DEF AssignUnique
<1> HIDE DEF gs
<1>3. IsSeq(gs)
  BY <1>1, <1>2, FunctionIsSeq
<1>4. ASSUME NEW f, DOMAIN f = FunctionFields, NEW name PROVE Alike(f, f) /\ Alike(f, [f EXCEPT !.name = name])
  BY <1>4 DEF Alike, FunctionFields
<1>5. ASSUME NEW i \in DOMAIN fs PROVE Alike(fs[i], gs[i])
  <2> DEFINE f == fs[i]
             name == Renamed(fs, i)
  <2>1. DOMAIN f = FunctionFields /\ (gs[i] = f \/ gs[i] = [f EXCEPT !.name = name])
    BY <1>1, <1>2
  <2> HIDE DEF f, name
  <2>2. Alike(f, gs[i])
    BY <1>4, <2>1
  <2> QED BY <2>2 DEF f
<1> QED BY <1>2, <1>3, <1>5 DEF gs

\* ... and so leaves what was done.
LEMMA ProgressRenamed ==
    ASSUME NEW h, NEW n, NEW fs, NEW skips, Progress(h, n, fs, skips),
           NEW gs, IsSeq(gs), DOMAIN gs = DOMAIN fs, \A i \in DOMAIN fs : Alike(fs[i], gs[i])
    PROVE  Progress(h, n, gs, skips)
<1>1. /\ IsSeq(fs) /\ Backed(ToSet(fs)) /\ \A f \in ToSet(fs) : Faithful(f, h)
  BY DEF Progress
<1>2. /\ \A i \in DOMAIN fs : fs[i] \in ToSet(fs) /\ gs[i] \in ToSet(gs)
      /\ \A f \in ToSet(fs) : \E i \in DOMAIN fs : f = fs[i]
      /\ \A g \in ToSet(gs) : \E i \in DOMAIN fs : g = gs[i]
  BY <1>1, SeqFacts
<1>3. \A g \in ToSet(gs) : \E f \in ToSet(fs) : Alike(f, g)
  BY <1>2
<1>4. \A f \in ToSet(fs) : \E g \in ToSet(gs) : Alike(f, g)
  BY <1>2
<1>5. \A g \in ToSet(gs) : Faithful(g, h)
  BY <1>1, <1>3, SameFacts
<1>6. Backed(ToSet(gs))
  <2> SUFFICES ASSUME NEW g \in ToSet(gs), NEW t \in TypesIn(g), t.kind = "FixedModelArray", g.accessor # ""
               PROVE  \E e \in ToSet(gs) : \E u \in TypesIn(e) : u.kind \in ModelKind /\ u.handle = t.handle
    BY DEF Backed
  <2>1. PICK f \in ToSet(fs) : Alike(f, g)
    BY <1>3
  <2>2. t \in TypesIn(f) /\ f.accessor # ""
    BY <2>1, SameFacts DEF Alike
  <2>3. PICK d \in ToSet(fs) : \E u \in TypesIn(d) : u.kind \in ModelKind /\ u.handle = t.handle
    BY <1>1, <2>2 DEF Backed
  <2>4. PICK e \in ToSet(gs) : Alike(d, e)
    BY <1>4
  <2> QED BY <2>3, <2>4, SameFacts
<1>7. ASSUME NEW d, CoversDeclaration(ToSet(fs), skips, headers[h], d)
      PROVE  CoversDeclaration(ToSet(gs), skips, headers[h], d)
  <2>1. \A c, cpp : Covers(ToSet(fs), skips, c, cpp) => Covers(ToSet(gs), skips, c, cpp)
    <3> SUFFICES ASSUME NEW c, NEW cpp, Covers(ToSet(fs), skips, c, cpp)
                 PROVE  Covers(ToSet(gs), skips, c, cpp)
      OBVIOUS
    <3>1. CASE cpp \in skips
      BY <3>1 DEF Covers
    <3>2. CASE cpp \notin skips
      <4>1. PICK f \in ToSet(fs) :
               /\ f.accessor = "" /\ f.cpp = cpp /\ f.const = c.const
               /\ f.takes = Signature(c.params) /\ f.gives = c.returns.canonical
        BY <3>2 DEF Covers
      <4>2. PICK g \in ToSet(gs) : Alike(f, g)
        BY <1>4
      <4> QED BY <4>1, <4>2 DEF Covers, Alike
    <3> QED BY <3>1, <3>2
  <2>2. \A r : CoversRecord(ToSet(fs), skips, r) => CoversRecord(ToSet(gs), skips, r)
    BY <2>1 DEF CoversRecord
  <2> QED BY <1>7, <2>1, <2>2 DEF CoversDeclaration
<1>8. ASSUME \A f \in ToSet(fs) : FromCode(f) => \E d \in 1 .. n - 1 : OfDeclaration(f, headers[h], d)
      PROVE  \A g \in ToSet(gs) : FromCode(g) => \E d \in 1 .. n - 1 : OfDeclaration(g, headers[h], d)
  BY <1>3, <1>8, SameFacts
<1>9. ASSUME OneEach(fs) PROVE OneEach(gs)
  <2>1. \A i, j \in DOMAIN fs : SameCall(gs[i], gs[j]) => SameCall(fs[i], fs[j])
    BY DEF SameCall, Alike, FromCode
  <2> QED BY <1>9, <2>1 DEF OneEach
<1> QED BY <1>5, <1>6, <1>7, <1>8, <1>9 DEF Progress

\* The opaque types of a header hold all handles that its wrappers take or give.
LEMMA OpaqueTypesFacts ==
    ASSUME NEW fs, IsSeq(fs), Backed(ToSet(fs)), NEW f \in ToSet(fs), NEW t \in TypesIn(f),
           t.kind \in ModelKind \/ (t.kind = "FixedModelArray" /\ f.accessor # "")
    PROVE  t.handle \in OpaqueTypes(fs)
<1>1. \A g \in ToSet(fs) : \A u \in TypesIn(g) : u.kind \in ModelKind => u.handle \in OpaqueTypes(fs)
  <2> SUFFICES ASSUME NEW g \in ToSet(fs), NEW u \in TypesIn(g), u.kind \in ModelKind
               PROVE  u.handle \in OpaqueTypes(fs)
    OBVIOUS
  <2>1. PICK i \in DOMAIN fs : g = fs[i]
    BY DEF ToSet
  <2>2. u \in UNION {TypesIn(fs[j]) : j \in DOMAIN fs}
    BY <2>1
  <2> QED BY <2>2 DEF OpaqueTypes
<1> QED BY <1>1 DEF Backed

------------------------------------------------------------------------------
(* The inductive invariant.                                                *)

\* What is kept of a header that is gone through.
Finished(h) ==
    /\ Progress(h, EndOf(h), ir[h].functions, ir[h].skipped)
    /\ ir[h].records = IrRecords(h)
    /\ \A f \in ToSet(ir[h].functions) : \A t \in TypesIn(f) :
          t.kind \in ModelKind \/ (t.kind = "FixedModelArray" /\ f.accessor # "") =>
              t.handle \in ir[h].opaques

\* The header at hand.
Current ==
    IF at <= Len(headers)
    THEN next \in 1 .. EndOf(at) /\ env = NormalizeEnv(at) /\ Progress(at, next, functions, skipped)
    ELSE functions = << >>

IInv ==
    /\ headers \in Inputs
    /\ at \in 0 .. Len(headers) + 1
    /\ fault \in {"none", "type", "constructors", "collision"}
    /\ IsSeq(ir) /\ Len(ir) = (IF at = 0 THEN 0 ELSE at - 1)
    /\ \A h \in DOMAIN ir : Finished(h)
    /\ Current

\* The last step of a header is numbered.
LEMMA EndFacts ==
    ASSUME headers \in Inputs, NEW h \in 0 .. Len(headers)
    PROVE  EndOf(h) \in Nat \ {0}
<1> DEFINE a == Len(HeaderAt(h).records)
           b == Len(HeaderAt(h).functions)
           c == Len(HeaderAt(h).operators)
           d == Len(HeaderAt(h).callbacks)
<1>1. a \in Nat /\ b \in Nat /\ c \in Nat /\ d \in Nat
  BY Places
<1>2. EndOf(h) = a + b + c + d + 1
  BY DEF EndOf
<1> HIDE DEF a, b, c, d
<1> QED BY <1>1, <1>2

\* Where the kinds of declarations begin.
LEMMA BeginningsFacts ==
    ASSUME headers \in Inputs, at \in 0 .. Len(headers)
    PROVE  LET a == Len(HeaderAt(at).records)
               b == Len(HeaderAt(at).functions)
               c == Len(HeaderAt(at).operators)
               d == Len(HeaderAt(at).callbacks)
           IN  /\ FirstFunction = a + 1 /\ FirstOperator = a + b + 1 /\ FirstCallback = a + b + c + 1
               /\ End = EndOf(at) /\ EndOf(at) = a + b + c + d + 1
<1> DEFINE a == Len(HeaderAt(at).records)
           b == Len(HeaderAt(at).functions)
           c == Len(HeaderAt(at).operators)
           d == Len(HeaderAt(at).callbacks)
<1>1. a \in Nat /\ b \in Nat /\ c \in Nat /\ d \in Nat
  BY Places
<1>2. EndOf(at) = a + b + c + d + 1
  BY DEF EndOf
<1>3. FirstFunction = a + 1 /\ FirstOperator = (a + 1) + b /\ FirstCallback = ((a + 1) + b) + c
  BY DEF FirstFunction, FirstOperator, FirstCallback, This
<1>4. End = (((a + 1) + b) + c) + d
  BY <1>3 DEF End, This
<1> HIDE DEF a, b, c, d
<1>5. (a + 1) + b = a + b + 1 /\ ((a + 1) + b) + c = a + b + c + 1
      /\ (((a + 1) + b) + c) + d = a + b + c + d + 1
  BY <1>1
<1>6. /\ FirstFunction = a + 1 /\ FirstOperator = a + b + 1 /\ FirstCallback = a + b + c + 1
      /\ End = EndOf(at) /\ EndOf(at) = a + b + c + d + 1
  BY <1>2, <1>3, <1>4, <1>5
<1> QED BY <1>6 DEF a, b, c, d

\* Nothing is done yet of a header.
LEMMA ProgressBegins ==
    ASSUME NEW h
    PROVE  \A skips : Progress(h, 1, << >>, skips)
<1>1. IsSeq(<< >>) /\ ToSet(<< >>) = {} /\ DOMAIN << >> = {}
  BY Singletons
<1>2. 1 .. 1 - 1 = {}
  OBVIOUS
<1> QED BY <1>1, <1>2 DEF Progress, Backed, OneEach

\* The number of that step depends on the headers alone.
LEMMA SameEnd ==
    ASSUME headers' = headers, NEW h
    PROVE  EndOf(h)' = EndOf(h)
  BY SameHeaderAt DEF EndOf

\* A step within the header at hand.
LEMMA StepWithin ==
    ASSUME IInv, at <= Len(headers), UNCHANGED <<headers, at, env, ir>>,
           fault' \in {"none", "type", "constructors", "collision"},
           next' \in 1 .. EndOf(at), Progress(at, next', functions', skipped')
    PROVE  IInv'
<1>1. headers' \in Inputs /\ at' \in 0 .. Len(headers') + 1
  BY DEF IInv
<1>2. IsSeq(ir') /\ Len(ir') = (IF at' = 0 THEN 0 ELSE at' - 1)
  BY DEF IInv
<1>3. ASSUME NEW h \in DOMAIN ir' PROVE Finished(h)'
  <2>1. Finished(h)
    BY DEF IInv
  <2> DEFINE n == EndOf(h)
             fs == ir[h].functions
             skips == ir[h].skipped
  <2>2. Progress(h, n, fs, skips)
    BY <2>1 DEF Finished
  <2>3. n' = n /\ fs' = fs /\ skips' = skips
    BY SameEnd
  <2> QED
  BY <2>1, SameEnd, SameProgress, SameRecords DEF Finished
<1>4. Current'
  <2>1. env' = NormalizeEnv(at)'
  BY SameEnv DEF IInv, Current
  <2> QED
  BY <2>1, SameEnd, SameEnv, SameProgress DEF IInv, Current
<1> QED BY <1>1, <1>2, <1>3, <1>4 DEF IInv

\* It holds before the first header.
LEMMA InitInv ==
    ASSUME Init
    PROVE  IInv
<1>1. /\ headers \in Inputs /\ at = 0 /\ next = 1 /\ env = NormalizeEnv(0) /\ functions = << >>
      /\ ir = << >> /\ fault = "none"
  BY DEF Init
<1>2. Len(headers) \in Nat
  BY <1>1, HeadersFacts
<1>3. IsSeq(ir) /\ Len(ir) = 0 /\ DOMAIN ir = {}
  BY <1>1, Singletons
<1>4. EndOf(at) \in Nat \ {0}
  BY <1>1, <1>2, EndFacts
<1>5. Progress(at, next, functions, skipped)
  BY <1>1, ProgressBegins
<1>6. Current
  BY <1>1, <1>2, <1>4, <1>5 DEF Current
<1> QED BY <1>1, <1>2, <1>3, <1>6 DEF IInv

\* What holds where a declaration is taken.
LEMMA RunningFacts ==
    ASSUME IInv, Running
    PROVE  /\ headers \in Inputs /\ at \in 0 .. Len(headers) /\ at <= Len(headers) /\ env = NormalizeEnv(at)
           /\ EndOf(at) \in Nat \ {0} /\ next \in 1 .. EndOf(at) /\ next \in Nat \ {0}
           /\ Progress(at, next, functions, skipped) /\ fault = "none" /\ Len(headers) \in Nat
<1>1. headers \in Inputs /\ at \in 0 .. Len(headers) + 1 /\ at <= Len(headers) /\ fault = "none"
  BY DEF IInv, Running
<1>2. Len(headers) \in Nat
  BY <1>1, HeadersFacts
<1>3. at \in 0 .. Len(headers)
  BY <1>1, <1>2
<1>4. EndOf(at) \in Nat \ {0}
  BY <1>1, <1>3, EndFacts
<1>5. next \in 1 .. EndOf(at) /\ env = NormalizeEnv(at) /\ Progress(at, next, functions, skipped)
  BY <1>1 DEF IInv, Current
<1> QED BY <1>1, <1>2, <1>3, <1>4, <1>5

\* Taking the outcomes of a declaration.
LEMMA TakeInv ==
    ASSUME IInv, Running, next < EndOf(at), NEW outs, IsSeq(outs), Take(outs),
           (\A o \in ToSet(outs) : o.out # "fail") => Contribution(at, next, outs),
           UNCHANGED <<headers, at, env, whole, ir>>
    PROVE  IInv'
<1>1. /\ headers \in Inputs /\ at \in 0 .. Len(headers) /\ at <= Len(headers)
      /\ EndOf(at) \in Nat \ {0} /\ next \in 1 .. EndOf(at) /\ next \in Nat \ {0}
      /\ Progress(at, next, functions, skipped) /\ fault = "none"
  BY RunningFacts
<1>2. CASE fault' = "type" /\ UNCHANGED <<next, functions, skipped>>
  BY <1>1, <1>2, StepWithin
<1>3. CASE /\ \A o \in ToSet(outs) : o.out # "fail"
           /\ functions' = functions \o Emitted(outs) /\ skipped' = skipped \cup Skips(outs)
           /\ next' = next + 1 /\ UNCHANGED fault
  <2>1. Progress(at, next', functions', skipped')
    BY <1>1, <1>3, ProgressMade
  <2>2. next' \in 1 .. EndOf(at)
    BY <1>1, <1>3
  <2> QED BY <1>1, <1>3, <2>1, <2>2, StepWithin
<1> QED BY <1>2, <1>3, TakeFacts

\* A record keeps it (normalize_record).
LEMMA RecordInv ==
    ASSUME IInv, NormalizeRecord
    PROVE  IInv'
<1> DEFINE x == HeaderAt(at)
           r == x.records[next]
           record == env.records[SelectInSeq(env.records, LAMBDA y : y.cpp = Qualified(r))]
           s == RecordOutcomes(r, record)
<1>1. /\ Running /\ next \in 1 .. FirstFunction - 1
      /\ IF NoConstructorLeft(r, record)
         THEN fault' = "constructors" /\ UNCHANGED <<next, functions, skipped>>
         ELSE Take(s)
      /\ UNCHANGED <<headers, at, env, whole, ir>>
  BY DEF NormalizeRecord, This
<1>2. /\ headers \in Inputs /\ at \in 0 .. Len(headers) /\ at <= Len(headers) /\ env = NormalizeEnv(at)
      /\ EndOf(at) \in Nat \ {0} /\ next \in 1 .. EndOf(at) /\ next \in Nat \ {0}
      /\ Progress(at, next, functions, skipped) /\ fault = "none"
  BY <1>1, RunningFacts
<1>3. next \in DOMAIN x.records /\ next < EndOf(at)
  <2> DEFINE a == Len(x.records)
             b == Len(x.functions)
             c == Len(x.operators)
             d == Len(x.callbacks)
  <2>1. /\ a \in Nat /\ b \in Nat /\ c \in Nat /\ d \in Nat /\ DOMAIN x.records = 1 .. a
    BY <1>2, Places
  <2>2. FirstFunction = a + 1 /\ EndOf(at) = a + b + c + d + 1
    BY <1>2, BeginningsFacts
  <2> HIDE DEF a, b, c, d, x
  <2> QED BY <1>1, <2>1, <2>2
<1>4. record.cpp = Qualified(r) /\ record.handle # NoHandle
  BY <1>2, <1>3, RecordFound
<1> HIDE DEF record
<1>5. /\ IsSeq(s)
      /\ (\A o \in ToSet(s) : o.out # "fail") => Contribution(at, next, s)
  BY <1>2, <1>3, <1>4, RecordContributes
<1> HIDE DEF s, r, x
<1>6. CASE Take(s)
  BY <1>1, <1>3, <1>5, <1>6, TakeInv
<1>7. CASE fault' = "constructors" /\ UNCHANGED <<next, functions, skipped>>
  BY <1>1, <1>2, <1>7, StepWithin
<1> QED BY <1>1, <1>6, <1>7

\* A free function keeps it (normalize_function).
LEMMA FunctionInv ==
    ASSUME IInv, NormalizeFunction
    PROVE  IInv'
<1> DEFINE x == HeaderAt(at)
           i == next - FirstFunction + 1
           s == VariantsOf(x.functions, i, FreeCallable)
<1>1. /\ Running /\ next \in FirstFunction .. FirstOperator - 1
      /\ Take(s)
      /\ UNCHANGED <<headers, at, env, whole, ir>>
  BY DEF NormalizeFunction, This
<1>2. /\ headers \in Inputs /\ at \in 0 .. Len(headers) /\ env = NormalizeEnv(at) /\ next \in Nat \ {0}
  BY <1>1, RunningFacts
<1>3. i \in DOMAIN x.functions /\ next < EndOf(at) /\ next = Len(x.records) + i
  <2> DEFINE a == Len(x.records)
             b == Len(x.functions)
             c == Len(x.operators)
             d == Len(x.callbacks)
  <2>1. /\ a \in Nat /\ b \in Nat /\ c \in Nat /\ d \in Nat /\ DOMAIN x.functions = 1 .. b
    BY <1>2, Places
  <2>2. FirstFunction = a + 1 /\ FirstOperator = a + b + 1 /\ EndOf(at) = a + b + c + d + 1
    BY <1>2, BeginningsFacts
  <2> HIDE DEF a, b, c, d, x
  <2>3. i \in 1 .. b /\ next < EndOf(at) /\ next = a + i
    BY <1>1, <1>2, <2>1, <2>2
  <2> QED BY <2>1, <2>3 DEF a
<1> HIDE DEF i
<1>4. /\ IsSeq(s)
      /\ (\A o \in ToSet(s) : o.out # "fail") => Contribution(at, next, s)
  BY <1>2, <1>3, FunctionContributes
<1> HIDE DEF s
<1> QED BY <1>1, <1>3, <1>4, TakeInv

\* An operator outside of classes keeps it.
LEMMA OperatorInv ==
    ASSUME IInv, NormalizeOperator
    PROVE  IInv'
<1> DEFINE x == HeaderAt(at)
           i == next - FirstOperator + 1
           s == VariantsOf(x.operators, i, FreeCallable)
<1>1. /\ Running /\ next \in FirstOperator .. FirstCallback - 1
      /\ Take(s)
      /\ UNCHANGED <<headers, at, env, whole, ir>>
  BY DEF NormalizeOperator, This
<1>2. /\ headers \in Inputs /\ at \in 0 .. Len(headers) /\ env = NormalizeEnv(at) /\ next \in Nat \ {0}
  BY <1>1, RunningFacts
<1>3. i \in DOMAIN x.operators /\ next < EndOf(at) /\ next = Len(x.records) + Len(x.functions) + i
  <2> DEFINE a == Len(x.records)
             b == Len(x.functions)
             c == Len(x.operators)
             d == Len(x.callbacks)
  <2>1. /\ a \in Nat /\ b \in Nat /\ c \in Nat /\ d \in Nat /\ DOMAIN x.operators = 1 .. c
    BY <1>2, Places
  <2>2. FirstOperator = a + b + 1 /\ FirstCallback = a + b + c + 1 /\ EndOf(at) = a + b + c + d + 1
    BY <1>2, BeginningsFacts
  <2> HIDE DEF a, b, c, d, x
  <2>3. i \in 1 .. c /\ next < EndOf(at) /\ next = a + b + i
    BY <1>1, <1>2, <2>1, <2>2
  <2> QED BY <2>1, <2>3 DEF a, b
<1> HIDE DEF i
<1>4. /\ IsSeq(s)
      /\ (\A o \in ToSet(s) : o.out # "fail") => Contribution(at, next, s)
  BY <1>2, <1>3, OperatorContributes
<1> HIDE DEF s
<1> QED BY <1>1, <1>3, <1>4, TakeInv

\* A callback type keeps it (normalize_callback).
LEMMA CallbackInv ==
    ASSUME IInv, NormalizeCallback
    PROVE  IInv'
<1> DEFINE x == HeaderAt(at)
<1>1. /\ Running /\ next \in FirstCallback .. End - 1
      /\ \/ fault' = "type" /\ UNCHANGED next
         \/ next' = next + 1 /\ UNCHANGED fault
      /\ UNCHANGED <<headers, at, env, functions, skipped, whole, ir>>
  BY DEF NormalizeCallback
<1>2. /\ headers \in Inputs /\ at \in 0 .. Len(headers) /\ at <= Len(headers) /\ next \in Nat \ {0}
      /\ EndOf(at) \in Nat \ {0} /\ next \in 1 .. EndOf(at)
      /\ Progress(at, next, functions, skipped) /\ fault = "none"
  BY <1>1, RunningFacts
<1>3. next < EndOf(at) /\ next > Len(x.records) + Len(x.functions) + Len(x.operators)
  <2> DEFINE a == Len(x.records)
             b == Len(x.functions)
             c == Len(x.operators)
             d == Len(x.callbacks)
  <2>1. /\ a \in Nat /\ b \in Nat /\ c \in Nat /\ d \in Nat
    BY <1>2, Places
  <2>2. FirstCallback = a + b + c + 1 /\ End = EndOf(at) /\ EndOf(at) = a + b + c + d + 1
    BY <1>2, BeginningsFacts
  <2> HIDE DEF a, b, c, d, x
  <2>3. next < EndOf(at) /\ next > a + b + c
    BY <1>1, <1>2, <2>1, <2>2
  <2> QED BY <2>3 DEF a, b, c
<1>4. CASE fault' = "type" /\ UNCHANGED next
  BY <1>1, <1>2, <1>4, StepWithin
<1>5. CASE next' = next + 1 /\ UNCHANGED fault
  <2>1. Progress(at, next', functions', skipped')
    BY <1>1, <1>2, <1>3, <1>5, CallbackContributes
  <2>2. next' \in 1 .. EndOf(at)
    BY <1>2, <1>3, <1>5
  <2> QED BY <1>1, <1>2, <1>5, <2>1, <2>2, StepWithin
<1> QED BY <1>1, <1>4, <1>5

\* A header that is finished stays so.
LEMMA FinishedStays ==
    ASSUME headers' = headers, NEW h, Finished(h), ir'[h] = ir[h]
    PROVE  Finished(h)'
  BY SameEnd, SameProgress, SameRecords DEF Finished

\* The next header begins, if there is one.
LEMMA NextBegins ==
    ASSUME headers \in Inputs, headers' = headers, NEW m \in 1 .. Len(headers) + 1,
           at' = m, next' = 1, functions' = << >>, m <= Len(headers) => env' = NormalizeEnv(m)
    PROVE  Current'
<1>1. Len(headers) \in Nat
  BY HeadersFacts
<1>2. CASE m <= Len(headers)
  <2>1. m \in 0 .. Len(headers)
    BY <1>1, <1>2
  <2>2. EndOf(m) \in Nat \ {0}
    BY <2>1, EndFacts
  <2>3. 1 \in 1 .. EndOf(m)
    BY <2>2
  <2>4. EndOf(m)' = EndOf(m) /\ NormalizeEnv(m)' = NormalizeEnv(m)
    BY SameEnd, SameEnv
  <2>5. env' = NormalizeEnv(at)'
    BY <1>2, <2>4
  <2>6. next' \in 1 .. EndOf(at)'
    BY <2>3, <2>4
  <2>7. Progress(at, next, functions, skipped)'
    BY SameProgress, ProgressBegins
  <2> QED BY <1>2, <2>5, <2>6, <2>7 DEF Current
<1>3. CASE ~(m <= Len(headers))
  BY <1>3 DEF Current
<1> QED BY <1>2, <1>3

\* What Append leaves, and what it adds.
LEMMA AppendFacts ==
    ASSUME NEW s, IsSeq(s), NEW e
    PROVE  /\ IsSeq(Append(s, e)) /\ Len(Append(s, e)) = Len(s) + 1
           /\ DOMAIN Append(s, e) = 1 .. Len(s) + 1 /\ Append(s, e)[Len(s) + 1] = e
           /\ \A i \in 1 .. Len(s) : Append(s, e)[i] = s[i]
<1>1. IsSeq(<<e>>) /\ DOMAIN <<e>> = {1} /\ <<e>>[1] = e
  BY Singletons
<1>2. Append(s, e) = s \o <<e>>
  BY DEF IsSeq
<1>3. IsSeq(s \o <<e>>) /\ Len(s \o <<e>>) = Len(s) + 1
  BY <1>1, ConcatFacts
<1>4. Len(s) \in Nat /\ DOMAIN Append(s, e) = 1 .. Len(s) + 1
  BY <1>2, <1>3, SeqFacts
<1>5. (s \o <<e>>)[Len(s) + 1] = e /\ \A i \in 1 .. Len(s) : (s \o <<e>>)[i] = s[i]
  BY <1>1, ConcatFacts
<1> QED BY <1>2, <1>3, <1>4, <1>5

\* What is kept of a header is complete.
LEMMA FinishedNow ==
    ASSUME headers \in Inputs, headers' = headers, at \in 1 .. Len(headers), env = NormalizeEnv(at),
           Progress(at, EndOf(at), functions, skipped),
           NEW entry, ir'[at] = entry,
           entry.functions = AssignUnique(functions), entry.opaques = OpaqueTypes(functions),
           entry.records = env.records, entry.skipped = skipped,
           NEW h, h = at
    PROVE  Finished(h)'
<1>1. IsSeq(functions) /\ Backed(ToSet(functions)) /\ \A f \in ToSet(functions) : DOMAIN f = FunctionFields
  BY DEF Progress, Faithful
<1> DEFINE gs == AssignUnique(functions)
<1>2. /\ IsSeq(gs) /\ DOMAIN gs = DOMAIN functions
      /\ \A i \in DOMAIN functions : Alike(functions[i], gs[i])
  BY <1>1, RenamingFacts
<1> HIDE DEF gs
<1>3. Progress(h, EndOf(h), gs, skipped)
  BY <1>2, ProgressRenamed
<1>4. ASSUME NEW g \in ToSet(gs), NEW t \in TypesIn(g),
             t.kind \in ModelKind \/ (t.kind = "FixedModelArray" /\ g.accessor # "")
      PROVE  t.handle \in entry.opaques
  <2>1. PICK i \in DOMAIN functions : g = gs[i]
    BY <1>2 DEF ToSet
  <2>2. functions[i] \in ToSet(functions) /\ t \in TypesIn(functions[i]) /\ functions[i].accessor = g.accessor
    BY <1>2, <2>1, SameFacts DEF ToSet, Alike
  <2> QED BY <1>1, <1>4, <2>2, OpaqueTypesFacts
<1>5. entry.records = IrRecords(h)
  BY EnvFields
<1>6. /\ ir'[h] = entry /\ entry.functions = gs /\ entry.skipped = skipped
  BY DEF gs
<1>7. Progress(h, EndOf(h), entry.functions, entry.skipped)
  BY <1>3, <1>6
<1> QED BY <1>4, <1>5, <1>6, <1>7, SameEnd, SameProgress, SameRecords DEF Finished

\* Renaming and the list of handles keep it: the header at hand is finished.
LEMMA FinishInv ==
    ASSUME IInv, FinishHeader
    PROVE  IInv'
<1> DEFINE named == AssignUnique(functions)
           entry == [functions |-> named, opaques |-> OpaqueTypes(functions),
                     records |-> env.records, skipped |-> skipped]
<1>1. /\ Running /\ next = End /\ UNCHANGED headers
      /\ \/ fault' = "collision" /\ UNCHANGED <<at, next, env, functions, skipped, whole, ir>>
         \/ /\ IF at = 0 THEN UNCHANGED ir ELSE ir' = Append(ir, entry)
            /\ at' = at + 1 /\ next' = 1
            /\ env' = IF at < Len(headers) THEN NormalizeEnv(at + 1) ELSE env
            /\ functions' = << >> /\ UNCHANGED fault
  BY DEF FinishHeader
<1>2. /\ headers \in Inputs /\ at \in 0 .. Len(headers) /\ at <= Len(headers) /\ env = NormalizeEnv(at)
      /\ EndOf(at) \in Nat \ {0} /\ next \in 1 .. EndOf(at)
      /\ Progress(at, next, functions, skipped) /\ fault = "none" /\ Len(headers) \in Nat
  BY <1>1, RunningFacts
<1>3. CASE fault' = "collision" /\ UNCHANGED <<at, next, env, functions, skipped, whole, ir>>
  BY <1>1, <1>2, <1>3, StepWithin
<1>4. CASE /\ IF at = 0 THEN UNCHANGED ir ELSE ir' = Append(ir, entry)
           /\ at' = at + 1 /\ next' = 1
           /\ env' = IF at < Len(headers) THEN NormalizeEnv(at + 1) ELSE env
           /\ functions' = << >> /\ UNCHANGED fault
  <2>1. entry.functions = named /\ entry.opaques = OpaqueTypes(functions)
        /\ entry.records = env.records /\ entry.skipped = skipped
    OBVIOUS
  <2> HIDE DEF entry
  <2>2. IsSeq(ir) /\ Len(ir) = (IF at = 0 THEN 0 ELSE at - 1) /\ \A h \in DOMAIN ir : Finished(h)
    BY DEF IInv
  <2>3. Len(ir) \in Nat /\ DOMAIN ir = 1 .. Len(ir)
    BY <2>2, SeqFacts
  <2>4. Progress(at, EndOf(at), functions, skipped)
    BY <1>1, <1>2, BeginningsFacts
  <2>5. PICK m \in 1 .. Len(headers) + 1 : m = at + 1
    BY <1>2
  <2>6. Current'
    <3>1. m <= Len(headers) => env' = NormalizeEnv(m)
      BY <1>2, <1>4, <2>5
    <3> QED BY <1>1, <1>2, <1>4, <2>5, <3>1, NextBegins
  <2>7. CASE at = 0
    <3>1. DOMAIN ir' = {} /\ IsSeq(ir') /\ Len(ir') = 0
      BY <1>4, <2>2, <2>3, <2>7
    <3>2. at' = 1 /\ at' \in 0 .. Len(headers') + 1 /\ headers' \in Inputs
      BY <1>1, <1>2, <1>4, <2>7
    <3> QED BY <1>2, <1>4, <2>6, <3>1, <3>2 DEF IInv
  <2>8. CASE at # 0
    <3>1. ir' = Append(ir, entry) /\ Len(ir) + 1 = at /\ at \in 1 .. Len(headers)
      BY <1>2, <1>4, <2>2, <2>8
    <3>2. /\ IsSeq(ir') /\ Len(ir') = at /\ DOMAIN ir' = 1 .. at /\ ir'[at] = entry
          /\ \A i \in 1 .. Len(ir) : ir'[i] = ir[i]
      <4> HIDE DEF named
      <4> QED BY <2>2, <3>1, AppendFacts
    <3>3. ASSUME NEW h \in DOMAIN ir' PROVE Finished(h)'
      <4>1. CASE h = at
        BY <1>1, <1>2, <2>1, <2>4, <3>1, <3>2, <4>1, FinishedNow
      <4>2. CASE h # at
        <5>1. h \in DOMAIN ir /\ h \in 1 .. Len(ir)
          BY <1>2, <2>3, <3>1, <3>2, <4>2
        <5> QED BY <1>1, <2>2, <3>2, <5>1, FinishedStays
      <4> QED BY <4>1, <4>2
    <3>4. at' \in 0 .. Len(headers') + 1 /\ headers' \in Inputs /\ Len(ir') = (IF at' = 0 THEN 0 ELSE at' - 1)
      BY <1>1, <1>2, <1>4, <3>2
    <3> QED BY <1>2, <1>4, <2>6, <3>2, <3>3, <3>4 DEF IInv
  <2> QED BY <2>7, <2>8
<1> QED BY <1>1, <1>3, <1>4

\* So does a step that changes nothing.
LEMMA StutterInv ==
    ASSUME IInv, UNCHANGED vars
    PROVE  IInv'
<1>1. UNCHANGED <<headers, at, next, env, functions, skipped, ir, fault>>
  BY DEF vars
<1>2. CASE at <= Len(headers)
  BY <1>1, <1>2, StepWithin DEF IInv, Current
<1>3. CASE ~(at <= Len(headers))
  <2>1. Current'
    BY <1>1, <1>3 DEF IInv, Current
  <2>2. \A h \in DOMAIN ir' : Finished(h)'
    BY <1>1, FinishedStays DEF IInv
  <2> QED BY <1>1, <2>1, <2>2 DEF IInv
<1> QED BY <1>2, <1>3

\* The inductive invariant holds in every run, whatever the headers are.
THEOREM InvariantHolds == Spec => []IInv
<1>1. IInv /\ [Next]_vars => IInv'
  BY RecordInv, FunctionInv, OperatorInv, CallbackInv, FinishInv, StutterInv DEF Next
<1> QED BY <1>1, InitInv, PTL DEF Spec

------------------------------------------------------------------------------
(* The properties.                                                         *)

\* What is finished has the number of a header.
LEMMA FinishedFacts ==
    ASSUME IInv, NEW h \in DOMAIN ir
    PROVE  /\ headers \in Inputs /\ h \in DOMAIN headers /\ h \in 0 .. Len(headers) /\ h > 0
           /\ HeaderAt(h) = headers[h] /\ IsSeq(ir[h].functions)
           /\ Progress(h, EndOf(h), ir[h].functions, ir[h].skipped)
           /\ ir[h].records = IrRecords(h)
           /\ \A i \in DOMAIN ir[h].functions : Faithful(ir[h].functions[i], h)
<1>1. headers \in Inputs /\ Len(headers) \in Nat /\ DOMAIN headers = 1 .. Len(headers)
  BY HeadersFacts DEF IInv
<1>2. DOMAIN ir = 1 .. Len(ir) /\ Len(ir) = (IF at = 0 THEN 0 ELSE at - 1) /\ at \in 0 .. Len(headers) + 1
  BY SeqFacts DEF IInv
<1>3. h \in 1 .. Len(headers)
  BY <1>1, <1>2
<1>4. Finished(h)
  BY DEF IInv
<1>5. /\ Progress(h, EndOf(h), ir[h].functions, ir[h].skipped)
      /\ ir[h].records = IrRecords(h)
  BY <1>4 DEF Finished
<1>6. IsSeq(ir[h].functions) /\ \A f \in ToSet(ir[h].functions) : Faithful(f, h)
  BY <1>5 DEF Progress
<1>7. h > 0 /\ h \in 0 .. Len(headers) /\ h \in DOMAIN headers
  BY <1>1, <1>3
<1>8. HeaderAt(h) = headers[h]
  BY <1>1, <1>7, HeaderAtFacts
<1>9. \A i \in DOMAIN ir[h].functions : Faithful(ir[h].functions[i], h)
  BY <1>6 DEF ToSet
<1> QED BY <1>1, <1>5, <1>6, <1>7, <1>8, <1>9

\* It implies the type invariant.
LEMMA TypesInOrder ==
    ASSUME IInv
    PROVE  TypeOK
<1>1. headers \in Inputs /\ Len(headers) \in Nat /\ at \in 0 .. Len(headers) + 1
  BY HeadersFacts DEF IInv
<1>2. ASSUME at <= Len(headers) PROVE next \in 1 .. End
  <2>1. at \in 0 .. Len(headers) /\ next \in 1 .. EndOf(at)
    BY <1>1, <1>2 DEF IInv, Current
  <2> QED BY <1>1, <2>1, BeginningsFacts
<1>3. at > 0 => Len(ir) = at - 1
  BY <1>1 DEF IInv
<1>4. ASSUME NEW i \in DOMAIN functions PROVE \A t \in TypesIn(functions[i]) : WellFormed(t)
  <2>1. CASE at <= Len(headers)
    <3>1. Progress(at, next, functions, skipped)
      BY <2>1 DEF IInv, Current
    <3>2. functions[i] \in ToSet(functions)
      BY DEF ToSet
    <3> QED BY <3>1, <3>2 DEF Progress, Faithful
  <2>2. CASE ~(at <= Len(headers))
    <3>1. functions = << >>
      BY <2>2 DEF IInv, Current
    <3> QED BY <1>4, <3>1, Singletons
  <2> QED BY <2>1, <2>2
<1> QED BY <1>1, <1>2, <1>3, <1>4 DEF TypeOK, IInv

\* It implies that handles are declared.
LEMMA HandlesAreDeclared ==
    ASSUME IInv
    PROVE  HandlesDeclared
<1>1. ASSUME NEW h \in DOMAIN ir, NEW i \in DOMAIN ir[h].functions,
             NEW t \in TypesIn(ir[h].functions[i]),
             t.kind \in ModelKind \/ (t.kind = "FixedModelArray" /\ ir[h].functions[i].accessor # "")
      PROVE  t.handle \in ir[h].opaques
  <2>1. Finished(h)
    BY DEF IInv
  <2>2. ir[h].functions[i] \in ToSet(ir[h].functions)
    BY DEF ToSet
  <2> QED BY <1>1, <2>1, <2>2 DEF Finished
<1> QED BY <1>1, TypesInOrder DEF HandlesDeclared

\* The positions of wrappers are translations of what the headers mention.
LEMMA PositionsTranslated ==
    ASSUME IInv, NEW p \in Positions
    PROVE  \E h \in 0 .. Len(headers) : Translated(p[1], p[2], h)
<1>1. ASSUME NEW f \in FromCpp
      PROVE  \E h \in 0 .. Len(headers) :
                /\ \A k \in DOMAIN f.params : Translated(f.params[k], f.takes[k], h)
                /\ f.kind # "Constructor" => Translated(f.returns, f.gives, h)
  <2>1. PICK h \in DOMAIN ir : f \in {ir[h].functions[i] : i \in DOMAIN ir[h].functions}
    BY DEF FromCpp, FinishedFunctions
  <2>2. PICK i \in DOMAIN ir[h].functions : f = ir[h].functions[i]
    BY <2>1
  <2>3. h \in 0 .. Len(headers) /\ Faithful(f, h)
    BY <2>2, FinishedFacts
  <2>4. FromCode(f)
    BY DEF FromCpp, FromCode
  <2> QED BY <2>3, <2>4 DEF Faithful
<1>2. CASE \E f \in FromCpp : \E k \in DOMAIN f.params : p = <<f.params[k], f.takes[k]>>
  <2>1. PICK f \in FromCpp : \E k \in DOMAIN f.params : p = <<f.params[k], f.takes[k]>>
    BY <1>2
  <2>2. PICK k \in DOMAIN f.params : p = <<f.params[k], f.takes[k]>>
    BY <2>1
  <2> QED BY <1>1, <2>2
<1>3. CASE \E f \in FromCpp : f.kind # "Constructor" /\ p = <<f.returns, f.gives>>
  <2>1. PICK f \in FromCpp : f.kind # "Constructor" /\ p = <<f.returns, f.gives>>
    BY <1>3
  <2> QED BY <1>1, <2>1
<1> QED BY <1>2, <1>3 DEF Positions

\* It implies that the kind of a type is that of its declaration.
LEMMA KindsAreKept ==
    ASSUME IInv
    PROVE  KindsFit
<1> SUFFICES ASSUME UniqueLeaves, NoHiddenPointers, NEW p \in Positions
             PROVE  /\ p[1].kind = "Enum" <=> p[2].base \in KnownEnums /\ p[2].shape = "value"
                    /\ p \in ClassPositions /\ ~HasPointersWithin(p[2]) =>
                          /\ p[1].kind = "ModelValue" <=> p[2].shape = "value"
                          /\ p[1].kind \in {"ModelReference", "ExternStructReference"}
                                <=> p[2].shape = "reference"
  BY DEF KindsFit, ClassPositions
<1>1. PICK h \in 0 .. Len(headers) : Translated(p[1], p[2], h)
  BY PositionsTranslated
<1>2. PICK t \in MentionedTypes :
         p[1] = NormalizeWithCanonical(t, NormalizeEnv(h)) /\ p[1] # NoType /\ p[2] = t.canonical
  BY <1>1 DEF Translated
<1>3. headers \in Inputs
  BY DEF IInv
<1>4. /\ p[1].kind = "Enum" <=> p[2].base \in KnownEnums /\ p[2].shape = "value"
      /\ Builtin(p[2].base) = "name" /\ p[2].base \notin KnownEnums => Fits(p[1].kind, p[2])
  BY <1>2, <1>3, KindFits
<1> QED BY <1>4 DEF ClassPositions, Fits, ReferenceShape, HasPointersWithin

\* It implies that handles are named for classes.
LEMMA HandlesAreOfClasses ==
    ASSUME IInv
    PROVE  HandlesNameClasses
<1> SUFFICES ASSUME UniqueLeaves, ConsistentNames
             PROVE  LET handles ==
                            {<<p[2].base, p[1].handle>> : p \in {q \in ClassPositions :
                                q[1].kind \in ModelKind \cup {"FixedModelArray"}}}
                            \cup UNION {{<<ir[h].records[i].cpp, ir[h].records[i].handle>> :
                                            i \in DOMAIN ir[h].records} : h \in DOMAIN ir}
                    IN  \A c, d \in handles : c[1] = d[1] <=> c[2] = d[2]
  BY DEF HandlesNameClasses
<1> DEFINE fromPositions ==
               {<<p[2].base, p[1].handle>> : p \in {q \in ClassPositions :
                   q[1].kind \in ModelKind \cup {"FixedModelArray"}}}
           fromRecords ==
               UNION {{<<ir[h].records[i].cpp, ir[h].records[i].handle>> :
                          i \in DOMAIN ir[h].records} : h \in DOMAIN ir}
           named(c) == c[1] \in ProgramNames /\ c[2] = Flatten(NameOf(c[1]))
<1>1. headers \in Inputs
  BY DEF IInv
<1>2. ASSUME NEW c \in fromPositions PROVE named(c)
  <2>1. PICK p \in ClassPositions : p[1].kind \in ModelKind \cup {"FixedModelArray"} /\ c = <<p[2].base, p[1].handle>>
    OBVIOUS
  <2>2. p \in Positions /\ Builtin(p[2].base) = "name" /\ p[2].base \notin KnownEnums
    BY DEF ClassPositions
  <2>3. PICK h \in 0 .. Len(headers) : Translated(p[1], p[2], h)
    BY <2>2, PositionsTranslated
  <2>4. PICK t \in MentionedTypes :
           p[1] = NormalizeWithCanonical(t, NormalizeEnv(h)) /\ p[1] # NoType /\ p[2] = t.canonical
    BY <2>3 DEF Translated
  <2>5. p[1].handle = Flatten(NameOf(p[2].base))
    BY <1>1, <2>1, <2>2, <2>4, HandleOfClass
  <2>6. p[2].base \in ProgramNames
    BY <2>2, <2>4 DEF ProgramNames
  <2> QED BY <2>1, <2>5, <2>6
<1>3. ASSUME NEW c \in fromRecords PROVE named(c)
  <2>1. PICK h \in DOMAIN ir : \E i \in DOMAIN ir[h].records : c = <<ir[h].records[i].cpp, ir[h].records[i].handle>>
    OBVIOUS
  <2>2. PICK i \in DOMAIN ir[h].records : c = <<ir[h].records[i].cpp, ir[h].records[i].handle>>
    BY <2>1
  <2>3. h \in 0 .. Len(headers) /\ ir[h].records = IrRecords(h) /\ HeaderAt(h) = headers[h] /\ h \in DOMAIN headers
    BY FinishedFacts
  <2>4. /\ i \in DOMAIN headers[h].records /\ c[1] = Qualified(headers[h].records[i]) /\ c[1] \in RecordNames
        /\ c[2] = Flatten(PreferredName(c[1], PreferredAliases(h)))
    BY <1>1, <2>2, <2>3, IrRecordsFacts
  <2>5. Builtin(c[1]) = "name"
    <3>1. headers[h].records[i] \in ToSet(headers[h].records)
      BY <2>4 DEF ToSet
    <3> QED BY <1>1, <2>3, <2>4, <3>1, DeclaredFacts DEF IsRecord
  <2>6. c[2] = Flatten(NameOf(c[1]))
    BY <1>1, <2>4, <2>5, KnownHandle
  <2> QED BY <2>4, <2>6 DEF ProgramNames
<1> HIDE DEF fromPositions, fromRecords
<1>4. ASSUME NEW c \in fromPositions \cup fromRecords, NEW d \in fromPositions \cup fromRecords
      PROVE  c[1] = d[1] <=> c[2] = d[2]
  <2>1. named(c) /\ named(d)
    BY <1>2, <1>3
  <2> QED BY <2>1 DEF ConsistentNames
<1> QED BY <1>4 DEF fromPositions, fromRecords

\* It implies that each declaration is wrapped or reported, once.
LEMMA DeclarationsAreAccountedFor ==
    ASSUME IInv
    PROVE  DeclarationsAccountedFor
<1> SUFFICES ASSUME NEW h \in DOMAIN ir
             PROVE  LET Accounted(c, cpp) == HasForm(h, cpp, c) \/ cpp \in ir[h].skipped IN
                    /\ \A c \in ToSet(headers[h].functions) \cup ToSet(headers[h].operators) :
                          Accounted(c, Qualified(c))
                    /\ \A r \in ToSet(headers[h].records) :
                          /\ \A c \in ToSet(r.constructors) : Accounted(c, Qualified(r))
                          /\ \A c \in ToSet(r.methods) \cup ToSet(r.operators) :
                                Accounted(c, IF c.friend THEN Qualified(c) ELSE Append(Qualified(r), c.name))
                    /\ FriendsOnce(headers[h]) =>
                          \A i, j \in {k \in DOMAIN ir[h].functions : ir[h].functions[k] \in FromCpp} :
                              LET f == ir[h].functions[i] g == ir[h].functions[j]
                              IN  f.kind = g.kind /\ f.cpp = g.cpp /\ f.const = g.const /\ f.takes = g.takes
                                    => i = j
  BY DEF DeclarationsAccountedFor
<1> DEFINE fs == ir[h].functions
           x == headers[h]
           accounted(c, cpp) == HasForm(h, cpp, c) \/ cpp \in ir[h].skipped
<1>1. /\ headers \in Inputs /\ h \in 0 .. Len(headers) /\ h > 0
      /\ HeaderAt(h) = x /\ IsSeq(fs) /\ Progress(h, EndOf(h), fs, ir[h].skipped)
  BY FinishedFacts
<1>2. /\ \A d \in 1 .. EndOf(h) - 1 : CoversDeclaration(ToSet(fs), ir[h].skipped, x, d)
      /\ FriendsOnce(x) => OneEach(fs)
  BY <1>1 DEF Progress
<1>3. ASSUME NEW c, NEW cpp, Covers(ToSet(fs), ir[h].skipped, c, cpp) PROVE accounted(c, cpp)
  <2>1. CASE cpp \notin ir[h].skipped
    <3>1. PICK f \in ToSet(fs) :
             /\ f.accessor = "" /\ f.cpp = cpp /\ f.const = c.const
             /\ f.takes = Signature(c.params) /\ f.gives = c.returns.canonical
      BY <1>3, <2>1 DEF Covers
    <3>2. PICK i \in DOMAIN fs : f = fs[i]
      BY DEF ToSet
    <3> QED BY <3>1, <3>2 DEF HasForm
  <2> QED BY <2>1
<1> DEFINE a == Len(x.records)
           b == Len(x.functions)
           o == Len(x.operators)
           e == Len(x.callbacks)
<1>4. /\ a \in Nat /\ b \in Nat /\ o \in Nat /\ e \in Nat
      /\ DOMAIN x.records = 1 .. a /\ DOMAIN x.functions = 1 .. b /\ DOMAIN x.operators = 1 .. o
  BY <1>1, Places
<1>5. EndOf(h) = a + b + o + e + 1
  BY <1>1 DEF EndOf
<1> HIDE DEF a, b, o, e, fs, x, accounted
<1>6. /\ \A i \in 1 .. a : i \in 1 .. EndOf(h) - 1
      /\ \A i \in 1 .. b : a + i \in 1 .. EndOf(h) - 1
      /\ \A i \in 1 .. o : a + b + i \in 1 .. EndOf(h) - 1
  BY <1>4, <1>5
<1>7. ASSUME NEW c \in ToSet(x.functions) PROVE accounted(c, Qualified(c))
  <2>1. PICK i \in DOMAIN x.functions : c = x.functions[i]
    BY DEF ToSet
  <2>2. CoversDeclaration(ToSet(fs), ir[h].skipped, x, a + i)
    BY <1>2, <1>4, <1>6
  <2>3. Covers(ToSet(fs), ir[h].skipped, c, Qualified(c))
    BY <2>1, <2>2 DEF CoversDeclaration, a
  <2> QED BY <1>3, <2>3
<1>8. ASSUME NEW c \in ToSet(x.operators) PROVE accounted(c, Qualified(c))
  <2>1. PICK i \in DOMAIN x.operators : c = x.operators[i]
    BY DEF ToSet
  <2>2. CoversDeclaration(ToSet(fs), ir[h].skipped, x, a + b + i)
    BY <1>2, <1>4, <1>6
  <2>3. Covers(ToSet(fs), ir[h].skipped, c, Qualified(c))
    BY <2>1, <2>2 DEF CoversDeclaration, a, b
  <2> QED BY <1>3, <2>3
<1>9. ASSUME NEW r \in ToSet(x.records)
      PROVE  /\ \A c \in ToSet(r.constructors) : accounted(c, Qualified(r))
             /\ \A c \in ToSet(r.methods) \cup ToSet(r.operators) :
                   accounted(c, IF c.friend THEN Qualified(c) ELSE Append(Qualified(r), c.name))
  <2>1. PICK i \in DOMAIN x.records : r = x.records[i]
    BY DEF ToSet
  <2>2. CoversDeclaration(ToSet(fs), ir[h].skipped, x, i)
    BY <1>2, <1>4, <1>6
  <2>3. CoversRecord(ToSet(fs), ir[h].skipped, r)
    BY <2>1, <2>2 DEF CoversDeclaration
  <2> QED BY <1>3, <2>3 DEF CoversRecord
<1>10. ASSUME FriendsOnce(x),
              NEW i \in {k \in DOMAIN fs : fs[k] \in FromCpp}, NEW j \in {k \in DOMAIN fs : fs[k] \in FromCpp},
              fs[i].kind = fs[j].kind, fs[i].cpp = fs[j].cpp, fs[i].const = fs[j].const, fs[i].takes = fs[j].takes
       PROVE  i = j
  <2>1. SameCall(fs[i], fs[j])
    BY <1>10 DEF SameCall, FromCode, FromCpp
  <2> QED BY <1>2, <1>10, <2>1 DEF OneEach
<1> QED BY <1>7, <1>8, <1>9, <1>10 DEF fs, x, accounted

\* Whether headers have only classes depends on the headers alone.
LEMMA SameClasses ==
    ASSUME headers' = headers
    PROVE  OnlyClasses' <=> OnlyClasses
<1>1. UncheckedFit' <=> UncheckedFit
  BY DEF UncheckedFit
<1> QED BY <1>1, SameMentioned DEF OnlyClasses

\* No step gives up for a type, where all types are understood.
LEMMA NoStepAborts ==
    ASSUME IInv, OnlyClasses, fault # "type", [Next]_vars
    PROVE  fault' # "type"
<1>1. headers \in Inputs
  BY DEF IInv
<1>2. CASE NormalizeRecord
  <2> DEFINE x == HeaderAt(at)
             r == x.records[next]
             record == env.records[SelectInSeq(env.records, LAMBDA y : y.cpp = Qualified(r))]
             s == RecordOutcomes(r, record)
  <2>1. /\ Running /\ next \in 1 .. FirstFunction - 1
        /\ fault' = "constructors" \/ Take(s)
    BY <1>2 DEF NormalizeRecord, This
  <2>2. at \in 0 .. Len(headers) /\ env = NormalizeEnv(at)
    BY <2>1, RunningFacts
  <2>3. next \in DOMAIN x.records
    <3> DEFINE a == Len(x.records)
    <3>1. a \in Nat /\ DOMAIN x.records = 1 .. a /\ FirstFunction = a + 1
      BY <1>1, <2>2, Places, BeginningsFacts
    <3> HIDE DEF a, x
    <3> QED BY <2>1, <3>1
  <2>4. record.cpp = Qualified(r) /\ record.handle # NoHandle
    BY <1>1, <2>2, <2>3, RecordFound
  <2> HIDE DEF record
  <2>5. /\ IsSeq(s) /\ RecordFails(s, r, record)
        /\ \E g \in DOMAIN headers : r \in ToSet(headers[g].records)
    BY <1>1, <2>2, <2>3, <2>4, RecordContributes
  <2> HIDE DEF s, r, x
  <2>6. \A o \in ToSet(s) : o.out # "fail"
    BY <1>1, <2>5, NoRecordFails
  <2> QED BY <2>1, <2>5, <2>6, TakeFacts
<1>3. CASE NormalizeFunction
  <2> DEFINE x == HeaderAt(at)
             i == next - FirstFunction + 1
             s == VariantsOf(x.functions, i, FreeCallable)
  <2>1. Running /\ next \in FirstFunction .. FirstOperator - 1 /\ Take(s)
    BY <1>3 DEF NormalizeFunction, This
  <2>2. at \in 0 .. Len(headers) /\ env = NormalizeEnv(at) /\ next \in Nat \ {0}
    BY <2>1, RunningFacts
  <2>3. i \in DOMAIN x.functions
    <3> DEFINE a == Len(x.records)
               b == Len(x.functions)
    <3>1. /\ a \in Nat /\ b \in Nat /\ DOMAIN x.functions = 1 .. b
          /\ FirstFunction = a + 1 /\ FirstOperator = a + b + 1
      BY <1>1, <2>2, Places, BeginningsFacts
    <3> HIDE DEF a, b, x
    <3> QED BY <2>1, <2>2, <3>1
  <2> HIDE DEF i
  <2>4. /\ IsSeq(s) /\ FailsOf(s, x.functions)
        /\ Listed(x.functions) /\ \A c \in ToSet(x.functions) : CallTypes(c) \subseteq MentionedTypes
    BY <1>1, <2>2, <2>3, FunctionContributes
  <2> HIDE DEF s, x
  <2>5. \A o \in ToSet(s) : o.out # "fail"
    BY <1>1, <2>4, NoFailuresOf
  <2> QED BY <2>1, <2>4, <2>5, TakeFacts
<1>4. CASE NormalizeOperator
  <2> DEFINE x == HeaderAt(at)
             i == next - FirstOperator + 1
             s == VariantsOf(x.operators, i, FreeCallable)
  <2>1. Running /\ next \in FirstOperator .. FirstCallback - 1 /\ Take(s)
    BY <1>4 DEF NormalizeOperator, This
  <2>2. at \in 0 .. Len(headers) /\ env = NormalizeEnv(at) /\ next \in Nat \ {0}
    BY <2>1, RunningFacts
  <2>3. i \in DOMAIN x.operators
    <3> DEFINE a == Len(x.records)
               b == Len(x.functions)
               c == Len(x.operators)
    <3>1. /\ a \in Nat /\ b \in Nat /\ c \in Nat /\ DOMAIN x.operators = 1 .. c
          /\ FirstOperator = a + b + 1 /\ FirstCallback = a + b + c + 1
      BY <1>1, <2>2, Places, BeginningsFacts
    <3> HIDE DEF a, b, c, x
    <3> QED BY <2>1, <2>2, <3>1
  <2> HIDE DEF i
  <2>4. /\ IsSeq(s) /\ FailsOf(s, x.operators)
        /\ Listed(x.operators) /\ \A c \in ToSet(x.operators) : CallTypes(c) \subseteq MentionedTypes
    BY <1>1, <2>2, <2>3, OperatorContributes
  <2> HIDE DEF s, x
  <2>5. \A o \in ToSet(s) : o.out # "fail"
    BY <1>1, <2>4, NoFailuresOf
  <2> QED BY <2>1, <2>4, <2>5, TakeFacts
<1>5. CASE NormalizeCallback
  <2> DEFINE x == HeaderAt(at)
             i == next - FirstCallback + 1
             c == x.callbacks[i]
  <2>1. /\ Running /\ next \in FirstCallback .. End - 1
        /\ IF ParamsFail(c.params) \/ NormalizeWithCanonical(c.returns, env) = NoType
           THEN fault' = "type" /\ UNCHANGED next
           ELSE next' = next + 1 /\ UNCHANGED fault
    BY <1>5 DEF NormalizeCallback, This
  <2>2. at \in 0 .. Len(headers) /\ next \in Nat \ {0}
    BY <2>1, RunningFacts
  <2>3. i \in DOMAIN x.callbacks
    <3> DEFINE a == Len(x.records)
               b == Len(x.functions)
               o == Len(x.operators)
               d == Len(x.callbacks)
    <3>1. a \in Nat /\ b \in Nat /\ o \in Nat /\ d \in Nat /\ DOMAIN x.callbacks = 1 .. d
      BY <1>1, <2>2, Places
    <3>2. FirstCallback = a + b + o + 1 /\ End = a + b + o + d + 1
      BY <1>1, <2>2, BeginningsFacts
    <3> HIDE DEF a, b, o, d, x
    <3> QED BY <2>1, <2>2, <3>1, <3>2
  <2>4. c \in ToSet(x.callbacks)
    BY <2>3 DEF ToSet
  <2>7. \A e \in ToSet(x.callbacks) : \E g \in DOMAIN headers : e \in ToSet(headers[g].callbacks)
    BY <1>1, <2>2, HeaderAtFacts
  <2>5. PICK g \in DOMAIN headers : c \in ToSet(headers[g].callbacks)
    <3> HIDE DEF c
    <3> QED BY <2>4, <2>7
  <2> HIDE DEF c, i, x
  <2>6. ~(ParamsFail(c.params) \/ NormalizeWithCanonical(c.returns, env) = NoType)
    BY <1>1, <2>5, CallbackUnderstood
  <2> QED BY <2>1, <2>6
<1>6. CASE FinishHeader
  BY <1>6 DEF FinishHeader
<1>7. CASE UNCHANGED vars
  BY <1>7 DEF vars
<1> QED BY <1>2, <1>3, <1>4, <1>5, <1>6, <1>7 DEF Next

-----------------------------------------------------------------------------

------------------------------------------------------------------------------
(* The theorems.                                                           *)

\* The types of all wrappers are well formed, and every handle that a finished
\* header's wrappers take or give is an opaque type of the header, arrays with
\* accessors too (collect_referenced_opaque_types).
THEOREM DeclaredHandles == Spec => []HandlesDeclared
<1>1. IInv => HandlesDeclared
  BY HandlesAreDeclared
<1> QED BY <1>1, InvariantHolds, PTL

\* Where unqualified names do not mislead, an object that C++ takes by value,
\* pointer or reference is taken so, and enums are told from classes
\* (normalize_type_with_canonical).  Three spellings are not claimed, as the code
\* loses a pointer of theirs: references to pointers and arrays of pointers
\* (HasPointersWithin), and qualified pointers as Foo*const, whose base is not
\* the name of a class.
THEOREM KindsAlwaysFit == Spec => []KindsFit
<1>1. IInv => KindsFit
  BY KindsAreKept
<1> QED BY <1>1, InvariantHolds, PTL

\* Where classes are named consistently, all headers have one handle for a class,
\* and a handle is of one class, whichever of the ways it is found, and also with
\* pointers within.  Of the class positions, that is: what C++ spells Foo*const
\* has another base than Foo, and in the code another handle.
THEOREM HandlesAlwaysNameClasses == Spec => []HandlesNameClasses
<1>1. IInv => HandlesNameClasses
  BY HandlesAreOfClasses
<1> QED BY <1>1, InvariantHolds, PTL

\* Every overload has a wrapper for its full list of parameters or is recorded
\* as skipped, and no C++ call has two (default_argument_param_variants).
THEOREM AllAccountedFor == Spec => []DeclarationsAccountedFor
<1>1. IInv => DeclarationsAccountedFor
  BY DeclarationsAreAccountedFor
<1> QED BY <1>1, InvariantHolds, PTL

\* Where headers mention only classes, enums and plain values, and nothing that
\* constructors and callbacks leave unchecked, no type ends the run.
THEOREM ClassesAlwaysPass == Spec => []ClassesNeverAbort
<1>1. Init => ClassesNeverAbort
  BY DEF Init, ClassesNeverAbort
<1>2. ASSUME IInv, ClassesNeverAbort, [Next]_vars PROVE ClassesNeverAbort'
  <2>1. headers' = headers
    BY <1>2 DEF Next, NormalizeRecord, NormalizeFunction, NormalizeOperator, NormalizeCallback,
                FinishHeader, vars
  <2>2. ClassesNeverAbort <=> (OnlyClasses => fault # "type")
    BY DEF ClassesNeverAbort, OnlyClasses
  <2>3. ClassesNeverAbort' <=> (OnlyClasses' => fault' # "type")
    BY DEF ClassesNeverAbort, OnlyClasses
  <2>4. OnlyClasses => fault' # "type"
    BY <1>2, <2>2, NoStepAborts
  <2> QED BY <2>1, <2>3, <2>4, SameClasses
<1> QED BY <1>1, <1>2, InvariantHolds, PTL DEF Spec

==============================================================================
