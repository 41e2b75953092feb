--------------------------- MODULE BuildFlagsProofs ---------------------------
(***************************************************************************)
(* Lemmas about module BuildFlags, for any texts and any plain arguments:  *)
(* how the folds over arguments step from word to word, what resolution    *)
(* makes of a word, that resolved arguments are read like those the        *)
(* configuration means, what completion for libclang adds, and that        *)
(* exported arguments lead from the package where they lead from the       *)
(* configuration.  Module ParseRunProofs states with them what libclang    *)
(* reads and what the package is built with.                               *)
(*                                                                         *)
(* A fold of the community modules is a recursive function over the sets   *)
(* of places of a sequence that is chosen by its equation.  FoldExists     *)
(* shows, by a set of places without a least counterexample, that there    *)
(* is one; each fold of the module is then the fold of a function          *)
(* (ReadsIsFold, ScanIsFold, ResolveIsFold, AddIsFold, WalkIsFold,         *)
(* FirstOnesIsFold, ExportIsFold, LdIsFold), and FoldOfOneMore is its step. *)
(***************************************************************************)
EXTENDS BuildFlags, FiniteSetTheorems, WellFoundedInduction, TLAPS

(***************************************************************************)
(* Folds as functions                                                      *)
(***************************************************************************)

\* A set of numbers has a least one.
LEMMA LeastNumber ==
    ASSUME NEW T, T \subseteq Nat, T # {}
    PROVE  \E i \in T : \A j \in T : i <= j
<1> DEFINE R == OpToRel(<, Nat)
<1>1. R = {ss \in Nat \X Nat : ss[1] < ss[2]}
  BY DEF OpToRel
<1>2. IsWellFoundedOn(R, Nat)
  BY NatLessThanWellFounded
<1>3. \A a, b \in Nat : a < b => <<a, b>> \in R
  BY <1>1
<1> HIDE DEF R
<1>5. PICK i \in T : \A j \in T : ~(<<j, i>> \in R)
  BY <1>2, WFMin
<1>6. ASSUME NEW j \in T PROVE i <= j
  <2>1. i \in Nat /\ j \in Nat
    OBVIOUS
  <2>2. ~(<<j, i>> \in R)
    BY <1>5
  <2>3. ~(j < i)
    BY <1>3, <2>1, <2>2
  <2> QED BY <2>1, <2>3
<1> QED BY <1>6

\* A set of places has a last one.
LEMMA LastPlace ==
    ASSUME NEW n \in Nat, NEW T \in SUBSET (1..n), T # {}
    PROVE  /\ Max(T) \in T
           /\ \A j \in T : j <= Max(T)
<1> DEFINE D == {n - i : i \in T}
<1>0. \A i \in T : i \in Nat /\ i >= 1 /\ i <= n
  OBVIOUS
<1>1. D \subseteq Nat /\ D # {}
  <2>1. \A i \in T : n - i \in Nat
    BY <1>0
  <2> QED BY <2>1
<1>2. \E d \in D : \A e \in D : d <= e
  <2> HIDE DEF D
  <2> QED BY <1>1, LeastNumber
<1>3. PICK i \in T : \A e \in D : n - i <= e
  BY <1>2
<1>4. ASSUME NEW j \in T PROVE j <= i
  <2>1. n - i <= n - j
    BY <1>3
  <2> QED BY <1>0, <2>1
<1> QED BY <1>3, <1>4 DEF Max

\* Two functions that go back to what they are without the last place.
SameStep(f, g, n) ==
    /\ f[{}] = g[{}]
    /\ \A T \in SUBSET (1..n) :
           T # {} /\ f[T \ {Max(T)}] = g[T \ {Max(T)}] => f[T] = g[T]

\* Two folds that agree on every step agree on all places.
LEMMA SameFold ==
    ASSUME NEW n \in Nat, NEW f, NEW g, SameStep(f, g, n)
    PROVE  \A T \in SUBSET (1..n) : f[T] = g[T]
<1> USE DEF SameStep
<1> DEFINE B == {k \in 0..n : \E T \in SUBSET (1..k) : f[T] # g[T]}
<1>1. SUFFICES ASSUME B # {} PROVE FALSE
  <2>1. n \in 0..n
    OBVIOUS
  <2> QED BY <2>1
<1>2. PICK k \in B : \A j \in B : k <= j
  <2>1. B \subseteq Nat
    OBVIOUS
  <2> HIDE DEF B
  <2> QED BY <1>1, <2>1, LeastNumber
<1>3. PICK T \in SUBSET (1..k) : f[T] # g[T]
  BY <1>2
<1>4. T \in SUBSET (1..n) /\ k \in Nat /\ k <= n /\ T # {}
  <2>1. k \in Nat /\ k <= n
    BY <1>2
  <2>2. T # {}
    BY <1>3
  <2>3. \A i \in T : i \in 1..n
    BY <2>1
  <2> QED BY <2>1, <2>2, <2>3
<1> HIDE DEF B
<1>5. Max(T) \in T /\ \A j \in T : j <= Max(T)
  BY <1>4, LastPlace
<1>6. T \ {Max(T)} \in SUBSET (1..(k - 1)) /\ k - 1 \in 0..n
  <2>1. \A j \in T : j \in Nat /\ j >= 1 /\ j <= k
    BY <1>4
  <2>2. k >= 1
    <3>1. Max(T) <= k /\ Max(T) \in Nat /\ Max(T) >= 1
      BY <1>5, <2>1
    <3> QED BY <1>4, <3>1
  <2>3. ASSUME NEW j \in T \ {Max(T)} PROVE j \in 1..(k - 1)
    <3>1. j # Max(T) /\ j <= Max(T) /\ Max(T) <= k /\ Max(T) \in Nat
      BY <1>5, <2>1
    <3> QED BY <1>4, <2>1, <3>1
  <2>4. k - 1 \in 0..n
    BY <1>4, <2>2
  <2> QED BY <2>3, <2>4
<1>7. k - 1 \notin B
  <2>1. ~(k <= k - 1)
    BY <1>4
  <2> QED BY <1>2, <2>1
<1>8. f[T \ {Max(T)}] = g[T \ {Max(T)}]
  BY <1>6, <1>7 DEF B
<1> QED BY <1>3, <1>4, <1>8

\* What a fold is over the places of a sequence, when it is a function that is folded.
IsFold(g, F, b, s) ==
    /\ g = [T \in SUBSET (1..Len(s)) |-> g[T]]
    /\ \A T \in SUBSET (1..Len(s)) :
        g[T] = IF T = {} THEN b ELSE F[<<g[T \ {Max(T)}], s[Max(T)]>>]

\* What takes elements of W into accumulators in A, from one of them on.
IsFolding(F, b, A, W) == F \in [A \X W -> A] /\ b \in A

\* There is one.
LEMMA FoldExists ==
    ASSUME NEW A, NEW W, NEW F, NEW b, IsFolding(F, b, A, W), NEW s \in Seq(W)
    PROVE  \E g \in [SUBSET (1..Len(s)) -> A] : IsFold(g, F, b, s)
<1>a. F \in [A \X W -> A] /\ b \in A
  BY DEF IsFolding
<1> DEFINE G(k) == {g \in [SUBSET (1..k) -> A] :
                       \A T \in SUBSET (1..k) :
                           g[T] = IF T = {} THEN b ELSE F[<<g[T \ {Max(T)}], s[Max(T)]>>]}
           n == Len(s)
           B == {k \in 0..n : G(k) = {}}
<1>0. n \in Nat
  OBVIOUS
<1>1. SUFFICES ASSUME B # {} PROVE FALSE
  <2>1. n \in 0..n
    BY <1>0
  <2>2. G(n) # {}
    BY <1>0, <2>1
  <2> QED BY <2>2 DEF IsFold
<1>2. PICK k \in B : \A j \in B : k <= j
  <2>1. B \subseteq Nat
    OBVIOUS
  <2> HIDE DEF B
  <2> QED BY <1>1, <2>1, LeastNumber
<1>3. CASE k = 0
  <2> DEFINE g == [T \in SUBSET (1..0) |-> b]
  <2>1. SUBSET (1..0) = {{}}
    OBVIOUS
  <2>2. g \in G(0)
    BY <1>a, <2>1
  <2> QED BY <1>2, <1>3, <2>2
<1>4. CASE k # 0
  <2>1. k \in 1..n /\ k - 1 \in 0..n /\ k - 1 \notin B
    <3>1. k \in Nat /\ k <= n
      BY <1>0, <1>2
    <3>2. k - 1 \notin B
      <4>1. ~(k <= k - 1)
        BY <3>1
      <4> HIDE DEF B
      <4> QED BY <1>2, <4>1
    <3> HIDE DEF B, n
    <3> QED BY <1>0, <1>4, <3>1, <3>2
  <2>2. PICK g : g \in G(k - 1)
    BY <2>1
  <2> DEFINE h == [T \in SUBSET (1..k) |->
                      IF k \in T THEN F[<<g[T \ {k}], s[k]>>] ELSE g[T]]
  <2>3. s[k] \in W
    BY <2>1
  <2>4. ASSUME NEW T \in SUBSET (1..k) PROVE T \ {k} \in SUBSET (1..(k - 1)) /\ (k \notin T => T \in SUBSET (1..(k - 1)))
    BY <2>1
  <2>5. \A T \in SUBSET (1..(k - 1)) : g[T] \in A
    BY <2>2
  <2>6. ASSUME NEW T \in SUBSET (1..k) PROVE h[T] \in A
    <3>1. CASE k \in T
      BY <1>a, <2>3, <2>4, <2>5, <3>1
    <3>2. CASE k \notin T
      BY <2>4, <2>5, <3>2
    <3> QED BY <3>1, <3>2
  <2>7. ASSUME NEW T \in SUBSET (1..k)
        PROVE  h[T] = IF T = {} THEN b ELSE F[<<h[T \ {Max(T)}], s[Max(T)]>>]
    <3>1. CASE k \in T
      <4>1. Max(T) = k
        <5>1. k \in Nat /\ T # {} /\ \A j \in T : j \in Nat /\ j <= k
          BY <2>1, <3>1
        <5>2. Max(T) \in T /\ \A j \in T : j <= Max(T)
          BY <5>1, LastPlace
        <5>3. k <= Max(T) /\ Max(T) <= k /\ Max(T) \in Nat
          BY <3>1, <5>1, <5>2
        <5> QED BY <5>1, <5>3
      <4>2. h[T \ {k}] = g[T \ {k}]
        OBVIOUS
      <4> QED BY <3>1, <4>1, <4>2
    <3>2. CASE k \notin T
      <4>1. T \in SUBSET (1..(k - 1)) /\ h[T] = g[T] /\ T \ {Max(T)} \in SUBSET (1..k) /\ k \notin T \ {Max(T)}
        BY <2>4, <3>2
      <4>2. h[T \ {Max(T)}] = g[T \ {Max(T)}]
        BY <4>1
      <4>3. g[T] = IF T = {} THEN b ELSE F[<<g[T \ {Max(T)}], s[Max(T)]>>]
        BY <2>2, <4>1
      <4> QED BY <4>1, <4>2, <4>3
    <3> QED BY <3>1, <3>2
  <2>8. h \in G(k)
    BY <2>6, <2>7
  <2> QED BY <1>2, <2>8
<1> QED BY <1>3, <1>4

\* The fold of a function, by any fold of it.
FoldOf(F, b, s) == FoldLeft(LAMBDA a, w : F[<<a, w>>], b, s)

\* The fold of a function is any of its folds, at all places.
LEMMA FoldIs ==
    ASSUME NEW W, NEW F, NEW b, NEW s \in Seq(W), NEW g, IsFold(g, F, b, s)
    PROVE  FoldOf(F, b, s) = g[1..Len(s)]
<1> DEFINE it == CHOOSE it : it = [T \in SUBSET DOMAIN s |-> IF T = {} THEN b ELSE F[<<it[T \ {Max(T)}], s[Max(T)]>>]]
<1>1. DOMAIN s = 1..Len(s) /\ Len(s) \in Nat
  OBVIOUS
<1>2. FoldOf(F, b, s) = it[DOMAIN s]
  BY DEF FoldOf, FoldLeft, MapThenFoldSet
<1>3. g = [T \in SUBSET DOMAIN s |-> IF T = {} THEN b ELSE F[<<g[T \ {Max(T)}], s[Max(T)]>>]]
  BY <1>1 DEF IsFold
<1>4. it = [T \in SUBSET DOMAIN s |-> IF T = {} THEN b ELSE F[<<it[T \ {Max(T)}], s[Max(T)]>>]]
  BY <1>3
<1> HIDE DEF it
<1>5. \A T \in SUBSET (1..Len(s)) : it[T] = g[T]
  <2>1. it[{}] = g[{}]
    BY <1>1, <1>3, <1>4
  <2>2. ASSUME NEW T \in SUBSET (1..Len(s)), T # {}, it[T \ {Max(T)}] = g[T \ {Max(T)}]
        PROVE  it[T] = g[T]
    BY <1>1, <1>3, <1>4, <2>2
  <2>3. \A T \in SUBSET (1..Len(s)) :
            T # {} /\ it[T \ {Max(T)}] = g[T \ {Max(T)}] => it[T] = g[T]
    BY <2>2
  <2> DEFINE n == Len(s)
  <2>4. n \in Nat /\ \A T \in SUBSET (1..n) :
            T # {} /\ it[T \ {Max(T)}] = g[T \ {Max(T)}] => it[T] = g[T]
    BY <1>1, <2>3
  <2>5. \A T \in SUBSET (1..n) : it[T] = g[T]
    <3> HIDE DEF n
    <3>1. n \in Nat /\ SameStep(it, g, n)
      BY <2>1, <2>4 DEF SameStep
    <3> QED BY <3>1, SameFold
  <2> QED BY <2>5
<1> QED BY <1>1, <1>2, <1>5

\* A fold over nothing is its base.
LEMMA FoldOfNothing ==
    ASSUME NEW A, NEW W, NEW F, NEW b, IsFolding(F, b, A, W)
    PROVE  FoldOf(F, b, <<>>) = b
<1>a. F \in [A \X W -> A] /\ b \in A
  BY DEF IsFolding
<1>1. SUFFICES ASSUME NEW s \in Seq(W), s = <<>> PROVE FoldOf(F, b, s) = b
  <2>1. <<>> \in Seq(W)
    OBVIOUS
  <2> QED BY <2>1
<1>2. PICK g \in [SUBSET (1..Len(s)) -> A] : IsFold(g, F, b, s)
  BY FoldExists
<1>3. FoldOf(F, b, s) = g[1..Len(s)]
  BY <1>2, FoldIs
<1>4. 1..Len(s) = {} /\ {} \in SUBSET (1..Len(s))
  BY <1>1
<1>5. g[{}] = b
  BY <1>2, <1>4 DEF IsFold
<1> QED BY <1>3, <1>4, <1>5

\* One more element is taken into what is folded before it.
LEMMA FoldOfOneMore ==
    ASSUME NEW A, NEW W, NEW F, NEW b, IsFolding(F, b, A, W), NEW s \in Seq(W), NEW w \in W
    PROVE  /\ FoldOf(F, b, s) \in A
           /\ FoldOf(F, b, Append(s, w)) = F[<<FoldOf(F, b, s), w>>]
<1>a. F \in [A \X W -> A] /\ b \in A
  BY DEF IsFolding
<1> DEFINE t == Append(s, w)
           n == Len(s)
<1>1. /\ n \in Nat /\ t \in Seq(W) /\ Len(t) = n + 1 /\ t[n + 1] = w
      /\ \A i \in 1..n : t[i] = s[i]
  OBVIOUS
<1>2. PICK g \in [SUBSET (1..Len(t)) -> A] : IsFold(g, F, b, t)
  <2> HIDE DEF t
  <2> QED BY <1>1, FoldExists
<1>3. FoldOf(F, b, t) = g[1..Len(t)]
  <2> HIDE DEF t
  <2> QED BY <1>1, <1>2, FoldIs
<1> HIDE DEF t
<1> DEFINE h == [T \in SUBSET (1..n) |-> g[T]]
<1>4. \A T \in SUBSET (1..n) : T \in SUBSET (1..Len(t))
  BY <1>1
<1>5. h \in [SUBSET (1..n) -> A]
  BY <1>2, <1>4
<1>6. IsFold(h, F, b, s)
  <2>1. ASSUME NEW T \in SUBSET (1..n), T # {}
        PROVE  h[T] = F[<<h[T \ {Max(T)}], s[Max(T)]>>]
    <3>1. Max(T) \in 1..n
      BY <1>1, <2>1, LastPlace
    <3>2. h[T] = g[T] /\ h[T \ {Max(T)}] = g[T \ {Max(T)}] /\ s[Max(T)] = t[Max(T)]
      BY <1>1, <3>1
    <3>3. g[T] = F[<<g[T \ {Max(T)}], t[Max(T)]>>]
      BY <1>2, <1>4, <2>1 DEF IsFold
    <3> QED BY <3>2, <3>3
  <2>2. h[{}] = b
    BY <1>2, <1>4 DEF IsFold
  <2> QED BY <2>1, <2>2 DEF IsFold
<1>7. FoldOf(F, b, s) = h[1..n]
  <2> HIDE DEF h
  <2> QED BY <1>6, FoldIs
<1>8. h[1..n] = g[1..n] /\ h[1..n] \in A
  BY <1>5
<1> DEFINE T == 1..Len(t)
<1>9. T # {} /\ n + 1 \in T /\ T \in SUBSET (1..(n + 1)) /\ n + 1 \in Nat
  BY <1>1
<1>10. Max(T) \in T /\ \A j \in T : j <= Max(T)
  <2> HIDE DEF T
  <2> QED BY <1>9, LastPlace
<1>11. Max(T) = n + 1
  <2>1. Max(T) \in Nat /\ Max(T) <= n + 1 /\ n + 1 <= Max(T)
    BY <1>1, <1>9, <1>10
  <2> QED BY <1>1, <2>1
<1>12. T \ {n + 1} = 1..n
  BY <1>1
<1>13. g[T] = F[<<g[T \ {Max(T)}], t[Max(T)]>>]
  BY <1>2, <1>9 DEF IsFold
<1>14. g[T] = F[<<g[1..n], w>>]
  BY <1>1, <1>11, <1>12, <1>13
<1> QED BY <1>3, <1>7, <1>8, <1>14 DEF t

(***************************************************************************)
(* Reading a command line                                                  *)
(***************************************************************************)

\* The arguments of a command line, read.
Accumulators ==
    [dirs : Seq(Words), systemDirs : Seq(Words), libraryDirs : Seq(Words), defines : Seq(Words),
     files : Seq(Words), language : Words, standard : Words, open : Texts]

\* An argument read as text is a word.
LEMMA TextIsWord ==
    ASSUME NEW w \in Words
    PROVE  /\ AsText(w) \in Words /\ AsText(w).opt = ""
           /\ w.opt = "" => AsText(w) = w
           /\ [w EXCEPT !.opt = ""] \in Words /\ ValueOf(w) \in Words
<1>0. "" \in Texts
  BY TextsAssumption
<1>1. w.opt \in Texts /\ w.name \in Seq(Texts) /\ w.kind \in Kinds
  BY DEF Words
<1>2. <<w.opt>> \o w.name \in Seq(Texts)
  BY <1>1
<1>3. [w EXCEPT !.opt = ""] \in Words
  BY <1>0, <1>1 DEF Words
<1>6. ValueOf(w) \in Words
  BY <1>3 DEF ValueOf
<1>4. CASE w.opt = ""
  BY <1>3, <1>4, <1>6 DEF AsText
<1>5. CASE w.opt # ""
  <2>1. AsText(w) = Word("", "rel", <<w.opt>> \o w.name)
    BY <1>5 DEF AsText
  <2>2. \A t \in Seq(Texts) : Word("", "rel", t) \in Words /\ Word("", "rel", t).opt = ""
    BY <1>0 DEF Word, Words, Kinds
  <2> QED BY <1>2, <1>3, <1>5, <1>6, <2>1, <2>2
<1> QED BY <1>4, <1>5

\* What is taken for an option keeps the accumulator's type.
LEMMA TakeType ==
    ASSUME NEW acc \in Accumulators, NEW opt \in Texts, NEW text \in Words
    PROVE  Take(acc, opt, text) \in Accumulators
<1>1. /\ Append(acc.dirs, text) \in Seq(Words) /\ Append(acc.systemDirs, text) \in Seq(Words)
      /\ Append(acc.libraryDirs, text) \in Seq(Words) /\ Append(acc.defines, text) \in Seq(Words)
      /\ Append(acc.files, text) \in Seq(Words)
  BY DEF Accumulators
<1> HIDE DEF Words
<1> QED BY <1>1 DEF Take, Accumulators

\* A word is read into an accumulator.
LEMMA ReadWordType ==
    ASSUME NEW acc \in Accumulators, NEW w \in Words
    PROVE  ReadWord(acc, w) \in Accumulators
<1>1. acc.open \in Texts /\ w.opt \in Texts
  BY DEF Accumulators, Words
<1>2. /\ Take(acc, acc.open, AsText(w)) \in Accumulators
      /\ Take(acc, w.opt, ValueOf(w)) \in Accumulators
  BY <1>1, TextIsWord, TakeType
<1>0. "" \in Texts
  BY TextsAssumption
<1>3. \A a \in Accumulators, o \in Texts : [a EXCEPT !.open = o] \in Accumulators
  <2> HIDE DEF Words
  <2> QED BY DEF Accumulators
<1>4. CASE acc.open # ""
  <2>1. ReadWord(acc, w) = [Take(acc, acc.open, AsText(w)) EXCEPT !.open = ""]
    BY <1>4 DEF ReadWord
  <2> QED BY <1>0, <1>2, <1>3, <2>1
<1>5. CASE acc.open = "" /\ w.kind = "none"
  <2>1. ReadWord(acc, w) = [acc EXCEPT !.open = w.opt]
    BY <1>5 DEF ReadWord
  <2> QED BY <1>1, <1>3, <2>1
<1>6. CASE acc.open = "" /\ w.kind # "none"
  BY <1>2, <1>6 DEF ReadWord
<1> QED BY <1>4, <1>5, <1>6

\* Reading starts with an accumulator.
LEMMA NothingReadType == NothingRead \in Accumulators
<1>0. "" \in Texts
  BY TextsAssumption
<1>1. Option("") \in Words
  <2>1. "none" \in Kinds
    BY DEF Kinds
  <2>2. <<>> \in Seq(Texts)
    OBVIOUS
  <2>3. ASSUME NEW t \in Seq(Texts), NEW k \in Kinds PROVE [opt |-> "", kind |-> k, name |-> t] \in Words
    BY <1>0 DEF Words
  <2> QED BY <2>1, <2>2, <2>3 DEF Option, Word
<1>2. <<>> \in Seq(Words)
  OBVIOUS
<1> QED BY <1>0, <1>1, <1>2 DEF NothingRead, Accumulators

\* Reading is the fold of a function.
Reading == [p \in Accumulators \X Words |-> ReadWord(p[1], p[2])]

\* What is read, as the fold of a function.
LEMMA ReadsIsFold ==
    ASSUME NEW s \in Seq(Words)
    PROVE  /\ IsFolding(Reading, NothingRead, Accumulators, Words)
           /\ CompilerReads(s) = FoldOf(Reading, NothingRead, s)
<1>1. IsFolding(Reading, NothingRead, Accumulators, Words)
  BY ReadWordType, NothingReadType DEF Reading, IsFolding
<1>2. PICK g \in [SUBSET (1..Len(s)) -> Accumulators] : IsFold(g, Reading, NothingRead, s)
  BY <1>1, FoldExists
<1>3. FoldOf(Reading, NothingRead, s) = g[1..Len(s)]
  BY <1>2, FoldIs
<1> DEFINE n == Len(s)
           it == CHOOSE it : it = [T \in SUBSET DOMAIN s |-> IF T = {} THEN NothingRead
                                                  ELSE ReadWord(it[T \ {Max(T)}], s[Max(T)])]
<1>4. n \in Nat /\ DOMAIN s = 1..n /\ \A i \in 1..n : s[i] \in Words
  OBVIOUS
<1>5. CompilerReads(s) = it[DOMAIN s]
  BY DEF CompilerReads, FoldLeft, MapThenFoldSet
<1>6. ASSUME NEW T \in SUBSET (1..n), T # {}
      PROVE  g[T] = ReadWord(g[T \ {Max(T)}], s[Max(T)])
  <2>1. Max(T) \in 1..n /\ s[Max(T)] \in Words
    BY <1>4, <1>6, LastPlace
  <2>2. g[T \ {Max(T)}] \in Accumulators
    OBVIOUS
  <2>3. g[T] = Reading[<<g[T \ {Max(T)}], s[Max(T)]>>]
    BY <1>2, <1>6 DEF IsFold
  <2> QED BY <2>1, <2>2, <2>3 DEF Reading
<1>7. g[{}] = NothingRead /\ {} \in SUBSET (1..n)
  BY <1>2 DEF IsFold
<1>8. g = [T \in SUBSET DOMAIN s |-> IF T = {} THEN NothingRead
                                     ELSE ReadWord(g[T \ {Max(T)}], s[Max(T)])]
  BY <1>4, <1>6, <1>7
<1>9. it = [T \in SUBSET DOMAIN s |-> IF T = {} THEN NothingRead
                                      ELSE ReadWord(it[T \ {Max(T)}], s[Max(T)])]
  BY <1>8
<1> HIDE DEF it
<1>10. SameStep(it, g, n)
  <2>1. it[{}] = g[{}]
    BY <1>4, <1>7, <1>9
  <2>2. ASSUME NEW T \in SUBSET (1..n), T # {}, it[T \ {Max(T)}] = g[T \ {Max(T)}]
        PROVE  it[T] = g[T]
    BY <1>4, <1>6, <1>9, <2>2
  <2> QED BY <2>1, <2>2 DEF SameStep
<1>11. it[1..n] = g[1..n]
  BY <1>4, <1>10, SameFold
<1> QED BY <1>1, <1>3, <1>4, <1>5, <1>11

\* Reading, one word after the other.
LEMMA ReadsOneMore ==
    /\ CompilerReads(<<>>) = NothingRead
    /\ \A s \in Seq(Words) : CompilerReads(s) \in Accumulators
    /\ \A s \in Seq(Words), w \in Words :
           CompilerReads(Append(s, w)) = ReadWord(CompilerReads(s), w)
<1>1. IsFolding(Reading, NothingRead, Accumulators, Words)
  BY ReadWordType, NothingReadType DEF Reading, IsFolding
<1>2. CompilerReads(<<>>) = NothingRead
  <2>1. <<>> \in Seq(Words)
    OBVIOUS
  <2>2. CompilerReads(<<>>) = FoldOf(Reading, NothingRead, <<>>)
    BY <2>1, ReadsIsFold
  <2>3. FoldOf(Reading, NothingRead, <<>>) = NothingRead
    BY <1>1, FoldOfNothing
  <2> QED BY <2>2, <2>3
<1>3. ASSUME NEW s \in Seq(Words), NEW w \in Words
      PROVE  /\ CompilerReads(s) \in Accumulators
             /\ CompilerReads(Append(s, w)) = ReadWord(CompilerReads(s), w)
  <2>1. Append(s, w) \in Seq(Words)
    OBVIOUS
  <2>2. /\ CompilerReads(s) = FoldOf(Reading, NothingRead, s)
        /\ CompilerReads(Append(s, w)) = FoldOf(Reading, NothingRead, Append(s, w))
    BY <2>1, ReadsIsFold
  <2>3. /\ FoldOf(Reading, NothingRead, s) \in Accumulators
        /\ FoldOf(Reading, NothingRead, Append(s, w)) = Reading[<<FoldOf(Reading, NothingRead, s), w>>]
    BY <1>1, FoldOfOneMore
  <2>4. ASSUME NEW acc \in Accumulators PROVE Reading[<<acc, w>>] = ReadWord(acc, w)
    <3>1. <<acc, w>> \in Accumulators \X Words
      OBVIOUS
    <3> QED BY <3>1 DEF Reading
  <2> QED BY <2>2, <2>3, <2>4
<1>4. \E w : w \in Words
  BY NothingReadType DEF Accumulators
<1> QED BY <1>2, <1>3, <1>4

\* What holds of nothing and of one more holds up to any number.
LEMMA UpTo ==
    ASSUME NEW n \in Nat, NEW S, 0 \in S, \A k \in 0..(n - 1) : k \in S => k + 1 \in S
    PROVE  \A k \in 0..n : k \in S
<1> DEFINE B == {k \in 0..n : k \notin S}
<1>1. SUFFICES ASSUME B # {} PROVE FALSE
  OBVIOUS
<1>2. PICK k \in B : \A j \in B : k <= j
  <2>1. B \subseteq Nat
    OBVIOUS
  <2> HIDE DEF B
  <2> QED BY <1>1, <2>1, LeastNumber
<1>3. k \in Nat /\ k <= n /\ k \notin S /\ k # 0
  BY <1>2
<1>4. k - 1 \in 0..(n - 1) /\ k - 1 \in 0..n /\ ~(k <= k - 1) /\ (k - 1) + 1 = k
  BY <1>3
<1>5. k - 1 \in S
  BY <1>2, <1>4
<1> QED BY <1>3, <1>4, <1>5

\* The prefixes of a sequence.
LEMMA PrefixFacts ==
    ASSUME NEW S, NEW s \in Seq(S)
    PROVE  /\ Len(s) \in Nat /\ DOMAIN s = 1..Len(s)
           /\ SubSeq(s, 1, 0) = <<>> /\ SubSeq(s, 1, Len(s)) = s
           /\ \A k \in 0..Len(s) : SubSeq(s, 1, k) \in Seq(S) /\ Len(SubSeq(s, 1, k)) = k
           /\ \A k \in 0..(Len(s) - 1) : /\ k + 1 \in DOMAIN s /\ s[k + 1] \in S
                                        /\ SubSeq(s, 1, k + 1) = Append(SubSeq(s, 1, k), s[k + 1])
<1>1. Len(s) \in Nat /\ DOMAIN s = 1..Len(s)
  OBVIOUS
<1>2. SubSeq(s, 1, 0) = <<>> /\ SubSeq(s, 1, Len(s)) = s
  OBVIOUS
<1>3. ASSUME NEW k \in 0..Len(s) PROVE SubSeq(s, 1, k) \in Seq(S) /\ Len(SubSeq(s, 1, k)) = k
  OBVIOUS
<1>4. ASSUME NEW k \in 0..(Len(s) - 1)
      PROVE  /\ k + 1 \in DOMAIN s /\ s[k + 1] \in S
             /\ SubSeq(s, 1, k + 1) = Append(SubSeq(s, 1, k), s[k + 1])
  <2>1. k \in Nat /\ k + 1 \in DOMAIN s /\ k + 1 \in 0..Len(s) /\ k \in 0..Len(s)
    BY <1>1
  <2> DEFINE a == SubSeq(s, 1, k + 1)
             b == Append(SubSeq(s, 1, k), s[k + 1])
  <2>2. a \in Seq(S) /\ Len(a) = k + 1 /\ b \in Seq(S) /\ Len(b) = k + 1
    BY <1>3, <2>1
  <2>3. ASSUME NEW i \in 1..(k + 1) PROVE a[i] = b[i]
    BY <2>1
  <2> QED BY <2>1, <2>2, <2>3
<1> QED BY <1>1, <1>2, <1>3, <1>4

(***************************************************************************)
(* The scan for an include directory                                       *)
(***************************************************************************)

Scans == [found : BOOLEAN, detached : BOOLEAN]
ScanStart == [found |-> FALSE, detached |-> FALSE]
Scanning(dir) == [p \in Scans \X Words |-> ScanArg(dir, p[1], p[2])]

\* The scan is the fold of a function.
LEMMA ScanType ==
    ASSUME NEW dir
    PROVE  /\ IsFolding(Scanning(dir), ScanStart, Scans, Words)
           /\ \A acc \in Scans, w \in Words : Scanning(dir)[<<acc, w>>] = ScanArg(dir, acc, w)
<1>1. \A acc \in Scans, w \in Words : ScanArg(dir, acc, w) \in Scans
  BY DEF ScanArg, Scans
<1>2. ScanStart \in Scans
  BY DEF ScanStart, Scans
<1> QED BY <1>1, <1>2 DEF IsFolding, Scanning

\* The scan, as the fold of a function.
LEMMA ScanIsFold ==
    ASSUME NEW dir, NEW s \in Seq(Words)
    PROVE  Mentions(s, dir) = FoldOf(Scanning(dir), ScanStart, s).found
<1> DEFINE n == Len(s)
           it == CHOOSE it : it = [T \in SUBSET DOMAIN s |->
                                      IF T = {} THEN ScanStart ELSE ScanArg(dir, it[T \ {Max(T)}], s[Max(T)])]
<1>1. IsFolding(Scanning(dir), ScanStart, Scans, Words)
  BY ScanType
<1>2. PICK g \in [SUBSET (1..n) -> Scans] : IsFold(g, Scanning(dir), ScanStart, s)
  BY <1>1, FoldExists
<1>3. FoldOf(Scanning(dir), ScanStart, s) = g[1..n]
  BY <1>2, FoldIs
<1>4. n \in Nat /\ DOMAIN s = 1..n /\ \A i \in 1..n : s[i] \in Words
  OBVIOUS
<1>5. Mentions(s, dir) = it[DOMAIN s].found
  BY DEF Mentions, ScanStart, FoldLeft, MapThenFoldSet
<1>6. ASSUME NEW T \in SUBSET (1..n), T # {}
      PROVE  g[T] = ScanArg(dir, g[T \ {Max(T)}], s[Max(T)])
  <2>1. Max(T) \in 1..n /\ s[Max(T)] \in Words /\ g[T \ {Max(T)}] \in Scans
    BY <1>4, <1>6, LastPlace
  <2>2. g[T] = Scanning(dir)[<<g[T \ {Max(T)}], s[Max(T)]>>]
    BY <1>2, <1>6 DEF IsFold
  <2> QED BY <2>1, <2>2, ScanType
<1>7. g[{}] = ScanStart /\ {} \in SUBSET (1..n)
  BY <1>2 DEF IsFold
<1>8. g = [T \in SUBSET DOMAIN s |-> IF T = {} THEN ScanStart ELSE ScanArg(dir, g[T \ {Max(T)}], s[Max(T)])]
  BY <1>4, <1>6, <1>7
<1>9. it = [T \in SUBSET DOMAIN s |-> IF T = {} THEN ScanStart ELSE ScanArg(dir, it[T \ {Max(T)}], s[Max(T)])]
  BY <1>8
<1> HIDE DEF it
<1>10. SameStep(it, g, n)
  <2>1. it[{}] = g[{}]
    BY <1>4, <1>7, <1>9
  <2>2. ASSUME NEW T \in SUBSET (1..n), T # {}, it[T \ {Max(T)}] = g[T \ {Max(T)}]
        PROVE  it[T] = g[T]
    BY <1>4, <1>6, <1>9, <2>2
  <2> QED BY <2>1, <2>2 DEF SameStep
<1>11. it[1..n] = g[1..n]
  BY <1>4, <1>10, SameFold
<1> QED BY <1>3, <1>4, <1>5, <1>11

(***************************************************************************)
(* Resolution                                                              *)
(***************************************************************************)

LineWords(env) == {w \in Words : w.kind = "var" => w.name # <<>> /\ w.name[1] \in DOMAIN env}
Values(env) == \A v \in DOMAIN env : env[v] \in Words
Resolutions == [args : Seq(Words), detached : BOOLEAN]
ResolveStart == [args |-> <<>>, detached |-> FALSE]
Resolving(env) == [p \in Resolutions \X LineWords(env) |-> ResolveClangArg(env, p[1], p[2])]

\* What becomes of a word is a word.
LEMMA ExpandType ==
    ASSUME NEW env, Values(env), NEW w \in LineWords(env)
    PROVE  Expand(env, w) \in Words /\ (w.opt # "" \/ w.kind # "var" => Expand(env, w).opt = w.opt)
<1>1. w \in Words /\ (w.kind = "var" => env[w.name[1]] \in Words)
  BY DEF LineWords, Values
<1>2. w.opt \in Texts /\ w.kind \in Kinds /\ w.name \in Seq(Texts)
  BY <1>1 DEF Words
<1>3. CASE w.kind # "var"
  BY <1>1, <1>3 DEF Expand
<1>4. CASE w.kind = "var" /\ w.opt = ""
  BY <1>1, <1>4 DEF Expand
<1>5. CASE w.kind = "var" /\ w.opt # ""
  <2>1. Expand(env, w) = [AsText(env[w.name[1]]) EXCEPT !.opt = w.opt]
    BY <1>5 DEF Expand
  <2>2. AsText(env[w.name[1]]) \in Words
    BY <1>1, <1>5, TextIsWord
  <2>3. \A t \in Words : [t EXCEPT !.opt = w.opt] \in Words /\ [t EXCEPT !.opt = w.opt].opt = w.opt
    BY <1>2 DEF Words
  <2> QED BY <2>1, <2>2, <2>3
<1> QED BY <1>3, <1>4, <1>5

\* A resolved path is a word.
LEMMA ResolvePathType ==
    ASSUME NEW env, Values(env), NEW w \in LineWords(env)
    PROVE  ResolvePath(env, w) \in Words
<1> DEFINE text == AsText(Expand(env, w))
<1>1. text \in Words
  BY ExpandType, TextIsWord
<1> HIDE DEF text
<1>2. \A t \in Words : Word("", "abs", Base \o t.name) \in Words
  <2>1. ASSUME NEW t \in Words PROVE Base \o t.name \in Seq(Texts)
    <3>1. Base \in Seq(Texts) /\ t.name \in Seq(Texts)
      BY TextsAssumption DEF Words
    <3> QED BY <3>1
  <2>2. ASSUME NEW name \in Seq(Texts) PROVE Word("", "abs", name) \in Words
    <3>1. "" \in Texts /\ "abs" \in Kinds
      BY TextsAssumption DEF Kinds
    <3> QED BY <3>1 DEF Word, Words
  <2> QED BY <2>1, <2>2
<1>3. ResolvePath(env, w) \in {text, Word("", "abs", Base \o text.name)}
  BY DEF ResolvePath, text
<1> QED BY <1>1, <1>2, <1>3

\* So is one that follows its option in the same word.
LEMMA ResolveJoinedType ==
    ASSUME NEW env, Values(env), NEW w \in LineWords(env)
    PROVE  ResolveJoined(env, w) \in Words
<1> DEFINE v == [w EXCEPT !.opt = ""]
<1>1. w \in Words
  BY DEF LineWords
<1>2. v \in Words /\ v.kind = w.kind /\ v.name = w.name
  <2>1. v \in Words
    BY <1>1, TextIsWord
  <2> QED BY <1>1, <2>1 DEF Words
<1>3. v \in LineWords(env)
  <2> HIDE DEF v
  <2> QED BY <1>2 DEF LineWords
<1>4. ResolvePath(env, v) \in Words /\ w.opt \in Texts
  BY <1>1, <1>3, ResolvePathType DEF Words
<1>5. \A t \in Words : [t EXCEPT !.opt = w.opt] \in Words
  BY <1>4 DEF Words
<1> QED BY <1>4, <1>5 DEF ResolveJoined

\* Resolution is the fold of a function.
LEMMA ResolveType ==
    ASSUME NEW env, Values(env)
    PROVE  /\ IsFolding(Resolving(env), ResolveStart, Resolutions, LineWords(env))
           /\ \A acc \in Resolutions, w \in LineWords(env) :
                 Resolving(env)[<<acc, w>>] = ResolveClangArg(env, acc, w)
<1>1. ASSUME NEW acc \in Resolutions, NEW w \in LineWords(env)
      PROVE  ResolveClangArg(env, acc, w) \in Resolutions
  <2>1. /\ ResolvePath(env, w) \in Words /\ ResolveJoined(env, w) \in Words
        /\ Expand(env, w) \in Words
    BY ResolvePathType, ResolveJoinedType, ExpandType
  <2>2. ASSUME NEW x \in Words, NEW b \in BOOLEAN
        PROVE  [args |-> Append(acc.args, x), detached |-> b] \in Resolutions
    <3>1. acc.args \in Seq(Words)
      BY DEF Resolutions
    <3>2. Append(acc.args, x) \in Seq(Words)
      BY <3>1
    <3> QED BY <3>2 DEF Resolutions
  <2>3. CASE acc.detached
    <3>1. ResolveClangArg(env, acc, w) = [args |-> Append(acc.args, ResolvePath(env, w)), detached |-> FALSE]
      BY <2>3 DEF ResolveClangArg
    <3> QED BY <2>1, <2>2, <3>1
  <2>4. CASE ~acc.detached
    <3> DEFINE x == IF w.opt \in {"-I", "-isystem"} THEN ResolveJoined(env, w) ELSE Expand(env, w)
               b == w.opt \in {"-I", "-isystem"} /\ w.kind = "none"
    <3>1. ResolveClangArg(env, acc, w) = [args |-> Append(acc.args, x), detached |-> b]
      BY <2>4 DEF ResolveClangArg
    <3>2. x \in Words /\ b \in BOOLEAN
      BY <2>1
    <3> HIDE DEF x, b
    <3> QED BY <2>2, <3>1, <3>2
  <2> QED BY <2>3, <2>4
<1>2. ResolveStart \in Resolutions
  <2>1. <<>> \in Seq(Words)
    OBVIOUS
  <2> QED BY <2>1 DEF ResolveStart, Resolutions
<1> QED BY <1>1, <1>2 DEF IsFolding, Resolving

\* Resolution, as the fold of a function.
LEMMA ResolveIsFold ==
    ASSUME NEW env, Values(env), NEW s \in Seq(LineWords(env))
    PROVE  ResolveClangArgs(env, s) = FoldOf(Resolving(env), ResolveStart, s).args
<1> DEFINE n == Len(s)
           it == CHOOSE it : it = [T \in SUBSET DOMAIN s |->
                                      IF T = {} THEN ResolveStart ELSE ResolveClangArg(env, it[T \ {Max(T)}], s[Max(T)])]
<1>1. IsFolding(Resolving(env), ResolveStart, Resolutions, LineWords(env))
  BY ResolveType
<1>2. PICK g \in [SUBSET (1..n) -> Resolutions] : IsFold(g, Resolving(env), ResolveStart, s)
  BY <1>1, FoldExists
<1>3. FoldOf(Resolving(env), ResolveStart, s) = g[1..n]
  BY <1>2, FoldIs
<1>4. n \in Nat /\ DOMAIN s = 1..n /\ \A i \in 1..n : s[i] \in LineWords(env)
  OBVIOUS
<1>5. ResolveClangArgs(env, s) = it[DOMAIN s].args
  BY DEF ResolveClangArgs, ResolveStart, FoldLeft, MapThenFoldSet
<1>6. ASSUME NEW T \in SUBSET (1..n), T # {}
      PROVE  g[T] = ResolveClangArg(env, g[T \ {Max(T)}], s[Max(T)])
  <2>1. Max(T) \in 1..n /\ s[Max(T)] \in LineWords(env) /\ g[T \ {Max(T)}] \in Resolutions
    BY <1>4, <1>6, LastPlace
  <2>2. g[T] = Resolving(env)[<<g[T \ {Max(T)}], s[Max(T)]>>]
    BY <1>2, <1>6 DEF IsFold
  <2> QED BY <2>1, <2>2, ResolveType
<1>7. g[{}] = ResolveStart /\ {} \in SUBSET (1..n)
  BY <1>2 DEF IsFold
<1>8. g = [T \in SUBSET DOMAIN s |-> IF T = {} THEN ResolveStart ELSE ResolveClangArg(env, g[T \ {Max(T)}], s[Max(T)])]
  BY <1>4, <1>6, <1>7
<1>9. it = [T \in SUBSET DOMAIN s |-> IF T = {} THEN ResolveStart ELSE ResolveClangArg(env, it[T \ {Max(T)}], s[Max(T)])]
  BY <1>8
<1> HIDE DEF it
<1>10. SameStep(it, g, n)
  <2>1. it[{}] = g[{}]
    BY <1>4, <1>7, <1>9
  <2>2. ASSUME NEW T \in SUBSET (1..n), T # {}, it[T \ {Max(T)}] = g[T \ {Max(T)}]
        PROVE  it[T] = g[T]
    BY <1>4, <1>6, <1>9, <2>2
  <2> QED BY <2>1, <2>2 DEF SameStep
<1>11. it[1..n] = g[1..n]
  BY <1>4, <1>10, SameFold
<1> QED BY <1>3, <1>4, <1>5, <1>11

(***************************************************************************)
(* The directories that are added                                          *)
(***************************************************************************)

Lines == Seq(Words)
Dirs == Seq(Texts)
AddAll(line, dirs) == FoldLeft(AddIncludeIfMissing, line, dirs)
Adding == [p \in Lines \X Dirs |-> AddIncludeIfMissing(p[1], p[2])]

\* Adding is the fold of a function.
LEMMA AddType ==
    ASSUME NEW line \in Lines
    PROVE  /\ IsFolding(Adding, line, Lines, Dirs)
           /\ \A acc \in Lines, dir \in Dirs :
                 Adding[<<acc, dir>>] = AddIncludeIfMissing(acc, dir)
<1>1. ASSUME NEW acc \in Lines, NEW dir \in Dirs
      PROVE  AddIncludeIfMissing(acc, dir) \in Lines
  <2>1. "-I" \in Texts /\ "abs" \in Kinds
    BY TextsAssumption DEF Kinds
  <2>2. Word("-I", "abs", dir) \in Words
    BY <2>1 DEF Word, Words, Dirs
  <2> QED BY <2>2 DEF AddIncludeIfMissing, Lines
<1> QED BY <1>1 DEF IsFolding, Adding

\* Adding, as the fold of a function.
LEMMA AddIsFold ==
    ASSUME NEW line \in Lines, NEW s \in Seq(Dirs)
    PROVE  AddAll(line, s) = FoldOf(Adding, line, s)
<1> DEFINE n == Len(s)
           it == CHOOSE it : it = [T \in SUBSET DOMAIN s |->
                                      IF T = {} THEN line ELSE AddIncludeIfMissing(it[T \ {Max(T)}], s[Max(T)])]
<1>1. IsFolding(Adding, line, Lines, Dirs)
  BY AddType
<1>2. PICK g \in [SUBSET (1..n) -> Lines] : IsFold(g, Adding, line, s)
  BY <1>1, FoldExists
<1>3. FoldOf(Adding, line, s) = g[1..n]
  BY <1>2, FoldIs
<1>4. n \in Nat /\ DOMAIN s = 1..n /\ \A i \in 1..n : s[i] \in Dirs
  OBVIOUS
<1>5. AddAll(line, s) = it[DOMAIN s]
  BY DEF AddAll, FoldLeft, MapThenFoldSet
<1>6. ASSUME NEW T \in SUBSET (1..n), T # {}
      PROVE  g[T] = AddIncludeIfMissing(g[T \ {Max(T)}], s[Max(T)])
  <2>1. Max(T) \in 1..n /\ s[Max(T)] \in Dirs /\ g[T \ {Max(T)}] \in Lines
    BY <1>4, <1>6, LastPlace
  <2>2. g[T] = Adding[<<g[T \ {Max(T)}], s[Max(T)]>>]
    BY <1>2, <1>6 DEF IsFold
  <2> QED BY <2>1, <2>2, AddType
<1>7. g[{}] = line /\ {} \in SUBSET (1..n)
  BY <1>2 DEF IsFold
<1>8. g = [T \in SUBSET DOMAIN s |-> IF T = {} THEN line ELSE AddIncludeIfMissing(g[T \ {Max(T)}], s[Max(T)])]
  BY <1>4, <1>6, <1>7
<1>9. it = [T \in SUBSET DOMAIN s |-> IF T = {} THEN line ELSE AddIncludeIfMissing(it[T \ {Max(T)}], s[Max(T)])]
  BY <1>8
<1> HIDE DEF it
<1>10. SameStep(it, g, n)
  <2>1. it[{}] = g[{}]
    BY <1>4, <1>7, <1>9
  <2>2. ASSUME NEW T \in SUBSET (1..n), T # {}, it[T \ {Max(T)}] = g[T \ {Max(T)}]
        PROVE  it[T] = g[T]
    BY <1>4, <1>6, <1>9, <2>2
  <2> QED BY <2>1, <2>2 DEF SameStep
<1>11. it[1..n] = g[1..n]
  BY <1>4, <1>10, SameFold
<1> QED BY <1>3, <1>4, <1>5, <1>11

\* The scan, one word after the other.
LEMMA ScanOneMore ==
    ASSUME NEW dir
    PROVE  /\ FoldOf(Scanning(dir), ScanStart, <<>>) = ScanStart
           /\ \A s \in Seq(Words), w \in Words :
                 /\ FoldOf(Scanning(dir), ScanStart, s) \in Scans
                 /\ FoldOf(Scanning(dir), ScanStart, Append(s, w)) = ScanArg(dir, FoldOf(Scanning(dir), ScanStart, s), w)
<1>1. IsFolding(Scanning(dir), ScanStart, Scans, Words)
  BY ScanType
<1>2. FoldOf(Scanning(dir), ScanStart, <<>>) = ScanStart
  BY <1>1, FoldOfNothing
<1>3. ASSUME NEW s \in Seq(Words), NEW w \in Words
      PROVE  /\ FoldOf(Scanning(dir), ScanStart, s) \in Scans
             /\ FoldOf(Scanning(dir), ScanStart, Append(s, w)) = ScanArg(dir, FoldOf(Scanning(dir), ScanStart, s), w)
  <2>1. /\ FoldOf(Scanning(dir), ScanStart, s) \in Scans
        /\ FoldOf(Scanning(dir), ScanStart, Append(s, w)) = Scanning(dir)[<<FoldOf(Scanning(dir), ScanStart, s), w>>]
    BY <1>1, FoldOfOneMore
  <2> QED BY <2>1, ScanType
<1> QED BY <1>2, <1>3

\* Resolution, one word after the other.
LEMMA ResolveOneMore ==
    ASSUME NEW env, Values(env)
    PROVE  /\ FoldOf(Resolving(env), ResolveStart, <<>>) = ResolveStart
           /\ \A s \in Seq(LineWords(env)), w \in LineWords(env) :
                 /\ FoldOf(Resolving(env), ResolveStart, s) \in Resolutions
                 /\ FoldOf(Resolving(env), ResolveStart, Append(s, w)) = ResolveClangArg(env, FoldOf(Resolving(env), ResolveStart, s), w)
<1>1. IsFolding(Resolving(env), ResolveStart, Resolutions, LineWords(env))
  BY ResolveType
<1>2. FoldOf(Resolving(env), ResolveStart, <<>>) = ResolveStart
  BY <1>1, FoldOfNothing
<1>3. ASSUME NEW s \in Seq(LineWords(env)), NEW w \in LineWords(env)
      PROVE  /\ FoldOf(Resolving(env), ResolveStart, s) \in Resolutions
             /\ FoldOf(Resolving(env), ResolveStart, Append(s, w)) = ResolveClangArg(env, FoldOf(Resolving(env), ResolveStart, s), w)
  <2>1. /\ FoldOf(Resolving(env), ResolveStart, s) \in Resolutions
        /\ FoldOf(Resolving(env), ResolveStart, Append(s, w)) = Resolving(env)[<<FoldOf(Resolving(env), ResolveStart, s), w>>]
    BY <1>1, FoldOfOneMore
  <2> QED BY <2>1, ResolveType
<1> QED BY <1>2, <1>3

\* Adding, one word after the other.
LEMMA AddOneMore ==
    ASSUME NEW line \in Lines
    PROVE  /\ FoldOf(Adding, line, <<>>) = line
           /\ \A s \in Seq(Dirs), w \in Dirs :
                 /\ FoldOf(Adding, line, s) \in Lines
                 /\ FoldOf(Adding, line, Append(s, w)) = AddIncludeIfMissing(FoldOf(Adding, line, s), w)
<1>1. IsFolding(Adding, line, Lines, Dirs)
  BY AddType
<1>2. FoldOf(Adding, line, <<>>) = line
  BY <1>1, FoldOfNothing
<1>3. ASSUME NEW s \in Seq(Dirs), NEW w \in Dirs
      PROVE  /\ FoldOf(Adding, line, s) \in Lines
             /\ FoldOf(Adding, line, Append(s, w)) = AddIncludeIfMissing(FoldOf(Adding, line, s), w)
  <2>1. /\ FoldOf(Adding, line, s) \in Lines
        /\ FoldOf(Adding, line, Append(s, w)) = Adding[<<FoldOf(Adding, line, s), w>>]
    BY <1>1, FoldOfOneMore
  <2> QED BY <2>1, AddType
<1> QED BY <1>2, <1>3

\* What resolution has made of the first words.
Resolved(env, raw, k) == FoldOf(Resolving(env), ResolveStart, SubSeq(raw, 1, k))

\* What becomes of a word, when it follows an include option that stands alone
\* or not.
Becomes(env, w, detached) ==
    IF detached THEN ResolvePath(env, w)
    ELSE IF IsInclude(w) THEN ResolveJoined(env, w) ELSE Expand(env, w)

\* Resolution changes words where they are.
LEMMA ResolvedWords ==
    ASSUME NEW env, Values(env), NEW raw \in Seq(LineWords(env))
    PROVE  /\ ResolveClangArgs(env, raw) \in Seq(Words)
           /\ Len(ResolveClangArgs(env, raw)) = Len(raw)
           /\ Resolved(env, raw, 0).detached = FALSE
           /\ \A k \in 1..Len(raw) :
                 /\ ResolveClangArgs(env, raw)[k]
                        = Becomes(env, raw[k], Resolved(env, raw, k - 1).detached)
                 /\ Resolved(env, raw, k).detached
                        = (~Resolved(env, raw, k - 1).detached /\ IsInclude(raw[k]) /\ raw[k].kind = "none")
<1> DEFINE n == Len(raw)
           R(k) == Resolved(env, raw, k)
           S == {k \in 0..n : /\ R(k) \in Resolutions /\ Len(R(k).args) = k
                              /\ \A i \in 1..k : R(k).args[i] = Becomes(env, raw[i], R(i - 1).detached)}
<1>1. n \in Nat /\ DOMAIN raw = 1..n /\ SubSeq(raw, 1, n) = raw /\ SubSeq(raw, 1, 0) = <<>>
  BY PrefixFacts
<1>2. R(0) = ResolveStart
  BY <1>1, ResolveOneMore DEF Resolved
<1>3. ResolveStart \in Resolutions
  BY ResolveType DEF IsFolding
<1>4. ASSUME NEW k \in 0..(n - 1)
      PROVE  /\ k + 1 \in 1..n /\ raw[k + 1] \in LineWords(env)
             /\ R(k) \in Resolutions
             /\ R(k + 1).args = Append(R(k).args, Becomes(env, raw[k + 1], R(k).detached))
             /\ R(k + 1).detached =
                    (~R(k).detached /\ IsInclude(raw[k + 1]) /\ raw[k + 1].kind = "none")
  <2>1. /\ k + 1 \in 1..n /\ k \in 0..n /\ raw[k + 1] \in LineWords(env)
        /\ SubSeq(raw, 1, k) \in Seq(LineWords(env))
        /\ SubSeq(raw, 1, k + 1) = Append(SubSeq(raw, 1, k), raw[k + 1])
    BY <1>1, PrefixFacts
  <2>2. R(k) \in Resolutions /\ R(k + 1) = ResolveClangArg(env, R(k), raw[k + 1])
    BY <2>1, ResolveOneMore DEF Resolved
  <2>3. R(k).detached \in BOOLEAN
    BY <2>2 DEF Resolutions
  <2> HIDE DEF R
  <2>4. CASE R(k).detached
    <3>1. ResolveClangArg(env, R(k), raw[k + 1]) =
              [args |-> Append(R(k).args, ResolvePath(env, raw[k + 1])), detached |-> FALSE]
      BY <2>4 DEF ResolveClangArg
    <3>2. (~R(k).detached /\ IsInclude(raw[k + 1]) /\ raw[k + 1].kind = "none") = FALSE
      BY <2>4
    <3>3. Becomes(env, raw[k + 1], R(k).detached) = ResolvePath(env, raw[k + 1])
      BY <2>4 DEF Becomes
    <3>4. /\ R(k + 1).args = Append(R(k).args, ResolvePath(env, raw[k + 1]))
          /\ R(k + 1).detached = FALSE
      BY <2>2, <3>1
    <3> QED BY <2>1, <2>2, <3>2, <3>3, <3>4
  <2>5. CASE ~R(k).detached
    <3> DEFINE w == raw[k + 1]
    <3>1. ResolveClangArg(env, R(k), w) =
              [args |-> Append(R(k).args, IF IsInclude(w) THEN ResolveJoined(env, w) ELSE Expand(env, w)),
               detached |-> IsInclude(w) /\ w.kind = "none"]
      BY <2>5 DEF ResolveClangArg, IsInclude
    <3>2. (~R(k).detached /\ IsInclude(w) /\ w.kind = "none") = (IsInclude(w) /\ w.kind = "none")
      BY <2>5 DEF IsInclude
    <3>3. Becomes(env, w, R(k).detached) = IF IsInclude(w) THEN ResolveJoined(env, w) ELSE Expand(env, w)
      BY <2>5 DEF Becomes
    <3>4. /\ R(k + 1).args = Append(R(k).args, IF IsInclude(w) THEN ResolveJoined(env, w) ELSE Expand(env, w))
          /\ R(k + 1).detached = (IsInclude(w) /\ w.kind = "none")
      BY <2>2, <3>1
    <3> QED BY <2>1, <2>2, <3>2, <3>3, <3>4
  <2> QED BY <2>3, <2>4, <2>5
<1> HIDE DEF R
<1>5. 0 \in S
  <2>1. R(0).args = <<>>
    BY <1>2 DEF ResolveStart
  <2> QED BY <1>1, <1>2, <1>3, <2>1
<1>6. ASSUME NEW k \in 0..(n - 1), k \in S PROVE k + 1 \in S
  <2> DEFINE x == Becomes(env, raw[k + 1], R(k).detached)
  <2>1. R(k).args \in Seq(Words) /\ Len(R(k).args) = k /\ k \in Nat /\ k + 1 \in 0..n
    BY <1>1, <1>6 DEF Resolutions
  <2>2. R(k + 1).args = Append(R(k).args, x)
    BY <1>4
  <2>3. R(k + 1) \in Resolutions
    <3>1. CASE k + 1 \in 0..(n - 1)
      BY <1>4, <3>1
    <3>2. CASE k + 1 = n
      <4>1. /\ k \in 0..n /\ raw[k + 1] \in LineWords(env) /\ SubSeq(raw, 1, k) \in Seq(LineWords(env))
            /\ SubSeq(raw, 1, k + 1) = Append(SubSeq(raw, 1, k), raw[k + 1])
        BY <1>1, PrefixFacts
      <4>2. SubSeq(raw, 1, k + 1) \in Seq(LineWords(env))
        BY <4>1
      <4>3. R(k + 1) \in Resolutions
        BY <4>1, <4>2, ResolveOneMore DEF R, Resolved
      <4> QED BY <4>3
    <3>3. k + 1 \in 0..(n - 1) \/ k + 1 = n
      <4> HIDE DEF n
      <4> QED BY <1>1, <2>1
    <3> QED BY <3>1, <3>2, <3>3
  <2>4. Len(R(k + 1).args) = k + 1 /\ R(k + 1).args[k + 1] = x
        /\ \A i \in 1..k : R(k + 1).args[i] = R(k).args[i]
    <3> DEFINE s == R(k).args
    <3>1. s \in Seq(Words) /\ Len(s) = k
      BY <2>1
    <3> HIDE DEF x, s
    <3>2. Len(Append(s, x)) = k + 1 /\ Append(s, x)[k + 1] = x
          /\ \A i \in 1..k : Append(s, x)[i] = s[i]
      BY <2>1, <3>1
    <3> QED BY <2>2, <3>2 DEF s
  <2>5. ASSUME NEW i \in 1..(k + 1)
        PROVE  R(k + 1).args[i] = Becomes(env, raw[i], R(i - 1).detached)
    <3>1. CASE i = k + 1
      <4>1. i - 1 = k
        BY <2>1, <3>1
      <4> QED BY <2>4, <3>1, <4>1
    <3>2. CASE i # k + 1
      <4>1. i \in 1..k
        BY <2>1, <3>2
      <4> QED BY <1>6, <2>4, <4>1
    <3> QED BY <3>1, <3>2
  <2> QED BY <2>1, <2>3, <2>4, <2>5
<1>7. n \in S
  <2> HIDE DEF S, n
  <2>1. \A k \in 0..n : k \in S
    BY <1>1, <1>5, <1>6, UpTo
  <2> QED BY <1>1, <2>1
<1>8. ResolveClangArgs(env, raw) = R(n).args
  BY <1>1, ResolveIsFold DEF R, Resolved
<1>9. R(0).detached = FALSE
  BY <1>2 DEF ResolveStart
<1>10. ASSUME NEW k \in 1..n
       PROVE  R(k).detached = (~R(k - 1).detached /\ IsInclude(raw[k]) /\ raw[k].kind = "none")
  <2>1. k - 1 \in 0..(n - 1) /\ (k - 1) + 1 = k
    BY <1>1
  <2>2. R((k - 1) + 1).detached = (~R(k - 1).detached /\ IsInclude(raw[(k - 1) + 1]) /\ raw[(k - 1) + 1].kind = "none")
    BY <1>4, <2>1
  <2> QED BY <2>1, <2>2
<1>11. R(n).args \in Seq(Words) /\ Len(R(n).args) = n
       /\ \A i \in 1..n : R(n).args[i] = Becomes(env, raw[i], R(i - 1).detached)
  BY <1>7 DEF Resolutions
<1> QED BY <1>8, <1>9, <1>10, <1>11 DEF R

(***************************************************************************)
(* Plain arguments are resolved where they are                             *)
(***************************************************************************)

\* Where a path leads.
LEMMA PathAt ==
    ASSUME NEW dir, NEW w
    PROVE  /\ w.kind = "abs" => At(dir, w) = w.name
           /\ w.kind \notin {"abs", "src"} => At(dir, w) = dir \o w.name
BY DEF At

\* Plain arguments, in an environment.
Plain0(env, raw) ==
    /\ Values(env) /\ raw \in Seq(LineWords(env))
    /\ \A i \in DOMAIN raw :
          /\ raw[i].kind \in {"none", "rel", "abs", "var"}
          /\ raw[i].kind = "none" => raw[i].name = <<>> /\ raw[i].opt # ""
          /\ raw[i].opt = "-x" => raw[i].kind = "none"
          /\ raw[i].opt = "-std=" => raw[i].kind # "none"
          /\ raw[i].kind = "var" => /\ env[raw[i].name[1]].opt = ""
                                    /\ env[raw[i].name[1]].kind \in {"rel", "abs"}
          /\ i > 1 /\ raw[i - 1].kind = "none" => raw[i].opt = ""

\* A word that stands for its text, in an environment.
PlainWord(env, w) ==
    /\ w \in LineWords(env)
    /\ w.kind \in {"rel", "abs", "var"}
    /\ w.kind = "var" => env[w.name[1]].opt = "" /\ env[w.name[1]].kind \in {"rel", "abs"}

\* It expands to a path, after the same option.
LEMMA ExpandPlain ==
    ASSUME NEW env, Values(env), NEW w, PlainWord(env, w)
    PROVE  /\ Expand(env, w) \in Words /\ Expand(env, w).opt = w.opt
           /\ Expand(env, w).kind \in {"rel", "abs"}
<1>1. Expand(env, w) \in Words /\ w \in LineWords(env) /\ w \in Words
  BY ExpandType DEF PlainWord, LineWords
<1>2. CASE w.kind # "var"
  BY <1>1, <1>2 DEF Expand, PlainWord
<1>3. CASE w.kind = "var" /\ w.opt = ""
  BY <1>1, <1>3 DEF Expand, PlainWord
<1>4. CASE w.kind = "var" /\ w.opt # ""
  <2> DEFINE v == env[w.name[1]]
  <2>1. v \in Words /\ v.opt = "" /\ v.kind \in {"rel", "abs"}
    BY <1>1, <1>4 DEF PlainWord, LineWords, Values
  <2>2. Expand(env, w) = [v EXCEPT !.opt = w.opt]
    BY <1>4, <2>1 DEF Expand, AsText
  <2>3. \A t \in Words : [t EXCEPT !.opt = w.opt].opt = w.opt /\ [t EXCEPT !.opt = w.opt].kind = t.kind
    BY DEF Words
  <2> HIDE DEF v
  <2> QED BY <1>1, <2>1, <2>2, <2>3
<1> QED BY <1>2, <1>3, <1>4

\* A word in the place of a path is resolved from the configuration's directory.
LEMMA ResolvePathPlain ==
    ASSUME NEW env, Values(env), NEW w, PlainWord(env, w), w.opt = ""
    PROVE  ResolvePath(env, w) = Word("", "abs", At(Base, Expand(env, w)))
<1> DEFINE e == Expand(env, w)
<1>1. e \in Words /\ e.opt = "" /\ e.kind \in {"rel", "abs"}
  BY ExpandPlain
<1>2. ResolvePath(env, w) = IF e.kind \in {"none", "abs", "unset"} THEN e ELSE Word("", "abs", Base \o e.name)
  BY <1>1 DEF ResolvePath, AsText
<1> HIDE DEF e
<1>3. CASE e.kind = "abs"
  <2>1. e = Word("", "abs", e.name)
    BY <1>1, <1>3 DEF Words, Word
  <2> QED BY <1>2, <1>3, <2>1, PathAt DEF e
<1>4. CASE e.kind = "rel"
  BY <1>2, <1>4, PathAt DEF e
<1> QED BY <1>1, <1>3, <1>4

\* So is the path of an include option in the same word.
LEMMA ResolveJoinedPlain ==
    ASSUME NEW env, Values(env), NEW w, PlainWord(env, w)
    PROVE  ResolveJoined(env, w) = Word(w.opt, "abs", At(Base, Expand(env, w)))
<1> DEFINE v == [w EXCEPT !.opt = ""]
<1>1. w \in Words
  BY DEF PlainWord, LineWords
<1>2. v \in Words /\ v.kind = w.kind /\ v.name = w.name /\ v.opt = ""
  <2>1. v \in Words
    BY <1>1, TextIsWord
  <2> QED BY <1>1, <2>1 DEF Words
<1>3. PlainWord(env, v)
  <2> HIDE DEF v
  <2> QED BY <1>2 DEF LineWords, PlainWord
<1>4. ResolvePath(env, v) = Word("", "abs", At(Base, Expand(env, v)))
  BY <1>2, <1>3, ResolvePathPlain
<1>5. Expand(env, v).kind = Expand(env, w).kind /\ Expand(env, v).name = Expand(env, w).name
  <2>1. CASE w.kind # "var"
    BY <1>2, <2>1 DEF Expand
  <2>2. CASE w.kind = "var"
    <3> DEFINE x == env[w.name[1]]
    <3>1. x \in Words /\ x.opt = "" /\ x.kind \in {"rel", "abs"}
      BY <1>1, <2>2 DEF PlainWord, LineWords, Values
    <3>2. Expand(env, v) = x
      <4> HIDE DEF v
      <4> QED BY <1>2, <2>2 DEF Expand
    <3>3. CASE w.opt = ""
      BY <2>2, <3>2, <3>3 DEF Expand
    <3>4. CASE w.opt # ""
      <4>1. Expand(env, w) = [x EXCEPT !.opt = w.opt]
        BY <2>2, <3>1, <3>4 DEF Expand, AsText
      <4> QED BY <3>1, <3>2, <4>1 DEF Words
    <3> QED BY <3>3, <3>4
  <2> QED BY <2>1, <2>2
<1>6. At(Base, Expand(env, v)) = At(Base, Expand(env, w))
  <2>1. Expand(env, w).kind \in {"rel", "abs"}
    BY ExpandPlain
  <2> QED BY <1>5, <2>1, PathAt
<1>7. ResolveJoined(env, w) = [Word("", "abs", At(Base, Expand(env, w))) EXCEPT !.opt = w.opt]
  BY <1>4, <1>6 DEF ResolveJoined
<1> QED BY <1>7 DEF Word

\* An option that stands alone is left as it is.
LEMMA AloneStays ==
    ASSUME NEW env, NEW w \in LineWords(env), w.kind = "none", w.name = <<>>
    PROVE  /\ Expand(env, w) = w /\ w = Option(w.opt)
           /\ ResolveJoined(env, w) = w
<1>1. w \in Words
  BY DEF LineWords
<1>2. w = Option(w.opt)
  BY <1>1 DEF Words, Option, Word
<1>3. Expand(env, w) = w
  BY DEF Expand
<1> DEFINE v == [w EXCEPT !.opt = ""]
<1>4. v.opt = "" /\ v.kind = "none" /\ [v EXCEPT !.opt = w.opt] = w
  BY <1>1, <1>2 DEF Option, Word, Words
<1>5. Expand(env, v) = v
  <2> HIDE DEF v
  <2> QED BY <1>4 DEF Expand
<1>6. ResolvePath(env, v) = v
  <2> HIDE DEF v
  <2> QED BY <1>4, <1>5 DEF ResolvePath, AsText
<1> QED BY <1>2, <1>3, <1>4, <1>6 DEF ResolveJoined

\* What a word is, and what becomes of it, after an include that stands alone or not.
ResolvedTo(env, w, d, value) ==
    /\ w.kind = "none" => d = w /\ Expand(env, w) = w /\ w = Option(w.opt) /\ w.opt # ""
    /\ w.kind # "none" =>
          /\ PlainWord(env, w)
          /\ d = IF value \/ IsInclude(w) THEN Word(w.opt, "abs", At(Base, Expand(env, w)))
                 ELSE Expand(env, w)

\* What becomes of each word of plain arguments.
LEMMA PlainResolved ==
    ASSUME NEW env, NEW raw, Plain0(env, raw)
    PROVE  LET r == ResolveClangArgs(env, raw)
               Value(k) == k > 1 /\ IsInclude(raw[k - 1]) /\ raw[k - 1].kind = "none"
           IN  /\ r \in Seq(Words) /\ Len(r) = Len(raw) /\ DOMAIN raw = 1..Len(raw)
               /\ \A k \in DOMAIN raw : ResolvedTo(env, raw[k], r[k], Value(k))
<1> DEFINE r == ResolveClangArgs(env, raw)
           n == Len(raw)
           Value(k) == k > 1 /\ IsInclude(raw[k - 1]) /\ raw[k - 1].kind = "none"
           D(k) == Resolved(env, raw, k).detached
<1>1. /\ Values(env) /\ raw \in Seq(LineWords(env))
      /\ n \in Nat /\ DOMAIN raw = 1..n /\ \A k \in 1..n : raw[k] \in LineWords(env)
  <2>1. Values(env) /\ raw \in Seq(LineWords(env))
    BY DEF Plain0
  <2> QED BY <2>1
<1>2. /\ r \in Seq(Words) /\ Len(r) = n /\ D(0) = FALSE
      /\ \A k \in 1..n : /\ r[k] = Becomes(env, raw[k], D(k - 1))
                         /\ D(k) = (~D(k - 1) /\ IsInclude(raw[k]) /\ raw[k].kind = "none")
  BY <1>1, ResolvedWords
<1> HIDE DEF r, D
<1>3. ASSUME NEW k \in 1..n PROVE D(k) = (IsInclude(raw[k]) /\ raw[k].kind = "none")
  <2>1. CASE k = 1
    <3>1. k - 1 = 0
      BY <2>1
    <3> QED BY <1>2, <3>1
  <2>2. CASE k # 1
    <3>1. k - 1 \in 1..n /\ k > 1 /\ (k - 1) - 1 \in 0..n
      BY <1>1, <2>2
    <3>2. CASE raw[k - 1].kind = "none"
      <4>1. raw[k].opt = ""
        BY <1>1, <3>1, <3>2 DEF Plain0
      <4>2. ~IsInclude(raw[k])
        BY <4>1 DEF IsInclude
      <4> QED BY <1>2, <4>2
    <3>3. CASE raw[k - 1].kind # "none"
      <4>1. D(k - 1) = FALSE
        BY <1>2, <3>1, <3>3
      <4> QED BY <1>2, <4>1
    <3> QED BY <3>2, <3>3
  <2> QED BY <2>1, <2>2
<1>4. ASSUME NEW k \in 1..n PROVE D(k - 1) = Value(k)
  <2>1. CASE k = 1
    <3>1. k - 1 = 0 /\ Value(k) = FALSE
      BY <2>1
    <3> HIDE DEF Value
    <3> QED BY <1>2, <3>1
  <2>2. CASE k # 1
    <3>1. k - 1 \in 1..n /\ k > 1
      BY <1>1, <2>2
    <3> QED BY <1>3, <3>1
  <2> QED BY <2>1, <2>2
<1>5. ASSUME NEW k \in 1..n, raw[k].kind = "none"
      PROVE  /\ r[k] = raw[k] /\ Expand(env, raw[k]) = raw[k]
             /\ raw[k] = Option(raw[k].opt) /\ raw[k].opt # ""
  <2>1. raw[k].name = <<>> /\ raw[k].opt # ""
    BY <1>1, <1>5 DEF Plain0
  <2>2. /\ Expand(env, raw[k]) = raw[k] /\ raw[k] = Option(raw[k].opt)
        /\ ResolveJoined(env, raw[k]) = raw[k]
    BY <1>1, <1>5, <2>1, AloneStays
  <2>3. ~Value(k)
    BY <1>1, <2>1 DEF Plain0
  <2>4. r[k] = Becomes(env, raw[k], FALSE)
    BY <1>2, <1>4, <2>3
  <2> QED BY <2>1, <2>2, <2>4 DEF Becomes
<1>6. ASSUME NEW k \in 1..n, raw[k].kind # "none"
      PROVE  /\ PlainWord(env, raw[k])
             /\ r[k] = IF Value(k) \/ IsInclude(raw[k])
                       THEN Word(raw[k].opt, "abs", At(Base, Expand(env, raw[k])))
                       ELSE Expand(env, raw[k])
  <2>1. PlainWord(env, raw[k])
    BY <1>1, <1>6 DEF Plain0, PlainWord
  <2>2. CASE Value(k)
    <3>1. raw[k].opt = ""
      BY <1>1, <2>2 DEF Plain0
    <3>2. r[k] = ResolvePath(env, raw[k])
      BY <1>2, <1>4, <2>2 DEF Becomes
    <3> QED BY <1>1, <2>1, <2>2, <3>1, <3>2, ResolvePathPlain
  <2>3. CASE ~Value(k)
    <3>1. r[k] = IF IsInclude(raw[k]) THEN ResolveJoined(env, raw[k]) ELSE Expand(env, raw[k])
      BY <1>2, <1>4, <2>3 DEF Becomes
    <3> QED BY <1>1, <2>1, <2>3, <3>1, ResolveJoinedPlain
  <2> QED BY <2>1, <2>2, <2>3
<1>7. ASSUME NEW k \in 1..n PROVE ResolvedTo(env, raw[k], r[k], Value(k))
  <2> HIDE DEF Value
  <2> QED BY <1>5, <1>6 DEF ResolvedTo
<1> QED BY <1>1, <1>2, <1>7 DEF r

(***************************************************************************)
(* What is read of arguments before and after resolution                   *)
(***************************************************************************)

\* A sequence with one element more.
LEMMA AppendFacts ==
    ASSUME NEW S, NEW s \in Seq(S), NEW x \in S
    PROVE  /\ Append(s, x) \in Seq(S) /\ Len(s) \in Nat /\ Len(Append(s, x)) = Len(s) + 1
           /\ DOMAIN s = 1..Len(s) /\ DOMAIN Append(s, x) = 1..(Len(s) + 1)
           /\ Append(s, x)[Len(s) + 1] = x
           /\ \A i \in 1..Len(s) : Append(s, x)[i] = s[i]
OBVIOUS

\* What is taken for an option, field by field.
Taken(acc, opt, text, t) ==
    /\ t.open = acc.open
    /\ t.dirs = IF opt = "-I" THEN Append(acc.dirs, text) ELSE acc.dirs
    /\ t.systemDirs = IF opt = "-isystem" THEN Append(acc.systemDirs, text) ELSE acc.systemDirs
    /\ t.libraryDirs = IF opt = "-L" THEN Append(acc.libraryDirs, text) ELSE acc.libraryDirs
    /\ t.defines = IF opt = "-D" THEN Append(acc.defines, text) ELSE acc.defines
    /\ t.language = IF opt = "-x" THEN text ELSE acc.language
    /\ t.standard = IF opt = "-std=" THEN text ELSE acc.standard
    /\ t.files = IF opt \in {"-I", "-isystem", "-L", "-D", "-x", "-std="} THEN acc.files
                 ELSE Append(acc.files, text)

\* That is what is taken.
LEMMA TakeFields ==
    ASSUME NEW acc \in Accumulators, NEW opt, NEW text
    PROVE  Taken(acc, opt, text, Take(acc, opt, text))
<1> USE DEF Taken
<1>1. CASE opt = "-I"
  BY <1>1 DEF Take, Accumulators
<1>2. CASE opt = "-isystem"
  BY <1>2 DEF Take, Accumulators
<1>3. CASE opt = "-L"
  BY <1>3 DEF Take, Accumulators
<1>4. CASE opt = "-D"
  BY <1>4 DEF Take, Accumulators
<1>5. CASE opt = "-x"
  BY <1>5 DEF Take, Accumulators
<1>6. CASE opt = "-std="
  BY <1>6 DEF Take, Accumulators
<1>7. CASE opt \notin {"-I", "-isystem", "-L", "-D", "-x", "-std="}
  BY <1>7 DEF Take, Accumulators
<1> QED BY <1>1, <1>2, <1>3, <1>4, <1>5, <1>6, <1>7

\* What is read, with an option open.
WithOpen(acc, opt) == [acc EXCEPT !.open = opt]

\* A word is read: it opens an option, or is taken for one.
LEMMA ReadWordCases ==
    ASSUME NEW acc \in Accumulators, NEW w \in Words
    PROVE  /\ acc.open # "" /\ w.opt = "" =>
                  ReadWord(acc, w) = WithOpen(Take(acc, acc.open, w), "")
           /\ acc.open = "" /\ w.kind = "none" => ReadWord(acc, w) = WithOpen(acc, w.opt)
           /\ acc.open = "" /\ w.kind # "none" =>
                  /\ ReadWord(acc, w) = Take(acc, w.opt, ValueOf(w))
                  /\ w.opt \in {"-I", "-isystem", "-L", "-D", "-x", "-std="} =>
                         ReadWord(acc, w) = Take(acc, w.opt, [w EXCEPT !.opt = ""])
BY DEF ReadWord, AsText, WithOpen, ValueOf

\* Directories that are absolute and lead where others lead from the configuration.
Reaches(d, e) == d = Word("", "abs", At(Base, e))

SamePlaces(ds, es) ==
    /\ Len(ds) = Len(es)
    /\ \A i \in 1..Len(es) : Reaches(ds[i], es[i])

\* What is read of the resolved arguments, and of those the configuration means.
Alike(a, m) ==
    /\ a \in Accumulators /\ m \in Accumulators
    /\ a.open = m.open /\ a.files = m.files /\ a.defines = m.defines
    /\ a.language = m.language /\ a.standard = m.standard
    /\ SamePlaces(a.dirs, m.dirs) /\ SamePlaces(a.systemDirs, m.systemDirs)

\* One place more on each side.
LEMMA SamePlacesOneMore ==
    ASSUME NEW ds \in Seq(Words), NEW es \in Seq(Words), SamePlaces(ds, es), NEW e \in Words,
           NEW d \in Words, Reaches(d, e)
    PROVE  SamePlaces(Append(ds, d), Append(es, e))
<1> DEFINE n == Len(es)
<1>0. n \in Nat /\ Len(ds) = n
  BY DEF SamePlaces
<1>1. /\ Len(Append(es, e)) = n + 1 /\ Append(es, e)[n + 1] = e
      /\ \A i \in 1..n : Append(es, e)[i] = es[i]
  BY AppendFacts
<1>2. /\ Len(Append(ds, d)) = n + 1 /\ Append(ds, d)[n + 1] = d
      /\ \A i \in 1..n : Append(ds, d)[i] = ds[i]
  BY <1>0, AppendFacts
<1>3. \A i \in 1..n : Reaches(ds[i], es[i])
  BY DEF SamePlaces
<1> HIDE DEF n
<1>4. ASSUME NEW i \in 1..(n + 1)
      PROVE  Reaches(Append(ds, d)[i], Append(es, e)[i])
  <2>1. CASE i = n + 1
    BY <1>1, <1>2, <2>1
  <2>2. CASE i # n + 1
    <3>1. i \in 1..n
      BY <1>0, <2>2
    <3> QED BY <1>1, <1>2, <1>3, <3>1
  <2> QED BY <2>1, <2>2
<1> QED BY <1>1, <1>2, <1>4 DEF SamePlaces

\* The same option is taken with texts that mean the same.
LEMMA TakeAlike ==
    ASSUME NEW a, NEW m, Alike(a, m), NEW opt \in Texts, NEW e \in Words, NEW d \in Words,
           IF opt \in {"-I", "-isystem"} THEN Reaches(d, e) ELSE d = e
    PROVE  Alike(Take(a, opt, d), Take(m, opt, e))
<1> DEFINE ta == Take(a, opt, d)
           tm == Take(m, opt, e)
<1>1. a \in Accumulators /\ m \in Accumulators
  BY DEF Alike
<1>2. ta \in Accumulators /\ tm \in Accumulators
  BY <1>1, TakeType
<1>3. /\ a.dirs \in Seq(Words) /\ m.dirs \in Seq(Words)
      /\ a.systemDirs \in Seq(Words) /\ m.systemDirs \in Seq(Words)
  BY <1>1 DEF Accumulators
<1>4. Taken(a, opt, d, ta) /\ Taken(m, opt, e, tm)
  BY <1>1, TakeFields
<1> HIDE DEF ta, tm
<1>7. /\ a.open = m.open /\ a.files = m.files /\ a.defines = m.defines
      /\ a.language = m.language /\ a.standard = m.standard
      /\ SamePlaces(a.dirs, m.dirs) /\ SamePlaces(a.systemDirs, m.systemDirs)
  BY DEF Alike
<1>8. SamePlaces(ta.dirs, tm.dirs) /\ SamePlaces(ta.systemDirs, tm.systemDirs)
  <2>1. opt = "-I" => SamePlaces(Append(a.dirs, d), Append(m.dirs, e))
    BY <1>3, <1>7, SamePlacesOneMore
  <2>2. opt = "-isystem" => SamePlaces(Append(a.systemDirs, d), Append(m.systemDirs, e))
    BY <1>3, <1>7, SamePlacesOneMore
  <2> QED BY <1>4, <1>7, <2>1, <2>2 DEF Taken
<1>9. /\ ta.open = tm.open /\ ta.files = tm.files /\ ta.defines = tm.defines
      /\ ta.language = tm.language /\ ta.standard = tm.standard
  BY <1>4, <1>7 DEF Taken
<1> QED BY <1>2, <1>8, <1>9 DEF Alike, ta, tm

\* An option is opened, or closed, in both.
LEMMA OpenAlike ==
    ASSUME NEW a, NEW m, Alike(a, m), NEW opt \in Texts
    PROVE  Alike(WithOpen(a, opt), WithOpen(m, opt))
<1>1. a \in Accumulators /\ m \in Accumulators
  BY DEF Alike
<1>2. WithOpen(a, opt) \in Accumulators /\ WithOpen(m, opt) \in Accumulators
      /\ WithOpen(a, opt).open = opt /\ WithOpen(m, opt).open = opt
  BY <1>1 DEF Accumulators, WithOpen
<1>3. \A c \in Accumulators :
         LET b == WithOpen(c, opt) IN
         /\ b.files = c.files /\ b.defines = c.defines /\ b.language = c.language
         /\ b.standard = c.standard /\ b.dirs = c.dirs /\ b.systemDirs = c.systemDirs
  BY DEF Accumulators, WithOpen
<1> QED BY <1>1, <1>2, <1>3 DEF Alike

\* The language, and the standard, are set when an option has set them.
IsLanguageFlag(w) == w = Option("-x")
IsStandardFlag(w) == w.opt = "-std="
Nothing == Option("")

LanguageSet(m) == m.language # Nothing \/ m.open = "-x"
StandardSet(m) == m.standard # Nothing \/ m.open = "-std="

\* An option that stands alone is read.
LEMMA AloneAlike ==
    ASSUME NEW a, NEW m, Alike(a, m), m.open = "", NEW w \in Words, w.kind = "none", w.name = <<>>
    PROVE  /\ Alike(ReadWord(a, w), ReadWord(m, w))
           /\ ReadWord(m, w).open = w.opt
           /\ LanguageSet(ReadWord(m, w)) <=> LanguageSet(m) \/ IsLanguageFlag(w)
           /\ StandardSet(ReadWord(m, w)) <=> StandardSet(m) \/ IsStandardFlag(w)
<1>1. a \in Accumulators /\ m \in Accumulators /\ a.open = "" /\ w.opt \in Texts
  BY DEF Alike, Words
<1>2. ReadWord(a, w) = WithOpen(a, w.opt) /\ ReadWord(m, w) = WithOpen(m, w.opt)
  BY <1>1, ReadWordCases
<1>3. Alike(ReadWord(a, w), ReadWord(m, w))
  BY <1>1, <1>2, OpenAlike
<1>4. /\ ReadWord(m, w).open = w.opt /\ ReadWord(m, w).language = m.language
      /\ ReadWord(m, w).standard = m.standard
  BY <1>1, <1>2 DEF Accumulators, WithOpen
<1>5. IsLanguageFlag(w) <=> w.opt = "-x"
  <2>1. w = [opt |-> w.opt, kind |-> "none", name |-> <<>>]
    BY DEF Words
  <2>2. IsLanguageFlag(w) <=> w = [opt |-> "-x", kind |-> "none", name |-> <<>>]
    BY DEF IsLanguageFlag, Option, Word
  <2>3. CASE w.opt = "-x"
    <3>1. w = [opt |-> "-x", kind |-> "none", name |-> <<>>]
      BY <2>1, <2>3
    <3> QED BY <2>2, <2>3, <3>1
  <2>4. CASE w.opt # "-x"
    <3>1. [opt |-> "-x", kind |-> "none", name |-> <<>>].opt = "-x"
      OBVIOUS
    <3> QED BY <2>2, <2>4, <3>1
  <2> QED BY <2>3, <2>4
<1> QED BY <1>3, <1>4, <1>5 DEF LanguageSet, StandardSet, IsStandardFlag

\* The word after an option is read.
LEMMA ValueAlike ==
    ASSUME NEW a, NEW m, Alike(a, m), m.open # "", NEW e \in Words, e.opt = "", e.kind \in {"rel", "abs"},
           NEW d \in Words, d.opt = "",
           IF m.open \in {"-I", "-isystem"} THEN Reaches(d, e) ELSE d = e
    PROVE  /\ Alike(ReadWord(a, d), ReadWord(m, e))
           /\ ReadWord(m, e).open = ""
           /\ LanguageSet(ReadWord(m, e)) <=> LanguageSet(m)
           /\ StandardSet(ReadWord(m, e)) <=> StandardSet(m)
<1> DEFINE ta == Take(a, m.open, d)
           tm == Take(m, m.open, e)
<1>1. a \in Accumulators /\ m \in Accumulators /\ a.open = m.open /\ m.open \in Texts /\ "" \in Texts
  BY TextsAssumption DEF Alike, Accumulators
<1>2. ReadWord(a, d) = WithOpen(ta, "") /\ ReadWord(m, e) = WithOpen(tm, "")
  BY <1>1, ReadWordCases
<1>3. Alike(ta, tm)
  BY <1>1, TakeAlike
<1>4. Alike(ReadWord(a, d), ReadWord(m, e))
  <2> HIDE DEF ta, tm
  <2> QED BY <1>1, <1>2, <1>3, OpenAlike
<1>5. Taken(m, m.open, e, tm) /\ e # Nothing
  <2>1. Taken(m, m.open, e, tm)
    BY <1>1, TakeFields
  <2>2. e # Nothing
    <3>1. Nothing.kind = "none"
      BY DEF Nothing, Option, Word
    <3> QED BY <3>1
  <2> QED BY <2>1, <2>2
<1>6. tm \in Accumulators
  BY <1>3 DEF Alike
<1> HIDE DEF ta, tm
<1>7. /\ ReadWord(m, e).open = "" /\ ReadWord(m, e).language = tm.language
      /\ ReadWord(m, e).standard = tm.standard
  BY <1>2, <1>6 DEF Accumulators, WithOpen
<1>8. /\ tm.language = (IF m.open = "-x" THEN e ELSE m.language)
      /\ tm.standard = (IF m.open = "-std=" THEN e ELSE m.standard)
  BY <1>5 DEF Taken
<1>9. LanguageSet(ReadWord(m, e)) <=> LanguageSet(m)
  BY <1>5, <1>7, <1>8 DEF LanguageSet
<1>10. StandardSet(ReadWord(m, e)) <=> StandardSet(m)
  BY <1>5, <1>7, <1>8 DEF StandardSet
<1> QED BY <1>4, <1>7, <1>9, <1>10

\* A word with an option and its text, or a text by itself, is read.
LEMMA JoinedAlike ==
    ASSUME NEW a, NEW m, Alike(a, m), m.open = "", NEW e \in Words, e.opt # "-x", e.kind \in {"rel", "abs"},
           NEW d \in Words, d.kind \in {"rel", "abs"}, d.opt = e.opt,
           IF e.opt \in {"-I", "-isystem"} THEN d.kind = "abs" /\ d.name = At(Base, e) ELSE d = e
    PROVE  /\ Alike(ReadWord(a, d), ReadWord(m, e))
           /\ ReadWord(m, e).open = ""
           /\ LanguageSet(ReadWord(m, e)) <=> LanguageSet(m)
           /\ StandardSet(ReadWord(m, e)) <=> StandardSet(m) \/ IsStandardFlag(e)
<1> DEFINE ed == ValueOf(e)
           dd == ValueOf(d)
           ta == Take(a, e.opt, dd)
           tm == Take(m, e.opt, ed)
<1>1. a \in Accumulators /\ m \in Accumulators /\ a.open = "" /\ e.opt \in Texts
  BY DEF Alike, Words
<1>2. ReadWord(a, d) = ta /\ ReadWord(m, e) = tm
  BY <1>1, ReadWordCases
<1>3. /\ ed \in Words /\ dd \in Words /\ ed.kind = e.kind /\ dd.kind = d.kind
      /\ ed.name = e.name /\ dd.name = d.name
      /\ e.opt \in {"-I", "-isystem"} => dd.opt = ""
  <2>1. ed \in Words /\ dd \in Words
    BY TextIsWord
  <2> QED BY <2>1 DEF Words, ValueOf
<1>4. IF e.opt \in {"-I", "-isystem"} THEN Reaches(dd, ed) ELSE dd = ed
  <2>1. CASE e.opt \in {"-I", "-isystem"}
    <3>1. At(Base, ed) = At(Base, e)
      <4>1. ed.kind = e.kind /\ ed.name = e.name /\ e.kind \in {"rel", "abs"}
        BY <1>3
      <4> HIDE DEF ed
      <4> QED BY <4>1, PathAt
    <3>2. dd.opt = "" /\ dd.kind = "abs" /\ dd.name = At(Base, ed) /\ dd \in Words
      BY <1>3, <2>1, <3>1
    <3>3. Reaches(dd, ed)
      <4> HIDE DEF dd, ed
      <4> QED BY <3>2 DEF Reaches, Word, Words
    <3> QED BY <2>1, <3>3
  <2>2. CASE e.opt \notin {"-I", "-isystem"}
    BY <2>2
  <2> QED BY <2>1, <2>2
<1> HIDE DEF ed, dd
<1>5. Alike(ta, tm)
  BY <1>1, <1>3, <1>4, TakeAlike
<1>6. Taken(m, e.opt, ed, tm) /\ ed # Nothing
  <2>1. Taken(m, e.opt, ed, tm)
    BY <1>1, TakeFields
  <2>2. ed # Nothing
    <3>1. Nothing.kind = "none"
      BY DEF Nothing, Option, Word
    <3> QED BY <1>3, <3>1
  <2> QED BY <2>1, <2>2
<1> HIDE DEF ta, tm
<1> QED BY <1>2, <1>5, <1>6 DEF LanguageSet, StandardSet, IsStandardFlag, Taken

\* An element of a sequence.
LEMMA ElementOf ==
    ASSUME NEW S, NEW s \in Seq(S), NEW i \in 1..Len(s)
    PROVE  s[i] \in S
OBVIOUS

\* What is read of the first words.
Reads(s, k) == CompilerReads(SubSeq(s, 1, k))

\* Reading, from one prefix to the next.
LEMMA ReadsSteps ==
    ASSUME NEW s \in Seq(Words)
    PROVE  /\ Reads(s, 0) = NothingRead /\ Reads(s, Len(s)) = CompilerReads(s)
           /\ \A k \in 0..Len(s) : Reads(s, k) \in Accumulators
           /\ \A k \in 0..(Len(s) - 1) : Reads(s, k + 1) = ReadWord(Reads(s, k), s[k + 1])
<1>1. Reads(s, 0) = NothingRead /\ Reads(s, Len(s)) = CompilerReads(s)
  BY PrefixFacts, ReadsOneMore DEF Reads
<1>2. ASSUME NEW k \in 0..Len(s) PROVE Reads(s, k) \in Accumulators
  <2>1. SubSeq(s, 1, k) \in Seq(Words)
    BY PrefixFacts
  <2> QED BY <2>1, ReadsOneMore DEF Reads
<1>3. ASSUME NEW k \in 0..(Len(s) - 1) PROVE Reads(s, k + 1) = ReadWord(Reads(s, k), s[k + 1])
  <2>1. Len(s) \in Nat /\ k \in 0..Len(s)
    <3>1. Len(s) \in Nat
      OBVIOUS
    <3> QED BY <3>1
  <2>2. /\ SubSeq(s, 1, k) \in Seq(Words) /\ s[k + 1] \in Words
        /\ SubSeq(s, 1, k + 1) = Append(SubSeq(s, 1, k), s[k + 1])
    BY <2>1, PrefixFacts
  <2> QED BY <2>2, ReadsOneMore DEF Reads
<1> QED BY <1>1, <1>2, <1>3

\* The arguments that the configuration means.
Expanded(env, raw) == [i \in DOMAIN raw |-> Expand(env, raw[i])]

\* The option that is open after the first words.
OpenAfter(raw, k) == IF k > 0 /\ raw[k].kind = "none" THEN raw[k].opt ELSE ""

\* They are words, as many as are configured.
LEMMA ExpandedWords ==
    ASSUME NEW env, NEW raw, Plain0(env, raw)
    PROVE  /\ Expanded(env, raw) \in Seq(Words) /\ Len(Expanded(env, raw)) = Len(raw)
           /\ Len(raw) \in Nat /\ DOMAIN raw = 1..Len(raw)
           /\ \A k \in DOMAIN raw : /\ raw[k] \in LineWords(env)
                                    /\ Expanded(env, raw)[k] = Expand(env, raw[k])
<1>0. Values(env) /\ raw \in Seq(LineWords(env))
  BY DEF Plain0
<1>1. Len(raw) \in Nat /\ DOMAIN raw = 1..Len(raw) /\ \A k \in DOMAIN raw : raw[k] \in LineWords(env)
  BY <1>0
<1>2. \A k \in DOMAIN raw : Expand(env, raw[k]) \in Words
  BY <1>0, <1>1, ExpandType
<1> DEFINE e == Expanded(env, raw)
<1>3. e = [k \in 1..Len(raw) |-> Expand(env, raw[k])]
  BY <1>1 DEF Expanded
<1>4. e \in [1..Len(raw) -> Words]
  BY <1>1, <1>2, <1>3
<1> HIDE DEF e
<1>5. e \in Seq(Words) /\ Len(e) = Len(raw)
  BY <1>1, <1>4
<1> QED BY <1>1, <1>3, <1>5 DEF e

\* What is read alike, and which options were given, after the first words.
AlikeUpTo(env, raw, k) ==
    LET m == Reads(Expanded(env, raw), k) IN
    /\ Alike(Reads(ResolveClangArgs(env, raw), k), m)
    /\ m.open = OpenAfter(raw, k)
    /\ LanguageSet(m) <=> \E i \in 1..k : IsLanguageFlag(raw[i])
    /\ StandardSet(m) <=> \E i \in 1..k : IsStandardFlag(raw[i])

\* The word that follows.
LEMMA PlainNext ==
    ASSUME NEW env, NEW raw, Plain0(env, raw), NEW k \in 0..(Len(raw) - 1)
    PROVE  ResolvedTo(env, raw[k + 1], ResolveClangArgs(env, raw)[k + 1],
                      k > 0 /\ IsInclude(raw[k]) /\ raw[k].kind = "none")
<1> DEFINE r == ResolveClangArgs(env, raw)
           Q(i) == ResolvedTo(env, raw[i], r[i], i > 1 /\ IsInclude(raw[i - 1]) /\ raw[i - 1].kind = "none")
           j == k + 1
<1>1. \A i \in DOMAIN raw : Q(i)
  BY PlainResolved
<1>2. Len(raw) \in Nat /\ DOMAIN raw = 1..Len(raw)
  BY ExpandedWords
<1>3. j \in DOMAIN raw /\ j - 1 = k /\ (j > 1 <=> k > 0)
  BY <1>2
<1>4. Q(j)
  <2> HIDE DEF Q, j
  <2> QED BY <1>1, <1>3
<1>5. (j > 1 /\ IsInclude(raw[j - 1]) /\ raw[j - 1].kind = "none")
        = (k > 0 /\ IsInclude(raw[k]) /\ raw[k].kind = "none")
  <2> HIDE DEF j
  <2> QED BY <1>3
<1> QED BY <1>4, <1>5

\* The next word is read alike.
LEMMA AlikeStep ==
    ASSUME NEW env, NEW raw, Plain0(env, raw), NEW k \in 0..(Len(raw) - 1), AlikeUpTo(env, raw, k)
    PROVE  AlikeUpTo(env, raw, k + 1)
<1> DEFINE r == ResolveClangArgs(env, raw)
           x == Expanded(env, raw)
           a == Reads(r, k)
           m == Reads(x, k)
           w == raw[k + 1]
           e == Expand(env, w)
           d == r[k + 1]
           V == k > 0 /\ IsInclude(raw[k]) /\ raw[k].kind = "none"
<1>0. Values(env)
  BY DEF Plain0
<1>1. /\ x \in Seq(Words) /\ Len(x) = Len(raw) /\ Len(raw) \in Nat /\ DOMAIN raw = 1..Len(raw)
      /\ \A i \in DOMAIN raw : raw[i] \in LineWords(env) /\ x[i] = Expand(env, raw[i])
  BY ExpandedWords
<1>2. k \in Nat /\ k + 1 \in DOMAIN raw /\ k + 1 \in 1..Len(raw) /\ (k > 0 => k \in DOMAIN raw) /\ (k + 1) - 1 = k
  BY <1>1
<1>3. /\ r \in Seq(Words) /\ Len(r) = Len(raw)
      /\ w.kind = "none" => d = w /\ e = w /\ w = Option(w.opt) /\ w.opt # ""
      /\ w.kind # "none" =>
            /\ PlainWord(env, w)
            /\ d = IF V \/ IsInclude(w) THEN Word(w.opt, "abs", At(Base, e)) ELSE e
  <2>1. r \in Seq(Words) /\ Len(r) = Len(raw)
    BY PlainResolved
  <2>2. ResolvedTo(env, w, d, V)
    BY PlainNext
  <2> QED BY <2>1, <2>2 DEF ResolvedTo
<1>4. Reads(r, k + 1) = ReadWord(a, d) /\ Reads(x, k + 1) = ReadWord(m, e)
  <2>1. k \in 0..(Len(r) - 1) /\ k \in 0..(Len(x) - 1)
    BY <1>1, <1>3
  <2>2. x[k + 1] = e
    BY <1>1, <1>2
  <2> QED BY <1>1, <1>3, <2>1, <2>2, ReadsSteps
<1>5. /\ Alike(a, m) /\ m.open = OpenAfter(raw, k)
      /\ LanguageSet(m) <=> \E i \in 1..k : IsLanguageFlag(raw[i])
      /\ StandardSet(m) <=> \E i \in 1..k : IsStandardFlag(raw[i])
  BY DEF AlikeUpTo
<1>6. w \in LineWords(env) /\ w \in Words /\ d \in Words /\ e \in Words
  <2>1. w \in LineWords(env) /\ x[k + 1] = e
    BY <1>1, <1>2
  <2>2. w \in Words
    BY <2>1 DEF LineWords
  <2>3. r[k + 1] \in Words /\ x[k + 1] \in Words
    <3>1. k + 1 \in 1..Len(r) /\ k + 1 \in 1..Len(x)
      BY <1>1, <1>2, <1>3
    <3>2. r \in Seq(Words) /\ x \in Seq(Words)
      BY <1>1, <1>3
    <3> HIDE DEF r, x
    <3> QED BY <3>1, <3>2, ElementOf
  <2> QED BY <2>1, <2>2, <2>3
<1>7. /\ w.opt = "-x" => w.kind = "none"
      /\ k > 0 /\ raw[k].kind = "none" => w.opt = ""
      /\ w.kind = "none" => w.name = <<>>
  <2>1. \A i \in DOMAIN raw :
            /\ raw[i].opt = "-x" => raw[i].kind = "none"
            /\ raw[i].kind = "none" => raw[i].name = <<>>
            /\ i > 1 /\ raw[i - 1].kind = "none" => raw[i].opt = ""
    BY DEF Plain0
  <2>2. k > 0 => k + 1 > 1
    BY <1>2
  <2>3. raw[(k + 1) - 1] = raw[k]
    BY <1>2
  <2> QED BY <1>2, <2>1, <2>2, <2>3
<1>8. /\ (\E i \in 1..(k + 1) : IsLanguageFlag(raw[i])) <=> (\E i \in 1..k : IsLanguageFlag(raw[i])) \/ IsLanguageFlag(w)
      /\ (\E i \in 1..(k + 1) : IsStandardFlag(raw[i])) <=> (\E i \in 1..k : IsStandardFlag(raw[i])) \/ IsStandardFlag(w)
  <2>1. \A i : i \in 1..(k + 1) <=> i \in 1..k \/ i = k + 1
    BY <1>2
  <2> QED BY <2>1
<1>9. w.kind # "none" => ~IsLanguageFlag(w)
  <2>1. Option("-x").kind = "none"
    BY DEF Option, Word
  <2> QED BY <2>1 DEF IsLanguageFlag
<1> HIDE DEF r, x, a, m, w, e, d, V
<1>10. /\ Alike(ReadWord(a, d), ReadWord(m, e))
       /\ ReadWord(m, e).open = IF w.kind = "none" THEN w.opt ELSE ""
       /\ LanguageSet(ReadWord(m, e)) <=> LanguageSet(m) \/ IsLanguageFlag(w)
       /\ StandardSet(ReadWord(m, e)) <=> StandardSet(m) \/ IsStandardFlag(w)
  <2>1. CASE w.kind = "none"
    <3>1. m.open = ""
      BY <1>3, <1>5, <1>7, <2>1 DEF OpenAfter
    <3>2. d = w /\ e = w /\ w.name = <<>>
      BY <1>3, <1>7, <2>1
    <3> QED BY <1>5, <1>6, <2>1, <3>1, <3>2, AloneAlike
  <2>2. CASE w.kind # "none" /\ m.open # ""
    <3>1. k > 0 /\ raw[k].kind = "none" /\ m.open = raw[k].opt /\ w.opt = ""
      BY <1>5, <1>7, <2>2 DEF OpenAfter
    <3>2. e.opt = "" /\ e.kind \in {"rel", "abs"}
      BY <1>0, <1>3, <2>2, <3>1, ExpandPlain DEF e
    <3>3. V <=> m.open \in {"-I", "-isystem"}
      BY <1>2, <3>1 DEF V, IsInclude
    <3>4. ~IsInclude(w) /\ ~IsStandardFlag(w)
      BY <3>1 DEF IsInclude, IsStandardFlag
    <3>5. d = IF V THEN Word("", "abs", At(Base, e)) ELSE e
      BY <1>3, <2>2, <3>1, <3>4
    <3>6. d.opt = "" /\ (V => Reaches(d, e)) /\ (~V => d = e)
      BY <3>2, <3>5 DEF Reaches, Word
    <3> HIDE <3>5
    <3>7. IF m.open \in {"-I", "-isystem"} THEN Reaches(d, e) ELSE d = e
      BY <3>3, <3>6
    <3>8. /\ Alike(ReadWord(a, d), ReadWord(m, e)) /\ ReadWord(m, e).open = ""
          /\ LanguageSet(ReadWord(m, e)) <=> LanguageSet(m)
          /\ StandardSet(ReadWord(m, e)) <=> StandardSet(m)
      BY <1>5, <1>6, <2>2, <3>2, <3>6, <3>7, ValueAlike
    <3> QED BY <1>9, <2>2, <3>4, <3>8
  <2>3. CASE w.kind # "none" /\ m.open = ""
    <3>1. e.opt = w.opt /\ e.kind \in {"rel", "abs"} /\ w.opt # "-x"
      BY <1>0, <1>3, <1>7, <2>3, ExpandPlain DEF e
    <3>2. ~V
      <4>1. k > 0 /\ raw[k].kind = "none" => raw[k].opt = ""
        BY <1>5, <2>3 DEF OpenAfter
      <4> QED BY <1>2, <4>1 DEF V, IsInclude
    <3>3. d = IF IsInclude(w) THEN Word(w.opt, "abs", At(Base, e)) ELSE e
      BY <1>3, <2>3, <3>2
    <3>4. /\ d.opt = e.opt /\ d.kind \in {"rel", "abs"}
          /\ IsInclude(w) => d.kind = "abs" /\ d.name = At(Base, e)
          /\ ~IsInclude(w) => d = e
      BY <3>1, <3>3 DEF Word
    <3>5. IsStandardFlag(e) <=> IsStandardFlag(w)
      BY <3>1 DEF IsStandardFlag
    <3>6. IsInclude(w) <=> e.opt \in {"-I", "-isystem"}
      BY <3>1 DEF IsInclude
    <3>7. IF e.opt \in {"-I", "-isystem"} THEN d.kind = "abs" /\ d.name = At(Base, e) ELSE d = e
      BY <3>4, <3>6
    <3>8. e.opt # "-x" /\ e.kind \in {"rel", "abs"} /\ d.kind \in {"rel", "abs"} /\ d.opt = e.opt
      BY <3>1, <3>4
    <3>9. /\ Alike(ReadWord(a, d), ReadWord(m, e)) /\ ReadWord(m, e).open = ""
          /\ LanguageSet(ReadWord(m, e)) <=> LanguageSet(m)
          /\ StandardSet(ReadWord(m, e)) <=> StandardSet(m) \/ IsStandardFlag(e)
      BY <1>5, <1>6, <2>3, <3>7, <3>8, JoinedAlike
    <3> QED BY <1>9, <2>3, <3>5, <3>9
  <2> QED BY <2>1, <2>2, <2>3
<1>11. OpenAfter(raw, k + 1) = IF w.kind = "none" THEN w.opt ELSE ""
  <2>1. k + 1 > 0
    BY <1>2
  <2> QED BY <2>1 DEF OpenAfter, w
<1> QED BY <1>4, <1>5, <1>8, <1>10, <1>11 DEF AlikeUpTo, x, r

\* Before the first word nothing has been read.
LEMMA AlikeAtFirst ==
    ASSUME NEW env, NEW raw, Plain0(env, raw)
    PROVE  AlikeUpTo(env, raw, 0)
<1> DEFINE r == ResolveClangArgs(env, raw)
           x == Expanded(env, raw)
<1>1. x \in Seq(Words) /\ r \in Seq(Words)
  BY ExpandedWords, PlainResolved
<1> HIDE DEF r, x
<1>2. Reads(r, 0) = NothingRead /\ Reads(x, 0) = NothingRead
  BY <1>1, ReadsSteps
<1>3. Alike(NothingRead, NothingRead)
  <2>1. NothingRead.dirs = <<>> /\ NothingRead.systemDirs = <<>>
    BY DEF NothingRead
  <2>2. SamePlaces(<<>>, <<>>)
    BY DEF SamePlaces
  <2> QED BY <2>1, <2>2, NothingReadType DEF Alike
<1>4. NothingRead.open = "" /\ NothingRead.language = Nothing /\ NothingRead.standard = Nothing
  BY DEF NothingRead, Nothing
<1>5. ~LanguageSet(NothingRead) /\ ~StandardSet(NothingRead)
  BY <1>4 DEF LanguageSet, StandardSet
<1>6. OpenAfter(raw, 0) = ""
  BY DEF OpenAfter
<1>7. 1..0 = {}
  OBVIOUS
<1> QED BY <1>2, <1>3, <1>4, <1>5, <1>6, <1>7 DEF AlikeUpTo, r, x

\* The resolved arguments are read like those the configuration means.
LEMMA PlainRead ==
    ASSUME NEW env, NEW raw, Plain0(env, raw)
    PROVE  \A k \in 0..Len(raw) : AlikeUpTo(env, raw, k)
<1> DEFINE S == {k \in 0..Len(raw) : AlikeUpTo(env, raw, k)}
<1>1. Len(raw) \in Nat
  BY ExpandedWords
<1>2. 0 \in S
  BY <1>1, AlikeAtFirst
<1>3. ASSUME NEW k \in 0..(Len(raw) - 1), k \in S PROVE k + 1 \in S
  <2>1. k + 1 \in 0..Len(raw)
    BY <1>1
  <2> QED BY <1>3, <2>1, AlikeStep
<1>4. \A k \in 0..Len(raw) : k \in S
  <2> HIDE DEF S
  <2> QED BY <1>1, <1>2, <1>3, UpTo
<1> QED BY <1>4

\* So they are at the end.
LEMMA AllRead ==
    ASSUME NEW env, NEW raw, Plain0(env, raw)
    PROVE  AlikeUpTo(env, raw, Len(raw))
<1> DEFINE n == Len(raw)
<1>1. n \in Nat
  BY ExpandedWords
<1>2. \A k \in 0..n : AlikeUpTo(env, raw, k)
  BY PlainRead
<1> HIDE DEF n
<1>3. n \in 0..n
  BY <1>1
<1>4. AlikeUpTo(env, raw, n)
  BY <1>2, <1>3
<1> QED BY <1>4 DEF n

(***************************************************************************)
(* What the scan finds is what is read                                     *)
(***************************************************************************)

Place(dir) == Word("", "abs", dir)

Has(s, w) == \E i \in DOMAIN s : s[i] = w

LooksIn(acc, w) == Has(acc.dirs, w) \/ Has(acc.systemDirs, w)

\* An element more.
LEMMA AppendHas ==
    ASSUME NEW S, NEW s \in Seq(S), NEW x \in S, NEW w
    PROVE  Has(Append(s, x), w) <=> Has(s, w) \/ x = w
<1> DEFINE t == Append(s, x)
           n == Len(s)
<1>1. /\ n \in Nat /\ DOMAIN s = 1..n /\ DOMAIN t = 1..(n + 1)
      /\ t[n + 1] = x /\ \A i \in 1..n : t[i] = s[i]
  BY AppendFacts
<1> HIDE DEF t, n
<1>2. \A i : i \in 1..(n + 1) <=> i \in 1..n \/ i = n + 1
  BY <1>1
<1> QED BY <1>1, <1>2 DEF t, Has

\* What is taken for an include option is looked in.
LEMMA LooksTake ==
    ASSUME NEW acc \in Accumulators, NEW opt \in Texts, NEW text \in Words, NEW w
    PROVE  LooksIn(Take(acc, opt, text), w)
              <=> LooksIn(acc, w) \/ (opt \in {"-I", "-isystem"} /\ text = w)
<1> DEFINE t == Take(acc, opt, text)
<1>1. acc.dirs \in Seq(Words) /\ acc.systemDirs \in Seq(Words)
  BY DEF Accumulators
<1>2. Taken(acc, opt, text, t)
  BY TakeFields
<1> HIDE DEF t
<1>3. /\ Has(Append(acc.dirs, text), w) <=> Has(acc.dirs, w) \/ text = w
      /\ Has(Append(acc.systemDirs, text), w) <=> Has(acc.systemDirs, w) \/ text = w
  BY <1>1, AppendHas
<1>4. CASE opt = "-I"
  <2>1. t.dirs = Append(acc.dirs, text) /\ t.systemDirs = acc.systemDirs
    BY <1>2, <1>4 DEF Taken
  <2> QED BY <1>3, <1>4, <2>1 DEF LooksIn, t
<1>5. CASE opt = "-isystem"
  <2>1. t.dirs = acc.dirs /\ t.systemDirs = Append(acc.systemDirs, text)
    BY <1>2, <1>5 DEF Taken
  <2> QED BY <1>3, <1>5, <2>1 DEF LooksIn, t
<1>6. CASE opt \notin {"-I", "-isystem"}
  <2>1. t.dirs = acc.dirs /\ t.systemDirs = acc.systemDirs
    BY <1>2, <1>6 DEF Taken
  <2> QED BY <1>6, <2>1 DEF LooksIn, t
<1> QED BY <1>4, <1>5, <1>6 DEF t

\* Opening an option changes nothing else.
LEMMA OpenFields ==
    ASSUME NEW acc \in Accumulators, NEW opt
    PROVE  /\ WithOpen(acc, opt).open = opt /\ WithOpen(acc, opt).dirs = acc.dirs
           /\ WithOpen(acc, opt).systemDirs = acc.systemDirs
           /\ WithOpen(acc, opt).files = acc.files /\ WithOpen(acc, opt).defines = acc.defines
           /\ WithOpen(acc, opt).language = acc.language /\ WithOpen(acc, opt).standard = acc.standard
BY DEF Accumulators, WithOpen

\* The scan, in a state in which a word is read, and the word it meets.
ScanAgrees(c, m, dir) ==
    /\ c.found <=> LooksIn(m, Place(dir))
    /\ c.detached <=> m.open \in {"-I", "-isystem"}

\* They agree on the next word, unless an option would be taken for a value.
LEMMA ScanAgreesOneMore ==
    ASSUME NEW dir, NEW c \in Scans, NEW m \in Accumulators, ScanAgrees(c, m, dir), NEW w \in Words,
           m.open # "" => w.opt = "" /\ w.kind # "none"
    PROVE  ScanAgrees(ScanArg(dir, c, w), ReadWord(m, w), dir)
<1> DEFINE s == ScanArg(dir, c, w)
<1>1. /\ s.found = (c.found \/ (c.detached /\ w = Place(dir))
                            \/ (~c.detached /\ IsInclude(w) /\ w.kind = "abs" /\ w.name = dir))
      /\ s.detached = (~c.detached /\ IsInclude(w) /\ w.kind = "none")
  BY DEF ScanArg, Place
<1>2. c.found \in BOOLEAN /\ c.detached \in BOOLEAN /\ m.open \in Texts
  BY DEF Scans, Accumulators
<1>3. (c.found <=> LooksIn(m, Place(dir))) /\ (c.detached <=> m.open \in {"-I", "-isystem"})
  BY DEF ScanAgrees
<1> HIDE DEF s
<1>4. CASE m.open # ""
  <2>1. ReadWord(m, w) = WithOpen(Take(m, m.open, w), "")
    BY <1>4, ReadWordCases
  <2>2. Take(m, m.open, w) \in Accumulators
    BY <1>2, TakeType
  <2>3. LooksIn(Take(m, m.open, w), Place(dir))
           <=> LooksIn(m, Place(dir)) \/ (m.open \in {"-I", "-isystem"} /\ w = Place(dir))
    BY <1>2, LooksTake
  <2>4. ReadWord(m, w).open = "" /\ (LooksIn(ReadWord(m, w), Place(dir)) <=> LooksIn(Take(m, m.open, w), Place(dir)))
    <3> DEFINE t == Take(m, m.open, w)
    <3>1. /\ WithOpen(t, "").open = "" /\ WithOpen(t, "").dirs = t.dirs
          /\ WithOpen(t, "").systemDirs = t.systemDirs
      BY <2>2, OpenFields
    <3> QED BY <2>1, <3>1 DEF LooksIn
  <2>5. ~IsInclude(w)
    BY <1>4 DEF IsInclude
  <2>6. s.found <=> LooksIn(ReadWord(m, w), Place(dir))
    BY <1>1, <1>3, <2>3, <2>4, <2>5
  <2>7. ~s.detached /\ ReadWord(m, w).open \notin {"-I", "-isystem"}
    BY <1>1, <2>4, <2>5
  <2> QED BY <2>6, <2>7 DEF ScanAgrees, s
<1>5. CASE m.open = "" /\ w.kind = "none"
  <2>1. ReadWord(m, w) = WithOpen(m, w.opt)
    BY <1>5, ReadWordCases
  <2>2. ReadWord(m, w).open = w.opt /\ (LooksIn(ReadWord(m, w), Place(dir)) <=> LooksIn(m, Place(dir)))
    <3>1. /\ WithOpen(m, w.opt).open = w.opt /\ WithOpen(m, w.opt).dirs = m.dirs
          /\ WithOpen(m, w.opt).systemDirs = m.systemDirs
      BY OpenFields
    <3> QED BY <2>1, <3>1 DEF LooksIn
  <2>3. ~c.detached
    BY <1>3, <1>5
  <2>4. s.found <=> LooksIn(ReadWord(m, w), Place(dir))
    BY <1>1, <1>3, <1>5, <2>2, <2>3
  <2>5. s.detached <=> ReadWord(m, w).open \in {"-I", "-isystem"}
    BY <1>1, <1>5, <2>2, <2>3 DEF IsInclude
  <2> QED BY <2>4, <2>5 DEF ScanAgrees, s
<1>6. CASE m.open = "" /\ w.kind # "none"
  <2> DEFINE v == [w EXCEPT !.opt = ""]
             u == ValueOf(w)
  <2>1. ReadWord(m, w) = Take(m, w.opt, u)
    BY <1>6, ReadWordCases
  <2>2. v \in Words /\ u \in Words /\ (w.opt \in {"-I", "-isystem"} => u = v)
    BY TextIsWord DEF ValueOf
  <2>3. v = Place(dir) <=> w.kind = "abs" /\ w.name = dir
    <3>1. v.opt = "" /\ v.kind = w.kind /\ v.name = w.name
      BY <2>2 DEF Words
    <3> HIDE DEF v
    <3>2. v = [opt |-> v.opt, kind |-> v.kind, name |-> v.name]
      BY <2>2 DEF Words
    <3>3. Place(dir).kind = "abs" /\ Place(dir).name = dir
      BY DEF Place, Word
    <3>4. w.kind = "abs" /\ w.name = dir => v = Place(dir)
      BY <3>1, <3>2 DEF Place, Word
    <3> QED BY <3>1, <3>3, <3>4
  <2> HIDE DEF v, u
  <2>4. LooksIn(ReadWord(m, w), Place(dir))
           <=> LooksIn(m, Place(dir)) \/ (w.opt \in {"-I", "-isystem"} /\ v = Place(dir))
    <3>1. w.opt \in Texts
      BY DEF Words
    <3>2. LooksIn(Take(m, w.opt, u), Place(dir))
             <=> LooksIn(m, Place(dir)) \/ (w.opt \in {"-I", "-isystem"} /\ u = Place(dir))
      BY <2>2, <3>1, LooksTake
    <3> QED BY <2>1, <2>2, <3>2
  <2>5. ReadWord(m, w).open = ""
    <3>1. Taken(m, w.opt, u, Take(m, w.opt, u))
      BY TakeFields
    <3> QED BY <1>6, <2>1, <3>1 DEF Taken
  <2>6. ~c.detached
    BY <1>3, <1>6
  <2>7. s.found <=> LooksIn(ReadWord(m, w), Place(dir))
    BY <1>1, <1>3, <2>3, <2>4, <2>6 DEF IsInclude
  <2>8. ~s.detached /\ ReadWord(m, w).open \notin {"-I", "-isystem"}
    BY <1>1, <1>6, <2>5
  <2> QED BY <2>7, <2>8 DEF ScanAgrees, s
<1> QED BY <1>4, <1>5, <1>6

\* The scan for a directory, and the reader, after the same words.
Scan(dir, s) == FoldOf(Scanning(dir), ScanStart, s)

Agrees(s) == \A dir \in Seq(Texts) : ScanAgrees(Scan(dir, s), CompilerReads(s), dir)

\* They agree at the beginning.
LEMMA AgreesAtFirst == Agrees(<<>>)
<1>1. ASSUME NEW dir \in Seq(Texts) PROVE ScanAgrees(Scan(dir, <<>>), CompilerReads(<<>>), dir)
  <2>1. Scan(dir, <<>>) = ScanStart
    BY ScanOneMore DEF Scan
  <2>2. CompilerReads(<<>>) = NothingRead
    BY ReadsOneMore
  <2>3. ~ScanStart.found /\ ~ScanStart.detached
    BY DEF ScanStart
  <2>4. NothingRead.open = "" /\ NothingRead.dirs = <<>> /\ NothingRead.systemDirs = <<>>
    BY DEF NothingRead
  <2>5. \A w : ~Has(<<>>, w)
    BY DEF Has
  <2>6. ~LooksIn(NothingRead, Place(dir))
    BY <2>4, <2>5 DEF LooksIn
  <2> QED BY <2>1, <2>2, <2>3, <2>4, <2>6 DEF ScanAgrees
<1> QED BY <1>1 DEF Agrees

\* They agree on one word more.
LEMMA AgreesOneMore ==
    ASSUME NEW s \in Seq(Words), Agrees(s), NEW w \in Words,
           CompilerReads(s).open # "" => w.opt = "" /\ w.kind # "none"
    PROVE  Agrees(Append(s, w))
<1>1. CompilerReads(s) \in Accumulators /\ CompilerReads(Append(s, w)) = ReadWord(CompilerReads(s), w)
  BY ReadsOneMore
<1>2. ASSUME NEW dir \in Seq(Texts)
      PROVE  ScanAgrees(Scan(dir, Append(s, w)), CompilerReads(Append(s, w)), dir)
  <2>1. Scan(dir, s) \in Scans /\ Scan(dir, Append(s, w)) = ScanArg(dir, Scan(dir, s), w)
    BY ScanOneMore DEF Scan
  <2>2. ScanAgrees(Scan(dir, s), CompilerReads(s), dir)
    BY DEF Agrees
  <2>3. ScanAgrees(ScanArg(dir, Scan(dir, s), w), ReadWord(CompilerReads(s), w), dir)
    BY <1>1, <2>1, <2>2, ScanAgreesOneMore
  <2> QED BY <1>1, <2>1, <2>3
<1> QED BY <1>2 DEF Agrees

\* In the resolved arguments the scan skips what the reader takes for values.
LEMMA PlainAgrees ==
    ASSUME NEW env, NEW raw, Plain0(env, raw)
    PROVE  Agrees(ResolveClangArgs(env, raw))
<1> DEFINE r == ResolveClangArgs(env, raw)
           n == Len(raw)
           S == {k \in 0..n : Agrees(SubSeq(r, 1, k))}
<1>1. n \in Nat /\ r \in Seq(Words) /\ Len(r) = n /\ DOMAIN raw = 1..n
  BY ExpandedWords, PlainResolved
<1>2. \A k \in 0..n : AlikeUpTo(env, raw, k)
  BY PlainRead
<1>3. ASSUME NEW k \in 0..(n - 1), Agrees(SubSeq(r, 1, k)) PROVE Agrees(SubSeq(r, 1, k + 1))
  <2>1. ResolvedTo(env, raw[k + 1], r[k + 1], k > 0 /\ IsInclude(raw[k]) /\ raw[k].kind = "none")
    BY PlainNext
  <2>2. AlikeUpTo(env, raw, k) /\ k \in 0..n
    BY <1>1, <1>2
  <2>3. Reads(r, k).open = OpenAfter(raw, k)
    BY <2>2 DEF AlikeUpTo, Alike
  <2>4. k + 1 \in DOMAIN raw /\ (k > 0 => k + 1 > 1) /\ (k + 1) - 1 = k /\ k \in 0..(Len(r) - 1)
    BY <1>1
  <2>5. k > 0 /\ raw[k].kind = "none" => raw[k + 1].opt = ""
    <3>1. \A i \in DOMAIN raw : i > 1 /\ raw[i - 1].kind = "none" => raw[i].opt = ""
      BY DEF Plain0
    <3>2. raw[(k + 1) - 1] = raw[k]
      BY <2>4
    <3> QED BY <2>4, <3>1, <3>2
  <2> DEFINE w == raw[k + 1]
             d == r[k + 1]
             value == k > 0 /\ IsInclude(raw[k]) /\ raw[k].kind = "none"
  <2>6. Values(env)
    BY DEF Plain0
  <2> HIDE DEF r, w, d
  <2>7. CASE k > 0 /\ raw[k].kind = "none"
    <3>1. w.opt = ""
      BY <2>5, <2>7 DEF w
    <3>2. w.kind # "none" /\ PlainWord(env, w)
          /\ d = IF value \/ IsInclude(w) THEN Word(w.opt, "abs", At(Base, Expand(env, w))) ELSE Expand(env, w)
      BY <2>1, <3>1 DEF ResolvedTo, w, d
    <3>3. Expand(env, w).opt = "" /\ Expand(env, w).kind \in {"rel", "abs"}
      BY <2>6, <3>1, <3>2, ExpandPlain
    <3> HIDE DEF value
    <3>4. d.opt = "" /\ d.kind # "none"
      BY <3>1, <3>2, <3>3 DEF Word
    <3>5. /\ SubSeq(r, 1, k) \in Seq(Words) /\ d \in Words
          /\ SubSeq(r, 1, k + 1) = Append(SubSeq(r, 1, k), d)
      BY <1>1, <2>4, PrefixFacts DEF d
    <3> QED BY <1>3, <3>4, <3>5, AgreesOneMore
  <2>8. CASE ~(k > 0 /\ raw[k].kind = "none")
    <3>1. Reads(r, k).open = ""
      BY <2>3, <2>8 DEF OpenAfter
    <3>2. CompilerReads(SubSeq(r, 1, k)).open = ""
      BY <3>1 DEF Reads
    <3>3. /\ SubSeq(r, 1, k) \in Seq(Words) /\ d \in Words
          /\ SubSeq(r, 1, k + 1) = Append(SubSeq(r, 1, k), d)
      BY <1>1, <2>4, PrefixFacts DEF d
    <3> QED BY <1>3, <3>2, <3>3, AgreesOneMore
  <2> QED BY <2>7, <2>8
<1> HIDE DEF r
<1>4. SubSeq(r, 1, 0) = <<>> /\ SubSeq(r, 1, n) = r
  BY <1>1, PrefixFacts
<1>5. 0 \in S
  <2>1. 0 \in 0..n
    BY <1>1
  <2>2. Agrees(SubSeq(r, 1, 0))
    BY <1>4, AgreesAtFirst
  <2> HIDE DEF n
  <2> QED BY <2>1, <2>2
<1>6. \A k \in 0..(n - 1) : k \in S => k + 1 \in S
  <2>1. ASSUME NEW k \in 0..(n - 1), k \in S PROVE k + 1 \in S
    <3>1. k + 1 \in 0..n
      BY <1>1
    <3> HIDE DEF n
    <3> QED BY <1>3, <2>1, <3>1
  <2> QED BY <2>1
<1>7. n \in S
  <2> HIDE DEF S, n
  <2>1. \A k \in 0..n : k \in S
    BY <1>1, <1>5, <1>6, UpTo
  <2> QED BY <1>1, <2>1
<1> QED BY <1>4, <1>7 DEF r

(***************************************************************************)
(* The defaults and the directories are added                              *)
(***************************************************************************)

\* Sequences of one and two elements.
LEMMA ShortSequences ==
    ASSUME NEW S, NEW x \in S, NEW y \in S
    PROVE  <<>> \in Seq(S) /\ <<x>> \in Seq(S) /\ <<x, y>> \in Seq(S)
OBVIOUS

\* One element is appended.
LEMMA OneAppended ==
    ASSUME NEW S, NEW s \in Seq(S), NEW x \in S
    PROVE  s \o <<x>> = Append(s, x)
OBVIOUS

\* Two elements are appended.
LEMMA TwoAppended ==
    ASSUME NEW S, NEW s \in Seq(S), NEW x \in S, NEW y \in S
    PROVE  s \o <<x, y>> = Append(Append(s, x), y)
OBVIOUS

\* The text of a word.
LEMMA TextOfWord ==
    ASSUME NEW w \in Words
    PROVE  [w EXCEPT !.opt = ""] = Word("", w.kind, w.name)
<1> DEFINE v == [w EXCEPT !.opt = ""]
<1>1. v \in Words
  BY TextIsWord
<1>2. v.opt = "" /\ v.kind = w.kind /\ v.name = w.name
  BY DEF Words
<1> HIDE DEF v
<1>3. v = [opt |-> v.opt, kind |-> v.kind, name |-> v.name]
  BY <1>1 DEF Words
<1>4. v = Word("", w.kind, w.name)
  BY <1>2, <1>3 DEF Word
<1> QED BY <1>4 DEF v

\* Arguments of which every option has its value.
Closed(s) == s \in Seq(Words) /\ Agrees(s) /\ CompilerReads(s).open = ""

\* What is read of the first arguments, and of more of them.
SameRest(b, a) ==
    b.systemDirs = a.systemDirs /\ b.files = a.files /\ b.defines = a.defines

LanguageFlag == Option("-x")
DefaultLanguage == Word("", "rel", <<"c++">>)
DefaultStandard == Word("", "rel", <<"c++17">>)
StandardFlag == Word("-std=", "rel", <<"c++17">>)

\* The defaults are words.
LEMMA DefaultWords ==
    /\ LanguageFlag \in Words /\ DefaultLanguage \in Words /\ StandardFlag \in Words
    /\ LanguageFlag.opt = "-x" /\ LanguageFlag.kind = "none"
    /\ DefaultLanguage.opt = "" /\ DefaultLanguage.kind = "rel"
    /\ StandardFlag.opt = "-std=" /\ StandardFlag.kind = "rel"
    /\ [StandardFlag EXCEPT !.opt = ""] = DefaultStandard
<1>1. "" \in Texts /\ "-x" \in Texts /\ "-std=" \in Texts /\ "c++" \in Texts /\ "c++17" \in Texts
  BY TextsAssumption
<1>2. \A o \in Texts, k \in Kinds, t \in Seq(Texts) : Word(o, k, t) \in Words
  BY DEF Word, Words
<1>3. "none" \in Kinds /\ "rel" \in Kinds
  BY DEF Kinds
<1>4. <<>> \in Seq(Texts) /\ <<"c++">> \in Seq(Texts) /\ <<"c++17">> \in Seq(Texts)
  BY <1>1, ShortSequences
<1>5. LanguageFlag \in Words
  BY <1>1, <1>2, <1>3, <1>4 DEF LanguageFlag, Option
<1>6. DefaultLanguage \in Words /\ StandardFlag \in Words
  BY <1>1, <1>2, <1>3, <1>4 DEF DefaultLanguage, StandardFlag
<1>7. LanguageFlag.opt = "-x" /\ LanguageFlag.kind = "none"
  BY DEF LanguageFlag, Option, Word
<1>8. /\ DefaultLanguage.opt = "" /\ DefaultLanguage.kind = "rel"
      /\ StandardFlag.opt = "-std=" /\ StandardFlag.kind = "rel"
  BY DEF DefaultLanguage, StandardFlag, Word
<1>9. [StandardFlag EXCEPT !.opt = ""] = DefaultStandard
  <2>1. StandardFlag.kind = "rel" /\ StandardFlag.name = <<"c++17">>
    BY DEF StandardFlag, Word
  <2>2. [StandardFlag EXCEPT !.opt = ""] = Word("", StandardFlag.kind, StandardFlag.name)
    BY <1>6, TextOfWord
  <2> QED BY <2>1, <2>2 DEF DefaultStandard
<1> QED BY <1>5, <1>6, <1>7, <1>8, <1>9

\* The language is added.
LEMMA LanguageAdded ==
    ASSUME NEW s, Closed(s)
    PROVE  LET t == s \o <<LanguageFlag, DefaultLanguage>>
               a == CompilerReads(s)
               b == CompilerReads(t)
           IN  /\ Closed(t) /\ SameRest(b, a) /\ b.dirs = a.dirs
               /\ b.language = DefaultLanguage /\ b.standard = a.standard
<1> DEFINE t1 == Append(s, LanguageFlag)
           t == Append(t1, DefaultLanguage)
           a == CompilerReads(s)
           b1 == CompilerReads(t1)
           b == CompilerReads(t)
<1>1. s \in Seq(Words) /\ Agrees(s) /\ a.open = ""
  BY DEF Closed
<1>2. t1 \in Seq(Words) /\ t \in Seq(Words) /\ s \o <<LanguageFlag, DefaultLanguage>> = t
  <2>1. t1 \in Seq(Words)
    BY <1>1, DefaultWords, AppendFacts
  <2>2. s \o <<LanguageFlag, DefaultLanguage>> = t
    <3>1. LanguageFlag \in Words /\ DefaultLanguage \in Words /\ s \in Seq(Words)
      BY <1>1, DefaultWords
    <3> QED BY <3>1, TwoAppended
  <2>3. t \in Seq(Words)
    <3> HIDE DEF t1
    <3> QED BY <2>1, DefaultWords, AppendFacts
  <2> QED BY <2>1, <2>2, <2>3
<1>3. a \in Accumulators /\ b1 = ReadWord(a, LanguageFlag)
  BY <1>1, DefaultWords, ReadsOneMore
<1>4. b1 \in Accumulators /\ b = ReadWord(b1, DefaultLanguage)
  <2> HIDE DEF t1
  <2> QED BY <1>2, DefaultWords, ReadsOneMore
<1>5. Agrees(t1)
  BY <1>1, DefaultWords, AgreesOneMore
<1>6. b1 = WithOpen(a, "-x")
  BY <1>1, <1>3, DefaultWords, ReadWordCases
<1>7. /\ b1.open = "-x" /\ b1.dirs = a.dirs /\ b1.systemDirs = a.systemDirs
      /\ b1.files = a.files /\ b1.defines = a.defines /\ b1.standard = a.standard
  <2> HIDE DEF a, b1
  <2> QED BY <1>3, <1>6, OpenFields
<1>8. Agrees(t)
  <2> HIDE DEF t1
  <2> QED BY <1>2, <1>5, DefaultWords, AgreesOneMore
<1> DEFINE m == Take(b1, "-x", DefaultLanguage)
<1> HIDE DEF a, b1, b
<1>9. b = WithOpen(m, "")
  BY <1>4, <1>7, DefaultWords, ReadWordCases
<1>10. m \in Accumulators /\ Taken(b1, "-x", DefaultLanguage, m)
  <2>1. "-x" \in Texts
    BY TextsAssumption
  <2> QED BY <1>4, <2>1, DefaultWords, TakeType, TakeFields
<1> HIDE DEF m
<1>11. /\ m.dirs = b1.dirs /\ m.systemDirs = b1.systemDirs /\ m.defines = b1.defines
       /\ m.files = b1.files /\ m.standard = b1.standard /\ m.language = DefaultLanguage
  BY <1>10 DEF Taken
<1>12. /\ b.open = "" /\ b.dirs = m.dirs /\ b.systemDirs = m.systemDirs /\ b.defines = m.defines
       /\ b.files = m.files /\ b.standard = m.standard /\ b.language = m.language
  BY <1>9, <1>10, OpenFields
<1> QED BY <1>2, <1>7, <1>8, <1>11, <1>12 DEF Closed, SameRest, a, b

\* The standard is added.
LEMMA StandardAdded ==
    ASSUME NEW s, Closed(s)
    PROVE  LET t == s \o <<StandardFlag>>
               a == CompilerReads(s)
               b == CompilerReads(t)
           IN  /\ Closed(t) /\ SameRest(b, a) /\ b.dirs = a.dirs
               /\ b.language = a.language /\ b.standard = DefaultStandard
<1> DEFINE t == Append(s, StandardFlag)
           a == CompilerReads(s)
           b == CompilerReads(t)
<1>1. s \in Seq(Words) /\ Agrees(s) /\ a.open = ""
  BY DEF Closed
<1>2. t \in Seq(Words) /\ s \o <<StandardFlag>> = t
  <2>1. t \in Seq(Words)
    BY <1>1, DefaultWords, AppendFacts
  <2> QED BY <1>1, <2>1, DefaultWords, OneAppended
<1>3. a \in Accumulators /\ b = ReadWord(a, StandardFlag)
  BY <1>1, DefaultWords, ReadsOneMore
<1>4. Agrees(t)
  BY <1>1, DefaultWords, AgreesOneMore
<1> HIDE DEF a, b
<1>5. b = Take(a, "-std=", DefaultStandard)
  BY <1>1, <1>3, DefaultWords, ReadWordCases
<1>6. Taken(a, "-std=", DefaultStandard, b)
  BY <1>3, <1>5, TakeFields
<1>7. /\ b.open = a.open /\ b.dirs = a.dirs /\ b.systemDirs = a.systemDirs /\ b.defines = a.defines
      /\ b.files = a.files /\ b.language = a.language /\ b.standard = DefaultStandard
  BY <1>6 DEF Taken
<1> QED BY <1>1, <1>2, <1>4, <1>7 DEF Closed, SameRest, a, b

(***************************************************************************)
(* Directories are added                                                   *)
(***************************************************************************)

\* Places are added to others, each once.
Grown(base, ds) ==
    /\ ds \in Seq(Words) /\ Len(base) <= Len(ds)
    /\ \A i \in 1..Len(base) : ds[i] = base[i]
    /\ \A i \in (Len(base) + 1)..Len(ds) :
          /\ \E dir \in Seq(Texts) : ds[i] = Place(dir)
          /\ \A j \in 1..(i - 1) : ds[j] # ds[i]

\* A place is a word.
LEMMA PlaceIsWord ==
    ASSUME NEW dir \in Seq(Texts)
    PROVE  Place(dir) \in Words /\ Place(dir).opt = "" /\ Place(dir).kind = "abs" /\ Place(dir).name = dir
<1>1. "" \in Texts
  BY TextsAssumption
<1>2. "abs" \in Kinds
  BY DEF Kinds
<1>3. \A o \in Texts, k \in Kinds : Word(o, k, dir) \in Words
  BY DEF Word, Words
<1>4. Place(dir) \in Words
  BY <1>1, <1>2, <1>3 DEF Place
<1> QED BY <1>4 DEF Place, Word

\* A place that is not there yet is added.
LEMMA GrownOneMore ==
    ASSUME NEW base \in Seq(Words), NEW ds, Grown(base, ds), NEW dir \in Seq(Texts),
           ~Has(ds, Place(dir))
    PROVE  Grown(base, Append(ds, Place(dir)))
<1> DEFINE p == Place(dir)
           t == Append(ds, p)
           n == Len(ds)
           b == Len(base)
<1>1. ds \in Seq(Words) /\ b \in Nat /\ b <= n
  BY DEF Grown
<1>2. /\ t \in Seq(Words) /\ n \in Nat /\ Len(t) = n + 1 /\ DOMAIN ds = 1..n
      /\ t[n + 1] = p /\ \A i \in 1..n : t[i] = ds[i]
  <2>1. p \in Words
    BY PlaceIsWord
  <2> HIDE DEF p
  <2> QED BY <1>1, <2>1, AppendFacts
<1>3. \A i \in 1..n : ds[i] # p
  BY <1>2 DEF Has
<1>4. \A i \in 1..b : t[i] = base[i]
  <2>1. \A i \in 1..b : ds[i] = base[i] /\ i \in 1..n
    BY <1>1, <1>2 DEF Grown
  <2> HIDE DEF t, n, b
  <2> QED BY <1>2, <2>1
<1>5. ASSUME NEW i \in (b + 1)..(n + 1)
      PROVE  (\E e \in Seq(Texts) : t[i] = Place(e)) /\ \A j \in 1..(i - 1) : t[j] # t[i]
  <2>1. CASE i = n + 1
    <3>1. \A j \in 1..(i - 1) : j \in 1..n
      BY <1>2, <2>1
    <3> HIDE DEF t, n, b
    <3>2. t[i] = p
      BY <1>2, <2>1
    <3> QED BY <1>2, <1>3, <3>1, <3>2
  <2>2. CASE i # n + 1
    <3>1. i \in (b + 1)..n /\ i \in 1..n /\ \A j \in 1..(i - 1) : j \in 1..n
      BY <1>1, <1>2, <2>2
    <3>2. (\E e \in Seq(Texts) : ds[i] = Place(e)) /\ \A j \in 1..(i - 1) : ds[j] # ds[i]
      BY <3>1 DEF Grown
    <3> HIDE DEF t, n, b
    <3> QED BY <1>2, <3>1, <3>2
  <2> QED BY <2>1, <2>2
<1>6. b <= n + 1
  BY <1>1, <1>2
<1> HIDE DEF p
<1> QED BY <1>2, <1>4, <1>5, <1>6 DEF Grown, p

\* A directory is added, unless it is mentioned.
LEMMA IncludeAdded ==
    ASSUME NEW s, Closed(s), NEW dir \in Seq(Texts)
    PROVE  LET t == AddIncludeIfMissing(s, dir)
               a == CompilerReads(s)
               b == CompilerReads(t)
           IN  /\ Closed(t) /\ SameRest(b, a) /\ b.language = a.language /\ b.standard = a.standard
               /\ LooksIn(b, Place(dir))
               /\ \A w : LooksIn(a, w) => LooksIn(b, w)
               /\ \A base \in Seq(Words) : Grown(base, a.dirs) => Grown(base, b.dirs)
<1> DEFINE w == Word("-I", "abs", dir)
           t == Append(s, w)
           a == CompilerReads(s)
           b == CompilerReads(t)
<1>1. s \in Seq(Words) /\ Agrees(s) /\ a.open = ""
  BY DEF Closed
<1>2. Mentions(s, dir) <=> LooksIn(a, Place(dir))
  <2>1. Mentions(s, dir) = Scan(dir, s).found
    BY <1>1, ScanIsFold DEF Scan
  <2>2. ScanAgrees(Scan(dir, s), a, dir)
    BY <1>1 DEF Agrees
  <2> HIDE DEF a
  <2> QED BY <2>1, <2>2 DEF ScanAgrees
<1>3. CASE Mentions(s, dir)
  <2>1. AddIncludeIfMissing(s, dir) = s
    BY <1>3 DEF AddIncludeIfMissing
  <2> QED BY <1>2, <1>3, <2>1 DEF SameRest
<1>4. CASE ~Mentions(s, dir)
  <2>1. AddIncludeIfMissing(s, dir) = t
    BY <1>4 DEF AddIncludeIfMissing
  <2>2. w \in Words /\ w.opt = "-I" /\ w.kind = "abs" /\ [w EXCEPT !.opt = ""] = Place(dir)
    <3>1. "-I" \in Texts /\ "abs" \in Kinds
      BY TextsAssumption DEF Kinds
    <3>2. \A o \in Texts, k \in Kinds : Word(o, k, dir) \in Words
      BY DEF Word, Words
    <3>3. w \in Words
      BY <3>1, <3>2
    <3>4. [w EXCEPT !.opt = ""] = Place(dir)
      <4>1. w.kind = "abs" /\ w.name = dir
        BY DEF Word
      <4>2. [w EXCEPT !.opt = ""] = Word("", w.kind, w.name)
        <5> HIDE DEF w
        <5> QED BY <3>3, TextOfWord
      <4> HIDE DEF w
      <4> QED BY <4>1, <4>2 DEF Place
    <3>5. w.opt = "-I" /\ w.kind = "abs"
      BY DEF Word
    <3> HIDE DEF w
    <3> QED BY <3>3, <3>4, <3>5
  <2> HIDE DEF w
  <2>3. t \in Seq(Words) /\ Agrees(t)
    <3>1. t \in Seq(Words)
      BY <1>1, <2>2, AppendFacts
    <3>2. Agrees(t)
      BY <1>1, <2>2, AgreesOneMore
    <3> QED BY <3>1, <3>2
  <2>4. a \in Accumulators /\ b = ReadWord(a, w)
    BY <1>1, <2>2, ReadsOneMore
  <2>5. Place(dir) \in Words /\ "-I" \in Texts
    BY PlaceIsWord, TextsAssumption
  <2> HIDE DEF a, b, t
  <2>6. b = Take(a, "-I", Place(dir))
    BY <1>1, <2>2, <2>4, ReadWordCases
  <2>7. Taken(a, "-I", Place(dir), b)
    BY <2>4, <2>6, TakeFields
  <2>8. /\ b.open = "" /\ SameRest(b, a) /\ b.language = a.language /\ b.standard = a.standard
        /\ b.dirs = Append(a.dirs, Place(dir))
    BY <1>1, <2>7 DEF Taken, SameRest
  <2>9. \A v : LooksIn(b, v) <=> LooksIn(a, v) \/ Place(dir) = v
    BY <2>4, <2>5, <2>6, LooksTake
  <2>10. ASSUME NEW base \in Seq(Words), Grown(base, a.dirs) PROVE Grown(base, b.dirs)
    <3>1. ~Has(a.dirs, Place(dir))
      BY <1>2, <1>4 DEF LooksIn
    <3> QED BY <2>8, <2>10, <3>1, GrownOneMore
  <2>11. Closed(t)
    BY <2>3, <2>8 DEF Closed, b
  <2>12. LooksIn(b, Place(dir)) /\ \A v : LooksIn(a, v) => LooksIn(b, v)
    BY <2>9
  <2> QED BY <2>1, <2>8, <2>10, <2>11, <2>12 DEF a, b
<1> QED BY <1>3, <1>4

\* Arguments that are others with directories added.
Completes(t, s) ==
    LET a == CompilerReads(s)
        b == CompilerReads(t) IN
    /\ Closed(t) /\ SameRest(b, a) /\ b.language = a.language /\ b.standard = a.standard
    /\ Grown(a.dirs, b.dirs)

\* Arguments complete themselves.
LEMMA CompletesItself ==
    ASSUME NEW s, Closed(s)
    PROVE  Completes(s, s)
<1> DEFINE ds == CompilerReads(s).dirs
<1>1. CompilerReads(s) \in Accumulators
  BY ReadsOneMore DEF Closed
<1>2. ds \in Seq(Words) /\ Len(ds) \in Nat
  BY <1>1 DEF Accumulators
<1> HIDE DEF ds
<1>3. (Len(ds) + 1)..Len(ds) = {}
  BY <1>2
<1>4. Grown(ds, ds)
  BY <1>2, <1>3 DEF Grown
<1> QED BY <1>4 DEF Completes, SameRest, ds

\* One directory more.
LEMMA CompletesMore ==
    ASSUME NEW s, NEW t, Closed(s), Completes(t, s), NEW dir \in Seq(Texts)
    PROVE  LET u == AddIncludeIfMissing(t, dir) IN
           /\ Completes(u, s) /\ LooksIn(CompilerReads(u), Place(dir))
           /\ \A w : LooksIn(CompilerReads(t), w) => LooksIn(CompilerReads(u), w)
<1> DEFINE u == AddIncludeIfMissing(t, dir)
           a == CompilerReads(s)
           b == CompilerReads(t)
           c == CompilerReads(u)
<1>1. /\ Closed(t) /\ SameRest(b, a) /\ b.language = a.language /\ b.standard = a.standard
      /\ Grown(a.dirs, b.dirs)
  BY DEF Completes
<1>2. /\ Closed(u) /\ SameRest(c, b) /\ c.language = b.language /\ c.standard = b.standard
      /\ LooksIn(c, Place(dir))
      /\ \A w : LooksIn(b, w) => LooksIn(c, w)
      /\ \A base \in Seq(Words) : Grown(base, b.dirs) => Grown(base, c.dirs)
  BY <1>1, IncludeAdded
<1>3. a \in Accumulators
  BY ReadsOneMore DEF Closed
<1> HIDE DEF u, a, b, c
<1>4. a.dirs \in Seq(Words)
  BY <1>3 DEF Accumulators
<1>5. Grown(a.dirs, c.dirs)
  BY <1>1, <1>2, <1>4
<1>6. SameRest(c, a) /\ c.language = a.language /\ c.standard = a.standard
  BY <1>1, <1>2 DEF SameRest
<1> QED BY <1>2, <1>5, <1>6 DEF Completes, u, a, b, c

\* All directories are added, one after the other.
LEMMA AllAdded ==
    ASSUME NEW s, Closed(s), NEW dirs \in Seq(Dirs)
    PROVE  LET t == AddAll(s, dirs) IN
           /\ Completes(t, s)
           /\ \A i \in 1..Len(dirs) : LooksIn(CompilerReads(t), Place(dirs[i]))
<1> DEFINE n == Len(dirs)
           T(k) == FoldOf(Adding, s, SubSeq(dirs, 1, k))
           Done(k) == Completes(T(k), s) /\ \A i \in 1..k : LooksIn(CompilerReads(T(k)), Place(dirs[i]))
           S == {k \in 0..n : Done(k)}
<1>1. s \in Lines
  BY DEF Closed, Lines
<1>2. n \in Nat /\ DOMAIN dirs = 1..n /\ SubSeq(dirs, 1, 0) = <<>> /\ SubSeq(dirs, 1, n) = dirs
  BY PrefixFacts
<1>3. T(0) = s
  BY <1>1, <1>2, AddOneMore
<1>4. ASSUME NEW k \in 0..(n - 1), Done(k) PROVE Done(k + 1)
  <2>1. k \in 0..n /\ k + 1 \in DOMAIN dirs /\ k \in Nat
    BY <1>2
  <2>2. /\ SubSeq(dirs, 1, k) \in Seq(Dirs) /\ dirs[k + 1] \in Dirs
        /\ SubSeq(dirs, 1, k + 1) = Append(SubSeq(dirs, 1, k), dirs[k + 1])
    BY <2>1, PrefixFacts
  <2>3. T(k + 1) = AddIncludeIfMissing(T(k), dirs[k + 1])
    <3> DEFINE q == SubSeq(dirs, 1, k)
               x == dirs[k + 1]
    <3>1. T(k + 1) = FoldOf(Adding, s, Append(q, x))
      BY <2>2
    <3>2. q \in Seq(Dirs) /\ x \in Dirs
      BY <2>2
    <3>3. FoldOf(Adding, s, Append(q, x)) = AddIncludeIfMissing(FoldOf(Adding, s, q), x)
      <4> HIDE DEF q, x
      <4> QED BY <1>1, <3>2, AddOneMore
    <3> QED BY <3>1, <3>3
  <2>4. dirs[k + 1] \in Seq(Texts)
    BY <2>2 DEF Dirs
  <2> HIDE DEF T
  <2>5. /\ Completes(T(k + 1), s) /\ LooksIn(CompilerReads(T(k + 1)), Place(dirs[k + 1]))
        /\ \A w : LooksIn(CompilerReads(T(k)), w) => LooksIn(CompilerReads(T(k + 1)), w)
    BY <1>4, <2>3, <2>4, CompletesMore
  <2>6. ASSUME NEW i \in 1..(k + 1) PROVE LooksIn(CompilerReads(T(k + 1)), Place(dirs[i]))
    <3>1. CASE i = k + 1
      BY <2>5, <3>1
    <3>2. CASE i # k + 1
      <4>1. i \in 1..k
        BY <2>1, <3>2
      <4>2. LooksIn(CompilerReads(T(k)), Place(dirs[i]))
        BY <1>4, <4>1
      <4> QED BY <2>5, <4>2
    <3> QED BY <3>1, <3>2
  <2> QED BY <2>5, <2>6
<1>5. Done(0)
  <2>1. 1..0 = {}
    OBVIOUS
  <2>2. Completes(T(0), s)
    BY <1>3, CompletesItself
  <2> QED BY <2>1, <2>2
<1>6. n \in S
  <2> HIDE DEF Done
  <2>1. 0 \in S
    BY <1>2, <1>5
  <2>2. ASSUME NEW k \in 0..(n - 1), k \in S PROVE k + 1 \in S
    <3>1. k + 1 \in 0..n
      BY <1>2
    <3> QED BY <1>4, <2>2, <3>1
  <2> HIDE DEF S, n
  <2>3. \A k \in 0..n : k \in S
    BY <1>2, <2>1, <2>2, UpTo
  <2> QED BY <1>2, <2>3
<1>7. T(n) = AddAll(s, dirs)
  BY <1>1, <1>2, AddIsFold
<1>8. Done(n)
  BY <1>6
<1> QED BY <1>7, <1>8

\* Arguments are completed for a unit.
LEMMA Completed ==
    ASSUME NEW s, Closed(s), NEW dirs \in Seq(Dirs), NEW parent \in Dirs
    PROVE  LET t == AddIncludes(s, dirs, parent) IN
           /\ Completes(t, s)
           /\ \A i \in 1..Len(dirs) : LooksIn(CompilerReads(t), Place(dirs[i]))
           /\ LooksIn(CompilerReads(t), Place(parent))
<1> DEFINE t == AddAll(s, dirs)
           u == AddIncludes(s, dirs, parent)
<1>1. Completes(t, s) /\ \A i \in 1..Len(dirs) : LooksIn(CompilerReads(t), Place(dirs[i]))
  BY AllAdded
<1>2. u = AddIncludeIfMissing(t, parent)
  BY DEF AddIncludes, AddAll
<1> HIDE DEF t, u
<1>3. /\ Completes(u, s) /\ LooksIn(CompilerReads(u), Place(parent))
      /\ \A w : LooksIn(CompilerReads(t), w) => LooksIn(CompilerReads(u), w)
  BY <1>1, <1>2, CompletesMore DEF Dirs
<1> QED BY <1>1, <1>3 DEF u

(***************************************************************************)
(* The defaults                                                            *)
(***************************************************************************)

LanguageArgs(words) ==
    IF \E i \in DOMAIN words : words[i] = LanguageFlag THEN <<>> ELSE <<LanguageFlag, DefaultLanguage>>
StandardArgs(words) == IF \E i \in DOMAIN words : words[i].opt = "-std=" THEN <<>> ELSE <<StandardFlag>>

\* The arguments of a unit are completed ones, after the defaults.
LEMMA CollectIsCompletion ==
    ASSUME NEW words, NEW dirs, NEW parent
    PROVE  CollectClangArgs(words, dirs, parent)
              = AddIncludes(words \o LanguageArgs(words) \o StandardArgs(words), dirs, parent)
BY DEF CollectClangArgs, LanguageArgs, StandardArgs, LanguageFlag, DefaultLanguage, StandardFlag

\* Resolution changes neither the language nor the standard.
LEMMA FlagsStay ==
    ASSUME NEW env, NEW raw, Plain0(env, raw)
    PROVE  LET r == ResolveClangArgs(env, raw) IN
           /\ DOMAIN r = DOMAIN raw
           /\ \A i \in DOMAIN raw : (r[i] = LanguageFlag <=> IsLanguageFlag(raw[i]))
                                    /\ (r[i].opt = "-std=" <=> IsStandardFlag(raw[i]))
<1> DEFINE r == ResolveClangArgs(env, raw)
<1>1. /\ r \in Seq(Words) /\ Len(r) = Len(raw) /\ DOMAIN raw = 1..Len(raw)
      /\ \A k \in DOMAIN raw : ResolvedTo(env, raw[k], r[k], k > 1 /\ IsInclude(raw[k - 1]) /\ raw[k - 1].kind = "none")
  BY PlainResolved
<1>2. DOMAIN r = DOMAIN raw
  BY <1>1
<1> HIDE DEF r
<1>3. ASSUME NEW k \in DOMAIN raw
      PROVE  (r[k] = LanguageFlag <=> IsLanguageFlag(raw[k])) /\ (r[k].opt = "-std=" <=> IsStandardFlag(raw[k]))
  <2> DEFINE value == k > 1 /\ IsInclude(raw[k - 1]) /\ raw[k - 1].kind = "none"
  <2>1. ResolvedTo(env, raw[k], r[k], value)
    BY <1>1
  <2> HIDE DEF value
  <2>2. LanguageFlag.kind = "none" /\ (IsLanguageFlag(raw[k]) <=> raw[k] = LanguageFlag)
    <3>1. IsLanguageFlag(raw[k]) <=> raw[k] = LanguageFlag
      BY DEF IsLanguageFlag, LanguageFlag
    <3> QED BY <3>1, DefaultWords
  <2>3. CASE raw[k].kind = "none"
    BY <2>1, <2>2, <2>3 DEF ResolvedTo, IsStandardFlag
  <2>4. CASE raw[k].kind # "none"
    <3>1. Values(env) /\ PlainWord(env, raw[k])
      BY <2>1, <2>4 DEF ResolvedTo, Plain0
    <3> DEFINE e == Expand(env, raw[k])
    <3>2. e.opt = raw[k].opt /\ e.kind \in {"rel", "abs"}
      BY <3>1, ExpandPlain
    <3>3. r[k] = IF value \/ IsInclude(raw[k]) THEN Word(raw[k].opt, "abs", At(Base, e)) ELSE e
      BY <2>1, <2>4 DEF ResolvedTo
    <3> HIDE DEF e
    <3>4. r[k].opt = raw[k].opt /\ r[k].kind # "none"
      BY <3>2, <3>3 DEF Word
    <3> QED BY <2>2, <2>4, <3>4 DEF IsStandardFlag
  <2> QED BY <2>3, <2>4
<1> QED BY <1>2, <1>3 DEF r

(***************************************************************************)
(* What libclang reads                                                     *)
(***************************************************************************)

\* Nothing is appended.
LEMMA NothingAppended ==
    ASSUME NEW S, NEW s \in Seq(S)
    PROVE  s \o <<>> = s
OBVIOUS

\* A default where nothing was given.
OrDefault(w, d) == IF w = Nothing THEN d ELSE w

\* The resolved arguments with the defaults are read as the configuration means them.
LEMMA Defaulted ==
    ASSUME NEW env, NEW raw, Plain0(env, raw), CompilerReads(Expanded(env, raw)).open = ""
    PROVE  LET r == ResolveClangArgs(env, raw)
               line == r \o LanguageArgs(r) \o StandardArgs(r)
               m == CompilerReads(Expanded(env, raw))
               a == CompilerReads(r)
               b == CompilerReads(line)
           IN  /\ Alike(a, m) /\ Closed(line) /\ SameRest(b, a) /\ b.dirs = a.dirs
               /\ b.language = OrDefault(m.language, DefaultLanguage)
               /\ b.standard = OrDefault(m.standard, DefaultStandard)
<1> DEFINE r == ResolveClangArgs(env, raw)
           x == Expanded(env, raw)
           n == Len(raw)
           l == r \o LanguageArgs(r)
           line == l \o StandardArgs(r)
           m == CompilerReads(x)
           a == CompilerReads(r)
           c == CompilerReads(l)
           b == CompilerReads(line)
<1>1. /\ n \in Nat /\ r \in Seq(Words) /\ x \in Seq(Words) /\ Len(r) = n /\ Len(x) = n
      /\ DOMAIN raw = 1..n /\ DOMAIN r = DOMAIN raw
  BY ExpandedWords, PlainResolved, FlagsStay
<1>2. AlikeUpTo(env, raw, n)
  BY AllRead
<1>3. Reads(r, n) = a /\ Reads(x, n) = m
  BY <1>1, ReadsSteps
<1>4. /\ Alike(a, m)
      /\ LanguageSet(m) <=> \E i \in 1..n : IsLanguageFlag(raw[i])
      /\ StandardSet(m) <=> \E i \in 1..n : IsStandardFlag(raw[i])
  BY <1>2, <1>3 DEF AlikeUpTo
<1>5. Closed(r)
  <2>1. a.open = m.open /\ m.open = ""
    BY <1>4 DEF Alike
  <2>2. Agrees(r)
    BY PlainAgrees
  <2> QED BY <1>1, <2>1, <2>2 DEF Closed
<1>6. /\ (\E i \in DOMAIN r : r[i] = LanguageFlag) <=> m.language # Nothing
      /\ (\E i \in DOMAIN r : r[i].opt = "-std=") <=> m.standard # Nothing
  <2>1. \A i \in DOMAIN raw : (r[i] = LanguageFlag <=> IsLanguageFlag(raw[i]))
                              /\ (r[i].opt = "-std=" <=> IsStandardFlag(raw[i]))
    BY FlagsStay
  <2>2. m.open = ""
    OBVIOUS
  <2> HIDE DEF r, m
  <2> QED BY <1>1, <1>4, <2>1, <2>2 DEF LanguageSet, StandardSet
<1>7. a.language = m.language /\ a.standard = m.standard
  BY <1>4 DEF Alike
<1> HIDE DEF r, x, m
<1>8. /\ Closed(l) /\ SameRest(c, a) /\ c.dirs = a.dirs
      /\ c.language = OrDefault(m.language, DefaultLanguage) /\ c.standard = a.standard
  <2>1. CASE m.language = Nothing
    <3>1. l = r \o <<LanguageFlag, DefaultLanguage>>
      BY <1>6, <2>1 DEF LanguageArgs
    <3> HIDE DEF l
    <3> QED BY <1>5, <2>1, <3>1, LanguageAdded DEF OrDefault
  <2>2. CASE m.language # Nothing
    <3>1. l = r \o <<>>
      BY <1>6, <2>2 DEF LanguageArgs
    <3>2. l = r
      BY <1>1, <3>1, NothingAppended
    <3> HIDE DEF l
    <3> QED BY <1>5, <1>7, <2>2, <3>2 DEF OrDefault, SameRest
  <2> QED BY <2>1, <2>2
<1> HIDE DEF l
<1>9. /\ Closed(line) /\ SameRest(b, c) /\ b.dirs = c.dirs
      /\ b.language = c.language /\ b.standard = OrDefault(m.standard, DefaultStandard)
  <2>1. CASE m.standard = Nothing
    <3>1. line = l \o <<StandardFlag>>
      BY <1>6, <2>1 DEF StandardArgs
    <3> HIDE DEF line
    <3> QED BY <1>8, <2>1, <3>1, StandardAdded DEF OrDefault
  <2>2. CASE m.standard # Nothing
    <3>1. line = l \o <<>>
      BY <1>6, <2>2 DEF StandardArgs
    <3>2. line = l
      <4>1. l \in Seq(Words)
        BY <1>8 DEF Closed
      <4> QED BY <3>1, <4>1, NothingAppended
    <3> HIDE DEF line
    <3> QED BY <1>7, <1>8, <2>2, <3>2 DEF OrDefault, SameRest
  <2> QED BY <2>1, <2>2
<1>10. SameRest(b, a) /\ b.dirs = a.dirs /\ b.language = OrDefault(m.language, DefaultLanguage)
  BY <1>8, <1>9 DEF SameRest
<1> HIDE DEF a, b, c, line
<1> QED BY <1>4, <1>9, <1>10 DEF r, x, m, a, b, line, l

\* What is read of a unit's arguments: as configured, then more places, each once.
ReadsAsMeant(b, m, dirs, parent) ==
    /\ b \in Accumulators /\ m \in Accumulators
    /\ b.open = "" /\ b.files = m.files /\ b.defines = m.defines
    /\ b.language = OrDefault(m.language, DefaultLanguage)
    /\ b.standard = OrDefault(m.standard, DefaultStandard)
    /\ \E ds \in Seq(Words) : SamePlaces(ds, m.dirs) /\ Grown(ds, b.dirs)
    /\ SamePlaces(b.systemDirs, m.systemDirs)
    /\ \A i \in 1..Len(dirs) : LooksIn(b, Place(dirs[i]))
    /\ LooksIn(b, Place(parent))

\* That is what is read.
LEMMA CollectedReads ==
    ASSUME NEW env, NEW raw, Plain0(env, raw), CompilerReads(Expanded(env, raw)).open = "",
           NEW dirs \in Seq(Dirs), NEW parent \in Dirs
    PROVE  ReadsAsMeant(CompilerReads(CollectClangArgs(ResolveClangArgs(env, raw), dirs, parent)),
                        CompilerReads(Expanded(env, raw)), dirs, parent)
<1> DEFINE r == ResolveClangArgs(env, raw)
           line == r \o LanguageArgs(r) \o StandardArgs(r)
           t == AddIncludes(line, dirs, parent)
           m == CompilerReads(Expanded(env, raw))
           a == CompilerReads(r)
           b == CompilerReads(line)
           c == CompilerReads(t)
<1>1. /\ Alike(a, m) /\ Closed(line) /\ SameRest(b, a) /\ b.dirs = a.dirs
      /\ b.language = OrDefault(m.language, DefaultLanguage)
      /\ b.standard = OrDefault(m.standard, DefaultStandard)
  BY Defaulted
<1>2. CollectClangArgs(r, dirs, parent) = t
  BY CollectIsCompletion
<1> HIDE DEF r, line, a, b, m
<1>3. /\ Completes(t, line)
      /\ \A i \in 1..Len(dirs) : LooksIn(c, Place(dirs[i]))
      /\ LooksIn(c, Place(parent))
  BY <1>1, Completed
<1> HIDE DEF t, c
<1>4. /\ Closed(t) /\ SameRest(c, b) /\ c.language = b.language /\ c.standard = b.standard
      /\ Grown(b.dirs, c.dirs)
  BY <1>3 DEF Completes, c, b
<1>5. c.open = "" /\ c \in Accumulators
  BY <1>4, ReadsOneMore DEF Closed, c
<1>6. /\ a \in Accumulators /\ m \in Accumulators /\ a.files = m.files /\ a.defines = m.defines
      /\ SamePlaces(a.dirs, m.dirs) /\ SamePlaces(a.systemDirs, m.systemDirs)
  BY <1>1 DEF Alike
<1>7. a.dirs \in Seq(Words)
  BY <1>6 DEF Accumulators
<1>8. SamePlaces(a.dirs, m.dirs) /\ Grown(a.dirs, c.dirs)
  BY <1>1, <1>4, <1>6
<1>9. c.systemDirs = a.systemDirs /\ c.files = a.files /\ c.defines = a.defines
  BY <1>1, <1>4 DEF SameRest
<1>10. ReadsAsMeant(c, m, dirs, parent)
  BY <1>1, <1>3, <1>4, <1>5, <1>6, <1>7, <1>8, <1>9 DEF ReadsAsMeant
<1> QED BY <1>2, <1>10 DEF r, m, c

\* Where places lead, from anywhere.
LEMMA PlacesLead ==
    ASSUME NEW ds \in Seq(Words), NEW es \in Seq(Words), SamePlaces(ds, es)
    PROVE  /\ AllAt(<<>>, ds) = AllAt(Base, es)
           /\ AllAt(<<>>, ds) \in Seq(Seq(Texts)) /\ Len(AllAt(<<>>, ds)) = Len(es)
           /\ \A i \in 1..Len(ds) : ds[i] = Place(AllAt(<<>>, ds)[i])
<1> DEFINE n == Len(es)
           p == AllAt(<<>>, ds)
           q == AllAt(Base, es)
<1>1. n \in Nat /\ DOMAIN ds = 1..n /\ DOMAIN es = 1..n /\ Len(ds) = n
  BY DEF SamePlaces
<1>2. p = [i \in 1..n |-> At(<<>>, ds[i])] /\ q = [i \in 1..n |-> At(Base, es[i])]
  BY <1>1 DEF AllAt
<1> HIDE DEF p, q
<1>3. ASSUME NEW i \in 1..n
      PROVE  p[i] = q[i] /\ p[i] \in Seq(Texts) /\ ds[i] = Place(p[i])
  <2>1. Reaches(ds[i], es[i]) /\ ds[i] \in Words
    BY <1>1 DEF SamePlaces
  <2>2. ds[i] = Word("", "abs", At(Base, es[i]))
    BY <2>1 DEF Reaches
  <2>3. ds[i].kind = "abs" /\ ds[i].name = At(Base, es[i]) /\ ds[i].name \in Seq(Texts)
    <3>1. Word("", "abs", At(Base, es[i])).kind = "abs" /\ Word("", "abs", At(Base, es[i])).name = At(Base, es[i])
      BY DEF Word
    <3>2. ds[i].name \in Seq(Texts)
      BY <2>1 DEF Words
    <3> HIDE DEF n
    <3> QED BY <2>2, <3>1, <3>2
  <2>4. At(<<>>, ds[i]) = ds[i].name
    BY <2>3, PathAt
  <2>5. p[i] = At(<<>>, ds[i]) /\ q[i] = At(Base, es[i])
    BY <1>2
  <2> QED BY <2>2, <2>3, <2>4, <2>5 DEF Place
<1> HIDE DEF n
<1>4. p = q
  BY <1>2, <1>3
<1>5. p \in [1..n -> Seq(Texts)]
  BY <1>2, <1>3
<1>6. p \in Seq(Seq(Texts)) /\ Len(p) = n
  BY <1>1, <1>5
<1> QED BY <1>1, <1>3, <1>4, <1>6 DEF n, p, q

\* The first elements of a sequence.
LEMMA PrefixIs ==
    ASSUME NEW S, NEW s \in Seq(S), NEW k \in 0..Len(s)
    PROVE  SubSeq(s, 1, k) = [i \in 1..k |-> s[i]] /\ Len(SubSeq(s, 1, k)) = k
OBVIOUS

\* A place's path.
LEMMA PlaceLeads ==
    ASSUME NEW dir
    PROVE  At(<<>>, Place(dir)) = dir /\ Place(dir).name = dir
<1>1. Place(dir).kind = "abs" /\ Place(dir).name = dir
  BY DEF Place, Word
<1> QED BY <1>1, PathAt

\* Directories that grew lead to the configured places first, then to others,
\* each once.
LEMMA GrownLead ==
    ASSUME NEW ds \in Seq(Words), NEW es \in Seq(Words), SamePlaces(ds, es), NEW bs, Grown(ds, bs)
    PROVE  LET places == AllAt(<<>>, bs) IN
           /\ places \in Seq(Seq(Texts)) /\ Len(places) = Len(bs)
           /\ \A i \in 1..Len(bs) : bs[i] = Place(places[i])
           /\ SubSeq(places, 1, Len(es)) = AllAt(Base, es)
           /\ \A i \in Len(es) + 1..Len(places) : ~Contains(SubSeq(places, 1, i - 1), places[i])
<1> DEFINE n == Len(es)
           p == AllAt(<<>>, bs)
           o == AllAt(<<>>, ds)
           b == Len(bs)
<1>1. n \in Nat /\ Len(ds) = n /\ bs \in Seq(Words) /\ b \in Nat /\ n <= b /\ DOMAIN bs = 1..b
  <2>1. Len(ds) = n /\ bs \in Seq(Words) /\ Len(ds) <= b
    BY DEF Grown, SamePlaces
  <2> QED BY <2>1
<1>2. /\ o = AllAt(Base, es) /\ o \in Seq(Seq(Texts)) /\ Len(o) = n
      /\ \A i \in 1..n : ds[i] = Place(o[i])
  BY <1>1, PlacesLead
<1>3. p = [i \in 1..b |-> At(<<>>, bs[i])]
  BY <1>1 DEF AllAt
<1>4. /\ \A i \in 1..n : bs[i] = ds[i]
      /\ \A i \in (n + 1)..b : /\ \E dir \in Seq(Texts) : bs[i] = Place(dir)
                               /\ \A j \in 1..(i - 1) : bs[j] # bs[i]
  BY <1>1 DEF Grown
<1> HIDE DEF p, o, n, b
<1>5. ASSUME NEW i \in 1..b PROVE \E dir \in Seq(Texts) : bs[i] = Place(dir)
  <2>1. CASE i \in 1..n
    <3>1. o[i] \in Seq(Texts)
      BY <1>2, <2>1, ElementOf
    <3> QED BY <1>2, <1>4, <2>1, <3>1
  <2>2. CASE i \notin 1..n
    <3>1. i \in (n + 1)..b
      BY <1>1, <2>2
    <3> QED BY <1>4, <3>1
  <2> QED BY <2>1, <2>2
<1>6. ASSUME NEW i \in 1..b PROVE p[i] \in Seq(Texts) /\ bs[i] = Place(p[i])
  <2>1. PICK dir \in Seq(Texts) : bs[i] = Place(dir)
    BY <1>5
  <2>2. p[i] = dir
    BY <1>3, <2>1, PlaceLeads
  <2> QED BY <2>1, <2>2
<1>7. p \in [1..b -> Seq(Texts)]
  BY <1>3, <1>6
<1>8. p \in Seq(Seq(Texts)) /\ Len(p) = b
  BY <1>1, <1>7
<1>9. \A i \in 1..n : p[i] = o[i]
  <2>1. ASSUME NEW i \in 1..n PROVE p[i] = o[i]
    <3>1. i \in 1..b /\ bs[i] = Place(o[i])
      BY <1>1, <1>2, <1>4
    <3> QED BY <1>3, <3>1, PlaceLeads
  <2> QED BY <2>1
<1>10. SubSeq(p, 1, n) = o
  <2>1. o = [i \in 1..n |-> o[i]]
    BY <1>1, <1>2
  <2>2. SubSeq(p, 1, n) = [i \in 1..n |-> p[i]]
    BY <1>1, <1>8, PrefixIs
  <2> QED BY <1>9, <2>1, <2>2
<1>11. ASSUME NEW i \in (n + 1)..Len(p) PROVE ~Contains(SubSeq(p, 1, i - 1), p[i])
  <2>1. i \in 1..b /\ i \in (n + 1)..b /\ i - 1 \in 0..b /\ \A j \in 1..(i - 1) : j \in 1..b
    BY <1>1, <1>8
  <2>2. SubSeq(p, 1, i - 1) = [j \in 1..(i - 1) |-> p[j]] /\ Len(SubSeq(p, 1, i - 1)) = i - 1
    BY <1>8, <2>1, PrefixIs
  <2>3. \A j \in 1..(i - 1) : p[j] # p[i]
    <3>1. ASSUME NEW j \in 1..(i - 1) PROVE p[j] # p[i]
      <4>1. bs[j] # bs[i] /\ bs[j] = Place(p[j]) /\ bs[i] = Place(p[i])
        BY <1>4, <1>6, <2>1
      <4> QED BY <4>1
    <3> QED BY <3>1
  <2> QED BY <2>2, <2>3 DEF Contains
<1> QED BY <1>2, <1>6, <1>8, <1>10, <1>11 DEF n, p, b

(***************************************************************************)
(* Where paths lead                                                        *)
(***************************************************************************)

\* Walking is the fold of a function.
Walking == [p \in Seq(Texts) \X Texts |-> StepTo(p[1], p[2])]

\* A step leads somewhere.
LEMMA StepType ==
    ASSUME NEW at \in Seq(Texts), NEW c \in Texts
    PROVE  /\ StepTo(at, c) \in Seq(Texts)
           /\ Walking[<<at, c>>] = StepTo(at, c)
           /\ c # ".." => StepTo(at, c) = Append(at, c)
           /\ c = ".." => StepTo(at, c) = Front(at)
<1>1. Append(at, c) \in Seq(Texts)
  OBVIOUS
<1>2. Front(at) \in Seq(Texts)
  <2>1. CASE at = <<>>
    BY <2>1 DEF Front
  <2>2. CASE at # <<>>
    <3>1. Len(at) - 1 \in 0..Len(at)
      BY <2>2
    <3> QED BY <3>1, PrefixFacts DEF Front
  <2> QED BY <2>1, <2>2
<1>3. StepTo(at, c) \in Seq(Texts)
  BY <1>1, <1>2 DEF StepTo
<1>4. <<at, c>> \in Seq(Texts) \X Texts
  OBVIOUS
<1> QED BY <1>3, <1>4 DEF Walking, StepTo

\* Where a path leads, as the fold of a function.
LEMMA WalkIsFold ==
    ASSUME NEW s \in Seq(Texts)
    PROVE  /\ IsFolding(Walking, <<>>, Seq(Texts), Texts)
           /\ Walk(s) = FoldOf(Walking, <<>>, s)
<1> DEFINE n == Len(s)
           it == CHOOSE it : it = [T \in SUBSET DOMAIN s |->
                                      IF T = {} THEN <<>> ELSE StepTo(it[T \ {Max(T)}], s[Max(T)])]
<1>1. IsFolding(Walking, <<>>, Seq(Texts), Texts)
  <2>1. \A at \in Seq(Texts), c \in Texts : StepTo(at, c) \in Seq(Texts)
    BY StepType
  <2> QED BY <2>1 DEF IsFolding, Walking
<1>2. PICK g \in [SUBSET (1..n) -> Seq(Texts)] : IsFold(g, Walking, <<>>, s)
  BY <1>1, FoldExists
<1>3. FoldOf(Walking, <<>>, s) = g[1..n]
  BY <1>2, FoldIs
<1>4. n \in Nat /\ DOMAIN s = 1..n /\ \A i \in 1..n : s[i] \in Texts
  OBVIOUS
<1>5. Walk(s) = it[DOMAIN s]
  BY DEF Walk, FoldLeft, MapThenFoldSet
<1>6. ASSUME NEW T \in SUBSET (1..n), T # {}
      PROVE  g[T] = StepTo(g[T \ {Max(T)}], s[Max(T)])
  <2>1. Max(T) \in 1..n /\ s[Max(T)] \in Texts /\ g[T \ {Max(T)}] \in Seq(Texts)
    BY <1>4, <1>6, LastPlace
  <2>2. g[T] = Walking[<<g[T \ {Max(T)}], s[Max(T)]>>]
    BY <1>2, <1>6 DEF IsFold
  <2> QED BY <2>1, <2>2, StepType
<1>7. g[{}] = <<>> /\ {} \in SUBSET (1..n)
  BY <1>2 DEF IsFold
<1>8. g = [T \in SUBSET DOMAIN s |-> IF T = {} THEN <<>> ELSE StepTo(g[T \ {Max(T)}], s[Max(T)])]
  BY <1>4, <1>6, <1>7
<1>9. it = [T \in SUBSET DOMAIN s |-> IF T = {} THEN <<>> ELSE StepTo(it[T \ {Max(T)}], s[Max(T)])]
  BY <1>8
<1> HIDE DEF it
<1>10. SameStep(it, g, n)
  <2>1. it[{}] = g[{}]
    BY <1>4, <1>7, <1>9
  <2>2. ASSUME NEW T \in SUBSET (1..n), T # {}, it[T \ {Max(T)}] = g[T \ {Max(T)}]
        PROVE  it[T] = g[T]
    BY <1>4, <1>6, <1>9, <2>2
  <2> QED BY <2>1, <2>2 DEF SameStep
<1>11. it[1..n] = g[1..n]
  BY <1>4, <1>10, SameFold
<1> QED BY <1>1, <1>3, <1>4, <1>5, <1>11

\* Walking, one component after the other.
LEMMA WalkOneMore ==
    /\ Walk(<<>>) = <<>>
    /\ \A s \in Seq(Texts) : Walk(s) \in Seq(Texts)
    /\ \A s \in Seq(Texts), c \in Texts : Walk(Append(s, c)) = StepTo(Walk(s), c)
<1>0. ".." \in Texts
  BY TextsAssumption
<1>1. IsFolding(Walking, <<>>, Seq(Texts), Texts)
  <2>1. <<>> \in Seq(Texts)
    OBVIOUS
  <2> QED BY <2>1, WalkIsFold
<1>2. Walk(<<>>) = <<>>
  <2>1. <<>> \in Seq(Texts)
    OBVIOUS
  <2>2. FoldOf(Walking, <<>>, <<>>) = <<>>
    BY <1>1, FoldOfNothing
  <2> QED BY <2>1, <2>2, WalkIsFold
<1>3. ASSUME NEW s \in Seq(Texts), NEW c \in Texts
      PROVE  Walk(s) \in Seq(Texts) /\ Walk(Append(s, c)) = StepTo(Walk(s), c)
  <2>1. Append(s, c) \in Seq(Texts)
    OBVIOUS
  <2>2. Walk(s) = FoldOf(Walking, <<>>, s) /\ Walk(Append(s, c)) = FoldOf(Walking, <<>>, Append(s, c))
    BY <2>1, WalkIsFold
  <2>3. /\ FoldOf(Walking, <<>>, s) \in Seq(Texts)
        /\ FoldOf(Walking, <<>>, Append(s, c)) = Walking[<<FoldOf(Walking, <<>>, s), c>>]
    BY <1>1, FoldOfOneMore
  <2> QED BY <2>2, <2>3, StepType
<1> QED BY <1>0, <1>2, <1>3

\* Where the first components of a path lead.
LEMMA WalkSteps ==
    ASSUME NEW s \in Seq(Texts), NEW k \in 0..(Len(s) - 1)
    PROVE  /\ Walk(SubSeq(s, 1, k)) \in Seq(Texts)
           /\ Walk(SubSeq(s, 1, k + 1)) = StepTo(Walk(SubSeq(s, 1, k)), s[k + 1])
<1> DEFINE t == SubSeq(s, 1, k)
<1>1. k \in 0..Len(s)
  OBVIOUS
<1>2. t \in Seq(Texts) /\ s[k + 1] \in Texts /\ SubSeq(s, 1, k + 1) = Append(t, s[k + 1])
  BY <1>1, PrefixFacts
<1> HIDE DEF t
<1>3. Walk(t) \in Seq(Texts) /\ Walk(SubSeq(s, 1, k + 1)) = StepTo(Walk(t), s[k + 1])
  BY <1>2, WalkOneMore
<1> QED BY <1>3 DEF t

\* A path without a step up leads to itself, and so do its beginnings.
LEMMA WalkDown ==
    ASSUME NEW s \in Seq(Texts), ~Contains(s, "..")
    PROVE  \A k \in 0..Len(s) : Walk(SubSeq(s, 1, k)) = SubSeq(s, 1, k)
<1> DEFINE S == {k \in Nat : Walk(SubSeq(s, 1, k)) = SubSeq(s, 1, k)}
           n == Len(s)
<1>0. n \in Nat
  OBVIOUS
<1>1. 0 \in S
  BY WalkOneMore, PrefixFacts
<1>2. ASSUME NEW k \in 0..(n - 1), k \in S PROVE k + 1 \in S
  <2>1. k + 1 \in 1..Len(s) /\ k + 1 \in Nat /\ k \in 0..Len(s)
    BY <1>0
  <2>2. s[k + 1] # ".." /\ s[k + 1] \in Texts
    BY <2>1 DEF Contains
  <2>3. Walk(SubSeq(s, 1, k + 1)) = StepTo(Walk(SubSeq(s, 1, k)), s[k + 1])
    BY WalkSteps
  <2>4. SubSeq(s, 1, k) \in Seq(Texts) /\ SubSeq(s, 1, k + 1) = Append(SubSeq(s, 1, k), s[k + 1])
    BY <2>1, PrefixFacts
  <2>5. Walk(SubSeq(s, 1, k)) = SubSeq(s, 1, k)
    BY <1>2
  <2> QED BY <2>1, <2>2, <2>3, <2>4, <2>5, StepType
<1>3. \A k \in 0..n : k \in S
  <2> HIDE DEF S, n
  <2> QED BY <1>0, <1>1, <1>2, UpTo
<1> QED BY <1>3

\* The beginning of a sequence without its last element.
LEMMA FrontOfPrefix ==
    ASSUME NEW S, NEW s \in Seq(S), NEW k \in 1..Len(s)
    PROVE  Front(SubSeq(s, 1, k)) = SubSeq(s, 1, k - 1)
<1> DEFINE t == SubSeq(s, 1, k)
<1>1. Len(t) = k /\ t \in Seq(S) /\ k - 1 \in 0..Len(s) /\ k \in Nat
  BY PrefixFacts
<1>2. Front(t) = SubSeq(t, 1, k - 1)
  BY <1>1 DEF Front
<1>3. SubSeq(t, 1, k - 1) = SubSeq(s, 1, k - 1)
  <2> DEFINE a == SubSeq(t, 1, k - 1)
             b == SubSeq(s, 1, k - 1)
  <2>1. a \in Seq(S) /\ b \in Seq(S) /\ Len(a) = k - 1 /\ Len(b) = k - 1
    <3>1. k - 1 \in 0..Len(t)
      BY <1>1
    <3> QED BY <1>1, <3>1, PrefixFacts
  <2>2. ASSUME NEW i \in 1..(k - 1) PROVE a[i] = b[i]
    <3>1. i \in 1..k
      BY <1>1
    <3> QED BY <1>1, <3>1
  <2> HIDE DEF a, b
  <2>3. a = b
    BY <1>1, <2>1, <2>2
  <2> QED BY <2>3 DEF a, b
<1> QED BY <1>2, <1>3

\* The longest common beginning of two paths is one.
LEMMA CommonPrefix ==
    ASSUME NEW p \in Seq(Texts), NEW b \in Seq(Texts)
    PROVE  \E c \in Nat : /\ c <= Len(p) /\ c <= Len(b) /\ SubSeq(p, 1, c) = SubSeq(b, 1, c)
                          /\ LongestCommonPrefix({p, b}) = SubSeq(b, 1, c)
                          /\ Len(LongestCommonPrefix({p, b})) = c
<1> DEFINE C == CommonPrefixes({p, b})
           Ls == {Len(x) : x \in C}
<1>1. ASSUME NEW x \in C
      PROVE  \E c \in Nat : /\ c <= Len(p) /\ c <= Len(b) /\ SubSeq(p, 1, c) = SubSeq(b, 1, c)
                            /\ x = SubSeq(b, 1, c) /\ Len(x) = c
  <2>1. PICK q \in {p, b} : x \in Prefixes(q)
    BY DEF CommonPrefixes
  <2>2. PICK c \in 0..Len(q) : x = SubSeq(q, 1, c)
    BY <2>1 DEF Prefixes
  <2>3. q \in Seq(Texts) /\ c \in Nat /\ Len(x) = c
    BY <2>2, PrefixFacts
  <2>4. IsPrefix(x, p) /\ IsPrefix(x, b)
    BY DEF CommonPrefixes
  <2>5. Len(x) <= Len(p) /\ SubSeq(x, 1, Len(x)) = SubSeq(p, 1, Len(x))
    BY <2>4 DEF IsPrefix
  <2>6. Len(x) <= Len(b) /\ SubSeq(x, 1, Len(x)) = SubSeq(b, 1, Len(x))
    BY <2>4 DEF IsPrefix
  <2>7. x \in Seq(Texts)
    BY <2>2, <2>3, PrefixFacts
  <2>8. SubSeq(x, 1, Len(x)) = x
    BY <2>7, PrefixFacts
  <2> HIDE DEF C
  <2> QED BY <2>3, <2>5, <2>6, <2>8
<1>2. <<>> \in C
  <2>1. 0 \in 0..Len(p) /\ SubSeq(p, 1, 0) = <<>> /\ SubSeq(b, 1, 0) = <<>> /\ 0 <= Len(p) /\ 0 <= Len(b)
    BY PrefixFacts
  <2>2. <<>> \in Prefixes(p)
    BY <2>1 DEF Prefixes
  <2>3. Len(<<>>) = 0 /\ SubSeq(<<>>, 1, 0) = <<>>
    OBVIOUS
  <2>4. IsPrefix(<<>>, p) /\ IsPrefix(<<>>, b)
    BY <2>1, <2>3 DEF IsPrefix
  <2> QED BY <2>2, <2>4 DEF CommonPrefixes
<1> HIDE DEF C
<1>3. \E x \in C : \A y \in C : Len(y) <= Len(x)
  <2> DEFINE n == Len(b)
             D == {n - k : k \in Ls}
  <2>1. \A k \in Ls : k \in Nat /\ k <= n
    BY <1>1
  <2>2. n \in Nat
    OBVIOUS
  <2>3. D \subseteq Nat /\ D # {}
    <3> HIDE DEF n
    <3>1. \A k \in Ls : n - k \in Nat
      BY <2>1, <2>2
    <3>2. Len(<<>>) \in Ls
      BY <1>2
    <3> HIDE DEF Ls
    <3> QED BY <3>1, <3>2
  <2>4. PICK d \in D : \A e \in D : d <= e
    <3> HIDE DEF D
    <3> QED BY <2>3, LeastNumber
  <2>5. PICK k \in Ls : d = n - k
    BY <2>4
  <2>6. ASSUME NEW j \in Ls PROVE j <= k
    <3>1. n - k <= n - j
      BY <2>4, <2>5
    <3> HIDE DEF n, Ls
    <3> QED BY <2>1, <2>2, <3>1
  <2>7. PICK x \in C : Len(x) = k
    BY <2>5
  <2>8. \A y \in C : Len(y) \in Ls
    OBVIOUS
  <2> HIDE DEF n, D, Ls
  <2> QED BY <2>6, <2>7, <2>8
<1>4. LongestCommonPrefix({p, b}) \in C
  <2>1. LongestCommonPrefix({p, b}) = CHOOSE x \in C : \A y \in C : Len(y) <= Len(x)
    BY DEF LongestCommonPrefix, C
  <2> QED BY <1>3, <2>1
<1> QED BY <1>1, <1>4

\* One sequence after the other.
Joins(q, S, s, t) ==
    /\ q \in Seq(S) /\ Len(s) \in Nat /\ Len(t) \in Nat /\ Len(q) = Len(s) + Len(t)
    /\ \A i \in 1..Len(s) : q[i] = s[i]
    /\ \A i \in 1..Len(t) : q[Len(s) + i] = t[i]

\* A sequence that is followed by another one.
LEMMA ConcatFacts ==
    ASSUME NEW S, NEW s \in Seq(S), NEW t \in Seq(S)
    PROVE  Joins(s \o t, S, s, t)
BY DEF Joins

\* Three sequences.
JoinsThree(q, S, b, u, d) ==
    /\ q \in Seq(S) /\ Len(q) = (Len(b) + Len(u)) + Len(d)
    /\ \A i \in 1..Len(b) : q[i] = b[i]
    /\ \A i \in 1..Len(u) : q[Len(b) + i] = u[i]
    /\ \A i \in 1..Len(d) : q[(Len(b) + Len(u)) + i] = d[i]

\* A sequence in three parts.
LEMMA ThreeParts ==
    ASSUME NEW S, NEW b \in Seq(S), NEW u \in Seq(S), NEW d \in Seq(S)
    PROVE  JoinsThree(b \o (u \o d), S, b, u, d)
<1> DEFINE r == u \o d
           q == b \o r
<1>1. Joins(r, S, u, d)
  BY ConcatFacts
<1>a. r \in Seq(S)
  BY <1>1 DEF Joins
<1> HIDE DEF r
<1>2. Joins(q, S, b, r)
  BY <1>a, ConcatFacts
<1> HIDE DEF q
<1>3. ASSUME NEW i \in 1..Len(u) PROVE q[Len(b) + i] = u[i]
  <2>1. i \in 1..Len(r)
    BY <1>1 DEF Joins
  <2> QED BY <1>1, <1>2, <2>1 DEF Joins
<1>4. ASSUME NEW i \in 1..Len(d) PROVE q[(Len(b) + Len(u)) + i] = d[i]
  <2>1. Len(u) + i \in 1..Len(r) /\ (Len(b) + Len(u)) + i = Len(b) + (Len(u) + i)
    BY <1>1, <1>2 DEF Joins
  <2> QED BY <1>1, <1>2, <2>1 DEF Joins
<1>5. Len(q) = (Len(b) + Len(u)) + Len(d)
  BY <1>1, <1>2 DEF Joins
<1>6. q \in Seq(S) /\ \A i \in 1..Len(b) : q[i] = b[i]
  BY <1>2 DEF Joins
<1>7. JoinsThree(q, S, b, u, d)
  BY <1>3, <1>4, <1>5, <1>6 DEF JoinsThree
<1> QED BY <1>7 DEF q, r

\* The way from a directory to a path, by what they have in common.
Way(p, b, c) == [i \in 1..(Len(b) - c) |-> ".."] \o SubSeq(p, c + 1, Len(p))

\* A path that goes up and then down.
Winds(q, p, b, c) ==
    /\ q \in Seq(Texts) /\ Len(q) = (Len(b) + (Len(b) - c)) + (Len(p) - c)
    /\ \A i \in 1..Len(b) : q[i] = b[i]
    /\ \A i \in 1..(Len(b) - c) : q[Len(b) + i] = ".."
    /\ \A i \in 1..(Len(p) - c) : q[(Len(b) + (Len(b) - c)) + i] = p[c + i]

\* That is what it does.
LEMMA UpThenDown ==
    ASSUME NEW p \in Seq(Texts), NEW b \in Seq(Texts), NEW c \in Nat, c <= Len(p), c <= Len(b)
    PROVE  Way(p, b, c) \in Seq(Texts) /\ Winds(b \o Way(p, b, c), p, b, c)
<1> DEFINE n == Len(b)
           m == Len(p)
           u == [i \in 1..(n - c) |-> ".."]
           d == SubSeq(p, c + 1, m)
<1>0. n \in Nat /\ m \in Nat /\ n - c \in Nat /\ m - c \in Nat
  OBVIOUS
<1>1. ".." \in Texts
  BY TextsAssumption
<1>2. u \in Seq(Texts) /\ Len(u) = n - c /\ \A i \in 1..(n - c) : u[i] = ".."
  BY <1>0, <1>1
<1>3. d \in Seq(Texts) /\ Len(d) = m - c /\ \A i \in 1..(m - c) : d[i] = p[c + i]
  <2>1. \A i \in (c + 1)..m : p[i] \in Texts
    BY <1>0
  <2>2. Len(d) = m - c
    BY <1>0
  <2>3. d \in Seq(Texts)
    BY <1>0, <2>1
  <2>4. ASSUME NEW i \in 1..(m - c) PROVE d[i] = p[c + i]
    BY <1>0
  <2> QED BY <2>2, <2>3, <2>4
<1>w. Way(p, b, c) = u \o d
  BY DEF Way
<1> HIDE DEF u, d
<1>4. u \o d \in Seq(Texts)
  BY <1>2, <1>3, ConcatFacts DEF Joins
<1> DEFINE q == b \o (u \o d)
<1>5. JoinsThree(q, Texts, b, u, d)
  BY <1>2, <1>3, ThreeParts
<1> HIDE DEF q, n, m
<1>6. /\ q \in Seq(Texts) /\ Len(q) = (n + (n - c)) + (m - c)
      /\ \A i \in 1..n : q[i] = b[i]
      /\ \A i \in 1..(n - c) : q[n + i] = ".."
      /\ \A i \in 1..(m - c) : q[(n + (n - c)) + i] = p[c + i]
  BY <1>2, <1>3, <1>5 DEF JoinsThree, n
<1>7. Winds(q, p, b, c)
  BY <1>6 DEF Winds, n, m
<1> QED BY <1>4, <1>7, <1>w DEF q

\* A path that is relative to the package leads where the path leads.
LEMMA RelativeLeads ==
    ASSUME NEW p \in Seq(Texts)
    PROVE  /\ RelativePathFrom(p, OutputDir) \in Seq(Texts)
           /\ Walk(OutputDir \o RelativePathFrom(p, OutputDir)) = Walk(p)
<1>p. SUFFICES ASSUME NEW b \in Seq(Texts), ~Contains(b, "..")
               PROVE  /\ RelativePathFrom(p, b) \in Seq(Texts)
                      /\ Walk(b \o RelativePathFrom(p, b)) = Walk(p)
  BY TextsAssumption
<1> DEFINE n == Len(b)
           m == Len(p)
<1>0. n \in Nat /\ m \in Nat
  OBVIOUS
<1>1. PICK c \in Nat : /\ c <= m /\ c <= n /\ SubSeq(p, 1, c) = SubSeq(b, 1, c)
                       /\ LongestCommonPrefix({p, b}) = SubSeq(b, 1, c)
                       /\ Len(LongestCommonPrefix({p, b})) = c
  BY CommonPrefix
<1> DEFINE rel == Way(p, b, c)
           q == b \o rel
           l == n + (n - c)
<1>2. RelativePathFrom(p, b) = rel
  BY <1>1 DEF RelativePathFrom, Way
<1>3. /\ rel \in Seq(Texts) /\ q \in Seq(Texts) /\ Len(q) = l + (m - c)
      /\ \A i \in 1..n : q[i] = b[i]
      /\ \A i \in 1..(n - c) : q[n + i] = ".."
      /\ \A i \in 1..(m - c) : q[l + i] = p[c + i]
  <2>1. rel \in Seq(Texts) /\ Winds(q, p, b, c)
    BY <1>1, UpThenDown
  <2> HIDE DEF rel, q
  <2> QED BY <2>1 DEF Winds
<1> HIDE DEF rel, q
<1>4. Walk(SubSeq(q, 1, n)) = b
  <2>1. SubSeq(q, 1, n) = b
    <3> DEFINE t == SubSeq(q, 1, n)
    <3>1. n \in 0..Len(q)
      <4> HIDE DEF n, m
      <4> QED BY <1>0, <1>1, <1>3
    <3>2. t \in Seq(Texts) /\ Len(t) = n
      BY <1>3, <3>1, PrefixFacts
    <3>3. \A i \in 1..n : t[i] = q[i]
      BY <1>0, <1>3, <3>1
    <3> HIDE DEF t
    <3>4. \A i \in 1..n : t[i] = b[i]
      BY <1>3, <3>3
    <3>5. t = b
      BY <1>0, <3>2, <3>4
    <3> QED BY <3>5 DEF t
  <2>2. n \in 0..n /\ SubSeq(b, 1, n) = b
    BY <1>0, PrefixFacts
  <2>3. Walk(SubSeq(b, 1, n)) = SubSeq(b, 1, n)
    BY <1>p, <1>0, <2>2, WalkDown
  <2> QED BY <2>1, <2>2, <2>3
<1> DEFINE U == {j \in Nat : Walk(SubSeq(q, 1, n + j)) = SubSeq(b, 1, n - j)}
<1>5. \A j \in 0..(n - c) : j \in U
  <2>1. 0 \in U
    <3>1. n + 0 = n /\ n - 0 = n /\ SubSeq(b, 1, n) = b
      BY <1>0, PrefixFacts
    <3> HIDE DEF n
    <3> QED BY <1>4, <3>1
  <2>2. ASSUME NEW j \in 0..((n - c) - 1), j \in U PROVE j + 1 \in U
    <3> HIDE DEF n, m
    <3>1. /\ n + j \in 0..(Len(q) - 1) /\ j + 1 \in 1..(n - c) /\ n - j \in 1..n /\ j + 1 \in Nat
          /\ n + (j + 1) = (n + j) + 1 /\ n - (j + 1) = (n - j) - 1
      BY <1>0, <1>1, <1>3
    <3>2. Walk(SubSeq(q, 1, (n + j) + 1)) = StepTo(Walk(SubSeq(q, 1, n + j)), q[(n + j) + 1])
      BY <1>3, <3>1, WalkSteps
    <3>3. q[(n + j) + 1] = ".."
      BY <1>3, <3>1
    <3>4. Walk(SubSeq(q, 1, n + j)) = SubSeq(b, 1, n - j)
      BY <2>2
    <3>5. StepTo(SubSeq(b, 1, n - j), "..") = Front(SubSeq(b, 1, n - j))
      BY DEF StepTo
    <3>6. Front(SubSeq(b, 1, n - j)) = SubSeq(b, 1, (n - j) - 1)
      BY <1>0, <3>1, FrontOfPrefix DEF n
    <3> QED BY <3>1, <3>2, <3>3, <3>4, <3>5, <3>6
  <2>3. n - c \in Nat
    BY <1>0, <1>1
  <2> HIDE DEF n, m, U
  <2> QED BY <2>1, <2>2, <2>3, UpTo
<1>6. Walk(SubSeq(q, 1, l)) = Walk(SubSeq(p, 1, c))
  <2>1. n - c \in U
    <3> HIDE DEF U
    <3>1. n - c \in 0..(n - c)
      BY <1>0, <1>1
    <3> QED BY <1>5, <3>1
  <2>2. n - (n - c) = c /\ c \in 0..n
    BY <1>0, <1>1
  <2>3. Walk(SubSeq(q, 1, l)) = SubSeq(b, 1, c)
    BY <2>1, <2>2
  <2>4. Walk(SubSeq(b, 1, c)) = SubSeq(b, 1, c)
    BY <1>p, <1>0, <2>2, WalkDown
  <2> QED BY <1>1, <2>3, <2>4
<1> DEFINE D == {j \in Nat : Walk(SubSeq(q, 1, l + j)) = Walk(SubSeq(p, 1, c + j))}
<1>7. \A j \in 0..(m - c) : j \in D
  <2>1. 0 \in D
    <3>1. l + 0 = l /\ c + 0 = c
      BY <1>0, <1>1
    <3> HIDE DEF l
    <3> QED BY <1>6, <3>1
  <2>2. ASSUME NEW j \in 0..((m - c) - 1), j \in D PROVE j + 1 \in D
    <3>1. l \in Nat
      BY <1>0, <1>1
    <3> HIDE DEF n, m, l
    <3>2. /\ l + j \in 0..(Len(q) - 1) /\ c + j \in 0..(m - 1) /\ j + 1 \in 1..(m - c) /\ j + 1 \in Nat
          /\ l + (j + 1) = (l + j) + 1 /\ c + (j + 1) = (c + j) + 1
      BY <1>0, <1>1, <1>3, <3>1
    <3>3. Walk(SubSeq(q, 1, (l + j) + 1)) = StepTo(Walk(SubSeq(q, 1, l + j)), q[(l + j) + 1])
      BY <1>3, <3>2, WalkSteps
    <3>4. Walk(SubSeq(p, 1, (c + j) + 1)) = StepTo(Walk(SubSeq(p, 1, c + j)), p[(c + j) + 1])
      BY <1>0, <3>2, WalkSteps DEF m
    <3>5. q[(l + j) + 1] = p[(c + j) + 1]
      BY <1>3, <3>2
    <3>6. Walk(SubSeq(q, 1, l + j)) = Walk(SubSeq(p, 1, c + j))
      BY <2>2
    <3> QED BY <3>2, <3>3, <3>4, <3>5, <3>6
  <2>3. m - c \in Nat
    BY <1>0, <1>1
  <2> HIDE DEF n, m, l, D
  <2> QED BY <2>1, <2>2, <2>3, UpTo
<1>8. Walk(q) = Walk(p)
  <2>1. m - c \in D
    <3> HIDE DEF D
    <3>1. m - c \in 0..(m - c)
      BY <1>0, <1>1
    <3> QED BY <1>7, <3>1
  <2>2. c + (m - c) = m /\ l + (m - c) = Len(q)
    <3> HIDE DEF l
    <3> QED BY <1>0, <1>1, <1>3
  <2>3. SubSeq(q, 1, Len(q)) = q /\ SubSeq(p, 1, m) = p
    BY <1>3, PrefixFacts
  <2> HIDE DEF l, m
  <2> QED BY <2>1, <2>2, <2>3
<1> QED BY <1>2, <1>3, <1>8 DEF q

(***************************************************************************)
(* Places, each once                                                       *)
(***************************************************************************)

Places == Seq(Texts)
Keep(acc, x) == IF Contains(acc, x) THEN acc ELSE Append(acc, x)
Keeping == [p \in Seq(Places) \X Places |-> Keep(p[1], p[2])]

\* Keeping the first ones is the fold of a function.
LEMMA KeepType ==
    /\ IsFolding(Keeping, <<>>, Seq(Places), Places)
    /\ \A acc \in Seq(Places), x \in Places : Keeping[<<acc, x>>] = Keep(acc, x)
<1>1. \A acc \in Seq(Places), x \in Places : Append(acc, x) \in Seq(Places)
  OBVIOUS
<1>2. \A acc \in Seq(Places), x \in Places : Keep(acc, x) \in Seq(Places)
  BY <1>1 DEF Keep
<1>3. <<>> \in Seq(Places)
  OBVIOUS
<1> QED BY <1>2, <1>3 DEF IsFolding, Keeping

\* The first ones, as the fold of a function.
LEMMA FirstOnesIsFold ==
    ASSUME NEW s \in Seq(Places)
    PROVE  FirstOnes(s) = FoldOf(Keeping, <<>>, s)
<1> DEFINE n == Len(s)
           it == CHOOSE it : it = [T \in SUBSET DOMAIN s |->
                                      IF T = {} THEN <<>>
                                      ELSE IF Contains(it[T \ {Max(T)}], s[Max(T)]) THEN it[T \ {Max(T)}]
                                           ELSE Append(it[T \ {Max(T)}], s[Max(T)])]
<1>1. IsFolding(Keeping, <<>>, Seq(Places), Places)
  BY KeepType
<1>2. PICK g \in [SUBSET (1..n) -> Seq(Places)] : IsFold(g, Keeping, <<>>, s)
  BY <1>1, FoldExists
<1>3. FoldOf(Keeping, <<>>, s) = g[1..n]
  BY <1>2, FoldIs
<1>4. n \in Nat /\ DOMAIN s = 1..n /\ \A i \in 1..n : s[i] \in Places
  OBVIOUS
<1>5. FirstOnes(s) = it[DOMAIN s]
  BY DEF FirstOnes, FoldLeft, MapThenFoldSet
<1>6. ASSUME NEW T \in SUBSET (1..n), T # {}
      PROVE  g[T] = Keep(g[T \ {Max(T)}], s[Max(T)])
  <2>1. Max(T) \in 1..n /\ s[Max(T)] \in Places /\ g[T \ {Max(T)}] \in Seq(Places)
    BY <1>4, <1>6, LastPlace
  <2>2. g[T] = Keeping[<<g[T \ {Max(T)}], s[Max(T)]>>]
    BY <1>2, <1>6 DEF IsFold
  <2> QED BY <2>1, <2>2, KeepType
<1>7. g[{}] = <<>> /\ {} \in SUBSET (1..n)
  BY <1>2 DEF IsFold
<1>8. g = [T \in SUBSET DOMAIN s |-> IF T = {} THEN <<>>
                                     ELSE IF Contains(g[T \ {Max(T)}], s[Max(T)]) THEN g[T \ {Max(T)}]
                                          ELSE Append(g[T \ {Max(T)}], s[Max(T)])]
  BY <1>4, <1>6, <1>7 DEF Keep
<1>9. it = [T \in SUBSET DOMAIN s |-> IF T = {} THEN <<>>
                                      ELSE IF Contains(it[T \ {Max(T)}], s[Max(T)]) THEN it[T \ {Max(T)}]
                                           ELSE Append(it[T \ {Max(T)}], s[Max(T)])]
  BY <1>8
<1> HIDE DEF it
<1>10. SameStep(it, g, n)
  <2>1. it[{}] = g[{}]
    BY <1>4, <1>7, <1>9
  <2>2. ASSUME NEW T \in SUBSET (1..n), T # {}, it[T \ {Max(T)}] = g[T \ {Max(T)}]
        PROVE  it[T] = g[T]
    <3>1. it[T] = Keep(it[T \ {Max(T)}], s[Max(T)])
      BY <1>4, <1>9, <2>2 DEF Keep
    <3> QED BY <1>6, <2>2, <3>1
  <2> QED BY <2>1, <2>2 DEF SameStep
<1>11. it[1..n] = g[1..n]
  BY <1>4, <1>10, SameFold
<1> QED BY <1>3, <1>4, <1>5, <1>11

\* The first ones of one place more.
LEMMA FirstOnesOneMore ==
    /\ FirstOnes(<<>>) = <<>>
    /\ \A s \in Seq(Places) : FirstOnes(s) \in Seq(Places)
    /\ \A s \in Seq(Places), x \in Places : FirstOnes(Append(s, x)) = Keep(FirstOnes(s), x)
<1>1. IsFolding(Keeping, <<>>, Seq(Places), Places)
  BY KeepType
<1>2. FirstOnes(<<>>) = <<>>
  <2>1. <<>> \in Seq(Places)
    OBVIOUS
  <2>2. FoldOf(Keeping, <<>>, <<>>) = <<>>
    BY <1>1, FoldOfNothing
  <2> QED BY <2>1, <2>2, FirstOnesIsFold
<1>3. ASSUME NEW s \in Seq(Places), NEW x \in Places
      PROVE  FirstOnes(s) \in Seq(Places) /\ FirstOnes(Append(s, x)) = Keep(FirstOnes(s), x)
  <2>1. Append(s, x) \in Seq(Places)
    OBVIOUS
  <2>2. FirstOnes(s) = FoldOf(Keeping, <<>>, s) /\ FirstOnes(Append(s, x)) = FoldOf(Keeping, <<>>, Append(s, x))
    BY <2>1, FirstOnesIsFold
  <2>3. /\ FoldOf(Keeping, <<>>, s) \in Seq(Places)
        /\ FoldOf(Keeping, <<>>, Append(s, x)) = Keeping[<<FoldOf(Keeping, <<>>, s), x>>]
    BY <1>1, FoldOfOneMore
  <2> QED BY <2>2, <2>3, KeepType
<1>4. <<>> \in Places
  BY DEF Places
<1> QED BY <1>2, <1>3, <1>4

\* What is appended is contained.
LEMMA AppendContains ==
    ASSUME NEW S, NEW s \in Seq(S), NEW x \in S, NEW y
    PROVE  Contains(Append(s, x), y) <=> Contains(s, y) \/ y = x
<1> DEFINE t == Append(s, x)
           n == Len(s)
<1>1. n \in Nat /\ Len(t) = n + 1 /\ t[n + 1] = x /\ \A i \in 1..n : t[i] = s[i]
  BY AppendFacts
<1> HIDE DEF t
<1>2. ASSUME Contains(t, y) PROVE Contains(s, y) \/ y = x
  <2>1. PICK i \in 1..(n + 1) : t[i] = y
    BY <1>1, <1>2 DEF Contains
  <2>2. i = n + 1 \/ i \in 1..n
    BY <1>1
  <2> QED BY <1>1, <2>1, <2>2 DEF Contains
<1>3. ASSUME Contains(s, y) PROVE Contains(t, y)
  <2>1. PICK i \in 1..n : s[i] = y
    BY <1>3 DEF Contains
  <2>2. i \in 1..(n + 1)
    BY <1>1
  <2> HIDE DEF n
  <2> QED BY <1>1, <2>1, <2>2 DEF Contains
<1>4. ASSUME y = x PROVE Contains(t, y)
  <2>1. n + 1 \in 1..(n + 1)
    BY <1>1
  <2> HIDE DEF n
  <2> QED BY <1>1, <1>4, <2>1 DEF Contains
<1> QED BY <1>2, <1>3, <1>4 DEF t

\* Every place is among the first ones.
LEMMA FirstOnesHas ==
    ASSUME NEW s \in Seq(Places), NEW y
    PROVE  Contains(FirstOnes(s), y) <=> Contains(s, y)
<1> DEFINE S == {k \in Nat : Contains(FirstOnes(SubSeq(s, 1, k)), y) <=> Contains(SubSeq(s, 1, k), y)}
           n == Len(s)
<1>0. n \in Nat
  OBVIOUS
<1>1. 0 \in S
  <2>1. SubSeq(s, 1, 0) = <<>>
    BY PrefixFacts
  <2> QED BY <2>1, FirstOnesOneMore
<1>2. ASSUME NEW k \in 0..(n - 1), k \in S PROVE k + 1 \in S
  <2> DEFINE t == SubSeq(s, 1, k)
             x == s[k + 1]
  <2>1. k \in 0..Len(s) /\ k + 1 \in Nat
    BY <1>0
  <2>2. t \in Seq(Places) /\ x \in Places /\ SubSeq(s, 1, k + 1) = Append(t, x)
    BY <2>1, PrefixFacts
  <2>3. Contains(FirstOnes(t), y) <=> Contains(t, y)
    BY <1>2
  <2> HIDE DEF t, x
  <2>4. FirstOnes(t) \in Seq(Places) /\ FirstOnes(Append(t, x)) = Keep(FirstOnes(t), x)
    BY <2>2, FirstOnesOneMore
  <2>5. Contains(Append(t, x), y) <=> Contains(t, y) \/ y = x
    BY <2>2, AppendContains
  <2>6. Contains(Append(FirstOnes(t), x), y) <=> Contains(FirstOnes(t), y) \/ y = x
    BY <2>2, <2>4, AppendContains
  <2>7. Contains(FirstOnes(Append(t, x)), y) <=> Contains(Append(t, x), y)
    <3>1. CASE Contains(FirstOnes(t), x)
      BY <2>3, <2>4, <2>5, <3>1 DEF Keep
    <3>2. CASE ~Contains(FirstOnes(t), x)
      BY <2>3, <2>4, <2>5, <2>6, <3>2 DEF Keep
    <3> QED BY <3>1, <3>2
  <2> QED BY <2>1, <2>2, <2>7
<1>3. \A k \in 0..n : k \in S
  <2> HIDE DEF S, n
  <2> QED BY <1>0, <1>1, <1>2, UpTo
<1>4. n \in S
  <2>1. n \in 0..n
    BY <1>0
  <2> HIDE DEF S, n
  <2> QED BY <1>3, <2>1
<1> QED BY <1>4, PrefixFacts

\* Lists with the same first ones.
LEMMA SameFirstOnes ==
    ASSUME NEW s \in Seq(Places), NEW t \in Seq(Places), FirstOnes(s) = FirstOnes(t), NEW x \in Places
    PROVE  /\ FirstOnes(Append(s, x)) = FirstOnes(Append(t, x))
           /\ Contains(s, x) => FirstOnes(s) = FirstOnes(Append(t, x))
<1>1. FirstOnes(Append(s, x)) = Keep(FirstOnes(s), x) /\ FirstOnes(Append(t, x)) = Keep(FirstOnes(t), x)
  BY FirstOnesOneMore
<1>2. Contains(s, x) => Contains(FirstOnes(t), x)
  BY FirstOnesHas
<1> QED BY <1>1, <1>2 DEF Keep

(***************************************************************************)
(* Exporting, one argument after the other                                 *)
(***************************************************************************)

Exports == [flags : Seq(Words), open : Texts]
ExportStart == [flags |-> <<Word("-I", "src", <<>>)>>, open |-> ""]

\* A word that is made of an option and a path.
LEMMA WordType ==
    ASSUME NEW opt \in Texts, NEW kind \in Kinds, NEW name \in Seq(Texts)
    PROVE  /\ Word(opt, kind, name) \in Words
           /\ Word(opt, kind, name).opt = opt /\ Word(opt, kind, name).kind = kind
           /\ Word(opt, kind, name).name = name
BY DEF Word, Words

\* A word with another option.
LEMMA OtherOption ==
    ASSUME NEW w \in Words, NEW opt \in Texts
    PROVE  /\ [w EXCEPT !.opt = opt] \in Words
           /\ [w EXCEPT !.opt = opt].opt = opt /\ [w EXCEPT !.opt = opt].kind = w.kind
           /\ [w EXCEPT !.opt = opt].name = w.name
BY DEF Words

\* What is exported of a path is a word.
LEMMA IncludePathType ==
    ASSUME NEW r, NEW s \in Words
    PROVE  ExportedIncludePath(r, s) \in Words
<1>1. s.name \in Seq(Texts)
  BY DEF Words
<1>2. RelativePathFrom(s.name, OutputDir) \in Seq(Texts)
  BY <1>1, RelativeLeads
<1>3. FromPackage(s.name) \in Words
  <2>1. "" \in Texts /\ "src" \in Kinds
    BY TextsAssumption DEF Kinds
  <2> QED BY <1>2, <2>1, WordType DEF FromPackage
<1> QED BY <1>3 DEF ExportedIncludePath

\* Exporting a word.
LEMMA ExportType ==
    ASSUME NEW acc \in Exports, NEW raw \in Words, NEW res \in Words
    PROVE  ExportCxxflag(acc, raw, res) \in Exports
<1>0. "" \in Texts /\ "-I" \in Texts
  BY TextsAssumption
<1>1. acc.flags \in Seq(Words) /\ acc.open \in Texts
  BY DEF Exports
<1>2. \A o \in Texts : Option(o) \in Words
  <2>1. "none" \in Kinds /\ <<>> \in Seq(Texts)
    BY DEF Kinds
  <2> QED BY <2>1, WordType DEF Option
<1>3. \A r, s \in Words : acc.flags \o <<r, s>> \in Seq(Words)
  BY <1>1
<1>4. \A r \in Words : Append(acc.flags, r) \in Seq(Words)
  BY <1>1
<1>5. ExportValue(acc, raw, res) \in Seq(Words)
  <2>1. ExportedIncludePath(AsText(raw), AsText(res)) \in Words
    BY TextIsWord, IncludePathType
  <2>2. CASE acc.open = "-I"
    BY <1>0, <1>2, <1>3, <2>1, <2>2 DEF ExportValue
  <2>3. CASE acc.open = "-D"
    <3>1. Option("-D") \in Words
      BY <1>1, <1>2, <2>3
    <3> QED BY <1>3, <2>3, <3>1 DEF ExportValue
  <2>4. CASE acc.open \notin {"-I", "-D"}
    BY <1>1, <2>4 DEF ExportValue
  <2> QED BY <2>2, <2>3, <2>4
<1>6. ExportJoined(acc, raw, res) \in Seq(Words)
  <2> DEFINE path == ExportedIncludePath(RawInclude(raw, res), [res EXCEPT !.opt = ""])
             include == [path EXCEPT !.opt = "-I"]
  <2>1. path \in Words
    BY TextIsWord, IncludePathType
  <2>2. include \in Words
    <3> HIDE DEF path
    <3> QED BY <1>0, <2>1, OtherOption
  <2>3. ExportJoined(acc, raw, res) =
            CASE res.opt = "-I" -> IF include \in ToSet(acc.flags) THEN acc.flags ELSE Append(acc.flags, include)
              [] res.opt \in {"-D", "-std="} -> Append(acc.flags, res)
              [] OTHER -> acc.flags
    BY DEF ExportJoined
  <2> HIDE DEF include
  <2> QED BY <1>1, <1>4, <2>2, <2>3
<1>7. CASE acc.open # ""
  <2>1. ExportCxxflag(acc, raw, res) = [flags |-> ExportValue(acc, raw, res), open |-> ""]
    BY <1>7 DEF ExportCxxflag
  <2>2. \A f \in Seq(Words), o \in Texts : [flags |-> f, open |-> o] \in Exports
    BY DEF Exports
  <2> QED BY <1>0, <1>5, <2>1, <2>2
<1>8. CASE acc.open = "" /\ res.kind = "none" /\ res.opt \in {"-I", "-D", "-isystem"}
  <2>1. ExportCxxflag(acc, raw, res) = [acc EXCEPT !.open = res.opt]
    BY <1>8 DEF ExportCxxflag
  <2>2. res.opt \in Texts
    BY DEF Words
  <2> HIDE DEF Words
  <2> QED BY <2>1, <2>2 DEF Exports
<1>9. CASE acc.open = "" /\ ~(res.kind = "none" /\ res.opt \in {"-I", "-D", "-isystem"})
  <2>1. ExportCxxflag(acc, raw, res) = [acc EXCEPT !.flags = ExportJoined(acc, raw, res)]
    BY <1>9 DEF ExportCxxflag
  <2> HIDE DEF Words
  <2> QED BY <1>6, <2>1 DEF Exports
<1> QED BY <1>7, <1>8, <1>9

Exporting(raw, res) == [p \in Exports \X (1..Len(res)) |-> ExportCxxflag(p[1], raw[p[2]], res[p[2]])]

\* The places of a sequence.
Numbers(n) == [i \in 1..n |-> i]

\* The export of the first arguments.
ExportedUpTo(raw, res, k) == FoldOf(Exporting(raw, res), ExportStart, Numbers(k))

\* Exporting is the fold of a function.
LEMMA ExportFolding ==
    ASSUME NEW raw \in Seq(Words), NEW res \in Seq(Words), Len(raw) = Len(res)
    PROVE  /\ IsFolding(Exporting(raw, res), ExportStart, Exports, 1..Len(res))
           /\ \A acc \in Exports, i \in 1..Len(res) :
                 Exporting(raw, res)[<<acc, i>>] = ExportCxxflag(acc, raw[i], res[i])
<1>1. \A i \in 1..Len(res) : raw[i] \in Words /\ res[i] \in Words
  OBVIOUS
<1>2. \A acc \in Exports, i \in 1..Len(res) : ExportCxxflag(acc, raw[i], res[i]) \in Exports
  BY <1>1, ExportType
<1>3. ExportStart \in Exports
  <2>1. "" \in Texts /\ "-I" \in Texts /\ "src" \in Kinds /\ <<>> \in Seq(Texts)
    <3>1. "" \in Texts /\ "-I" \in Texts
      BY TextsAssumption
    <3>2. "src" \in Kinds /\ <<>> \in Seq(Texts)
      BY DEF Kinds
    <3> QED BY <3>1, <3>2
  <2>2. Word("-I", "src", <<>>) \in Words
    BY <2>1, WordType
  <2>3. <<Word("-I", "src", <<>>)>> \in Seq(Words)
    BY <2>2, ShortSequences
  <2> QED BY <2>1, <2>3 DEF ExportStart, Exports
<1> QED BY <1>2, <1>3 DEF IsFolding, Exporting

\* The export of the arguments, as the fold of a function.
LEMMA ExportIsFold ==
    ASSUME NEW raw \in Seq(Words), NEW res \in Seq(Words), Len(raw) = Len(res)
    PROVE  ExportedCxxflags(raw, res) = ExportedUpTo(raw, res, Len(res)).flags
<1> DEFINE n == Len(res)
           s == [i \in DOMAIN res |-> i]
           F == Exporting(raw, res)
           it == CHOOSE it : it = [T \in SUBSET DOMAIN s |->
                                      IF T = {} THEN ExportStart
                                      ELSE ExportCxxflag(it[T \ {Max(T)}], raw[s[Max(T)]], res[s[Max(T)]])]
<1>1. IsFolding(F, ExportStart, Exports, 1..n)
  BY ExportFolding
<1>4. /\ n \in Nat /\ s = Numbers(n) /\ s \in Seq(1..n) /\ Len(s) = n /\ DOMAIN s = 1..n
      /\ \A i \in 1..n : s[i] = i
  BY DEF Numbers
<1> HIDE DEF it
<1>2. PICK g \in [SUBSET (1..n) -> Exports] : IsFold(g, F, ExportStart, s)
  <2> HIDE DEF s, n, F
  <2>1. \E g \in [SUBSET (1..Len(s)) -> Exports] : IsFold(g, F, ExportStart, s)
    BY <1>1, <1>4, FoldExists
  <2> QED BY <1>4, <2>1
<1>3. FoldOf(F, ExportStart, s) = g[1..n]
  <2> HIDE DEF s, n, F
  <2> QED BY <1>2, <1>4, FoldIs
<1>5. ExportedCxxflags(raw, res) = it[DOMAIN s].flags
  BY DEF ExportedCxxflags, FoldLeftDomain, FoldLeft, MapThenFoldSet, ExportStart, it
<1>6. ASSUME NEW T \in SUBSET (1..n), T # {}
      PROVE  g[T] = ExportCxxflag(g[T \ {Max(T)}], raw[s[Max(T)]], res[s[Max(T)]])
  <2>1. Max(T) \in 1..n /\ s[Max(T)] = Max(T) /\ g[T \ {Max(T)}] \in Exports
    BY <1>4, <1>6, LastPlace
  <2>2. g[T] = F[<<g[T \ {Max(T)}], s[Max(T)]>>]
    <3> HIDE DEF s, n, F
    <3> QED BY <1>2, <1>4, <1>6 DEF IsFold
  <2> QED BY <2>1, <2>2, ExportFolding
<1>7. g[{}] = ExportStart /\ {} \in SUBSET (1..n)
  <2> HIDE DEF s, n, F
  <2> QED BY <1>2, <1>4 DEF IsFold
<1>8. g = [T \in SUBSET DOMAIN s |-> IF T = {} THEN ExportStart
                                     ELSE ExportCxxflag(g[T \ {Max(T)}], raw[s[Max(T)]], res[s[Max(T)]])]
  <2> HIDE DEF s, n
  <2> QED BY <1>4, <1>6, <1>7
<1>9. it = [T \in SUBSET DOMAIN s |-> IF T = {} THEN ExportStart
                                      ELSE ExportCxxflag(it[T \ {Max(T)}], raw[s[Max(T)]], res[s[Max(T)]])]
  BY <1>8 DEF it
<1> HIDE DEF s, n, F
<1>10. SameStep(it, g, n)
  <2>1. it[{}] = g[{}]
    BY <1>4, <1>7, <1>9
  <2>2. ASSUME NEW T \in SUBSET (1..n), T # {}, it[T \ {Max(T)}] = g[T \ {Max(T)}]
        PROVE  it[T] = g[T]
    <3>1. T \in SUBSET DOMAIN s
      BY <1>4
    <3>2. it[T] = ExportCxxflag(it[T \ {Max(T)}], raw[s[Max(T)]], res[s[Max(T)]])
      BY <1>9, <2>2, <3>1
    <3>3. g[T] = ExportCxxflag(g[T \ {Max(T)}], raw[s[Max(T)]], res[s[Max(T)]])
      BY <1>6, <2>2
    <3> QED BY <2>2, <3>2, <3>3
  <2> QED BY <2>1, <2>2 DEF SameStep
<1>11. it[1..n] = g[1..n]
  <2>1. n \in Nat
    BY <1>4
  <2> QED BY <1>10, <2>1, SameFold
<1>12. ExportedUpTo(raw, res, n) = g[1..n]
  BY <1>3, <1>4 DEF ExportedUpTo, F
<1> QED BY <1>4, <1>5, <1>11, <1>12 DEF n

\* One argument more is exported.
LEMMA ExportSteps ==
    ASSUME NEW raw \in Seq(Words), NEW res \in Seq(Words), Len(raw) = Len(res)
    PROVE  /\ ExportedUpTo(raw, res, 0) = ExportStart
           /\ \A k \in 0..Len(res) : ExportedUpTo(raw, res, k) \in Exports
           /\ \A k \in 0..(Len(res) - 1) :
                 ExportedUpTo(raw, res, k + 1) = ExportCxxflag(ExportedUpTo(raw, res, k), raw[k + 1], res[k + 1])
<1> DEFINE n == Len(res)
           F == Exporting(raw, res)
<1>0. n \in Nat
  OBVIOUS
<1>1. /\ IsFolding(F, ExportStart, Exports, 1..n)
      /\ \A acc \in Exports, i \in 1..n : F[<<acc, i>>] = ExportCxxflag(acc, raw[i], res[i])
  BY ExportFolding
<1> HIDE DEF n, F
<1>2. ExportedUpTo(raw, res, 0) = ExportStart
  <2>1. Numbers(0) = <<>>
    BY DEF Numbers
  <2> QED BY <1>1, <2>1, FoldOfNothing DEF ExportedUpTo, F
<1>3. ASSUME NEW k \in 0..n
      PROVE  /\ Numbers(k) \in Seq(1..n)
             /\ k < n => Numbers(k + 1) = Append(Numbers(k), k + 1) /\ k + 1 \in 1..n
  <2>1. Numbers(k) \in Seq(1..n) /\ Len(Numbers(k)) = k
    BY <1>0 DEF Numbers
  <2>2. ASSUME k < n PROVE Numbers(k + 1) = Append(Numbers(k), k + 1) /\ k + 1 \in 1..n
    <3> DEFINE a == Numbers(k + 1)
               b == Append(Numbers(k), k + 1)
    <3>1. k + 1 \in 1..n /\ k + 1 \in Nat
      BY <1>0, <2>2
    <3>2. a \in Seq(1..n) /\ Len(a) = k + 1 /\ \A i \in 1..(k + 1) : a[i] = i
      BY <1>0, <3>1 DEF Numbers
    <3>3. b \in Seq(1..n) /\ Len(b) = k + 1 /\ b[k + 1] = k + 1 /\ \A i \in 1..k : b[i] = Numbers(k)[i]
      BY <2>1, <3>1, AppendFacts
    <3>4. \A i \in 1..k : Numbers(k)[i] = i
      BY DEF Numbers
    <3> HIDE DEF a, b
    <3>5. \A i \in 1..(k + 1) : b[i] = i
      <4>1. \A i \in 1..(k + 1) : i = k + 1 \/ i \in 1..k
        BY <3>1
      <4> QED BY <3>3, <3>4, <4>1
    <3>6. a = b
      BY <3>1, <3>2, <3>3, <3>5
    <3> QED BY <3>1, <3>6 DEF a, b
  <2> QED BY <2>1, <2>2
<1>4. \A k \in 0..n : ExportedUpTo(raw, res, k) \in Exports
  <2> SUFFICES ASSUME NEW k \in 0..n PROVE ExportedUpTo(raw, res, k) \in Exports
    OBVIOUS
  <2>1. CASE n = 0
    <3>1. k = 0 /\ ExportStart \in Exports
      BY <1>1, <2>1 DEF IsFolding
    <3> QED BY <1>2, <3>1
  <2>2. CASE n # 0
    <3>1. 1 \in 1..n
      BY <1>0, <2>2
    <3> QED BY <1>1, <1>3, <3>1, FoldOfOneMore DEF ExportedUpTo, F
  <2> QED BY <2>1, <2>2
<1>5. ASSUME NEW k \in 0..(n - 1)
      PROVE  ExportedUpTo(raw, res, k + 1) = ExportCxxflag(ExportedUpTo(raw, res, k), raw[k + 1], res[k + 1])
  <2>1. k \in 0..n /\ k < n
    BY <1>0
  <2>2. Numbers(k) \in Seq(1..n) /\ Numbers(k + 1) = Append(Numbers(k), k + 1) /\ k + 1 \in 1..n
    BY <1>3, <2>1
  <2>3. FoldOf(F, ExportStart, Append(Numbers(k), k + 1)) = F[<<FoldOf(F, ExportStart, Numbers(k)), k + 1>>]
    <3> DEFINE t == Numbers(k)
               j == k + 1
               P == 1..n
    <3>1. t \in Seq(P) /\ j \in P /\ IsFolding(F, ExportStart, Exports, P)
      BY <1>1, <2>2
    <3> HIDE DEF t, j, P
    <3>2. FoldOf(F, ExportStart, Append(t, j)) = F[<<FoldOf(F, ExportStart, t), j>>]
      BY <3>1, FoldOfOneMore
    <3> QED BY <3>2 DEF t, j
  <2>4. ExportedUpTo(raw, res, k) \in Exports
    BY <1>4, <2>1
  <2> QED BY <1>1, <2>2, <2>3, <2>4 DEF ExportedUpTo, F
<1> QED BY <1>2, <1>4, <1>5 DEF n

(***************************************************************************)
(* The directories of the generated package                                *)
(***************************************************************************)

\* A path on the command line of the package leads where one of the
\* configuration leads.
LeadsTo(p, e) == Walk(At(OutputDir, p)) = Walk(At(Base, e))

\* Directories that are looked in in the same order.
SameLook(ds, es) == FirstOnes(AllWalked(OutputDir, ds)) = FirstOnes(<<OutputDir>> \o AllWalked(Base, es))

\* Where a path leads is a place.
LEMMA WalkedType ==
    ASSUME NEW dir \in Seq(Texts), NEW w \in Words
    PROVE  At(dir, w) \in Seq(Texts) /\ Walk(At(dir, w)) \in Places
<1>1. w.name \in Seq(Texts) /\ OutputDir \in Seq(Texts)
  BY TextsAssumption DEF Words
<1>2. dir \o w.name \in Seq(Texts) /\ OutputDir \o w.name \in Seq(Texts)
  BY <1>1
<1>3. At(dir, w) \in Seq(Texts)
  BY <1>1, <1>2 DEF At
<1> QED BY <1>3, WalkOneMore DEF Places

\* Where paths lead, and one path more.
LEMMA AllWalkedMore ==
    ASSUME NEW dir \in Seq(Texts), NEW ws \in Seq(Words), NEW w \in Words
    PROVE  /\ AllWalked(dir, ws) \in Seq(Places) /\ Len(AllWalked(dir, ws)) = Len(ws)
           /\ AllWalked(dir, Append(ws, w)) = Append(AllWalked(dir, ws), Walk(At(dir, w)))
<1> DEFINE n == Len(ws)
           v == Append(ws, w)
           p == AllWalked(dir, ws)
           q == AllWalked(dir, v)
           x == Walk(At(dir, w))
<1>1. /\ n \in Nat /\ DOMAIN ws = 1..n /\ DOMAIN v = 1..(n + 1) /\ v[n + 1] = w
      /\ \A i \in 1..n : v[i] = ws[i] /\ ws[i] \in Words
  BY AppendFacts, ElementOf
<1>2. p = [i \in 1..n |-> Walk(At(dir, ws[i]))] /\ q = [i \in 1..(n + 1) |-> Walk(At(dir, v[i]))]
  <2> HIDE DEF v
  <2> QED BY <1>1 DEF AllWalked
<1> HIDE DEF p, q, n, v
<1>3. x \in Places
  BY WalkedType
<1>4. \A i \in 1..n : Walk(At(dir, ws[i])) \in Places
  BY <1>1, WalkedType
<1> HIDE DEF x
<1>5. p \in [1..n -> Places]
  BY <1>2, <1>4
<1>6. p \in Seq(Places) /\ Len(p) = n
  BY <1>1, <1>5
<1> DEFINE a == Append(p, x)
<1>7. /\ DOMAIN a = 1..(n + 1) /\ a[n + 1] = x /\ \A i \in 1..n : a[i] = p[i]
      /\ a = [i \in 1..(n + 1) |-> a[i]]
  <2>1. a \in Seq(Places) /\ DOMAIN a = 1..(n + 1) /\ a[n + 1] = x /\ \A i \in 1..n : a[i] = p[i]
    BY <1>3, <1>6, AppendFacts
  <2> HIDE DEF a
  <2>2. a = [i \in 1..(n + 1) |-> a[i]]
    BY <2>1
  <2> QED BY <2>1, <2>2
<1> HIDE DEF a
<1>8. \A i \in 1..(n + 1) : q[i] = a[i]
  <2>1. ASSUME NEW i \in 1..(n + 1) PROVE q[i] = a[i]
    <3>1. CASE i = n + 1
      BY <1>1, <1>2, <1>7, <3>1 DEF x
    <3>2. CASE i # n + 1
      <4>1. i \in 1..n
        BY <1>1, <3>2
      <4> QED BY <1>1, <1>2, <1>7, <4>1
    <3> QED BY <3>1, <3>2
  <2> QED BY <2>1
<1>9. q = a
  BY <1>2, <1>7, <1>8
<1> QED BY <1>6, <1>9 DEF a, p, q, v, x, n

\* A directory more is looked in, or one that was looked in already.
LEMMA SameLookMore ==
    ASSUME NEW ds \in Seq(Words), NEW es \in Seq(Words), SameLook(ds, es),
           NEW p \in Words, NEW e \in Words, LeadsTo(p, e)
    PROVE  /\ SameLook(Append(ds, p), Append(es, e))
           /\ Contains(ds, p) => SameLook(ds, Append(es, e))
<1> DEFINE s == AllWalked(OutputDir, ds)
           u == AllWalked(Base, es)
           t == <<OutputDir>> \o u
           x == Walk(At(Base, e))
<1>0. OutputDir \in Seq(Texts) /\ Base \in Seq(Texts) /\ OutputDir \in Places
  BY TextsAssumption DEF Places
<1>1. /\ s \in Seq(Places) /\ AllWalked(OutputDir, Append(ds, p)) = Append(s, Walk(At(OutputDir, p)))
      /\ u \in Seq(Places) /\ AllWalked(Base, Append(es, e)) = Append(u, x)
  BY <1>0, AllWalkedMore
<1>2. x \in Places /\ Walk(At(OutputDir, p)) = x
  BY <1>0, WalkedType DEF LeadsTo
<1>3. FirstOnes(s) = FirstOnes(t)
  BY DEF SameLook
<1>4. Contains(ds, p) => Contains(s, x)
  <2> SUFFICES ASSUME Contains(ds, p) PROVE Contains(s, x)
    OBVIOUS
  <2>1. PICK i \in 1..Len(ds) : ds[i] = p
    BY DEF Contains
  <2>2. Len(s) = Len(ds) /\ DOMAIN ds = 1..Len(ds)
    <3>1. Len(s) = Len(ds)
      BY <1>0, AllWalkedMore
    <3> QED BY <3>1
  <2>3. s[i] = x
    BY <1>2, <2>1, <2>2 DEF AllWalked
  <2> HIDE DEF s, x
  <2> QED BY <2>1, <2>2, <2>3 DEF Contains
<1> HIDE DEF s, u, x
<1>5. t \in Seq(Places) /\ <<OutputDir>> \o Append(u, x) = Append(t, x)
  <2>1. \A S : \A o \in S, a \in Seq(S), b \in S :
            <<o>> \o a \in Seq(S) /\ <<o>> \o Append(a, b) = Append(<<o>> \o a, b)
    OBVIOUS
  <2> QED BY <1>0, <1>1, <1>2, <2>1
<1> HIDE DEF t
<1>6. /\ FirstOnes(Append(s, x)) = FirstOnes(Append(t, x))
      /\ Contains(s, x) => FirstOnes(s) = FirstOnes(Append(t, x))
  BY <1>1, <1>2, <1>3, <1>5, SameFirstOnes
<1> QED BY <1>1, <1>2, <1>4, <1>5, <1>6 DEF SameLook, s, u, t

\* The package's own directory is looked in first.
LEMMA SameLookAtFirst == SameLook(<<Word("", "src", <<>>)>>, <<>>)
<1> DEFINE w == Word("", "src", <<>>)
           o == <<w>>
<1>0. OutputDir \in Seq(Texts) /\ ~Contains(OutputDir, "..")
  BY TextsAssumption
<1>1. At(OutputDir, w) = OutputDir
  <2>1. w.kind = "src" /\ w.name = <<>>
    BY DEF Word
  <2>2. OutputDir \o <<>> = OutputDir
    BY <1>0
  <2> QED BY <2>1, <2>2 DEF At
<1>2. Walk(OutputDir) = OutputDir
  <2>1. Len(OutputDir) \in 0..Len(OutputDir) /\ SubSeq(OutputDir, 1, Len(OutputDir)) = OutputDir
    BY <1>0
  <2> QED BY <1>0, <2>1, WalkDown
<1>3. AllWalked(OutputDir, o) = <<OutputDir>>
  <2>1. DOMAIN o = {1} /\ o[1] = w
    OBVIOUS
  <2> HIDE DEF o, w
  <2>2. AllWalked(OutputDir, o) = [i \in {1} |-> OutputDir]
    BY <1>1, <1>2, <2>1 DEF AllWalked
  <2>3. <<OutputDir>> = [i \in {1} |-> OutputDir]
    OBVIOUS
  <2> QED BY <2>2, <2>3
<1>4. AllWalked(Base, <<>>) = <<>>
  BY DEF AllWalked
<1>5. <<OutputDir>> \o <<>> = <<OutputDir>>
  BY <1>0
<1> QED BY <1>3, <1>4, <1>5 DEF SameLook

\* A path, exported, leads where it leads from the configuration.
LEMMA ExportLeads ==
    ASSUME NEW raw \in Words, NEW e \in Words, NEW d \in Words, d.kind = "abs", d.opt = "", d.name = At(Base, e)
    PROVE  LET p == ExportedIncludePath(raw, d) IN
           p \in Words /\ p.opt = "" /\ p.kind \in {"abs", "src"} /\ LeadsTo(p, e)
<1> DEFINE p == ExportedIncludePath(raw, d)
<1>1. p \in Words
  BY IncludePathType
<1>2. CASE p = d
  <2>1. At(OutputDir, p) = At(Base, e)
    BY <1>2, PathAt
  <2> QED BY <1>1, <1>2, <2>1 DEF LeadsTo
<1>3. CASE p = FromPackage(d.name)
  <2>1. d.name \in Seq(Texts)
    BY DEF Words
  <2>2. /\ p.opt = "" /\ p.kind = "src" /\ p.name = RelativePathFrom(d.name, OutputDir)
    <3> HIDE DEF p
    <3> QED BY <1>3 DEF FromPackage, Word
  <2>3. At(OutputDir, p) = OutputDir \o RelativePathFrom(d.name, OutputDir)
    BY <2>2 DEF At
  <2>4. Walk(At(OutputDir, p)) = Walk(d.name)
    BY <2>1, <2>3, RelativeLeads
  <2> HIDE DEF p
  <2> QED BY <1>1, <2>2, <2>4 DEF LeadsTo, p
<1>4. p = d \/ p = FromPackage(d.name)
  BY DEF ExportedIncludePath
<1> QED BY <1>2, <1>3, <1>4

(***************************************************************************)
(* What is read of the exported arguments                                  *)
(***************************************************************************)

\* An include option and its path in one word.
IsJoinedInclude(w) == w.opt = "-I" /\ w.kind # "none"

\* The text that follows the option of a word.
TextOf(w) == [w EXCEPT !.opt = ""]

\* The paths of such words are looked in.
Included(f, ds) == \A i \in DOMAIN f : IsJoinedInclude(f[i]) => Contains(ds, TextOf(f[i]))

\* Directories that are looked in are looked in with others.
Kept(ds, es) == \A x \in Words : Contains(ds, x) => Contains(es, x)

\* The package is built with the directories, macros and standard that are meant.
BuiltLike(f, m) ==
    LET b == CompilerReads(f) IN
    /\ f \in Seq(Words) /\ b \in Accumulators /\ m \in Accumulators
    /\ b.open = "" /\ b.files = <<>> /\ b.defines = m.defines /\ b.standard = m.standard
    /\ SameLook(b.dirs, m.dirs)
    /\ Included(f, b.dirs)

\* What is meant changes in what is not exported.
LEMMA BuiltStays ==
    ASSUME NEW f, NEW m, BuiltLike(f, m), NEW m2 \in Accumulators,
           m2.dirs = m.dirs, m2.defines = m.defines, m2.standard = m.standard
    PROVE  BuiltLike(f, m2)
BY DEF BuiltLike

\* One argument more is read.
LEMMA ReadAppended ==
    ASSUME NEW f \in Seq(Words), NEW w \in Words
    PROVE  /\ Append(f, w) \in Seq(Words) /\ CompilerReads(Append(f, w)) \in Accumulators
           /\ CompilerReads(Append(f, w)) = ReadWord(CompilerReads(f), w)
<1>1. Append(f, w) \in Seq(Words)
  BY AppendFacts
<1> QED BY <1>1, ReadsOneMore

\* Whether one element more is contained.
LEMMA ContainsMore ==
    ASSUME NEW s \in Seq(Words), NEW x \in Words
    PROVE  Kept(s, Append(s, x)) /\ Contains(Append(s, x), x)
<1>1. \A y : Contains(Append(s, x), y) <=> Contains(s, y) \/ y = x
  BY AppendContains
<1> QED BY <1>1 DEF Kept

\* The joined includes of one argument more, when directories are kept.
LEMMA IncludesMore ==
    ASSUME NEW f \in Seq(Words), NEW w \in Words, NEW ds \in Seq(Words), NEW es \in Seq(Words),
           Kept(ds, es), Included(f, ds), IsJoinedInclude(w) => Contains(es, TextOf(w))
    PROVE  Included(Append(f, w), es)
<1> DEFINE n == Len(f)
           g == Append(f, w)
<1>1. /\ n \in Nat /\ DOMAIN f = 1..n /\ DOMAIN g = 1..(n + 1) /\ g[n + 1] = w
      /\ \A i \in 1..n : g[i] = f[i]
  BY AppendFacts
<1>2. \A i \in 1..n : f[i] \in Words
  BY ElementOf
<1> HIDE DEF g, n
<1>3. ASSUME NEW i \in 1..(n + 1), IsJoinedInclude(g[i]) PROVE Contains(es, TextOf(g[i]))
  <2>1. CASE i = n + 1
    BY <1>1, <1>3, <2>1
  <2>2. CASE i # n + 1
    <3>1. i \in 1..n
      <4>1. n \in Nat
        BY <1>1
      <4> QED BY <2>2, <4>1
    <3>2. g[i] = f[i] /\ f[i] \in Words
      BY <1>1, <1>2, <3>1
    <3>3. TextOf(f[i]) \in Words
      BY <3>2, TextIsWord DEF TextOf
    <3>4. Contains(ds, TextOf(f[i]))
      BY <1>1, <1>3, <3>1, <3>2 DEF Included
    <3> QED BY <3>2, <3>3, <3>4 DEF Kept
  <2> QED BY <2>1, <2>2
<1>4. \A i \in DOMAIN g : IsJoinedInclude(g[i]) => Contains(es, TextOf(g[i]))
  BY <1>1, <1>3
<1> QED BY <1>4 DEF g, Included

\* An option and its value in one word are exported.
LEMMA BuiltJoined ==
    ASSUME NEW f, NEW m, BuiltLike(f, m), NEW d \in Words, d.kind # "none", d.opt \in {"-D", "-std="},
           NEW m2, m2 = Take(m, d.opt, TextOf(d))
    PROVE  BuiltLike(Append(f, d), m2)
<1> DEFINE b == CompilerReads(f)
           t == TextOf(d)
           c == CompilerReads(Append(f, d))
<1>1. /\ f \in Seq(Words) /\ b \in Accumulators /\ m \in Accumulators
      /\ b.open = "" /\ b.files = <<>> /\ b.defines = m.defines /\ b.standard = m.standard
      /\ SameLook(b.dirs, m.dirs)
      /\ Included(f, b.dirs)
  BY DEF BuiltLike
<1>2. t \in Words /\ d.opt \in Texts /\ b.dirs \in Seq(Words)
  <2>1. b.dirs \in Seq(Words)
    BY <1>1 DEF Accumulators
  <2>2. d.opt \in Texts
    BY DEF Words
  <2> QED BY <2>1, <2>2, TextIsWord DEF TextOf
<1>3. c = ReadWord(b, d) /\ Append(f, d) \in Seq(Words)
  <2>1. f \in Seq(Words)
    BY <1>1
  <2> QED BY <2>1, ReadAppended
<1>4. ReadWord(b, d) = Take(b, d.opt, t)
  BY <1>1, ReadWordCases DEF TextOf
<1> HIDE DEF b, t, c
<1>5. Taken(b, d.opt, t, c) /\ Taken(m, d.opt, t, m2) /\ c \in Accumulators /\ m2 \in Accumulators
  BY <1>1, <1>2, <1>3, <1>4, TakeFields, TakeType DEF t
<1>6. /\ c.open = "" /\ c.files = <<>> /\ c.dirs = b.dirs /\ m2.dirs = m.dirs
      /\ c.defines = m2.defines /\ c.standard = m2.standard
  BY <1>1, <1>5 DEF Taken
<1>7. Included(Append(f, d), b.dirs)
  <2>1. ~IsJoinedInclude(d) /\ Kept(b.dirs, b.dirs)
    BY DEF IsJoinedInclude, Kept
  <2> QED BY <1>1, <1>2, <2>1, IncludesMore
<1> QED BY <1>1, <1>3, <1>5, <1>6, <1>7 DEF BuiltLike, c

\* An include option and its path in one word are exported, unless they are
\* exported already.
LEMMA BuiltInclude ==
    ASSUME NEW f, NEW m, BuiltLike(f, m), NEW p \in Words, p.opt = "", p.kind # "none",
           NEW e \in Words, LeadsTo(p, e), NEW m2, m2 = Take(m, "-I", e),
           NEW w \in Words, w.opt = "-I", w.kind = p.kind, TextOf(w) = p
    PROVE  /\ w \in ToSet(f) => BuiltLike(f, m2)
           /\ BuiltLike(Append(f, w), m2)
<1> DEFINE b == CompilerReads(f)
           c == CompilerReads(Append(f, w))
<1>0. "-I" \in Texts
  BY TextsAssumption
<1>1. /\ f \in Seq(Words) /\ b \in Accumulators /\ m \in Accumulators
      /\ b.open = "" /\ b.files = <<>> /\ b.defines = m.defines /\ b.standard = m.standard
      /\ SameLook(b.dirs, m.dirs)
      /\ Included(f, b.dirs)
  BY DEF BuiltLike
<1>2. w.kind # "none"
  OBVIOUS
<1>3. b.dirs \in Seq(Words) /\ m.dirs \in Seq(Words)
  BY <1>1 DEF Accumulators
<1>4. c = ReadWord(b, w) /\ Append(f, w) \in Seq(Words)
  <2>1. f \in Seq(Words)
    BY <1>1
  <2> QED BY <2>1, ReadAppended
<1>5. ReadWord(b, w) = Take(b, "-I", p)
  BY <1>1, <1>2, ReadWordCases DEF TextOf
<1> HIDE DEF b, c
<1>6. Taken(b, "-I", p, c) /\ Taken(m, "-I", e, m2) /\ c \in Accumulators /\ m2 \in Accumulators
  BY <1>0, <1>1, <1>4, <1>5, TakeFields, TakeType
<1>7. /\ c.open = "" /\ c.files = <<>> /\ c.dirs = Append(b.dirs, p) /\ m2.dirs = Append(m.dirs, e)
      /\ c.defines = b.defines /\ m2.defines = m.defines /\ c.standard = b.standard /\ m2.standard = m.standard
  BY <1>1, <1>6 DEF Taken
<1>8. /\ SameLook(c.dirs, m2.dirs)
      /\ Contains(b.dirs, p) => SameLook(b.dirs, m2.dirs)
  BY <1>1, <1>3, <1>7, SameLookMore
<1>9. ASSUME w \in ToSet(f) PROVE BuiltLike(f, m2)
  <2>1. Contains(b.dirs, p)
    <3>1. PICK i \in DOMAIN f : f[i] = w
      BY <1>9 DEF ToSet
    <3> QED BY <1>1, <1>2, <3>1 DEF IsJoinedInclude, Included
  <2> QED BY <1>1, <1>6, <1>7, <1>8, <2>1 DEF BuiltLike, b
<1>10. Included(Append(f, w), c.dirs)
  <2>1. c.dirs \in Seq(Words) /\ Contains(c.dirs, p) /\ Kept(b.dirs, c.dirs)
    <3>1. c.dirs \in Seq(Words)
      BY <1>6 DEF Accumulators
    <3>2. Kept(b.dirs, Append(b.dirs, p)) /\ Contains(Append(b.dirs, p), p)
      BY <1>3, ContainsMore
    <3> QED BY <1>7, <3>1, <3>2
  <2> QED BY <1>1, <1>2, <1>3, <2>1, IncludesMore
<1>11. BuiltLike(Append(f, w), m2)
  BY <1>1, <1>4, <1>6, <1>7, <1>8, <1>10 DEF BuiltLike, c
<1> QED BY <1>9, <1>11

\* The option of an exported value, by itself.
LEMMA OptionsExported ==
    ASSUME NEW opt \in Texts
    PROVE  Option(opt) \in Words /\ Option(opt).opt = opt /\ Option(opt).kind = "none"
<1>1. "none" \in Kinds /\ <<>> \in Seq(Texts)
  BY DEF Kinds
<1>2. ASSUME NEW kind \in Kinds, NEW name \in Seq(Texts)
      PROVE  Word(opt, kind, name) \in Words
  BY WordType
<1>3. Option(opt) \in Words
  BY <1>1, <1>2 DEF Option
<1> QED BY <1>3 DEF Option, Word

\* Two arguments more.
LEMMA TwoWords ==
    ASSUME NEW f \in Seq(Words), NEW x \in Words, NEW y \in Words
    PROVE  f \o <<x, y>> = Append(Append(f, x), y)
OBVIOUS

\* An option and its value in a word of its own are exported.
LEMMA BuiltDetached ==
    ASSUME NEW f, NEW m, BuiltLike(f, m), NEW opt \in {"-I", "-D"}, opt \in Texts, NEW p \in Words, p.opt = "",
           NEW e \in Words, IF opt = "-I" THEN LeadsTo(p, e) ELSE p = e,
           NEW m2 \in Accumulators, Taken(m, opt, e, m2)
    PROVE  BuiltLike(f \o <<Option(opt), p>>, m2)
<1> DEFINE b == CompilerReads(f)
           o == Option(opt)
           g == Append(f, o)
           h == Append(g, p)
           a == CompilerReads(g)
           c == CompilerReads(h)
<1>1. /\ f \in Seq(Words) /\ b \in Accumulators /\ m \in Accumulators
      /\ b.open = "" /\ b.files = <<>> /\ b.defines = m.defines /\ b.standard = m.standard
      /\ SameLook(b.dirs, m.dirs)
      /\ Included(f, b.dirs)
  BY DEF BuiltLike
<1>0. "" \in Texts /\ opt # ""
  BY TextsAssumption
<1>2. o \in Words /\ o.opt = opt /\ o.kind = "none" /\ opt \in Texts
  BY OptionsExported
<1>3. b.dirs \in Seq(Words) /\ m.dirs \in Seq(Words)
  BY <1>1 DEF Accumulators
<1>4. g \in Seq(Words) /\ h \in Seq(Words) /\ a = ReadWord(b, o) /\ c = ReadWord(a, p) /\ a \in Accumulators
  <2>1. g \in Seq(Words) /\ a = ReadWord(b, o) /\ a \in Accumulators
    <3>1. g \in Seq(Words)
      BY <1>1, <1>2, AppendFacts
    <3> HIDE DEF o
    <3> QED BY <1>1, <1>2, <3>1, ReadsOneMore
  <2> HIDE DEF g
  <2> QED BY <2>1, ReadsOneMore, AppendFacts
<1>5. f \o <<o, p>> = h
  <2>1. f \in Seq(Words) /\ o \in Words
    BY <1>1, <1>2
  <2> HIDE DEF o
  <2>2. \A x, y \in Words : f \o <<x, y>> = Append(Append(f, x), y)
    BY <2>1, TwoWords
  <2> QED BY <2>1, <2>2
<1>6. a = WithOpen(b, opt)
  BY <1>1, <1>2, <1>4, ReadWordCases
<1> HIDE DEF a, b, c, o
<1>7. /\ a.open = opt /\ a.dirs = b.dirs /\ a.defines = b.defines /\ a.standard = b.standard /\ a.files = b.files
  BY <1>1, <1>6 DEF WithOpen, Accumulators
<1> DEFINE t == Take(a, opt, p)
<1>8. c = WithOpen(t, "")
  BY <1>0, <1>4, <1>7, ReadWordCases
<1>9. Taken(a, opt, p, t) /\ t \in Accumulators
  BY <1>2, <1>4, TakeFields, TakeType
<1> HIDE DEF t
<1>10. /\ c.open = "" /\ c.dirs = t.dirs /\ c.defines = t.defines /\ c.standard = t.standard /\ c.files = t.files
       /\ c \in Accumulators
  BY <1>0, <1>8, <1>9 DEF WithOpen, Accumulators
<1>11. /\ t.files = <<>> /\ t.standard = m2.standard /\ t.defines = m2.defines
       /\ t.dirs = (IF opt = "-I" THEN Append(b.dirs, p) ELSE b.dirs)
       /\ m2.dirs = (IF opt = "-I" THEN Append(m.dirs, e) ELSE m.dirs)
  BY <1>1, <1>7, <1>9 DEF Taken
<1>12. SameLook(c.dirs, m2.dirs)
  <2>1. CASE opt = "-I"
    BY <1>1, <1>3, <1>10, <1>11, <2>1, SameLookMore
  <2>2. CASE opt = "-D"
    BY <1>1, <1>10, <1>11, <2>2
  <2> QED BY <2>1, <2>2
<1>13. c.dirs \in Seq(Words) /\ Kept(b.dirs, c.dirs)
  <2>1. c.dirs \in Seq(Words)
    BY <1>10 DEF Accumulators
  <2>2. CASE opt = "-I"
    <3>1. Kept(b.dirs, Append(b.dirs, p))
      BY <1>3, ContainsMore
    <3>2. c.dirs = Append(b.dirs, p)
      BY <1>10, <1>11, <2>2
    <3> QED BY <2>1, <3>1, <3>2
  <2>3. CASE opt = "-D"
    BY <1>10, <1>11, <2>1, <2>3 DEF Kept
  <2> QED BY <2>2, <2>3
<1>14. Included(g, b.dirs)
  <2>1. ~IsJoinedInclude(o) /\ Kept(b.dirs, b.dirs)
    BY <1>2 DEF IsJoinedInclude, Kept
  <2> QED BY <1>1, <1>2, <1>3, <2>1, IncludesMore
<1> HIDE DEF g
<1>15. Included(h, c.dirs)
  <2>1. ~IsJoinedInclude(p)
    BY DEF IsJoinedInclude
  <2> QED BY <1>3, <1>4, <1>13, <1>14, <2>1, IncludesMore
<1> HIDE DEF h
<1>16. BuiltLike(h, m2)
  BY <1>1, <1>4, <1>10, <1>11, <1>12, <1>15 DEF BuiltLike, c
<1> QED BY <1>5, <1>16 DEF o

\* One argument.
LEMMA OneWord ==
    ASSUME NEW w \in Words
    PROVE  <<w>> = Append(<<>>, w) /\ <<>> \in Seq(Words) /\ <<w>> \in Seq(Words)
OBVIOUS

\* At first the package's own directory is exported, and nothing is meant.
LEMMA BuiltAtFirst == BuiltLike(ExportStart.flags, NothingRead)
<1> DEFINE w == Word("-I", "src", <<>>)
           p == Word("", "src", <<>>)
           f == <<w>>
           c == CompilerReads(f)
<1>1. w \in Words /\ w.opt = "-I" /\ w.kind = "src" /\ p \in Words /\ TextOf(w) = p
      /\ "-I" \in Texts
  <2>1. "" \in Texts /\ "-I" \in Texts
    BY TextsAssumption
  <2>2. "src" \in Kinds /\ <<>> \in Seq(Texts)
    BY DEF Kinds
  <2>3. w \in Words /\ p \in Words
    BY <2>1, <2>2, WordType
  <2>4. w.opt = "-I" /\ w.kind = "src" /\ w.name = <<>>
    BY DEF Word
  <2>5. TextOf(w) = p
    <3> HIDE DEF w
    <3> QED BY <2>3, <2>4, TextOfWord DEF TextOf
  <2> QED BY <2>1, <2>3, <2>4, <2>5
<1>2. NothingRead \in Accumulators /\ NothingRead.open = "" /\ NothingRead.files = <<>> /\ NothingRead.dirs = <<>>
  <2>1. NothingRead.open = "" /\ NothingRead.files = <<>> /\ NothingRead.dirs = <<>>
    BY DEF NothingRead
  <2> QED BY <2>1, NothingReadType
<1>3. f = Append(<<>>, w) /\ <<>> \in Seq(Words) /\ f \in Seq(Words)
  BY <1>1, OneWord
<1>4. c = ReadWord(NothingRead, w)
  <2> HIDE DEF f, w
  <2> QED BY <1>1, <1>3, ReadsOneMore
<1>5. ReadWord(NothingRead, w) = Take(NothingRead, "-I", p)
  <2> HIDE DEF w, p
  <2> QED BY <1>1, <1>2, ReadWordCases DEF TextOf
<1>6. Taken(NothingRead, "-I", p, c) /\ c \in Accumulators
  <2> HIDE DEF w, p, c
  <2> QED BY <1>1, <1>2, <1>4, <1>5, TakeFields, TakeType
<1> HIDE DEF c
<1>7. /\ c.open = "" /\ c.files = <<>> /\ c.defines = NothingRead.defines /\ c.standard = NothingRead.standard
      /\ c.dirs = Append(<<>>, p)
  <2> HIDE DEF p
  <2> QED BY <1>2, <1>6 DEF Taken
<1>8. c.dirs = <<p>>
  BY <1>1, <1>7, OneWord
<1>9. SameLook(c.dirs, NothingRead.dirs)
  BY <1>2, <1>8, SameLookAtFirst
<1>10. Included(f, c.dirs)
  <2>1. DOMAIN f = {1} /\ f[1] = w
    OBVIOUS
  <2>2. Contains(c.dirs, p)
    <3>1. c.dirs[1] = p /\ 1 \in 1..Len(c.dirs)
      <4> HIDE DEF p
      <4> QED BY <1>8
    <3> QED BY <3>1 DEF Contains
  <2> HIDE DEF f, p, w
  <2> QED BY <1>1, <2>1, <2>2 DEF Included
<1> HIDE DEF f, p, w
<1>11. BuiltLike(f, NothingRead)
  BY <1>2, <1>3, <1>6, <1>7, <1>9, <1>10 DEF BuiltLike, c
<1>12. ExportStart.flags = f
  BY DEF ExportStart, f, w
<1> QED BY <1>11, <1>12

\* The options that are followed to the word after them.
OpenExported(opt) == IF opt \in {"-I", "-D", "-isystem"} THEN opt ELSE ""

\* What is exported, and what is meant.
ExportReads(ex, m) == BuiltLike(ex.flags, m) /\ ex.open = OpenExported(m.open)

ExportedLike(ex, m) == ex \in Exports /\ ExportReads(ex, m)

\* An export with other arguments, or another open option.
LEMMA ExportFields ==
    ASSUME NEW ex \in Exports
    PROVE  /\ \A f : [ex EXCEPT !.flags = f].flags = f /\ [ex EXCEPT !.flags = f].open = ex.open
           /\ \A o : [ex EXCEPT !.open = o].flags = ex.flags /\ [ex EXCEPT !.open = o].open = o
BY DEF Exports

\* What is meant, with another option open.
LEMMA MeantFields ==
    ASSUME NEW m \in Accumulators, NEW opt \in Texts
    PROVE  LET m2 == WithOpen(m, opt) IN
           /\ m2 \in Accumulators /\ m2.open = opt /\ m2.dirs = m.dirs
           /\ m2.defines = m.defines /\ m2.standard = m.standard
<1>1. WithOpen(m, opt) \in Accumulators
  <2> HIDE DEF Words
  <2> QED BY DEF WithOpen, Accumulators
<1> QED BY <1>1 DEF WithOpen, Accumulators

\* The text after an option is of the same kind.
LEMMA TextFields ==
    ASSUME NEW w \in Words
    PROVE  TextOf(w).opt = "" /\ TextOf(w).kind = w.kind /\ TextOf(w).name = w.name
BY DEF TextOf, Words

\* An option that stands alone is exported later, with its value, or not at all.
LEMMA ExportAlone ==
    ASSUME NEW ex, NEW m, ExportedLike(ex, m), m.open = "", NEW w \in Words, w.kind = "none", w.opt # "-std="
    PROVE  ExportReads(ExportCxxflag(ex, w, w), ReadWord(m, w))
<1> DEFINE to == ExportCxxflag(ex, w, w)
           m2 == ReadWord(m, w)
<1>1. ex \in Exports /\ BuiltLike(ex.flags, m) /\ ex.open = "" /\ m \in Accumulators /\ w.opt \in Texts
  BY DEF ExportedLike, ExportReads, OpenExported, BuiltLike, Words
<1>2. m2 = WithOpen(m, w.opt)
  BY <1>1, ReadWordCases
<1>3. /\ m2 \in Accumulators /\ m2.open = w.opt /\ m2.dirs = m.dirs
      /\ m2.defines = m.defines /\ m2.standard = m.standard
  <2> HIDE DEF m2
  <2> QED BY <1>1, <1>2, MeantFields
<1>4. to.flags = ex.flags /\ to.open = OpenExported(w.opt)
  <2>1. CASE w.opt \in {"-I", "-D", "-isystem"}
    <3>1. to = [ex EXCEPT !.open = w.opt]
      BY <1>1, <2>1 DEF ExportCxxflag
    <3> HIDE DEF to
    <3> QED BY <1>1, <2>1, <3>1, ExportFields DEF OpenExported
  <2>2. CASE w.opt \notin {"-I", "-D", "-isystem"}
    <3>1. to = [ex EXCEPT !.flags = ExportJoined(ex, w, w)]
      BY <1>1, <2>2 DEF ExportCxxflag
    <3>2. ExportJoined(ex, w, w) = ex.flags
      BY <2>2 DEF ExportJoined
    <3> HIDE DEF to
    <3> QED BY <1>1, <2>2, <3>1, <3>2, ExportFields DEF OpenExported
  <2> QED BY <2>1, <2>2
<1> HIDE DEF to, m2
<1>5. BuiltLike(to.flags, m2)
  BY <1>1, <1>3, <1>4, BuiltStays
<1> QED BY <1>3, <1>4, <1>5 DEF to, m2, ExportReads

\* The value of an option, in a word of its own, is exported after it.
LEMMA ExportAfter ==
    ASSUME NEW ex, NEW m, ExportedLike(ex, m), m.open # "", m.open # "-std=",
           NEW w \in Words, w.opt = "", NEW e \in Words, e.opt = "",
           NEW d \in Words, d.opt = "", d.kind # "none",
           IF m.open \in {"-I", "-isystem"} THEN d.kind = "abs" /\ d.name = At(Base, e) ELSE d = e
    PROVE  ExportReads(ExportCxxflag(ex, w, d), ReadWord(m, e))
<1> DEFINE to == ExportCxxflag(ex, w, d)
           opt == m.open
           t == Take(m, opt, e)
           m2 == ReadWord(m, e)
<1>1. ex \in Exports /\ BuiltLike(ex.flags, m) /\ ex.open = OpenExported(opt) /\ m \in Accumulators /\ opt \in Texts
  BY DEF ExportedLike, ExportReads, BuiltLike, Accumulators
<1>2. AsText(w) = w /\ AsText(d) = d
  BY TextIsWord
<1>3. m2 = WithOpen(t, "")
  BY <1>1, ReadWordCases
<1>4. t \in Accumulators /\ Taken(m, opt, e, t) /\ "" \in Texts
  BY <1>1, TakeType, TakeFields, TextsAssumption
<1>5. /\ m2 \in Accumulators /\ m2.open = "" /\ m2.dirs = t.dirs
      /\ m2.defines = t.defines /\ m2.standard = t.standard
  <2> HIDE DEF m2, t
  <2> QED BY <1>3, <1>4, MeantFields
<1> HIDE DEF m2, t, opt
<1>6. to.open = ""
  <2>1. CASE ex.open # ""
    BY <2>1 DEF ExportCxxflag
  <2>2. CASE ex.open = ""
    <3>1. to = [ex EXCEPT !.flags = ExportJoined(ex, w, d)]
      BY <2>2 DEF ExportCxxflag
    <3> HIDE DEF to
    <3> QED BY <1>1, <2>2, <3>1, ExportFields
  <2> QED BY <2>1, <2>2
<1>7. BuiltLike(to.flags, t)
  <2>1. CASE opt = "-I"
    <3> DEFINE p == ExportedIncludePath(w, d)
    <3>1. to.flags = ex.flags \o <<Option(opt), p>>
      BY <1>1, <1>2, <2>1 DEF OpenExported, ExportCxxflag, ExportValue
    <3>2. p \in Words /\ p.opt = "" /\ LeadsTo(p, e)
      <4>1. d.kind = "abs" /\ d.name = At(Base, e)
        BY <2>1 DEF opt
      <4> HIDE DEF p
      <4>2. p \in Words /\ p.opt = "" /\ p.kind \in {"abs", "src"} /\ LeadsTo(p, e)
        BY <4>1, ExportLeads DEF p
      <4> QED BY <4>2
    <3> HIDE DEF p, to
    <3>3. BuiltLike(ex.flags \o <<Option(opt), p>>, t)
      BY <1>1, <1>4, <2>1, <3>2, BuiltDetached
    <3> QED BY <3>1, <3>3
  <2>2. CASE opt = "-D"
    <3>1. to.flags = ex.flags \o <<Option(opt), d>>
      BY <1>1, <1>2, <2>2 DEF OpenExported, ExportCxxflag, ExportValue
    <3>2. d = e
      BY <2>2 DEF opt
    <3> HIDE DEF to
    <3>3. BuiltLike(ex.flags \o <<Option(opt), d>>, t)
      BY <1>1, <1>4, <2>2, <3>2, BuiltDetached
    <3> QED BY <3>1, <3>3
  <2>3. CASE opt \notin {"-I", "-D"}
    <3>1. to.flags = ex.flags
      <4>1. CASE ex.open # ""
        <5>1. ex.open \notin {"-I", "-D"}
          BY <1>1, <2>3, <4>1 DEF OpenExported
        <5> QED BY <4>1, <5>1 DEF ExportCxxflag, ExportValue
      <4>2. CASE ex.open = ""
        <5>1. to = [ex EXCEPT !.flags = ExportJoined(ex, w, d)]
          BY <4>2 DEF ExportCxxflag
        <5>2. ExportJoined(ex, w, d) = ex.flags
          BY DEF ExportJoined
        <5> HIDE DEF to
        <5> QED BY <1>1, <5>1, <5>2, ExportFields
      <4> QED BY <4>1, <4>2
    <3>2. t.dirs = m.dirs /\ t.defines = m.defines /\ t.standard = m.standard
      BY <1>4, <2>3 DEF Taken, opt
    <3> HIDE DEF to
    <3> QED BY <1>1, <1>4, <3>1, <3>2, BuiltStays
  <2> QED BY <2>1, <2>2, <2>3
<1> HIDE DEF to
<1>8. BuiltLike(to.flags, m2)
  BY <1>5, <1>7, BuiltStays
<1> QED BY <1>5, <1>6, <1>8 DEF to, m2, OpenExported, ExportReads

\* An option and its value in one word, what it expands to and what it is resolved to.
InOne(w, e, d) ==
    /\ e.kind \in {"rel", "abs"} /\ d.kind \in {"rel", "abs"} /\ w.opt = e.opt /\ d.opt = e.opt
    /\ IF e.opt \in {"-I", "-isystem"} THEN d.kind = "abs" /\ d.name = At(Base, e) ELSE d = e

\* A word that holds an option and its value, or a text, is exported or not.
LEMMA ExportInOne ==
    ASSUME NEW ex, NEW m, ExportedLike(ex, m), m.open = "",
           NEW w \in Words, NEW e \in Words, NEW d \in Words, InOne(w, e, d)
    PROVE  ExportReads(ExportCxxflag(ex, w, d), ReadWord(m, e))
<1> DEFINE to == ExportCxxflag(ex, w, d)
           m2 == ReadWord(m, e)
           v == ValueOf(e)
<1>0. /\ e.kind \in {"rel", "abs"} /\ d.kind \in {"rel", "abs"} /\ w.opt = e.opt /\ d.opt = e.opt
      /\ e.opt \in {"-I", "-isystem"} => d.kind = "abs" /\ d.name = At(Base, e)
      /\ e.opt \notin {"-I", "-isystem"} => d = e
  BY DEF InOne
<1>1. ex \in Exports /\ BuiltLike(ex.flags, m) /\ ex.open = "" /\ m \in Accumulators /\ e.opt \in Texts
  BY DEF ExportedLike, ExportReads, OpenExported, BuiltLike, Words
<1>2. v \in Words /\ (e.opt \in {"-I", "-D", "-std="} => v = TextOf(e))
  BY TextIsWord DEF ValueOf, TextOf
<1>3. m2 = Take(m, e.opt, v)
  BY <1>0, <1>1, ReadWordCases
<1> HIDE DEF v, m2
<1>4. m2 \in Accumulators /\ Taken(m, e.opt, v, m2) /\ m2.open = ""
  <2>1. m2 \in Accumulators /\ Taken(m, e.opt, v, m2)
    BY <1>1, <1>2, <1>3, TakeType, TakeFields
  <2> QED BY <2>1 DEF Taken
<1>5. to.open = "" /\ to.flags = ExportJoined(ex, w, d)
  <2>1. to = [ex EXCEPT !.flags = ExportJoined(ex, w, d)]
    BY <1>0, <1>1 DEF ExportCxxflag
  <2> HIDE DEF to
  <2> QED BY <1>1, <2>1, ExportFields
<1> HIDE DEF to
<1>6. CASE e.opt = "-I"
  <2> DEFINE p == ExportedIncludePath(RawInclude(w, d), TextOf(d))
             x == [p EXCEPT !.opt = "-I"]
  <2>1. RawInclude(w, d) \in Words /\ TextOf(d) \in Words /\ TextOf(d).opt = "" /\ TextOf(d).kind = d.kind /\ TextOf(d).name = d.name
    <3>1. RawInclude(w, d) \in Words /\ TextOf(d) \in Words
      BY TextIsWord DEF RawInclude, TextOf
    <3>2. TextOf(d).opt = "" /\ TextOf(d).kind = d.kind /\ TextOf(d).name = d.name
      BY TextFields
    <3> QED BY <3>1, <3>2
  <2>2. At(Base, v) = At(Base, e)
    <3>1. v = Word("", e.kind, e.name)
      BY <1>2, <1>6, TextOfWord DEF TextOf
    <3>2. v.kind = e.kind /\ v.name = e.name
      BY <3>1 DEF Word
    <3> QED BY <1>0, <3>2, PathAt
  <2>3. p \in Words /\ p.opt = "" /\ p.kind # "none" /\ LeadsTo(p, v)
    <3>1. TextOf(d).kind = "abs" /\ TextOf(d).name = At(Base, v)
      BY <1>0, <1>6, <2>1, <2>2
    <3> HIDE DEF p
    <3>2. p \in Words /\ p.opt = "" /\ p.kind \in {"abs", "src"} /\ LeadsTo(p, v)
      BY <1>2, <2>1, <3>1, ExportLeads DEF p
    <3> QED BY <3>2
  <2>4. ExportJoined(ex, w, d) = IF x \in ToSet(ex.flags) THEN ex.flags ELSE Append(ex.flags, x)
    BY <1>0, <1>6 DEF ExportJoined, TextOf
  <2> HIDE DEF p
  <2>5. x \in Words /\ x.opt = "-I" /\ x.kind = p.kind /\ TextOf(x) = p
    <3>1. "-I" \in Texts
      BY TextsAssumption
    <3>2. x \in Words /\ x.opt = "-I" /\ x.kind = p.kind /\ x.name = p.name
      BY <2>3, <3>1, OtherOption
    <3>3. TextOf(x) = Word("", x.kind, x.name) /\ p = Word("", p.kind, p.name)
      <4>1. TextOf(x) = Word("", x.kind, x.name)
        <5> HIDE DEF x
        <5> QED BY <3>2, TextOfWord DEF TextOf
      <4>2. p = Word("", p.kind, p.name)
        BY <2>3 DEF Words, Word
      <4> QED BY <4>1, <4>2
    <3> QED BY <3>2, <3>3
  <2> HIDE DEF x
  <2>6. m2 = Take(m, "-I", v)
    BY <1>3, <1>6
  <2>7. /\ x \in ToSet(ex.flags) => BuiltLike(ex.flags, m2)
        /\ BuiltLike(Append(ex.flags, x), m2)
    BY <1>1, <1>2, <2>3, <2>5, <2>6, BuiltInclude
  <2>8. BuiltLike(to.flags, m2)
    BY <1>5, <2>4, <2>7
  <2> QED BY <1>4, <1>5, <2>8 DEF to, m2, OpenExported, ExportReads
<1>7. CASE e.opt \in {"-D", "-std="}
  <2>1. d = e /\ d.kind # "none"
    BY <1>0, <1>7
  <2>2. to.flags = Append(ex.flags, d)
    BY <1>0, <1>5, <1>7 DEF ExportJoined
  <2>3. m2 = Take(m, d.opt, TextOf(d))
    BY <1>2, <1>3, <1>7, <2>1
  <2>4. BuiltLike(to.flags, m2)
    BY <1>1, <1>7, <2>1, <2>2, <2>3, BuiltJoined
  <2> QED BY <1>4, <1>5, <2>4 DEF to, m2, OpenExported, ExportReads
<1>8. CASE e.opt \notin {"-I", "-D", "-std="}
  <2>1. to.flags = ex.flags
    BY <1>0, <1>5, <1>8 DEF ExportJoined
  <2>2. m2.dirs = m.dirs /\ m2.defines = m.defines /\ m2.standard = m.standard
    BY <1>4, <1>8 DEF Taken
  <2>3. BuiltLike(to.flags, m2)
    BY <1>1, <1>4, <2>1, <2>2, BuiltStays
  <2> QED BY <1>4, <1>5, <2>3 DEF to, m2, OpenExported, ExportReads
<1> QED BY <1>6, <1>7, <1>8

\* What is exported of the first arguments is read like what they mean.
ExportedUpToLike(env, raw, k) ==
    ExportedLike(ExportedUpTo(raw, ResolveClangArgs(env, raw), k), Reads(Expanded(env, raw), k))

\* Plain arguments are words, as are the resolved ones.
LEMMA PlainWords ==
    ASSUME NEW env, NEW raw, Plain0(env, raw)
    PROVE  /\ raw \in Seq(Words) /\ Len(raw) \in Nat /\ DOMAIN raw = 1..Len(raw)
           /\ ResolveClangArgs(env, raw) \in Seq(Words) /\ Len(ResolveClangArgs(env, raw)) = Len(raw)
           /\ Expanded(env, raw) \in Seq(Words) /\ Len(Expanded(env, raw)) = Len(raw)
           /\ \A i \in 1..Len(raw) : raw[i] \in Words /\ Expanded(env, raw)[i] = Expand(env, raw[i])
<1> DEFINE n == Len(raw)
<1>1. n \in Nat /\ DOMAIN raw = 1..n /\ \A i \in 1..n : raw[i] \in LineWords(env) /\ Expanded(env, raw)[i] = Expand(env, raw[i])
  BY ExpandedWords
<1>2. \A i \in 1..n : raw[i] \in Words
  BY <1>1 DEF LineWords
<1>3. raw = [i \in 1..n |-> raw[i]]
  <2>1. raw \in Seq(LineWords(env))
    BY DEF Plain0
  <2> QED BY <2>1
<1> HIDE DEF n
<1>4. raw \in [1..n -> Words]
  BY <1>2, <1>3
<1>5. raw \in Seq(Words)
  BY <1>1, <1>4
<1> QED BY <1>1, <1>2, <1>5, ExpandedWords, PlainResolved DEF n

\* The next argument is exported like it is meant.
LEMMA ExportedStep ==
    ASSUME NEW env, NEW raw, Plain0(env, raw), NEW k \in 0..(Len(raw) - 1), ExportedUpToLike(env, raw, k)
    PROVE  ExportedUpToLike(env, raw, k + 1)
<1> DEFINE r == ResolveClangArgs(env, raw)
           x == Expanded(env, raw)
           ex == ExportedUpTo(raw, r, k)
           m == Reads(x, k)
           w == raw[k + 1]
           e == Expand(env, w)
           d == r[k + 1]
           V == k > 0 /\ IsInclude(raw[k]) /\ raw[k].kind = "none"
           to == ExportCxxflag(ex, w, d)
<1>0. Values(env)
  BY DEF Plain0
<1>1. /\ raw \in Seq(Words) /\ Len(raw) \in Nat /\ DOMAIN raw = 1..Len(raw)
      /\ r \in Seq(Words) /\ Len(r) = Len(raw) /\ x \in Seq(Words) /\ Len(x) = Len(raw)
      /\ \A i \in 1..Len(raw) : raw[i] \in Words /\ x[i] = Expand(env, raw[i])
  BY PlainWords
<1>2. /\ k \in Nat /\ k + 1 \in 1..Len(raw) /\ k \in 0..Len(raw) /\ k + 1 \in 0..Len(raw)
      /\ (k > 0 => k \in 1..Len(raw)) /\ (k + 1) - 1 = k
  BY <1>1
<1>3. ResolvedTo(env, w, d, V)
  BY PlainNext
<1>4. Reads(x, k + 1) = ReadWord(m, e)
  <2>1. k \in 0..(Len(x) - 1) /\ x[k + 1] = e
    BY <1>1, <1>2
  <2> QED BY <1>1, <2>1, ReadsSteps
<1>5. ExportedUpTo(raw, r, k + 1) = to /\ ExportedUpTo(raw, r, k + 1) \in Exports
  <2>1. k \in 0..(Len(r) - 1) /\ k + 1 \in 0..Len(r) /\ Len(raw) = Len(r)
    BY <1>1, <1>2
  <2> HIDE DEF r
  <2> QED BY <1>1, <2>1, ExportSteps
<1>6. ExportedLike(ex, m)
  BY DEF ExportedUpToLike
<1>7. m.open = OpenAfter(raw, k)
  <2>1. AlikeUpTo(env, raw, k)
    BY <1>2, PlainRead
  <2> QED BY <2>1 DEF AlikeUpTo
<1>8. w \in Words /\ d \in Words /\ e \in Words
  <2>1. w \in Words /\ x[k + 1] = e
    BY <1>1, <1>2
  <2>2. k + 1 \in 1..Len(r) /\ k + 1 \in 1..Len(x)
    BY <1>1, <1>2
  <2>3. r[k + 1] \in Words /\ x[k + 1] \in Words
    <3>1. r \in Seq(Words) /\ x \in Seq(Words)
      BY <1>1
    <3> HIDE DEF r, x
    <3> QED BY <2>2, <3>1, ElementOf
  <2> QED BY <2>1, <2>3
<1>9. /\ w.opt = "-std=" => w.kind # "none"
      /\ k > 0 /\ raw[k].kind = "none" => w.opt = "" /\ raw[k].opt # "-std="
  <2>1. \A i \in DOMAIN raw :
            /\ raw[i].opt = "-std=" => raw[i].kind # "none"
            /\ i > 1 /\ raw[i - 1].kind = "none" => raw[i].opt = ""
    BY DEF Plain0
  <2>2. k > 0 => k + 1 > 1
    BY <1>2
  <2>3. raw[(k + 1) - 1] = raw[k]
    BY <1>2
  <2> QED BY <1>1, <1>2, <2>1, <2>2, <2>3
<1>10. /\ w.kind = "none" => d = w /\ e = w /\ w.opt # ""
       /\ w.kind # "none" =>
             /\ PlainWord(env, w)
             /\ d = IF V \/ IsInclude(w) THEN Word(w.opt, "abs", At(Base, e)) ELSE e
  BY <1>3 DEF ResolvedTo
<1> HIDE DEF r, x, ex, m, w, e, d, V, to
<1>11. ExportReads(to, ReadWord(m, e))
  <2>1. CASE w.kind = "none"
    <3>1. m.open = "" /\ w.opt # "-std=" /\ d = w /\ e = w
      BY <1>7, <1>9, <1>10, <2>1 DEF OpenAfter
    <3> QED BY <1>6, <1>8, <2>1, <3>1, ExportAlone DEF to
  <2>2. CASE w.kind # "none" /\ m.open # ""
    <3>1. k > 0 /\ raw[k].kind = "none" /\ m.open = raw[k].opt /\ w.opt = "" /\ m.open # "-std="
      BY <1>7, <1>9, <2>2 DEF OpenAfter
    <3>2. e.opt = "" /\ e.kind \in {"rel", "abs"}
      BY <1>0, <1>10, <2>2, <3>1, ExpandPlain DEF e
    <3>3. V <=> m.open \in {"-I", "-isystem"}
      BY <1>2, <3>1 DEF V, IsInclude
    <3>4. ~IsInclude(w)
      BY <3>1 DEF IsInclude
    <3>5. d = IF V THEN Word("", "abs", At(Base, e)) ELSE e
      BY <1>10, <2>2, <3>1, <3>4
    <3>6. /\ d.opt = "" /\ d.kind \in {"rel", "abs"} /\ (V => d.kind = "abs" /\ d.name = At(Base, e))
          /\ (~V => d = e)
      BY <3>2, <3>5 DEF Word
    <3>7. IF m.open \in {"-I", "-isystem"} THEN d.kind = "abs" /\ d.name = At(Base, e) ELSE d = e
      BY <3>3, <3>6
    <3>8. d.kind # "none" /\ d.opt = ""
      BY <3>6
    <3> QED BY <1>6, <1>8, <2>2, <3>1, <3>2, <3>7, <3>8, ExportAfter DEF to
  <2>3. CASE w.kind # "none" /\ m.open = ""
    <3>1. e.opt = w.opt /\ e.kind \in {"rel", "abs"}
      BY <1>0, <1>10, <2>3, ExpandPlain DEF e
    <3>2. ~V
      <4>1. k > 0 /\ raw[k].kind = "none" => raw[k].opt = ""
        BY <1>7, <2>3 DEF OpenAfter
      <4> QED BY <1>2, <4>1 DEF V, IsInclude
    <3>3. d = IF IsInclude(w) THEN Word(w.opt, "abs", At(Base, e)) ELSE e
      BY <1>10, <2>3, <3>2
    <3>4. /\ d.opt = e.opt /\ d.kind \in {"rel", "abs"}
          /\ IsInclude(w) => d.kind = "abs" /\ d.name = At(Base, e)
          /\ ~IsInclude(w) => d = e
      BY <3>1, <3>3 DEF Word
    <3>5. IsInclude(w) <=> e.opt \in {"-I", "-isystem"}
      BY <3>1 DEF IsInclude
    <3>6. IF e.opt \in {"-I", "-isystem"} THEN d.kind = "abs" /\ d.name = At(Base, e) ELSE d = e
      BY <3>4, <3>5
    <3>7. d.opt = e.opt /\ d.kind \in {"rel", "abs"} /\ w.opt = e.opt
      BY <3>1, <3>4
    <3>8. InOne(w, e, d)
      BY <3>1, <3>6, <3>7 DEF InOne
    <3> QED BY <1>6, <1>8, <2>3, <3>8, ExportInOne DEF to
  <2> QED BY <2>1, <2>2, <2>3
<1>12. ExportedLike(ExportedUpTo(raw, r, k + 1), Reads(x, k + 1))
  BY <1>4, <1>5, <1>11 DEF ExportedLike
<1> QED BY <1>12 DEF ExportedUpToLike, r, x

\* Nothing but the package's own directory is exported before the first argument.
LEMMA ExportedAtFirst ==
    ASSUME NEW env, NEW raw, Plain0(env, raw)
    PROVE  ExportedUpToLike(env, raw, 0)
<1> DEFINE r == ResolveClangArgs(env, raw)
           x == Expanded(env, raw)
<1>1. raw \in Seq(Words) /\ r \in Seq(Words) /\ Len(r) = Len(raw) /\ x \in Seq(Words) /\ Len(r) \in Nat
  BY PlainWords
<1> HIDE DEF r, x
<1>2. 0 \in 0..Len(r)
  BY <1>1
<1>3. ExportedUpTo(raw, r, 0) = ExportStart /\ ExportedUpTo(raw, r, 0) \in Exports
  BY <1>1, <1>2, ExportSteps
<1>4. Reads(x, 0) = NothingRead
  BY <1>1, ReadsSteps
<1>5. ExportStart.open = OpenExported(NothingRead.open)
  BY DEF ExportStart, NothingRead, OpenExported
<1>6. ExportedLike(ExportedUpTo(raw, r, 0), Reads(x, 0))
  BY <1>3, <1>4, <1>5, BuiltAtFirst DEF ExportedLike, ExportReads
<1> QED BY <1>6 DEF ExportedUpToLike, r, x

\* What is exported is read like what is meant.
LEMMA ExportRead ==
    ASSUME NEW env, NEW raw, Plain0(env, raw)
    PROVE  BuiltLike(ExportedCxxflags(raw, ResolveClangArgs(env, raw)), CompilerReads(Expanded(env, raw)))
<1> DEFINE n == Len(raw)
           S == {k \in 0..n : ExportedUpToLike(env, raw, k)}
<1>1. n \in Nat
  BY PlainWords
<1>2. 0 \in S
  BY <1>1, ExportedAtFirst
<1>3. ASSUME NEW k \in 0..(n - 1), k \in S PROVE k + 1 \in S
  <2>1. k + 1 \in 0..n
    BY <1>1
  <2>2. ExportedUpToLike(env, raw, k + 1)
    BY <1>3, ExportedStep
  <2> QED BY <2>1, <2>2
<1>4. \A k \in 0..n : k \in S
  <2> HIDE DEF S, n
  <2> QED BY <1>1, <1>2, <1>3, UpTo
<1>5. ExportedUpToLike(env, raw, n)
  <2>1. n \in 0..n
    BY <1>1
  <2> HIDE DEF n
  <2> QED BY <1>4, <2>1
<1> DEFINE r == ResolveClangArgs(env, raw)
           x == Expanded(env, raw)
<1>6. raw \in Seq(Words) /\ r \in Seq(Words) /\ Len(r) = Len(raw) /\ x \in Seq(Words) /\ Len(x) = Len(raw)
  BY PlainWords
<1>7. ExportedLike(ExportedUpTo(raw, r, n), Reads(x, n))
  BY <1>5 DEF ExportedUpToLike
<1> HIDE DEF r, x
<1>8. ExportedCxxflags(raw, r) = ExportedUpTo(raw, r, n).flags
  BY <1>6, ExportIsFold
<1>9. Reads(x, n) = CompilerReads(x)
  BY <1>6, ReadsSteps
<1>10. BuiltLike(ExportedCxxflags(raw, r), CompilerReads(x))
  BY <1>7, <1>8, <1>9 DEF ExportedLike, ExportReads
<1> QED BY <1>10 DEF r, x

(***************************************************************************)
(* Linker arguments, one after the other                                   *)
(***************************************************************************)

\* Plain arguments, as a set.
PlainOnes(env) == {w \in LineWords(env) : PlainWord(env, w) \/ (w.kind = "none" /\ w.name = <<>>)}

\* What becomes of a linker argument, when it follows -L that stands alone or not.
LdWord(env, w, detached) ==
    IF detached THEN ResolveSearchDir(env, w)
    ELSE IF w.opt = "-L" THEN [ResolveSearchDir(env, TextOf(w)) EXCEPT !.opt = "-L"]
    ELSE IF IsLibraryFile(Expand(env, w)) THEN ResolvePath(env, Expand(env, w))
    ELSE Expand(env, w)

LdResolving(env) == [p \in Resolutions \X PlainOnes(env) |-> ResolveLdflag(env, p[1], p[2])]

\* What becomes of it is a word.
LEMMA LdWordType ==
    ASSUME NEW env, Values(env), NEW w \in PlainOnes(env), NEW detached \in BOOLEAN
    PROVE  LdWord(env, w, detached) \in Words
<1>1. ASSUME NEW v \in PlainOnes(env) PROVE Expand(env, v) \in LineWords(env) /\ Expand(env, v) \in Words
  <2>1. CASE PlainWord(env, v)
    <3>1. Expand(env, v) \in Words /\ Expand(env, v).kind \in {"rel", "abs"}
      BY <2>1, ExpandPlain
    <3> QED BY <3>1 DEF LineWords
  <2>2. CASE v.kind = "none"
    <3>1. Expand(env, v) = v /\ v \in LineWords(env) /\ v \in Words
      BY <2>2 DEF Expand, PlainOnes, LineWords
    <3> QED BY <3>1
  <2> QED BY <2>1, <2>2 DEF PlainOnes
<1>2. ASSUME NEW v \in PlainOnes(env) PROVE ResolveSearchDir(env, v) \in Words
  BY <1>1, ResolvePathType DEF ResolveSearchDir
<1>3. TextOf(w) \in PlainOnes(env)
  <2>1. w \in Words /\ w \in LineWords(env) /\ (PlainWord(env, w) \/ (w.kind = "none" /\ w.name = <<>>))
    BY DEF PlainOnes, LineWords
  <2>2. TextOf(w) \in Words /\ TextOf(w).kind = w.kind /\ TextOf(w).name = w.name
    BY <2>1, TextIsWord, TextFields DEF TextOf
  <2> QED BY <2>1, <2>2 DEF PlainOnes, PlainWord, LineWords
<1>4. [ResolveSearchDir(env, TextOf(w)) EXCEPT !.opt = "-L"] \in Words \/ w.opt # "-L"
  <2> SUFFICES ASSUME w.opt = "-L" PROVE [ResolveSearchDir(env, TextOf(w)) EXCEPT !.opt = "-L"] \in Words
    OBVIOUS
  <2>1. "-L" \in Texts
    BY DEF PlainOnes, LineWords, Words
  <2>2. ResolveSearchDir(env, TextOf(w)) \in Words
    BY <1>2, <1>3
  <2> QED BY <2>1, <2>2, OtherOption
<1>5. ResolvePath(env, Expand(env, w)) \in Words
  BY <1>1, ResolvePathType
<1> QED BY <1>1, <1>2, <1>4, <1>5 DEF LdWord

\* Linker arguments are resolved by the fold of a function.
LEMMA LdResolvingType ==
    ASSUME NEW env, Values(env)
    PROVE  /\ IsFolding(LdResolving(env), ResolveStart, Resolutions, PlainOnes(env))
           /\ \A acc \in Resolutions, w \in PlainOnes(env) :
                 LdResolving(env)[<<acc, w>>] = ResolveLdflag(env, acc, w)
           /\ \A acc \in Resolutions, w \in PlainOnes(env) :
                 ResolveLdflag(env, acc, w) =
                     [args |-> Append(acc.args, LdWord(env, w, acc.detached)),
                      detached |-> ~acc.detached /\ w.opt = "-L" /\ w.kind = "none"]
<1>1. ASSUME NEW acc \in Resolutions, NEW w \in PlainOnes(env)
      PROVE  /\ ResolveLdflag(env, acc, w) \in Resolutions
             /\ ResolveLdflag(env, acc, w) =
                     [args |-> Append(acc.args, LdWord(env, w, acc.detached)),
                      detached |-> ~acc.detached /\ w.opt = "-L" /\ w.kind = "none"]
  <2>0. acc.args \in Seq(Words) /\ acc.detached \in BOOLEAN
    BY DEF Resolutions
  <2>1. LdWord(env, w, acc.detached) \in Words
    BY <2>0, LdWordType
  <2>2. Append(acc.args, LdWord(env, w, acc.detached)) \in Seq(Words)
    BY <2>0, <2>1, AppendFacts
  <2> DEFINE to == [args |-> Append(acc.args, LdWord(env, w, acc.detached)),
                    detached |-> ~acc.detached /\ w.opt = "-L" /\ w.kind = "none"]
  <2>3. to \in Resolutions
    <3>1. (~acc.detached /\ w.opt = "-L" /\ w.kind = "none") \in BOOLEAN
      OBVIOUS
    <3> QED BY <2>2, <3>1 DEF Resolutions
  <2>4. ResolveLdflag(env, acc, w) = to
    <3>1. CASE acc.detached
      <4>1. LdWord(env, w, acc.detached) = ResolveSearchDir(env, w)
        BY <3>1 DEF LdWord
      <4>2. (~acc.detached /\ w.opt = "-L" /\ w.kind = "none") = FALSE
        BY <3>1
      <4>3. ResolveLdflag(env, acc, w) = [args |-> Append(acc.args, ResolveSearchDir(env, w)), detached |-> FALSE]
        BY <3>1 DEF ResolveLdflag
      <4> QED BY <4>1, <4>2, <4>3
    <3>2. CASE ~acc.detached
      <4>1. LdWord(env, w, acc.detached) =
                IF w.opt = "-L" THEN [ResolveSearchDir(env, [w EXCEPT !.opt = ""]) EXCEPT !.opt = "-L"]
                ELSE IF IsLibraryFile(Expand(env, w)) THEN ResolvePath(env, Expand(env, w))
                ELSE Expand(env, w)
        BY <3>2 DEF LdWord, TextOf
      <4>2. (~acc.detached /\ w.opt = "-L" /\ w.kind = "none") = (w.opt = "-L" /\ w.kind = "none")
        BY <3>2
      <4>3. ResolveLdflag(env, acc, w) =
                [args |-> Append(acc.args, LdWord(env, w, acc.detached)), detached |-> w.opt = "-L" /\ w.kind = "none"]
        BY <3>2, <4>1 DEF ResolveLdflag
      <4> QED BY <4>2, <4>3
    <3> QED BY <2>0, <3>1, <3>2
  <2> HIDE DEF to
  <2>5. ResolveLdflag(env, acc, w) \in Resolutions
    BY <2>3, <2>4
  <2> QED BY <2>4, <2>5 DEF to
<1>2. ResolveStart \in Resolutions
  <2>1. <<>> \in Seq(Words)
    OBVIOUS
  <2> QED BY <2>1 DEF ResolveStart, Resolutions
<1>3. /\ \A acc \in Resolutions, w \in PlainOnes(env) : ResolveLdflag(env, acc, w) \in Resolutions
      /\ \A acc \in Resolutions, w \in PlainOnes(env) :
            ResolveLdflag(env, acc, w) =
                     [args |-> Append(acc.args, LdWord(env, w, acc.detached)),
                      detached |-> ~acc.detached /\ w.opt = "-L" /\ w.kind = "none"]
  BY <1>1
<1>4. IsFolding(LdResolving(env), ResolveStart, Resolutions, PlainOnes(env))
  BY <1>2, <1>3 DEF IsFolding, LdResolving
<1>5. \A acc \in Resolutions, w \in PlainOnes(env) : LdResolving(env)[<<acc, w>>] = ResolveLdflag(env, acc, w)
  BY DEF LdResolving
<1> QED BY <1>3, <1>4, <1>5

\* Resolution of linker arguments, as the fold of a function.
LEMMA LdIsFold ==
    ASSUME NEW env, Values(env), NEW s \in Seq(PlainOnes(env))
    PROVE  ResolveLdflags(env, s) = FoldOf(LdResolving(env), ResolveStart, s).args
<1> DEFINE n == Len(s)
           it == CHOOSE it : it = [T \in SUBSET DOMAIN s |->
                                      IF T = {} THEN ResolveStart ELSE ResolveLdflag(env, it[T \ {Max(T)}], s[Max(T)])]
<1>1. IsFolding(LdResolving(env), ResolveStart, Resolutions, PlainOnes(env))
  BY LdResolvingType
<1>2. PICK g \in [SUBSET (1..n) -> Resolutions] : IsFold(g, LdResolving(env), ResolveStart, s)
  BY <1>1, FoldExists
<1>3. FoldOf(LdResolving(env), ResolveStart, s) = g[1..n]
  BY <1>2, FoldIs
<1>4. n \in Nat /\ DOMAIN s = 1..n /\ \A i \in 1..n : s[i] \in PlainOnes(env)
  OBVIOUS
<1>5. ResolveLdflags(env, s) = it[DOMAIN s].args
  BY DEF ResolveLdflags, ResolveStart, FoldLeft, MapThenFoldSet
<1>6. ASSUME NEW T \in SUBSET (1..n), T # {}
      PROVE  g[T] = ResolveLdflag(env, g[T \ {Max(T)}], s[Max(T)])
  <2>1. Max(T) \in 1..n /\ s[Max(T)] \in PlainOnes(env) /\ g[T \ {Max(T)}] \in Resolutions
    BY <1>4, <1>6, LastPlace
  <2>2. g[T] = LdResolving(env)[<<g[T \ {Max(T)}], s[Max(T)]>>]
    BY <1>2, <1>6 DEF IsFold
  <2> QED BY <2>1, <2>2, LdResolvingType
<1>7. g[{}] = ResolveStart /\ {} \in SUBSET (1..n)
  BY <1>2 DEF IsFold
<1>8. g = [T \in SUBSET DOMAIN s |-> IF T = {} THEN ResolveStart ELSE ResolveLdflag(env, g[T \ {Max(T)}], s[Max(T)])]
  BY <1>4, <1>6, <1>7
<1>9. it = [T \in SUBSET DOMAIN s |-> IF T = {} THEN ResolveStart ELSE ResolveLdflag(env, it[T \ {Max(T)}], s[Max(T)])]
  BY <1>8
<1> HIDE DEF it
<1>10. SameStep(it, g, n)
  <2>1. it[{}] = g[{}]
    BY <1>4, <1>7, <1>9
  <2>2. ASSUME NEW T \in SUBSET (1..n), T # {}, it[T \ {Max(T)}] = g[T \ {Max(T)}]
        PROVE  it[T] = g[T]
    BY <1>4, <1>6, <1>9, <2>2
  <2> QED BY <2>1, <2>2 DEF SameStep
<1>11. it[1..n] = g[1..n]
  BY <1>4, <1>10, SameFold
<1> QED BY <1>3, <1>4, <1>5, <1>11

\* What resolution has made of the first linker arguments.
LdResolved(env, raw, k) == FoldOf(LdResolving(env), ResolveStart, SubSeq(raw, 1, k))

\* Plain arguments are plain ones.
LEMMA ArePlainOnes ==
    ASSUME NEW env, NEW raw, Plain0(env, raw)
    PROVE  raw \in Seq(PlainOnes(env)) /\ Values(env)
<1> DEFINE n == Len(raw)
<1>1. raw \in Seq(LineWords(env)) /\ Values(env)
  BY DEF Plain0
<1>2. n \in Nat /\ DOMAIN raw = 1..n /\ raw = [i \in 1..n |-> raw[i]] /\ \A i \in 1..n : raw[i] \in LineWords(env)
  BY <1>1
<1> HIDE DEF n
<1>3. \A i \in 1..n : raw[i] \in PlainOnes(env)
  BY <1>2 DEF Plain0, PlainOnes, PlainWord
<1>4. raw \in [1..n -> PlainOnes(env)]
  BY <1>2, <1>3
<1> QED BY <1>1, <1>2, <1>4

\* One linker argument more is resolved.
LEMMA LdSteps ==
    ASSUME NEW env, NEW raw, Plain0(env, raw)
    PROVE  /\ LdResolved(env, raw, 0) = ResolveStart
           /\ ResolveLdflags(env, raw) = LdResolved(env, raw, Len(raw)).args
           /\ \A k \in 0..Len(raw) : LdResolved(env, raw, k) \in Resolutions
           /\ \A k \in 0..(Len(raw) - 1) :
                 LdResolved(env, raw, k + 1) =
                     [args |-> Append(LdResolved(env, raw, k).args,
                                      LdWord(env, raw[k + 1], LdResolved(env, raw, k).detached)),
                      detached |-> ~LdResolved(env, raw, k).detached /\ raw[k + 1].opt = "-L" /\ raw[k + 1].kind = "none"]
<1> DEFINE n == Len(raw)
           F == LdResolving(env)
           W == PlainOnes(env)
<1>1. raw \in Seq(W) /\ Values(env)
  BY ArePlainOnes
<1>2. IsFolding(F, ResolveStart, Resolutions, W)
  BY <1>1, LdResolvingType
<1>3. /\ n \in Nat /\ SubSeq(raw, 1, 0) = <<>> /\ SubSeq(raw, 1, n) = raw
      /\ \A k \in 0..n : SubSeq(raw, 1, k) \in Seq(W)
      /\ \A k \in 0..(n - 1) : raw[k + 1] \in W /\ SubSeq(raw, 1, k + 1) = Append(SubSeq(raw, 1, k), raw[k + 1])
  BY <1>1, PrefixFacts
<1>4. LdResolved(env, raw, 0) = ResolveStart
  BY <1>2, <1>3, FoldOfNothing DEF LdResolved
<1>5. ResolveLdflags(env, raw) = LdResolved(env, raw, n).args
  BY <1>1, <1>3, LdIsFold DEF LdResolved
<1> HIDE DEF n, F, W
<1>6. ASSUME NEW k \in 0..n PROVE LdResolved(env, raw, k) \in Resolutions
  <2>1. CASE n = 0
    <3>1. k = 0 /\ ResolveStart \in Resolutions
      BY <1>2, <2>1 DEF IsFolding
    <3> QED BY <1>4, <3>1
  <2>2. CASE n # 0
    <3>1. 0 \in 0..(n - 1)
      BY <1>3, <2>2
    <3>2. raw[0 + 1] \in W /\ SubSeq(raw, 1, k) \in Seq(W)
      BY <1>3, <3>1
    <3> QED BY <1>2, <3>2, FoldOfOneMore DEF LdResolved, F
  <2> QED BY <2>1, <2>2
<1>7. ASSUME NEW k \in 0..(n - 1)
      PROVE  LdResolved(env, raw, k + 1) = ResolveLdflag(env, LdResolved(env, raw, k), raw[k + 1])
             /\ raw[k + 1] \in W /\ LdResolved(env, raw, k) \in Resolutions
  <2>1. k \in 0..n
    BY <1>3
  <2> DEFINE t == SubSeq(raw, 1, k)
             x == raw[k + 1]
  <2>2. t \in Seq(W) /\ x \in W /\ SubSeq(raw, 1, k + 1) = Append(t, x)
    BY <1>3, <2>1
  <2> HIDE DEF t, x
  <2>3. FoldOf(F, ResolveStart, Append(t, x)) = F[<<FoldOf(F, ResolveStart, t), x>>]
    BY <1>2, <2>2, FoldOfOneMore
  <2>4. LdResolved(env, raw, k) \in Resolutions
    BY <1>6, <2>1
  <2>5. LdResolved(env, raw, k + 1) = LdResolving(env)[<<LdResolved(env, raw, k), x>>]
    BY <2>2, <2>3 DEF LdResolved, F, t
  <2> QED BY <1>1, <2>2, <2>4, <2>5, LdResolvingType DEF W, x
<1>8. ASSUME NEW k \in 0..(n - 1)
      PROVE LdResolved(env, raw, k + 1) =
                     [args |-> Append(LdResolved(env, raw, k).args,
                                      LdWord(env, raw[k + 1], LdResolved(env, raw, k).detached)),
                      detached |-> ~LdResolved(env, raw, k).detached /\ raw[k + 1].opt = "-L" /\ raw[k + 1].kind = "none"]
  BY <1>1, <1>7, LdResolvingType DEF W
<1> QED BY <1>4, <1>5, <1>6, <1>8 DEF n

(***************************************************************************)
(* Linker arguments lead to the same places                                *)
(***************************************************************************)

\* A file for the linker, and the one that is meant.
SameFile(p, e) == IF IsLibraryFile(e) THEN LeadsTo(p, e) ELSE p = e

SameFiles(fs, gs) == Len(fs) = Len(gs) /\ \A i \in 1..Len(gs) : SameFile(fs[i], gs[i])

\* What the linker reads of the package, and what is meant.
LinkedLike(b, m) ==
    /\ b \in Accumulators /\ m \in Accumulators /\ b.open = m.open
    /\ AllWalked(OutputDir, b.libraryDirs) = AllWalked(Base, m.libraryDirs)
    /\ SameFiles(b.files, m.files)

\* One file more.
LEMMA SameFilesMore ==
    ASSUME NEW fs \in Seq(Words), NEW gs \in Seq(Words), SameFiles(fs, gs),
           NEW p \in Words, NEW e \in Words, SameFile(p, e)
    PROVE  SameFiles(Append(fs, p), Append(gs, e))
<1> DEFINE n == Len(gs)
           f == Append(fs, p)
           g == Append(gs, e)
<1>1. /\ n \in Nat /\ Len(fs) = n /\ Len(f) = n + 1 /\ Len(g) = n + 1 /\ f[n + 1] = p /\ g[n + 1] = e
      /\ \A i \in 1..n : f[i] = fs[i] /\ g[i] = gs[i] /\ SameFile(fs[i], gs[i])
  BY AppendFacts DEF SameFiles
<1> HIDE DEF n, f, g
<1>2. ASSUME NEW i \in 1..(n + 1) PROVE SameFile(f[i], g[i])
  <2>1. CASE i = n + 1
    BY <1>1, <2>1
  <2>2. CASE i # n + 1
    <3>1. i \in 1..n
      BY <1>1, <2>2
    <3> QED BY <1>1, <3>1
  <2> QED BY <2>1, <2>2
<1>3. SameFiles(f, g)
  BY <1>1, <1>2 DEF SameFiles
<1> QED BY <1>3 DEF f, g

\* Directories and files are taken alike.
LEMMA LinkedTake ==
    ASSUME NEW b, NEW m, LinkedLike(b, m), NEW opt \in Texts, NEW p \in Words, NEW e \in Words,
           opt = "-L" => LeadsTo(p, e),
           opt \notin {"-I", "-isystem", "-L", "-D", "-x", "-std="} => SameFile(p, e)
    PROVE  LinkedLike(Take(b, opt, p), Take(m, opt, e))
<1> DEFINE c == Take(b, opt, p)
           t == Take(m, opt, e)
<1>1. b \in Accumulators /\ m \in Accumulators
  BY DEF LinkedLike
<1>2. c \in Accumulators /\ t \in Accumulators /\ Taken(b, opt, p, c) /\ Taken(m, opt, e, t)
  BY <1>1, TakeType, TakeFields
<1> HIDE DEF c, t
<1>3. /\ b.open = m.open /\ AllWalked(OutputDir, b.libraryDirs) = AllWalked(Base, m.libraryDirs)
      /\ SameFiles(b.files, m.files)
  BY DEF LinkedLike
<1>4. /\ b.libraryDirs \in Seq(Words) /\ m.libraryDirs \in Seq(Words)
      /\ b.files \in Seq(Words) /\ m.files \in Seq(Words)
  BY <1>1 DEF Accumulators
<1>5. OutputDir \in Seq(Texts) /\ Base \in Seq(Texts)
  BY TextsAssumption
<1>6. AllWalked(OutputDir, c.libraryDirs) = AllWalked(Base, t.libraryDirs)
  <2>1. CASE opt = "-L"
    <3>1. c.libraryDirs = Append(b.libraryDirs, p) /\ t.libraryDirs = Append(m.libraryDirs, e)
      BY <1>2, <2>1 DEF Taken
    <3>2. /\ AllWalked(OutputDir, Append(b.libraryDirs, p)) = Append(AllWalked(OutputDir, b.libraryDirs), Walk(At(OutputDir, p)))
          /\ AllWalked(Base, Append(m.libraryDirs, e)) = Append(AllWalked(Base, m.libraryDirs), Walk(At(Base, e)))
      BY <1>4, <1>5, AllWalkedMore
    <3>3. Walk(At(OutputDir, p)) = Walk(At(Base, e))
      BY <2>1 DEF LeadsTo
    <3> QED BY <1>3, <3>1, <3>2, <3>3
  <2>2. CASE opt # "-L"
    <3>1. c.libraryDirs = b.libraryDirs /\ t.libraryDirs = m.libraryDirs
      BY <1>2, <2>2 DEF Taken
    <3> QED BY <1>3, <3>1
  <2> QED BY <2>1, <2>2
<1>7. SameFiles(c.files, t.files)
  <2>1. CASE opt \in {"-I", "-isystem", "-L", "-D", "-x", "-std="}
    <3>1. c.files = b.files /\ t.files = m.files
      BY <1>2, <2>1 DEF Taken
    <3> QED BY <1>3, <3>1
  <2>2. CASE opt \notin {"-I", "-isystem", "-L", "-D", "-x", "-std="}
    <3>1. c.files = Append(b.files, p) /\ t.files = Append(m.files, e)
      BY <1>2, <2>2 DEF Taken
    <3>2. SameFile(p, e)
      BY <2>2
    <3>3. SameFiles(Append(b.files, p), Append(m.files, e))
      BY <1>3, <1>4, <3>2, SameFilesMore
    <3> QED BY <3>1, <3>3
  <2> QED BY <2>1, <2>2
<1>8. c.open = t.open
  BY <1>2, <1>3 DEF Taken
<1>9. LinkedLike(c, t)
  BY <1>2, <1>6, <1>7, <1>8 DEF LinkedLike
<1> QED BY <1>9 DEF c, t

\* An option is opened, or closed, alike.
LEMMA LinkedOpen ==
    ASSUME NEW b, NEW m, LinkedLike(b, m), NEW opt \in Texts
    PROVE  LinkedLike(WithOpen(b, opt), WithOpen(m, opt))
<1> DEFINE c == WithOpen(b, opt)
           t == WithOpen(m, opt)
<1>1. b \in Accumulators /\ m \in Accumulators
  BY DEF LinkedLike
<1>2. ASSUME NEW a \in Accumulators
      PROVE  /\ WithOpen(a, opt) \in Accumulators /\ WithOpen(a, opt).open = opt
             /\ WithOpen(a, opt).libraryDirs = a.libraryDirs /\ WithOpen(a, opt).files = a.files
  <2>1. WithOpen(a, opt) \in Accumulators
    BY MeantFields
  <2> QED BY <2>1 DEF WithOpen, Accumulators
<1>3. /\ c \in Accumulators /\ t \in Accumulators /\ c.open = t.open
      /\ c.libraryDirs = b.libraryDirs /\ c.files = b.files /\ t.libraryDirs = m.libraryDirs /\ t.files = m.files
  BY <1>1, <1>2
<1> HIDE DEF c, t
<1>4. LinkedLike(c, t)
  BY <1>3 DEF LinkedLike
<1> QED BY <1>4 DEF c, t

\* What is exported of a flag is a word.
LEMMA LdflagType ==
    ASSUME NEW d \in Words
    PROVE  ExportedLdflag(d) \in Words
<1>1. "src" \in Kinds
  BY DEF Kinds
<1>2. d.name \in Seq(Texts)
  BY DEF Words
<1>3. RelativePathFrom(d.name, OutputDir) \in Seq(Texts)
  BY <1>2, RelativeLeads
<1>4. FromPackage(d.name) \in Words
  <2>1. "" \in Texts
    BY TextsAssumption
  <2> QED BY <1>1, <1>3, <2>1, WordType DEF FromPackage
<1>5. [d EXCEPT !.kind = "src"] \in Words
  BY <1>1 DEF Words
<1> QED BY <1>4, <1>5 DEF ExportedLdflag

\* What is exported of a path in its own word.
LEMMA LdflagLeads ==
    ASSUME NEW e \in Words, NEW d \in Words, d.kind = "abs", d.opt = "", d.name = At(Base, e)
    PROVE  LeadsTo(ExportedLdflag(d), e) /\ ExportedLdflag(d).opt = "" /\ ExportedLdflag(d).kind # "none"
<1> DEFINE p == ExportedLdflag(d)
<1>1. p = d \/ p = FromPackage(d.name)
  BY DEF ExportedLdflag
<1>2. CASE p = d
  <2>1. At(OutputDir, p) = At(Base, e)
    BY <1>2, PathAt
  <2> HIDE DEF p
  <2>2. LeadsTo(p, e) /\ p.opt = "" /\ p.kind # "none"
    BY <1>2, <2>1 DEF LeadsTo
  <2> QED BY <2>2 DEF p
<1>3. CASE p = FromPackage(d.name)
  <2> HIDE DEF p
  <2>1. d.name \in Seq(Texts)
    BY DEF Words
  <2>2. p.opt = "" /\ p.kind = "src" /\ p.name = RelativePathFrom(d.name, OutputDir)
    BY <1>3 DEF FromPackage, Word
  <2>3. At(OutputDir, p) = OutputDir \o RelativePathFrom(d.name, OutputDir)
    BY <2>2 DEF At
  <2>4. Walk(At(OutputDir, p)) = Walk(d.name)
    BY <2>1, <2>3, RelativeLeads
  <2>5. LeadsTo(p, e) /\ p.opt = "" /\ p.kind # "none"
    BY <2>2, <2>4 DEF LeadsTo
  <2> QED BY <2>5 DEF p
<1> QED BY <1>1, <1>2, <1>3

\* One flag more is exported.
LEMMA LdflagsMore ==
    ASSUME NEW s \in Seq(Words), NEW d \in Words
    PROVE  /\ ExportedLdflags(s) \in Seq(Words)
           /\ ExportedLdflags(Append(s, d)) = Append(ExportedLdflags(s), ExportedLdflag(d))
<1> DEFINE n == Len(s)
           v == Append(s, d)
           p == ExportedLdflags(s)
           q == ExportedLdflags(v)
           x == ExportedLdflag(d)
<1>1. /\ n \in Nat /\ DOMAIN s = 1..n /\ DOMAIN v = 1..(n + 1) /\ v[n + 1] = d
      /\ \A i \in 1..n : v[i] = s[i] /\ s[i] \in Words
  BY AppendFacts, ElementOf
<1>2. p = [i \in 1..n |-> ExportedLdflag(s[i])] /\ q = [i \in 1..(n + 1) |-> ExportedLdflag(v[i])]
  <2> HIDE DEF v
  <2> QED BY <1>1 DEF ExportedLdflags
<1> HIDE DEF p, q, n, v
<1>3. x \in Words
  BY LdflagType
<1>4. \A i \in 1..n : ExportedLdflag(s[i]) \in Words
  BY <1>1, LdflagType
<1> HIDE DEF x
<1>5. p \in [1..n -> Words]
  BY <1>2, <1>4
<1>6. p \in Seq(Words) /\ Len(p) = n
  BY <1>1, <1>5
<1> DEFINE a == Append(p, x)
<1>7. /\ DOMAIN a = 1..(n + 1) /\ a[n + 1] = x /\ \A i \in 1..n : a[i] = p[i]
      /\ a = [i \in 1..(n + 1) |-> a[i]]
  <2>1. a \in Seq(Words) /\ DOMAIN a = 1..(n + 1) /\ a[n + 1] = x /\ \A i \in 1..n : a[i] = p[i]
    BY <1>3, <1>6, AppendFacts
  <2> HIDE DEF a
  <2>2. a = [i \in 1..(n + 1) |-> a[i]]
    BY <2>1
  <2> QED BY <2>1, <2>2
<1> HIDE DEF a
<1>8. \A i \in 1..(n + 1) : q[i] = a[i]
  <2>1. ASSUME NEW i \in 1..(n + 1) PROVE q[i] = a[i]
    <3>1. CASE i = n + 1
      BY <1>1, <1>2, <1>7, <3>1 DEF x
    <3>2. CASE i # n + 1
      <4>1. i \in 1..n
        BY <1>1, <3>2
      <4> QED BY <1>1, <1>2, <1>7, <4>1
    <3> QED BY <3>1, <3>2
  <2> QED BY <2>1
<1>9. q = a
  BY <1>2, <1>7, <1>8
<1> QED BY <1>6, <1>9 DEF a, p, q, v, x, n

\* What is exported of the first linker arguments, read.
LinkReads(env, raw, k) == CompilerReads(ExportedLdflags(LdResolved(env, raw, k).args))

LinkedUpTo(env, raw, k) ==
    /\ LinkedLike(LinkReads(env, raw, k), Reads(Expanded(env, raw), k))
    /\ LdResolved(env, raw, k).detached = (Reads(Expanded(env, raw), k).open = "-L")

\* Words that end in a library file still do when they are resolved.
LEMMA LdPlain ==
    ASSUME NEW env, Values(env), NEW w, PlainWord(env, w), w.opt = ""
    PROVE  /\ ResolvePath(env, w) = Word("", "abs", At(Base, Expand(env, w)))
           /\ ResolveSearchDir(env, w) = Word("", "abs", At(Base, Expand(env, w)))
           /\ ResolvePath(env, Expand(env, w)) = Word("", "abs", At(Base, Expand(env, w)))
<1> DEFINE e == Expand(env, w)
<1>1. e \in Words /\ e.opt = "" /\ e.kind \in {"rel", "abs"}
  BY ExpandPlain
<1>2. ResolvePath(env, w) = Word("", "abs", At(Base, e))
  BY ResolvePathPlain
<1> HIDE DEF e
<1>3. PlainWord(env, e) /\ Expand(env, e) = e
  BY <1>1 DEF PlainWord, LineWords, Expand
<1>4. ResolvePath(env, e) = Word("", "abs", At(Base, e))
  BY <1>1, <1>3, ResolvePathPlain
<1>5. ResolveSearchDir(env, w) = ResolvePath(env, e)
  BY DEF ResolveSearchDir, e
<1> QED BY <1>2, <1>4, <1>5 DEF e

\* The word without its option stands for the same path.
LEMMA TextExpands ==
    ASSUME NEW env, Values(env), NEW w, PlainWord(env, w)
    PROVE  /\ PlainWord(env, TextOf(w)) /\ TextOf(w).opt = ""
           /\ At(Base, Expand(env, TextOf(w))) = At(Base, Expand(env, w))
<1> DEFINE v == TextOf(w)
<1>1. w \in Words
  BY DEF PlainWord, LineWords
<1>2. v \in Words /\ v.kind = w.kind /\ v.name = w.name /\ v.opt = ""
  BY <1>1, TextIsWord, TextFields DEF TextOf
<1> HIDE DEF v
<1>3. PlainWord(env, v)
  BY <1>2 DEF LineWords, PlainWord
<1>4. Expand(env, v).kind = Expand(env, w).kind /\ Expand(env, v).name = Expand(env, w).name
  <2>1. CASE w.kind # "var"
    BY <1>2, <2>1 DEF Expand
  <2>2. CASE w.kind = "var"
    <3> DEFINE x == env[w.name[1]]
    <3>1. x \in Words /\ x.opt = "" /\ x.kind \in {"rel", "abs"}
      BY <1>1, <2>2 DEF PlainWord, LineWords, Values
    <3>2. Expand(env, v) = x
      BY <1>2, <2>2 DEF Expand
    <3>3. CASE w.opt = ""
      BY <2>2, <3>2, <3>3 DEF Expand
    <3>4. CASE w.opt # ""
      <4>1. Expand(env, w) = [x EXCEPT !.opt = w.opt]
        BY <2>2, <3>1, <3>4 DEF Expand, AsText
      <4> QED BY <3>1, <3>2, <4>1 DEF Words
    <3> QED BY <3>3, <3>4
  <2> QED BY <2>1, <2>2
<1>5. At(Base, Expand(env, v)) = At(Base, Expand(env, w))
  <2>1. Expand(env, w).kind \in {"rel", "abs"}
    BY ExpandPlain
  <2> QED BY <1>4, <2>1, PathAt
<1> QED BY <1>2, <1>3, <1>5 DEF v

\* A word with another option, spelled out.
LEMMA OptionOfWord ==
    ASSUME NEW w \in Words, NEW opt
    PROVE  [w EXCEPT !.opt = opt] = Word(opt, w.kind, w.name)
<1> DEFINE v == [w EXCEPT !.opt = opt]
<1>1. v = [opt |-> v.opt, kind |-> v.kind, name |-> v.name] /\ v.opt = opt /\ v.kind = w.kind /\ v.name = w.name
  BY DEF Words
<1> QED BY <1>1 DEF Word

\* What becomes of a plain word.
LEMMA LdWordPlain ==
    ASSUME NEW env, Values(env), NEW w, PlainWord(env, w), NEW detached \in BOOLEAN, detached => w.opt = ""
    PROVE  LdWord(env, w, detached) =
               IF detached \/ w.opt = "-L" \/ IsLibraryFile(Expand(env, w))
               THEN Word(w.opt, "abs", At(Base, Expand(env, w))) ELSE Expand(env, w)
<1> DEFINE e == Expand(env, w)
<1>1. e \in Words /\ e.opt = w.opt /\ e.kind \in {"rel", "abs"}
  BY ExpandPlain
<1>2. CASE detached
  BY <1>2, LdPlain DEF LdWord
<1>3. CASE ~detached /\ w.opt = "-L"
  <2> DEFINE v == TextOf(w)
  <2>1. PlainWord(env, v) /\ v.opt = "" /\ At(Base, Expand(env, v)) = At(Base, e)
    BY TextExpands
  <2>2. LdWord(env, w, detached) = [ResolveSearchDir(env, v) EXCEPT !.opt = "-L"]
    BY <1>3 DEF LdWord
  <2> HIDE DEF v, e
  <2>3. ResolveSearchDir(env, v) = Word("", "abs", At(Base, e))
    BY <2>1, LdPlain
  <2>4. LdWord(env, w, detached) = Word("-L", "abs", At(Base, e))
    <3> DEFINE u == Word("", "abs", At(Base, e))
    <3>1. u \in Words
      <4>1. e \in Words /\ Base \in Seq(Texts) /\ "" \in Texts
        BY <1>1, TextsAssumption DEF e
      <4>2. "abs" \in Kinds
        BY DEF Kinds
      <4>3. At(Base, e) \in Seq(Texts)
        BY <4>1, WalkedType
      <4> QED BY <4>1, <4>2, <4>3, WordType
    <3>2. u.kind = "abs" /\ u.name = At(Base, e)
      BY DEF Word
    <3> HIDE DEF u
    <3>3. [u EXCEPT !.opt = w.opt] = Word(w.opt, u.kind, u.name)
      BY <3>1, OptionOfWord
    <3> QED BY <1>3, <2>2, <2>3, <3>2, <3>3 DEF u
  <2> QED BY <1>3, <2>4 DEF e
<1>4. CASE ~detached /\ w.opt # "-L" /\ IsLibraryFile(e)
  <2>1. w.opt = ""
    BY <1>1, <1>4 DEF IsLibraryFile
  <2>2. LdWord(env, w, detached) = ResolvePath(env, e)
    BY <1>4 DEF LdWord
  <2>3. ResolvePath(env, e) = Word("", "abs", At(Base, e))
    BY <2>1, LdPlain
  <2> QED BY <1>4, <2>1, <2>2, <2>3
<1>5. CASE ~detached /\ w.opt # "-L" /\ ~IsLibraryFile(e)
  BY <1>5 DEF LdWord
<1> QED BY <1>2, <1>3, <1>4, <1>5

\* The option that follows, that stands alone, is read alike.
LEMMA LinkAlone ==
    ASSUME NEW b, NEW m, LinkedLike(b, m), m.open = "", NEW w \in Words, w.kind = "none"
    PROVE  LinkedLike(ReadWord(b, ExportedLdflag(w)), ReadWord(m, w))
<1>1. ExportedLdflag(w) = w
  BY DEF ExportedLdflag, IsLibraryFile
<1>2. b \in Accumulators /\ m \in Accumulators /\ b.open = "" /\ w.opt \in Texts
  BY DEF LinkedLike, Words
<1>3. ReadWord(b, w) = WithOpen(b, w.opt) /\ ReadWord(m, w) = WithOpen(m, w.opt)
  BY <1>2, ReadWordCases
<1> QED BY <1>1, <1>2, <1>3, LinkedOpen

\* A word that is the value of the option before it.
LEMMA LinkAfter ==
    ASSUME NEW b, NEW m, LinkedLike(b, m), m.open # "", NEW e \in Words, e.opt = "",
           NEW d \in Words,
           d = IF m.open = "-L" \/ IsLibraryFile(e) THEN Word("", "abs", At(Base, e)) ELSE e
    PROVE  LinkedLike(ReadWord(b, ExportedLdflag(d)), ReadWord(m, e))
<1> DEFINE p == ExportedLdflag(d)
           opt == m.open
           t == Take(b, opt, p)
           u == Take(m, opt, e)
<1>1. b \in Accumulators /\ m \in Accumulators /\ b.open = opt /\ opt \in Texts
  BY DEF LinkedLike, Accumulators
<1>2. p \in Words /\ "" \in Texts
  BY LdflagType, TextsAssumption
<1>3. /\ p.opt = "" /\ (opt = "-L" => LeadsTo(p, e))
      /\ opt # "-L" => SameFile(p, e)
  <2>1. CASE opt = "-L" \/ IsLibraryFile(e)
    <3>1. d.kind = "abs" /\ d.opt = "" /\ d.name = At(Base, e)
      BY <2>1 DEF Word
    <3>2. LeadsTo(p, e) /\ p.opt = ""
      BY <3>1, LdflagLeads
    <3> QED BY <2>1, <3>2 DEF SameFile
  <2>2. CASE ~(opt = "-L" \/ IsLibraryFile(e))
    <3>1. p = e
      BY <2>2 DEF ExportedLdflag
    <3> QED BY <2>2, <3>1 DEF SameFile
  <2> QED BY <2>1, <2>2
<1>4. ReadWord(b, p) = WithOpen(t, "") /\ ReadWord(m, e) = WithOpen(u, "")
  <2> HIDE DEF p
  <2> QED BY <1>1, <1>2, <1>3, ReadWordCases
<1>5. LinkedLike(t, u)
  <2> HIDE DEF p, opt
  <2> QED BY <1>1, <1>2, <1>3, LinkedTake
<1> HIDE DEF t, u
<1>6. LinkedLike(WithOpen(t, ""), WithOpen(u, ""))
  BY <1>2, <1>5, LinkedOpen
<1> QED BY <1>4, <1>6

\* An option and its value in one word, or a word without an option.
LEMMA LinkInOne ==
    ASSUME NEW b, NEW m, LinkedLike(b, m), m.open = "", NEW e \in Words, e.kind \in {"rel", "abs"},
           NEW d \in Words,
           d = IF e.opt = "-L" \/ IsLibraryFile(e) THEN Word(e.opt, "abs", At(Base, e)) ELSE e
    PROVE  LinkedLike(ReadWord(b, ExportedLdflag(d)), ReadWord(m, e))
<1> DEFINE p == ExportedLdflag(d)
           opt == e.opt
<1>1. b \in Accumulators /\ m \in Accumulators /\ b.open = "" /\ opt \in Texts
  BY DEF LinkedLike, Words
<1>2. p \in Words
  BY LdflagType
<1>3. ReadWord(m, e) = Take(m, opt, ValueOf(e)) /\ ValueOf(e) \in Words
  BY <1>1, ReadWordCases, TextIsWord
<1>4. CASE opt = "-L"
  <2>1. d = Word("-L", "abs", At(Base, e))
    BY <1>4
  <2>2. d.opt = "-L" /\ d.kind = "abs" /\ d.name = At(Base, e)
    <3>1. \A a : Word("-L", "abs", a).opt = "-L" /\ Word("-L", "abs", a).kind = "abs" /\ Word("-L", "abs", a).name = a
      BY DEF Word
    <3> QED BY <2>1, <3>1
  <2>3. p = d
    BY <2>2 DEF ExportedLdflag, IsLibraryFile
  <2>4. ReadWord(b, d) = Take(b, "-L", ValueOf(d)) /\ ValueOf(d) = TextOf(d) /\ ValueOf(e) = TextOf(e)
    BY <1>1, <1>4, <2>2, ReadWordCases DEF ValueOf, TextOf
  <2>5. /\ TextOf(d) \in Words /\ TextOf(e) \in Words
        /\ TextOf(d).kind = "abs" /\ TextOf(d).name = At(Base, e)
        /\ TextOf(e).kind = e.kind /\ TextOf(e).name = e.name
    BY <2>2, TextIsWord, TextFields DEF TextOf
  <2>6. LeadsTo(TextOf(d), TextOf(e))
    <3>1. At(OutputDir, TextOf(d)) = At(Base, e)
      BY <2>5, PathAt
    <3>2. At(Base, TextOf(e)) = At(Base, e)
      BY <2>5, PathAt
    <3> QED BY <3>1, <3>2 DEF LeadsTo
  <2>7. "-L" \in Texts
    BY <1>1, <1>4
  <2> HIDE DEF p
  <2>8. LinkedLike(Take(b, "-L", TextOf(d)), Take(m, "-L", TextOf(e)))
    BY <2>5, <2>6, <2>7, LinkedTake
  <2> QED BY <1>3, <1>4, <2>3, <2>4, <2>8 DEF p
<1>5. CASE opt # "-L" /\ IsLibraryFile(e)
  <2>1. opt = ""
    BY <1>5 DEF IsLibraryFile
  <2>2. d.kind = "abs" /\ d.opt = "" /\ d.name = At(Base, e)
    BY <1>5, <2>1 DEF Word
  <2>3. LeadsTo(p, e) /\ p.opt = "" /\ p.kind # "none"
    BY <2>2, LdflagLeads
  <2> HIDE DEF p
  <2>4. ValueOf(e) = e /\ ValueOf(p) = p
    BY <2>1, <2>3 DEF ValueOf
  <2>5. ReadWord(b, p) = Take(b, "", p)
    BY <1>1, <1>2, <2>3, <2>4, ReadWordCases
  <2>6. SameFile(p, e)
    BY <1>5, <2>3 DEF SameFile
  <2>7. LinkedLike(Take(b, "", p), Take(m, "", e))
    BY <1>1, <1>2, <2>1, <2>6, LinkedTake
  <2> QED BY <1>3, <2>1, <2>4, <2>5, <2>7 DEF p
<1>6. CASE opt # "-L" /\ ~IsLibraryFile(e)
  <2>1. p = e
    BY <1>6 DEF ExportedLdflag
  <2>2. ReadWord(b, e) = Take(b, opt, ValueOf(e))
    BY <1>1, ReadWordCases
  <2>3. opt \notin {"-I", "-isystem", "-L", "-D", "-x", "-std="} => SameFile(ValueOf(e), ValueOf(e))
    <3>1. opt \notin {"-I", "-isystem", "-L", "-D", "-x", "-std="} => ValueOf(e) = e
      BY DEF ValueOf
    <3> QED BY <1>6, <3>1 DEF SameFile
  <2>4. LinkedLike(Take(b, opt, ValueOf(e)), Take(m, opt, ValueOf(e)))
    BY <1>1, <1>3, <1>6, <2>3, LinkedTake
  <2> QED BY <1>3, <2>1, <2>2, <2>4
<1> QED BY <1>4, <1>5, <1>6

\* The next linker argument leads where it is meant to.
LEMMA LinkedStep ==
    ASSUME NEW env, NEW raw, Plain0(env, raw), NEW k \in 0..(Len(raw) - 1), LinkedUpTo(env, raw, k)
    PROVE  LinkedUpTo(env, raw, k + 1)
<1> DEFINE x == Expanded(env, raw)
           R == LdResolved(env, raw, k)
           b == LinkReads(env, raw, k)
           m == Reads(x, k)
           w == raw[k + 1]
           e == Expand(env, w)
           d == LdWord(env, w, R.detached)
<1>0. Values(env)
  BY DEF Plain0
<1>1. /\ raw \in Seq(Words) /\ Len(raw) \in Nat /\ DOMAIN raw = 1..Len(raw)
      /\ x \in Seq(Words) /\ Len(x) = Len(raw)
      /\ \A i \in 1..Len(raw) : raw[i] \in Words /\ x[i] = Expand(env, raw[i])
  BY PlainWords
<1>2. /\ k \in Nat /\ k + 1 \in 1..Len(raw) /\ k \in 0..Len(raw) /\ k + 1 \in 0..Len(raw)
      /\ (k > 0 => k \in 1..Len(raw)) /\ (k + 1) - 1 = k /\ k + 1 > 0
  BY <1>1
<1>3. Reads(x, k + 1) = ReadWord(m, e)
  <2>1. k \in 0..(Len(x) - 1) /\ x[k + 1] = e
    BY <1>1, <1>2
  <2> QED BY <1>1, <2>1, ReadsSteps
<1>4. m.open = OpenAfter(raw, k) /\ Reads(x, k + 1).open = OpenAfter(raw, k + 1)
  <2>1. AlikeUpTo(env, raw, k) /\ AlikeUpTo(env, raw, k + 1)
    BY <1>2, PlainRead
  <2> QED BY <2>1 DEF AlikeUpTo
<1>5. R \in Resolutions
      /\ LdResolved(env, raw, k + 1) =
            [args |-> Append(R.args, d), detached |-> ~R.detached /\ w.opt = "-L" /\ w.kind = "none"]
  BY <1>2, LdSteps
<1>6. LinkedLike(b, m) /\ R.detached = (m.open = "-L")
  BY DEF LinkedUpTo
<1>7. /\ w \in LineWords(env) /\ w \in Words /\ w.kind \in {"none", "rel", "abs", "var"}
      /\ w.kind = "none" => w.name = <<>> /\ w.opt # ""
      /\ w.kind = "var" => env[w.name[1]].opt = "" /\ env[w.name[1]].kind \in {"rel", "abs"}
      /\ k > 0 /\ raw[k].kind = "none" => w.opt = ""
  <2>1. \A i \in DOMAIN raw :
          /\ raw[i].kind \in {"none", "rel", "abs", "var"}
          /\ raw[i].kind = "none" => raw[i].name = <<>> /\ raw[i].opt # ""
          /\ raw[i].kind = "var" => /\ env[raw[i].name[1]].opt = ""
                                    /\ env[raw[i].name[1]].kind \in {"rel", "abs"}
          /\ i > 1 /\ raw[i - 1].kind = "none" => raw[i].opt = ""
    BY DEF Plain0
  <2>2. w \in LineWords(env) /\ w \in Words
    BY <1>1, <1>2, ExpandedWords
  <2>3. k > 0 => k + 1 > 1
    BY <1>2
  <2>4. raw[(k + 1) - 1] = raw[k]
    BY <1>2
  <2> QED BY <1>1, <1>2, <2>1, <2>2, <2>3, <2>4
<1>8. R.args \in Seq(Words) /\ R.detached \in BOOLEAN
  BY <1>5 DEF Resolutions
<1>9. w \in PlainOnes(env) /\ d \in Words
  <2>1. w \in PlainOnes(env)
    BY <1>7 DEF PlainOnes, PlainWord
  <2> HIDE DEF w, R
  <2> QED BY <1>0, <1>8, <2>1, LdWordType
<1>10. LinkReads(env, raw, k + 1) = ReadWord(b, ExportedLdflag(d))
  <2> DEFINE s == R.args
  <2>1. LdResolved(env, raw, k + 1).args = Append(s, d)
    BY <1>5
  <2>2. s \in Seq(Words)
    BY <1>8
  <2> HIDE DEF d, R, s
  <2>3. /\ ExportedLdflags(s) \in Seq(Words) /\ ExportedLdflag(d) \in Words
        /\ ExportedLdflags(Append(s, d)) = Append(ExportedLdflags(s), ExportedLdflag(d))
    BY <1>9, <2>2, LdflagsMore, LdflagType
  <2>4. CompilerReads(ExportedLdflags(Append(s, d))) = ReadWord(CompilerReads(ExportedLdflags(s)), ExportedLdflag(d))
    BY <2>3, ReadsOneMore
  <2> QED BY <2>1, <2>4 DEF LinkReads, R, s
<1> HIDE DEF x, R, b, m, w, e, d
<1>11. LinkedLike(ReadWord(b, ExportedLdflag(d)), ReadWord(m, e))
  <2>1. CASE w.kind = "none"
    <3>1. m.open = ""
      BY <1>4, <1>7, <2>1 DEF OpenAfter
    <3>2. R.detached = FALSE
      BY <1>6, <3>1
    <3>3. e = w
      BY <2>1 DEF Expand, e
    <3>4. d = w
      <4>1. CASE w.opt = "-L"
        <5> DEFINE v == TextOf(w)
        <5>1. v \in Words /\ v.kind = "none" /\ v.opt = "" /\ v.name = w.name
          BY <1>7, <2>1, TextIsWord, TextFields DEF TextOf
        <5>2. d = [ResolveSearchDir(env, v) EXCEPT !.opt = "-L"]
          BY <3>2, <4>1 DEF LdWord, d
        <5>3. [v EXCEPT !.opt = "-L"] = w
          BY <1>7, <4>1 DEF TextOf, Words
        <5> HIDE DEF v
        <5>4. Expand(env, v) = v
          BY <5>1 DEF Expand
        <5>5. ResolvePath(env, v) = v
          BY <5>1, <5>4 DEF ResolvePath, AsText
        <5> QED BY <5>2, <5>3, <5>4, <5>5 DEF ResolveSearchDir
      <4>2. CASE w.opt # "-L"
        <5>1. ~IsLibraryFile(w)
          BY <2>1 DEF IsLibraryFile
        <5> QED BY <3>2, <3>3, <4>2, <5>1 DEF LdWord, d, e
      <4> QED BY <4>1, <4>2
    <3> QED BY <1>6, <1>7, <2>1, <3>1, <3>3, <3>4, LinkAlone
  <2>2. CASE w.kind # "none"
    <3>1. PlainWord(env, w)
      BY <1>7, <2>2 DEF PlainWord
    <3>2. e \in Words /\ e.opt = w.opt /\ e.kind \in {"rel", "abs"}
      BY <1>0, <3>1, ExpandPlain DEF e
    <3>3. m.open # "" => w.opt = ""
      BY <1>4, <1>7 DEF OpenAfter
    <3>4. R.detached => w.opt = ""
      BY <1>6, <3>3
    <3>5. d = IF R.detached \/ w.opt = "-L" \/ IsLibraryFile(e) THEN Word(w.opt, "abs", At(Base, e)) ELSE e
      BY <1>0, <1>8, <3>1, <3>4, LdWordPlain DEF d, e
    <3>6. CASE m.open # ""
      <4>1. w.opt = "" /\ e.opt = "" /\ w.opt # "-L"
        BY <3>2, <3>3, <3>6
      <4>2. d = IF m.open = "-L" \/ IsLibraryFile(e) THEN Word("", "abs", At(Base, e)) ELSE e
        BY <1>6, <3>5, <4>1
      <4> QED BY <1>6, <1>9, <3>2, <3>6, <4>1, <4>2, LinkAfter
    <3>7. CASE m.open = ""
      <4>1. R.detached = FALSE
        BY <1>6, <3>7
      <4>2. d = IF e.opt = "-L" \/ IsLibraryFile(e) THEN Word(e.opt, "abs", At(Base, e)) ELSE e
        BY <3>2, <3>5, <4>1
      <4> QED BY <1>6, <1>9, <3>2, <3>7, <4>2, LinkInOne
    <3> QED BY <3>6, <3>7
  <2> QED BY <2>1, <2>2
<1>12. LdResolved(env, raw, k + 1).detached = (Reads(x, k + 1).open = "-L")
  <2>1. LdResolved(env, raw, k + 1).detached = (~R.detached /\ w.opt = "-L" /\ w.kind = "none")
    BY <1>5
  <2>2. Reads(x, k + 1).open = IF w.kind = "none" THEN w.opt ELSE ""
    BY <1>2, <1>4 DEF OpenAfter, w
  <2>3. w.kind = "none" => R.detached = FALSE
    BY <1>4, <1>6, <1>7 DEF OpenAfter
  <2> QED BY <2>1, <2>2, <2>3
<1> QED BY <1>3, <1>10, <1>11, <1>12 DEF LinkedUpTo, x

\* Nothing is given to the linker before the first argument.
LEMMA LinkedAtFirst ==
    ASSUME NEW env, NEW raw, Plain0(env, raw)
    PROVE  LinkedUpTo(env, raw, 0)
<1>1. Reads(Expanded(env, raw), 0) = NothingRead
  BY PlainWords, ReadsSteps
<1>2. LdResolved(env, raw, 0) = ResolveStart
  BY LdSteps
<1>3. LinkReads(env, raw, 0) = NothingRead
  <2>1. ResolveStart.args = <<>>
    BY DEF ResolveStart
  <2>2. ExportedLdflags(<<>>) = <<>>
    BY DEF ExportedLdflags
  <2>3. CompilerReads(<<>>) = NothingRead
    BY ReadsOneMore
  <2> QED BY <1>2, <2>1, <2>2, <2>3 DEF LinkReads
<1>4. /\ NothingRead.open = "" /\ NothingRead.libraryDirs = <<>> /\ NothingRead.files = <<>>
      /\ ResolveStart.detached = FALSE
  BY DEF NothingRead, ResolveStart
<1>5. AllWalked(OutputDir, <<>>) = AllWalked(Base, <<>>)
  BY DEF AllWalked
<1>6. SameFiles(<<>>, <<>>)
  BY DEF SameFiles
<1>7. LinkedLike(NothingRead, NothingRead)
  BY <1>4, <1>5, <1>6, NothingReadType DEF LinkedLike
<1> QED BY <1>1, <1>2, <1>3, <1>4, <1>7 DEF LinkedUpTo

\* What the linker is given leads where it is meant to.
LEMMA LinkRead ==
    ASSUME NEW env, NEW raw, Plain0(env, raw)
    PROVE  LinkedLike(CompilerReads(ExportedLdflags(ResolveLdflags(env, raw))), CompilerReads(Expanded(env, raw)))
<1> DEFINE n == Len(raw)
           S == {k \in 0..n : LinkedUpTo(env, raw, k)}
<1>1. n \in Nat
  BY PlainWords
<1>2. 0 \in S
  BY <1>1, LinkedAtFirst
<1>3. ASSUME NEW k \in 0..(n - 1), k \in S PROVE k + 1 \in S
  <2>1. k + 1 \in 0..n
    BY <1>1
  <2>2. LinkedUpTo(env, raw, k + 1)
    BY <1>3, LinkedStep
  <2> QED BY <2>1, <2>2
<1>4. \A k \in 0..n : k \in S
  <2> HIDE DEF S, n
  <2> QED BY <1>1, <1>2, <1>3, UpTo
<1>5. LinkedUpTo(env, raw, n)
  <2>1. n \in 0..n
    BY <1>1
  <2> HIDE DEF n
  <2> QED BY <1>4, <2>1
<1> DEFINE x == Expanded(env, raw)
<1>6. x \in Seq(Words) /\ Len(x) = n
  BY PlainWords
<1> HIDE DEF x
<1>7. Reads(x, n) = CompilerReads(x)
  BY <1>6, ReadsSteps
<1>8. ResolveLdflags(env, raw) = LdResolved(env, raw, n).args
  BY LdSteps
<1> QED BY <1>5, <1>7, <1>8 DEF LinkedUpTo, LinkReads, x
===============================================================================
