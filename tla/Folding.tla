------------------------------- MODULE Folding -------------------------------
(***************************************************************************)
(* Folding a sequence from the left.  FoldLeft is defined by a recursive   *)
(* function over the subsets of the sequence's positions, of which the     *)
(* provers know nothing until it is shown to exist.  This module shows it, *)
(* for every operator that stays within the set A, and what follows: the   *)
(* fold of the empty sequence is Base, and appending an element applies    *)
(* Op once more.  It is instantiated with each fold of Pagination and      *)
(* PageWalk.                                                               *)
(***************************************************************************)
EXTENDS Integers, Sequences, SequencesExt, SequenceTheorems, WellFoundedInduction, TLAPS

CONSTANTS
  Op(_, _),   \* one step of the fold, from what has been made and an element
  Base,       \* what a fold starts with
  A,          \* what may be made
  T           \* the elements

Typed == Base \in A /\ \A a \in A, t \in T : Op(a, t) \in A

Fold(seq) == FoldLeft(Op, Base, seq)

-----------------------------------------------------------------------------
(* Induction over the natural numbers, and over sequences, with a set for  *)
(* the predicate.                                                          *)
LEMMA Induction ==
  ASSUME NEW S, 0 \in S, \A n \in Nat : n \in S => n + 1 \in S
  PROVE  \A n \in Nat : n \in S
<1> DEFINE R == OpToRel(<, Nat)
           U == Nat \ S
<1>1. ASSUME U # {} PROVE FALSE
  <2>1. PICK x \in U : \A y \in U : <<y, x>> \notin R
    <3>1. IsWellFoundedOn(R, Nat) /\ U \subseteq Nat
      BY NatLessThanWellFounded
    <3> HIDE DEF R, U
    <3>2. QED
      BY <1>1, <3>1, WFMin
  <2>2. x \in Nat /\ x # 0 /\ x - 1 \in Nat
    OBVIOUS
  <2>3. <<x - 1, x>> \in R
    BY <2>2 DEF OpToRel
  <2>4. x - 1 \in S
    BY <2>1, <2>2, <2>3
  <2>5. QED
    BY <2>2, <2>4
<1>2. QED
  BY <1>1

LEMMA Appending ==
  ASSUME NEW E, NEW S, <<>> \in S,
         \A s \in Seq(E), e \in E : s \in S => Append(s, e) \in S
  PROVE  \A s \in Seq(E) : s \in S
<1> DEFINE N == {n \in Nat : \A s \in Seq(E) : Len(s) = n => s \in S}
<1>1. 0 \in N
  BY EmptySeq
<1>2. ASSUME NEW n \in Nat, n \in N PROVE n + 1 \in N
  <2>1. ASSUME NEW s \in Seq(E), Len(s) = n + 1 PROVE s \in S
    <3>1. s # <<>>
      BY <2>1, EmptySeq
    <3> DEFINE f == SubSeq(s, 1, Len(s) - 1)
    <3>2. f \in Seq(E) /\ s[Len(s)] \in E /\ Append(f, s[Len(s)]) = s /\ Len(f) = n
      <4>1. Len(s) = n + 1 /\ 1 \in 1 .. Len(s)
        BY <2>1
      <4>2. f \in Seq(E) /\ Len(f) = n /\ \A i \in 1 .. n : f[i] = s[i]
        BY <4>1, SubSeqProperties
      <4>3. s[Len(s)] \in E
        BY <4>1, ElementOfSeq
      <4> DEFINE g == Append(f, s[Len(s)])
      <4>4. g \in Seq(E) /\ Len(g) = n + 1 /\ g[n + 1] = s[n + 1]
            /\ \A i \in 1 .. n : g[i] = f[i]
        BY <4>1, <4>2, <4>3, AppendProperties
      <4> HIDE DEF f, g
      <4>5. \A i \in 1 .. Len(s) : g[i] = s[i]
        BY <4>1, <4>2, <4>4
      <4>6. g = s
        BY <4>1, <4>4, <4>5, SeqEqual
      <4>7. QED
        BY <4>2, <4>3, <4>6 DEF g
    <3> HIDE DEF f
    <3>3. f \in S
      BY <1>2, <3>2
    <3>4. QED
      BY <3>2, <3>3
  <2>2. QED
    BY <2>1
<1> HIDE DEF N
<1>3. \A n \in Nat : n \in N
  BY <1>1, <1>2, Induction
<1>4. QED
  BY <1>3, LenProperties DEF N

-----------------------------------------------------------------------------
(* The largest of a set of positions.                                      *)
LEMMA MaxOfAll ==
  ASSUME NEW n \in Nat, NEW s \in SUBSET (1 .. n), n \in s
  PROVE  Max(s) = n
<1>1. n \in s /\ \A y \in s : n >= y
  OBVIOUS
<1>2. Max(s) \in s /\ \A y \in s : Max(s) >= y
  BY <1>1 DEF Max
<1>3. Max(s) \in 1 .. n /\ Max(s) >= n
  BY <1>1, <1>2
<1>4. QED
  BY <1>3

LEMMA Initial ==
  ASSUME NEW i \in Nat \ {0}
  PROVE  /\ 1 .. i # {} /\ Max(1 .. i) = i /\ (1 .. i) \ {i} = 1 .. (i - 1)
<1>1. i \in 1 .. i /\ (1 .. i) \ {i} = 1 .. (i - 1) /\ 1 .. i \in SUBSET (1 .. i)
  OBVIOUS
<1>2. Max(1 .. i) = i
  BY <1>1, MaxOfAll
<1>3. QED
  BY <1>1, <1>2

-----------------------------------------------------------------------------
(* The recursive function.                                                 *)
Makes(g, seq, n) ==
  g = [s \in SUBSET (1 .. n) |->
         IF s = {} THEN Base ELSE Op(g[s \ {Max(s)}], seq[Max(s)])]

Exists(seq, n) == \E g \in [SUBSET (1 .. n) -> A] : Makes(g, seq, n)

LEMMA MakesNothing ==
  ASSUME Typed, NEW seq
  PROVE  Exists(seq, 0)
<1> DEFINE g == [s \in SUBSET (1 .. 0) |-> Base]
<1>1. \A s \in SUBSET (1 .. 0) : s = {}
  OBVIOUS
<1>2. g \in [SUBSET (1 .. 0) -> A]
  BY DEF Typed
<1>3. g = [s \in SUBSET (1 .. 0) |->
             IF s = {} THEN Base ELSE Op(g[s \ {Max(s)}], seq[Max(s)])]
  BY <1>1
<1> HIDE DEF g
<1>4. QED
  BY <1>2, <1>3 DEF Exists, Makes

LEMMA MakesOneMore ==
  ASSUME Typed, NEW seq \in Seq(T), NEW n \in Nat, n + 1 <= Len(seq), Exists(seq, n)
  PROVE  Exists(seq, n + 1)
<1>1. PICK g \in [SUBSET (1 .. n) -> A] : Makes(g, seq, n)
  BY DEF Exists
<1>2. ASSUME NEW s \in SUBSET (1 .. n)
      PROVE  g[s] = IF s = {} THEN Base ELSE Op(g[s \ {Max(s)}], seq[Max(s)])
  BY <1>1 DEF Makes
<1>3. seq[n + 1] \in T
  BY ElementOfSeq, LenProperties
<1> DEFINE h == [s \in SUBSET (1 .. n + 1) |->
                   IF n + 1 \in s THEN Op(g[s \ {n + 1}], seq[n + 1]) ELSE g[s]]
<1>4. ASSUME NEW s \in SUBSET (1 .. n + 1)
      PROVE  /\ s \ {n + 1} \in SUBSET (1 .. n)
             /\ n + 1 \notin s => s \in SUBSET (1 .. n)
  OBVIOUS
<1>5. h \in [SUBSET (1 .. n + 1) -> A]
  BY <1>3, <1>4 DEF Typed
<1>6. ASSUME NEW s \in SUBSET (1 .. n + 1)
      PROVE  h[s] = IF s = {} THEN Base ELSE Op(h[s \ {Max(s)}], seq[Max(s)])
  <2>1. CASE n + 1 \in s
    <3>1. Max(s) = n + 1 /\ s # {} /\ n + 1 \notin s \ {n + 1}
      BY <2>1, MaxOfAll
    <3>2. h[s \ {n + 1}] = g[s \ {n + 1}]
      <4>1. s \ {n + 1} \in SUBSET (1 .. n + 1)
        OBVIOUS
      <4>2. QED
        BY <4>1
    <3>3. h[s] = Op(g[s \ {n + 1}], seq[n + 1])
      BY <2>1
    <3> HIDE DEF h
    <3>4. QED
      BY <3>1, <3>2, <3>3
  <2>2. CASE n + 1 \notin s
    <3>1. s \in SUBSET (1 .. n) /\ h[s] = g[s]
      BY <1>4, <2>2
    <3>2. h[s \ {Max(s)}] = g[s \ {Max(s)}]
      <4>1. s \ {Max(s)} \in SUBSET (1 .. n + 1) /\ n + 1 \notin s \ {Max(s)}
        BY <2>2
      <4>2. QED
        BY <4>1
    <3> HIDE DEF h
    <3>3. QED
      BY <1>2, <3>1, <3>2
  <2>3. QED
    BY <2>1, <2>2
<1>7. h = [s \in SUBSET (1 .. n + 1) |->
             IF s = {} THEN Base ELSE Op(h[s \ {Max(s)}], seq[Max(s)])]
  <2> HIDE DEF h
  <2>1. h = [s \in SUBSET (1 .. n + 1) |-> h[s]]
    BY <1>5
  <2>2. QED
    BY <1>6, <2>1
<1> HIDE DEF h
<1>8. QED
  BY <1>5, <1>7 DEF Exists, Makes

LEMMA FoldExists ==
  ASSUME Typed, NEW seq \in Seq(T)
  PROVE  Exists(seq, Len(seq))
<1> DEFINE S == {n \in Nat : n <= Len(seq) => Exists(seq, n)}
<1>1. 0 \in S
  BY MakesNothing
<1>2. ASSUME NEW n \in Nat, n \in S PROVE n + 1 \in S
  <2>1. ASSUME n + 1 <= Len(seq) PROVE Exists(seq, n + 1)
    <3>1. Exists(seq, n)
      BY <1>2, <2>1, LenProperties
    <3>2. QED
      BY <2>1, <3>1, MakesOneMore
  <2>2. QED
    BY <2>1
<1> HIDE DEF S
<1>3. \A n \in Nat : n \in S
  BY <1>1, <1>2, Induction
<1>4. QED
  BY <1>3, LenProperties DEF S

-----------------------------------------------------------------------------
(* The fold is where some function gets to that takes one step at a time.  *)
Steps(g, seq) ==
  /\ g[{}] = Base
  /\ \A i \in 1 .. Len(seq) : g[1 .. i] = Op(g[1 .. (i - 1)], seq[i])

LEMMA FoldSteps ==
  ASSUME Typed, NEW seq \in Seq(T)
  PROVE  \E g : Steps(g, seq) /\ Fold(seq) = g[1 .. Len(seq)]
<1> DEFINE n == Len(seq)
           Obeys(f) == f = [s \in SUBSET (DOMAIN seq) |->
                              IF s = {} THEN Base ELSE Op(f[s \ {Max(s)}], seq[Max(s)])]
           g == CHOOSE f : Obeys(f)
<1>1. Fold(seq) = g[DOMAIN seq]
  BY DEF Fold, FoldLeft, MapThenFoldSet
<1>2. n \in Nat /\ DOMAIN seq = 1 .. n
  BY LenProperties
<1>3. \E f : Obeys(f)
  BY <1>2, FoldExists DEF Exists, Makes
<1>4. Obeys(g)
  BY <1>3
<1> HIDE DEF g, n
<1>5. \A s \in SUBSET (1 .. n) :
        g[s] = IF s = {} THEN Base ELSE Op(g[s \ {Max(s)}], seq[Max(s)])
  BY <1>2, <1>4
<1> HIDE DEF Obeys
<1>6. g[{}] = Base
  BY <1>5
<1>7. ASSUME NEW i \in 1 .. n PROVE g[1 .. i] = Op(g[1 .. (i - 1)], seq[i])
  <2>1. i \in Nat \ {0} /\ 1 .. i \in SUBSET (1 .. n)
    BY <1>2
  <2>2. 1 .. i # {} /\ Max(1 .. i) = i /\ (1 .. i) \ {i} = 1 .. (i - 1)
    BY <2>1, Initial
  <2>3. QED
    BY <1>5, <2>1, <2>2
<1>8. Steps(g, seq)
  BY <1>6, <1>7 DEF Steps, n
<1>9. QED
  BY <1>1, <1>2, <1>8 DEF n

-----------------------------------------------------------------------------
(* What a fold makes of the empty sequence, and of one element more.       *)
LEMMA FoldEmpty ==
  ASSUME Typed
  PROVE  Fold(<<>>) = Base
<1>1. <<>> \in Seq(T) /\ Len(<<>>) = 0 /\ 1 .. 0 = {}
  BY EmptySeq
<1>2. PICK g : Steps(g, <<>>) /\ Fold(<<>>) = g[1 .. Len(<<>>)]
  BY <1>1, FoldSteps
<1>3. g[{}] = Base
  BY <1>2 DEF Steps
<1>4. QED
  BY <1>1, <1>2, <1>3

LEMMA FoldAppend ==
  ASSUME Typed, NEW seq \in Seq(T), NEW e \in T
  PROVE  Fold(Append(seq, e)) = Op(Fold(seq), e)
<1> DEFINE n == Len(seq)
           longer == Append(seq, e)
<1>1. /\ n \in Nat /\ longer \in Seq(T) /\ Len(longer) = n + 1
      /\ \A i \in 1 .. n : longer[i] = seq[i]
      /\ longer[n + 1] = e
  BY AppendProperties, LenProperties
<1> HIDE DEF longer
<1>2. PICK g : Steps(g, seq) /\ Fold(seq) = g[1 .. Len(seq)]
  BY FoldSteps
<1>3. PICK h : Steps(h, longer) /\ Fold(longer) = h[1 .. Len(longer)]
  BY <1>1, FoldSteps
<1> DEFINE S == {i \in Nat : i <= n => h[1 .. i] = g[1 .. i]}
<1>4. 0 \in S
  <2>1. 1 .. 0 = {}
    OBVIOUS
  <2>2. h[{}] = g[{}]
    BY <1>2, <1>3 DEF Steps
  <2>3. QED
    BY <2>1, <2>2
<1>5. ASSUME NEW i \in Nat, i \in S PROVE i + 1 \in S
  <2>1. ASSUME i + 1 <= n PROVE h[1 .. (i + 1)] = g[1 .. (i + 1)]
    <3>1. /\ i + 1 \in 1 .. n /\ i + 1 \in 1 .. Len(longer) /\ (i + 1) - 1 = i
          /\ h[1 .. i] = g[1 .. i] /\ longer[i + 1] = seq[i + 1]
      BY <1>1, <1>5, <2>1
    <3>2. /\ h[1 .. (i + 1)] = Op(h[1 .. ((i + 1) - 1)], longer[i + 1])
          /\ g[1 .. (i + 1)] = Op(g[1 .. ((i + 1) - 1)], seq[i + 1])
      BY <1>2, <1>3, <3>1 DEF Steps
    <3>3. QED
      BY <3>1, <3>2
  <2>2. QED
    BY <2>1
<1> HIDE DEF S
<1>6. h[1 .. n] = g[1 .. n]
  <2>1. \A i \in Nat : i \in S
    BY <1>4, <1>5, Induction
  <2>2. n \in S
    BY <1>1, <2>1
  <2>3. QED
    BY <1>1, <2>2 DEF S
<1>7. h[1 .. (n + 1)] = Op(h[1 .. n], e)
  <2>1. n + 1 \in 1 .. Len(longer) /\ (n + 1) - 1 = n
    BY <1>1
  <2>2. h[1 .. (n + 1)] = Op(h[1 .. ((n + 1) - 1)], longer[n + 1])
    BY <1>3, <2>1 DEF Steps
  <2>3. QED
    BY <1>1, <2>1, <2>2
<1>8. QED
  BY <1>1, <1>2, <1>3, <1>6, <1>7 DEF longer

LEMMA FoldTyped ==
  ASSUME Typed
  PROVE  \A seq \in Seq(T) : Fold(seq) \in A
<1> DEFINE S == {seq \in Seq(T) : Fold(seq) \in A}
<1>1. <<>> \in S
  BY FoldEmpty, EmptySeq DEF Typed
<1>2. ASSUME NEW s \in Seq(T), NEW e \in T, s \in S PROVE Append(s, e) \in S
  BY <1>2, FoldAppend, AppendProperties DEF Typed
<1> HIDE DEF S
<1>3. \A s \in Seq(T) : s \in S
  BY <1>1, <1>2, Appending
<1>4. QED
  BY <1>3 DEF S
==============================================================================
