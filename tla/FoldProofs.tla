----------------------------- MODULE FoldProofs -----------------------------
(***************************************************************************)
(* Loops over sequences.  A loop of the code that goes through a list is a *)
(* FoldLeft of the models.  Here it is shown that such a fold exists for   *)
(* sequences of any length, and how to reason about it turn by turn.       *)
(*                                                                         *)
(* The induction that takes is stated for sets, which the provers can      *)
(* handle, and comes from the pigeonhole principle: an injection of a      *)
(* finite set into itself is onto (FS_Injection).                          *)
(***************************************************************************)
EXTENDS Integers, Sequences, FiniteSets, SequencesExt, TLAPS,
        FiniteSetTheorems, FunctionTheorems, SequenceTheorems

\* A set that has 0, and with each number of a loop the next one, has them all.
LEMMA IntervalInduction ==
  ASSUME NEW n \in Nat, NEW T, 0 \in T, \A k \in 0 .. n - 1 : k \in T => k + 1 \in T
  PROVE  0 .. n \subseteq T
<1> SUFFICES ASSUME NEW m \in 0 .. n, m \notin T
             PROVE  FALSE
  OBVIOUS
<1> DEFINE M == {k \in 0 .. m : k \notin T}
           down == [k \in M |-> k - 1]
<1>1. IsFiniteSet(M)
  BY FS_Interval, FS_Subset, 0 \in Int, m \in Int
<1>2. down \in [M -> M] /\ \A j, k \in M : down[j] = down[k] => j = k
  <2>1. \A k \in M : k # 0 /\ k - 1 \in 0 .. n - 1 /\ k - 1 \in 0 .. m /\ k - 1 + 1 = k
    OBVIOUS
  <2>2. \A k \in M : k - 1 \in M
    BY <2>1
  <2> QED
    BY <2>1, <2>2
<1>3. down \in Injection(M, M)
  <2> HIDE DEF M, down
  <2> QED
    BY <1>2, Fun_IsInj
<1>4. down \in Surjection(M, M)
  <2> HIDE DEF M, down
  <2> QED
    BY <1>1, <1>3, FS_Injection
<1>5. \A j \in M : \E k \in M : down[k] = j
  <2> HIDE DEF M, down
  <2> QED
    BY <1>4, Fun_SurjectionProperties
<1> QED
  BY <1>5

\* A set of indices that is not empty has a last one.
LEMMA MaxOfIndices ==
  ASSUME NEW n \in Nat, NEW s \in SUBSET (1 .. n), s # {}
  PROVE  Max(s) \in s /\ \A i \in s : i <= Max(s)
<1> DEFINE NoneAbove(k) == \A i \in s : i <= k
           T == {k \in 0 .. n : \E m \in s : NoneAbove(m)} \cup {k \in 0 .. n : NoneAbove(n - k)}
<1>1. 0 .. n \subseteq T
  <2>1. 0 \in T
    OBVIOUS
  <2>2. ASSUME NEW k \in 0 .. n - 1, k \in T PROVE k + 1 \in T
    <3>1. CASE NoneAbove(n - k) /\ n - k \notin s
      <4>1. NoneAbove(n - (k + 1))
        BY <3>1
      <4> QED
        BY <4>1
    <3>2. CASE \E m \in s : NoneAbove(m)
      BY <3>2
    <3> QED
      BY <2>2, <3>1, <3>2
  <2> HIDE DEF T
  <2> QED
    BY <2>1, <2>2, IntervalInduction
<1>2. n \in T
  BY <1>1
<1>3. \E m \in s : NoneAbove(m)
  <2>1. ~NoneAbove(n - n)
    <3>1. PICK i \in s : i \in 1 .. n
      OBVIOUS
    <3> QED
      BY <3>1
  <2> QED
    BY <1>2, <2>1
<1> QED
  BY <1>3 DEF Max

\* The largest of the numbers up to k + 1.
LEMMA IntervalMax ==
  ASSUME NEW k \in Nat
  PROVE  Max(1 .. k + 1) = k + 1 /\ (1 .. k + 1) \ {Max(1 .. k + 1)} = 1 .. k
<1>1. Max(1 .. k + 1) \in 1 .. k + 1 /\ \A i \in 1 .. k + 1 : i <= Max(1 .. k + 1)
  BY MaxOfIndices, k + 1 \in Nat, 1 \in 1 .. k + 1
<1>2. Max(1 .. k + 1) = k + 1
  BY <1>1
<1> QED
  BY <1>2

\* h[s] is what the turns for the indices s lead to, F[<<i, x>>] being what
\* turn i makes of x.
Folds(h, n, base, F) ==
  \A s \in SUBSET (1 .. n) :
    h[s] = IF s = {} THEN base ELSE F[<<Max(s), h[s \ {Max(s)}]>>]

\* The function that FoldLeft is defined with exists, whatever the length of
\* the sequence, if each turn of the loop leads from S to S.
LEMMA FoldExists ==
  ASSUME NEW n \in Nat, NEW S, NEW base \in S, NEW F \in [(1 .. n) \X S -> S]
  PROVE  \E h \in [SUBSET (1 .. n) -> S] : Folds(h, n, base, F)
<1> USE DEF Folds
<1> DEFINE HasFold(k) == \E h \in [SUBSET (1 .. k) -> S] : Folds(h, k, base, F)
           T == {k \in 0 .. n : HasFold(k)}
<1>1. HasFold(0)
  <2>1. SUBSET (1 .. 0) = {{}}
    OBVIOUS
  <2>2. [s \in SUBSET (1 .. 0) |-> base] \in [SUBSET (1 .. 0) -> S]
        /\ Folds([s \in SUBSET (1 .. 0) |-> base], 0, base, F)
    BY <2>1
  <2> QED
    BY <2>2
<1>2. ASSUME NEW k \in 0 .. n - 1, HasFold(k) PROVE HasFold(k + 1)
  <2>1. PICK h \in [SUBSET (1 .. k) -> S] : Folds(h, k, base, F)
    BY <1>2
  <2> DEFINE g == [s \in SUBSET (1 .. k + 1) |->
                     IF k + 1 \in s THEN F[<<k + 1, h[s \ {k + 1}]>>] ELSE h[s]]
  <2>2. \A s \in SUBSET (1 .. k + 1) : s \ {k + 1} \in SUBSET (1 .. k)
    OBVIOUS
  <2>3. \A s \in SUBSET (1 .. k + 1) : k + 1 \notin s => s \in SUBSET (1 .. k)
    OBVIOUS
  <2>4. g \in [SUBSET (1 .. k + 1) -> S]
    <3>1. ASSUME NEW s \in SUBSET (1 .. k + 1) PROVE g[s] \in S
      <4>1. CASE k + 1 \in s
        <5>1. h[s \ {k + 1}] \in S /\ k + 1 \in 1 .. n
          BY <2>2
        <5> QED
          BY <4>1, <5>1
      <4>2. CASE k + 1 \notin s
        BY <2>3, <4>2
      <4> QED
        BY <4>1, <4>2
    <3> QED
      BY <3>1
  <2>5. ASSUME NEW s \in SUBSET (1 .. k + 1)
        PROVE  g[s] = IF s = {} THEN base ELSE F[<<Max(s), g[s \ {Max(s)}]>>]
    <3>1. CASE s = {}
      BY <2>1, <3>1
    <3>2. CASE s # {} /\ k + 1 \notin s
      <4>1. s \in SUBSET (1 .. k)
        BY <2>3, <3>2
      <4>2. s \ {Max(s)} \in SUBSET (1 .. k) /\ k + 1 \notin s \ {Max(s)}
        BY <4>1, <3>2
      <4>3. g[s] = h[s] /\ g[s \ {Max(s)}] = h[s \ {Max(s)}]
        BY <3>2, <4>2
      <4> QED
        BY <2>1, <3>2, <4>1, <4>3
    <3>3. CASE k + 1 \in s
      <4>1. Max(s) \in s /\ \A i \in s : i <= Max(s)
        BY <3>3, MaxOfIndices, k + 1 \in Nat
      <4>2. Max(s) = k + 1
        <5>1. Max(s) \in 1 .. k + 1 /\ k + 1 <= Max(s)
          BY <3>3, <4>1
        <5> QED
          BY <5>1
      <4>3. s \ {Max(s)} \in SUBSET (1 .. k + 1) /\ k + 1 \notin s \ {Max(s)}
        BY <4>2
      <4>4. g[s \ {Max(s)}] = h[s \ {Max(s)}]
        BY <4>3
      <4> QED
        BY <3>3, <4>2, <4>4
    <3> QED
      BY <3>1, <3>2, <3>3
  <2> HIDE DEF g
  <2>6. Folds(g, k + 1, base, F)
    BY <2>5
  <2> QED
    BY <2>4, <2>6
<1>3. HasFold(n)
  <2> HIDE DEF HasFold
  <2>1. 0 \in T
    BY <1>1
  <2>2. \A k \in 0 .. n - 1 : k \in T => k + 1 \in T
    BY <1>2
  <2>3. 0 .. n \subseteq T
    <3> HIDE DEF T
    <3> QED
      BY <2>1, <2>2, IntervalInduction
  <2> QED
    BY <2>3
<1> QED
  BY <1>3

\* The first n elements of a sequence.
LEMMA Beginning ==
  ASSUME NEW S, NEW s \in Seq(S), NEW n \in 0 .. Len(s)
  PROVE  /\ SubSeq(s, 1, n) \in Seq(S)
         /\ Len(SubSeq(s, 1, n)) = n
         /\ \A i \in 1 .. n : SubSeq(s, 1, n)[i] = s[i]
<1>1. /\ SubSeq(s, 1, n) \in Seq(S)
      /\ Len(SubSeq(s, 1, n)) = IF 1 <= n THEN n - 1 + 1 ELSE 0
      /\ \A i \in 1 .. n - 1 + 1 : SubSeq(s, 1, n)[i] = s[1 + i - 1]
  <2>1. n \in Int /\ 1 \in Int /\ \A i \in 1 .. n : s[i] \in S
    OBVIOUS
  <2> QED
    BY <2>1, SubSeqProperties
<1>2. n \in Nat /\ n - 1 + 1 = n /\ \A i \in 1 .. n : 1 + i - 1 = i
  OBVIOUS
<1>3. Len(SubSeq(s, 1, n)) = n
  BY <1>1, <1>2
<1>4. \A i \in 1 .. n : SubSeq(s, 1, n)[i] = s[i]
  BY <1>1, <1>2
<1> QED
  BY <1>1, <1>3, <1>4

\* The beginning of a beginning is a beginning.
LEMMA BeginningOfBeginning ==
  ASSUME NEW S, NEW s \in Seq(S), NEW n \in 0 .. Len(s), NEW m \in 0 .. n
  PROVE  SubSeq(SubSeq(s, 1, n), 1, m) = SubSeq(s, 1, m)
<1>1. m \in 0 .. Len(s)
  OBVIOUS
<1>2. /\ SubSeq(s, 1, n) \in Seq(S) /\ Len(SubSeq(s, 1, n)) = n
      /\ \A i \in 1 .. n : SubSeq(s, 1, n)[i] = s[i]
  BY Beginning
<1>3. /\ SubSeq(s, 1, m) \in Seq(S) /\ Len(SubSeq(s, 1, m)) = m
      /\ \A i \in 1 .. m : SubSeq(s, 1, m)[i] = s[i]
  BY <1>1, Beginning
<1> DEFINE t == SubSeq(s, 1, n)
<1>4. /\ SubSeq(t, 1, m) \in Seq(S) /\ Len(SubSeq(t, 1, m)) = m
      /\ \A i \in 1 .. m : SubSeq(t, 1, m)[i] = t[i]
  <2>1. t \in Seq(S) /\ m \in 0 .. Len(t)
    BY <1>2
  <2> HIDE DEF t
  <2> QED
    BY <2>1, Beginning
<1>5. \A i \in 1 .. m : i \in 1 .. n
  OBVIOUS
<1>6. \A i \in 1 .. m : SubSeq(t, 1, m)[i] = SubSeq(s, 1, m)[i]
  BY <1>2, <1>3, <1>4, <1>5
<1> HIDE DEF t
<1>7. SubSeq(t, 1, m) = SubSeq(s, 1, m)
  BY <1>3, <1>4, <1>6, SeqEqual
<1> QED
  BY <1>7 DEF t

\* A sequence of one element.
LEMMA OneElement ==
  ASSUME NEW S, NEW x \in S
  PROVE  <<x>> \in Seq(S) /\ Len(<<x>>) = 1 /\ <<x>>[1] = x
OBVIOUS

\* The empty sequence is the one of length 0.
LEMMA EmptyByLength ==
  ASSUME NEW S, NEW s \in Seq(S)
  PROVE  Len(s) \in Nat /\ (s = <<>> <=> Len(s) = 0)
BY EmptySeq

\* The first element alone.
LEMMA FirstElement ==
  ASSUME NEW S, NEW s \in Seq(S), Len(s) >= 1
  PROVE  SubSeq(s, 1, 1) = <<s[1]>>
<1> DEFINE first == SubSeq(s, 1, 1)
           one == <<s[1]>>
<1>1. first \in Seq(S) /\ Len(first) = 1 /\ first[1] = s[1]
  BY Beginning, 1 \in 0 .. Len(s)
<1>2. one \in Seq(S) /\ Len(one) = 1 /\ one[1] = s[1]
  BY OneElement, s[1] \in S
<1> HIDE DEF first, one
<1>3. \A i \in 1 .. Len(first) : first[i] = one[i]
  BY <1>1, <1>2
<1>4. first = one
  BY <1>1, <1>2, <1>3, SeqEqual
<1> QED
  BY <1>4 DEF first, one

=============================================================================
