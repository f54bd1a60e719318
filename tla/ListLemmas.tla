----------------------------- MODULE ListLemmas -----------------------------
(* Facts about the lists of the control server (std::list), as sequences.   *)
EXTENDS Integers, SequencesExt, SequenceTheorems, WellFoundedInduction, TLAPS

(* A set of numbers that is not empty has a least element: what stands in   *)
(* here for induction.                                                      *)
LEMMA LeastOf ==
  ASSUME NEW S \in SUBSET Nat, S # {}
  PROVE  \E i \in S : \A j \in S : i <= j
<1>1. \E i \in S : \A j \in S : ~ (<<j, i>> \in OpToRel(<, Nat))
  BY NatLessThanWellFounded, WFMin, Zenon
<1>2. PICK i \in S : \A j \in S : ~ (<<j, i>> \in OpToRel(<, Nat))
  BY <1>1
<1>3. \A j \in S : i <= j
  <2>1. SUFFICES ASSUME NEW j \in S, j < i PROVE FALSE
    OBVIOUS
  <2>2. <<j, i>> \in OpToRel(<, Nat)
    BY <2>1 DEF OpToRel
  <2> QED BY <1>2, <2>2
<1> QED BY <1>3

(* A loop that copies the entries of S is a recursive function, and there   *)
(* is one: the first number of rounds for which there is none has one.      *)
LEMMA LoopDefined ==
  ASSUME NEW q, NEW S, NEW n \in Nat
  PROVE  \E f : f = [i \in 0..n |-> IF i = 0 THEN <<>>
                                    ELSE IF q[i] \in S THEN Append(f[i - 1], q[i])
                                    ELSE f[i - 1]]
<1> DEFINE Round(v, i) == IF q[i] \in S THEN Append(v, q[i]) ELSE v
           Is(f, k) == f = [i \in 0..k |-> IF i = 0 THEN <<>> ELSE Round(f[i - 1], i)]
           none == {k \in Nat : \A f : ~ Is(f, k)}
<1>1. SUFFICES ASSUME n \in none PROVE FALSE
  OBVIOUS
<1>2. PICK k \in none : \A j \in none : k <= j
  BY <1>1, LeastOf
<1> HIDE DEF Round
<1>3. k # 0
  <2> DEFINE f == [i \in 0..0 |-> <<>>]
  <2>1. f = [i \in 0..0 |-> IF i = 0 THEN <<>> ELSE Round(f[i - 1], i)]
    OBVIOUS
  <2>2. Is(f, 0)
    BY <2>1
  <2> QED BY <2>2
<1>4. k - 1 \in Nat /\ k - 1 \notin none
  <2>1. k \in Nat
    BY <1>2
  <2>2. k - 1 \in Nat /\ ~ (k <= k - 1)
    BY <1>3, <2>1
  <2> HIDE DEF none
  <2> QED BY <1>2, <2>2
<1>5. PICK g : Is(g, k - 1)
  BY <1>4
<1> DEFINE f == [i \in 0..k |-> IF i = k THEN Round(g[k - 1], k) ELSE g[i]]
<1>6. \A i \in 0..k - 1 : /\ g[i] = (IF i = 0 THEN <<>> ELSE Round(g[i - 1], i))
                          /\ f[i] = g[i]
  BY <1>4, <1>5
<1>7. \A i \in 0..k : f[i] = IF i = 0 THEN <<>> ELSE Round(f[i - 1], i)
  <2>1. SUFFICES ASSUME NEW i \in 0..k
                 PROVE  f[i] = IF i = 0 THEN <<>> ELSE Round(f[i - 1], i)
    OBVIOUS
  <2>2. CASE i = k
    <3>1. f[i] = Round(g[k - 1], k) /\ f[i - 1] = g[k - 1]
      BY <1>3, <1>4, <1>6, <2>2
    <3> QED BY <1>3, <2>2, <3>1
  <2>3. CASE i # k
    <3>1. i \in 0..k - 1 /\ (i # 0 => i - 1 \in 0..k - 1)
      BY <1>4, <2>3
    <3>2. f[i] = (IF i = 0 THEN <<>> ELSE Round(g[i - 1], i))
      BY <1>6, <3>1
    <3>3. i # 0 => f[i - 1] = g[i - 1]
      BY <1>6, <3>1
    <3> HIDE DEF f
    <3> QED BY <3>2, <3>3
  <2> QED BY <2>2, <2>3
<1>8. f = [i \in 0..k |-> f[i]]
  OBVIOUS
<1> HIDE DEF f
<1>9. f = [i \in 0..k |-> IF i = 0 THEN <<>> ELSE Round(f[i - 1], i)]
  BY <1>7, <1>8
<1> QED BY <1>2, <1>9

(* Taking one element out of the list leaves the others, in their order.    *)
LEMMA RemoveOne ==
  ASSUME NEW S, NEW q \in Seq(S), NEW i \in 1..Len(q)
  PROVE  /\ RemoveAt(q, i) \in Seq(S)
         /\ Len(RemoveAt(q, i)) = Len(q) - 1
         /\ \A j \in 1..Len(q) - 1 :
                RemoveAt(q, i)[j] = IF j < i THEN q[j] ELSE q[j + 1]
<1> DEFINE h == SubSeq(q, 1, i - 1)
           t == SubSeq(q, i + 1, Len(q))
<1>0. Len(q) \in Nat /\ \A j \in 1..Len(q) : q[j] \in S
  BY LenProperties, ElementOfSeq
<1>1. /\ h \in Seq(S) /\ Len(h) = i - 1
      /\ \A j \in 1..i - 1 : h[j] = q[j]
  <2>1. /\ i - 1 \in Int /\ 1 \in Int
        /\ \A j \in 1..i - 1 : q[j] \in S
    BY <1>0
  <2>2. /\ h \in Seq(S) /\ Len(h) = IF 1 <= i - 1 THEN i - 1 - 1 + 1 ELSE 0
        /\ \A j \in 1..i - 1 - 1 + 1 : h[j] = q[1 + j - 1]
    BY ONLY <2>1, SubSeqProperties
  <2> QED BY <1>0, <2>2
<1>2. /\ t \in Seq(S) /\ Len(t) = Len(q) - i
      /\ \A j \in 1..Len(q) - i : t[j] = q[i + j]
  <2>1. /\ i + 1 \in Int /\ Len(q) \in Int
        /\ \A j \in i + 1..Len(q) : q[j] \in S
    BY <1>0
  <2>2. /\ t \in Seq(S)
        /\ Len(t) = IF i + 1 <= Len(q) THEN Len(q) - (i + 1) + 1 ELSE 0
        /\ \A j \in 1..Len(q) - (i + 1) + 1 : t[j] = q[i + 1 + j - 1]
    BY ONLY <2>1, SubSeqProperties
  <2> QED BY <1>0, <2>2
<1> HIDE DEF h, t
<1>3. Len(h) \in Nat /\ Len(t) \in Nat /\ Len(h) + Len(t) = Len(q) - 1
  BY <1>0, <1>1, <1>2
<1>4. h \o t \in Seq(S) /\ Len(h \o t) = Len(q) - 1
  BY <1>1, <1>2, <1>3, ConcatProperties, Zenon
<1>5. \A j \in 1..Len(q) - 1 : (h \o t)[j] = IF j <= Len(h) THEN h[j] ELSE t[j - Len(h)]
  BY <1>1, <1>2, <1>3, ConcatProperties
<1>6. ASSUME NEW j \in 1..Len(q) - 1
      PROVE  (h \o t)[j] = IF j < i THEN q[j] ELSE q[j + 1]
  <2>1. CASE j < i
    BY <1>0, <1>1, <1>5, <2>1
  <2>2. CASE ~ (j < i)
    <3>1. /\ j - Len(h) \in 1..Len(q) - i /\ ~ (j <= Len(h))
          /\ i + (j - Len(h)) = j + 1
      <4>1. Len(h) = i - 1
        BY <1>1
      <4> QED BY <1>0, <2>2, <4>1
    <3>2. t[j - Len(h)] = q[j + 1]
      BY <1>2, <3>1
    <3> QED BY <1>5, <2>2, <3>1, <3>2, Zenon
  <2> QED BY <1>0, <2>1, <2>2
<1> QED BY <1>4, <1>6 DEF RemoveAt, h, t
=============================================================================
