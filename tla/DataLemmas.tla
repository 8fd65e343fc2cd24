--------------------------- MODULE DataLemmas -----------------------------
(***************************************************************************)
(* What the proofs use of sequences as queues and stacks (elements put at  *)
(* one end and taken from the other, and the sets they make) and as texts  *)
(* put together of pieces, and of the elements of a set: their number, and *)
(* the least of them.                                                      *)
(***************************************************************************)
EXTENDS Integers, Sequences, SequencesExt, FiniteSets, SequenceTheorems, FiniteSetTheorems,
        WellFoundedInduction, TLAPS

(* The head of a sequence without repetitions is not in its tail.          *)
LEMMA Dequeued ==
  ASSUME NEW S, NEW s \in Seq(S), s # <<>>
  PROVE  /\ Head(s) \in S /\ Head(s) \in ToSet(s)
         /\ Tail(s) \in Seq(S)
         /\ ToSet(Tail(s)) \subseteq ToSet(s)
         /\ ToSet(s) = ToSet(Tail(s)) \cup {Head(s)}
         /\ IsInjective(s) => IsInjective(Tail(s)) /\ Head(s) \notin ToSet(Tail(s))
<1>0. /\ Len(s) \in Nat /\ Len(s) > 0 /\ DOMAIN s = 1..Len(s)
      /\ \A i \in 1..Len(s) : s[i] \in S
  BY EmptySeq, ElementOfSeq, LenProperties
<1>1. Head(s) = s[1] /\ 1 \in 1..Len(s)
  BY <1>0
<1>2. /\ Tail(s) \in Seq(S) /\ Len(Tail(s)) = Len(s) - 1
      /\ \A i \in 1..Len(Tail(s)) : Tail(s)[i] = s[i + 1]
      /\ DOMAIN Tail(s) = 1..(Len(s) - 1)
  BY <1>0, HeadTailProperties, LenProperties
<1>3. ToSet(s) = ToSet(Tail(s)) \cup {Head(s)}
  <2>1. \A i \in 1..Len(s) : i # 1 => i - 1 \in 1..(Len(s) - 1) /\ Tail(s)[i - 1] = s[i]
    BY <1>0, <1>2
  <2>2. \A i \in 1..(Len(s) - 1) : i + 1 \in 1..Len(s) /\ s[i + 1] = Tail(s)[i]
    BY <1>0, <1>2
  <2>3. ToSet(s) \subseteq ToSet(Tail(s)) \cup {Head(s)}
    <3>1. SUFFICES ASSUME NEW i \in 1..Len(s)
                   PROVE  s[i] \in ToSet(Tail(s)) \cup {Head(s)}
      BY <1>0 DEF ToSet
    <3>2. CASE i = 1
      BY <1>1, <3>2
    <3>3. CASE i # 1
      BY <1>2, <2>1, <3>3 DEF ToSet
    <3>4. QED
      BY <3>2, <3>3
  <2>4. ToSet(Tail(s)) \cup {Head(s)} \subseteq ToSet(s)
    BY <1>0, <1>1, <1>2, <2>2 DEF ToSet
  <2>5. QED
    BY <2>3, <2>4
<1>4. ASSUME IsInjective(s)
      PROVE  IsInjective(Tail(s)) /\ Head(s) \notin ToSet(Tail(s))
  <2>1. \A i, j \in 1..Len(s) : s[i] = s[j] => i = j
    BY <1>0, <1>4 DEF IsInjective
  <2>2. ASSUME NEW i \in 1..(Len(s) - 1), NEW j \in 1..(Len(s) - 1), Tail(s)[i] = Tail(s)[j]
        PROVE  i = j
    <3>1. i + 1 \in 1..Len(s) /\ j + 1 \in 1..Len(s)
      BY <1>0
    <3>2. s[i + 1] = s[j + 1]
      BY <1>2, <2>2
    <3>3. i + 1 = j + 1
      BY <2>1, <3>1, <3>2
    <3>4. QED
      BY <3>3
  <2>3. ASSUME NEW i \in 1..(Len(s) - 1), Tail(s)[i] = Head(s)
        PROVE  FALSE
    BY <1>0, <1>1, <1>2, <2>1, <2>3
  <2>4. IsInjective(Tail(s))
    BY <1>2, <2>2 DEF IsInjective
  <2>5. Head(s) \notin ToSet(Tail(s))
    BY <1>2, <2>3 DEF ToSet
  <2>6. QED
    BY <2>4, <2>5
<1>5. QED
  BY <1>0, <1>1, <1>2, <1>3, <1>4

(* What a sequence over S holds is in S.                                   *)
LEMMA ElementsTyped ==
  ASSUME NEW S, NEW s \in Seq(S)
  PROVE  ToSet(s) \subseteq S
  BY ElementOfSeq, LenProperties DEF ToSet

(* A new last element.                                                     *)
LEMMA Enqueued ==
  ASSUME NEW S, NEW s \in Seq(S), NEW e \in S
  PROVE  /\ Append(s, e) \in Seq(S)
         /\ ToSet(Append(s, e)) = ToSet(s) \cup {e}
         /\ IsInjective(s) /\ e \notin ToSet(s) => IsInjective(Append(s, e))
<1> DEFINE t == Append(s, e)
<1>0. /\ Len(s) \in Nat /\ DOMAIN s = 1..Len(s)
      /\ t \in Seq(S) /\ Len(t) = Len(s) + 1 /\ DOMAIN t = 1..(Len(s) + 1)
      /\ \A i \in 1..Len(s) : t[i] = s[i]
      /\ t[Len(s) + 1] = e
  BY AppendProperties, LenProperties
<1>1. ToSet(t) = ToSet(s) \cup {e}
  <2>1. \A i \in 1..(Len(s) + 1) : i \in 1..Len(s) \/ i = Len(s) + 1
    BY <1>0
  <2>2. \A i \in 1..Len(s) : i \in 1..(Len(s) + 1)
    BY <1>0
  <2>3. Len(s) + 1 \in 1..(Len(s) + 1)
    BY <1>0
  <2>4. QED
    BY <1>0, <2>1, <2>2, <2>3 DEF ToSet
<1>2. ASSUME IsInjective(s), e \notin ToSet(s)
      PROVE  IsInjective(t)
  <2>1. \A i \in 1..Len(s) : s[i] # e
    BY <1>0, <1>2 DEF ToSet
  <2>2. \A i, j \in 1..Len(s) : s[i] = s[j] => i = j
    BY <1>0, <1>2 DEF IsInjective
  <2>3. ASSUME NEW i \in 1..(Len(s) + 1), NEW j \in 1..(Len(s) + 1), t[i] = t[j]
        PROVE  i = j
    <3>1. CASE i \in 1..Len(s) /\ j \in 1..Len(s)
      BY <1>0, <2>2, <2>3, <3>1
    <3>2. CASE i = Len(s) + 1 /\ j \in 1..Len(s)
      BY <1>0, <2>1, <2>3, <3>2
    <3>3. CASE i \in 1..Len(s) /\ j = Len(s) + 1
      BY <1>0, <2>1, <2>3, <3>3
    <3>4. CASE i = Len(s) + 1 /\ j = Len(s) + 1
      BY <3>4
    <3>5. QED
      BY <1>0, <3>1, <3>2, <3>3, <3>4
  <2>4. QED
    BY <1>0, <2>3 DEF IsInjective
<1>3. QED
  BY <1>0, <1>1, <1>2

(* A new first element, and the first element taken away.                   *)
LEMMA PushPop ==
  ASSUME NEW S, NEW s \in Seq(S)
  PROVE  /\ \A e \in S : /\ <<e>> \o s \in Seq(S) /\ Len(<<e>> \o s) = Len(s) + 1
                        /\ (<<e>> \o s)[1] = e
                        /\ \A i \in 1..Len(s) : (<<e>> \o s)[i + 1] = s[i]
         /\ s # <<>> => /\ Tail(s) \in Seq(S) /\ Len(Tail(s)) = Len(s) - 1
                        /\ Head(s) \in S /\ Head(s) = s[1]
                        /\ \A i \in 1..(Len(s) - 1) : Tail(s)[i] = s[i + 1]
<1>1. Len(s) \in Nat /\ \A i \in 1..Len(s) : s[i] \in S
  BY ElementOfSeq, LenProperties
<1>2. ASSUME NEW e \in S
      PROVE  /\ <<e>> \o s \in Seq(S) /\ Len(<<e>> \o s) = Len(s) + 1
             /\ (<<e>> \o s)[1] = e
             /\ \A i \in 1..Len(s) : (<<e>> \o s)[i + 1] = s[i]
  <2>1. <<e>> \in Seq(S) /\ Len(<<e>>) = 1 /\ <<e>>[1] = e
    OBVIOUS
  <2>2. QED
    BY <1>1, <2>1, ConcatProperties
<1>3. ASSUME s # <<>>
      PROVE  /\ Tail(s) \in Seq(S) /\ Len(Tail(s)) = Len(s) - 1
             /\ Head(s) \in S /\ Head(s) = s[1]
             /\ \A i \in 1..(Len(s) - 1) : Tail(s)[i] = s[i + 1]
  BY <1>1, <1>3, HeadTailProperties
<1>4. QED
  BY <1>2, <1>3

(* An element taken out of the middle: those after it move down by one.    *)
LEMMA RemovedPlaces ==
  ASSUME NEW S, NEW s \in Seq(S), NEW i \in 1..Len(s)
  PROVE  /\ RemoveAt(s, i) \in Seq(S) /\ Len(RemoveAt(s, i)) = Len(s) - 1
         /\ \A j \in 1..Len(s) - 1 : RemoveAt(s, i)[j] = IF j < i THEN s[j] ELSE s[j + 1]
<1> DEFINE n == Len(s)
           t == RemoveAt(s, i)
<1>1. n \in Nat /\ DOMAIN s = 1..n /\ \A j \in 1..n : s[j] \in S
  BY ElementOfSeq, LenProperties
<1>2. /\ SubSeq(s, 1, i - 1) \in Seq(S) /\ Len(SubSeq(s, 1, i - 1)) = i - 1
      /\ \A j \in 1..i - 1 : SubSeq(s, 1, i - 1)[j] = s[j]
  <2>1. \A j \in 1..i - 1 : s[j] \in S /\ 1 + j - 1 = j
    BY <1>1
  <2>2. 1 \in Int /\ i - 1 \in Int /\ i - 1 - 1 + 1 = i - 1
    BY <1>1
  <2>3. /\ SubSeq(s, 1, i - 1) \in Seq(S)
        /\ Len(SubSeq(s, 1, i - 1)) = IF 1 <= i - 1 THEN i - 1 - 1 + 1 ELSE 0
        /\ \A j \in 1 .. i - 1 - 1 + 1 : SubSeq(s, 1, i - 1)[j] = s[1 + j - 1]
    BY <2>1, <2>2, SubSeqProperties
  <2>4. Len(SubSeq(s, 1, i - 1)) = i - 1
    BY <1>1, <2>3
  <2>5. QED
    BY <2>1, <2>2, <2>3, <2>4
<1>3. /\ SubSeq(s, i + 1, n) \in Seq(S) /\ Len(SubSeq(s, i + 1, n)) = n - i
      /\ \A j \in 1..n - i : SubSeq(s, i + 1, n)[j] = s[i + j]
  <2> DEFINE v == SubSeq(s, i + 1, n)
  <2>0. n \in Nat /\ i \in 1..n /\ \A j \in i + 1..n : s[j] \in S
    BY <1>1
  <2> HIDE DEF n
  <2>1. /\ v \in Seq(S) /\ Len(v) = IF i + 1 <= n THEN n - (i + 1) + 1 ELSE 0
        /\ \A j \in 1 .. n - (i + 1) + 1 : v[j] = s[i + 1 + j - 1]
    BY <2>0, SubSeqProperties
  <2> HIDE DEF v
  <2>2. Len(v) = n - i
    BY <2>0, <2>1
  <2>3. \A j \in 1..n - i : v[j] = s[i + j]
    <3>1. \A j \in 1..n - i : i + 1 + j - 1 = i + j /\ j \in 1..n - (i + 1) + 1
      BY <2>0
    <3>2. QED
      BY <2>1, <3>1
  <2>4. QED
    BY <2>1, <2>2, <2>3 DEF v
<1>4. /\ t \in Seq(S) /\ Len(t) = n - 1 /\ DOMAIN t = 1..n - 1
      /\ \A j \in 1..n - 1 : t[j] = IF j < i THEN s[j] ELSE s[j + 1]
  <2>1. /\ t \in Seq(S) /\ Len(t) = (i - 1) + (n - i)
        /\ \A j \in 1..(i - 1) + (n - i) :
             t[j] = IF j <= i - 1 THEN SubSeq(s, 1, i - 1)[j]
                                  ELSE SubSeq(s, i + 1, n)[j - (i - 1)]
    <3> DEFINE u == SubSeq(s, 1, i - 1)
               v == SubSeq(s, i + 1, n)
    <3>1. t = u \o v
      BY DEF RemoveAt
    <3>2. u \in Seq(S) /\ v \in Seq(S) /\ Len(u) = i - 1 /\ Len(v) = n - i
      BY <1>2, <1>3
    <3> HIDE DEF u, v, t
    <3>3. /\ u \o v \in Seq(S) /\ Len(u \o v) = Len(u) + Len(v)
          /\ \A j \in 1..Len(u) + Len(v) : (u \o v)[j] = IF j <= Len(u) THEN u[j]
                                                         ELSE v[j - Len(u)]
      BY <3>2, ConcatProperties
    <3>4. QED
      BY <3>1, <3>2, <3>3 DEF u, v
  <2> HIDE DEF t
  <2>2. (i - 1) + (n - i) = n - 1
    BY <1>1
  <2>3. ASSUME NEW j \in 1..n - 1 PROVE t[j] = IF j < i THEN s[j] ELSE s[j + 1]
    <3>1. CASE j < i
      BY <1>1, <1>2, <2>1, <2>2, <3>1
    <3>2. CASE ~(j < i)
      <4>1. j - (i - 1) \in 1..n - i /\ i + (j - (i - 1)) = j + 1 /\ ~(j <= i - 1)
        BY <1>1, <3>2
      <4>2. QED
        BY <1>3, <2>1, <2>2, <3>2, <4>1
    <3>3. QED
      BY <3>1, <3>2
  <2>4. QED
    BY <2>1, <2>2, <2>3, LenProperties
<1>5. QED
  BY <1>4

(* So a list keeps having no repetitions, and loses just that element.     *)
LEMMA Removed ==
  ASSUME NEW S, NEW s \in Seq(S), NEW i \in 1..Len(s)
  PROVE  /\ RemoveAt(s, i) \in Seq(S)
         /\ IsInjective(s) => /\ IsInjective(RemoveAt(s, i))
                              /\ ToSet(RemoveAt(s, i)) = ToSet(s) \ {s[i]}
<1> DEFINE n == Len(s)
           t == RemoveAt(s, i)
<1>1. n \in Nat /\ DOMAIN s = 1..n /\ \A j \in 1..n : s[j] \in S
  BY ElementOfSeq, LenProperties
<1>2. /\ t \in Seq(S) /\ Len(t) = n - 1 /\ DOMAIN t = 1..n - 1
      /\ \A j \in 1..n - 1 : t[j] = IF j < i THEN s[j] ELSE s[j + 1]
  BY RemovedPlaces, LenProperties
<1> HIDE DEF t
<1>3. ASSUME IsInjective(s)
      PROVE  IsInjective(t) /\ ToSet(t) = ToSet(s) \ {s[i]}
  <2>1. \A j, k \in 1..n : s[j] = s[k] => j = k
    BY <1>1, <1>3 DEF IsInjective
  <2>2. ASSUME NEW j \in 1..n - 1
        PROVE  \E k \in 1..n : k # i /\ t[j] = s[k] /\ k = IF j < i THEN j ELSE j + 1
    BY <1>1, <1>2
  <2>3. ASSUME NEW k \in 1..n, k # i
        PROVE  \E j \in 1..n - 1 : t[j] = s[k]
    <3>1. CASE k < i
      BY <1>1, <1>2, <3>1
    <3>2. CASE k > i
      <4>1. k - 1 \in 1..n - 1 /\ ~(k - 1 < i) /\ k - 1 + 1 = k
        BY <1>1, <3>2
      <4>2. QED
        BY <1>2, <4>1
    <3>3. QED
      BY <1>1, <2>3, <3>1, <3>2
  <2>4. ASSUME NEW j \in 1..n - 1, NEW k \in 1..n - 1, t[j] = t[k]
        PROVE  j = k
    BY <1>1, <2>1, <2>2, <2>4
  <2>5. IsInjective(t)
    BY <1>2, <2>4 DEF IsInjective
  <2>6. ToSet(t) = ToSet(s) \ {s[i]}
    <3>1. ToSet(t) \subseteq ToSet(s) \ {s[i]}
      BY <1>1, <1>2, <2>1, <2>2 DEF ToSet
    <3>2. ToSet(s) \ {s[i]} \subseteq ToSet(t)
      <4>1. SUFFICES ASSUME NEW k \in 1..n, s[k] # s[i] PROVE s[k] \in ToSet(t)
        BY <1>1 DEF ToSet
      <4>2. PICK j \in 1..n - 1 : t[j] = s[k]
        BY <2>3, <4>1
      <4>3. QED
        BY <1>2, <4>2 DEF ToSet
    <3>3. QED
      BY <3>1, <3>2
  <2>7. QED
    BY <2>5, <2>6
<1>4. QED
  BY <1>2, <1>3 DEF t

(* One element more or one less.                                           *)
LEMMA OneMore ==
  ASSUME NEW S, IsFiniteSet(S), NEW x, x \notin S
  PROVE  IsFiniteSet(S \cup {x}) /\ Cardinality(S \cup {x}) = Cardinality(S) + 1
         /\ Cardinality(S) \in Nat
  BY FS_AddElement, FS_CardinalityType

LEMMA OneLess ==
  ASSUME NEW S, IsFiniteSet(S), NEW x \in S
  PROVE  IsFiniteSet(S \ {x}) /\ Cardinality(S \ {x}) = Cardinality(S) - 1
         /\ Cardinality(S) \in Nat
  BY FS_RemoveElement, FS_CardinalityType

(* A set of naturals has a least element.                                 *)
LEMMA LeastElement ==
  ASSUME NEW S \in SUBSET Nat, S # {}
  PROVE  Min(S) \in S /\ \A y \in S : Min(S) =< y
<1> PICK n \in S : TRUE
  OBVIOUS
<1> DEFINE below == {0..x : x \in {y \in S : y =< n}}
<1>1. below \subseteq FiniteSubsetsOf(0..n) /\ 0..n \in below
  <2>1. \A y \in S : y =< n => 0..y \subseteq 0..n
    OBVIOUS
  <2>2. IsFiniteSet(0..n)
    BY FS_Interval
  <2>3. FiniteSubsetsOf(0..n) = SUBSET (0..n)
    BY <2>2, FS_FiniteSubsetsOfFinite
  <2>4. QED
    BY <2>1, <2>3
<1>2. PICK b \in below : \A a \in below : ~ (<<a, b>> \in StrictSubsetOrdering(0..n))
  <2>1. IsWellFoundedOn(StrictSubsetOrdering(0..n), FiniteSubsetsOf(0..n))
    BY FS_StrictSubsetOrderingWellFounded
  <2> HIDE DEF below
  <2> QED
    BY <1>1, <2>1, WFMin
<1>3. PICK x \in S : x =< n /\ b = 0..x
  BY <1>2
<1>4. ASSUME NEW y \in S, y < x PROVE FALSE
  <2>1. 0..y \in below /\ 0..y \subseteq 0..x /\ x \in 0..x /\ x \notin 0..y
    BY <1>3, <1>4
  <2>2. <<0..y, b>> \in StrictSubsetOrdering(0..n)
    BY <1>1, <1>3, <2>1 DEF StrictSubsetOrdering
  <2>3. QED
    BY <1>2, <2>1, <2>2
<1>5. \E z \in S : \A y \in S : z =< y
  BY <1>3, <1>4
<1>6. QED
  BY <1>5 DEF Min

(* Induction: the least number missing from S would be neither 0 nor the
   successor of a member.                                                 *)
LEMMA Induction ==
  ASSUME NEW S, 0 \in S, \A n \in Nat : n \in S => n + 1 \in S
  PROVE  Nat \subseteq S
<1> DEFINE missing == Nat \ S
<1>1. SUFFICES ASSUME missing # {} PROVE FALSE
  OBVIOUS
<1>2. PICK k \in missing : \A n \in missing : k =< n
  <2>1. missing \in SUBSET Nat
    OBVIOUS
  <2> HIDE DEF missing
  <2>2. QED
    BY <1>1, <2>1, LeastElement
<1>3. k \in Nat /\ k # 0 /\ k - 1 \in Nat
  BY <1>2
<1>4. k - 1 \in S
  BY <1>2, <1>3
<1>5. QED
  BY <1>2, <1>3, <1>4

(* The same for sequences: all are reached from the empty one by appending. *)
LEMMA SequenceInduction ==
  ASSUME NEW S, NEW T, <<>> \in T, \A s \in Seq(S), e \in S : s \in T => Append(s, e) \in T
  PROVE  Seq(S) \subseteq T
<1> DEFINE good == {n \in Nat : \A s \in Seq(S) : Len(s) = n => s \in T}
<1>1. 0 \in good
  BY EmptySeq
<1>2. ASSUME NEW n \in Nat, n \in good PROVE n + 1 \in good
  <2>1. SUFFICES ASSUME NEW s \in Seq(S), Len(s) = n + 1 PROVE s \in T
    OBVIOUS
  <2>2. /\ Front(s) \in Seq(S) /\ Len(Front(s)) = n /\ s[n + 1] \in S
        /\ s = Append(Front(s), s[n + 1])
    BY <2>1, SMTT(20) DEF Front
  <2>3. Front(s) \in T
    BY <1>2, <2>2
  <2>4. QED
    BY <2>2, <2>3
<1>3. Nat \subseteq good
  <2> HIDE DEF good
  <2>1. QED
    BY <1>1, <1>2, Induction
<1>4. ASSUME NEW s \in Seq(S) PROVE s \in T
  BY <1>3, LenProperties
<1>5. QED
  BY <1>4

-----------------------------------------------------------------------------
(* A recursion over 0..n has a solution.                                   *)

\* f[k] is base after k steps of g.
Repeats(f, g, base, n) == f[0] = base /\ \A k \in 1..n : f[k] = g[<<k, f[k - 1]>>]

LEMMA Repeated ==
  ASSUME NEW S, NEW base \in S, NEW n \in Nat, NEW g \in [(1..n) \X S -> S]
  PROVE  \E f \in [0..n -> S] : Repeats(f, g, base, n)
<1> DEFINE good == {m \in Nat : m =< n => \E f \in [0..n -> S] :
                      f[0] = base /\ \A k \in 1..n : k =< m => f[k] = g[<<k, f[k - 1]>>]}
<1>1. 0 \in good
  <2>1. [k \in 0..n |-> base] \in [0..n -> S] /\ [k \in 0..n |-> base][0] = base
    OBVIOUS
  <2>2. \A k \in 1..n : ~(k =< 0)
    OBVIOUS
  <2>3. QED
    BY <2>1, <2>2
<1>2. ASSUME NEW m \in Nat, m \in good PROVE m + 1 \in good
  <2>1. SUFFICES ASSUME m + 1 =< n
        PROVE \E f \in [0..n -> S] :
                f[0] = base /\ \A k \in 1..n : k =< m + 1 => f[k] = g[<<k, f[k - 1]>>]
    OBVIOUS
  <2>2. PICK f \in [0..n -> S] :
          f[0] = base /\ \A k \in 1..n : k =< m => f[k] = g[<<k, f[k - 1]>>]
    BY <1>2, <2>1
  <2>3. PICK j \in 1..n : j = m + 1 /\ j - 1 \in 0..n /\ j \in 0..n /\ j # 0
    BY <2>1
  <2> DEFINE h == [f EXCEPT ![j] = g[<<j, f[j - 1]>>]]
  <2>4. g[<<j, f[j - 1]>>] \in S
    BY <2>3
  <2>5. /\ h \in [0..n -> S] /\ h[j] = g[<<j, f[j - 1]>>]
        /\ \A k \in 0..n : k # j => h[k] = f[k]
    BY <2>3, <2>4
  <2> HIDE DEF h
  <2>6. h[0] = base
    BY <2>2, <2>3, <2>5
  <2>7. ASSUME NEW k \in 1..n, k =< m + 1 PROVE h[k] = g[<<k, h[k - 1]>>]
    <3>1. k - 1 \in 0..n /\ k - 1 # j /\ k \in 0..n
      BY <2>3, <2>7
    <3>2. h[k - 1] = f[k - 1]
      BY <2>5, <3>1
    <3>3. k # j => k =< m
      BY <2>3, <2>7
    <3>4. QED
      BY <2>2, <2>5, <3>1, <3>2, <3>3
  <2>8. QED
    BY <2>5, <2>6, <2>7
<1>3. n \in good
  <2> HIDE DEF good
  <2>1. Nat \subseteq good
    BY <1>1, <1>2, Induction
  <2>2. QED
    BY <2>1
<1>4. PICK f \in [0..n -> S] :
        f[0] = base /\ \A k \in 1..n : k =< n => f[k] = g[<<k, f[k - 1]>>]
  BY <1>3
<1>5. \A k \in 1..n : k =< n
  OBVIOUS
<1>6. QED
  BY <1>4, <1>5 DEF Repeats

-----------------------------------------------------------------------------
(* Sequences one after the other.                                          *)

\* f[i] is the first i sequences of seqs, one after the other.
Joins(f, seqs, n) == f[1] = seqs[1] /\ \A i \in 2..n : f[i] = f[i - 1] \o seqs[i]

(* The recursion in FlattenSeq has a solution, with sequences for values.  *)
LEMMA FlattenFrom ==
  ASSUME NEW S, NEW seqs \in Seq(Seq(S)), NEW n \in Nat \ {0}, Len(seqs) = n
  PROVE  \E f \in [1..n -> Seq(S)] : FlattenSeq(seqs) = f[n] /\ Joins(f, seqs, n)
<1> DEFINE Next(f, i) == IF i = 1 THEN seqs[i] ELSE f[i - 1] \o seqs[i]
           solved == {k \in Nat : \E f \in [1..n -> Seq(S)] :
                                    \A i \in 1..n : i =< k => f[i] = Next(f, i)}
<1>1. \A i \in 1..n : seqs[i] \in Seq(S)
  BY ElementOfSeq
<1>2. ASSUME NEW f \in [1..n -> Seq(S)], NEW i \in 1..n PROVE Next(f, i) \in Seq(S)
  <2>1. CASE i = 1
    BY <1>1, <2>1
  <2>2. CASE i # 1
    <3>1. i - 1 \in 1..n
      BY <2>2
    <3>2. f[i - 1] \in Seq(S)
      BY <3>1
    <3>3. QED
      BY <1>1, <2>2, <3>2, ConcatProperties
  <2>3. QED
    BY <2>1, <2>2
<1>3. 0 \in solved
  <2>1. [i \in 1..n |-> <<>>] \in [1..n -> Seq(S)]
    BY EmptySeq
  <2>2. QED
    BY <2>1
<1>4. ASSUME NEW k \in Nat, k \in solved PROVE k + 1 \in solved
  <2>1. PICK f \in [1..n -> Seq(S)] : \A i \in 1..n : i =< k => f[i] = Next(f, i)
    BY <1>4
  <2>2. CASE k + 1 \notin 1..n
    <3>1. \A i \in 1..n : i =< k + 1 => i =< k
      BY <2>2
    <3>2. \A i \in 1..n : i =< k + 1 => f[i] = Next(f, i)
      BY <2>1, <3>1
    <3> HIDE DEF Next
    <3>3. QED
      BY <3>2
  <2>3. CASE k + 1 \in 1..n
    <3>1. PICK m \in 1..n : m = k + 1
      BY <2>3
    <3> DEFINE g == [f EXCEPT ![m] = Next(f, m)]
    <3>2. /\ g \in [1..n -> Seq(S)] /\ g[m] = Next(f, m)
          /\ \A j \in 1..n : j # m => g[j] = f[j]
      BY <1>2
    <3> HIDE DEF g
    <3>3. ASSUME NEW i \in 1..n, i =< k + 1 PROVE g[i] = Next(g, i)
      <4>1. i # 1 => i - 1 \in 1..n /\ i - 1 # m
        BY <3>1, <3>3
      <4>2. Next(g, i) = Next(f, i)
        BY <3>2, <4>1
      <4>3. i # m => i =< k
        BY <3>1, <3>3
      <4> HIDE DEF Next
      <4>4. QED
        BY <2>1, <3>2, <4>2, <4>3
    <3> HIDE DEF Next
    <3>4. \E e \in [1..n -> Seq(S)] : \A i \in 1..n : i =< k + 1 => e[i] = Next(e, i)
      BY <3>2, <3>3
    <3>5. k + 1 \in Nat
      OBVIOUS
    <3>6. QED
      BY <3>4, <3>5
  <2>4. QED
    BY <2>2, <2>3
<1>5. PICK f \in [1..n -> Seq(S)] : \A i \in 1..n : f[i] = Next(f, i)
  <2>1. n \in solved
    <3> HIDE DEF solved
    <3>1. Nat \subseteq solved
      BY <1>3, <1>4, Induction
    <3>2. QED
      BY <3>1
  <2>2. QED
    BY <2>1
<1> DEFINE h == CHOOSE g : g = [i \in 1..n |-> Next(g, i)]
<1>6. FlattenSeq(seqs) = h[n]
  BY DEF FlattenSeq
<1>7. h = [i \in 1..n |-> Next(h, i)]
  <2>1. f = [i \in 1..n |-> Next(f, i)]
    BY <1>5
  <2>2. QED
    BY <2>1
<1> HIDE DEF h
<1> DEFINE equal == {k \in Nat : \A i \in 1..n : i =< k => h[i] = f[i]}
<1>8. 0 \in equal
  OBVIOUS
<1>9. ASSUME NEW k \in Nat, k \in equal PROVE k + 1 \in equal
  <2>1. SUFFICES ASSUME NEW i \in 1..n, i =< k + 1 PROVE h[i] = f[i]
    OBVIOUS
  <2>2. i # 1 => i - 1 \in 1..n /\ i - 1 =< k
    BY <2>1
  <2>3. Next(h, i) = Next(f, i)
    BY <1>9, <2>2
  <2>4. h[i] = Next(h, i)
    BY <1>7
  <2> HIDE DEF Next
  <2>5. QED
    BY <1>5, <2>3, <2>4
<1>10. \A i \in 1..n : h[i] = f[i]
  <2>1. n \in equal
    <3> HIDE DEF equal
    <3>1. Nat \subseteq equal
      BY <1>8, <1>9, Induction
    <3>2. QED
      BY <3>1
  <2>2. QED
    BY <2>1
<1>11. f[1] = seqs[1]
  <2>1. 1 \in 1..n
    OBVIOUS
  <2>2. QED
    BY <1>5, <2>1
<1>12. ASSUME NEW i \in 2..n PROVE f[i] = f[i - 1] \o seqs[i]
  <2>1. i \in 1..n /\ i # 1
    OBVIOUS
  <2>2. f[i] = Next(f, i)
    BY <1>5, <2>1
  <2>3. QED
    BY <2>1, <2>2
<1>13. FlattenSeq(seqs) = f[n]
  <2>1. n \in 1..n
    OBVIOUS
  <2>2. QED
    BY <1>6, <1>10, <2>1
<1>14. QED
  BY <1>11, <1>12, <1>13 DEF Joins

LEMMA Flattened ==
  ASSUME NEW S, NEW seqs \in Seq(Seq(S)), NEW s \in Seq(S)
  PROVE  /\ FlattenSeq(<<>>) = <<>> /\ FlattenSeq(seqs) \in Seq(S)
         /\ FlattenSeq(Append(seqs, s)) = FlattenSeq(seqs) \o s
<1>1. FlattenSeq(<<>>) = <<>>
  BY EmptySeq DEF FlattenSeq
<1>2. PICK n \in Nat : n = Len(seqs)
  BY LenProperties
<1> DEFINE more == Append(seqs, s)
<1>3. /\ more \in Seq(Seq(S)) /\ Len(more) = n + 1 /\ more[n + 1] = s
      /\ \A i \in 1..n : more[i] = seqs[i]
  BY <1>2, AppendProperties
<1> HIDE DEF more
<1>4. PICK g \in [1..n + 1 -> Seq(S)] : FlattenSeq(more) = g[n + 1] /\ Joins(g, more, n + 1)
  <2>1. n + 1 \in Nat \ {0}
    OBVIOUS
  <2>2. QED
    BY <1>3, <2>1, FlattenFrom
<1>5. CASE n = 0
  <2>1. seqs = <<>> /\ g[1] = s
    <3>1. seqs = <<>>
      BY <1>2, <1>5, EmptySeq
    <3>2. more[1] = s /\ g[1] = more[1]
      BY <1>3, <1>4, <1>5 DEF Joins
    <3>3. QED
      BY <3>1, <3>2
  <2>2. FlattenSeq(more) = s
    BY <1>4, <1>5, <2>1
  <2>3. <<>> \o s = s /\ <<>> \in Seq(S)
    BY EmptySeq, ConcatEmptySeq
  <2>4. QED
    BY <1>1, <2>1, <2>2, <2>3 DEF more
<1>6. CASE n # 0
  <2>1. PICK f \in [1..n -> Seq(S)] : FlattenSeq(seqs) = f[n] /\ Joins(f, seqs, n)
    <3>1. n \in Nat \ {0}
      BY <1>6
    <3>2. QED
      BY <1>2, <3>1, FlattenFrom
  <2> DEFINE equal == {k \in Nat : \A i \in 1..n : i =< k => f[i] = g[i]}
  <2>2. 0 \in equal
    OBVIOUS
  <2>3. ASSUME NEW k \in Nat, k \in equal PROVE k + 1 \in equal
    <3>1. SUFFICES ASSUME NEW i \in 1..n, i =< k + 1 PROVE f[i] = g[i]
      OBVIOUS
    <3>2. CASE i = 1
      BY <1>3, <1>4, <1>6, <2>1, <3>2 DEF Joins
    <3>3. CASE i # 1
      <4>1. i \in 2..n /\ i \in 2..n + 1 /\ i - 1 \in 1..n /\ i - 1 =< k
        BY <3>1, <3>3
      <4>2. f[i - 1] = g[i - 1] /\ more[i] = seqs[i]
        BY <1>3, <2>3, <4>1
      <4>3. QED
        BY <1>4, <2>1, <4>1, <4>2 DEF Joins
    <3>4. QED
      BY <3>2, <3>3
  <2>4. f[n] = g[n]
    <3>1. n \in equal
      <4> HIDE DEF equal
      <4>1. Nat \subseteq equal
        BY <2>2, <2>3, Induction
      <4>2. QED
        BY <4>1
    <3>2. QED
      BY <1>6, <3>1
  <2>5. g[n + 1] = g[n] \o s
    <3>1. PICK m \in 2..n + 1 : m = n + 1 /\ m - 1 = n
      BY <1>6
    <3>2. g[m] = g[m - 1] \o more[m]
      BY <1>4, <3>1 DEF Joins
    <3>3. QED
      BY <1>3, <3>1, <3>2
  <2>6. f[n] \in Seq(S)
    BY <1>6
  <2>7. QED
    BY <1>1, <1>4, <2>1, <2>4, <2>5, <2>6 DEF more
<1>7. QED
  BY <1>5, <1>6

-----------------------------------------------------------------------------
(* The places of a sequence at which it holds an element of M, and how     *)
(* their number changes with the sequence.                                 *)
Hits(s, M) == {i \in 1..Len(s) : s[i] \in M}

LEMMA HitsFinite ==
  ASSUME NEW S, NEW s \in Seq(S), NEW M
  PROVE  IsFiniteSet(Hits(s, M)) /\ Cardinality(Hits(s, M)) \in Nat
<1>1. IsFiniteSet(1..Len(s))
  BY LenProperties, FS_Interval
<1>2. QED
  BY <1>1, FS_Subset, FS_CardinalityType DEF Hits

(* One place more if the new last element is in M.                         *)
LEMMA HitsAppended ==
  ASSUME NEW S, NEW s \in Seq(S), NEW e \in S, NEW M
  PROVE  Cardinality(Hits(Append(s, e), M))
           = IF e \in M THEN Cardinality(Hits(s, M)) + 1 ELSE Cardinality(Hits(s, M))
<1> DEFINE t == Append(s, e)
           n == Len(s)
<1>1. /\ n \in Nat /\ Len(t) = n + 1 /\ t[n + 1] = e
      /\ \A i \in 1..n : t[i] = s[i]
  BY AppendProperties, LenProperties
<1> HIDE DEF t
<1>2. \A i \in 1..n + 1 : i \in 1..n \/ i = n + 1
  BY <1>1
<1>3. n + 1 \notin 1..n /\ n + 1 \in 1..n + 1 /\ \A i \in 1..n : i \in 1..n + 1
  BY <1>1
<1>4. CASE e \in M
  <2>1. Hits(t, M) = Hits(s, M) \cup {n + 1}
    BY <1>1, <1>2, <1>3, <1>4 DEF Hits
  <2>2. n + 1 \notin Hits(s, M)
    BY <1>3 DEF Hits
  <2>3. QED
    BY <1>4, <2>1, <2>2, HitsFinite, OneMore DEF t
<1>5. CASE e \notin M
  <2>1. Hits(t, M) = Hits(s, M)
    BY <1>1, <1>2, <1>3, <1>5 DEF Hits
  <2>2. QED
    BY <1>5, <2>1 DEF t
<1>6. QED
  BY <1>4, <1>5

(* One place less if the element taken out was in M.                       *)
LEMMA HitsRemoved ==
  ASSUME NEW S, NEW s \in Seq(S), NEW i \in 1..Len(s), NEW M
  PROVE  Cardinality(Hits(RemoveAt(s, i), M))
           = IF s[i] \in M THEN Cardinality(Hits(s, M)) - 1 ELSE Cardinality(Hits(s, M))
<1> DEFINE t == RemoveAt(s, i)
           n == Len(s)
           rest == Hits(s, M) \ {i}
           back == [j \in Hits(t, M) |-> IF j < i THEN j ELSE j + 1]
<1>1. /\ n \in Nat /\ i \in 1..n /\ t \in Seq(S) /\ Len(t) = n - 1
      /\ \A j \in 1..n - 1 : t[j] = IF j < i THEN s[j] ELSE s[j + 1]
  BY RemovedPlaces, LenProperties
<1> HIDE DEF t, n
<1>2. Hits(t, M) = {j \in 1..n - 1 : (IF j < i THEN s[j] ELSE s[j + 1]) \in M}
  BY <1>1 DEF Hits
<1>3. rest = {k \in 1..n : k # i /\ s[k] \in M}
  BY DEF Hits, n
<1> HIDE DEF rest
<1>4. back \in [Hits(t, M) -> rest]
  <2>1. SUFFICES ASSUME NEW j \in Hits(t, M)
                 PROVE  (IF j < i THEN j ELSE j + 1) \in rest
    OBVIOUS
  <2>2. j \in 1..n - 1 /\ (IF j < i THEN s[j] ELSE s[j + 1]) \in M
    BY <1>2
  <2>3. CASE j < i
    BY <1>1, <1>3, <2>2, <2>3
  <2>4. CASE ~(j < i)
    <3>1. j + 1 \in 1..n /\ j + 1 # i
      BY <1>1, <2>2, <2>4
    <3>2. QED
      BY <1>3, <2>2, <2>4, <3>1
  <2>5. QED
    BY <2>3, <2>4
<1>5. \A j, k \in Hits(t, M) : back[j] = back[k] => j = k
  BY <1>1, <1>2
<1>6. ASSUME NEW k \in rest
      PROVE  \E j \in Hits(t, M) : back[j] = k
  <2>1. k \in 1..n /\ k # i /\ s[k] \in M
    BY <1>3
  <2>2. CASE k < i
    <3>1. k \in Hits(t, M)
      BY <1>1, <1>2, <2>1, <2>2
    <3>2. QED
      BY <2>2, <3>1
  <2>3. CASE k > i
    <3>1. k - 1 \in 1..n - 1 /\ ~(k - 1 < i) /\ k - 1 + 1 = k
      BY <1>1, <2>1, <2>3
    <3>2. k - 1 \in Hits(t, M)
      BY <1>2, <2>1, <3>1
    <3>3. QED
      BY <3>1, <3>2
  <2>4. QED
    BY <1>1, <2>1, <2>2, <2>3
<1>7. ExistsBijection(Hits(t, M), rest)
  <2> HIDE DEF back
  <2>1. back \in Bijection(Hits(t, M), rest)
    BY <1>4, <1>5, <1>6 DEF Bijection, Injection, Surjection, IsInjective
  <2>2. QED
    BY <2>1 DEF ExistsBijection
<1>8. Cardinality(Hits(t, M)) = Cardinality(rest)
  BY <1>1, <1>7, HitsFinite, FS_Bijection
<1>9. IsFiniteSet(Hits(s, M)) /\ (s[i] \in M <=> i \in Hits(s, M))
  BY HitsFinite DEF Hits
<1>10. CASE s[i] \in M
  BY <1>8, <1>9, <1>10, OneLess DEF rest, t
<1>11. CASE s[i] \notin M
  <2>1. rest = Hits(s, M)
    BY <1>9, <1>11 DEF rest
  <2>2. QED
    BY <1>8, <1>11, <2>1 DEF t
<1>12. QED
  BY <1>10, <1>11

-----------------------------------------------------------------------------
\* Two pieces put together can be taken apart.
Pieces(u, s, t) ==
  /\ Len(u) = Len(s) + Len(t) /\ Len(s) \in Nat /\ Len(t) \in Nat
  /\ \A i \in 1..Len(s) : u[i] = s[i]
  /\ \A i \in 1..Len(t) : u[Len(s) + i] = t[i]
  /\ SubSeq(u, 1, Len(s)) = s
  /\ SubSeq(u, Len(s) + 1, Len(u)) = t

LEMMA InPieces ==
  ASSUME NEW S, NEW s \in Seq(S), NEW t \in Seq(S)
  PROVE  s \o t \in Seq(S) /\ Pieces(s \o t, s, t)
<1>1. PICK m \in Nat, n \in Nat : m = Len(s) /\ n = Len(t)
  BY LenProperties
<1>2. PICK u \in Seq(S) : u = s \o t /\ Len(u) = m + n
  BY <1>1, ConcatProperties
<1>3. /\ \A i \in 1..m : u[i] = s[i] /\ u[i] \in S
      /\ \A i \in 1..n : u[m + i] = t[i] /\ u[m + i] \in S
  <2>1. \A i \in 1..m + n : u[i] = IF i =< m THEN s[i] ELSE t[i - m]
    BY <1>1, <1>2, ConcatProperties
  <2>2. \A i \in 1..m : i \in 1..m + n /\ i =< m
    OBVIOUS
  <2>3. \A i \in 1..n : m + i \in 1..m + n /\ ~(m + i =< m) /\ m + i - m = i
    OBVIOUS
  <2>4. \A i \in 1..m + n : u[i] \in S
    BY <1>2, ElementOfSeq
  <2>5. \A i \in 1..m : u[i] = s[i] /\ u[i] \in S
    BY <2>1, <2>2, <2>4
  <2>6. \A i \in 1..n : u[m + i] = t[i] /\ u[m + i] \in S
    BY <2>1, <2>3, <2>4
  <2>7. QED
    BY <2>5, <2>6
<1>4. SubSeq(u, 1, m) = s
  <2>1. /\ SubSeq(u, 1, m) \in Seq(S) /\ Len(SubSeq(u, 1, m)) = m
        /\ \A i \in 1..m : SubSeq(u, 1, m)[i] = u[i]
    BY <1>3, SubSeqProperties
  <2>2. QED
    BY <1>1, <1>3, <2>1, SeqEqual
<1>5. SubSeq(u, m + 1, m + n) = t
  <2>1. \A i \in m + 1..m + n : i - m \in 1..n /\ m + (i - m) = i
    OBVIOUS
  <2>2. \A i \in m + 1..m + n : u[i] \in S
    BY <1>3, <2>1
  <2>3. /\ SubSeq(u, m + 1, m + n) \in Seq(S) /\ Len(SubSeq(u, m + 1, m + n)) = n
        /\ \A i \in 1..n : SubSeq(u, m + 1, m + n)[i] = u[m + i]
    <3>1. PICK a \in Int, b \in Int : a = m + 1 /\ b = m + n
      OBVIOUS
    <3>2. b - a + 1 = n /\ (IF a =< b THEN b - a + 1 ELSE 0) = n /\ \A i \in 1..n : a + i - 1 = m + i
      BY <3>1
    <3>3. /\ SubSeq(u, a, b) \in Seq(S) /\ Len(SubSeq(u, a, b)) = (IF a =< b THEN b - a + 1 ELSE 0)
          /\ \A i \in 1..b - a + 1 : SubSeq(u, a, b)[i] = u[a + i - 1]
      BY <2>2, <3>1, SubSeqProperties
    <3>4. QED
      BY <3>1, <3>2, <3>3
  <2>4. QED
    BY <1>1, <1>3, <2>3, SeqEqual
<1>6. Pieces(u, s, t)
  BY <1>1, <1>2, <1>3, <1>4, <1>5 DEF Pieces
<1>7. QED
  BY <1>2, <1>6

\* The characters of two pieces, the first of them and the last.
LEMMA Ends2 ==
  ASSUME NEW S, NEW s \in Seq(S), NEW t \in Seq(S)
  PROVE  /\ ToSet(s \o t) = ToSet(s) \cup ToSet(t)
         /\ s # <<>> => Head(s \o t) = Head(s) /\ s \o t # <<>>
         /\ t # <<>> => Last(s \o t) = Last(t) /\ s \o t # <<>>
         /\ s # <<>> => Head(s) = s[1] /\ Head(s) \in S
         /\ s # <<>> => Last(s) = s[Len(s)] /\ Last(s) \in S /\ Len(s) \in Nat \ {0}
<1>0. PICK m \in Nat, n \in Nat : m = Len(s) /\ n = Len(t)
  BY LenProperties
<1>1. PICK u \in Seq(S) : u = s \o t /\ Len(u) = m + n /\ m = Len(s) /\ n = Len(t)
  BY <1>0, ConcatProperties
<1>2. /\ \A i \in 1..m : u[i] = s[i]
      /\ \A i \in 1..n : u[m + i] = t[i]
  BY <1>1, InPieces DEF Pieces
<1>3. ToSet(u) = ToSet(s) \cup ToSet(t)
  <2>1. ToSet(u) = {u[i] : i \in 1..m + n} /\ ToSet(s) = {s[i] : i \in 1..m} /\ ToSet(t) = {t[i] : i \in 1..n}
    BY <1>1, LenProperties DEF ToSet
  <2>2. \A i \in 1..m + n : i \in 1..m \/ (i - m \in 1..n /\ m + (i - m) = i)
    OBVIOUS
  <2>3. \A i \in 1..m : i \in 1..m + n
    OBVIOUS
  <2>4. \A i \in 1..n : m + i \in 1..m + n
    OBVIOUS
  <2>5. QED
    <3>1. ToSet(u) \subseteq ToSet(s) \cup ToSet(t)
      <4>1. ASSUME NEW i \in 1..m + n PROVE u[i] \in ToSet(s) \cup ToSet(t)
        <5>1. CASE i \in 1..m
          BY <1>2, <2>1, <5>1
        <5>2. CASE i \notin 1..m
          <6>1. PICK j \in 1..n : m + j = i
            BY <2>2, <5>2
          <6>2. u[i] = t[j]
            BY <1>2, <6>1
          <6>3. QED
            BY <2>1, <6>2
        <5>3. QED
          BY <5>1, <5>2
      <4>2. QED
        BY <2>1, <4>1
    <3>2. ToSet(s) \subseteq ToSet(u)
      BY <1>2, <2>1, <2>3
    <3>3. ToSet(t) \subseteq ToSet(u)
      BY <1>2, <2>1, <2>4
    <3>4. QED
      BY <3>1, <3>2, <3>3
<1>4. ASSUME s # <<>> PROVE /\ m # 0 /\ Head(s) = s[1] /\ Head(s) \in S /\ Head(u) = s[1] /\ u # <<>>
                           /\ Last(s) = s[m] /\ Last(s) \in S
  BY <1>1, <1>2, <1>4, EmptySeq, ElementOfSeq DEF Last
<1>5. ASSUME t # <<>> PROVE n # 0 /\ u # <<>> /\ Last(u) = Last(t)
  <2>1. n # 0 /\ m + n # 0 /\ n \in 1..n
    BY <1>1, <1>5, EmptySeq
  <2>2. u # <<>>
    BY <1>1, <2>1, EmptySeq
  <2>3. QED
    BY <1>1, <1>2, <2>1, <2>2 DEF Last
<1>6. QED
  BY <1>1, <1>3, <1>4, <1>5

\* What is least is the minimum.
LEMMA MinIs ==
  ASSUME NEW T \in SUBSET Int, NEW k \in T, \A x \in T : k =< x
  PROVE  Min(T) = k
<1>1. Min(T) \in T /\ \A y \in T : Min(T) =< y
  BY DEF Min
<1>2. Min(T) \in Int /\ k \in Int /\ Min(T) =< k /\ k =< Min(T)
  BY <1>1
<1>3. QED
  BY <1>2

\* The elements of a sequence.
LEMMA OfSet ==
  ASSUME NEW S, NEW s \in Seq(S)
  PROVE  ToSet(s) \subseteq S /\ s \in Seq(ToSet(s))
<1>1. Len(s) \in Nat /\ DOMAIN s = 1..Len(s) /\ s = [i \in 1..Len(s) |-> s[i]]
  BY LenProperties
<1>2. \A i \in 1..Len(s) : s[i] \in ToSet(s)
  BY <1>1 DEF ToSet
<1>3. s \in [1..Len(s) -> ToSet(s)]
  BY <1>1, <1>2
<1>4. s \in Seq(ToSet(s))
  BY <1>1, <1>3, SeqDef
<1>5. QED
  BY <1>1, <1>4, ElementOfSeq DEF ToSet

\* A sequence over a set is one over a larger set.
LEMMA TypedIn ==
  ASSUME NEW S, NEW T, S \subseteq T, NEW s \in Seq(S)
  PROVE  s \in Seq(T)
<1>1. s = [i \in 1..Len(s) |-> s[i]] /\ Len(s) \in Nat /\ \A i \in 1..Len(s) : s[i] \in T
  BY LenProperties, ElementOfSeq
<1>2. s \in [1..Len(s) -> T]
  BY <1>1
<1>3. QED
  BY <1>1, <1>2, SeqDef

\* An element put behind one other.
LEMMA SecondItem ==
  ASSUME NEW a, NEW b
  PROVE  Append(<<a>>, b) = <<a, b>>
<1> DEFINE S == {a, b}
<1>1. <<a>> \in Seq(S) /\ Len(<<a>>) = 1 /\ <<a>>[1] = a /\ <<a, b>> \in Seq(S)
  OBVIOUS
<1>2. Len(<<a, b>>) = 2 /\ <<a, b>>[1] = a /\ <<a, b>>[2] = b
  OBVIOUS
<1>3. PICK u \in Seq(S) : u = Append(<<a>>, b) /\ Len(u) = 2 /\ u[1] = a /\ u[2] = b
  <2>1. PICK v \in Seq(S) : v = <<a>> /\ Len(v) = 1 /\ v[1] = a
    BY <1>1
  <2>2. Append(v, b) \in Seq(S) /\ Len(Append(v, b)) = 2 /\ Append(v, b)[1] = a /\ Append(v, b)[2] = b
    BY <2>1, AppendProperties
  <2>3. QED
    BY <2>1, <2>2
<1>4. \A i \in 1..2 : i = 1 \/ i = 2
  OBVIOUS
<1>5. QED
  BY <1>1, <1>2, <1>3, <1>4, SeqEqual

\* The characters of a text and of the one behind it.
LEMMA Glued ==
  ASSUME NEW S, NEW s \in Seq(S), NEW t \in Seq(S), NEW m \in Nat, NEW k \in Nat,
         m = Len(s), k = Len(t)
  PROVE  /\ s \o t \in Seq(S) /\ Len(s \o t) = m + k
         /\ \A i \in 1..m + k : (s \o t)[i] = IF i =< m THEN s[i] ELSE t[i - m]
BY ConcatProperties

\* What is most is the maximum.
LEMMA MaxIs ==
  ASSUME NEW T \in SUBSET Int, NEW k \in T, \A x \in T : x =< k
  PROVE  Max(T) = k
<1>1. Max(T) \in T /\ \A y \in T : Max(T) >= y
  BY DEF Max
<1>2. Max(T) \in Int /\ k \in Int /\ Max(T) =< k /\ k =< Max(T)
  BY <1>1
<1>3. QED
  BY <1>2

\* Induction over 0..n.
LEMMA UpTo ==
  ASSUME NEW n \in Nat, NEW G, 0 \in G, \A k \in 1..n : k - 1 \in G => k \in G
  PROVE  0..n \subseteq G
<1> DEFINE good == {k \in Nat : k =< n => k \in G}
<1>1. 0 \in good
  OBVIOUS
<1>2. ASSUME NEW k \in Nat, k \in good PROVE k + 1 \in good
  <2>1. SUFFICES ASSUME k + 1 =< n PROVE k + 1 \in G
    OBVIOUS
  <2>2. k + 1 \in 1..n /\ (k + 1) - 1 = k /\ k =< n
    BY <2>1
  <2>3. k \in G
    BY <1>2, <2>2
  <2>4. QED
    BY <2>2, <2>3
<1>3. Nat \subseteq good
  <2> HIDE DEF good
  <2>1. QED
    BY <1>1, <1>2, Induction
<1>4. QED
  BY <1>3

\* A text with one more character.
LEMMA OneBehind ==
  ASSUME NEW S, NEW x \in Seq(S), NEW c \in S
  PROVE  /\ x \o <<c>> \in Seq(S) /\ Len(x \o <<c>>) = Len(x) + 1 /\ Len(x) \in Nat
         /\ Front(x \o <<c>>) = x /\ Last(x \o <<c>>) = c
<1>1. PICK y \in Seq(S) : y = <<c>> /\ Len(y) = 1 /\ y[1] = c /\ y # <<>>
  <2>1. <<c>> \in Seq(S) /\ Len(<<c>>) = 1 /\ <<c>>[1] = c /\ <<c>> # <<>>
    OBVIOUS
  <2>2. QED
    BY <2>1
<1>2. x \o y \in Seq(S) /\ Pieces(x \o y, x, y)
  BY InPieces
<1>3. Last(x \o y) = Last(y) /\ Last(y) = c
  BY <1>1, Ends2 DEF Last
<1>4. PICK l \in Nat : l = Len(x)
  BY LenProperties
<1>5. Len(x \o y) = l + 1 /\ SubSeq(x \o y, 1, l) = x
  BY <1>1, <1>2, <1>4 DEF Pieces
<1>6. l + 1 - 1 = l
  OBVIOUS
<1>7. Front(x \o y) = x
  BY <1>5, <1>6 DEF Front
<1>8. QED
  BY <1>1, <1>2, <1>3, <1>4, <1>5, <1>7

\* The first and the rest of two elements.
LEMMA TwoWritten ==
  ASSUME NEW a, NEW b
  PROVE  (<<a>> \o <<b>>)[1] = a /\ Tail(<<a>> \o <<b>>) = <<b>>
<1>1. <<a>> \o <<b>> = <<a, b>>
  <2>1. <<a>> \in Seq({a, b}) /\ b \in {a, b}
    OBVIOUS
  <2>2. Append(<<a>>, b) = <<a>> \o <<b>>
    BY <2>1, AppendIsConcat
  <2>3. QED
    BY <2>2, SecondItem
<1>2. <<a, b>>[1] = a /\ Tail(<<a, b>>) = <<b>>
  OBVIOUS
<1>3. QED
  BY <1>1, <1>2
=============================================================================
