---------------------------- MODULE SiftingProofs ----------------------------
(***************************************************************************)
(* What Sift returns, for sequences of any length.  The proofs by induction *)
(* take the least number for which a claim fails: that there is one is what *)
(* the library proves of well-founded relations.                           *)
(***************************************************************************)
EXTENDS Sifting, Integers, SequenceTheorems, WellFoundedInduction, TLAPS

\* A set of natural numbers has a least element, if it has any.
LEMMA LeastNumber ==
    ASSUME NEW T, T \subseteq Nat, T # {}
    PROVE  \E m \in T : \A k \in T : m <= k
<1> DEFINE R == OpToRel(<, Nat)
<1>1. IsWellFoundedOn(R, Nat)
  BY NatLessThanWellFounded
<1>2. \A x, y \in Nat : <<x, y>> \in R <=> x < y
  BY DEF OpToRel
<1> HIDE DEF R
<1>3. PICK m \in T : \A k \in T : ~(<<k, m>> \in R)
  BY <1>1, WFMin
<1>4. ASSUME NEW k \in T
      PROVE  m <= k
  <2>1. ~(k < m)
    BY <1>2, <1>3
  <2> QED
    BY <2>1
<1> QED
  BY <1>4

-----------------------------------------------------------------------------
\* One step of the recursion: what is sifted from the first n elements, given
\* what is sifted from fewer.
Step(s, S, f, n) ==
    IF n = 0 THEN <<>>
    ELSE IF s[n] \in S THEN Append(f[n - 1], s[n]) ELSE f[n - 1]

\* f is what the recursion defines on the first n elements.
Follows(s, S, f, n) == f = [i \in 0 .. n |-> Step(s, S, f, i)]

\* The recursion defines a function, however long the sequence.
LEMMA SiftedExists ==
    ASSUME NEW s, NEW S, NEW n \in Nat
    PROVE  \E f : Follows(s, S, f, n)
<1> DEFINE T == {k \in Nat : ~\E f : Follows(s, S, f, k)}
<1>1. SUFFICES ASSUME T # {}
               PROVE  FALSE
  OBVIOUS
<1>2. PICK m \in T : \A k \in T : m <= k
  BY <1>1, LeastNumber
<1>3. CASE m = 0
  <2> DEFINE f == [i \in 0 .. 0 |-> <<>>]
  <2>1. f = [i \in 0 .. 0 |-> Step(s, S, f, i)]
    BY DEF Step
  <2> QED
    BY <1>2, <1>3, <2>1 DEF Follows
<1>4. CASE m # 0
  <2>1. m - 1 \in Nat /\ m - 1 \notin T
    BY <1>2, <1>4
  <2>2. PICK f : f = [i \in 0 .. m - 1 |-> Step(s, S, f, i)]
    BY <2>1 DEF Follows
  <2> DEFINE g == [i \in 0 .. m |-> IF i = m THEN Step(s, S, f, m) ELSE f[i]]
  <2>3. ASSUME NEW i \in 0 .. m
        PROVE  g[i] = Step(s, S, g, i)
    <3>1. i # 0 => g[i - 1] = f[i - 1]
      OBVIOUS
    <3>2. Step(s, S, g, i) = Step(s, S, f, i)
      BY <3>1 DEF Step
    <3>3. i # m => f[i] = Step(s, S, f, i)
      BY <2>2
    <3> QED
      BY <3>2, <3>3
  <2>4. g = [i \in 0 .. m |-> g[i]]
    OBVIOUS
  <2> HIDE DEF g
  <2>5. g = [i \in 0 .. m |-> Step(s, S, g, i)]
    BY <2>3, <2>4
  <2> QED
    BY <1>2, <2>5 DEF Follows
<1> QED
  BY <1>3, <1>4

\* Where two sequences agree, and the sets agree on them, what is sifted agrees.
LEMMA SiftedAgree ==
    ASSUME NEW s, NEW t, NEW S, NEW U, NEW f, NEW g, NEW n \in Nat, NEW m \in Nat, n <= m,
           Follows(s, S, f, n), Follows(t, U, g, m),
           \A i \in 1 .. n : s[i] = t[i] /\ (s[i] \in S <=> t[i] \in U)
    PROVE  f[n] = g[n]
<1> DEFINE T == {k \in 0 .. n : f[k] # g[k]}
<1>1. SUFFICES ASSUME T # {}
               PROVE  FALSE
  OBVIOUS
<1>2. PICK k \in T : \A j \in T : k <= j
  <2>1. T \subseteq Nat
    OBVIOUS
  <2> HIDE DEF T
  <2> QED
    BY <1>1, <2>1, LeastNumber
<1>3. k \in 0 .. n /\ f[k] = Step(s, S, f, k) /\ g[k] = Step(t, U, g, k)
  <2>1. k \in 0 .. n /\ k \in 0 .. m
    OBVIOUS
  <2>2. f = [i \in 0 .. n |-> Step(s, S, f, i)] /\ g = [i \in 0 .. m |-> Step(t, U, g, i)]
    BY DEF Follows
  <2>3. f[k] = Step(s, S, f, k)
    BY ONLY <2>1, <2>2
  <2> QED
    BY ONLY <2>1, <2>2, <2>3
<1>4. CASE k = 0
  BY <1>2, <1>3, <1>4 DEF Step
<1>5. CASE k # 0
  <2>1. k - 1 \in 0 .. n /\ k - 1 \notin T
    BY <1>2, <1>3, <1>5
  <2> QED
    BY <1>2, <1>3, <1>5, <2>1 DEF Step
<1> QED
  BY <1>4, <1>5

\* The value of Sift is the last of the function that the recursion defines.
LEMMA SiftDefined ==
    ASSUME NEW s, NEW S, Len(s) \in Nat
    PROVE  \E f : Follows(s, S, f, Len(s)) /\ Sift(s, S) = f[Len(s)]
<1> DEFINE f == CHOOSE f : f = [n \in 0 .. Len(s) |->
                    IF n = 0 THEN <<>>
                    ELSE IF s[n] \in S THEN Append(f[n - 1], s[n]) ELSE f[n - 1]]
<1>1. Sift(s, S) = f[Len(s)]
  BY DEF Sift
<1>2. \E g : g = [n \in 0 .. Len(s) |->
                    IF n = 0 THEN <<>>
                    ELSE IF s[n] \in S THEN Append(g[n - 1], s[n]) ELSE g[n - 1]]
  <2>1. PICK g : Follows(s, S, g, Len(s))
    BY SiftedExists
  <2>2. g = [n \in 0 .. Len(s) |-> Step(s, S, g, n)]
    BY <2>1 DEF Follows
  <2>3. g = [n \in 0 .. Len(s) |->
                    IF n = 0 THEN <<>>
                    ELSE IF s[n] \in S THEN Append(g[n - 1], s[n]) ELSE g[n - 1]]
    BY <2>2 DEF Step
  <2> QED
    BY <2>3
<1>3. f = [n \in 0 .. Len(s) |->
                    IF n = 0 THEN <<>>
                    ELSE IF s[n] \in S THEN Append(f[n - 1], s[n]) ELSE f[n - 1]]
  BY <1>2
<1> HIDE DEF f
<1> QED
  BY <1>1, <1>3 DEF Follows, Step

-----------------------------------------------------------------------------
\* Nothing is sifted from nothing.
LEMMA SiftEmpty ==
    ASSUME NEW S
    PROVE  Sift(<<>>, S) = <<>>
<1>1. Len(<<>>) = 0
  OBVIOUS
<1>2. PICK f : Follows(<<>>, S, f, 0) /\ Sift(<<>>, S) = f[0]
  BY <1>1, SiftDefined
<1>3. f[0] = Step(<<>>, S, f, 0)
  BY <1>2 DEF Follows
<1> QED
  BY <1>2, <1>3 DEF Step

\* One more element is kept if it is in the set.
LEMMA SiftAppend ==
    ASSUME NEW A, NEW s \in Seq(A), NEW e \in A, NEW S
    PROVE  Sift(Append(s, e), S) = IF e \in S THEN Append(Sift(s, S), e) ELSE Sift(s, S)
<1> DEFINE t == Append(s, e)
           n == Len(s)
<1>1. n \in Nat /\ Len(t) = n + 1 /\ t[n + 1] = e /\ \A i \in 1 .. n : s[i] = t[i]
  OBVIOUS
<1> HIDE DEF t, n
<1>2. PICK f : Follows(s, S, f, n) /\ Sift(s, S) = f[n]
  BY <1>1, SiftDefined DEF n
<1>3. PICK g : Follows(t, S, g, n + 1) /\ Sift(t, S) = g[n + 1]
  BY <1>1, SiftDefined
<1>4. f[n] = g[n]
  BY <1>1, <1>2, <1>3, SiftedAgree
<1>5. g[n + 1] = Step(t, S, g, n + 1)
  <2>1. n + 1 \in 0 .. n + 1
    BY <1>1
  <2>2. g = [i \in 0 .. n + 1 |-> Step(t, S, g, i)]
    BY <1>3 DEF Follows
  <2> QED
    BY ONLY <2>1, <2>2
<1>6. n + 1 # 0 /\ (n + 1) - 1 = n
  BY <1>1
<1> QED
  BY <1>1, <1>2, <1>3, <1>4, <1>5, <1>6 DEF Step, t

\* What is sifted is a sequence of elements of the set, and not longer.
LEMMA SiftType ==
    ASSUME NEW A, NEW s \in Seq(A), NEW S
    PROVE  Sift(s, S) \in Seq(A \intersect S) /\ Len(Sift(s, S)) <= Len(s)
<1> DEFINE n == Len(s)
<1>1. n \in Nat /\ \A i \in 1 .. n : s[i] \in A
  OBVIOUS
<1> HIDE DEF n
<1>2. PICK f : Follows(s, S, f, n) /\ Sift(s, S) = f[n]
  BY <1>1, SiftDefined DEF n
<1> DEFINE T == {k \in 0 .. n : ~(f[k] \in Seq(A \intersect S) /\ Len(f[k]) <= k)}
<1>3. SUFFICES ASSUME T # {}
               PROVE  FALSE
  BY <1>1, <1>2 DEF n
<1>4. PICK k \in T : \A j \in T : k <= j
  <2>1. T \subseteq Nat
    BY <1>1
  <2> HIDE DEF T
  <2> QED
    BY <1>3, <2>1, LeastNumber
<1>5. f[k] = Step(s, S, f, k)
  <2>1. k \in 0 .. n
    OBVIOUS
  <2>2. f = [i \in 0 .. n |-> Step(s, S, f, i)]
    BY <1>2 DEF Follows
  <2> QED
    BY ONLY <2>1, <2>2
<1>6. CASE k = 0
  <2>1. f[k] = <<>>
    BY <1>5, <1>6 DEF Step
  <2>2. <<>> \in Seq(A \intersect S) /\ Len(<<>>) = 0
    OBVIOUS
  <2>3. f[k] \in Seq(A \intersect S) /\ Len(f[k]) = 0
    BY <2>1, <2>2, Zenon
  <2> QED
    BY <1>6, <2>3
<1>7. CASE k # 0
  <2>1. k - 1 \in 0 .. n /\ k - 1 \notin T
    BY <1>1, <1>4, <1>7
  <2>2. f[k - 1] \in Seq(A \intersect S) /\ Len(f[k - 1]) <= k - 1
    BY <2>1
  <2>3. s[k] \in A
    BY <1>1, <1>7
  <2>4. CASE s[k] \in S
    <3>1. f[k] = Append(f[k - 1], s[k])
      BY <1>5, <1>7, <2>4 DEF Step
    <3>2. f[k] \in Seq(A \intersect S) /\ Len(f[k]) = Len(f[k - 1]) + 1
      BY <2>2, <2>3, <2>4, <3>1
    <3> QED
      BY <1>1, <2>2, <3>2
  <2>5. CASE s[k] \notin S
    <3>1. f[k] = f[k - 1]
      BY <1>5, <1>7, <2>5 DEF Step
    <3> QED
      BY <1>1, <2>2, <3>1
  <2> QED
    BY <2>4, <2>5
<1> QED
  BY <1>6, <1>7

\* Sets that agree on the elements of a sequence sift the same from it.
LEMMA SiftSame ==
    ASSUME NEW A, NEW s \in Seq(A), NEW S, NEW U, A \intersect S = A \intersect U
    PROVE  Sift(s, S) = Sift(s, U)
<1>1. Len(s) \in Nat /\ \A i \in 1 .. Len(s) : s[i] \in S <=> s[i] \in U
  OBVIOUS
<1>2. PICK f : Follows(s, S, f, Len(s)) /\ Sift(s, S) = f[Len(s)]
  BY <1>1, SiftDefined
<1>3. PICK g : Follows(s, U, g, Len(s)) /\ Sift(s, U) = g[Len(s)]
  BY <1>1, SiftDefined
<1> QED
  BY <1>1, <1>2, <1>3, SiftedAgree

\* Sifting a concatenation.
LEMMA SiftConcat ==
    ASSUME NEW A, NEW s \in Seq(A), NEW t \in Seq(A), NEW S
    PROVE  Sift(s \o t, S) = Sift(s, S) \o Sift(t, S)
<1> DEFINE P(n) == Sift(s \o SubSeq(t, 1, n), S) = Sift(s, S) \o Sift(SubSeq(t, 1, n), S)
           T == {n \in 0 .. Len(t) : ~P(n)}
<1>1. Sift(s, S) \in Seq(A)
  <2>1. Sift(s, S) \in Seq(A \intersect S)
    BY SiftType
  <2> QED
    BY <2>1
<1>2. P(0)
  <2>1. SubSeq(t, 1, 0) = <<>> /\ s \o <<>> = s
    OBVIOUS
  <2>2. Sift(s, S) \o <<>> = Sift(s, S)
    BY <1>1
  <2> QED
    BY <2>1, <2>2, SiftEmpty
<1>3. ASSUME NEW n \in 1 .. Len(t), P(n - 1)
      PROVE  P(n)
  <2> DEFINE u == SubSeq(t, 1, n - 1)
             e == t[n]
  <2>1. e \in A /\ u \in Seq(A) /\ s \o u \in Seq(A)
    OBVIOUS
  <2>2. SubSeq(t, 1, n) = Append(u, e)
    OBVIOUS
  <2>3. s \o SubSeq(t, 1, n) = Append(s \o u, e)
    OBVIOUS
  <2> HIDE DEF u, e
  <2>4. Sift(u, S) \in Seq(A)
    <3>1. Sift(u, S) \in Seq(A \intersect S)
      BY <2>1, SiftType
    <3> QED
      BY <3>1
  <2>5. Append(Sift(s, S) \o Sift(u, S), e) = Sift(s, S) \o Append(Sift(u, S), e)
    <3> DEFINE a == Sift(s, S)
               b == Sift(u, S)
    <3>1. a \in Seq(A) /\ b \in Seq(A) /\ e \in A
      BY <1>1, <2>1, <2>4
    <3> HIDE DEF a, b
    <3> DEFINE x == Append(a \o b, e)
               y == a \o Append(b, e)
    <3>2. /\ x \in Seq(A) /\ y \in Seq(A)
          /\ Len(x) = Len(y)
          /\ \A i \in 1 .. Len(x) : x[i] = y[i]
      BY ONLY <3>1
    <3> HIDE DEF x, y
    <3>3. x = y
      BY <3>2, SeqEqual
    <3> QED
      BY <3>3 DEF a, b, x, y
  <2>6. Sift(s \o u, S) = Sift(s, S) \o Sift(u, S)
    BY <1>3 DEF u
  <2>7. /\ Sift(Append(s \o u, e), S) = IF e \in S THEN Append(Sift(s \o u, S), e)
                                           ELSE Sift(s \o u, S)
        /\ Sift(Append(u, e), S) = IF e \in S THEN Append(Sift(u, S), e) ELSE Sift(u, S)
    BY <2>1, SiftAppend
  <2>8. Sift(Append(s \o u, e), S) = Sift(s, S) \o Sift(Append(u, e), S)
    BY <2>5, <2>6, <2>7
  <2> QED
    BY <2>2, <2>3, <2>8
<1> HIDE DEF P
<1>4. T = {}
  <2>1. SUFFICES ASSUME T # {}
                 PROVE  FALSE
    OBVIOUS
  <2>2. PICK n \in T : \A k \in T : n <= k
    <3>1. T \subseteq Nat
      OBVIOUS
    <3> HIDE DEF T
    <3> QED
      BY <2>1, <3>1, LeastNumber
  <2>3. n \in 1 .. Len(t) /\ n - 1 \in 0 .. Len(t) /\ n - 1 \notin T
    BY <1>2, <2>2
  <2> QED
    BY <1>3, <2>3
<1>5. Len(t) \in 0 .. Len(t) /\ SubSeq(t, 1, Len(t)) = t
  OBVIOUS
<1> QED
  BY <1>4, <1>5 DEF P

\* Sifting a sequence from its head on.
LEMMA SiftHead ==
    ASSUME NEW A, NEW s \in Seq(A), s # <<>>, NEW S
    PROVE  Sift(s, S) = IF Head(s) \in S THEN <<Head(s)>> \o Sift(Tail(s), S)
                                         ELSE Sift(Tail(s), S)
<1> DEFINE h == Head(s)
           r == Tail(s)
<1>1. h \in A /\ r \in Seq(A) /\ <<h>> \in Seq(A) /\ s = <<h>> \o r
  OBVIOUS
<1> HIDE DEF h, r
<1>2. Sift(s, S) = Sift(<<h>>, S) \o Sift(r, S)
  <2> DEFINE w == <<h>>
  <2>1. w \in Seq(A) /\ s = w \o r
    BY <1>1
  <2> HIDE DEF w
  <2>2. Sift(w \o r, S) = Sift(w, S) \o Sift(r, S)
    BY <1>1, <2>1, SiftConcat
  <2> QED
    BY <2>1, <2>2 DEF w
<1>3. Sift(<<h>>, S) = IF h \in S THEN <<h>> ELSE <<>>
  <2>1. <<>> \in Seq(A) /\ <<h>> = Append(<<>>, h)
    OBVIOUS
  <2>2. Sift(Append(<<>>, h), S) = IF h \in S THEN Append(Sift(<<>>, S), h) ELSE Sift(<<>>, S)
    BY <1>1, <2>1, SiftAppend
  <2> QED
    BY <2>1, <2>2, SiftEmpty
<1>4. Sift(r, S) \in Seq(A \intersect S)
  BY <1>1, SiftType
<1>5. <<>> \o Sift(r, S) = Sift(r, S)
  BY <1>4
<1> QED
  BY <1>2, <1>3, <1>5 DEF h, r

\* A sequence of elements of the set is kept as it is.
LEMMA SiftAll ==
    ASSUME NEW A, NEW S, A \subseteq S, NEW s \in Seq(A)
    PROVE  Sift(s, S) = s
<1> DEFINE T == {n \in 0 .. Len(s) : Sift(SubSeq(s, 1, n), S) # SubSeq(s, 1, n)}
<1>1. 0 \notin T
  <2>1. SubSeq(s, 1, 0) = <<>>
    OBVIOUS
  <2> QED
    BY <2>1, SiftEmpty
<1>2. ASSUME NEW n \in 1 .. Len(s), n - 1 \notin T
      PROVE  n \notin T
  <2> DEFINE u == SubSeq(s, 1, n - 1)
             e == s[n]
  <2>1. u \in Seq(A) /\ e \in A /\ SubSeq(s, 1, n) = Append(u, e) /\ Sift(u, S) = u
    BY <1>2
  <2> HIDE DEF u, e
  <2>2. Sift(Append(u, e), S) = Append(u, e)
    <3>1. e \in S
      BY <2>1
    <3> QED
      BY <2>1, <3>1, SiftAppend
  <2> QED
    BY <2>1, <2>2
<1>3. T \subseteq Nat /\ \A n \in T : n \in 0 .. Len(s)
  OBVIOUS
<1>4. Len(s) \in Nat /\ (Len(s) \notin T => Sift(s, S) = s)
  <2>1. Len(s) \in 0 .. Len(s) /\ SubSeq(s, 1, Len(s)) = s
    OBVIOUS
  <2>2. CASE Len(s) \in T
    BY <2>1, <2>2
  <2>3. CASE Len(s) \notin T
    <3> DEFINE u == SubSeq(s, 1, Len(s))
    <3>1. u = s /\ Sift(u, S) = u
      BY <2>1, <2>3
    <3> HIDE DEF u
    <3> QED
      BY <2>1, <3>1
  <2> QED
    BY <2>2, <2>3
<1> HIDE DEF T
<1>5. T = {}
  <2>1. SUFFICES ASSUME T # {}
                 PROVE  FALSE
    OBVIOUS
  <2>2. PICK n \in T : \A k \in T : n <= k
    BY <1>3, <2>1, LeastNumber
  <2>3. n \in 1 .. Len(s) /\ n - 1 \notin T
    BY <1>1, <1>3, <1>4, <2>2
  <2> QED
    BY <1>2, <2>3
<1> QED
  BY <1>4, <1>5
\* How many elements are kept, when one is appended ...
LEMMA SiftAppendLen ==
    ASSUME NEW A, NEW s \in Seq(A), NEW e \in A, NEW S
    PROVE  /\ Len(Sift(s, S)) \in Nat
           /\ Len(Sift(Append(s, e), S)) = Len(Sift(s, S)) + IF e \in S THEN 1 ELSE 0
<1> DEFINE f == Sift(s, S)
<1>1. f \in Seq(A \intersect S)
  BY SiftType
<1>2. Sift(Append(s, e), S) = IF e \in S THEN Append(f, e) ELSE f
  BY SiftAppend
<1> HIDE DEF f
<1>3. Len(f) \in Nat /\ (e \in S => Len(Append(f, e)) = Len(f) + 1)
  BY <1>1
<1> QED
  BY <1>2, <1>3 DEF f

\* ... and when the first one is taken away.
LEMMA SiftTailLen ==
    ASSUME NEW A, NEW s \in Seq(A), s # <<>>, NEW S
    PROVE  /\ Len(Sift(Tail(s), S)) \in Nat
           /\ Len(Sift(s, S)) = Len(Sift(Tail(s), S)) + IF Head(s) \in S THEN 1 ELSE 0
<1> DEFINE f == Sift(Tail(s), S)
           h == Head(s)
<1>1. Tail(s) \in Seq(A) /\ h \in A
  OBVIOUS
<1>2. f \in Seq(A \intersect S)
  BY <1>1, SiftType
<1>3. Sift(s, S) = IF h \in S THEN <<h>> \o f ELSE f
  BY SiftHead
<1> HIDE DEF f, h
<1>4. Len(f) \in Nat
  BY <1>2
<1>5. h \in S => Len(<<h>> \o f) = Len(f) + 1
  <2>1. h \in S => h \in A \intersect S
    BY <1>1
  <2>2. h \in A \intersect S => <<h>> \in Seq(A \intersect S)
    OBVIOUS
  <2> DEFINE w == <<h>>
  <2>3. Len(w) = 1
    OBVIOUS
  <2> HIDE DEF w
  <2>4. w \in Seq(A \intersect S) => Len(w \o f) = Len(w) + Len(f)
    BY <1>2
  <2> QED
    BY <1>4, <2>1, <2>2, <2>3, <2>4 DEF w
<1> QED
  BY <1>3, <1>4, <1>5 DEF f, h
=============================================================================
