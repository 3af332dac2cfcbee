--------------------------- MODULE SelectionProofs ---------------------------
(***************************************************************************)
(* What Kept keeps, for any list and any set: proved by induction over the *)
(* list, which itself is proved from the order of the natural numbers.     *)
(***************************************************************************)
EXTENDS Selection, SequencesExt, SequenceTheorems, WellFoundedInduction, TLAPS

-----------------------------------------------------------------------------
(***************************************************************************)
(* Induction.                                                              *)
(***************************************************************************)
LEMMA LeastNatural ==
  ASSUME NEW T \in SUBSET Nat, T # {}
  PROVE  \E x \in T : \A y \in T : x <= y
<1>1. PICK x \in T : \A y \in T : <<y, x>> \notin OpToRel(<, Nat)
  BY WFMin, NatLessThanWellFounded, Zenon
<1>2. \A y \in T : ~(y < x)
  BY <1>1, Zenon DEF OpToRel
<1> QED
  BY <1>2

\* A set of numbers that has 0 and, with each number, the next, has all.
LEMMA CountingUp ==
  ASSUME NEW S, S \subseteq Nat, 0 \in S, \A n \in S : n + 1 \in S
  PROVE  S = Nat
<1> SUFFICES ASSUME S # Nat PROVE FALSE
  OBVIOUS
<1>1. PICK x \in Nat \ S : \A y \in Nat \ S : x <= y
  BY LeastNatural
<1>2. x # 0 /\ x - 1 \in S
  BY <1>1
<1> QED
  BY <1>1, <1>2

\* A set of lists that has the empty one and, with each list, every list one
\* longer, has all.
LEMMA GrowingLists ==
  ASSUME NEW T, NEW Q, Q \subseteq Seq(T), <<>> \in Q,
         \A s \in Q, e \in T : Append(s, e) \in Q
  PROVE  Q = Seq(T)
<1> DEFINE S == {n \in Nat : \A s \in Seq(T) : Len(s) = n => s \in Q}
<1>1. 0 \in S
  <2> SUFFICES ASSUME NEW s \in Seq(T), Len(s) = 0 PROVE s \in Q
    OBVIOUS
  <2> QED
    BY EmptySeq
<1>2. ASSUME NEW n \in S PROVE n + 1 \in S
  <2> SUFFICES ASSUME NEW s \in Seq(T), Len(s) = n + 1 PROVE s \in Q
    OBVIOUS
  <2> DEFINE u == SubSeq(s, 1, n)
  <2>1. u \in Seq(T) /\ Len(u) = n /\ s[n + 1] \in T
    BY SubSeqProperties
  <2>2. s = Append(u, s[n + 1])
    <3>1. u \in Seq(T) /\ Append(u, s[n + 1]) \in Seq(T) /\ Len(Append(u, s[n + 1])) = n + 1
      BY <2>1
    <3>2. \A i \in 1 .. Len(s) : s[i] = Append(u, s[n + 1])[i]
      BY <2>1
    <3> HIDE DEF u
    <3> QED
      BY <3>1, <3>2, SeqEqual
  <2> QED
    BY <2>1, <2>2
<1>3. S = Nat
  <2> HIDE DEF S
  <2> QED
    BY <1>1, <1>2, CountingUp DEF S
<1> QED
  BY <1>3, LenProperties

-----------------------------------------------------------------------------
(***************************************************************************)
(* The recursion of Kept.                                                  *)
(***************************************************************************)

\* What has been kept after n entries, from what was kept before the n-th.
KeptAfter(s, S, kept, n) ==
  IF n = 0 THEN <<>>
  ELSE IF s[n] \in S THEN Append(kept[n - 1], s[n]) ELSE kept[n - 1]

IsWalk(kept, s, S) == kept = [n \in 0 .. Len(s) |-> KeptAfter(s, S, kept, n)]

LEMMA WalkStep ==
  ASSUME NEW S, NEW s, NEW kept, IsWalk(kept, s, S), NEW n \in 0 .. Len(s)
  PROVE  kept[n] = KeptAfter(s, S, kept, n)
BY DEF IsWalk

LEMMA WalkGrows ==
  ASSUME NEW T, NEW S, NEW s \in Seq(T), NEW e \in T, NEW kept, IsWalk(kept, s, S)
  PROVE  \E longer : IsWalk(longer, Append(s, e), S)
<1> DEFINE t == Append(s, e)
           longer == [n \in 0 .. Len(t) |-> IF n <= Len(s) THEN kept[n]
                                            ELSE KeptAfter(t, S, kept, n)]
<1>1. Len(s) \in Nat /\ Len(t) = Len(s) + 1 /\ \A n \in 1 .. Len(s) : t[n] = s[n]
  OBVIOUS
<1> HIDE DEF t
<1>2. \A n \in 0 .. Len(s) : kept[n] = KeptAfter(s, S, kept, n)
  BY DEF IsWalk
<1>3. ASSUME NEW n \in 0 .. Len(t) PROVE longer[n] = KeptAfter(t, S, longer, n)
  <2>1. CASE n = 0
    <3>1. longer[n] = kept[0] /\ kept[0] = <<>>
      BY <1>1, <1>2, <2>1 DEF KeptAfter
    <3> QED
      BY <2>1, <3>1 DEF KeptAfter
  <2>2. CASE n # 0 /\ n <= Len(s)
    <3>1. n - 1 \in 0 .. Len(t) /\ n - 1 <= Len(s) /\ n \in 1 .. Len(s) /\ n \in 0 .. Len(s)
      BY <1>1, <2>2
    <3>2. longer[n] = kept[n] /\ longer[n - 1] = kept[n - 1] /\ t[n] = s[n]
      BY <1>1, <2>2, <3>1
    <3>3. kept[n] = KeptAfter(s, S, kept, n)
      BY <1>2, <3>1
    <3> HIDE DEF longer
    <3> QED
      BY <2>2, <3>2, <3>3 DEF KeptAfter
  <2>3. CASE n = Len(s) + 1
    <3>1. n # 0 /\ n - 1 = Len(s) /\ n - 1 \in 0 .. Len(t)
      BY <1>1, <2>3
    <3>2. longer[n - 1] = kept[n - 1] /\ longer[n] = KeptAfter(t, S, kept, n)
      BY <1>1, <2>3, <3>1
    <3> HIDE DEF longer
    <3> QED
      BY <3>1, <3>2 DEF KeptAfter
  <2> QED
    BY <1>1, <2>1, <2>2, <2>3
<1>4. longer = [n \in 0 .. Len(t) |-> longer[n]]
  OBVIOUS
<1>5. IsWalk(longer, t, S)
  <2> HIDE DEF longer
  <2> QED
    BY <1>3, <1>4 DEF IsWalk
<1> QED
  BY <1>5 DEF t

\* Every list can be walked.
LEMMA WalkExists ==
  ASSUME NEW T, NEW S, NEW s \in Seq(T)
  PROVE  \E kept : IsWalk(kept, s, S)
<1> DEFINE Q == {t \in Seq(T) : \E kept : IsWalk(kept, t, S)}
<1>1. <<>> \in Q
  <2> DEFINE kept == [n \in 0 .. Len(<<>>) |-> <<>>]
  <2>1. IsWalk(kept, <<>>, S)
    BY DEF IsWalk, KeptAfter
  <2> QED
    BY <2>1
<1>2. \A t \in Q, e \in T : Append(t, e) \in Q
  BY WalkGrows
<1> HIDE DEF Q
<1>3. Q = Seq(T)
  BY <1>1, <1>2, GrowingLists DEF Q
<1> QED
  BY <1>3 DEF Q

\* Two walks over lists that begin alike have kept the same so far.
LEMMA WalksAgree ==
  ASSUME NEW S, NEW s, NEW t, NEW a, NEW b, NEW m \in Nat, Len(s) \in Nat, Len(t) \in Nat,
         IsWalk(a, s, S), IsWalk(b, t, S), m <= Len(s), m <= Len(t),
         \A i \in 1 .. m : s[i] = t[i]
  PROVE  a[m] = b[m]
<1> DEFINE U == {n \in Nat : n <= m => a[n] = b[n]}
<1>1. \A n \in 0 .. m : a[n] = KeptAfter(s, S, a, n) /\ b[n] = KeptAfter(t, S, b, n)
  <2> SUFFICES ASSUME NEW n \in 0 .. m
               PROVE  a[n] = KeptAfter(s, S, a, n) /\ b[n] = KeptAfter(t, S, b, n)
    OBVIOUS
  <2>1. n \in 0 .. Len(s) /\ n \in 0 .. Len(t)
    OBVIOUS
  <2> QED
    BY <2>1, WalkStep
<1>2. 0 \in U
  BY <1>1 DEF KeptAfter
<1>3. ASSUME NEW n \in U PROVE n + 1 \in U
  <2> SUFFICES ASSUME n + 1 <= m PROVE a[n + 1] = b[n + 1]
    OBVIOUS
  <2>1. n + 1 \in 0 .. m /\ n + 1 \in 1 .. m /\ (n + 1) - 1 = n /\ n + 1 # 0
    OBVIOUS
  <2>2. a[n] = b[n] /\ s[n + 1] = t[n + 1]
    BY <2>1
  <2> QED
    BY <1>1, <2>1, <2>2 DEF KeptAfter
<1> HIDE DEF U
<1>4. U = Nat
  BY <1>2, <1>3, CountingUp DEF U
<1> QED
  BY <1>4 DEF U

\* Kept is what any walk has kept at its end.
LEMMA KeptByWalk ==
  ASSUME NEW T, NEW S, NEW s \in Seq(T)
  PROVE  \E kept : IsWalk(kept, s, S) /\ Kept(s, S) = kept[Len(s)]
<1> DEFINE chosen == CHOOSE kept : IsWalk(kept, s, S)
<1>1. IsWalk(chosen, s, S)
  BY WalkExists
<1>2. Kept(s, S) = chosen[Len(s)]
  BY DEF Kept, IsWalk, KeptAfter
<1> QED
  BY <1>1, <1>2

LEMMA KeptOfNothing ==
  ASSUME NEW S
  PROVE  Kept(<<>>, S) = <<>>
<1>1. <<>> \in Seq({}) /\ Len(<<>>) = 0
  OBVIOUS
<1>2. PICK kept : IsWalk(kept, <<>>, S) /\ Kept(<<>>, S) = kept[0]
  BY <1>1, KeptByWalk
<1> QED
  BY <1>1, <1>2 DEF IsWalk, KeptAfter

\* The last entry is kept after all that was kept before it, or not at all.
LEMMA KeptOfAppend ==
  ASSUME NEW T, NEW S, NEW s \in Seq(T), NEW e \in T
  PROVE  Kept(Append(s, e), S) = IF e \in S THEN Append(Kept(s, S), e) ELSE Kept(s, S)
<1> DEFINE t == Append(s, e)
<1>0. PICK m \in Nat : m = Len(s)
  OBVIOUS
<1>1. m = Len(s) /\ m \in Nat /\ t \in Seq(T) /\ Len(t) = m + 1 /\ t[m + 1] = e /\ \A n \in 1 .. m : t[n] = s[n]
  BY <1>0
<1>2. PICK a : IsWalk(a, s, S) /\ Kept(s, S) = a[m]
  BY <1>0, KeptByWalk
<1> HIDE DEF t
<1>3. PICK b : IsWalk(b, t, S) /\ Kept(t, S) = b[m + 1]
  BY <1>1, KeptByWalk
<1>4. a[m] = b[m]
  <2>1. \A n \in 1 .. m : s[n] = t[n]
    BY <1>1
  <2>2. m <= Len(s) /\ m <= Len(t) /\ Len(s) \in Nat /\ Len(t) \in Nat
    BY <1>1
  <2>3. m \in Nat /\ IsWalk(a, s, S) /\ IsWalk(b, t, S)
    BY <1>1, <1>2, <1>3
  <2> QED
    BY <2>1, <2>2, <2>3, WalksAgree
<1>5. b[m + 1] = KeptAfter(t, S, b, m + 1)
  BY <1>1, <1>3, WalkStep
<1>6. m + 1 # 0 /\ (m + 1) - 1 = m
  BY <1>1
<1> QED
  BY <1>1, <1>2, <1>3, <1>4, <1>5, <1>6 DEF KeptAfter, t

-----------------------------------------------------------------------------
(***************************************************************************)
(* What is kept.                                                           *)
(***************************************************************************)
LEMMA SetOfAppend ==
  ASSUME NEW T, NEW s \in Seq(T), NEW e \in T
  PROVE  ToSet(Append(s, e)) = ToSet(s) \union {e}
<1> DEFINE t == Append(s, e)
<1>1. /\ DOMAIN s = 1 .. Len(s) /\ DOMAIN t = 1 .. Len(s) + 1 /\ Len(s) \in Nat
      /\ t[Len(s) + 1] = e /\ \A i \in 1 .. Len(s) : t[i] = s[i]
  OBVIOUS
<1> HIDE DEF t
<1>2. ToSet(t) \subseteq ToSet(s) \union {e}
  BY <1>1 DEF ToSet
<1>3. Len(s) + 1 \in DOMAIN t /\ \A i \in DOMAIN s : i \in DOMAIN t /\ t[i] = s[i]
  BY <1>1
<1>4. ToSet(s) \union {e} \subseteq ToSet(t)
  BY <1>1, <1>3 DEF ToSet
<1> QED
  BY <1>2, <1>4 DEF t

\* The entries kept are those of the list that are in the set.
LEMMA KeptEntries ==
  ASSUME NEW T, NEW S, NEW s \in Seq(T)
  PROVE  Kept(s, S) \in Seq(T \intersect S) /\ ToSet(Kept(s, S)) = ToSet(s) \intersect S
<1> DEFINE Q == {t \in Seq(T) : /\ Kept(t, S) \in Seq(T \intersect S)
                                /\ ToSet(Kept(t, S)) = ToSet(t) \intersect S}
<1>1. <<>> \in Q
  <2>1. <<>> \in Seq(T) /\ <<>> \in Seq(T \intersect S) /\ ToSet(<<>>) = {}
    BY DEF ToSet
  <2> QED
    BY <2>1, KeptOfNothing
<1>2. ASSUME NEW t \in Q, NEW e \in T PROVE Append(t, e) \in Q
  <2>1. t \in Seq(T) /\ Append(t, e) \in Seq(T) /\ ToSet(Append(t, e)) = ToSet(t) \union {e}
    BY SetOfAppend
  <2>2. Kept(t, S) \in Seq(T \intersect S) /\ ToSet(Kept(t, S)) = ToSet(t) \intersect S
    OBVIOUS
  <2>3. CASE e \in S
    <3>1. Kept(Append(t, e), S) = Append(Kept(t, S), e)
      BY <2>1, <2>3, KeptOfAppend
    <3>2. ToSet(Append(Kept(t, S), e)) = ToSet(Kept(t, S)) \union {e}
      BY <2>2, <2>3, SetOfAppend
    <3>3. Append(Kept(t, S), e) \in Seq(T \intersect S)
      BY <2>2, <2>3, AppendProperties
    <3>4. (ToSet(t) \union {e}) \intersect S = (ToSet(t) \intersect S) \union {e}
      BY <2>3
    <3> QED
      BY <2>1, <2>2, <3>1, <3>2, <3>3, <3>4
  <2>4. CASE e \notin S
    <3>1. Kept(Append(t, e), S) = Kept(t, S)
      BY <2>1, <2>4, KeptOfAppend
    <3> QED
      BY <2>1, <2>2, <2>4, <3>1
  <2> QED
    BY <2>3, <2>4
<1> HIDE DEF Q
<1>3. Q = Seq(T)
  <2>1. Q \subseteq Seq(T)
    BY DEF Q
  <2> QED
    BY <1>1, <1>2, <2>1, GrowingLists
<1> QED
  BY <1>3 DEF Q

LEMMA KeptIsASeq ==
  ASSUME NEW T, NEW S, NEW s \in Seq(T)
  PROVE  Kept(s, S) \in Seq(T)
<1>1. T \intersect S \subseteq T
  OBVIOUS
<1> QED
  BY <1>1, KeptEntries, SeqMonotonic

\* Whether entries are kept does not depend on what no entry is.
LEMMA KeptAlike ==
  ASSUME NEW T, NEW S, NEW R, NEW s \in Seq(T), \A e \in ToSet(s) : e \in S <=> e \in R
  PROVE  Kept(s, S) = Kept(s, R)
<1> DEFINE Q == {t \in Seq(T) : (\A e \in ToSet(t) : e \in S <=> e \in R) => Kept(t, S) = Kept(t, R)}
<1>1. <<>> \in Q
  BY KeptOfNothing
<1>2. ASSUME NEW t \in Q, NEW e \in T PROVE Append(t, e) \in Q
  <2>1. Append(t, e) \in Seq(T) /\ ToSet(Append(t, e)) = ToSet(t) \union {e}
    BY SetOfAppend
  <2> SUFFICES ASSUME \A d \in ToSet(Append(t, e)) : d \in S <=> d \in R
               PROVE  Kept(Append(t, e), S) = Kept(Append(t, e), R)
    BY <2>1
  <2>2. Kept(t, S) = Kept(t, R) /\ (e \in S <=> e \in R)
    BY <2>1
  <2>3. Kept(Append(t, e), S) = IF e \in S THEN Append(Kept(t, S), e) ELSE Kept(t, S)
    BY KeptOfAppend
  <2>4. Kept(Append(t, e), R) = IF e \in R THEN Append(Kept(t, R), e) ELSE Kept(t, R)
    BY KeptOfAppend
  <2> QED
    BY <2>2, <2>3, <2>4
<1> HIDE DEF Q
<1>3. Q = Seq(T)
  <2>1. Q \subseteq Seq(T)
    BY DEF Q
  <2> QED
    BY <1>1, <1>2, <2>1, GrowingLists
<1> QED
  BY <1>3 DEF Q

\* If every entry is in the set, all are kept; if none is, none.
LEMMA KeptAll ==
  ASSUME NEW T, NEW S, NEW s \in Seq(T), ToSet(s) \subseteq S
  PROVE  Kept(s, S) = s
<1> DEFINE Q == {t \in Seq(T) : ToSet(t) \subseteq S => Kept(t, S) = t}
<1>1. <<>> \in Q
  BY KeptOfNothing
<1>2. ASSUME NEW t \in Q, NEW e \in T PROVE Append(t, e) \in Q
  <2>1. Append(t, e) \in Seq(T) /\ ToSet(Append(t, e)) = ToSet(t) \union {e}
    BY SetOfAppend
  <2> SUFFICES ASSUME ToSet(Append(t, e)) \subseteq S PROVE Kept(Append(t, e), S) = Append(t, e)
    BY <2>1
  <2>2. Kept(t, S) = t /\ e \in S
    BY <2>1
  <2> QED
    BY <2>2, KeptOfAppend
<1> HIDE DEF Q
<1>3. Q = Seq(T)
  <2>1. Q \subseteq Seq(T)
    BY DEF Q
  <2> QED
    BY <1>1, <1>2, <2>1, GrowingLists
<1> QED
  BY <1>3 DEF Q

LEMMA KeptNone ==
  ASSUME NEW T, NEW S, NEW s \in Seq(T), ToSet(s) \intersect S = {}
  PROVE  Kept(s, S) = <<>>
<1> DEFINE k == Kept(s, S)
<1>1. k \in Seq(T) /\ ToSet(k) = {}
  BY KeptEntries, KeptIsASeq
<1> HIDE DEF k
<1>2. DOMAIN k = {}
  BY <1>1 DEF ToSet
<1>3. Len(k) = 0
  BY <1>1, <1>2
<1> QED
  BY <1>1, <1>3, EmptySeq DEF k

LEMMA AppendToConcat ==
  ASSUME NEW T, NEW s \in Seq(T), NEW t \in Seq(T), NEW e \in T
  PROVE  s \o Append(t, e) = Append(s \o t, e)
OBVIOUS

\* Of two lists one after the other, each keeps its own.
LEMMA KeptOfConcat ==
  ASSUME NEW T, NEW S, NEW s \in Seq(T), NEW t \in Seq(T)
  PROVE  Kept(s \o t, S) = Kept(s, S) \o Kept(t, S)
<1> DEFINE Q == {u \in Seq(T) : Kept(s \o u, S) = Kept(s, S) \o Kept(u, S)}
<1>0. Kept(s, S) \in Seq(T)
  BY KeptIsASeq
<1>1. <<>> \in Q
  <2>1. s \o <<>> = s /\ Kept(s, S) \o <<>> = Kept(s, S)
    BY <1>0, ConcatEmptySeq
  <2>2. Kept(<<>>, S) = <<>> /\ <<>> \in Seq(T)
    BY KeptOfNothing
  <2> QED
    BY <2>1, <2>2
<1>2. ASSUME NEW u \in Q, NEW e \in T PROVE Append(u, e) \in Q
  <2>1. u \in Seq(T) /\ Append(u, e) \in Seq(T) /\ s \o u \in Seq(T)
    OBVIOUS
  <2>2. PICK v \in Seq(T) : v = s \o u
    BY <2>1
  <2>3. s \o Append(u, e) = Append(v, e)
    BY <2>1, <2>2, AppendToConcat
  <2>4. PICK a \in Seq(T), b \in Seq(T) : a = Kept(s, S) /\ b = Kept(u, S)
    BY <1>0, KeptIsASeq
  <2>5. Kept(v, S) = a \o b
    BY <2>2, <2>4
  <2>6. Kept(Append(v, e), S) = IF e \in S THEN Append(Kept(v, S), e) ELSE Kept(v, S)
    BY KeptOfAppend
  <2>7. Kept(Append(u, e), S) = IF e \in S THEN Append(Kept(u, S), e) ELSE Kept(u, S)
    BY <2>1, KeptOfAppend
  <2>8. a \o Append(b, e) = Append(a \o b, e)
    BY AppendToConcat
  <2> QED
    BY <2>1, <2>3, <2>4, <2>5, <2>6, <2>7, <2>8
<1> HIDE DEF Q
<1>3. Q = Seq(T)
  <2>1. Q \subseteq Seq(T)
    BY DEF Q
  <2> QED
    BY <1>1, <1>2, <2>1, GrowingLists
<1> QED
  BY <1>3 DEF Q


\* When the entries in the set come before the others, taking them out and then
\* the others gives the list again.
LEMMA KeptApart ==
  ASSUME NEW T, NEW S, NEW s \in Seq(T),
         \A i, j \in DOMAIN s : i < j /\ s[j] \in S => s[i] \in S
  PROVE  Kept(s, S) \o Kept(s, T \ S) = s
<1> DEFINE Ahead(t) == \A i, j \in DOMAIN t : i < j /\ t[j] \in S => t[i] \in S
           Q == {t \in Seq(T) : Ahead(t) => Kept(t, S) \o Kept(t, T \ S) = t}
<1>1. <<>> \in Q
  <2>1. Kept(<<>>, S) \o Kept(<<>>, T \ S) = <<>> /\ <<>> \in Seq(T)
    BY KeptOfNothing
  <2> QED
    BY <2>1
<1>2. ASSUME NEW t \in Q, NEW e \in T PROVE Append(t, e) \in Q
  <2>1. t \in Seq(T) /\ Append(t, e) \in Seq(T)
    OBVIOUS
  <2> SUFFICES ASSUME Ahead(Append(t, e))
               PROVE  Kept(Append(t, e), S) \o Kept(Append(t, e), T \ S) = Append(t, e)
    BY <2>1
  <2>2. PICK u \in Seq(T) : u = Append(t, e)
    BY <2>1
  <2>0. PICK n \in Nat : n = Len(t)
    BY <2>1
  <2>A. /\ DOMAIN t = 1 .. n /\ DOMAIN u = 1 .. n + 1
        /\ u[n + 1] = e /\ \A i \in 1 .. n : u[i] = t[i]
    BY <2>0, <2>1, <2>2
  <2>B. /\ Kept(u, S) = IF e \in S THEN Append(Kept(t, S), e) ELSE Kept(t, S)
        /\ Kept(u, T \ S) = IF e \in T \ S THEN Append(Kept(t, T \ S), e) ELSE Kept(t, T \ S)
    BY <2>1, <2>2, KeptOfAppend
  <2>C. Ahead(u)
    BY <2>2
  <2>3. Ahead(t)
    <3> SUFFICES ASSUME NEW i \in DOMAIN t, NEW j \in DOMAIN t, i < j, t[j] \in S
                 PROVE  t[i] \in S
      OBVIOUS
    <3>1. i \in DOMAIN u /\ j \in DOMAIN u /\ u[i] = t[i] /\ u[j] = t[j]
      BY <2>A
    <3> QED
      BY <2>C, <3>1
  <2>4. PICK a \in Seq(T), b \in Seq(T) : a = Kept(t, S) /\ b = Kept(t, T \ S)
    BY <2>1, KeptIsASeq
  <2>5. a \o b = t
    BY <2>3, <2>4
  <2>6. CASE e \in S
    <3>1. ToSet(t) \subseteq S
      <4> SUFFICES ASSUME NEW i \in DOMAIN t PROVE t[i] \in S
        BY DEF ToSet
      <4>1. i \in DOMAIN u /\ n + 1 \in DOMAIN u /\ i < n + 1 /\ u[i] = t[i] /\ u[n + 1] = e
        BY <2>A
      <4> QED
        BY <2>6, <2>C, <4>1
    <3>2. a = t
      BY <2>1, <2>4, <3>1, KeptAll
    <3>3. ToSet(t) \intersect (T \ S) = {}
      BY <3>1
    <3>4. b = <<>>
      BY <2>1, <2>4, <3>3, KeptNone
    <3>5. Kept(u, S) = u /\ Kept(u, T \ S) = <<>>
      BY <2>2, <2>4, <2>6, <2>B, <3>2, <3>4
    <3>6. u \o <<>> = u
      BY ConcatEmptySeq
    <3> QED
      BY <2>2, <3>5, <3>6
  <2>7. CASE e \notin S
    <3>1. Kept(u, S) = a /\ Kept(u, T \ S) = Append(b, e)
      BY <2>4, <2>7, <2>B
    <3>2. a \o Append(b, e) = Append(a \o b, e)
      BY AppendToConcat
    <3> QED
      BY <2>2, <2>5, <3>1, <3>2
  <2> QED
    BY <2>6, <2>7
<1> HIDE DEF Q
<1>3. Q = Seq(T)
  <2>1. Q \subseteq Seq(T)
    BY DEF Q
  <2> QED
    BY <1>1, <1>2, <2>1, GrowingLists
<1> QED
  BY <1>3 DEF Q

\* Entries that stand in an order still do when some are taken out.
InOrderBy(s, R) == \A i, j \in DOMAIN s : i < j => <<s[i], s[j]>> \in R

LEMMA OrderOfAppend ==
  ASSUME NEW T, NEW R, NEW s \in Seq(T), NEW e \in T
  PROVE  InOrderBy(Append(s, e), R) <=> InOrderBy(s, R) /\ \A d \in ToSet(s) : <<d, e>> \in R
<1>1. PICK t \in Seq(T) : t = Append(s, e)
  BY AppendProperties
<1>2. PICK n \in Nat : n = Len(s)
  OBVIOUS
<1>3. /\ DOMAIN s = 1 .. n /\ DOMAIN t = 1 .. n + 1
      /\ t[n + 1] = e /\ \A i \in 1 .. n : t[i] = s[i]
  BY <1>1, <1>2
<1>4. ASSUME InOrderBy(t, R) PROVE InOrderBy(s, R) /\ \A d \in ToSet(s) : <<d, e>> \in R
  <2>1. InOrderBy(s, R)
    BY <1>3, <1>4 DEF InOrderBy
  <2>2. ASSUME NEW i \in DOMAIN s PROVE <<s[i], e>> \in R
    <3>1. i \in DOMAIN t /\ n + 1 \in DOMAIN t /\ i < n + 1 /\ t[i] = s[i] /\ t[n + 1] = e
      BY <1>3
    <3> QED
      BY <1>4, <3>1 DEF InOrderBy
  <2> QED
    BY <2>1, <2>2 DEF ToSet
<1>5. ASSUME InOrderBy(s, R), \A d \in ToSet(s) : <<d, e>> \in R PROVE InOrderBy(t, R)
  <2> SUFFICES ASSUME NEW i \in DOMAIN t, NEW j \in DOMAIN t, i < j PROVE <<t[i], t[j]>> \in R
    BY DEF InOrderBy
  <2>1. i \in DOMAIN s /\ t[i] = s[i] /\ s[i] \in ToSet(s)
    BY <1>3 DEF ToSet
  <2>2. CASE j = n + 1
    BY <1>3, <1>5, <2>1, <2>2
  <2>3. CASE j # n + 1
    BY <1>3, <1>5, <2>1, <2>3 DEF InOrderBy
  <2> QED
    BY <2>2, <2>3
<1> QED
  BY <1>1, <1>4, <1>5

LEMMA KeptInOrder ==
  ASSUME NEW T, NEW S, NEW R, NEW s \in Seq(T), InOrderBy(s, R)
  PROVE  InOrderBy(Kept(s, S), R)
<1> DEFINE Q == {t \in Seq(T) : InOrderBy(t, R) => InOrderBy(Kept(t, S), R)}
<1>1. <<>> \in Q
  <2>1. InOrderBy(<<>>, R) /\ <<>> \in Seq(T)
    BY DEF InOrderBy
  <2> QED
    BY <2>1, KeptOfNothing
<1>2. ASSUME NEW t \in Q, NEW e \in T PROVE Append(t, e) \in Q
  <2>1. t \in Seq(T) /\ Append(t, e) \in Seq(T)
    OBVIOUS
  <2> SUFFICES ASSUME InOrderBy(Append(t, e), R) PROVE InOrderBy(Kept(Append(t, e), S), R)
    BY <2>1
  <2>2. InOrderBy(t, R) /\ \A d \in ToSet(t) : <<d, e>> \in R
    BY <2>1, OrderOfAppend
  <2>3. PICK k \in Seq(T) : k = Kept(t, S)
    BY <2>1, KeptIsASeq
  <2>4. InOrderBy(k, R) /\ ToSet(k) \subseteq ToSet(t)
    BY <2>1, <2>2, <2>3, KeptEntries
  <2>5. InOrderBy(Append(k, e), R)
    BY <2>2, <2>4, OrderOfAppend
  <2>6. Kept(Append(t, e), S) = IF e \in S THEN Append(k, e) ELSE k
    BY <2>1, <2>3, KeptOfAppend
  <2> QED
    BY <2>4, <2>5, <2>6
<1> HIDE DEF Q
<1>3. Q = Seq(T)
  <2>1. Q \subseteq Seq(T)
    BY DEF Q
  <2> QED
    BY <1>1, <1>2, <2>1, GrowingLists
<1> QED
  BY <1>3 DEF Q

-----------------------------------------------------------------------------
(***************************************************************************)
(* What Mapped makes.                                                      *)
(***************************************************************************)

LEMMA MappedIsASeq ==
  ASSUME NEW T, NEW X, NEW g \in [T -> X], NEW s \in Seq(T)
  PROVE  Mapped(s, g) \in Seq(X)
BY DEF Mapped

LEMMA MappedLen ==
  ASSUME NEW T, NEW g, NEW s \in Seq(T)
  PROVE  Len(Mapped(s, g)) = Len(s)
BY DEF Mapped

LEMMA MappedAt ==
  ASSUME NEW T, NEW g, NEW s \in Seq(T), NEW i \in 1 .. Len(s)
  PROVE  Mapped(s, g)[i] = g[s[i]]
BY DEF Mapped

LEMMA MappedOfAppend ==
  ASSUME NEW T, NEW X, NEW g \in [T -> X], NEW s \in Seq(T), NEW e \in T
  PROVE  Mapped(Append(s, e), g) = Append(Mapped(s, g), g[e])
<1>1. PICK m \in Seq(X) : m = Mapped(s, g)
  BY MappedIsASeq
<1>2. Len(m) = Len(s) /\ \A i \in 1 .. Len(s) : m[i] = g[s[i]]
  <2>1. Len(m) = Len(s)
    BY <1>1, MappedLen
  <2> QED
    BY <1>1, <2>1, MappedAt
<1>3. PICK t \in Seq(T) : t = Append(s, e)
  BY AppendProperties
<1>4. Len(t) = Len(s) + 1 /\ t[Len(s) + 1] = e /\ \A i \in 1 .. Len(s) : t[i] = s[i]
  BY <1>3
<1>5. PICK a \in Seq(X) : a = Mapped(t, g)
  BY MappedIsASeq
<1>6. Len(a) = Len(t) /\ \A i \in 1 .. Len(t) : a[i] = g[t[i]]
  <2>1. Len(a) = Len(t)
    BY <1>5, MappedLen
  <2> QED
    BY <1>5, <2>1, MappedAt
<1>7. g[e] \in X /\ Append(m, g[e]) \in Seq(X) /\ Len(Append(m, g[e])) = Len(a)
  BY <1>2, <1>4, <1>6
<1>8. \A i \in 1 .. Len(a) : a[i] = Append(m, g[e])[i]
  BY <1>2, <1>4, <1>6
<1>9. a = Append(m, g[e])
  BY <1>7, <1>8, SeqEqual
<1> QED
  BY <1>1, <1>3, <1>5, <1>9

LEMMA MappedOfConcat ==
  ASSUME NEW T, NEW X, NEW g \in [T -> X], NEW s \in Seq(T), NEW t \in Seq(T)
  PROVE  Mapped(s \o t, g) = Mapped(s, g) \o Mapped(t, g)
<1>1. PICK m \in Seq(X) : m = Mapped(s, g)
  BY MappedIsASeq
<1>2. PICK n \in Seq(X) : n = Mapped(t, g)
  BY MappedIsASeq
<1>3. /\ Len(m) = Len(s) /\ \A i \in 1 .. Len(s) : m[i] = g[s[i]]
      /\ Len(n) = Len(t) /\ \A i \in 1 .. Len(t) : n[i] = g[t[i]]
  <2>1. Len(m) = Len(s)
    BY <1>1, MappedLen
  <2>2. Len(n) = Len(t)
    BY <1>2, MappedLen
  <2> QED
    BY <1>1, <1>2, <2>1, <2>2, MappedAt
<1>4. PICK u \in Seq(T) : u = s \o t
  BY ConcatProperties
<1>5. PICK a \in Seq(X) : a = Mapped(u, g)
  BY MappedIsASeq
<1>6. Len(a) = Len(u) /\ \A i \in 1 .. Len(u) : a[i] = g[u[i]]
  <2>1. Len(a) = Len(u)
    BY <1>5, MappedLen
  <2> QED
    BY <1>5, <2>1, MappedAt
<1>7. PICK k \in Nat, j \in Nat : k = Len(s) /\ j = Len(t)
  OBVIOUS
<1>8. Len(u) = k + j /\ \A i \in 1 .. k + j : u[i] = IF i <= k THEN s[i] ELSE t[i - k]
  BY <1>4, <1>7
<1>9. PICK b \in Seq(X) : b = m \o n
  BY ConcatProperties
<1>10. Len(b) = k + j /\ \A i \in 1 .. k + j : b[i] = IF i <= k THEN m[i] ELSE n[i - k]
  <2>1. Len(m) = k /\ Len(n) = j
    BY <1>3, <1>7
  <2>2. Len(b) = Len(m) + Len(n)
    BY <1>9
  <2>3. \A i \in 1 .. Len(m) + Len(n) : b[i] = IF i <= Len(m) THEN m[i] ELSE n[i - Len(m)]
    BY <1>9
  <2> QED
    BY <2>1, <2>2, <2>3
<1>11. ASSUME NEW i \in 1 .. k + j PROVE a[i] = b[i]
  <2>1. CASE i <= k
    <3>1. i \in 1 .. k
      BY <2>1
    <3>2. a[i] = g[s[i]] /\ b[i] = m[i]
      BY <1>6, <1>8, <1>10, <2>1
    <3> QED
      BY <1>3, <1>7, <3>1, <3>2
  <2>2. CASE ~(i <= k)
    <3>1. i - k \in 1 .. j
      BY <2>2
    <3>2. a[i] = g[t[i - k]] /\ b[i] = n[i - k]
      BY <1>6, <1>8, <1>10, <2>2
    <3> QED
      BY <1>3, <1>7, <3>1, <3>2
  <2> QED
    BY <2>1, <2>2
<1>12. a = b
  BY <1>6, <1>8, <1>10, <1>11, SeqEqual
<1> QED
  BY <1>1, <1>2, <1>4, <1>5, <1>9, <1>12

\* Choosing entries by the part shown and showing what was chosen agree.
Chosen(T, g, R) == {e \in T : g[e] \in R}

LEMMA KeptOfMapped ==
  ASSUME NEW T, NEW X, NEW g \in [T -> X], NEW R, NEW s \in Seq(T)
  PROVE  Kept(Mapped(s, g), R) = Mapped(Kept(s, Chosen(T, g, R)), g)
<1>0. PICK S : S = Chosen(T, g, R)
  OBVIOUS
<1> DEFINE Q == {t \in Seq(T) : Kept(Mapped(t, g), R) = Mapped(Kept(t, S), g)}
<1>1. <<>> \in Q
  <2>1. Mapped(<<>>, g) = <<>> /\ <<>> \in Seq(T)
    BY DEF Mapped
  <2>2. Kept(<<>>, R) = <<>> /\ Kept(<<>>, S) = <<>>
    BY KeptOfNothing
  <2> QED
    BY <2>1, <2>2
<1>2. ASSUME NEW t \in Q, NEW e \in T PROVE Append(t, e) \in Q
  <2>1. t \in Seq(T) /\ Append(t, e) \in Seq(T)
    OBVIOUS
  <2>2. PICK m \in Seq(X) : m = Mapped(t, g)
    BY <2>1, MappedIsASeq
  <2>3. PICK k \in Seq(T) : k = Kept(t, S)
    BY <2>1, KeptIsASeq
  <2>4. Mapped(Append(t, e), g) = Append(m, g[e])
    BY <2>1, <2>2, MappedOfAppend
  <2>5. Kept(Append(m, g[e]), R) = IF g[e] \in R THEN Append(Kept(m, R), g[e]) ELSE Kept(m, R)
    BY KeptOfAppend
  <2>6. Kept(Append(t, e), S) = IF e \in S THEN Append(k, e) ELSE k
    BY <2>1, <2>3, KeptOfAppend
  <2>7. Mapped(Append(k, e), g) = Append(Mapped(k, g), g[e])
    BY MappedOfAppend
  <2>8. Kept(m, R) = Mapped(k, g) /\ (e \in S <=> g[e] \in R)
    BY <1>0, <2>2, <2>3 DEF Chosen
  <2> QED
    BY <2>1, <2>4, <2>5, <2>6, <2>7, <2>8
<1> HIDE DEF Q
<1>3. Q = Seq(T)
  <2>1. Q \subseteq Seq(T)
    BY DEF Q
  <2> QED
    BY <1>1, <1>2, <2>1, GrowingLists
<1> QED
  BY <1>0, <1>3 DEF Q

\* A list of what f makes of each entry has what f makes of any.
LEMMA MappedSet ==
  ASSUME NEW T, NEW s \in Seq(T), NEW f
  PROVE  ToSet(Mapped(s, f)) = {f[e] : e \in ToSet(s)}
BY DEF Mapped, ToSet

LEMMA SetOfConcat ==
  ASSUME NEW T, NEW s \in Seq(T), NEW t \in Seq(T)
  PROVE  ToSet(s \o t) = ToSet(s) \union ToSet(t)
<1>1. PICK u \in Seq(T) : u = s \o t
  BY ConcatProperties
<1>2. PICK m \in Nat, n \in Nat : m = Len(s) /\ n = Len(t)
  OBVIOUS
<1>3. /\ DOMAIN s = 1 .. m /\ DOMAIN t = 1 .. n /\ DOMAIN u = 1 .. m + n
      /\ \A i \in 1 .. m + n : u[i] = IF i <= m THEN s[i] ELSE t[i - m]
  BY <1>1, <1>2
<1>4. ASSUME NEW i \in DOMAIN u PROVE u[i] \in ToSet(s) \union ToSet(t)
  <2>1. CASE i <= m
    BY <1>3, <2>1 DEF ToSet
  <2>2. CASE ~(i <= m)
    <3>1. i - m \in DOMAIN t /\ u[i] = t[i - m]
      BY <1>3, <2>2
    <3> QED
      BY <3>1 DEF ToSet
  <2> QED
    BY <2>1, <2>2
<1>5. ASSUME NEW i \in DOMAIN s PROVE s[i] \in ToSet(u)
  <2>1. i \in DOMAIN u /\ u[i] = s[i]
    BY <1>3
  <2> QED
    BY <2>1 DEF ToSet
<1>6. ASSUME NEW i \in DOMAIN t PROVE t[i] \in ToSet(u)
  <2>1. i + m \in DOMAIN u /\ (i + m) - m = i /\ ~(i + m <= m)
    BY <1>3
  <2>2. u[i + m] = t[i]
    BY <1>3, <2>1
  <2> QED
    BY <2>1, <2>2 DEF ToSet
<1>7. ToSet(u) \subseteq ToSet(s) \union ToSet(t)
  BY <1>4 DEF ToSet
<1>8. ToSet(s) \subseteq ToSet(u) /\ ToSet(t) \subseteq ToSet(u)
  BY <1>5, <1>6 DEF ToSet
<1>9. ToSet(u) = ToSet(s) \union ToSet(t)
  BY <1>7, <1>8
<1> QED
  BY <1>1, <1>9

=============================================================================
