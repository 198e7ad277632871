------------------------ MODULE OrganizerExport_proofs ------------------------
(***************************************************************************)
(* What holds of the organizer importer and of the ranking it shares with   *)
(* the ML service for every input, image version and number of runs: the    *)
(* safety properties of OrganizerExport.tla, from one inductive invariant.  *)
(*                                                                          *)
(* The first part is about the ranking alone: Keep and Order on sequences   *)
(* of any length, and the three answers to a query built from them.  The    *)
(* second is about the importer, whose rows are those answers.              *)
(***************************************************************************)
EXTENDS OrganizerExport, FiniteSetTheorems, FunctionTheorems, WellFoundedInduction,
        SequenceTheorems, TLAPS

------------------------------------------------------------------------------
(* Keep: induction over positions by the least counterexample (a recursive  *)
(* function is reasoned about through its equation)                         *)

\* A set of naturals that is not empty has a least member
LEMMA LeastMember ==
    ASSUME NEW T, T \subseteq Nat, T # {}
    PROVE  \E n \in T : \A m \in T : n <= m
<1>1. PICK n \in T : \A m \in T : ~ (<<m, n>> \in OpToRel(<, Nat))
  BY NatLessThanWellFounded, WFMin
<1>2. ASSUME NEW m \in T PROVE n <= m
  <2>1. m \in Nat /\ n \in Nat
    OBVIOUS
  <2>2. m < n => <<m, n>> \in OpToRel(<, Nat)
    BY <2>1 DEF OpToRel
  <2>3. ~ (m < n)
    BY <1>1, <2>2
  <2> QED
    BY <2>1, <2>3
<1> QED
  BY <1>2

\* Induction, over the set of the numbers for which a statement holds
LEMMA Induction ==
    ASSUME NEW T, 0 \in T, \A n \in Nat : n \in T => n + 1 \in T
    PROVE  Nat \subseteq T
<1> DEFINE U == Nat \ T
<1> SUFFICES ASSUME U # {} PROVE FALSE
  OBVIOUS
<1>1. PICK n \in U : \A m \in U : n <= m
  <2>1. U \subseteq Nat
    OBVIOUS
  <2> HIDE DEF U
  <2> QED
    BY <2>1, LeastMember
<1>2. n \in Nat /\ n # 0
  OBVIOUS
<1>3. n - 1 \in Nat /\ n - 1 \notin U
  BY <1>1, <1>2
<1> QED
  BY <1>2, <1>3

------------------------------------------------------------------------------
\* The recursion of Keep: its value after each position
KeptBy(k, s, X) ==
    [n \in 0 .. Len(s) |-> IF n = 0 THEN <<>>
                           ELSE IF s[n] \in X THEN Append(k[n - 1], s[n])
                           ELSE k[n - 1]]

\* The recursion of Keep has a solution
LEMMA KeepSolved ==
    ASSUME NEW S, NEW s \in Seq(S), NEW X
    PROVE  \E k : k = KeptBy(k, s, X)
<1> DEFINE Upto(m) == {n \in 0 .. Len(s) : n <= m}
           Sol(k, m) == k = [n \in Upto(m) |-> IF n = 0 THEN <<>>
                           ELSE IF s[n] \in X THEN Append(k[n - 1], s[n])
                           ELSE k[n - 1]]
           T == {m \in Nat : \E k : Sol(k, m)}
<1>0. Len(s) \in Nat
  OBVIOUS
<1>1. 0 \in T
  <2>1. Sol([n \in Upto(0) |-> <<>>], 0)
    BY <1>0
  <2> QED
    BY <2>1
<1>2. ASSUME NEW m \in Nat, m \in T PROVE m + 1 \in T
  <2>1. PICK k : Sol(k, m)
    BY <1>2
  <2> DEFINE g == [n \in Upto(m + 1) |-> IF n <= m THEN k[n]
                           ELSE IF s[n] \in X THEN Append(k[n - 1], s[n])
                           ELSE k[n - 1]]
  <2>2. ASSUME NEW n \in Upto(m + 1)
        PROVE  g[n] = IF n = 0 THEN <<>>
                      ELSE IF s[n] \in X THEN Append(g[n - 1], s[n])
                      ELSE g[n - 1]
    <3>1. CASE n = 0
      <4>1. g[n] = k[n] /\ n \in Upto(m)
        BY <3>1, <1>0
      <4> QED
        BY <2>1, <3>1, <4>1
    <3>2. CASE n # 0
      <4>1. n - 1 \in Upto(m + 1) /\ n - 1 <= m /\ g[n - 1] = k[n - 1]
        BY <3>2, <1>0
      <4>2. CASE n <= m
        <5>1. g[n] = k[n] /\ n \in Upto(m)
          BY <4>2, <1>0
        <5>2. k[n] = IF n = 0 THEN <<>>
                     ELSE IF s[n] \in X THEN Append(k[n - 1], s[n])
                     ELSE k[n - 1]
          BY <2>1, <5>1
        <5> QED
          BY <4>1, <5>1, <5>2
      <4>3. CASE ~ (n <= m)
        BY <4>1, <4>3, <3>2
      <4> QED
        BY <4>2, <4>3
    <3> QED
      BY <3>1, <3>2
  <2>3. g = [n \in Upto(m + 1) |-> IF n = 0 THEN <<>>
                      ELSE IF s[n] \in X THEN Append(g[n - 1], s[n])
                      ELSE g[n - 1]]
    <3>1. g = [n \in Upto(m + 1) |-> g[n]]
      OBVIOUS
    <3> HIDE DEF g
    <3> QED
      BY <3>1, <2>2
  <2>4. Sol(g, m + 1)
    BY <2>3
  <2> HIDE DEF Sol, g
  <2> QED
    BY <2>4
<1>3. Len(s) \in T
  <2> HIDE DEF T
  <2>1. Nat \subseteq T
    BY <1>1, <1>2, Induction
  <2> QED
    BY <2>1, <1>0
<1>4. Upto(Len(s)) = 0 .. Len(s)
  BY <1>0
<1> QED
  BY <1>3, <1>4 DEF KeptBy

\* Keep, one position at a time
LEMMA KeepSteps ==
    ASSUME NEW S, NEW s \in Seq(S), NEW X
    PROVE  \E k : /\ Keep(s, X) = k[Len(s)]
                  /\ k[0] = <<>>
                  /\ \A n \in 1 .. Len(s) :
                        k[n] = IF s[n] \in X THEN Append(k[n - 1], s[n]) ELSE k[n - 1]
<1> DEFINE k == CHOOSE k : k = KeptBy(k, s, X)
<1>1. k = KeptBy(k, s, X)
  BY KeepSolved
<1>2. Keep(s, X) = k[Len(s)]
  BY DEF Keep, KeptBy
<1> HIDE DEF k
<1>3. \A n \in 0 .. Len(s) : k[n] = KeptBy(k, s, X)[n]
  BY <1>1
<1>4. \A n \in 0 .. Len(s) : k[n] = IF n = 0 THEN <<>>
                           ELSE IF s[n] \in X THEN Append(k[n - 1], s[n])
                           ELSE k[n - 1]
  BY <1>3 DEF KeptBy
<1> QED
  BY <1>2, <1>4

\* Nothing is kept of nothing
LEMMA KeepEmpty == ASSUME NEW X PROVE Keep(<<>>, X) = <<>>
<1> DEFINE s == <<>>
<1>1. s \in Seq({}) /\ Len(s) = 0
  OBVIOUS
<1> HIDE DEF s
<1> DEFINE S == {}
<1>0. s \in Seq(S)
  BY <1>1
<1> HIDE DEF S
<1>2. PICK k : /\ Keep(s, X) = k[Len(s)]
               /\ k[0] = <<>>
               /\ \A n \in 1 .. Len(s) :
                     k[n] = IF s[n] \in X THEN Append(k[n - 1], s[n]) ELSE k[n - 1]
  BY <1>0, KeepSteps
<1>3. Keep(s, X) = <<>>
  BY <1>1, <1>2
<1> QED
  BY <1>3 DEF s

\* What is kept of a sequence that grows
LEMMA KeepAppend ==
    ASSUME NEW S, NEW s \in Seq(S), NEW e \in S, NEW X
    PROVE  Keep(Append(s, e), X) = IF e \in X THEN Append(Keep(s, X), e) ELSE Keep(s, X)
<1> DEFINE t == Append(s, e)
<1>1. /\ t \in Seq(S) /\ Len(t) = Len(s) + 1 /\ t[Len(s) + 1] = e /\ Len(s) \in Nat
      /\ \A i \in 1 .. Len(s) : t[i] = s[i]
  OBVIOUS
<1> HIDE DEF t
<1>2. PICK k : /\ Keep(s, X) = k[Len(s)]
               /\ k[0] = <<>>
               /\ \A n \in 1 .. Len(s) :
                     k[n] = IF s[n] \in X THEN Append(k[n - 1], s[n]) ELSE k[n - 1]
  BY KeepSteps
<1>3. PICK l : /\ Keep(t, X) = l[Len(t)]
               /\ l[0] = <<>>
               /\ \A n \in 1 .. Len(t) :
                     l[n] = IF t[n] \in X THEN Append(l[n - 1], t[n]) ELSE l[n - 1]
  BY <1>1, KeepSteps
<1> DEFINE T == {n \in Nat : n <= Len(s) => k[n] = l[n]}
<1>4. 0 \in T
  BY <1>2, <1>3
<1>5. ASSUME NEW n \in Nat, n \in T PROVE n + 1 \in T
  <2>1. CASE n + 1 <= Len(s)
    <3>1. n + 1 \in 1 .. Len(s) /\ n + 1 \in 1 .. Len(t) /\ (n + 1) - 1 = n
      BY <1>1, <2>1
    <3>2. k[n] = l[n]
      BY <1>5, <2>1, <1>1
    <3>3. t[n + 1] = s[n + 1]
      BY <1>1, <3>1
    <3>4. k[n + 1] = IF s[n + 1] \in X THEN Append(k[n], s[n + 1]) ELSE k[n]
      BY <1>2, <3>1
    <3>5. l[n + 1] = IF t[n + 1] \in X THEN Append(l[n], t[n + 1]) ELSE l[n]
      BY <1>3, <3>1
    <3> QED
      BY <3>2, <3>3, <3>4, <3>5
  <2> QED
    BY <2>1
<1>6. k[Len(s)] = l[Len(s)]
  <2> HIDE DEF T
  <2>1. Nat \subseteq T
    BY <1>4, <1>5, Induction
  <2> QED
    BY <2>1, <1>1 DEF T
<1>7. l[Len(t)] = IF e \in X THEN Append(l[Len(s)], e) ELSE l[Len(s)]
  BY <1>1, <1>3
<1> QED
  BY <1>2, <1>3, <1>6, <1>7 DEF t

\* Induction over sequences, over the set of those for which a statement holds
LEMMA SequenceInduction ==
    ASSUME NEW S, NEW P, <<>> \in P,
           \A s \in Seq(S), e \in S : s \in P => Append(s, e) \in P
    PROVE  Seq(S) \subseteq P
<1> DEFINE T == {n \in Nat : \A s \in Seq(S) : Len(s) = n => s \in P}
<1>1. 0 \in T
  OBVIOUS
<1>2. ASSUME NEW n \in Nat, n \in T PROVE n + 1 \in T
  <2>1. ASSUME NEW s \in Seq(S), Len(s) = n + 1 PROVE s \in P
    <3>1. PICK r \in Seq(S), e \in S : s = Append(r, e)
      BY <2>1, SequenceEmptyOrAppend
    <3>2. Len(r) = n
      BY <2>1, <3>1
    <3> QED
      BY <1>2, <3>1, <3>2
  <2> QED
    BY <2>1
<1>3. Nat \subseteq T
  <2> HIDE DEF T
  <2> QED
    BY <1>1, <1>2, Induction
<1> QED
  BY <1>3

\* What is kept is made of members of the sequence
LEMMA KeepType ==
    ASSUME NEW S, NEW s \in Seq(S), NEW X
    PROVE  Keep(s, X) \in Seq(S)
<1> DEFINE P == {t \in Seq(S) : Keep(t, X) \in Seq(S)}
<1>1. <<>> \in P
  <2>1. <<>> \in Seq(S) /\ Keep(<<>>, X) = <<>>
    BY KeepEmpty
  <2> QED
    BY <2>1
<1>2. ASSUME NEW t \in Seq(S), NEW e \in S, t \in P PROVE Append(t, e) \in P
  <2>1. Append(t, e) \in Seq(S) /\ Append(Keep(t, X), e) \in Seq(S)
    BY <1>2
  <2>2. Keep(Append(t, e), X) \in Seq(S)
    BY <1>2, <2>1, KeepAppend
  <2> QED
    BY <2>1, <2>2
<1>3. Seq(S) \subseteq P
  <2> HIDE DEF P
  <2> QED
    BY <1>1, <1>2, SequenceInduction
<1> QED
  BY <1>3


\* The members of a sequence that grew by one
LEMMA ElementsAppend ==
    ASSUME NEW S, NEW s \in Seq(S), NEW e \in S
    PROVE  Elements(Append(s, e)) = Elements(s) \cup {e}
<1> DEFINE t == Append(s, e)
<1>1. /\ Len(s) \in Nat /\ Len(t) = Len(s) + 1 /\ t[Len(s) + 1] = e
      /\ \A i \in 1 .. Len(s) : t[i] = s[i]
      /\ DOMAIN t = 1 .. Len(t) /\ DOMAIN s = 1 .. Len(s)
  OBVIOUS
<1> HIDE DEF t
<1>2. Elements(t) = Elements(s) \cup {e}
  BY <1>1 DEF Elements
<1> QED
  BY <1>2 DEF t

\* The members kept are those in the set
LEMMA KeepMembers ==
    ASSUME NEW S, NEW s \in Seq(S), NEW X
    PROVE  Elements(Keep(s, X)) = Elements(s) \cap X
<1> DEFINE P == {t \in Seq(S) : Elements(Keep(t, X)) = Elements(t) \cap X}
<1>1. <<>> \in P
  BY KeepEmpty DEF Elements
<1>2. ASSUME NEW t \in Seq(S), NEW e \in S, t \in P PROVE Append(t, e) \in P
  <2>1. Keep(t, X) \in Seq(S)
    BY KeepType
  <2>2. Append(t, e) \in Seq(S) /\ Elements(Append(t, e)) = Elements(t) \cup {e}
    BY ElementsAppend
  <2>3. Elements(Append(Keep(t, X), e)) = Elements(Keep(t, X)) \cup {e}
    BY <2>1, ElementsAppend
  <2>4. Elements(Keep(t, X)) = Elements(t) \cap X
    BY <1>2
  <2>5. Keep(Append(t, e), X) = IF e \in X THEN Append(Keep(t, X), e) ELSE Keep(t, X)
    BY KeepAppend
  <2>6. CASE e \in X
    BY <2>2, <2>3, <2>4, <2>5, <2>6
  <2>7. CASE e \notin X
    BY <2>2, <2>4, <2>5, <2>7
  <2> QED
    BY <2>6, <2>7
<1>3. Seq(S) \subseteq P
  <2> HIDE DEF P
  <2> QED
    BY <1>1, <1>2, SequenceInduction
<1> QED
  BY <1>3

\* Keeping twice is keeping what is in both sets
LEMMA KeepTwice ==
    ASSUME NEW S, NEW s \in Seq(S), NEW X, NEW Y
    PROVE  Keep(Keep(s, X), Y) = Keep(s, X \cap Y)
<1> DEFINE P == {t \in Seq(S) : Keep(Keep(t, X), Y) = Keep(t, X \cap Y)}
<1>1. <<>> \in P
  BY KeepEmpty
<1>2. ASSUME NEW t \in Seq(S), NEW e \in S, t \in P PROVE Append(t, e) \in P
  <2>1. Keep(t, X) \in Seq(S)
    BY KeepType
  <2>2. Keep(Append(Keep(t, X), e), Y)
          = IF e \in Y THEN Append(Keep(Keep(t, X), Y), e) ELSE Keep(Keep(t, X), Y)
    BY <2>1, KeepAppend
  <2>3. Keep(Append(t, e), X \cap Y)
          = IF e \in X \cap Y THEN Append(Keep(t, X \cap Y), e) ELSE Keep(t, X \cap Y)
    BY KeepAppend
  <2>4. Keep(Append(t, e), X) = IF e \in X THEN Append(Keep(t, X), e) ELSE Keep(t, X)
    BY KeepAppend
  <2>5. Append(t, e) \in Seq(S) /\ Keep(Keep(t, X), Y) = Keep(t, X \cap Y)
    BY <1>2
  <2>6. Keep(Keep(Append(t, e), X), Y) = Keep(Append(t, e), X \cap Y)
    <3>1. CASE e \in X
      <4>1. CASE e \in Y
        BY <2>2, <2>3, <2>4, <2>5, <3>1, <4>1
      <4>2. CASE e \notin Y
        BY <2>2, <2>3, <2>4, <2>5, <3>1, <4>2
      <4> QED
        BY <4>1, <4>2
    <3>2. CASE e \notin X
      BY <2>3, <2>4, <2>5, <3>2
    <3> QED
      BY <3>1, <3>2
  <2> QED
    BY <2>5, <2>6
<1>3. Seq(S) \subseteq P
  <2> HIDE DEF P
  <2> QED
    BY <1>1, <1>2, SequenceInduction
<1> QED
  BY <1>3

\* What matters is which of its members are in the set
LEMMA KeepSame ==
    ASSUME NEW S, NEW s \in Seq(S), NEW X, NEW Y,
           \A i \in 1 .. Len(s) : s[i] \in X <=> s[i] \in Y
    PROVE  Keep(s, X) = Keep(s, Y)
<1> DEFINE Same(t) == \A i \in 1 .. Len(t) : t[i] \in X <=> t[i] \in Y
           P == {t \in Seq(S) : Same(t) => Keep(t, X) = Keep(t, Y)}
<1>1. <<>> \in P
  BY KeepEmpty
<1>2. ASSUME NEW t \in Seq(S), NEW e \in S, t \in P PROVE Append(t, e) \in P
  <2>1. Same(Append(t, e)) => Same(t) /\ (e \in X <=> e \in Y)
    OBVIOUS
  <2>2. Same(Append(t, e)) => Keep(Append(t, e), X) = Keep(Append(t, e), Y)
    <3>1. Same(t) => Keep(t, X) = Keep(t, Y)
      BY <1>2
    <3>2. Keep(Append(t, e), X) = IF e \in X THEN Append(Keep(t, X), e) ELSE Keep(t, X)
      BY KeepAppend
    <3>3. Keep(Append(t, e), Y) = IF e \in Y THEN Append(Keep(t, Y), e) ELSE Keep(t, Y)
      BY KeepAppend
    <3> HIDE DEF Same
    <3> QED
      BY <2>1, <3>1, <3>2, <3>3
  <2>3. Append(t, e) \in Seq(S)
    OBVIOUS
  <2> HIDE DEF Same
  <2> QED
    BY <2>2, <2>3
<1>3. Seq(S) \subseteq P
  <2> HIDE DEF P
  <2> QED
    BY <1>1, <1>2, SequenceInduction
<1> QED
  BY <1>3

\* A tail of which nothing is in the set adds nothing
LEMMA KeepPrefix ==
    ASSUME NEW S, NEW s \in Seq(S), NEW X, NEW k \in 0 .. Len(s),
           \A i \in k + 1 .. Len(s) : s[i] \notin X
    PROVE  Keep(s, X) = Keep(SubSeq(s, 1, k), X)
<1> DEFINE Out(t, l) == \A i \in l + 1 .. Len(t) : t[i] \notin X
           P == {t \in Seq(S) : \A l \in 0 .. Len(t) :
                    Out(t, l) => Keep(t, X) = Keep(SubSeq(t, 1, l), X)}
<1>1. <<>> \in P
  <2> DEFINE t == <<>>
  <2>1. t \in Seq(S) /\ Len(t) = 0 /\ SubSeq(t, 1, 0) = t
    OBVIOUS
  <2> HIDE DEF t
  <2>2. ASSUME NEW l \in 0 .. Len(t) PROVE Keep(t, X) = Keep(SubSeq(t, 1, l), X)
    <3>1. SubSeq(t, 1, l) = t
      BY <2>1
    <3> QED
      BY <3>1
  <2>3. t \in P
    BY <2>1, <2>2
  <2> QED
    BY <2>3 DEF t
<1>2. ASSUME NEW t \in Seq(S), NEW e \in S, t \in P PROVE Append(t, e) \in P
  <2> DEFINE u == Append(t, e)
  <2>0. u \in Seq(S) /\ Len(u) = Len(t) + 1 /\ u[Len(t) + 1] = e /\ Len(t) \in Nat
        /\ \A i \in 1 .. Len(t) : u[i] = t[i]
    OBVIOUS
  <2>1. ASSUME NEW l \in 0 .. Len(u), Out(u, l) PROVE Keep(u, X) = Keep(SubSeq(u, 1, l), X)
    <3>1. CASE l = Len(u)
      <4>1. SubSeq(u, 1, l) = u
        BY <2>0, <3>1, SubSeqFull
      <4> QED
        BY <4>1
    <3>2. CASE l # Len(u)
      <4> HIDE DEF u
      <4>1. l \in 0 .. Len(t) /\ Out(t, l) /\ e \notin X
        BY <2>0, <2>1, <3>2
      <4>2. SubSeq(u, 1, l) = SubSeq(t, 1, l)
        BY <2>0, <4>1
      <4>3. Keep(u, X) = Keep(t, X)
        BY <4>1, KeepAppend DEF u
      <4> QED
        BY <1>2, <4>1, <4>2, <4>3
    <3> QED
      BY <3>1, <3>2
  <2> QED
    BY <2>0, <2>1
<1>3. Seq(S) \subseteq P
  <2> HIDE DEF P
  <2> QED
    BY <1>1, <1>2, SequenceInduction
<1> QED
  BY <1>3

------------------------------------------------------------------------------
(* Order: every position has a place of its own, and scores descend along it *)

\* The members of a ranking at or above a position
Above(s, i) == {j \in DOMAIN s : \/ s[j] > s[i]
                                 \/ s[j] = s[i] /\ j <= i}

\* Places are positions
LEMMA PlaceType ==
    ASSUME NEW s \in Seq(Int), NEW i \in 1 .. Len(s)
    PROVE  /\ Above(s, i) \subseteq 1 .. Len(s) /\ IsFiniteSet(Above(s, i))
           /\ Place(s, i) = Cardinality(Above(s, i))
           /\ Place(s, i) \in 1 .. Len(s)
<1>1. Place(s, i) = Cardinality(Above(s, i))
  BY DEF Place, Above
<1>2. /\ Len(s) \in Nat /\ DOMAIN s = 1 .. Len(s) /\ s[i] \in Int
      /\ \A j \in 1 .. Len(s) : s[j] \in Int
  OBVIOUS
<1>3. Above(s, i) \subseteq 1 .. Len(s) /\ i \in Above(s, i)
  BY <1>2 DEF Above
<1>4. IsFiniteSet(1 .. Len(s)) /\ Cardinality(1 .. Len(s)) = Len(s)
  <2>1. 1 \in Int /\ Len(s) \in Int
    BY <1>2
  <2>2. Cardinality(1 .. Len(s)) = IF 1 > Len(s) THEN 0 ELSE Len(s) - 1 + 1
    BY <2>1, FS_Interval
  <2>3. IsFiniteSet(1 .. Len(s))
    BY <2>1, FS_Interval
  <2>4. \A n \in Nat : (IF 1 > n THEN 0 ELSE n - 1 + 1) = n
    OBVIOUS
  <2>5. Cardinality(1 .. Len(s)) = Len(s)
    BY <1>2, <2>2, <2>4, Zenon
  <2> QED
    BY <2>3, <2>5
<1>5. IsFiniteSet(Above(s, i)) /\ Cardinality(Above(s, i)) <= Len(s)
  BY <1>3, <1>4, FS_Subset
<1>6. Cardinality(Above(s, i)) \in Nat /\ Cardinality(Above(s, i)) # 0
  BY <1>3, <1>5, FS_CardinalityType, FS_EmptySet
<1> QED
  BY <1>1, <1>2, <1>3, <1>5, <1>6

\* What is better, or as good and earlier, has the smaller place
LEMMA PlaceGrows ==
    ASSUME NEW s \in Seq(Int), NEW i \in 1 .. Len(s), NEW j \in 1 .. Len(s), i # j,
           s[i] > s[j] \/ (s[i] = s[j] /\ i <= j)
    PROVE  Place(s, i) < Place(s, j)
<1>1. /\ Len(s) \in Nat /\ DOMAIN s = 1 .. Len(s)
      /\ \A k \in 1 .. Len(s) : s[k] \in Int
  OBVIOUS
<1>2. Above(s, i) \subseteq Above(s, j) /\ j \in Above(s, j) /\ j \notin Above(s, i)
  BY <1>1 DEF Above
<1>3. /\ IsFiniteSet(Above(s, j))
      /\ Place(s, i) = Cardinality(Above(s, i)) /\ Place(s, j) = Cardinality(Above(s, j))
      /\ Place(s, i) \in Nat /\ Place(s, j) \in Nat
  <2>1. /\ IsFiniteSet(Above(s, j)) /\ Place(s, j) = Cardinality(Above(s, j))
        /\ Place(s, j) \in 1 .. Len(s)
    BY PlaceType
  <2>2. Place(s, i) = Cardinality(Above(s, i)) /\ Place(s, i) \in 1 .. Len(s)
    BY PlaceType
  <2> QED
    BY <2>1, <2>2, <1>1
<1>4. /\ Cardinality(Above(s, i)) <= Cardinality(Above(s, j))
      /\ Cardinality(Above(s, j)) = Cardinality(Above(s, i)) => Above(s, j) = Above(s, i)
  <2>1. Above(s, i) \in SUBSET Above(s, j)
    BY <1>2
  <2> QED
    BY <2>1, <1>3, FS_Subset
<1> QED
  BY <1>2, <1>3, <1>4

\* Two positions do not share a place, and every place is taken
LEMMA PlacesTaken ==
    ASSUME NEW s \in Seq(Int)
    PROVE  /\ \A i, j \in 1 .. Len(s) : Place(s, i) = Place(s, j) => i = j
           /\ \A p \in 1 .. Len(s) : \E i \in 1 .. Len(s) : Place(s, i) = p
<1> DEFINE N == 1 .. Len(s)
           f == [i \in N |-> Place(s, i)]
<1>1. /\ Len(s) \in Nat
      /\ \A k \in N : s[k] \in Int
  OBVIOUS
<1>2. f \in [N -> N]
  BY PlaceType
<1>3. ASSUME NEW i \in N, NEW j \in N, i # j PROVE Place(s, i) # Place(s, j)
  <2>1. Place(s, i) \in Int /\ Place(s, j) \in Int
    BY PlaceType
  <2>2. \/ s[i] > s[j] \/ (s[i] = s[j] /\ i <= j)
        \/ s[j] > s[i] \/ (s[j] = s[i] /\ j <= i)
    BY <1>1
  <2>3. Place(s, i) < Place(s, j) \/ Place(s, j) < Place(s, i)
    BY <1>3, <2>2, PlaceGrows
  <2> QED
    BY <2>1, <2>3
<1>4. \A i, j \in N : f[i] = f[j] => i = j
  BY <1>3
<1>5. f \in Injection(N, N)
  <2> HIDE DEF f
  <2> QED
    BY <1>2, <1>4, Fun_IsInj
<1>6. IsFiniteSet(N)
  BY <1>1, FS_Interval
<1>7. f \in Surjection(N, N)
  <2> HIDE DEF f, N
  <2> QED
    BY <1>5, <1>6, FS_Injection
<1>8. \A p \in N : \E i \in N : f[i] = p
  <2> HIDE DEF f, N
  <2> QED
    BY <1>7, Fun_SurjectionProperties
<1> QED
  BY <1>3, <1>8

\* Order and Place are inverse to each other
LEMMA OrderPlaces ==
    ASSUME NEW s \in Seq(Int)
    PROVE  /\ Order(s) \in Seq(1 .. Len(s)) /\ Len(Order(s)) = Len(s)
           /\ \A p \in 1 .. Len(s) : /\ Order(s)[p] \in 1 .. Len(s)
                                     /\ Place(s, Order(s)[p]) = p
           /\ \A i \in 1 .. Len(s) : Order(s)[Place(s, i)] = i
<1>1. DOMAIN s = 1 .. Len(s) /\ Len(s) \in Nat
  OBVIOUS
<1>2. ASSUME NEW p \in 1 .. Len(s)
      PROVE  Order(s)[p] \in 1 .. Len(s) /\ Place(s, Order(s)[p]) = p
  <2>1. \E i \in 1 .. Len(s) : Place(s, i) = p
    BY PlacesTaken
  <2>2. Order(s)[p] = CHOOSE i \in 1 .. Len(s) : Place(s, i) = p
    BY <1>1 DEF Order
  <2> QED
    BY <2>1, <2>2
<1>3. Order(s) \in [1 .. Len(s) -> 1 .. Len(s)]
  BY <1>1, <1>2 DEF Order
<1>4. Order(s) \in Seq(1 .. Len(s)) /\ Len(Order(s)) = Len(s)
  BY <1>1, <1>3
<1>5. ASSUME NEW i \in 1 .. Len(s) PROVE Order(s)[Place(s, i)] = i
  <2>1. Place(s, i) \in 1 .. Len(s)
    BY PlaceType
  <2>2. Order(s)[Place(s, i)] \in 1 .. Len(s) /\ Place(s, Order(s)[Place(s, i)]) = Place(s, i)
    BY <1>2, <2>1
  <2> QED
    BY <2>2, PlacesTaken
<1> QED
  BY <1>2, <1>4, <1>5

\* A ranking never gains on the way down
LEMMA OrderDescends ==
    ASSUME NEW s \in Seq(Int), NEW p \in 1 .. Len(s), NEW q \in 1 .. Len(s), p <= q
    PROVE  s[Order(s)[p]] >= s[Order(s)[q]]
<1> DEFINE i == Order(s)[p]
           j == Order(s)[q]
<1>1. i \in 1 .. Len(s) /\ j \in 1 .. Len(s) /\ Place(s, i) = p /\ Place(s, j) = q
  BY OrderPlaces
<1> HIDE DEF i, j
<1>2. s[i] \in Int /\ s[j] \in Int
  BY <1>1
<1>3. s[j] > s[i] => i # j
  BY <1>2
<1>4. s[j] > s[i] => q < p
  BY <1>1, <1>3, PlaceGrows
<1>5. s[i] >= s[j]
  BY <1>1, <1>2, <1>4
<1> QED
  BY <1>5 DEF i, j

\* What descends is in order
LEMMA OrderOfDescending ==
    ASSUME NEW s \in Seq(Int),
           \A p, q \in 1 .. Len(s) : p <= q => s[p] >= s[q]
    PROVE  \A p \in 1 .. Len(s) : Order(s)[p] = p
<1>1. /\ Len(s) \in Nat /\ DOMAIN s = 1 .. Len(s)
      /\ \A k \in 1 .. Len(s) : s[k] \in Int
  OBVIOUS
<1>2. ASSUME NEW p \in 1 .. Len(s) PROVE Place(s, p) = p
  <2>1. Above(s, p) = 1 .. p
    BY <1>1 DEF Above
  <2>2. Cardinality(1 .. p) = p
    <3>1. 1 \in Int /\ p \in Int /\ ~ (1 > p) /\ p - 1 + 1 = p
      BY <1>1
    <3>2. Cardinality(1 .. p) = IF 1 > p THEN 0 ELSE p - 1 + 1
      BY <3>1, FS_Interval
    <3> QED
      BY <3>1, <3>2
  <2> QED
    BY <2>1, <2>2, PlaceType
<1> QED
  BY <1>2, OrderPlaces

------------------------------------------------------------------------------
(* One query of the export: what it accepts and refuses                     *)

Ranked(scores) == Best(scores, TopK)
Judging(raw, scores) == Cosines(raw, Ranked(scores))
Verdict(raw, scores) == Accepted(Sorted(Judging(raw, scores)))
\* The candidates that are accepted, in cosine order
AcceptedIds(raw, scores) ==
    {Ranked(scores)[Order(Judging(raw, scores))[place]] :
        place \in {p \in 1 .. TopK : Verdict(raw, scores)[p]}}

\* The best of a gallery are positions of it, each once
LEMMA BestType ==
    ASSUME NEW scores \in Seq(Int), NEW k \in 1 .. Len(scores)
    PROVE  /\ Best(scores, k) \in Seq(1 .. Len(scores)) /\ Len(Best(scores, k)) = k
           /\ \A r \in 1 .. k : Best(scores, k)[r] = Order(scores)[r]
<1>1. Order(scores) \in Seq(1 .. Len(scores)) /\ Len(Order(scores)) = Len(scores)
  BY OrderPlaces
<1>2. Len(scores) \in Nat
  OBVIOUS
<1>3. 1 \in Int /\ k \in Int /\ \A i \in 1 .. k : Order(scores)[i] \in 1 .. Len(scores)
  BY <1>1, <1>2
<1>4. /\ SubSeq(Order(scores), 1, k) \in Seq(1 .. Len(scores))
      /\ Len(SubSeq(Order(scores), 1, k)) = IF 1 <= k THEN k - 1 + 1 ELSE 0
      /\ \A i \in 1 .. k - 1 + 1 : SubSeq(Order(scores), 1, k)[i] = Order(scores)[1 + i - 1]
  BY <1>3, SubSeqProperties
<1>5. 1 <= k /\ k - 1 + 1 = k /\ \A i \in 1 .. k : 1 + i - 1 = i
  BY <1>2
<1> HIDE DEF Order
<1> QED
  BY <1>4, <1>5 DEF Best

\* The cosines that are judged
LEMMA JudgingType ==
    ASSUME NEW raw \in Seq(Int), NEW scores \in Seq(Int),
           Len(raw) = Len(scores), TopK <= Len(scores)
    PROVE  /\ Ranked(scores) \in Seq(1 .. Len(scores)) /\ Len(Ranked(scores)) = TopK
           /\ Judging(raw, scores) \in Seq(Int) /\ Len(Judging(raw, scores)) = TopK
           /\ \A r \in 1 .. TopK :
                 /\ Ranked(scores)[r] = Order(scores)[r]
                 /\ Ranked(scores)[r] \in 1 .. Len(scores)
                 /\ Judging(raw, scores)[r] = raw[Ranked(scores)[r]]
                 /\ Order(Judging(raw, scores))[r] \in 1 .. TopK
                 /\ Sorted(Judging(raw, scores))[r]
                      = Judging(raw, scores)[Order(Judging(raw, scores))[r]]
<1>1. TopK \in 1 .. Len(scores) /\ TopK \in Nat
  BY TopKAssumption
<1>2. /\ Ranked(scores) \in Seq(1 .. Len(scores)) /\ Len(Ranked(scores)) = TopK
      /\ \A r \in 1 .. TopK : Ranked(scores)[r] = Order(scores)[r]
  BY <1>1, BestType DEF Ranked
<1>3. \A r \in 1 .. TopK : Ranked(scores)[r] \in 1 .. Len(scores)
  <2>1. \A r \in 1 .. TopK : r \in 1 .. Len(scores)
    BY <1>1
  <2> QED
    BY <1>2, <2>1, OrderPlaces
<1>4. \A i \in 1 .. Len(scores) : raw[i] \in Int
  OBVIOUS
<1>5. Judging(raw, scores) \in [1 .. TopK -> Int]
  BY <1>3, <1>4 DEF Judging, Cosines
<1>6. Judging(raw, scores) \in Seq(Int) /\ Len(Judging(raw, scores)) = TopK
  <2> HIDE DEF Judging
  <2> QED
    BY <1>1, <1>5
<1>7. \A r \in 1 .. TopK : Judging(raw, scores)[r] = raw[Ranked(scores)[r]]
  BY DEF Judging, Cosines
<1>8. \A r \in 1 .. TopK : Order(Judging(raw, scores))[r] \in 1 .. TopK
  BY <1>6, OrderPlaces
<1>9. \A r \in 1 .. TopK : Sorted(Judging(raw, scores))[r]
                      = Judging(raw, scores)[Order(Judging(raw, scores))[r]]
  BY DEF Sorted
<1> QED
  BY <1>2, <1>3, <1>6, <1>7, <1>8, <1>9

\* Verdicts put back in the order of the ranking accept the candidates that
\* were accepted in the order of the cosine
LEMMA JudgeRestores ==
    ASSUME NEW raw \in Seq(Int), NEW scores \in Seq(Int),
           Len(raw) = Len(scores), TopK <= Len(scores)
    PROVE  /\ ExportRow(raw, scores).ranked = Ranked(scores)
           /\ ExportRow(raw, scores).accepted = Keep(Ranked(scores), AcceptedIds(raw, scores))
<1> DEFINE ranked == Ranked(scores)
           order == Order(Judging(raw, scores))
           verdict == Verdict(raw, scores)
           judged == {ranked[r] : r \in {p \in 1 .. TopK : Judge(raw, ranked)[p]}}
<1>1. \A r \in 1 .. TopK :
        Judge(raw, ranked)[r] = \E place \in 1 .. TopK : order[place] = r /\ verdict[place]
  BY DEF Judge, Judging, Verdict
<1>2. \A place \in 1 .. TopK : order[place] \in 1 .. TopK
  BY JudgingType
<1>3. judged = AcceptedIds(raw, scores)
  <2> HIDE DEF ranked, order, verdict
  <2>1. AcceptedIds(raw, scores) = {ranked[order[place]] : place \in {p \in 1 .. TopK : verdict[p]}}
    BY DEF AcceptedIds, ranked, order, verdict
  <2>2. ASSUME NEW i \in judged PROVE i \in AcceptedIds(raw, scores)
    <3>1. PICK r \in 1 .. TopK : Judge(raw, ranked)[r] /\ i = ranked[r]
      OBVIOUS
    <3>2. PICK place \in 1 .. TopK : order[place] = r /\ verdict[place]
      BY <1>1, <3>1
    <3> QED
      BY <2>1, <3>1, <3>2
  <2>3. ASSUME NEW i \in AcceptedIds(raw, scores) PROVE i \in judged
    <3>1. PICK place \in 1 .. TopK : verdict[place] /\ i = ranked[order[place]]
      BY <2>1
    <3>2. order[place] \in 1 .. TopK /\ Judge(raw, ranked)[order[place]]
      BY <1>1, <1>2, <3>1
    <3> QED
      BY <3>1, <3>2
  <2> QED
    BY <2>2, <2>3
<1> QED
  BY <1>3 DEF ExportRow, Ranked

\* The policy accepts a prefix of the sorted cosines
LEMMA AcceptedIsPrefix ==
    ASSUME NEW sorted, PolicyAnswers(sorted),
           NEW p \in 1 .. TopK, NEW q \in 1 .. TopK, q <= p, Accepted(sorted)[p]
    PROVE  Accepted(sorted)[q]
<1> DEFINE T == {n \in Nat : p - n >= 1 => Accepted(sorted)[p - n]}
<1>0. TopK \in Nat
  BY TopKAssumption
<1>1. 0 \in T
  BY <1>0
<1>2. ASSUME NEW n \in Nat, n \in T PROVE n + 1 \in T
  <2>1. CASE p - (n + 1) >= 1
    <3>1. p - n \in 2 .. TopK /\ (p - n) - 1 = p - (n + 1)
      BY <1>0, <2>1
    <3>2. Accepted(sorted)[p - n]
      BY <1>2, <2>1
    <3> DEFINE r == p - n
    <3>3. r \in 2 .. TopK /\ Accepted(sorted)[r]
      BY <3>1, <3>2
    <3> HIDE DEF r
    <3>4. Accepted(sorted)[r - 1]
      BY <3>3, Zenon DEF PolicyAnswers
    <3>5. r - 1 = p - (n + 1)
      BY <3>1 DEF r
    <3>6. Accepted(sorted)[p - (n + 1)]
      BY <3>4, <3>5, Zenon
    <3> HIDE DEF r
    <3> QED
      BY <3>6
  <2> QED
    BY <2>1
<1>3. Nat \subseteq T
  <2> HIDE DEF T
  <2> QED
    BY <1>1, <1>2, Induction
<1>4. p - q \in Nat /\ p - (p - q) = q
  BY <1>0
<1> QED
  BY <1>3, <1>4

\* Refusal by the raw cosine: whatever ranked the candidates, an accepted one
\* reaches the threshold, and a better one of the ranked is accepted too
LEMMA RowRefusesByCosine ==
    ASSUME NEW raw \in Seq(Int), NEW scores \in Seq(Int),
           Len(raw) = Len(scores), TopK <= Len(scores),
           PolicyAnswers(Sorted(Judging(raw, scores))),
           NEW a \in Elements(ExportRow(raw, scores).accepted)
    PROVE  /\ raw[a] >= Threshold
           /\ \A b \in Elements(ExportRow(raw, scores).ranked) :
                 raw[b] > raw[a] => b \in Elements(ExportRow(raw, scores).accepted)
<1> DEFINE ranked == Ranked(scores)
           cosines == Judging(raw, scores)
           order == Order(cosines)
           verdict == Verdict(raw, scores)
<1>0. TopK \in Nat /\ Threshold \in Int /\ Len(ranked) = TopK /\ DOMAIN ranked = 1 .. TopK
  BY TopKAssumption, JudgingType
<1>1. Elements(ExportRow(raw, scores).accepted) = Elements(ranked) \cap AcceptedIds(raw, scores)
  <2>1. ranked \in Seq(1 .. Len(scores))
    BY JudgingType
  <2> HIDE DEF ranked
  <2>2. Elements(Keep(ranked, AcceptedIds(raw, scores))) = Elements(ranked) \cap AcceptedIds(raw, scores)
    BY <2>1, KeepMembers
  <2> QED
    BY <2>2, JudgeRestores DEF ranked
<1>2. /\ cosines \in Seq(Int) /\ Len(cosines) = TopK
      /\ \A r \in 1 .. TopK : /\ cosines[r] = raw[ranked[r]]
                              /\ ranked[r] \in 1 .. Len(scores)
                              /\ order[r] \in 1 .. TopK
                              /\ Sorted(cosines)[r] = cosines[order[r]]
                              /\ cosines[r] \in Int
  BY JudgingType
<1>3. PICK place \in 1 .. TopK : verdict[place] /\ a = ranked[order[place]]
  BY <1>1 DEF AcceptedIds
<1>4. \A r \in 1 .. TopK : verdict[r] => cosines[order[r]] >= Threshold
  BY <1>2 DEF Verdict, Accepted
<1>5. raw[a] = cosines[order[place]]
  BY <1>2, <1>3
<1>6. ASSUME NEW b \in Elements(ranked), raw[b] > raw[a] PROVE b \in AcceptedIds(raw, scores)
  <2>1. PICK r \in 1 .. TopK : b = ranked[r]
    BY <1>0 DEF Elements
  <2> DEFINE at == Place(cosines, r)
  <2>2. at \in 1 .. TopK /\ order[at] = r
    BY <1>2, PlaceType, OrderPlaces
  <2> HIDE DEF at
  <2>3. cosines[order[at]] > cosines[order[place]]
    BY <1>2, <1>5, <1>6, <2>1, <2>2
  <2>4. ~ (place <= at)
    <3> SUFFICES ASSUME place <= at PROVE FALSE
      OBVIOUS
    <3>1. cosines[order[place]] >= cosines[order[at]]
      BY <1>2, <2>2, OrderDescends
    <3>2. cosines[order[place]] \in Int /\ cosines[order[at]] \in Int
      BY <1>2, <2>2
    <3> HIDE DEF cosines, order
    <3> QED
      BY <2>3, <3>1, <3>2
  <2>5. at <= place
    BY <1>0, <2>2, <2>4
  <2>6. verdict[at]
    BY <1>3, <2>2, <2>5, AcceptedIsPrefix DEF Verdict
  <2> QED
    BY <2>1, <2>2, <2>6 DEF AcceptedIds
<1>7. ExportRow(raw, scores).ranked = ranked
  BY JudgeRestores
<1> QED
  BY <1>1, <1>3, <1>4, <1>5, <1>6, <1>7

------------------------------------------------------------------------------
(* One query of the ML service: the same answer                             *)

\* The first members of a sequence
LEMMA FirstMembers ==
    ASSUME NEW S, NEW s \in Seq(S), NEW k \in 0 .. Len(s)
    PROVE  /\ SubSeq(s, 1, k) \in Seq(S) /\ Len(SubSeq(s, 1, k)) = k
           /\ \A i \in 1 .. k : SubSeq(s, 1, k)[i] = s[i]
           /\ Elements(SubSeq(s, 1, k)) = {s[i] : i \in 1 .. k}
           /\ \A j \in 0 .. k : SubSeq(SubSeq(s, 1, k), 1, j) = SubSeq(s, 1, j)
<1> DEFINE t == SubSeq(s, 1, k)
<1>1. t \in Seq(S) /\ Len(t) = k /\ Len(s) \in Nat /\ \A i \in 1 .. k : t[i] = s[i]
  OBVIOUS
<1>2. DOMAIN t = 1 .. k
  BY <1>1
<1> HIDE DEF t
<1>3. Elements(t) = {s[i] : i \in 1 .. k}
  BY <1>1, <1>2 DEF Elements
<1>4. ASSUME NEW j \in 0 .. k PROVE SubSeq(t, 1, j) = SubSeq(s, 1, j)
  <2> DEFINE u == SubSeq(t, 1, j)
             v == SubSeq(s, 1, j)
  <2>1. u \in Seq(S) /\ Len(u) = j /\ \A i \in 1 .. j : u[i] = t[i]
    BY <1>1
  <2>2. v \in Seq(S) /\ Len(v) = j /\ \A i \in 1 .. j : v[i] = s[i]
    BY <1>1
  <2> HIDE DEF u, v
  <2>3. Len(u) = Len(v) /\ \A i \in 1 .. Len(u) : u[i] = v[i]
    BY <1>1, <2>1, <2>2
  <2>4. u = v
    BY <2>1, <2>2, <2>3, SeqEqual
  <2> QED
    BY <2>4 DEF u, v
<1> QED
  BY <1>1, <1>3, <1>4 DEF t

\* Of a ranking, what is kept of the first j is what is kept of the first k
\* and is among the first j, when nothing but the first k is kept
LEMMA KeepOfFirst ==
    ASSUME NEW S, NEW s \in Seq(S),
           \A m, n \in 1 .. Len(s) : s[m] = s[n] => m = n,
           NEW j \in 1 .. Len(s), NEW k \in 1 .. Len(s),
           NEW X, X \subseteq {s[i] : i \in 1 .. k}
    PROVE  Keep(SubSeq(s, 1, j), X)
             = Keep(Keep(SubSeq(s, 1, k), X), Elements(SubSeq(s, 1, j)))
<1> DEFINE J == {s[i] : i \in 1 .. j}
           sj == SubSeq(s, 1, j)
           sk == SubSeq(s, 1, k)
<1>0. Len(s) \in Nat
  OBVIOUS
<1>1. sj \in Seq(S) /\ Len(sj) = j /\ Elements(sj) = J /\ \A i \in 1 .. j : sj[i] = s[i]
  BY FirstMembers
<1>2. sk \in Seq(S) /\ Len(sk) = k /\ \A i \in 1 .. k : sk[i] = s[i]
  BY FirstMembers
<1>3. j <= k => SubSeq(sk, 1, j) = sj
  BY FirstMembers
<1>4. k <= j => SubSeq(sj, 1, k) = sk
  BY FirstMembers
<1> HIDE DEF sj, sk
<1>5. Keep(Keep(sk, X), J) = Keep(sk, X \cap J)
  BY <1>2, KeepTwice
<1>6. CASE j <= k
  <2>1. \A i \in j + 1 .. k : sk[i] \notin X \cap J
    BY <1>0, <1>2
  <2>2. Keep(sk, X \cap J) = Keep(sj, X \cap J)
    <3>1. j \in 0 .. Len(sk) /\ \A i \in j + 1 .. Len(sk) : sk[i] \notin X \cap J
      BY <1>0, <1>2, <1>6, <2>1
    <3>2. Keep(sk, X \cap J) = Keep(SubSeq(sk, 1, j), X \cap J)
      BY <1>2, <3>1, KeepPrefix
    <3> QED
      BY <1>3, <1>6, <3>2
  <2>3. \A i \in 1 .. Len(sj) : sj[i] \in X \cap J <=> sj[i] \in X
    BY <1>0, <1>1
  <2>4. Keep(sj, X \cap J) = Keep(sj, X)
    BY <1>1, <2>3, KeepSame
  <2> QED
    BY <1>1, <1>5, <2>2, <2>4 DEF sj, sk
<1>7. CASE k <= j
  <2>1. k \in 0 .. Len(sj) /\ \A i \in k + 1 .. Len(sj) : sj[i] \notin X
    BY <1>0, <1>1, <1>7
  <2>2. Keep(sj, X) = Keep(SubSeq(sj, 1, k), X)
    BY <1>1, <2>1, KeepPrefix
  <2>3. \A i \in 1 .. Len(sk) : sk[i] \in X \cap J <=> sk[i] \in X
    BY <1>0, <1>2, <1>7
  <2>4. Keep(sk, X \cap J) = Keep(sk, X)
    BY <1>2, <2>3, KeepSame
  <2> QED
    BY <1>1, <1>4, <1>5, <1>7, <2>2, <2>4 DEF sj, sk
<1> QED
  BY <1>0, <1>6, <1>7

\* A ranking has every position once
LEMMA OrderOnce ==
    ASSUME NEW s \in Seq(Int)
    PROVE  \A m, n \in 1 .. Len(Order(s)) : Order(s)[m] = Order(s)[n] => m = n
<1>1. \A p \in 1 .. Len(s) : Place(s, Order(s)[p]) = p
  BY OrderPlaces
<1>2. Len(Order(s)) = Len(s)
  BY OrderPlaces
<1> QED
  BY <1>1, <1>2

\* What a client sees of an answer, and what the export wrote, whatever is
\* accepted among the ranked
LEMMA AnswerOfRow ==
    ASSUME NEW scores \in Seq(Int), TopK <= Len(scores),
           NEW topk \in 1 .. Len(scores),
           NEW ids, ids \subseteq Elements(Ranked(scores))
    PROVE  /\ Prefix(Best(scores, topk), TopK) = Prefix(Ranked(scores), topk)
           /\ Keep(Best(scores, topk), ids)
                = Keep(Keep(Ranked(scores), ids), Elements(Best(scores, topk)))
<1> DEFINE o == Order(scores)
           S == 1 .. Len(scores)
<1>1. o \in Seq(S) /\ Len(o) = Len(scores) /\ Len(scores) \in Nat
  BY OrderPlaces
<1>2. TopK \in 1 .. Len(o) /\ topk \in 1 .. Len(o)
  BY <1>1, TopKAssumption
<1>3. \A m, n \in 1 .. Len(o) : o[m] = o[n] => m = n
  BY OrderOnce
<1>4. Best(scores, topk) = SubSeq(o, 1, topk) /\ Ranked(scores) = SubSeq(o, 1, TopK)
  BY DEF Best, Ranked
<1> HIDE DEF o, S
<1>5. /\ Len(SubSeq(o, 1, topk)) = topk /\ Len(SubSeq(o, 1, TopK)) = TopK
      /\ Elements(SubSeq(o, 1, TopK)) = {o[i] : i \in 1 .. TopK}
      /\ TopK <= topk => SubSeq(SubSeq(o, 1, topk), 1, TopK) = SubSeq(o, 1, TopK)
      /\ topk <= TopK => SubSeq(SubSeq(o, 1, TopK), 1, topk) = SubSeq(o, 1, topk)
  <2>1. TopK \in 0 .. Len(o) /\ topk \in 0 .. Len(o) /\ TopK \in Nat /\ topk \in Nat
    BY <1>1, <1>2
  <2>2. /\ Len(SubSeq(o, 1, topk)) = topk
        /\ \A j \in 0 .. topk : SubSeq(SubSeq(o, 1, topk), 1, j) = SubSeq(o, 1, j)
    BY <1>1, <2>1, FirstMembers
  <2>3. /\ Len(SubSeq(o, 1, TopK)) = TopK
        /\ Elements(SubSeq(o, 1, TopK)) = {o[i] : i \in 1 .. TopK}
        /\ \A j \in 0 .. TopK : SubSeq(SubSeq(o, 1, TopK), 1, j) = SubSeq(o, 1, j)
    BY <1>1, <2>1, FirstMembers
  <2>4. /\ TopK <= topk => TopK \in 0 .. topk
        /\ topk <= TopK => topk \in 0 .. TopK
    BY <2>1
  <2> QED
    BY <2>2, <2>3, <2>4
<1>6. Prefix(SubSeq(o, 1, topk), TopK) = Prefix(SubSeq(o, 1, TopK), topk)
  <2> DEFINE sj == SubSeq(o, 1, topk)
             sk == SubSeq(o, 1, TopK)
  <2>1. TopK \in Nat /\ topk \in Nat /\ TopK # 0 /\ topk # 0
    BY <1>1, <1>2
  <2>5. /\ Len(sj) = topk /\ Len(sk) = TopK
        /\ TopK <= topk => SubSeq(sj, 1, TopK) = sk
        /\ topk <= TopK => SubSeq(sk, 1, topk) = sj
    BY <1>5
  <2> HIDE DEF sj, sk
  <2>2. CASE topk < TopK
    <3>1. Prefix(sj, TopK) = sj /\ Prefix(sk, topk) = SubSeq(sk, 1, topk)
      BY <2>1, <2>5, <2>2 DEF Prefix
    <3> QED
      BY <2>1, <2>2, <2>5, <3>1 DEF sj, sk
  <2>3. CASE TopK < topk
    <3>1. Prefix(sk, topk) = sk /\ Prefix(sj, TopK) = SubSeq(sj, 1, TopK)
      BY <2>1, <2>5, <2>3 DEF Prefix
    <3> QED
      BY <2>1, <2>3, <2>5, <3>1 DEF sj, sk
  <2>4. CASE topk = TopK
    BY <2>4
  <2> QED
    BY <2>1, <2>2, <2>3, <2>4
<1>7. Keep(SubSeq(o, 1, topk), ids)
        = Keep(Keep(SubSeq(o, 1, TopK), ids), Elements(SubSeq(o, 1, topk)))
  BY <1>1, <1>2, <1>3, <1>4, <1>5, KeepOfFirst
<1> QED
  BY <1>4, <1>6, <1>7

\* What is accepted was ranked
LEMMA AcceptedWasRanked ==
    ASSUME NEW raw \in Seq(Int), NEW scores \in Seq(Int),
           Len(raw) = Len(scores), TopK <= Len(scores)
    PROVE  AcceptedIds(raw, scores) \subseteq Elements(Ranked(scores))
<1>1. DOMAIN Ranked(scores) = 1 .. TopK
  BY JudgingType
<1>2. \A place \in 1 .. TopK : Order(Judging(raw, scores))[place] \in 1 .. TopK
  BY JudgingType
<1> QED
  BY <1>1, <1>2 DEF AcceptedIds, Elements

\* search_batch answers a query of a cohort as the export does
LEMMA BatchAgrees ==
    ASSUME NEW raw \in Seq(Int), NEW scores \in Seq(Int),
           Len(raw) = Len(scores), TopK <= Len(scores), NEW topk \in 1 .. Len(scores)
    PROVE  LET row == ExportRow(raw, scores)
               answer == BatchAnswer(raw, scores, topk)
           IN  /\ Prefix(answer.ranked, TopK) = Prefix(row.ranked, topk)
               /\ answer.accepted = Keep(row.accepted, Elements(answer.ranked))
<1> DEFINE answer == BatchAnswer(raw, scores, topk)
<1>1. answer.ranked = Best(scores, topk)
  BY DEF BatchAnswer, Best
<1>2. answer.accepted = Keep(Best(scores, topk), AcceptedIds(raw, scores))
  BY DEF BatchAnswer, Best, AcceptedIds, Judging, Verdict, Ranked
<1> HIDE DEF answer
<1>3. AcceptedIds(raw, scores) \subseteq Elements(Ranked(scores))
  BY AcceptedWasRanked
<1>4. /\ Prefix(Best(scores, topk), TopK) = Prefix(Ranked(scores), topk)
      /\ Keep(Best(scores, topk), AcceptedIds(raw, scores))
           = Keep(Keep(Ranked(scores), AcceptedIds(raw, scores)), Elements(Best(scores, topk)))
  BY <1>3, AnswerOfRow
<1>5. /\ ExportRow(raw, scores).ranked = Ranked(scores)
      /\ ExportRow(raw, scores).accepted = Keep(Ranked(scores), AcceptedIds(raw, scores))
  BY JudgeRestores
<1> QED
  BY <1>1, <1>2, <1>4, <1>5 DEF answer

\* Candidates that the raw cosine ranked are in cosine order already
LEMMA SearchAccepts ==
    ASSUME NEW raw \in Seq(Int), TopK <= Len(raw)
    PROVE  AcceptedIds(raw, raw)
             = {Order(raw)[r] : r \in {p \in 1 .. TopK : Accepted(Sorted(raw))[p]}}
<1> DEFINE cosines == Judging(raw, raw)
<1>1. /\ cosines \in Seq(Int) /\ Len(cosines) = TopK
      /\ \A r \in 1 .. TopK :
            /\ Ranked(raw)[r] = Order(raw)[r]
            /\ cosines[r] = raw[Order(raw)[r]]
            /\ Sorted(cosines)[r] = cosines[Order(cosines)[r]]
  <2>1. /\ Judging(raw, raw) \in Seq(Int) /\ Len(Judging(raw, raw)) = TopK
        /\ \A r \in 1 .. TopK :
            /\ Ranked(raw)[r] = Order(raw)[r]
            /\ Judging(raw, raw)[r] = raw[Ranked(raw)[r]]
            /\ Sorted(Judging(raw, raw))[r] = Judging(raw, raw)[Order(Judging(raw, raw))[r]]
    BY JudgingType
  <2> QED
    BY <2>1
<1> HIDE DEF cosines
<1>2. \A p, q \in 1 .. TopK : p <= q => cosines[p] >= cosines[q]
  <2>1. \A p \in 1 .. TopK : p \in 1 .. Len(raw)
    BY TopKAssumption
  <2> QED
    BY <1>1, <2>1, OrderDescends
<1>3. \A p \in 1 .. TopK : Order(cosines)[p] = p
  BY <1>1, <1>2, OrderOfDescending
<1>4. Sorted(cosines) = Sorted(raw)
  BY <1>1, <1>3 DEF Sorted
<1>5. AcceptedIds(raw, raw)
        = {Ranked(raw)[Order(cosines)[r]] : r \in {p \in 1 .. TopK : Accepted(Sorted(raw))[p]}}
  BY <1>4 DEF AcceptedIds, Verdict, cosines
<1>6. \A r \in 1 .. TopK : Ranked(raw)[Order(cosines)[r]] = Order(raw)[r]
  BY <1>1, <1>3
<1> QED
  BY <1>5, <1>6

\* search answers a single query as the export does
LEMMA SearchAgrees ==
    ASSUME NEW raw \in Seq(Int), TopK <= Len(raw), NEW topk \in 1 .. Len(raw)
    PROVE  LET row == ExportRow(raw, raw)
               answer == SearchAnswer(raw, topk)
           IN  /\ Prefix(answer.ranked, TopK) = Prefix(row.ranked, topk)
               /\ answer.accepted = Keep(row.accepted, Elements(answer.ranked))
<1> DEFINE answer == SearchAnswer(raw, topk)
<1>1. answer.ranked = Best(raw, topk)
  BY DEF SearchAnswer, Best
<1>2. answer.accepted = Keep(Best(raw, topk), AcceptedIds(raw, raw))
  BY SearchAccepts DEF SearchAnswer, Best
<1> HIDE DEF answer
<1>3. AcceptedIds(raw, raw) \subseteq Elements(Ranked(raw))
  BY AcceptedWasRanked
<1>4. /\ Prefix(Best(raw, topk), TopK) = Prefix(Ranked(raw), topk)
      /\ Keep(Best(raw, topk), AcceptedIds(raw, raw))
           = Keep(Keep(Ranked(raw), AcceptedIds(raw, raw)), Elements(Best(raw, topk)))
  BY <1>3, AnswerOfRow
<1>5. /\ ExportRow(raw, raw).ranked = Ranked(raw)
      /\ ExportRow(raw, raw).accepted = Keep(Ranked(raw), AcceptedIds(raw, raw))
  BY JudgeRestores
<1> QED
  BY <1>1, <1>2, <1>4, <1>5 DEF answer

------------------------------------------------------------------------------
(* The inductive invariant of the importer                                  *)

Shown == [id : Parts, shows : Nat]
Stages == {"idle", "open", "csv", "embed", "export", "hash", "manifest", "report", "completed", "failed"}

Types ==
    /\ input \in Inputs
    /\ content \in [Parts -> Nat] /\ held \in [Parts -> Nat]
    /\ run \in 0 .. MaxRuns
    /\ pc \in Stages
    /\ split \in Splits
    /\ vectors \in Seq(Shown)
    /\ output \in [Files -> 0 .. MaxRuns]
    /\ csv \in [Splits -> Texts]
    /\ npz \in [Splits -> Seq(Shown)]
    /\ submission = [rows |-> submission.rows, ranking |-> submission.ranking,
                      scope |-> submission.scope]
    /\ digest \in Seq(Shown)
    /\ changes \in 0 .. MaxChanges

Current(v) == \A i \in 1 .. Len(v) : v[i].shows <= content[v[i].id]

\* Nobody has seen more than there is
Seeing ==
    /\ \A x \in Parts : content[x] <= changes /\ held[x] <= content[x]
    /\ Current(vectors) /\ Current(digest)
    /\ \A s \in Splits : Current(npz[s])

\* The vectors are of the first of the chosen records
Of(v, s) == Len(v) <= Len(Chosen(s)) /\ \A i \in 1 .. Len(v) : v[i].id = Chosen(s)[i]
Full(v, s) == Of(v, s) /\ Len(v) = Len(Chosen(s))

\* The files a run has written when it is at work
Done ==
    CASE pc = "open" -> {}
      [] pc = "csv" /\ split = "gallery" -> {}
      [] pc = "embed" /\ split = "gallery" -> {"test_gallery.csv"}
      [] pc = "csv" /\ split = "query" -> {"test_gallery.csv", "test_gallery.npz"}
      [] pc = "embed" /\ split = "query" -> {"test_gallery.csv", "test_gallery.npz", "test_query.csv"}
      [] pc = "export" -> {CsvOf[s] : s \in Splits} \cup {NpzOf[s] : s \in Splits}
      [] OTHER -> Files \ {"import_manifest.json"}

Written(f) == output[f] # NotWritten

Folder ==
    /\ Working => run > 0 /\ \A f \in Files : output[f] = IF f \in Done THEN run ELSE NotWritten
    /\ OneRun
    /\ Written("import_manifest.json") => \A f \in Files : output[f] = output["import_manifest.json"]
    /\ Written("submission") => \A s \in Splits : Written(NpzOf[s])
    /\ Working \/ (\E f \in Files : Written(f)) => Inspected /\ Enough

Embedded ==
    /\ \A s \in Splits : Written(CsvOf[s]) => csv[s] = CsvText(s)
    /\ \A s \in Splits : Written(NpzOf[s]) => Full(npz[s], s)
    /\ pc = "embed" => Of(vectors, split)

Exported ==
    Written("submission") =>
        /\ Judged
        /\ submission.rows = [q \in DOMAIN npz["query"] |-> ExportRow(Raw, RankedBy)]

Digested ==
    pc \in {"manifest", "report"} \/ Written("import_manifest.json") =>
        /\ \A s \in Splits : \A u \in Used(s) : \E d \in Elements(digest) :
              /\ d.id = u.id
              /\ d.shows >= u.shows
              /\ input.kind = "directory" /\ u.id \in Csvs => d.shows = u.shows
        /\ input.kind # "zip" =>
              \A d \in Elements(digest) : \E s \in Splits : \E u \in Used(s) : u.id = d.id

Told == pc = "report" \/ Written("import_manifest.json") => submission.scope = Scope

IInv == Types /\ Seeing /\ Folder /\ Embedded /\ Exported /\ Digested /\ Told

------------------------------------------------------------------------------
(* What the inputs and the helpers are                                      *)

\* The options and the files of a call
LEMMA InputType ==
    ASSUME input \in Inputs, NEW s \in Splits
    PROVE  /\ input.csv[s].ids \in Seq(Ids) /\ input.csv[s].spaced \in SUBSET Ids
           /\ input.csv[s].bom \in BOOLEAN
           /\ input.limit \in Nat
           /\ input.raw \in [Ids -> Int] /\ input.scores \in [Ids -> Int]
           /\ ImagesOf(s) \in Seq(Ids)
<1>1. /\ input.csv \in [Splits -> [bom : BOOLEAN, spaced : SUBSET Ids, ids : Seq(Ids), badBox : BOOLEAN]]
      /\ input.limit \in Nat
      /\ input.raw \in [Ids -> Int] /\ input.scores \in [Ids -> Int]
  BY InputsAssumption
<1>2. input.csv[s] \in [bom : BOOLEAN, spaced : SUBSET Ids, ids : Seq(Ids), badBox : BOOLEAN]
  BY <1>1
<1>3. ImagesOf(s) \in Seq(Ids)
  BY InputsAssumption DEF ImagesOf, Splits
<1> QED
  BY <1>1, <1>2, <1>3

\* A prefix of a sequence
LEMMA PrefixType ==
    ASSUME NEW S, NEW s \in Seq(S), NEW n \in Nat
    PROVE  /\ Prefix(s, n) \in Seq(S) /\ Len(Prefix(s, n)) <= Len(s)
           /\ Len(Prefix(s, n)) \in Nat
           /\ n # 0 => Len(Prefix(s, n)) <= n
           /\ \A i \in 1 .. Len(Prefix(s, n)) : Prefix(s, n)[i] = s[i]
<1>1. CASE n = 0 \/ n > Len(s)
  BY <1>1 DEF Prefix
<1>2. CASE ~ (n = 0 \/ n > Len(s))
  <2>1. Prefix(s, n) = SubSeq(s, 1, n) /\ n \in 0 .. Len(s)
    BY <1>2 DEF Prefix
  <2>2. /\ SubSeq(s, 1, n) \in Seq(S) /\ Len(SubSeq(s, 1, n)) = n
        /\ \A i \in 1 .. n : SubSeq(s, 1, n)[i] = s[i]
    BY <2>1, FirstMembers
  <2> QED
    BY <2>1, <2>2
<1> QED
  BY <1>1, <1>2

\* The chosen records are ids
LEMMA ChosenType ==
    ASSUME input \in Inputs, NEW s \in Splits
    PROVE  Chosen(s) \in Seq(Ids) /\ Len(Chosen(s)) \in Nat
<1>1. input.csv[s].ids \in Seq(Ids) /\ input.limit \in Nat
  BY InputType
<1>2. Records(s) \in Seq(Ids)
  BY <1>1, KeepType DEF Records
<1>3. Chosen(s) \in Seq(Ids)
  BY <1>1, <1>2, PrefixType DEF Chosen
<1> QED
  BY <1>3

\* What a call chooses does not change, nor does what it says of CSVs it inspected
LEMMA SameInput ==
    ASSUME input' = input, NEW s \in Splits
    PROVE  /\ Chosen(s)' = Chosen(s)
           /\ held'[CsvOf[s]] = held[CsvOf[s]] => CsvText(s)' = CsvText(s)
           /\ Inspected' = Inspected /\ Enough' = Enough /\ Scope' = Scope
<1>1. \A t \in Splits : Missing(t)' = Missing(t) /\ ImagesOf(t)' = ImagesOf(t)
  BY DEF Missing, ImagesOf
<1>2. \A t \in Splits : Records(t)' = Records(t)
  BY <1>1 DEF Records
<1>3. \A t \in Splits : Chosen(t)' = Chosen(t)
  BY <1>2 DEF Chosen
<1>4. \A t \in Splits : Readable(t)' = Readable(t)
  BY <1>1 DEF Readable
<1>5. "gallery" \in Splits /\ "query" \in Splits
  BY DEF Splits
<1>6. held'[CsvOf[s]] = held[CsvOf[s]] => CsvText(s)' = CsvText(s)
  BY <1>1, <1>3 DEF CsvText
<1>7. Inspected' = Inspected
  BY <1>2, <1>4, <1>5 DEF Inspected
<1>8. Enough' = Enough
  BY <1>3, <1>5 DEF Enough
<1>9. Scope' = Scope
  BY <1>1 DEF Scope, Partial
<1> QED
  BY <1>3, <1>6, <1>7, <1>8, <1>9

\* What is seen of parts
LEMMA SeenType ==
    ASSUME NEW parts \in Seq(Parts), NEW old, content \in [Parts -> Nat], held \in [Parts -> Nat]
    PROVE  LET seen == Seen(parts, old)
           IN  /\ seen \in Seq(Shown) /\ Len(seen) = Len(parts)
               /\ \A i \in 1 .. Len(parts) :
                     /\ seen[i].id = parts[i]
                     /\ seen[i].shows = IF parts[i] \in old THEN held[parts[i]] ELSE content[parts[i]]
               /\ (\A x \in Parts : held[x] <= content[x]) => Current(seen)
<1> DEFINE seen == Seen(parts, old)
<1>1. DOMAIN parts = 1 .. Len(parts) /\ Len(parts) \in Nat /\ \A i \in 1 .. Len(parts) : parts[i] \in Parts
  OBVIOUS
<1>2. ASSUME NEW i \in 1 .. Len(parts)
      PROVE  /\ seen[i].id = parts[i]
             /\ seen[i].shows = IF parts[i] \in old THEN held[parts[i]] ELSE content[parts[i]]
             /\ seen[i] \in Shown
  BY <1>1 DEF Seen, Shown
<1>3. seen \in [1 .. Len(parts) -> Shown]
  BY <1>1, <1>2 DEF Seen
<1> HIDE DEF seen
<1>4. seen \in Seq(Shown) /\ Len(seen) = Len(parts)
  <2> DEFINE m == Len(parts)
  <2>1. m \in Nat /\ seen \in [1 .. m -> Shown]
    BY <1>1, <1>3
  <2> HIDE DEF m
  <2>2. seen \in Seq(Shown) /\ Len(seen) = m
    BY <2>1
  <2> QED
    BY <2>2 DEF m
<1>5. ASSUME \A x \in Parts : held[x] <= content[x]
      PROVE  Current(seen)
  <2>1. ASSUME NEW i \in 1 .. Len(seen) PROVE seen[i].shows <= content[seen[i].id]
    <3>1. i \in 1 .. Len(parts) /\ parts[i] \in Parts
      BY <1>1, <1>4
    <3>2. /\ content[parts[i]] \in Nat /\ held[parts[i]] \in Nat
          /\ held[parts[i]] <= content[parts[i]]
      BY <1>5, <3>1
    <3>3. /\ seen[i].id = parts[i]
          /\ seen[i].shows = held[parts[i]] \/ seen[i].shows = content[parts[i]]
      BY <1>2, <3>1
    <3> QED
      BY <3>2, <3>3
  <2> QED
    BY <2>1 DEF Current
<1> QED
  BY <1>2, <1>4, <1>5 DEF seen

\* A batch goes on where the vectors end
LEMMA BatchGoesOn ==
    ASSUME input \in Inputs, NEW s \in Splits, split = s, vectors \in Seq(Shown),
           Len(vectors) <= Len(Chosen(s))
    PROVE  /\ NextBatch \in Seq(Ids)
           /\ Len(vectors) + Len(NextBatch) <= Len(Chosen(s))
           /\ \A i \in 1 .. Len(NextBatch) : NextBatch[i] = Chosen(s)[Len(vectors) + i]
<1> DEFINE c == Chosen(s)
           n == Len(vectors)
           rest == SubSeq(c, n + 1, Len(c))
<1>1. c \in Seq(Ids) /\ Len(c) \in Nat /\ n \in Nat /\ n <= Len(c)
  BY ChosenType
<1> HIDE DEF c, n
<1>2. /\ rest \in Seq(Ids) /\ Len(rest) = Len(c) - n
      /\ \A i \in 1 .. Len(c) - n : rest[i] = c[n + i]
  <2>1. n + 1 \in Int /\ Len(c) \in Int /\ \A i \in n + 1 .. Len(c) : c[i] \in Ids
    BY <1>1
  <2>2. /\ rest \in Seq(Ids)
        /\ Len(rest) = IF n + 1 <= Len(c) THEN Len(c) - (n + 1) + 1 ELSE 0
        /\ \A i \in 1 .. Len(c) - (n + 1) + 1 : rest[i] = c[n + 1 + i - 1]
    BY <2>1, SubSeqProperties
  <2>3. /\ Len(c) - (n + 1) + 1 = Len(c) - n /\ (~ (n + 1 <= Len(c)) => Len(c) - n = 0)
    BY <1>1
  <2> HIDE DEF rest
  <2>4. ASSUME NEW i \in 1 .. Len(c) - n PROVE rest[i] = c[n + i]
    <3>1. rest[i] = c[n + 1 + i - 1]
      BY <2>2, <2>3
    <3>2. n + 1 + i - 1 = n + i
      BY <1>1
    <3> QED
      BY <3>1, <3>2
  <2>5. Len(rest) = Len(c) - n
    BY <1>1, <2>2, <2>3
  <2> QED
    BY <2>2, <2>4, <2>5
<1>3. NextBatch = Prefix(rest, Batch)
  BY DEF NextBatch, c, n
<1> HIDE DEF rest
<1>4. /\ Prefix(rest, Batch) \in Seq(Ids) /\ Len(Prefix(rest, Batch)) <= Len(rest)
      /\ Len(Prefix(rest, Batch)) \in Nat
      /\ \A i \in 1 .. Len(Prefix(rest, Batch)) : Prefix(rest, Batch)[i] = rest[i]
  BY <1>2, BatchAssumption, PrefixType
<1>5. NextBatch \in Seq(Ids) /\ Len(NextBatch) <= Len(c) - n /\ Len(NextBatch) \in Nat
      /\ \A i \in 1 .. Len(NextBatch) : NextBatch[i] = rest[i]
  BY <1>1, <1>2, <1>3, <1>4
<1> HIDE DEF NextBatch
<1>6. \A i \in 1 .. Len(NextBatch) : i \in 1 .. Len(c) - n
  BY <1>1, <1>5
<1> QED
  BY <1>1, <1>2, <1>5, <1>6 DEF c, n

------------------------------------------------------------------------------
(* Types                                                                    *)

\* A sequence of what was seen, and more of it
LEMMA MoreSeen ==
    ASSUME input \in Inputs, content \in [Parts -> Nat], held \in [Parts -> Nat],
           split \in Splits, vectors \in Seq(Shown), Of(vectors, split), NEW old
    PROVE  LET more == vectors \o Seen(NextBatch, old)
           IN  /\ more \in Seq(Shown)
               /\ Of(more, split)
               /\ Current(vectors) /\ (\A x \in Parts : held[x] <= content[x]) => Current(more)
<1> DEFINE n == Len(vectors)
           seen == Seen(NextBatch, old)
           more == vectors \o seen
           c == Chosen(split)
<1>1. n \in Nat /\ n <= Len(c) /\ Len(c) \in Nat /\ \A i \in 1 .. n : vectors[i].id = c[i]
  BY ChosenType DEF Of
<1>2. /\ NextBatch \in Seq(Ids)
      /\ n + Len(NextBatch) <= Len(c)
      /\ \A i \in 1 .. Len(NextBatch) : NextBatch[i] = c[n + i]
  BY <1>1, BatchGoesOn
<1>3. /\ seen \in Seq(Shown) /\ Len(seen) = Len(NextBatch)
      /\ \A i \in 1 .. Len(NextBatch) : seen[i].id = NextBatch[i]
      /\ (\A x \in Parts : held[x] <= content[x]) => Current(seen)
  <2>1. NextBatch \in Seq(Parts)
    BY <1>2 DEF Parts
  <2> QED
    BY <2>1, SeenType
<1> HIDE DEF n, seen, c
<1>4. Len(NextBatch) \in Nat
  BY <1>2
<1> HIDE DEF NextBatch
<1>5. /\ more \in Seq(Shown) /\ Len(more) = n + Len(NextBatch)
      /\ \A i \in 1 .. n : more[i] = vectors[i]
      /\ \A i \in n + 1 .. n + Len(NextBatch) : more[i] = seen[i - n] /\ i - n \in 1 .. Len(NextBatch)
  <2>1. /\ more \in Seq(Shown)
        /\ Len(more) = n + Len(seen)
        /\ \A i \in 1 .. n + Len(seen) : more[i] = IF i <= n THEN vectors[i] ELSE seen[i - n]
    <3>1. vectors \in Seq(Shown) /\ seen \in Seq(Shown)
      BY <1>3
    <3>2. /\ vectors \o seen \in Seq(Shown)
          /\ Len(vectors \o seen) = Len(vectors) + Len(seen)
          /\ \A i \in 1 .. Len(vectors) + Len(seen) :
                (vectors \o seen)[i] = IF i <= Len(vectors) THEN vectors[i] ELSE seen[i - Len(vectors)]
      BY <3>1, ConcatProperties
    <3> QED
      BY <3>2 DEF n
  <2> HIDE DEF more
  <2>2. ASSUME NEW i \in 1 .. n PROVE more[i] = vectors[i]
    BY <1>1, <1>3, <1>4, <2>1
  <2>3. ASSUME NEW i \in n + 1 .. n + Len(NextBatch)
        PROVE  more[i] = seen[i - n] /\ i - n \in 1 .. Len(NextBatch)
    <3>1. i \in 1 .. n + Len(seen) /\ ~ (i <= n) /\ i - n \in 1 .. Len(NextBatch)
      BY <1>1, <1>3, <1>4
    <3> QED
      BY <2>1, <3>1
  <2> QED
    BY <1>3, <2>1, <2>2, <2>3
<1> HIDE DEF more
<1>6. ASSUME NEW i \in 1 .. Len(more)
      PROVE  /\ more[i].id = c[i]
             /\ Current(vectors) /\ Current(seen) => more[i].shows <= content[more[i].id]
  <2>1. CASE i <= n
    <3>1. i \in 1 .. n /\ more[i] = vectors[i]
      BY <1>1, <1>5, <2>1
    <3> QED
      BY <1>1, <3>1 DEF Current, n
  <2>2. CASE ~ (i <= n)
    <3>1. i - n \in 1 .. Len(NextBatch) /\ more[i] = seen[i - n] /\ n + (i - n) = i
      BY <1>1, <1>4, <1>5, <2>2
    <3>2. more[i].id = NextBatch[i - n]
      BY <1>3, <3>1
    <3>3. NextBatch[i - n] = c[i]
      BY <1>2, <3>1
    <3>4. Current(seen) => seen[i - n].shows <= content[seen[i - n].id]
      BY <1>3, <3>1 DEF Current
    <3> QED
      BY <3>1, <3>2, <3>3, <3>4
  <2> QED
    BY <2>1, <2>2
<1>7. Of(more, split)
  BY <1>2, <1>5, <1>6 DEF Of, c
<1>8. Current(vectors) /\ Current(seen) => Current(more)
  BY <1>6 DEF Current
<1> QED
  BY <1>3, <1>5, <1>7, <1>8 DEF more, seen

\* The members of a concatenation
LEMMA ElementsConcat ==
    ASSUME NEW S, NEW s \in Seq(S), NEW t \in Seq(S)
    PROVE  s \o t \in Seq(S) /\ Elements(s \o t) = Elements(s) \cup Elements(t)
<1> DEFINE u == s \o t
<1>1. /\ u \in Seq(S) /\ Len(u) = Len(s) + Len(t) /\ Len(s) \in Nat /\ Len(t) \in Nat
      /\ \A i \in 1 .. Len(s) + Len(t) : u[i] = IF i <= Len(s) THEN s[i] ELSE t[i - Len(s)]
      /\ DOMAIN u = 1 .. Len(u) /\ DOMAIN s = 1 .. Len(s) /\ DOMAIN t = 1 .. Len(t)
  BY ConcatProperties
<1> HIDE DEF u
<1>2. ASSUME NEW i \in 1 .. Len(u) PROVE u[i] \in Elements(s) \cup Elements(t)
  <2>1. CASE i <= Len(s)
    BY <1>1, <2>1 DEF Elements
  <2>2. CASE ~ (i <= Len(s))
    <3>1. i - Len(s) \in 1 .. Len(t) /\ u[i] = t[i - Len(s)]
      BY <1>1, <2>2
    <3> QED
      BY <1>1, <3>1 DEF Elements
  <2> QED
    BY <2>1, <2>2
<1>3. ASSUME NEW i \in 1 .. Len(s) PROVE s[i] \in Elements(u)
  <2>1. i \in 1 .. Len(u) /\ u[i] = s[i]
    BY <1>1
  <2> QED
    BY <1>1, <2>1 DEF Elements
<1>4. ASSUME NEW i \in 1 .. Len(t) PROVE t[i] \in Elements(u)
  <2>1. i + Len(s) \in 1 .. Len(u) /\ u[i + Len(s)] = t[i]
    BY <1>1
  <2> QED
    BY <1>1, <2>1 DEF Elements
<1>5. Elements(u) = Elements(s) \cup Elements(t)
  BY <1>1, <1>2, <1>3, <1>4 DEF Elements
<1> QED
  BY <1>1, <1>5 DEF u

\* The chosen records have their images
LEMMA ChosenHaveImages ==
    ASSUME input \in Inputs, NEW s \in Splits
    PROVE  Elements(Chosen(s)) \subseteq Elements(ImagesOf(s))
<1>1. input.csv[s].ids \in Seq(Ids) /\ input.limit \in Nat
  BY InputType
<1> DEFINE c == Chosen(s)
           x == Records(s)
<1>2. x \in Seq(Ids) /\ Elements(x) \subseteq Elements(ImagesOf(s))
  BY <1>1, KeepType, KeepMembers DEF Records
<1>3. /\ c \in Seq(Ids) /\ Len(c) <= Len(x) /\ Len(c) \in Nat /\ Len(x) \in Nat
      /\ \A i \in 1 .. Len(c) : c[i] = x[i]
  BY <1>1, <1>2, PrefixType DEF Chosen
<1> HIDE DEF c, x
<1>4. DOMAIN c = 1 .. Len(c) /\ DOMAIN x = 1 .. Len(x)
  BY <1>2, <1>3
<1>5. Elements(c) \subseteq Elements(x)
  BY <1>3, <1>4 DEF Elements
<1> QED
  BY <1>2, <1>5 DEF c

\* The digest is of every CSV and every chosen record; only that of a ZIP is of more
LEMMA HashedIs ==
    ASSUME input \in Inputs
    PROVE  /\ Hashed \in Seq(Parts)
           /\ Csvs \subseteq Elements(Hashed)
           /\ \A s \in Splits : Elements(Chosen(s)) \subseteq Elements(Hashed)
           /\ input.kind # "zip" => Elements(Hashed) = Csvs \cup Elements(Chosen("gallery"))
                                                           \cup Elements(Chosen("query"))
<1>0. Splits = {"gallery", "query"} /\ Csvs = {CsvOf["gallery"], CsvOf["query"]} /\ Csvs \subseteq Parts
  BY DEF Splits, Csvs, Parts
<1>1. ASSUME NEW s \in Splits
      PROVE  /\ Chosen(s) \in Seq(Parts) /\ ImagesOf(s) \in Seq(Parts)
             /\ ChosenOf(s) \in Seq(Parts)
             /\ Elements(ChosenOf(s)) = {CsvOf[s]} \cup Elements(Chosen(s))
  <2>1. Chosen(s) \in Seq(Ids) /\ ImagesOf(s) \in Seq(Ids)
    BY InputType, ChosenType
  <2>2. Chosen(s) \in Seq(Parts) /\ ImagesOf(s) \in Seq(Parts)
    BY <2>1 DEF Parts
  <2> DEFINE one == <<CsvOf[s]>>
  <2>3. one \in Seq(Parts) /\ DOMAIN one = {1} /\ one[1] = CsvOf[s]
    BY <1>0, <1>1
  <2>4. Elements(one) = {CsvOf[s]}
    BY <2>3 DEF Elements
  <2> HIDE DEF one
  <2>5. one \o Chosen(s) \in Seq(Parts) /\ Elements(one \o Chosen(s)) = Elements(one) \cup Elements(Chosen(s))
    BY <2>2, <2>3, ElementsConcat
  <2> QED
    BY <2>2, <2>4, <2>5 DEF ChosenOf, one
<1>2. CASE input.kind = "zip"
  <2> DEFINE two == <<CsvOf["gallery"], CsvOf["query"]>>
  <2>1. two \in Seq(Parts) /\ DOMAIN two = {1, 2} /\ two[1] = CsvOf["gallery"] /\ two[2] = CsvOf["query"]
    BY <1>0
  <2>2. Elements(two) = Csvs
    BY <1>0, <2>1 DEF Elements
  <2>3. Hashed = ImagesOf("gallery") \o two
    BY <1>2 DEF Hashed
  <2> HIDE DEF two
  <2>4. Hashed \in Seq(Parts) /\ Elements(Hashed) = Elements(ImagesOf("gallery")) \cup Csvs
    BY <1>0, <1>1, <2>1, <2>2, <2>3, ElementsConcat
  <2>5. \A s \in Splits : ImagesOf(s) = ImagesOf("gallery")
    BY <1>2 DEF ImagesOf
  <2>6. \A s \in Splits : Elements(Chosen(s)) \subseteq Elements(ImagesOf("gallery"))
    BY <2>5, ChosenHaveImages
  <2> QED
    BY <1>2, <2>4, <2>6
<1>3. CASE input.kind # "zip"
  <2>1. Hashed = ChosenOf("gallery") \o ChosenOf("query")
    BY <1>3 DEF Hashed
  <2>2. Hashed \in Seq(Parts)
        /\ Elements(Hashed) = Elements(ChosenOf("gallery")) \cup Elements(ChosenOf("query"))
    BY <1>0, <1>1, <2>1, ElementsConcat
  <2>3. Elements(Hashed) = Csvs \cup Elements(Chosen("gallery")) \cup Elements(Chosen("query"))
    BY <1>0, <1>1, <2>2
  <2> QED
    BY <1>0, <2>2, <2>3
<1> QED
  BY <1>2, <1>3

\* TellScope writes the manifest of the submission again, with its scope
LEMMA TellsScope ==
    ASSUME TellScope, submission = [rows |-> submission.rows, ranking |-> submission.ranking,
                                    scope |-> submission.scope]
    PROVE  submission' = [rows |-> submission.rows, ranking |-> submission.ranking, scope |-> Scope]
<1>1. submission' = [submission EXCEPT !.scope = Scope]
  BY DEF TellScope
<1> DEFINE r == submission.rows
           k == submission.ranking
           c == submission.scope
<1>2. submission = [rows |-> r, ranking |-> k, scope |-> c]
  OBVIOUS
<1> HIDE DEF r, k, c
<1>3. [submission EXCEPT !.scope = Scope] = [rows |-> r, ranking |-> k, scope |-> Scope]
  BY <1>2
<1> QED
  BY <1>1, <1>3 DEF r, k

\* The state has its types, initially and after every step
LEMMA TypesInit == Init => Types
<1> SUFFICES ASSUME Init PROVE Types
  OBVIOUS
<1>1. <<>> \in Seq(Shown) /\ <<>> \in Seq(Ids)
  OBVIOUS
<1>2. NoText \in Texts
  BY <1>1 DEF NoText, Texts
<1>3. [x \in Parts |-> 0] \in [Parts -> Nat]
  OBVIOUS
<1> QED
  BY <1>1, <1>2, <1>3, BoundsAssumption DEF Init, Types, Splits, Stages, NotWritten, NoSubmission

\* No step leaves the types
LEMMA TypesStep ==
    ASSUME Types, Embedded, [Next]_vars
    PROVE  Types'
<1> USE DEF Types
<1>0. MaxRuns \in Nat /\ MaxChanges \in Nat /\ <<>> \in Seq(Shown)
  BY BoundsAssumption
<1>1. \A s \in Splits : CsvOf[s] \in Files /\ NpzOf[s] \in Files
  BY DEF Files, Csvs
<1>2. ASSUME NEW f \in Files, Writes(f) PROVE output' \in [Files -> 0 .. MaxRuns]
  BY <1>2 DEF Writes
<1>3. "submission" \in Files /\ "import_manifest.json" \in Files
  BY DEF Files
<1>4. CASE Start
  BY <1>0, <1>4 DEF Start, Stages, Splits, Result
<1>15. CASE Open
  <2>1. held' \in [Parts -> Nat]
    BY <1>15 DEF Open
  <2> QED
    BY <1>15, <2>1 DEF Open, Stages, Splits, Result
<1>5. CASE WriteCsv
  <2>1. CsvText(split) \in Texts
    <3>1. input.csv[split].spaced \in SUBSET Ids /\ Chosen(split) \in Seq(Ids)
      BY InputType, ChosenType
    <3>2. held[CsvOf[split]] \in Nat
      BY DEF Parts, Csvs
    <3> QED
      BY <3>1, <3>2 DEF CsvText, Texts
  <2> QED
    BY <1>0, <1>1, <1>2, <1>5, <2>1 DEF WriteCsv, Stages, Source
<1>6. CASE EncodeBatch
  <2>1. vectors' \in Seq(Shown)
    BY <1>6, MoreSeen DEF EncodeBatch, Embedded
  <2> QED
    BY <1>6, <2>1 DEF EncodeBatch, Source, Result
<1>7. CASE SaveNpz
  BY <1>1, <1>2, <1>7 DEF SaveNpz, Stages, Splits, Source
<1>8. CASE Export
  <2>1. output' \in [Files -> 0 .. MaxRuns]
    BY <1>2, <1>3, <1>8 DEF Export
  <2> QED
    BY <1>8, <2>1 DEF Export, Stages, Source
<1>9. CASE HashInput
  <2>1. digest' \in Seq(Shown)
    <3>1. digest' = Seen(Hashed, IF input.kind = "directory" THEN Csvs ELSE {})
      BY <1>9 DEF HashInput
    <3> QED
      BY <3>1, HashedIs, SeenType
  <2> QED
    BY <1>9, <2>1 DEF HashInput, Stages, Source
<1>10. CASE TellScope
  <2>1. submission' = [rows |-> submission.rows, ranking |-> submission.ranking, scope |-> Scope]
    BY <1>10, TellsScope
  <2> QED
    BY <1>10, <2>1 DEF TellScope, Stages, Source
<1>11. CASE WriteReport
  BY <1>2, <1>3, <1>11 DEF WriteReport, Stages, Source
<1>12. CASE Stop
  BY <1>12 DEF Stop, Stages, Source, Result
<1>13. CASE SourceChanges
  <2>1. content' \in [Parts -> Nat]
    <3>1. PICK i \in Elements(Hashed) : content' = [content EXCEPT ![i] = @ + 1]
      BY <1>13 DEF SourceChanges
    <3>2. Elements(Hashed) \subseteq Parts
      BY HashedIs DEF Elements
    <3>3. content \in [Parts -> Nat] /\ i \in Parts
      BY <3>1, <3>2
    <3>4. content[i] + 1 \in Nat
      BY <3>3
    <3> HIDE DEF Types
    <3> QED
      BY <3>1, <3>3, <3>4
  <2>2. changes' \in 0 .. MaxChanges
    BY <1>0, <1>13 DEF SourceChanges
  <2> QED
    BY <1>13, <2>1, <2>2 DEF SourceChanges, Result
<1>14. CASE UNCHANGED vars
  BY <1>14 DEF vars
<1> QED
  BY <1>4, <1>5, <1>6, <1>7, <1>8, <1>9, <1>10, <1>11, <1>12, <1>13, <1>14, <1>15 DEF Next

------------------------------------------------------------------------------
(* Seeing and Folder                                                        *)

\* The files by name
LEMMA FilesNamed ==
    /\ Files = {"test_gallery.csv", "test_query.csv", "test_gallery.npz", "test_query.npz",
                "submission", "import_manifest.json"}
    /\ Splits = {"gallery", "query"}
    /\ CsvOf["gallery"] = "test_gallery.csv" /\ CsvOf["query"] = "test_query.csv"
    /\ NpzOf["gallery"] = "test_gallery.npz" /\ NpzOf["query"] = "test_query.npz"
<1>1. Splits = {"gallery", "query"}
  BY DEF Splits
<1>2. /\ CsvOf["gallery"] = "test_gallery.csv" /\ CsvOf["query"] = "test_query.csv"
      /\ NpzOf["gallery"] = "test_gallery.npz" /\ NpzOf["query"] = "test_query.npz"
  BY DEF CsvOf, NpzOf
<1>3. {CsvOf[s] : s \in Splits} = {"test_gallery.csv", "test_query.csv"}
  BY <1>1, <1>2
<1>4. {NpzOf[s] : s \in Splits} = {"test_gallery.npz", "test_query.npz"}
  BY <1>1, <1>2
<1> QED
  BY <1>1, <1>2, <1>3, <1>4 DEF Files, Csvs

\* Nobody has seen more than there is: a source only gets newer
LEMMA SeeingStep ==
    ASSUME Types, Types', Embedded, Seeing, [Next]_vars
    PROVE  Seeing'
<1>1. /\ content \in [Parts -> Nat] /\ held \in [Parts -> Nat] /\ changes \in Nat /\ input \in Inputs
      /\ vectors \in Seq(Shown) /\ digest \in Seq(Shown) /\ npz \in [Splits -> Seq(Shown)]
  BY BoundsAssumption DEF Types
<1>2. CASE content' = content /\ changes' = changes
  <2>1. \A x \in Parts : content'[x] <= changes' /\ held'[x] <= content'[x]
    <3>1. ASSUME NEW x \in Parts PROVE held'[x] = held[x] \/ held'[x] = content[x]
      BY <1>1, <3>1 DEF Next, Start, Open, WriteCsv, EncodeBatch, SaveNpz, Export, HashInput,
         TellScope, WriteReport, Stop, SourceChanges, Source, vars
    <3>2. ASSUME NEW x \in Parts PROVE content[x] \in Nat /\ held[x] <= content[x] /\ content[x] <= changes
      BY <1>1, <3>2 DEF Seeing
    <3>3. ASSUME NEW x \in Parts PROVE held'[x] <= content'[x]
      BY <1>2, <3>1, <3>2
    <3> QED
      BY <1>2, <3>2, <3>3
  <2>2. vectors' = vectors => Current(vectors)'
    BY <1>2 DEF Seeing, Current
  <2>3. digest' = digest => Current(digest)'
    BY <1>2 DEF Seeing, Current
  <2>4. npz' = npz => \A s \in Splits : Current(npz[s])'
    BY <1>2 DEF Seeing, Current
  <2>5. Start \/ Open \/ TellScope \/ WriteReport \/ Stop \/ Export \/ UNCHANGED vars
          => vectors' = vectors /\ digest' = digest /\ npz' = npz
    BY DEF Start, Open, TellScope, WriteReport, Stop, Export, vars, Result
  <2>6. CASE WriteCsv
    <3>1. vectors' = <<>> /\ digest' = digest /\ npz' = npz
      BY <2>6 DEF WriteCsv
    <3>2. Current(vectors)'
      BY <3>1 DEF Current
    <3> QED
      BY <2>1, <2>3, <2>4, <3>1, <3>2 DEF Seeing
  <2>7. CASE EncodeBatch
    <3>1. PICK old : vectors' = vectors \o Seen(NextBatch, old)
      BY <2>7 DEF EncodeBatch
    <3>4. digest' = digest /\ npz' = npz /\ pc = "embed"
      BY <2>7 DEF EncodeBatch, Result
    <3>2. Current(vectors \o Seen(NextBatch, old))
      BY <1>1, <3>4, MoreSeen DEF Embedded, Seeing, Types
    <3>3. Current(vectors)'
      BY <1>2, <3>1, <3>2 DEF Current
    <3> QED
      BY <2>1, <2>3, <2>4, <3>4, <3>3 DEF Seeing
  <2>8. CASE SaveNpz
    <3>1. vectors' = vectors /\ digest' = digest /\ npz' = [npz EXCEPT ![split] = vectors]
      BY <2>8 DEF SaveNpz
    <3>2. ASSUME NEW s \in Splits PROVE Current(npz[s])'
      <4>1. npz'[s] = vectors \/ npz'[s] = npz[s]
        BY <1>1, <3>1
      <4> QED
        BY <1>2, <4>1 DEF Current, Seeing
    <3> QED
      BY <2>1, <2>2, <2>3, <3>1, <3>2 DEF Seeing
  <2>9. CASE HashInput
    <3> DEFINE old == IF input.kind = "directory" THEN Csvs ELSE {}
    <3>1. vectors' = vectors /\ digest' = Seen(Hashed, old) /\ npz' = npz
      BY <2>9 DEF HashInput
    <3> HIDE DEF old
    <3>2. Current(Seen(Hashed, old))
      BY <1>1, HashedIs, SeenType DEF Seeing
    <3>3. Current(digest)'
      BY <1>2, <3>1, <3>2 DEF Current
    <3> QED
      BY <2>1, <2>2, <2>4, <3>1, <3>3 DEF Seeing
  <2>10. CASE SourceChanges
    BY <1>1, <1>2, <2>10 DEF SourceChanges
  <2> QED
    BY <2>1, <2>2, <2>3, <2>4, <2>5, <2>6, <2>7, <2>8, <2>9, <2>10 DEF Next, Seeing
<1>3. CASE SourceChanges
  <2>1. PICK j \in Elements(Hashed) : content' = [content EXCEPT ![j] = @ + 1]
    BY <1>3 DEF SourceChanges
  <2>2. changes' = changes + 1 /\ held' = held /\ vectors' = vectors /\ digest' = digest /\ npz' = npz
    BY <1>3 DEF SourceChanges, Result
  <2>3. \A i \in Parts : content'[i] >= content[i] /\ content'[i] <= content[i] + 1 /\ content'[i] \in Nat
    BY <1>1, <2>1
  <2>4. \A i \in Parts : content'[i] <= changes' /\ held'[i] <= content'[i]
    <3>1. ASSUME NEW i \in Parts PROVE content'[i] <= changes' /\ held'[i] <= content'[i]
      <4>1. content[i] \in Nat /\ held[i] \in Nat /\ content[i] <= changes /\ held[i] <= content[i]
        BY <1>1 DEF Seeing
      <4>2. content'[i] >= content[i] /\ content'[i] <= content[i] + 1 /\ content'[i] \in Nat
        BY <2>3
      <4> QED
        BY <1>1, <2>2, <4>1, <4>2
    <3> QED
      BY <3>1
  <2>5. ASSUME NEW v \in Seq(Shown), Current(v)
        PROVE  \A i \in 1 .. Len(v) : v[i].shows <= content'[v[i].id]
    <3>1. ASSUME NEW i \in 1 .. Len(v) PROVE v[i].shows <= content'[v[i].id]
      <4>1. v[i] \in Shown
        OBVIOUS
      <4>2. v[i].id \in Parts /\ v[i].shows \in Nat
        BY <4>1 DEF Shown
      <4> QED
        BY <1>1, <2>3, <2>5, <4>2 DEF Current
    <3> QED
      BY <3>1
  <2>6. Current(vectors)' /\ Current(digest)'
    BY <1>1, <2>2, <2>5 DEF Current, Seeing
  <2>7. \A s \in Splits : Current(npz[s])'
    BY <1>1, <2>2, <2>5 DEF Current, Seeing
  <2> QED
    BY <2>4, <2>6, <2>7 DEF Seeing
<1>4. (content' = content /\ changes' = changes) \/ SourceChanges
  BY DEF Next, Start, Open, WriteCsv, EncodeBatch, SaveNpz, Export, HashInput, TellScope,
         WriteReport, Stop, Source, vars
<1> QED
  BY <1>2, <1>3, <1>4

\* Only the files of the run at work change, in its order
LEMMA FolderStep ==
    ASSUME Types, Folder, [Next]_vars
    PROVE  Folder'
<1> USE FilesNamed
<1>0. run \in 0 .. MaxRuns /\ MaxRuns \in Nat /\ split \in Splits /\ pc \in Stages
      /\ output \in [Files -> 0 .. MaxRuns]
  BY BoundsAssumption DEF Types
<1>1. UNCHANGED input => /\ (Inspected /\ Enough)' = (Inspected /\ Enough)
  BY SameInput
<1>2. CASE Start
  <2>1. UNCHANGED <<output, input>> /\ run' = run + 1
        /\ pc' = IF EmptyFolder /\ Inspected /\ Enough THEN "open" ELSE "failed"
    BY <1>2 DEF Start, Result
  <2>2. CASE EmptyFolder /\ Inspected /\ Enough
    <3>1. Done' = {} /\ \A f \in Files : output'[f] = NotWritten
      BY <2>1, <2>2 DEF Done, EmptyFolder
    <3> QED
      BY <1>0, <1>1, <2>1, <2>2, <3>1 DEF Folder, Working, OneRun, Written, NotWritten
  <2>3. CASE ~ (EmptyFolder /\ Inspected /\ Enough)
    BY <1>1, <2>1, <2>3, <1>2 DEF Folder, Working, OneRun, Written, Start
  <2> QED
    BY <2>2, <2>3
<1>3. ASSUME UNCHANGED <<output, input, run>>, Working' => Working /\ Done' = Done
      PROVE  Folder'
  <2>1. (\A f \in Files : Written(f)' = Written(f)) /\ OneRun' = OneRun
    BY <1>3 DEF Written, OneRun
  <2>2. Working' => run' > 0 /\ \A f \in Files : output'[f] = IF f \in Done' THEN run' ELSE NotWritten
    BY <1>3 DEF Folder
  <2>3. Working' \/ (\E f \in Files : Written(f)') => Inspected' /\ Enough'
    BY <1>1, <1>3, <2>1 DEF Folder
  <2> QED
    BY <1>3, <2>1, <2>2, <2>3 DEF Folder
<1>4. CASE Stop
  BY <1>3, <1>4 DEF Stop, Result, Source, Working
<1>15. CASE Open
  BY <1>3, <1>15 DEF Open, Result, Working, Done
<1>14. CASE UNCHANGED <<output, input, run, pc, split>>
  BY <1>3, <1>14 DEF Working, Done
<1>5. ASSUME Working, UNCHANGED <<input, run>>, NEW f \in Files, Writes(f), f \notin Done,
             Working' => Done' = Done \cup {f},
             ~ Working' => f = "import_manifest.json" /\ Done \cup {f} = Files,
             f = "import_manifest.json" => Done \cup {f} = Files,
             f = "submission" => {"test_gallery.npz", "test_query.npz"} \subseteq Done
      PROVE  Folder'
  <2>1. run > 0 /\ \A g \in Files : output[g] = IF g \in Done THEN run ELSE NotWritten
    BY <1>5 DEF Folder
  <2>2. \A g \in Files : output'[g] = IF g \in Done \cup {f} THEN run ELSE NotWritten
    BY <1>0, <1>5, <2>1 DEF Writes
  <2>3. "import_manifest.json" \in Done => Done = Files
    BY <1>5, <2>1 DEF Folder, Written, NotWritten
  <2> QED
    BY <1>0, <1>1, <1>5, <2>1, <2>2 DEF Folder, OneRun, Written, NotWritten
<1>6. CASE WriteCsv
  BY <1>5, <1>6, <1>0 DEF WriteCsv, Source, Done, Working
<1>7. CASE EncodeBatch
  BY <1>14, <1>7 DEF EncodeBatch, Result, Source
<1>8. CASE SaveNpz
  BY <1>5, <1>8, <1>0 DEF SaveNpz, Source, Done, Working
<1>9. CASE Export
  <2>1. CASE pc' = "failed" /\ UNCHANGED output
    BY <1>3, <1>9, <2>1 DEF Export, Source, Working
  <2>2. CASE pc' = "hash" /\ Writes("submission")
    BY <1>5, <1>9, <2>2, <1>0 DEF Export, Source, Done, Working
  <2> QED
    BY <1>9, <2>1, <2>2 DEF Export
<1>10. CASE HashInput
  BY <1>3, <1>10 DEF HashInput, Source, Done, Working
<1>11. CASE TellScope
  BY <1>3, <1>11 DEF TellScope, Source, Done, Working
<1>12. CASE WriteReport
  BY <1>5, <1>12, <1>0 DEF WriteReport, Source, Done, Working
<1>13. CASE SourceChanges
  BY <1>14, <1>13 DEF SourceChanges, Result
<1> QED
  BY <1>2, <1>14, <1>15, <1>4, <1>6, <1>7, <1>8, <1>9, <1>10, <1>11, <1>12, <1>13 DEF Next, vars

------------------------------------------------------------------------------
(* Embedded and Exported                                                    *)

\* A step writes one file at most
LEMMA OneFile ==
    ASSUME Types, NEW f \in Files, Writes(f)
    PROVE  \A g \in Files \ {f} : Written(g)' = Written(g)
  BY DEF Types, Writes, Written

\* What a run at work has not written yet
LEMMA NotYet ==
    ASSUME Types, Folder, Working
    PROVE  /\ ~ Written("import_manifest.json")
           /\ pc \in {"csv", "embed", "export"} => ~ Written("submission")
           /\ pc \in {"export", "hash", "manifest", "report"} =>
                 \A s \in Splits : Written(CsvOf[s]) /\ Written(NpzOf[s])
           /\ pc \in {"hash", "manifest", "report"} => Written("submission")
<1> USE FilesNamed
<1>1. run > 0 /\ run \in Nat /\ \A f \in Files : output[f] = IF f \in Done THEN run ELSE NotWritten
  BY BoundsAssumption DEF Folder, Types
<1>2. pc \in Stages /\ split \in Splits
  BY DEF Types
<1>3. "import_manifest.json" \notin Done
  BY <1>2 DEF Done
<1>4. pc \in {"csv", "embed", "export"} => "submission" \notin Done
  BY <1>2 DEF Done
<1>5. pc \in {"export", "hash", "manifest", "report"} =>
        {"test_gallery.csv", "test_query.csv", "test_gallery.npz", "test_query.npz"} \subseteq Done
  BY <1>2 DEF Done
<1>6. pc \in {"hash", "manifest", "report"} => "submission" \in Done
  BY <1>2 DEF Done
<1> QED
  BY <1>1, <1>3, <1>4, <1>5, <1>6 DEF Written, NotWritten

\* What a step leaves to the files of the splits
LEMMA EmbeddedKept ==
    ASSUME Embedded, UNCHANGED <<input, csv, npz>>, pc' # "embed",
           \A s \in Splits : /\ Written(CsvOf[s])' = Written(CsvOf[s])
                             /\ Written(CsvOf[s]) => held'[CsvOf[s]] = held[CsvOf[s]]
                             /\ Written(NpzOf[s])' = Written(NpzOf[s])
    PROVE  Embedded'
<1>1. \A s \in Splits : /\ Written(CsvOf[s]) => CsvText(s)' = CsvText(s)
                        /\ Chosen(s)' = Chosen(s)
  BY SameInput
<1> QED
  BY <1>1 DEF Embedded, Full, Of

\* A run that begins inspects CSVs again only where none was written
LEMMA HeldStep ==
    ASSUME [Next]_vars, NEW s \in Splits
    PROVE  /\ Written(CsvOf[s]) => held'[CsvOf[s]] = held[CsvOf[s]]
           /\ ~ Start => held'[CsvOf[s]] = held[CsvOf[s]]
<1>1. CsvOf[s] \in Csvs /\ CsvOf[s] \in Parts /\ CsvOf[s] \in Files
  BY DEF Csvs, Parts, Files
<1>2. CASE Start
  <2>1. Written(CsvOf[s]) => ~ EmptyFolder
    BY <1>1 DEF Written, EmptyFolder
  <2> QED
    BY <1>2, <2>1 DEF Start
<1>3. CASE Open
  BY <1>1, <1>3 DEF Open
<1>4. CASE ~ Start /\ ~ Open
  <2>1. held' = held
    BY <1>4 DEF Next, WriteCsv, EncodeBatch, SaveNpz, Export, HashInput, TellScope,
         WriteReport, Stop, SourceChanges, Source, vars
  <2> QED
    BY <2>1
<1> QED
  BY <1>2, <1>3, <1>4

\* The files of a split are those of its chosen records
LEMMA EmbeddedStep ==
    ASSUME Types, Folder, Embedded, [Next]_vars
    PROVE  Embedded'
<1> USE FilesNamed
<1>0. /\ split \in Splits /\ csv \in [Splits -> Texts] /\ npz \in [Splits -> Seq(Shown)]
      /\ input \in Inputs /\ content \in [Parts -> Nat] /\ held \in [Parts -> Nat]
      /\ vectors \in Seq(Shown)
  BY DEF Types
<1>1. input' = input
  BY DEF Next, Start, Open, WriteCsv, EncodeBatch, SaveNpz, Export, HashInput, TellScope,
         WriteReport, Stop, SourceChanges, Source, vars
<1>2. \A s \in Splits : /\ Chosen(s)' = Chosen(s)
                        /\ Written(CsvOf[s]) \/ ~ Start => CsvText(s)' = CsvText(s)
  BY <1>1, HeldStep, SameInput
<1>3. CASE WriteCsv
  <2>1. /\ csv' = [csv EXCEPT ![split] = CsvText(split)] /\ npz' = npz
        /\ split' = split /\ vectors' = <<>> /\ Writes(CsvOf[split])
    BY <1>3 DEF WriteCsv
  <2>2. \A g \in Files \ {CsvOf[split]} : Written(g)' = Written(g)
    BY <1>0, <2>1, OneFile
  <2>3. \A s \in Splits : Written(CsvOf[s])' => csv'[s] = CsvText(s)
    BY <1>0, <2>1, <2>2 DEF Embedded
  <2>6. ~ Start
    BY <1>3 DEF WriteCsv, Start, Working
  <2>4. \A s \in Splits : Written(NpzOf[s])' => Full(npz[s], s)
    BY <1>0, <2>2 DEF Embedded
  <2>5. Of(vectors, split)'
    <3>1. Len(Chosen(split)) \in Nat
      BY <1>0, ChosenType
    <3> QED
      BY <1>0, <1>2, <2>1, <3>1 DEF Of
  <2> QED
    BY <1>2, <2>1, <2>3, <2>4, <2>5, <2>6 DEF Embedded, Full, Of
<1>4. CASE EncodeBatch
  <2>1. UNCHANGED <<csv, npz, output, split>> /\ pc = "embed"
    BY <1>4 DEF EncodeBatch, Result
  <2>4. PICK old : vectors' = vectors \o Seen(NextBatch, old)
    BY <1>4 DEF EncodeBatch
  <2>2. Of(vectors \o Seen(NextBatch, old), split)
    BY <1>0, <2>1, MoreSeen DEF Embedded
  <2>3. Of(vectors, split)'
    BY <1>0, <1>2, <2>1, <2>2, <2>4 DEF Of
  <2> QED
    BY <1>2, <2>1, <2>3 DEF Embedded, Full, Of, Written
<1>5. CASE SaveNpz
  <2>1. /\ npz' = [npz EXCEPT ![split] = vectors] /\ csv' = csv /\ pc' # "embed"
        /\ Writes(NpzOf[split]) /\ Len(vectors) = Len(Chosen(split)) /\ pc = "embed"
    BY <1>5 DEF SaveNpz
  <2>2. \A g \in Files \ {NpzOf[split]} : Written(g)' = Written(g)
    BY <1>0, <2>1, OneFile
  <2>3. Full(vectors, split)
    BY <2>1 DEF Embedded, Full
  <2>4. \A s \in Splits : Written(NpzOf[s])' => Full(npz'[s], s)
    BY <1>0, <2>1, <2>2, <2>3 DEF Embedded
  <2>5. \A s \in Splits : Written(CsvOf[s])' => csv[s] = CsvText(s)
    BY <1>0, <2>2 DEF Embedded
  <2>6. ~ Start
    BY <1>5 DEF SaveNpz, Start, Working
  <2> QED
    BY <1>2, <2>1, <2>4, <2>5, <2>6 DEF Embedded, Full, Of
<1>6. ASSUME UNCHANGED <<csv, npz>>, pc' # "embed",
             output' = output \/ Writes("submission") \/ Writes("import_manifest.json")
      PROVE  Embedded'
  <2>1. \A s \in Splits : /\ Written(CsvOf[s])' = Written(CsvOf[s])
                          /\ Written(NpzOf[s])' = Written(NpzOf[s])
    <3>1. CASE output' = output
      BY <3>1 DEF Written
    <3>2. CASE Writes("submission")
      <4>1. \A g \in Files \ {"submission"} : Written(g)' = Written(g)
        BY <3>2, OneFile
      <4> QED
        BY <4>1
    <3>3. CASE Writes("import_manifest.json")
      <4>1. \A g \in Files \ {"import_manifest.json"} : Written(g)' = Written(g)
        BY <3>3, OneFile
      <4> QED
        BY <4>1
    <3> QED
      BY <1>6, <3>1, <3>2, <3>3
  <2> QED
    BY <1>1, <1>6, <2>1, HeldStep, EmbeddedKept
<1>7. CASE Start \/ Open \/ Export \/ HashInput \/ TellScope \/ WriteReport \/ Stop
  <2>1. CASE Start
    BY <1>6, <2>1 DEF Start, Result
  <2>7. CASE Open
    BY <1>6, <2>7 DEF Open, Result
  <2>2. CASE Export
    <3>1. UNCHANGED <<csv, npz>> /\ pc' # "embed"
      BY <2>2 DEF Export
    <3>2. output' = output \/ Writes("submission")
      BY <2>2 DEF Export
    <3> QED
      BY <1>6, <3>1, <3>2
  <2>3. CASE HashInput
    BY <1>6, <2>3 DEF HashInput
  <2>4. CASE TellScope
    BY <1>6, <2>4 DEF TellScope
  <2>5. CASE WriteReport
    BY <1>6, <2>5 DEF WriteReport
  <2>6. CASE Stop
    BY <1>6, <2>6 DEF Stop, Result
  <2> QED
    BY <1>7, <2>1, <2>2, <2>3, <2>4, <2>5, <2>6, <2>7
<1>8. CASE UNCHANGED <<csv, npz, output, pc, split, vectors>>
  <2>1. split \in Splits
    BY DEF Types
  <2>2. \A s \in Splits : /\ Written(CsvOf[s])' = Written(CsvOf[s])
                          /\ Written(NpzOf[s])' = Written(NpzOf[s])
    BY <1>8 DEF Written
  <2>3. \A s \in Splits : /\ Full(npz[s], s)' = Full(npz[s], s)
                          /\ Of(vectors, s)' = Of(vectors, s)
    BY <1>2, <1>8 DEF Full, Of
  <2>4. Of(vectors, split)' = Of(vectors, split)
    BY <1>8, <2>1, <2>3
  <2> QED
    BY <1>2, <1>8, <2>2, <2>3, <2>4 DEF Embedded
<1> QED
  <2>1. SourceChanges \/ UNCHANGED vars => UNCHANGED <<csv, npz, output, pc, split, vectors>>
    BY DEF SourceChanges, Result, vars
  <2>2. SourceChanges \/ UNCHANGED vars => Embedded'
    BY <1>8, <2>1
  <2> QED
    BY <1>3, <1>4, <1>5, <1>7, <2>2 DEF Next

\* The rows of a submission are those of its embeddings
LEMMA ExportedStep ==
    ASSUME Types, Folder, Exported, [Next]_vars
    PROVE  Exported'
<1> USE FilesNamed
<1>1. input' = input
  BY DEF Next, Start, Open, WriteCsv, EncodeBatch, SaveNpz, Export, HashInput, TellScope,
         WriteReport, Stop, SourceChanges, Source, vars
<1>2. UNCHANGED npz => Judged' = Judged /\ Raw' = Raw /\ RankedBy' = RankedBy
  BY <1>1 DEF Judged, Raw, RankedBy, Cohort, Vector, SingleQuery
<1>3. ASSUME UNCHANGED npz, submission'.rows = submission.rows,
             Written("submission")' => Written("submission")
      PROVE  Exported'
  BY <1>2, <1>3 DEF Exported
<1>4. CASE WriteCsv \/ SaveNpz
  <2>1. Working /\ pc \in {"csv", "embed"} /\ (Writes(CsvOf[split]) \/ Writes(NpzOf[split]))
    BY <1>4 DEF WriteCsv, SaveNpz, Working
  <2>2. ~ Written("submission")
    BY <2>1, NotYet
  <2>3. Written("submission")' = Written("submission")
    <3>1. split \in Splits
      BY DEF Types
    <3> QED
      BY <2>1, <3>1, OneFile
  <2> QED
    BY <2>2, <2>3 DEF Exported
<1>5. CASE Export
  <2>1. CASE UNCHANGED <<output, submission>>
    BY <1>3, <1>5, <2>1 DEF Export, Written
  <2>2. CASE ~ UNCHANGED <<output, submission>>
    <3>1. /\ Judged /\ npz' = npz
          /\ submission' = [rows |-> [q \in DOMAIN npz["query"] |-> ExportRow(Raw, RankedBy)],
                            ranking |-> IF SingleQuery THEN "exact_cosine" ELSE "cohort",
                            scope |-> "untold"]
      BY <1>5, <2>2 DEF Export
    <3> QED
      BY <1>2, <3>1 DEF Exported
  <2> QED
    BY <2>1, <2>2
<1>6. CASE TellScope
  <2>1. submission'.rows = submission.rows
    BY <1>6, TellsScope DEF Types
  <2> QED
    BY <1>3, <1>6, <2>1 DEF TellScope, Written
<1>7. CASE WriteReport
  <2>1. Written("submission")' = Written("submission")
    BY <1>7, OneFile DEF WriteReport
  <2> QED
    BY <1>3, <1>7, <2>1 DEF WriteReport
<1>8. CASE Start \/ Open \/ EncodeBatch \/ HashInput \/ Stop \/ SourceChanges \/ UNCHANGED vars
  BY <1>3, <1>8 DEF Start, Open, EncodeBatch, HashInput, Stop, SourceChanges, vars, Result, Written
<1> QED
  BY <1>4, <1>5, <1>6, <1>7, <1>8 DEF Next

------------------------------------------------------------------------------
(* Digested and Told, and the invariant                                     *)

\* The digest is of what the files were made from
LEMMA DigestedNow ==
    ASSUME Types, Seeing, Folder, Embedded, pc = "hash",
           digest' = Seen(Hashed, IF input.kind = "directory" THEN Csvs ELSE {})
    PROVE  /\ \A s \in Splits : \A u \in Used(s) : \E d \in Elements(digest') :
                 /\ d.id = u.id
                 /\ d.shows >= u.shows
                 /\ input.kind = "directory" /\ u.id \in Csvs => d.shows = u.shows
           /\ input.kind # "zip" =>
                 \A d \in Elements(digest') : \E s \in Splits : \E u \in Used(s) : u.id = d.id
<1> DEFINE old == IF input.kind = "directory" THEN Csvs ELSE {}
           seen == Seen(Hashed, old)
<1>0. "gallery" \in Splits /\ "query" \in Splits /\ Splits = {"gallery", "query"} /\ Working
  BY DEF Splits, Working
<1>1. /\ content \in [Parts -> Nat] /\ held \in [Parts -> Nat] /\ input \in Inputs
      /\ \A x \in Parts : held[x] <= content[x]
  BY DEF Types, Seeing
<1>2. /\ Hashed \in Seq(Parts)
      /\ Csvs \subseteq Elements(Hashed)
      /\ \A s \in Splits : Elements(Chosen(s)) \subseteq Elements(Hashed)
      /\ input.kind # "zip" => Elements(Hashed) = Csvs \cup Elements(Chosen("gallery"))
                                                      \cup Elements(Chosen("query"))
  BY <1>1, HashedIs
<1>3. /\ seen \in Seq(Shown) /\ Len(seen) = Len(Hashed)
      /\ \A i \in 1 .. Len(Hashed) :
            /\ seen[i].id = Hashed[i]
            /\ seen[i].shows = IF Hashed[i] \in old THEN held[Hashed[i]] ELSE content[Hashed[i]]
  <2>1. Hashed \in Seq(Parts)
    BY <1>2
  <2>2. content \in [Parts -> Nat] /\ held \in [Parts -> Nat]
    BY <1>1
  <2> HIDE DEF old
  <2> QED
    BY <2>1, <2>2, SeenType
<1>4. DOMAIN Hashed = 1 .. Len(Hashed) /\ DOMAIN seen = 1 .. Len(Hashed)
  <2>1. DOMAIN Hashed = 1 .. Len(Hashed)
    BY <1>2
  <2> HIDE DEF seen
  <2>2. DOMAIN seen = 1 .. Len(seen)
    BY <1>3
  <2> QED
    BY <1>3, <2>1, <2>2
<1>5. digest' = seen
  OBVIOUS
<1> HIDE DEF seen
\* every part hashed is in the digest, as it is now or as it was inspected
<1>6. ASSUME NEW x \in Elements(Hashed)
      PROVE  \E d \in Elements(seen) :
                d.id = x /\ d.shows = IF x \in old THEN held[x] ELSE content[x]
  <2>1. PICK i \in 1 .. Len(Hashed) : x = Hashed[i]
    BY <1>4, <1>6 DEF Elements
  <2>2. seen[i] \in Elements(seen)
    BY <1>4, <2>1 DEF Elements
  <2> QED
    BY <1>3, <2>1, <2>2
<1>7. ASSUME NEW s \in Splits
      PROVE  /\ csv[s].shows = held[CsvOf[s]]
             /\ npz[s] \in Seq(Shown) /\ Current(npz[s])
             /\ {e.id : e \in Elements(npz[s])} = Elements(Chosen(s))
             /\ Elements(Chosen(s)) \subseteq Ids
  <2>1. Written(CsvOf[s]) /\ Written(NpzOf[s])
    BY <1>0, NotYet
  <2>2. csv[s] = CsvText(s) /\ Full(npz[s], s)
    BY <2>1 DEF Embedded
  <2>3. npz[s] \in Seq(Shown) /\ Current(npz[s])
    BY DEF Types, Seeing
  <2> DEFINE c == Chosen(s)
             n == npz[s]
  <2>4. /\ c \in Seq(Ids) /\ Len(n) = Len(c) /\ \A i \in 1 .. Len(c) : n[i].id = c[i]
    BY <1>1, <2>2, ChosenType DEF Full, Of
  <2>5. DOMAIN c = 1 .. Len(c) /\ DOMAIN n = 1 .. Len(c) /\ \A i \in 1 .. Len(c) : c[i] \in Ids
    BY <2>3, <2>4
  <2>6. csv[s].shows = held[CsvOf[s]]
    BY <2>2 DEF CsvText
  <2> HIDE DEF c, n
  <2>7. {e.id : e \in Elements(n)} = Elements(c) /\ Elements(c) \subseteq Ids
    BY <2>4, <2>5 DEF Elements
  <2> QED
    BY <2>3, <2>6, <2>7 DEF c, n
<1>8. ASSUME NEW s \in Splits, NEW u \in Used(s)
      PROVE  \E d \in Elements(seen) :
                 /\ d.id = u.id
                 /\ d.shows >= u.shows
                 /\ input.kind = "directory" /\ u.id \in Csvs => d.shows = u.shows
  <2>1. CASE u = [id |-> CsvOf[s], shows |-> csv[s].shows]
    <3>1. u.id = CsvOf[s] /\ u.shows = held[CsvOf[s]] /\ CsvOf[s] \in Csvs /\ CsvOf[s] \in Parts
      BY <1>7, <2>1 DEF Csvs, Parts
    <3>2. PICK d \in Elements(seen) :
             d.id = u.id /\ d.shows = IF u.id \in old THEN held[u.id] ELSE content[u.id]
      BY <1>2, <1>6, <3>1
    <3>3. held[u.id] \in Nat /\ content[u.id] \in Nat /\ held[u.id] <= content[u.id]
      BY <1>1, <3>1
    <3>4. input.kind = "directory" => u.id \in old
      BY <3>1
    <3> HIDE DEF old
    <3>5. d.shows >= u.shows /\ (input.kind = "directory" => d.shows = u.shows)
      BY <3>1, <3>2, <3>3, <3>4
    <3> QED
      BY <3>2, <3>5
  <2>2. CASE u \in Elements(npz[s])
    <3>1. PICK i \in DOMAIN npz[s] : u = npz[s][i]
      BY <2>2 DEF Elements
    <3>2. /\ u \in Shown /\ u.shows <= content[u.id]
      BY <1>7, <3>1 DEF Current
    <3>3. u.id \in Elements(Chosen(s)) /\ u.id \in Ids
      BY <1>7, <2>2
    <3>4. u.id \in Elements(Hashed) /\ u.id \notin Csvs /\ u.id \notin old /\ u.id \in Parts
      BY <1>2, <3>3, IdsAssumption DEF Parts
    <3>5. PICK d \in Elements(seen) : d.id = u.id /\ d.shows = content[u.id]
      BY <1>6, <3>4
    <3>6. content[u.id] \in Nat /\ u.shows \in Nat
      BY <1>1, <3>2, <3>4 DEF Shown
    <3>7. d.shows >= u.shows
      BY <3>2, <3>5, <3>6
    <3> QED
      BY <3>4, <3>5, <3>7
  <2> QED
    BY <1>8, <2>1, <2>2 DEF Used
<1>9. ASSUME input.kind # "zip", NEW d \in Elements(seen)
      PROVE  \E s \in Splits : \E u \in Used(s) : u.id = d.id
  <2>1. d.id \in Elements(Hashed)
    <3>1. PICK i \in 1 .. Len(Hashed) : d = seen[i]
      BY <1>4, <1>9 DEF Elements
    <3> QED
      BY <1>3, <1>4, <3>1 DEF Elements
  <2>2. CASE d.id \in Csvs
    <3>1. PICK s \in Splits : d.id = CsvOf[s]
      BY <2>2 DEF Csvs
    <3>2. [id |-> CsvOf[s], shows |-> csv[s].shows] \in Used(s)
      BY DEF Used
    <3>3. [id |-> CsvOf[s], shows |-> csv[s].shows].id = d.id
      BY <3>1
    <3> QED
      BY <3>2, <3>3
  <2>3. CASE d.id \notin Csvs
    <3>1. PICK s \in Splits : d.id \in Elements(Chosen(s))
      BY <1>0, <1>2, <1>9, <2>1, <2>3
    <3>2. PICK u \in Elements(npz[s]) : u.id = d.id
      BY <1>7, <3>1
    <3> QED
      BY <3>2 DEF Used
  <2> QED
    BY <2>2, <2>3
<1> QED
  BY <1>5, <1>8, <1>9

\* The digest stays that of the embeddings
LEMMA DigestedStep ==
    ASSUME Types, Seeing, Folder, Embedded, Digested, [Next]_vars
    PROVE  Digested'
<1> USE FilesNamed
<1>10. input' = input
  BY DEF Next, Start, Open, WriteCsv, EncodeBatch, SaveNpz, Export, HashInput, TellScope,
         WriteReport, Stop, SourceChanges, Source, vars
<1>11. UNCHANGED <<npz, csv>> => \A s \in Splits : Used(s)' = Used(s)
  BY DEF Used
<1>12. ASSUME UNCHANGED <<npz, csv, digest>>,
              pc' \in {"manifest", "report"} \/ Written("import_manifest.json")'
                => pc \in {"manifest", "report"} \/ Written("import_manifest.json")
       PROVE  Digested'
  <2>1. \A s \in Splits : Used(s)' = Used(s)
    BY <1>11, <1>12
  <2>2. input' = input /\ digest' = digest
    BY <1>10, <1>12
  <2> QED
    BY <1>12, <2>1, <2>2 DEF Digested
<1>1. CASE HashInput
  <2>1. /\ pc = "hash" /\ UNCHANGED <<npz, csv>>
        /\ digest' = Seen(Hashed, IF input.kind = "directory" THEN Csvs ELSE {})
    BY <1>1 DEF HashInput
  <2>2. \A s \in Splits : Used(s)' = Used(s)
    BY <1>11, <2>1
  <2>3. /\ \A s \in Splits : \A u \in Used(s) : \E d \in Elements(digest') :
              /\ d.id = u.id
              /\ d.shows >= u.shows
              /\ input.kind = "directory" /\ u.id \in Csvs => d.shows = u.shows
        /\ input.kind # "zip" =>
              \A d \in Elements(digest') : \E s \in Splits : \E u \in Used(s) : u.id = d.id
    BY <2>1, DigestedNow
  <2> QED
    BY <1>10, <2>2, <2>3 DEF Digested
<1>2. CASE TellScope \/ WriteReport
  <2>1. pc \in {"manifest", "report"} /\ UNCHANGED <<npz, csv, digest>>
    BY <1>2 DEF TellScope, WriteReport
  <2> QED
    BY <1>12, <2>1
<1>3. ASSUME Working, pc' \notin {"manifest", "report"},
             output' = output \/ \E f \in Files \ {"import_manifest.json"} : Writes(f)
      PROVE  Digested'
  <2>1. ~ Written("import_manifest.json")
    BY <1>3, NotYet
  <2>2. ~ Written("import_manifest.json")'
    <3>1. CASE output' = output
      BY <2>1, <3>1 DEF Written
    <3>2. ASSUME NEW f \in Files \ {"import_manifest.json"}, Writes(f)
          PROVE  ~ Written("import_manifest.json")'
      BY <2>1, <3>2, OneFile
    <3> QED
      BY <1>3, <3>1, <3>2
  <2> QED
    BY <1>3, <2>2 DEF Digested
<1>4. CASE WriteCsv
  <2>1. split \in Splits
    BY DEF Types
  <2>2. /\ Working /\ pc' = "embed" /\ Writes(CsvOf[split])
    BY <1>4 DEF WriteCsv, Working
  <2> QED
    BY <1>3, <2>1, <2>2
<1>5. CASE EncodeBatch
  BY <1>3, <1>5 DEF EncodeBatch, Working, Result
<1>6. CASE SaveNpz
  <2>1. split \in Splits
    BY DEF Types
  <2>2. /\ Working /\ pc' \in {"csv", "export"} /\ Writes(NpzOf[split])
    BY <1>6 DEF SaveNpz, Working
  <2> QED
    BY <1>3, <2>1, <2>2
<1>7. CASE Export
  <2>1. /\ Working /\ pc' \in {"hash", "failed"} /\ (output' = output \/ Writes("submission"))
    BY <1>7 DEF Export, Working
  <2> QED
    BY <1>3, <2>1
<1>8. CASE Start \/ Open \/ Stop
  <2>1. UNCHANGED <<output, npz, csv, digest>> /\ pc' \notin {"manifest", "report"}
    BY <1>8 DEF Start, Open, Stop, Result
  <2> QED
    BY <1>12, <2>1 DEF Written
<1>9. CASE SourceChanges \/ UNCHANGED vars
  <2>1. UNCHANGED <<output, npz, csv, digest, pc>>
    BY <1>9 DEF SourceChanges, Result, vars
  <2> QED
    BY <1>12, <2>1 DEF Written
<1> QED
  BY <1>1, <1>2, <1>4, <1>5, <1>6, <1>7, <1>8, <1>9 DEF Next

\* The manifest of the submission tells the scope from TellScope on
LEMMA ToldStep ==
    ASSUME Types, Folder, Told, [Next]_vars
    PROVE  Told'
<1> USE FilesNamed
<1>0. Scope' = Scope
  <2>1. input' = input
    BY DEF Next, Start, Open, WriteCsv, EncodeBatch, SaveNpz, Export, HashInput, TellScope,
           WriteReport, Stop, SourceChanges, Source, vars
  <2> QED
    BY <2>1, SameInput
<1>1. CASE TellScope
  <2>1. submission'.scope = Scope
    BY <1>1, TellsScope DEF Types
  <2> QED
    BY <1>0, <2>1 DEF Told
<1>2. CASE WriteReport
  <2>1. pc = "report" /\ UNCHANGED submission
    BY <1>2 DEF WriteReport
  <2> QED
    BY <1>0, <2>1 DEF Told
<1>3. ASSUME Working, pc' # "report",
             output' = output \/ \E f \in Files \ {"import_manifest.json"} : Writes(f)
      PROVE  Told'
  <2>1. ~ Written("import_manifest.json")
    BY <1>3, NotYet
  <2>2. ~ Written("import_manifest.json")'
    <3>1. CASE output' = output
      BY <2>1, <3>1 DEF Written
    <3>2. ASSUME NEW f \in Files \ {"import_manifest.json"}, Writes(f)
          PROVE  ~ Written("import_manifest.json")'
      BY <2>1, <3>2, OneFile
    <3> QED
      BY <1>3, <3>1, <3>2
  <2> QED
    BY <1>3, <2>2 DEF Told
<1>4. CASE WriteCsv
  <2>1. split \in Splits
    BY DEF Types
  <2>2. /\ Working /\ pc' = "embed" /\ Writes(CsvOf[split])
    BY <1>4 DEF WriteCsv, Working
  <2> QED
    BY <1>3, <2>1, <2>2
<1>5. CASE EncodeBatch
  BY <1>3, <1>5 DEF EncodeBatch, Working, Result
<1>6. CASE SaveNpz
  <2>1. split \in Splits
    BY DEF Types
  <2>2. /\ Working /\ pc' \in {"csv", "export"} /\ Writes(NpzOf[split])
    BY <1>6 DEF SaveNpz, Working
  <2> QED
    BY <1>3, <2>1, <2>2
<1>7. CASE Export
  <2>1. /\ Working /\ pc' \in {"hash", "failed"} /\ (output' = output \/ Writes("submission"))
    BY <1>7 DEF Export, Working
  <2> QED
    BY <1>3, <2>1
<1>8. CASE HashInput
  BY <1>3, <1>8 DEF HashInput, Working
<1>9. CASE Start \/ Open \/ Stop
  <2>1. UNCHANGED <<output, submission>> /\ pc' # "report"
    BY <1>9 DEF Start, Open, Stop, Result
  <2> QED
    BY <1>0, <2>1 DEF Told, Written
<1>10. CASE SourceChanges \/ UNCHANGED vars
  <2>1. UNCHANGED <<output, submission, pc>>
    BY <1>10 DEF SourceChanges, Result, vars
  <2> QED
    BY <1>0, <2>1 DEF Told, Written
<1> QED
  BY <1>1, <1>2, <1>4, <1>5, <1>6, <1>7, <1>8, <1>9, <1>10 DEF Next

\* Nothing is written at first
LEMMA InitInv == Init => IInv
<1> SUFFICES ASSUME Init PROVE IInv
  OBVIOUS
<1> USE FilesNamed
<1>1. Types
  BY TypesInit
<1>2. /\ content = [x \in Parts |-> 0] /\ held = content /\ changes = 0 /\ pc = "idle"
      /\ vectors = <<>> /\ digest = <<>> /\ npz = [s \in Splits |-> <<>>]
      /\ output = [f \in Files |-> NotWritten]
  BY DEF Init
<1>3. \A f \in Files : output[f] = NotWritten /\ ~ Written(f)
  BY <1>2 DEF Written
<1>4. ~ Working
  BY <1>2 DEF Working
<1>5. Current(<<>>)
  BY DEF Current
<1>6. Seeing
  BY <1>2, <1>5 DEF Seeing
<1>7. Folder
  BY <1>3, <1>4 DEF Folder, OneRun
<1>8. Embedded /\ Exported /\ Digested /\ Told
  BY <1>2, <1>3 DEF Embedded, Exported, Digested, Told
<1> QED
  BY <1>1, <1>6, <1>7, <1>8 DEF IInv

\* The invariant behind the theorems is inductive
LEMMA StepInv == IInv /\ [Next]_vars => IInv'
<1> SUFFICES ASSUME IInv, [Next]_vars PROVE IInv'
  OBVIOUS
<1>1. Types /\ Seeing /\ Folder /\ Embedded /\ Exported /\ Digested /\ Told
  BY DEF IInv
<1>2. Types'
  BY <1>1, TypesStep
<1>3. Seeing' /\ Folder' /\ Embedded' /\ Exported' /\ Digested' /\ Told'
  BY <1>1, <1>2, SeeingStep, FolderStep, EmbeddedStep, ExportedStep, DigestedStep, ToldStep
<1> QED
  BY <1>2, <1>3 DEF IInv

\* The inductive invariant holds of every behaviour
THEOREM Invariant == Spec => []IInv
<1>1. IInv /\ [Next]_vars => IInv'
  BY StepInv
<1> QED
  BY InitInv, <1>1, PTL DEF Spec

------------------------------------------------------------------------------
(* The properties                                                           *)

\* What was embedded shows no version there is not
LEMMA ReadingType ==
    ASSUME Types, Seeing, NEW v \in Seq(Shown), Current(v)
    PROVE  v \in Seq(Reading)
<1>1. content \in [Parts -> Nat] /\ changes \in 0 .. MaxChanges /\ MaxChanges \in Nat
  BY BoundsAssumption DEF Types
<1>2. ASSUME NEW i \in 1 .. Len(v) PROVE v[i] \in Reading
  <2>0. v[i] \in Shown
    OBVIOUS
  <2>1. v[i] \in [id : Parts, shows : Nat] /\ v[i].shows <= content[v[i].id]
    BY <2>0 DEF Current, Shown
  <2>2. content[v[i].id] <= changes
    BY <2>1 DEF Seeing
  <2>3. v[i].shows \in 0 .. MaxChanges
    BY <1>1, <2>1, <2>2
  <2> QED
    BY <2>1, <2>3 DEF Reading
<1>3. v = [i \in 1 .. Len(v) |-> v[i]] /\ Len(v) \in Nat
  OBVIOUS
<1> QED
  BY <1>2, <1>3

\* Every variable keeps its type: the images are embedded in their order and none
\* beyond the chosen records, and what was seen of an image exists
THEOREM TypeSafe == Spec => []TypeOK
<1>1. IInv => TypeOK
  <2> SUFFICES ASSUME IInv PROVE TypeOK
    OBVIOUS
  <2> USE DEF IInv
  <2>1. content \in [Parts -> 0 .. MaxChanges] /\ held \in [Parts -> 0 .. MaxChanges]
    <3>1. content \in [Parts -> Nat] /\ held \in [Parts -> Nat] /\ changes \in 0 .. MaxChanges
      BY DEF Types
    <3>2. \A x \in Parts : content[x] <= changes /\ held[x] <= content[x]
      BY DEF Seeing
    <3>3. \A x \in Parts : content[x] \in 0 .. MaxChanges /\ held[x] \in 0 .. MaxChanges
      BY BoundsAssumption, <3>1, <3>2
    <3> QED
      BY <3>1, <3>3
  <2>2. vectors \in Seq(Reading) /\ digest \in Seq(Reading)
    BY ReadingType DEF Types, Seeing
  <2>3. npz \in [Splits -> Seq(Reading)]
    <3>1. \A s \in Splits : npz[s] \in Seq(Reading)
      BY ReadingType DEF Types, Seeing
    <3> QED
      BY <3>1 DEF Types
  <2>4. pc = "embed" => Len(vectors) <= Len(Chosen(split))
    BY DEF Embedded, Of
  <2> QED
    BY <2>1, <2>2, <2>3, <2>4 DEF TypeOK, Types, Stages
<1> QED
  BY Invariant, <1>1, PTL

\* A folder holds files of one run, and one with import_manifest.json is complete and
\* tells its scope, whatever runs were stopped, refused or tried again
THEOREM ReportIsTruthful == Spec => []ReportTruthful
<1>1. IInv => ReportTruthful
  <2> SUFFICES ASSUME IInv PROVE ReportTruthful
    OBVIOUS
  <2> USE FilesNamed DEF IInv
  <2>1. OneRun
    BY DEF Folder
  <2> SUFFICES ASSUME Written("import_manifest.json")
               PROVE  /\ \A f \in Files : output[f] = output["import_manifest.json"]
                      /\ \A s \in Splits : Len(npz[s]) = Len(Chosen(s))
                                /\ \A i \in DOMAIN npz[s] : npz[s][i].id = Chosen(s)[i]
                      /\ Len(submission.rows) = Len(Chosen("query"))
                      /\ submission.scope = Scope
    BY <2>1 DEF ReportTruthful, Written
  <2>2. \A f \in Files : output[f] = output["import_manifest.json"] /\ Written(f)
    BY DEF Folder, Written
  <2>3. \A s \in Splits : npz[s] \in Seq(Shown) /\ Full(npz[s], s)
    BY <2>2 DEF Embedded, Types
  <2>4. \A s \in Splits : /\ Len(npz[s]) = Len(Chosen(s))
                          /\ \A i \in DOMAIN npz[s] : npz[s][i].id = Chosen(s)[i]
    BY <2>3 DEF Full, Of
  <2>5. Len(submission.rows) = Len(Chosen("query"))
    <3>1. submission.rows = [q \in DOMAIN npz["query"] |-> ExportRow(Raw, RankedBy)]
      BY <2>2 DEF Exported
    <3>2. DOMAIN npz["query"] = 1 .. Len(npz["query"]) /\ Len(npz["query"]) \in Nat
      BY <2>3
    <3> DEFINE e == ExportRow(Raw, RankedBy)
               n == Len(npz["query"])
    <3>3. submission.rows = [q \in 1 .. n |-> e] /\ n \in Nat
      BY <3>1, <3>2
    <3> HIDE DEF e, n
    <3>4. Len(submission.rows) = n
      BY <3>3
    <3> QED
      BY <2>4, <3>4 DEF n
  <2>6. submission.scope = Scope
    BY DEF Told
  <2> QED
    BY <2>2, <2>4, <2>5, <2>6
<1> QED
  BY Invariant, <1>1, PTL

\* input_sha256 covers every CSV and every image the files were made from, none older
\* than it was then; that of a ZIP everything in it, any other nothing else
THEOREM DigestIsOfEmbedded == Spec => []DigestOfEmbedded
<1>1. IInv => DigestOfEmbedded
  <2> SUFFICES ASSUME IInv, Written("import_manifest.json") PROVE DigestOfEmbedded
    BY DEF DigestOfEmbedded, Written
  <2> USE DEF IInv
  <2>1. input.kind # "zip" =>
           \A d \in Elements(digest) : \E s \in Splits : \E u \in Used(s) : u.id = d.id
    BY DEF Digested
  <2>2. ASSUME NEW s \in Splits, NEW u \in Used(s)
        PROVE  \E d \in Elements(digest) :
                  /\ d.id = u.id
                  /\ d.shows >= u.shows
                  /\ changes = 0 \/ (input.kind = "directory" /\ u.id \in Csvs) => d.shows = u.shows
    <3>1. PICK d \in Elements(digest) :
             /\ d.id = u.id
             /\ d.shows >= u.shows
             /\ input.kind = "directory" /\ u.id \in Csvs => d.shows = u.shows
      BY <2>2 DEF Digested
    <3>2. u.shows \in Nat
      <4>1. npz[s] \in Seq(Shown) /\ csv[s] \in Texts
        BY DEF Types
      <4>2. csv[s].shows \in Nat
        BY <4>1 DEF Texts
      <4>3. ASSUME u \in Elements(npz[s]) PROVE u.shows \in Nat
        <5>1. PICK i \in 1 .. Len(npz[s]) : u = npz[s][i]
          BY <4>1, <4>3 DEF Elements
        <5>2. u \in Shown
          BY <4>1, <5>1
        <5> QED
          BY <5>2 DEF Shown
      <4> QED
        BY <2>2, <4>2, <4>3 DEF Used
    <3>3. d.id \in Parts /\ d.shows \in Nat /\ d.shows <= content[d.id]
      <4>1. digest \in Seq(Shown) /\ Current(digest)
        BY DEF Types, Seeing
      <4>2. PICK i \in 1 .. Len(digest) : d = digest[i]
        BY <4>1 DEF Elements
      <4>3. digest[i] \in Shown
        BY <4>1, <4>2
      <4> QED
        BY <4>1, <4>2, <4>3 DEF Current, Shown
    <3>4. content[d.id] \in Nat /\ content[d.id] <= changes
      BY <3>3 DEF Types, Seeing
    <3>5. changes = 0 => d.shows = u.shows
      BY <3>1, <3>2, <3>3, <3>4
    <3> QED
      BY <3>1, <3>5
  <2> QED
    BY <2>1, <2>2 DEF DigestOfEmbedded
<1> QED
  BY Invariant, <1>1, PTL

\* The scores of what was embedded: one for each record, no fewer than are judged
LEMMA ScoresType ==
    ASSUME Types, Folder, Embedded, Written("submission")
    PROVE  /\ Raw \in Seq(Int) /\ Cohort \in Seq(Int)
           /\ Len(Raw) = Len(npz["gallery"]) /\ Len(Cohort) = Len(Raw)
           /\ DOMAIN npz["gallery"] = 1 .. Len(Raw)
           /\ TopK <= Len(Raw)
<1> USE FilesNamed
<1>1. npz["gallery"] \in Seq(Shown) /\ input \in Inputs
  BY DEF Types
<1>2. input.raw \in [Ids -> Int] /\ input.scores \in [Ids -> Int]
  BY <1>1, InputType
<1> DEFINE g == npz["gallery"]
           n == Len(g)
<1>3. /\ DOMAIN g = 1 .. n /\ n \in Nat
      /\ \A r \in 1 .. n : g[r] \in Shown
  BY <1>1
<1>5. Full(g, "gallery")
  BY DEF Folder, Embedded
<1>4. \A r \in 1 .. n : g[r].id \in Ids
  <2>1. Chosen("gallery") \in Seq(Ids)
    BY <1>1, ChosenType
  <2> HIDE DEF g, n
  <2> QED
    BY <1>5, <2>1 DEF Full, Of, n
<1>6. n = Len(Chosen("gallery")) /\ Len(Chosen("gallery")) >= MinGallery
  BY <1>5 DEF Full, Folder, Enough
<1> HIDE DEF g, n
<1>7. ASSUME NEW f \in [Ids -> Int] PROVE Vector(f) \in Seq(Int) /\ Len(Vector(f)) = n
  <2>1. Vector(f) = [r \in 1 .. n |-> f[g[r].id]]
    BY <1>3 DEF Vector, g
  <2>2. \A r \in 1 .. n : f[g[r].id] \in Int
    BY <1>4
  <2> QED
    BY <1>3, <2>1, <2>2
<1>8. Raw \in Seq(Int) /\ Len(Raw) = n
  BY <1>2, <1>7 DEF Raw
<1>9. Cohort \in Seq(Int) /\ Len(Cohort) = n
  BY <1>2, <1>7 DEF Cohort
<1>10. TopK <= n
  BY <1>3, <1>6, MinAssumption, TopKAssumption
<1> QED
  BY <1>3, <1>8, <1>9, <1>10 DEF g, n

\* Every row of a submission
LEMMA RowsAre ==
    ASSUME Types, Exported, Written("submission"), NEW q \in DOMAIN submission.rows
    PROVE  submission.rows[q] = ExportRow(Raw, RankedBy) /\ Judged
  BY DEF Exported

\* What the submission accepts is above the threshold, and nothing ranked that has a
\* better raw cosine than an accepted candidate is refused: whatever the booster is
THEOREM RefusesByCosine == Spec => []RefusalByCosine
<1>1. IInv => RefusalByCosine
  <2> SUFFICES ASSUME IInv, Written("submission"),
                      NEW q \in DOMAIN submission.rows,
                      NEW a \in Elements(submission.rows[q].accepted)
               PROVE  /\ Raw[a] >= Threshold
                      /\ \A b \in Elements(submission.rows[q].ranked) :
                            Raw[b] > Raw[a] => b \in Elements(submission.rows[q].accepted)
    BY DEF RefusalByCosine, Written
  <2> USE DEF IInv
  <2>1. /\ Raw \in Seq(Int) /\ Cohort \in Seq(Int)
        /\ Len(Cohort) = Len(Raw) /\ TopK <= Len(Raw)
    BY ScoresType
  <2>2. RankedBy \in Seq(Int) /\ Len(RankedBy) = Len(Raw)
    BY <2>1 DEF RankedBy
  <2>3. submission.rows[q] = ExportRow(Raw, RankedBy) /\ Judged
    BY RowsAre
  <2>4. PolicyAnswers(Sorted(Judging(Raw, RankedBy)))
    BY <2>3 DEF Judged, Judging, Ranked
  <2> QED
    BY <2>1, <2>2, <2>3, <2>4, RowRefusesByCosine
<1> QED
  BY Invariant, <1>1, PTL

\* The export and the ML service give one answer to one query
THEOREM AnswersDoAgree == Spec => []AnswersAgree
<1>1. IInv => AnswersAgree
  <2> SUFFICES ASSUME IInv, Written("submission"),
                      NEW q \in DOMAIN submission.rows, NEW topk \in DOMAIN npz["gallery"]
               PROVE  LET row == submission.rows[q]
                          answer == ServiceAnswer(topk)
                      IN  /\ Prefix(answer.ranked, TopK) = Prefix(row.ranked, topk)
                          /\ answer.accepted = Keep(row.accepted, Elements(answer.ranked))
    BY DEF AnswersAgree, Written
  <2> USE DEF IInv
  <2>1. /\ Raw \in Seq(Int) /\ Cohort \in Seq(Int)
        /\ Len(Cohort) = Len(Raw) /\ TopK <= Len(Raw)
        /\ topk \in 1 .. Len(Raw)
    BY ScoresType
  <2>2. submission.rows[q] = ExportRow(Raw, RankedBy)
    BY RowsAre
  <2>3. CASE SingleQuery
    <3>1. RankedBy = Raw
      BY <2>3 DEF RankedBy
    <3>2. ServiceAnswer(topk) = SearchAnswer(Raw, topk)
      BY <2>3 DEF ServiceAnswer
    <3> QED
      BY <2>1, <2>2, <3>1, <3>2, SearchAgrees
  <2>4. CASE ~ SingleQuery
    <3>1. RankedBy = Cohort
      BY <2>4 DEF RankedBy
    <3>2. topk \in 1 .. Len(Cohort) /\ TopK <= Len(Cohort)
      BY <2>1
    <3>3. ServiceAnswer(topk) = BatchAnswer(Raw, Cohort, topk)
      BY <2>4 DEF ServiceAnswer
    <3> QED
      BY <2>1, <2>2, <3>1, <3>2, <3>3, BatchAgrees
  <2> QED
    BY <2>3, <2>4
<1> QED
  BY Invariant, <1>1, PTL

\* The ids of a full set of vectors
LEMMA IdsOfFull ==
    ASSUME input \in Inputs, NEW s \in Splits, NEW v \in Seq(Shown), Full(v, s)
    PROVE  Chosen(s) = [i \in DOMAIN v |-> v[i].id]
<1> DEFINE c == Chosen(s)
<1>1. c \in Seq(Ids) /\ Len(c) \in Nat
  BY ChosenType
<1>2. Len(v) = Len(c) /\ \A i \in 1 .. Len(v) : v[i].id = c[i]
  BY DEF Full, Of
<1> HIDE DEF c
<1>3. c = [i \in 1 .. Len(c) |-> c[i]] /\ DOMAIN v = 1 .. Len(v)
  BY <1>1
<1>4. c = [i \in DOMAIN v |-> v[i].id]
  BY <1>2, <1>3
<1> QED
  BY <1>4 DEF c

\* After the embedding an export fails for three reasons only
THEOREM InspectedDoExport == Spec => InspectedExports
<1>1. ASSUME IInv, pc = "export", Export, pc' = "failed"
      PROVE  \/ ~ Judged
             \/ \E s \in Splits : /\ input.limit = 0
                                  /\ \/ input.csv[s].bom /\ Missing(s) = {}
                                     \/ input.csv[s].spaced \ Missing(s) # {}
  <2> USE DEF IInv
  <2>1. ~ (Judged /\ \A s \in Splits : ReadBack(s))
    BY <1>1 DEF Export
  <2>2. Working
    BY <1>1 DEF Working
  <2>3. ASSUME NEW s \in Splits, ~ ReadBack(s)
        PROVE  /\ input.limit = 0
               /\ \/ input.csv[s].bom /\ Missing(s) = {}
                  \/ input.csv[s].spaced \ Missing(s) # {}
    <3>1. Written(CsvOf[s]) /\ Written(NpzOf[s])
      BY <1>1, <2>2, NotYet
    <3>2. csv[s] = CsvText(s) /\ Full(npz[s], s)
      BY <3>1, <1>1 DEF Embedded
    <3>3. input \in Inputs /\ npz[s] \in Seq(Shown)
      BY <1>1 DEF Types
    <3>4. input.limit \in Nat /\ input.csv[s].bom \in BOOLEAN
      BY <3>3, InputType
    <3>5. csv[s].ids = [i \in DOMAIN npz[s] |-> npz[s][i].id]
      BY <3>2, <3>3, IdsOfFull DEF CsvText
    <3>6. csv[s].bom \/ csv[s].spaced # {}
      BY <2>3, <3>5 DEF ReadBack
    <3>7. CASE csv[s].bom
      <4>1. CsvText(s).bom = (input.csv[s].bom /\ Missing(s) = {} /\ input.limit = 0)
        BY DEF CsvText
      <4> QED
        BY <3>2, <3>7, <4>1
    <3>8. CASE csv[s].spaced # {}
      <4>1. ~ (input.limit > 0) /\ input.csv[s].spaced \ Missing(s) # {}
        BY <3>2, <3>8 DEF CsvText
      <4> QED
        BY <3>4, <4>1
    <3> QED
      BY <3>6, <3>7, <3>8
  <2> QED
    BY <2>1, <2>3
<1>2. IInv /\ [Next]_vars =>
        [pc = "export" /\ Export /\ pc' = "failed" =>
          \/ ~Judged
          \/ \E s \in Splits : /\ input.limit = 0
                              /\ \/ input.csv[s].bom /\ Missing(s) = {}
                                 \/ input.csv[s].spaced \ Missing(s) # {}]_vars
  BY <1>1
<1> QED
  BY Invariant, <1>2, PTL DEF Spec, InspectedExports
==============================================================================
