----------------------------- MODULE LinkProofs -----------------------------
(***************************************************************************)
(* What LinkStage guarantees for every set of libraries, search directories*)
(* and options and any number of changes: its types, that an undisturbed   *)
(* call leaves an image of what is there now, and that the call after it   *)
(* has nothing to do.                                                      *)
(*                                                                         *)
(* Lists of paths are made one by one: first, what such a list holds, by   *)
(* induction over its length.                                              *)
(***************************************************************************)
EXTENDS LinkStage, SequenceTheorems, FiniteSetTheorems, WellFoundedInduction, TLAPS

\* A set of numbers that is not empty has a least one.
LEMMA Least ==
    ASSUME NEW G \in SUBSET Nat, G # {}
    PROVE  \E i \in G : \A j \in G : i <= j
<1>1. PICK i \in G : \A j \in G : ~(<<j, i>> \in OpToRel(<, Nat))
  BY NatLessThanWellFounded, WFMin
<1>2. ASSUME NEW j \in G PROVE i <= j
  <2>1. <<j, i>> \in Nat \X Nat /\ i \in Nat /\ j \in Nat
    OBVIOUS
  <2>2. j < i => <<j, i>> \in OpToRel(<, Nat)
    BY <2>1, SMT DEF OpToRel
  <2>3. ~(j < i)
    BY <1>1, <2>2, Zenon
  <2> QED BY <2>1, <2>3
<1> QED BY <1>2

\* Induction: a set with 0 in it and with every successor has all numbers.
LEMMA Induction ==
    ASSUME NEW G, 0 \in G, \A n \in Nat : n \in G => n + 1 \in G
    PROVE  \A n \in Nat : n \in G
<1> SUFFICES ASSUME Nat \ G # {} PROVE FALSE
  OBVIOUS
<1>1. PICK i \in Nat \ G : \A j \in Nat \ G : i <= j
  BY Least
<1>2. i - 1 \in Nat /\ i - 1 \in G
  BY <1>1
<1> QED BY <1>1, <1>2

\* F[k] makes what there is after k rounds of what there was before the last, from a on.
Rule(A, a, F) == a \in A /\ F \in [Nat -> [A -> A]]
Run(n, t, A, a, F) == t \in [0 .. n -> A] /\ t[0] = a /\ \A k \in 1 .. n : t[k] = F[k][t[k - 1]]

\* A rule can be followed for any number of rounds.
LEMMA Rounds ==
    ASSUME NEW A, NEW a, NEW F, NEW M \in Nat, Rule(A, a, F)
    PROVE  \E t : Run(M, t, A, a, F)
<1> DEFINE G == {n \in Nat : \E t : Run(n, t, A, a, F)}
<1>1. 0 \in G
  <2>1. Run(0, [k \in 0 .. 0 |-> a], A, a, F)
    BY DEF Run, Rule
  <2> QED BY <2>1
<1>2. ASSUME NEW n \in Nat, n \in G PROVE n + 1 \in G
  <2>1. PICK t : Run(n, t, A, a, F)
    BY <1>2
  <2>2. t[n] \in A /\ F[n + 1][t[n]] \in A
    BY <2>1 DEF Run, Rule
  <2> DEFINE s == [k \in 0 .. n + 1 |-> IF k = n + 1 THEN F[n + 1][t[n]] ELSE t[k]]
  <2>3. s \in [0 .. n + 1 -> A] /\ s[0] = a
    BY <2>1, <2>2 DEF Run
  <2>4. ASSUME NEW k \in 1 .. n + 1 PROVE s[k] = F[k][s[k - 1]]
    <3>1. CASE k = n + 1
      BY <3>1
    <3>2. CASE k \in 1 .. n
      BY <3>2, <2>1 DEF Run
    <3> QED BY <3>1, <3>2
  <2> HIDE DEF s
  <2>5. Run(n + 1, s, A, a, F)
    BY <2>3, <2>4 DEF Run
  <2> QED BY <2>5
<1> HIDE DEF G
<1>3. M \in G
  BY <1>1, <1>2, Induction
<1> QED BY <1>3 DEF G
-----------------------------------------------------------------------------
(* Lists *)

\* How Kept goes through a list.
KeptRun(k, s, S, A) ==
    /\ k \in [0 .. Len(s) -> Seq(A)] /\ k[0] = <<>>
    /\ \A i \in 1 .. Len(s) : k[i] = IF s[i] \in S THEN Append(k[i - 1], s[i]) ELSE k[i - 1]

\* It does.
LEMMA KeptRuns ==
    ASSUME NEW A, NEW s \in Seq(A), NEW S
    PROVE  \E k : KeptRun(k, s, S, A) /\ Kept(s, S) = k[Len(s)]
<1> DEFINE M == Len(s)
           F == [i \in Nat |-> [t \in Seq(A) |->
                   IF i \in 1 .. M /\ s[i] \in S THEN Append(t, s[i]) ELSE t]]
<1>1. M \in Nat /\ s \in [1 .. M -> A]
  BY LenProperties
<1>2. Rule(Seq(A), <<>>, F)
  <2>1. ASSUME NEW i \in Nat, NEW t \in Seq(A)
        PROVE  (IF i \in 1 .. M /\ s[i] \in S THEN Append(t, s[i]) ELSE t) \in Seq(A)
    <3>1. CASE i \in 1 .. M /\ s[i] \in S
      BY <3>1, <1>1, AppendProperties
    <3> QED BY <3>1
  <2> QED BY <2>1 DEF Rule
<1> HIDE DEF M
<1>3. PICK t : Run(M, t, Seq(A), <<>>, F)
  BY <1>1, <1>2, Rounds, Zenon
<1>4. t = [i \in 0 .. M |-> IF i = 0 THEN <<>>
             ELSE IF s[i] \in S THEN Append(t[i - 1], s[i]) ELSE t[i - 1]]
  <2>1. ASSUME NEW i \in 1 .. M
        PROVE  t[i] = IF s[i] \in S THEN Append(t[i - 1], s[i]) ELSE t[i - 1]
    <3>1. i \in Nat /\ i - 1 \in 0 .. M
      BY <1>1
    <3>2. t[i - 1] \in Seq(A) /\ t[i] = F[i][t[i - 1]]
      BY <3>1, <1>3 DEF Run
    <3> QED BY <3>1, <3>2
  <2> HIDE DEF F
  <2>2. t = [i \in 0 .. M |-> t[i]] /\ t[0] = <<>>
    BY <1>3 DEF Run
  <2>3. \A i \in 0 .. M : t[i] =
          IF i = 0 THEN <<>> ELSE IF s[i] \in S THEN Append(t[i - 1], s[i]) ELSE t[i - 1]
    <3>1. \A i \in 0 .. M : i = 0 \/ i \in 1 .. M
      BY <1>1
    <3>2. 0 \notin 1 .. M
      OBVIOUS
    <3> QED BY <2>1, <2>2, <3>1, <3>2, Zenon
  <2> QED BY <2>2, <2>3, Zenon
<1> DEFINE T == CHOOSE k : k = [i \in 0 .. M |-> IF i = 0 THEN <<>>
                  ELSE IF s[i] \in S THEN Append(k[i - 1], s[i]) ELSE k[i - 1]]
<1>5. T = [i \in 0 .. M |-> IF i = 0 THEN <<>>
             ELSE IF s[i] \in S THEN Append(T[i - 1], s[i]) ELSE T[i - 1]]
  BY <1>4, Zenon
<1>6. Kept(s, S) = T[M]
  BY DEF Kept, M
<1> HIDE DEF T
<1> DEFINE E == [i \in 0 .. M |-> IF i = 0 THEN <<>>
             ELSE IF s[i] \in S THEN Append(T[i - 1], s[i]) ELSE T[i - 1]]
<1>7. T = E
  BY <1>5, Zenon
<1>8. /\ T = [i \in 0 .. M |-> T[i]] /\ T[0] = <<>>
      /\ \A i \in 1 .. M : T[i] = IF s[i] \in S THEN Append(T[i - 1], s[i]) ELSE T[i - 1]
  <2>1. /\ E = [i \in 0 .. M |-> E[i]] /\ E[0] = <<>>
        /\ \A i \in 1 .. M : E[i] = IF s[i] \in S THEN Append(T[i - 1], s[i]) ELSE T[i - 1]
    BY <1>1
  <2> HIDE DEF E
  <2> QED BY <1>7, <2>1
<1> DEFINE G == {i \in Nat : i \in 0 .. M => T[i] \in Seq(A)}
<1>9. 0 \in G
  BY <1>8, EmptySeq
<1>10. ASSUME NEW i \in Nat, i \in G PROVE i + 1 \in G
  <2> SUFFICES ASSUME i + 1 \in 0 .. M PROVE T[i + 1] \in Seq(A)
    OBVIOUS
  <2>1. i \in 0 .. M /\ i + 1 \in 1 .. M /\ (i + 1) - 1 = i
    BY <1>1
  <2>2. T[i] \in Seq(A) /\ s[i + 1] \in A
    BY <1>1, <1>10, <2>1
  <2>3. Append(T[i], s[i + 1]) \in Seq(A)
    BY <2>2, AppendProperties
  <2> QED BY <1>8, <2>1, <2>2, <2>3
<1>11. \A i \in Nat : i \in G
  <2> HIDE DEF G
  <2> QED BY <1>9, <1>10, Induction
<1>12. T \in [0 .. M -> Seq(A)]
  <2>1. \A i \in 0 .. M : T[i] \in Seq(A)
    BY <1>11, <1>1
  <2>2. [i \in 0 .. M |-> T[i]] \in [0 .. M -> Seq(A)]
    BY <2>1, Zenon
  <2> QED BY <1>8, <2>2, Zenon
<1> QED BY <1>6, <1>8, <1>12 DEF KeptRun, M

\* How AppendUnique goes through its second list.
UniqueRun(k, s, t, A) ==
    /\ k \in [0 .. Len(t) -> Seq(A)] /\ k[0] = s
    /\ \A i \in 1 .. Len(t) :
          k[i] = IF t[i] \in ToSet(k[i - 1]) THEN k[i - 1] ELSE Append(k[i - 1], t[i])

\* It does.
LEMMA UniqueRuns ==
    ASSUME NEW A, NEW s \in Seq(A), NEW t \in Seq(A)
    PROVE  \E k : UniqueRun(k, s, t, A) /\ AppendUnique(s, t) = k[Len(t)]
<1> DEFINE M == Len(t)
           F == [i \in Nat |-> [l \in Seq(A) |->
                   IF i \in 1 .. M /\ t[i] \notin ToSet(l) THEN Append(l, t[i]) ELSE l]]
<1>1. M \in Nat /\ t \in [1 .. M -> A]
  BY LenProperties
<1>2. Rule(Seq(A), s, F)
  <2>1. ASSUME NEW i \in Nat, NEW l \in Seq(A)
        PROVE  (IF i \in 1 .. M /\ t[i] \notin ToSet(l) THEN Append(l, t[i]) ELSE l) \in Seq(A)
    <3>1. CASE i \in 1 .. M /\ t[i] \notin ToSet(l)
      BY <3>1, <1>1, AppendProperties
    <3> QED BY <3>1
  <2> QED BY <2>1 DEF Rule
<1> HIDE DEF M
<1>3. PICK r : Run(M, r, Seq(A), s, F)
  BY <1>1, <1>2, Rounds, Zenon
<1>4. r = [i \in 0 .. M |-> IF i = 0 THEN s
             ELSE IF t[i] \in ToSet(r[i - 1]) THEN r[i - 1] ELSE Append(r[i - 1], t[i])]
  <2>1. ASSUME NEW i \in 1 .. M
        PROVE  r[i] = IF t[i] \in ToSet(r[i - 1]) THEN r[i - 1] ELSE Append(r[i - 1], t[i])
    <3>1. i \in Nat /\ i - 1 \in 0 .. M
      BY <1>1
    <3>2. r[i - 1] \in Seq(A) /\ r[i] = F[i][r[i - 1]]
      BY <3>1, <1>3 DEF Run
    <3> QED BY <3>1, <3>2
  <2> HIDE DEF F
  <2>2. r = [i \in 0 .. M |-> r[i]] /\ r[0] = s
    BY <1>3 DEF Run
  <2>3. \A i \in 0 .. M : r[i] =
          IF i = 0 THEN s
          ELSE IF t[i] \in ToSet(r[i - 1]) THEN r[i - 1] ELSE Append(r[i - 1], t[i])
    <3>1. \A i \in 0 .. M : i = 0 \/ i \in 1 .. M
      BY <1>1
    <3>2. 0 \notin 1 .. M
      OBVIOUS
    <3> QED BY <2>1, <2>2, <3>1, <3>2, Zenon
  <2> QED BY <2>2, <2>3, Zenon
<1> DEFINE T == CHOOSE k : k = [i \in 0 .. M |-> IF i = 0 THEN s
                  ELSE IF t[i] \in ToSet(k[i - 1]) THEN k[i - 1] ELSE Append(k[i - 1], t[i])]
<1>5. T = [i \in 0 .. M |-> IF i = 0 THEN s
             ELSE IF t[i] \in ToSet(T[i - 1]) THEN T[i - 1] ELSE Append(T[i - 1], t[i])]
  BY <1>4, Zenon
<1>6. AppendUnique(s, t) = T[M]
  BY DEF AppendUnique, M
<1> HIDE DEF T
<1> DEFINE E == [i \in 0 .. M |-> IF i = 0 THEN s
             ELSE IF t[i] \in ToSet(T[i - 1]) THEN T[i - 1] ELSE Append(T[i - 1], t[i])]
<1>7. T = E
  BY <1>5, Zenon
<1>8. /\ T = [i \in 0 .. M |-> T[i]] /\ T[0] = s
      /\ \A i \in 1 .. M :
            T[i] = IF t[i] \in ToSet(T[i - 1]) THEN T[i - 1] ELSE Append(T[i - 1], t[i])
  <2>1. /\ E = [i \in 0 .. M |-> E[i]] /\ E[0] = s
        /\ \A i \in 1 .. M :
              E[i] = IF t[i] \in ToSet(T[i - 1]) THEN T[i - 1] ELSE Append(T[i - 1], t[i])
    BY <1>1
  <2> HIDE DEF E
  <2> QED BY <1>7, <2>1
<1> DEFINE G == {i \in Nat : i \in 0 .. M => T[i] \in Seq(A)}
<1>9. 0 \in G
  BY <1>8
<1>10. ASSUME NEW i \in Nat, i \in G PROVE i + 1 \in G
  <2> SUFFICES ASSUME i + 1 \in 0 .. M PROVE T[i + 1] \in Seq(A)
    OBVIOUS
  <2>1. i \in 0 .. M /\ i + 1 \in 1 .. M /\ (i + 1) - 1 = i
    BY <1>1
  <2>2. T[i] \in Seq(A) /\ t[i + 1] \in A
    BY <1>1, <1>10, <2>1
  <2>3. Append(T[i], t[i + 1]) \in Seq(A)
    BY <2>2, AppendProperties
  <2> QED BY <1>8, <2>1, <2>2, <2>3
<1>11. \A i \in Nat : i \in G
  <2> HIDE DEF G
  <2> QED BY <1>9, <1>10, Induction
<1>12. T \in [0 .. M -> Seq(A)]
  <2>1. \A i \in 0 .. M : T[i] \in Seq(A)
    BY <1>11, <1>1
  <2>2. [i \in 0 .. M |-> T[i]] \in [0 .. M -> Seq(A)]
    BY <2>1, Zenon
  <2> QED BY <1>8, <2>2, Zenon
<1> QED BY <1>6, <1>8, <1>12 DEF UniqueRun, M

\* What a list has with one more at its end.
LEMMA AppendSet ==
    ASSUME NEW A, NEW s \in Seq(A), NEW x \in A
    PROVE  /\ ToSet(Append(s, x)) = ToSet(s) \cup {x}
           /\ (IsInjective(s) /\ x \notin ToSet(s)) => IsInjective(Append(s, x))
<1> DEFINE n == Len(s)
           a == Append(s, x)
<1>1. n \in Nat /\ DOMAIN s = 1 .. n
  BY LenProperties
<1>2. /\ a \in Seq(A) /\ Len(a) = n + 1 /\ a[n + 1] = x
      /\ \A i \in 1 .. n : a[i] = s[i]
  BY AppendProperties
<1>3. DOMAIN a = 1 .. n + 1
  BY <1>2, LenProperties
<1> HIDE DEF n, a
<1>4. \A i \in 1 .. n + 1 : i \in 1 .. n \/ i = n + 1
  BY <1>1
<1>5. n + 1 \in 1 .. n + 1 /\ 1 .. n \subseteq 1 .. n + 1
  BY <1>1
<1>6. ToSet(a) = ToSet(s) \cup {x}
  BY <1>1, <1>2, <1>3, <1>4, <1>5 DEF ToSet
<1>7. (IsInjective(s) /\ x \notin ToSet(s)) => IsInjective(a)
  BY <1>1, <1>2, <1>3, <1>4 DEF ToSet, IsInjective
<1> QED BY <1>6, <1>7 DEF a

\* Kept keeps what is in the set, and no more often than it was there.
LEMMA KeptFacts ==
    ASSUME NEW A, NEW s \in Seq(A), NEW S
    PROVE  /\ Kept(s, S) \in Seq(A)
           /\ ToSet(Kept(s, S)) = ToSet(s) \cap S
           /\ IsInjective(s) => IsInjective(Kept(s, S))
<1> DEFINE n == Len(s)
<1>1. n \in Nat /\ DOMAIN s = 1 .. n /\ s \in [1 .. n -> A]
  BY LenProperties
<1>2. PICK k : KeptRun(k, s, S, A) /\ Kept(s, S) = k[n]
  BY KeptRuns
<1>3. /\ k \in [0 .. n -> Seq(A)] /\ k[0] = <<>>
      /\ \A i \in 1 .. n : k[i] = IF s[i] \in S THEN Append(k[i - 1], s[i]) ELSE k[i - 1]
  BY <1>2 DEF KeptRun
<1> HIDE DEF n
<1> DEFINE Here(i) == {s[j] : j \in 1 .. i} \cap S
           G == {i \in Nat : i \in 0 .. n =>
                   ToSet(k[i]) = Here(i) /\ (IsInjective(s) => IsInjective(k[i]))}
<1>4. 0 \in G
  <2>1. ToSet(<<>>) = {} /\ IsInjective(<<>>)
    BY DEF ToSet, IsInjective
  <2>2. Here(0) = {}
    OBVIOUS
  <2> QED BY <1>3, <2>1, <2>2
<1>5. ASSUME NEW i \in Nat, i \in G PROVE i + 1 \in G
  <2> SUFFICES ASSUME i + 1 \in 0 .. n
               PROVE  /\ ToSet(k[i + 1]) = Here(i + 1)
                      /\ IsInjective(s) => IsInjective(k[i + 1])
    OBVIOUS
  <2>1. i \in 0 .. n /\ i + 1 \in 1 .. n /\ (i + 1) - 1 = i
    BY <1>1
  <2>2. ToSet(k[i]) = Here(i) /\ (IsInjective(s) => IsInjective(k[i]))
    BY <1>5, <2>1
  <2>3. k[i] \in Seq(A) /\ s[i + 1] \in A
    BY <1>1, <1>3, <2>1
  <2>4. k[i + 1] = IF s[i + 1] \in S THEN Append(k[i], s[i + 1]) ELSE k[i]
    BY <1>3, <2>1
  <2>5. \A j : j \in 1 .. i + 1 <=> j \in 1 .. i \/ j = i + 1
    BY <2>1
  <2>6. Here(i + 1) = Here(i) \cup ({s[i + 1]} \cap S)
    BY <2>5
  <2>7. CASE s[i + 1] \in S
    <3>1. ToSet(k[i + 1]) = Here(i + 1)
      BY <2>2, <2>3, <2>4, <2>6, <2>7, AppendSet
    <3>2. ASSUME IsInjective(s) PROVE s[i + 1] \notin ToSet(k[i])
      <4>1. ASSUME NEW j \in 1 .. i PROVE s[j] # s[i + 1]
        <5>1. j \in 1 .. n /\ i + 1 \in 1 .. n /\ j # i + 1
          BY <2>1, <1>1
        <5> QED BY <3>2, <5>1, <1>1 DEF IsInjective
      <4> QED BY <4>1, <2>2
    <3>3. IsInjective(s) => IsInjective(Append(k[i], s[i + 1]))
      BY <3>2, <2>2, <2>3, AppendSet
    <3> QED BY <3>1, <3>3, <2>4, <2>7
  <2>8. CASE s[i + 1] \notin S
    BY <2>2, <2>4, <2>6, <2>8
  <2> QED BY <2>7, <2>8
<1>6. n \in G
  <2> HIDE DEF G
  <2> QED BY <1>1, <1>4, <1>5, Induction
<1>7. ToSet(s) = {s[j] : j \in 1 .. n}
  BY <1>1 DEF ToSet
<1>8. n \in 0 .. n
  BY <1>1
<1> QED BY <1>2, <1>3, <1>6, <1>7, <1>8

\* AppendUnique has what both lists have, and nothing twice.
LEMMA UniqueFacts ==
    ASSUME NEW A, NEW s \in Seq(A), NEW t \in Seq(A)
    PROVE  /\ AppendUnique(s, t) \in Seq(A)
           /\ ToSet(AppendUnique(s, t)) = ToSet(s) \cup ToSet(t)
           /\ IsInjective(s) => IsInjective(AppendUnique(s, t))
<1> DEFINE n == Len(t)
<1>1. n \in Nat /\ DOMAIN t = 1 .. n /\ t \in [1 .. n -> A]
  BY LenProperties
<1>2. PICK k : UniqueRun(k, s, t, A) /\ AppendUnique(s, t) = k[n]
  BY UniqueRuns
<1>3. /\ k \in [0 .. n -> Seq(A)] /\ k[0] = s
      /\ \A i \in 1 .. n :
            k[i] = IF t[i] \in ToSet(k[i - 1]) THEN k[i - 1] ELSE Append(k[i - 1], t[i])
  BY <1>2 DEF UniqueRun
<1> HIDE DEF n
<1> DEFINE Here(i) == ToSet(s) \cup {t[j] : j \in 1 .. i}
           G == {i \in Nat : i \in 0 .. n =>
                   ToSet(k[i]) = Here(i) /\ (IsInjective(s) => IsInjective(k[i]))}
<1>4. 0 \in G
  <2>1. Here(0) = ToSet(s)
    OBVIOUS
  <2> QED BY <1>3, <2>1
<1>5. ASSUME NEW i \in Nat, i \in G PROVE i + 1 \in G
  <2> SUFFICES ASSUME i + 1 \in 0 .. n
               PROVE  /\ ToSet(k[i + 1]) = Here(i + 1)
                      /\ IsInjective(s) => IsInjective(k[i + 1])
    OBVIOUS
  <2>1. i \in 0 .. n /\ i + 1 \in 1 .. n /\ (i + 1) - 1 = i
    BY <1>1
  <2>2. ToSet(k[i]) = Here(i) /\ (IsInjective(s) => IsInjective(k[i]))
    BY <1>5, <2>1
  <2>3. k[i] \in Seq(A) /\ t[i + 1] \in A
    BY <1>1, <1>3, <2>1
  <2>4. k[i + 1] = IF t[i + 1] \in ToSet(k[i]) THEN k[i] ELSE Append(k[i], t[i + 1])
    BY <1>3, <2>1
  <2>5. \A j : j \in 1 .. i + 1 <=> j \in 1 .. i \/ j = i + 1
    BY <2>1
  <2>6. Here(i + 1) = Here(i) \cup {t[i + 1]}
    BY <2>5
  <2>7. CASE t[i + 1] \in ToSet(k[i])
    BY <2>2, <2>4, <2>6, <2>7
  <2>8. CASE t[i + 1] \notin ToSet(k[i])
    BY <2>2, <2>3, <2>4, <2>6, <2>8, AppendSet
  <2> QED BY <2>7, <2>8
<1>6. n \in G
  <2> HIDE DEF G
  <2> QED BY <1>1, <1>4, <1>5, Induction
<1>7. ToSet(t) = {t[j] : j \in 1 .. n}
  BY <1>1 DEF ToSet
<1>8. n \in 0 .. n
  BY <1>1
<1> QED BY <1>2, <1>3, <1>6, <1>7, <1>8

\* What a list has is what its parts have.
LEMMA ConcatSet ==
    ASSUME NEW A, NEW s \in Seq(A), NEW t \in Seq(A)
    PROVE  s \o t \in Seq(A) /\ ToSet(s \o t) = ToSet(s) \cup ToSet(t)
<1> DEFINE m == Len(s)
           n == Len(t)
           c == s \o t
<1>1. m \in Nat /\ n \in Nat /\ DOMAIN s = 1 .. m /\ DOMAIN t = 1 .. n
  BY LenProperties
<1>2. /\ c \in Seq(A) /\ Len(c) = m + n
      /\ \A i \in 1 .. m + n : c[i] = IF i <= m THEN s[i] ELSE t[i - m]
  BY ConcatProperties
<1>3. DOMAIN c = 1 .. m + n
  BY <1>2, LenProperties
<1> HIDE DEF m, n, c
<1>4. ASSUME NEW x \in ToSet(c) PROVE x \in ToSet(s) \cup ToSet(t)
  <2>1. PICK i \in 1 .. m + n : x = c[i]
    BY <1>3, <1>4 DEF ToSet
  <2>2. CASE i <= m
    <3>1. i \in 1 .. m
      BY <1>1, <2>2
    <3> QED BY <3>1, <2>1, <2>2, <1>1, <1>2 DEF ToSet
  <2>3. CASE ~(i <= m)
    <3>1. i - m \in 1 .. n
      BY <1>1, <2>3
    <3> QED BY <3>1, <2>1, <2>3, <1>1, <1>2 DEF ToSet
  <2> QED BY <2>2, <2>3
<1>5. ASSUME NEW x \in ToSet(s) PROVE x \in ToSet(c)
  <2>1. PICK i \in 1 .. m : x = s[i]
    BY <1>1, <1>5 DEF ToSet
  <2>2. i \in 1 .. m + n /\ i <= m
    BY <1>1
  <2> QED BY <2>1, <2>2, <1>2, <1>3 DEF ToSet
<1>6. ASSUME NEW x \in ToSet(t) PROVE x \in ToSet(c)
  <2>1. PICK i \in 1 .. n : x = t[i]
    BY <1>1, <1>6 DEF ToSet
  <2>2. i + m \in 1 .. m + n /\ ~(i + m <= m) /\ (i + m) - m = i
    BY <1>1
  <2> QED BY <2>1, <2>2, <1>2, <1>3 DEF ToSet
<1> QED BY <1>2, <1>4, <1>5, <1>6 DEF c

\* Nothing is kept of a list that has nothing of the set.
LEMMA KeptNone ==
    ASSUME NEW A, NEW s \in Seq(A), NEW S, ToSet(s) \cap S = {}
    PROVE  Kept(s, S) = <<>>
<1> DEFINE k == Kept(s, S)
<1>1. k \in Seq(A) /\ ToSet(k) = {}
  BY KeptFacts
<1>2. Len(k) \in Nat /\ DOMAIN k = 1 .. Len(k)
  BY <1>1, LenProperties
<1> HIDE DEF k
<1>3. Len(k) = 0
  <2>1. ASSUME Len(k) # 0 PROVE FALSE
    <3>1. 1 \in 1 .. Len(k)
      BY <1>2, <2>1
    <3> QED BY <3>1, <1>1, <1>2 DEF ToSet
  <2> QED BY <2>1
<1> QED BY <1>1, <1>3, EmptySeq DEF k

\* All is kept of a list that is in the set.
LEMMA KeptAll ==
    ASSUME NEW A, NEW s \in Seq(A), NEW S, ToSet(s) \subseteq S
    PROVE  Kept(s, S) = s
<1> DEFINE n == Len(s)
<1>1. n \in Nat /\ DOMAIN s = 1 .. n /\ s \in [1 .. n -> A]
  BY LenProperties
<1>2. PICK k : KeptRun(k, s, S, A) /\ Kept(s, S) = k[n]
  BY KeptRuns
<1>3. /\ k \in [0 .. n -> Seq(A)] /\ k[0] = <<>>
      /\ \A i \in 1 .. n : k[i] = IF s[i] \in S THEN Append(k[i - 1], s[i]) ELSE k[i - 1]
  BY <1>2 DEF KeptRun
<1> DEFINE G == {i \in Nat : i \in 0 .. n =>
                   Len(k[i]) = i /\ \A j \in 1 .. i : k[i][j] = s[j]}
<1> HIDE DEF n
<1>4. 0 \in G
  <2>1. Len(<<>>) = 0
    BY EmptySeq
  <2> QED BY <1>3, <2>1
<1>5. ASSUME NEW i \in Nat, i \in G PROVE i + 1 \in G
  <2> SUFFICES ASSUME i + 1 \in 0 .. n
               PROVE  Len(k[i + 1]) = i + 1 /\ \A j \in 1 .. i + 1 : k[i + 1][j] = s[j]
    OBVIOUS
  <2>1. i \in 0 .. n /\ i + 1 \in 1 .. n /\ (i + 1) - 1 = i
    BY <1>1
  <2>2. Len(k[i]) = i /\ \A j \in 1 .. i : k[i][j] = s[j]
    BY <1>5, <2>1
  <2>3. k[i] \in Seq(A) /\ s[i + 1] \in A /\ s[i + 1] \in S
    BY <1>1, <1>3, <2>1 DEF ToSet
  <2>4. k[i + 1] = Append(k[i], s[i + 1])
    BY <1>3, <2>1, <2>3
  <2>5. /\ Len(Append(k[i], s[i + 1])) = i + 1
        /\ \A j \in 1 .. i : Append(k[i], s[i + 1])[j] = k[i][j]
        /\ Append(k[i], s[i + 1])[i + 1] = s[i + 1]
    BY <2>2, <2>3, AppendProperties
  <2>6. \A j \in 1 .. i + 1 : j \in 1 .. i \/ j = i + 1
    OBVIOUS
  <2> QED BY <2>2, <2>4, <2>5, <2>6
<1>6. n \in G
  <2> HIDE DEF G
  <2> QED BY <1>1, <1>4, <1>5, Induction
<1>7. n \in 0 .. n
  BY <1>1
<1>8. k[n] \in Seq(A) /\ Len(k[n]) = Len(s) /\ \A j \in 1 .. Len(k[n]) : k[n][j] = s[j]
  BY <1>3, <1>6, <1>7 DEF n
<1> QED BY <1>2, <1>8, SeqEqual

\* What is kept of a list is what is kept of its parts.
LEMMA KeptConcat ==
    ASSUME NEW A, NEW s \in Seq(A), NEW t \in Seq(A), NEW S
    PROVE  Kept(s \o t, S) = Kept(s, S) \o Kept(t, S)
<1> DEFINE m == Len(s)
           n == Len(t)
           c == s \o t
<1>1. m \in Nat /\ n \in Nat /\ s \in [1 .. m -> A] /\ t \in [1 .. n -> A]
  BY LenProperties
<1>2. /\ c \in Seq(A) /\ Len(c) = m + n
      /\ \A i \in 1 .. m + n : c[i] = IF i <= m THEN s[i] ELSE t[i - m]
  BY ConcatProperties
<1>3. PICK k : KeptRun(k, c, S, A) /\ Kept(c, S) = k[Len(c)]
  BY <1>2, KeptRuns
<1>4. PICK ks : KeptRun(ks, s, S, A) /\ Kept(s, S) = ks[m]
  BY KeptRuns
<1>5. PICK kt : KeptRun(kt, t, S, A) /\ Kept(t, S) = kt[n]
  BY KeptRuns
<1> DEFINE Gs == {i \in Nat : i \in 0 .. m => k[i] = ks[i]}
           Gt == {i \in Nat : i \in 0 .. n => k[m + i] = ks[m] \o kt[i]}
<1>6. /\ k \in [0 .. m + n -> Seq(A)] /\ k[0] = <<>>
      /\ \A i \in 1 .. m + n : k[i] = IF c[i] \in S THEN Append(k[i - 1], c[i]) ELSE k[i - 1]
  BY <1>2, <1>3 DEF KeptRun
<1>7. /\ ks \in [0 .. m -> Seq(A)] /\ ks[0] = <<>>
      /\ \A i \in 1 .. m : ks[i] = IF s[i] \in S THEN Append(ks[i - 1], s[i]) ELSE ks[i - 1]
  BY <1>4 DEF KeptRun
<1>8. /\ kt \in [0 .. n -> Seq(A)] /\ kt[0] = <<>>
      /\ \A i \in 1 .. n : kt[i] = IF t[i] \in S THEN Append(kt[i - 1], t[i]) ELSE kt[i - 1]
  BY <1>5 DEF KeptRun
<1> HIDE DEF m, n, c
<1>9. m \in Gs
  <2>1. 0 \in Gs
    BY <1>6, <1>7
  <2>2. ASSUME NEW i \in Nat, i \in Gs PROVE i + 1 \in Gs
    <3> SUFFICES ASSUME i + 1 \in 0 .. m PROVE k[i + 1] = ks[i + 1]
      OBVIOUS
    <3>1. /\ i \in 0 .. m /\ i + 1 \in 1 .. m /\ (i + 1) - 1 = i
          /\ i + 1 \in 1 .. m + n /\ i + 1 <= m
      BY <1>1
    <3>2. k[i] = ks[i] /\ c[i + 1] = s[i + 1]
      BY <1>2, <2>2, <3>1
    <3> QED BY <3>1, <3>2, <1>6, <1>7
  <2> HIDE DEF Gs
  <2> QED BY <1>1, <2>1, <2>2, Induction
<1>10. ks[m] \in Seq(A)
  BY <1>1, <1>7
<1>11. n \in Gt
  <2>1. 0 \in Gt
    <3>1. ks[m] \o <<>> = ks[m]
      BY <1>10, ConcatEmptySeq
    <3>2. m + 0 = m /\ m \in 0 .. m
      BY <1>1
    <3>3. k[m + 0] = ks[m]
      BY <1>9, <3>2
    <3> QED BY <3>1, <3>3, <1>8
  <2>2. ASSUME NEW i \in Nat, i \in Gt PROVE i + 1 \in Gt
    <3> SUFFICES ASSUME i + 1 \in 0 .. n PROVE k[m + (i + 1)] = ks[m] \o kt[i + 1]
      <4>1. i + 1 \in Nat
        OBVIOUS
      <4> QED BY <4>1, Zenon
    <3>1. /\ i \in 0 .. n /\ i + 1 \in 1 .. n /\ (i + 1) - 1 = i
          /\ m + (i + 1) \in 1 .. m + n /\ ~(m + (i + 1) <= m)
          /\ (m + (i + 1)) - m = i + 1 /\ (m + (i + 1)) - 1 = m + i
      BY <1>1
    <3>2. k[m + i] = ks[m] \o kt[i] /\ c[m + (i + 1)] = t[i + 1]
      BY <1>2, <2>2, <3>1
    <3>3. kt[i] \in Seq(A) /\ t[i + 1] \in A
      BY <1>1, <1>8, <3>1
    <3>4. Append(ks[m] \o kt[i], t[i + 1]) = ks[m] \o Append(kt[i], t[i + 1])
      <4> DEFINE a == ks[m]
                 b == kt[i]
                 d == <<t[i + 1]>>
      <4>1. a \in Seq(A) /\ b \in Seq(A) /\ d \in Seq(A)
        BY <1>10, <3>3
      <4>2. a \o b \in Seq(A)
        BY <4>1, ConcatProperties
      <4>3. /\ Append(a \o b, t[i + 1]) = (a \o b) \o d
            /\ Append(b, t[i + 1]) = b \o d
        BY <3>3, <4>1, <4>2, AppendIsConcat
      <4>4. (a \o b) \o d = a \o (b \o d)
        <5> HIDE DEF a, b, d
        <5> QED BY <4>1, ConcatAssociative, SMTT(30)
      <4> QED BY <4>3, <4>4
    <3> QED BY <3>1, <3>2, <3>4, <1>6, <1>8
  <2> HIDE DEF Gt
  <2> QED BY <1>1, <2>1, <2>2, Induction
<1>12. n \in 0 .. n
  BY <1>1
<1> QED BY <1>2, <1>3, <1>4, <1>5, <1>11, <1>12 DEF c

\* A list without repetitions is appended but for what is there already.
LEMMA UniqueIsKept ==
    ASSUME NEW A, NEW s \in Seq(A), NEW t \in Seq(A), IsInjective(t)
    PROVE  AppendUnique(s, t) = s \o Kept(t, ToSet(t) \ ToSet(s))
<1> DEFINE n == Len(t)
           S == ToSet(t) \ ToSet(s)
<1>1. n \in Nat /\ DOMAIN t = 1 .. n /\ t \in [1 .. n -> A]
  BY LenProperties
<1>2. PICK u : UniqueRun(u, s, t, A) /\ AppendUnique(s, t) = u[n]
  BY UniqueRuns
<1>3. PICK k : KeptRun(k, t, S, A) /\ Kept(t, S) = k[n]
  BY KeptRuns
<1>4. \A i \in 1 .. n : t[i] \in S <=> t[i] \notin ToSet(s)
  BY <1>1 DEF ToSet
<1> HIDE DEF S, n
<1>5. /\ u \in [0 .. n -> Seq(A)] /\ u[0] = s
      /\ \A i \in 1 .. n :
            u[i] = IF t[i] \in ToSet(u[i - 1]) THEN u[i - 1] ELSE Append(u[i - 1], t[i])
  BY <1>2 DEF UniqueRun, n
<1>6. /\ k \in [0 .. n -> Seq(A)] /\ k[0] = <<>>
      /\ \A i \in 1 .. n : k[i] = IF t[i] \in S THEN Append(k[i - 1], t[i]) ELSE k[i - 1]
  BY <1>3 DEF KeptRun, n
<1> DEFINE Here(i) == {t[j] : j \in 1 .. i}
           G == {i \in Nat : i \in 0 .. n => u[i] = s \o k[i] /\ ToSet(k[i]) \subseteq Here(i)}
<1>7. 0 \in G
  <2>1. ToSet(<<>>) = {}
    BY DEF ToSet
  <2>2. s \o <<>> = s
    BY ConcatEmptySeq
  <2> QED BY <1>5, <1>6, <2>1, <2>2
<1>8. ASSUME NEW i \in Nat, i \in G PROVE i + 1 \in G
  <2> SUFFICES ASSUME i + 1 \in 0 .. n
               PROVE  u[i + 1] = s \o k[i + 1] /\ ToSet(k[i + 1]) \subseteq Here(i + 1)
    OBVIOUS
  <2>1. i \in 0 .. n /\ i + 1 \in 1 .. n /\ (i + 1) - 1 = i
    BY <1>1
  <2>2. u[i] = s \o k[i] /\ ToSet(k[i]) \subseteq Here(i)
    BY <1>8, <2>1
  <2>3. k[i] \in Seq(A) /\ t[i + 1] \in A
    BY <1>1, <1>6, <2>1
  <2>4. ToSet(u[i]) = ToSet(s) \cup ToSet(k[i])
    BY <2>2, <2>3, ConcatSet
  <2>5. t[i + 1] \notin Here(i)
    <3>1. ASSUME NEW j \in 1 .. i PROVE t[j] # t[i + 1]
      <4>1. j \in 1 .. n /\ i + 1 \in 1 .. n /\ j # i + 1
        BY <2>1, <1>1
      <4> QED BY <4>1, <1>1 DEF IsInjective
    <3> QED BY <3>1
  <2>6. Here(i) \subseteq Here(i + 1) /\ t[i + 1] \in Here(i + 1)
    <3>1. 1 .. i \subseteq 1 .. i + 1 /\ i + 1 \in 1 .. i + 1
      OBVIOUS
    <3> QED BY <3>1
  <2>7. t[i + 1] \in ToSet(u[i]) <=> t[i + 1] \notin S
    BY <1>4, <2>1, <2>2, <2>4, <2>5
  <2>8. /\ u[i + 1] = IF t[i + 1] \in ToSet(u[i]) THEN u[i] ELSE Append(u[i], t[i + 1])
        /\ k[i + 1] = IF t[i + 1] \in S THEN Append(k[i], t[i + 1]) ELSE k[i]
    BY <1>5, <1>6, <2>1
  <2>9. CASE t[i + 1] \in S
    <3>1. Append(s \o k[i], t[i + 1]) = s \o Append(k[i], t[i + 1])
      <4> DEFINE b == k[i]
                 d == <<t[i + 1]>>
      <4>1. b \in Seq(A) /\ d \in Seq(A)
        BY <2>3
      <4>2. s \o b \in Seq(A)
        BY <4>1, ConcatProperties
      <4>3. /\ Append(s \o b, t[i + 1]) = (s \o b) \o d
            /\ Append(b, t[i + 1]) = b \o d
        BY <2>3, <4>1, <4>2, AppendIsConcat
      <4>4. (s \o b) \o d = s \o (b \o d)
        <5> HIDE DEF b, d
        <5> QED BY <4>1, ConcatAssociative, SMTT(30)
      <4> QED BY <4>3, <4>4
    <3>2. ToSet(Append(k[i], t[i + 1])) = ToSet(k[i]) \cup {t[i + 1]}
      BY <2>3, AppendSet
    <3>3. k[i + 1] = Append(k[i], t[i + 1]) /\ u[i + 1] = Append(u[i], t[i + 1])
      BY <2>7, <2>8, <2>9
    <3> HIDE DEF Here
    <3> QED BY <2>2, <2>6, <3>1, <3>2, <3>3
  <2>10. CASE t[i + 1] \notin S
    <3> HIDE DEF Here
    <3> QED BY <2>2, <2>6, <2>7, <2>8, <2>10
  <2> QED BY <2>9, <2>10
<1>9. n \in G
  <2> HIDE DEF G
  <2> QED BY <1>1, <1>7, <1>8, Induction
<1>10. n \in 0 .. n
  BY <1>1
<1> QED BY <1>2, <1>3, <1>9, <1>10 DEF n, S

\* What was appended, kept for being appended and appended again, makes the same list.
LEMMA Reappended ==
    ASSUME NEW A, NEW s \in Seq(A), NEW t \in Seq(A), IsInjective(t), NEW S,
           ToSet(s) \cap S = {}, ToSet(t) \ ToSet(s) \subseteq S
    PROVE  AppendUnique(s, Kept(AppendUnique(s, t), S)) = AppendUnique(s, t)
<1> DEFINE new == Kept(t, ToSet(t) \ ToSet(s))
<1>1. new \in Seq(A) /\ ToSet(new) = ToSet(t) \ ToSet(s) /\ IsInjective(new)
  <2> DEFINE T == ToSet(t) \ ToSet(s)
  <2> HIDE DEF T
  <2>1. /\ Kept(t, T) \in Seq(A) /\ ToSet(Kept(t, T)) = ToSet(t) \cap T
        /\ IsInjective(t) => IsInjective(Kept(t, T))
    BY KeptFacts
  <2>2. new = Kept(t, T) /\ ToSet(t) \cap T = T
    BY DEF T
  <2> HIDE DEF new
  <2> QED BY <2>1, <2>2 DEF T
<1>2. AppendUnique(s, t) = s \o new
  BY UniqueIsKept
<1> HIDE DEF new
<1>3. Kept(s \o new, S) = Kept(s, S) \o Kept(new, S)
  BY <1>1, KeptConcat
<1>4. Kept(s, S) = <<>> /\ Kept(new, S) = new
  BY <1>1, KeptNone, KeptAll
<1>5. Kept(s \o new, S) = new
  BY <1>1, <1>3, <1>4, ConcatEmptySeq
<1>6. AppendUnique(s, new) = s \o Kept(new, ToSet(new) \ ToSet(s))
  BY <1>1, UniqueIsKept
<1>7. Kept(new, ToSet(new) \ ToSet(s)) = new
  BY <1>1, KeptAll
<1> QED BY <1>2, <1>5, <1>6, <1>7
-----------------------------------------------------------------------------
(* The search: what is found where, in terms of what is at the paths *)

LibPaths == Dirs \X LibNames
Files == Paths \cup {Tool}
FoundIn(pl, n) == \E d \in Dirs : pl[<<d, n>>] # 0
Nearest(pl, dirs, n) == <<Min({d \in dirs : pl[<<d, n>>] # 0}), n>>
FindIn(pl, n) == Nearest(pl, Dirs, n)
RouteIn(pl, names) ==
    LET found == Kept(LibOrder, {n \in names : FoundIn(pl, n)})
    IN  [i \in DOMAIN found |-> FindIn(pl, found[i])]

\* Names that options o bring for an object of revision r: certainly, and if found.
Open(o) == OpenMpCandidates(o.cl, o.args)
ByNames(o, r) ==
    WholeArchives(o.args) \cup Sanitized(o) \cup DefaultLibraries(o.args)
        \cup {n \in Directives(r) : AllowsImplicit(o.args, n)}
NamesIn(pl, o, r) == ByNames(o, r) \cup {n \in Open(o) : FoundIn(pl, n)}
NeededBy(o) == o.requested \cup WholeArchives(o.args) \cup Sanitized(o)

\* Files that options o name: by a path, and by a name along LIB.
BaseIn(pl, f) == IF f[1] = 0 THEN f ELSE Nearest(pl, EnvDirs, f[2])
BasesIn(pl, o) == {BaseIn(pl, f) : f \in BaseFiles(o.args)}
BaseFoundIn(pl, f) ==
    IF f[1] = 0 THEN pl[f] # 0 ELSE \E d \in EnvDirs : pl[<<d, f[2]>>] # 0
Given(o) == ToSet(FileInputPaths(o.args)) \cup {f \in BaseFiles(o.args) : f[1] = 0}
BaseNames(o) == {f[2] : f \in {g \in BaseFiles(o.args) : g[1] # 0}}
NamedIn(pl, o) == ToSet(FileInputPaths(o.args)) \cup BasesIn(pl, o)
DeclaredIn(pl, o) ==
    AppendUnique(<<>>,
        FileInputPaths(o.args) \o <<Tool>> \o SetToSeq(BasesIn(pl, o))
            \o RouteIn(pl, DefaultLibraries(o.args)) \o RouteIn(pl, WholeArchives(o.args))
            \o RouteIn(pl, Sanitized(o)) \o RouteIn(pl, Open(o)))

\* What LINK reads and finds by itself, given libraries libs, and what it needs.
SourcesIn(pl, o, r, libs) ==
    ToSet(libs) \cup {FindIn(pl, n) : n \in NamesIn(pl, o, r)} \cup NamedIn(pl, o)
SelfNames(pl, o, r, libs) == {n \in NamesIn(pl, o, r) : FindIn(pl, n) \notin ToSet(libs)}
SelfIn(pl, o, r, libs) == RouteIn(pl, SelfNames(pl, o, r, libs))
SeenIn(pl, o, r, libs) == [files |-> [p \in SourcesIn(pl, o, r, libs) |-> pl[p]],
                           named |-> SelfIn(pl, o, r, libs)]
LinkableIn(pl, o, r, libs) ==
    /\ \A n \in NamesIn(pl, o, r) : FoundIn(pl, n)
    /\ \A f \in BaseFiles(o.args) : BaseFoundIn(pl, f)
    /\ \A p \in ToSet(libs) \cup NamedIn(pl, o) : pl[p] # 0

\* The model's operators are these of what is at the paths now.
LEMMA Views ==
    /\ \A n : Found(n) = FoundIn(place, n) /\ Find(n) = FindIn(place, n)
    /\ \A S : Route(S) = RouteIn(place, S)
    /\ Libraries = RouteIn(place, options.requested)
    /\ Needed = NeededBy(options)
    /\ ByName = NamesIn(place, options, object)
    /\ BaseInputs = BasesIn(place, options) /\ Named = NamedIn(place, options)
    /\ \A f : BaseFound(f) = BaseFoundIn(place, f)
    /\ Declared = DeclaredIn(place, options)
BY DEF Found, FoundIn, Find, FindIn, FirstIn, Nearest, Route, RouteIn, Libraries, Needed,
       NeededBy, Sanitizers, ByName, NamesIn, ByNames, Open, Directed, BaseInputs, BasesIn,
       BaseIn, Named, NamedIn, BaseFound, BaseFoundIn, Declared, DeclaredIn

\* The same of the next state.
LEMMA NextViews ==
    /\ \A n : Found(n)' = FoundIn(place', n) /\ Find(n)' = FindIn(place', n)
    /\ \A S : Route(S)' = RouteIn(place', S)
    /\ Libraries' = RouteIn(place', options'.requested)
    /\ Needed' = NeededBy(options')
    /\ ByName' = NamesIn(place', options', object')
    /\ BaseInputs' = BasesIn(place', options') /\ Named' = NamedIn(place', options')
    /\ \A f : BaseFound(f)' = BaseFoundIn(place', f)
    /\ Declared' = DeclaredIn(place', options')
BY DEF Found, FoundIn, Find, FindIn, FirstIn, Nearest, Route, RouteIn, Libraries, Needed,
       NeededBy, Sanitizers, ByName, NamesIn, ByNames, Open, Directed, BaseInputs, BasesIn,
       BaseIn, Named, NamedIn, BaseFound, BaseFoundIn, Declared, DeclaredIn

\* What LINK looks at, of what is at the paths now.
LEMMA SeenViews ==
    /\ Inputs = SourcesIn(place, options, object, plan.libraries)
    /\ Linkable <=> LinkableIn(place, options, object, plan.libraries)
    /\ Seen = SeenIn(place, options, object, plan.libraries)
<1>1. Inputs = SourcesIn(place, options, object, plan.libraries)
  BY Views DEF Inputs, SourcesIn
<1>2. Linkable <=> LinkableIn(place, options, object, plan.libraries)
  BY Views DEF Linkable, LinkableIn
<1>3. {n \in ByName : Find(n) \notin ToSet(plan.libraries)}
         = SelfNames(place, options, object, plan.libraries)
  BY Views DEF SelfNames
<1>4. Route({n \in ByName : Find(n) \notin ToSet(plan.libraries)})
         = SelfIn(place, options, object, plan.libraries)
  BY <1>3, Views DEF SelfIn
<1> QED BY <1>1, <1>2, <1>4 DEF Seen, SeenIn

\* A set of numbers has a least one.
LEMMA MinFacts ==
    ASSUME NEW S \in SUBSET Nat, S # {}
    PROVE  Min(S) \in S /\ \A i \in S : Min(S) <= i
BY Least DEF Min

\* The nearest directory that has the library is one that has it.
LEMMA NearestFacts ==
    ASSUME NEW pl, NEW dirs \in SUBSET Nat, NEW n, NEW d \in dirs, pl[<<d, n>>] # 0
    PROVE  /\ Nearest(pl, dirs, n) \in dirs \X {n}
           /\ Nearest(pl, dirs, n)[2] = n
           /\ pl[Nearest(pl, dirs, n)] # 0
<1> DEFINE S == {e \in dirs : pl[<<e, n>>] # 0}
<1>1. S \in SUBSET Nat /\ S # {}
  OBVIOUS
<1> HIDE DEF S
<1>2. Min(S) \in S
  BY <1>1, MinFacts
<1>3. Min(S) \in dirs /\ pl[<<Min(S), n>>] # 0
  BY <1>2 DEF S
<1>4. Nearest(pl, dirs, n) = <<Min(S), n>>
  BY DEF Nearest, S
<1> QED BY <1>3, <1>4

\* Paths of libraries are not paths that somebody names, nor LINK nor the object.
LEMMA PathFacts ==
    /\ Dirs \in SUBSET Nat /\ EnvDirs \subseteq Dirs
    /\ LibPaths \subseteq Paths /\ Explicit \subseteq Paths
    /\ \A p \in LibPaths : p[1] # 0 /\ p[1] \in Dirs /\ p[2] \in LibNames /\ p = <<p[1], p[2]>>
    /\ \A d \in Dirs, n \in LibNames : <<d, n>> \in LibPaths
    /\ \A p \in Explicit : p[1] = 0
    /\ Tool \notin Paths /\ Object \notin Paths /\ Tool # Object
    /\ \A p \in Paths : p[1] # 0 => p \in LibPaths
<1>1. /\ LastDir \in Nat /\ EnvDir \in Nat \ {0}
      /\ \A p \in Explicit : p[1] = 0 /\ p \notin {Tool, Object}
  BY LibrariesAssumption
<1>2. Dirs \in SUBSET Nat /\ EnvDirs \subseteq Dirs /\ 0 \notin Dirs
  BY <1>1 DEF Dirs, EnvDirs
<1>3. \A p \in LibPaths : p[1] # 0 /\ p[1] \in Dirs /\ p[2] \in LibNames /\ p = <<p[1], p[2]>>
  BY <1>2 DEF LibPaths
<1>4. Tool[1] = 0 /\ Object[1] = 0 /\ Tool # Object
  BY DEF Tool, Object
<1>5. Paths = LibPaths \cup Explicit
  BY DEF Paths, LibPaths
<1>6. \A d \in Dirs, n \in LibNames : <<d, n>> \in LibPaths
  BY DEF LibPaths
<1> QED BY <1>1, <1>2, <1>3, <1>4, <1>5, <1>6

\* A library that is found is found at a path of its name, where a file is.
LEMMA FindFacts ==
    ASSUME NEW pl, NEW n \in LibNames, FoundIn(pl, n)
    PROVE  FindIn(pl, n) \in LibPaths /\ FindIn(pl, n)[2] = n /\ pl[FindIn(pl, n)] # 0
<1>1. PICK d \in Dirs : pl[<<d, n>>] # 0
  BY DEF FoundIn
<1>2. Dirs \in SUBSET Nat
  BY PathFacts
<1>3. /\ Nearest(pl, Dirs, n) \in Dirs \X {n}
      /\ Nearest(pl, Dirs, n)[2] = n
      /\ pl[Nearest(pl, Dirs, n)] # 0
  BY <1>1, <1>2, NearestFacts
<1> QED BY <1>3 DEF FindIn, LibPaths

\* A library that is at a path is found.
LEMMA ThereFound ==
    ASSUME NEW pl, NEW p \in LibPaths, pl[p] # 0
    PROVE  FoundIn(pl, p[2])
<1>1. p[1] \in Dirs /\ p = <<p[1], p[2]>>
  BY PathFacts
<1> QED BY <1>1 DEF FoundIn

\* A route holds each found library once, where it is found.
LEMMA RouteFacts ==
    ASSUME NEW pl, NEW S
    PROVE  /\ RouteIn(pl, S) \in Seq(LibPaths)
           /\ ToSet(RouteIn(pl, S))
                = {FindIn(pl, n) : n \in {m \in S \cap LibNames : FoundIn(pl, m)}}
           /\ IsInjective(RouteIn(pl, S))
<1> DEFINE T == {n \in S : FoundIn(pl, n)}
           k == Kept(LibOrder, T)
           r == RouteIn(pl, S)
<1>1. LibOrder \in Seq(LibNames) /\ IsInjective(LibOrder)
  BY LibrariesAssumption
<1>2. k \in Seq(LibNames) /\ ToSet(k) = ToSet(LibOrder) \cap T /\ IsInjective(k)
  <2> HIDE DEF T
  <2>1. /\ Kept(LibOrder, T) \in Seq(LibNames)
        /\ ToSet(Kept(LibOrder, T)) = ToSet(LibOrder) \cap T
        /\ IsInjective(LibOrder) => IsInjective(Kept(LibOrder, T))
    BY <1>1, KeptFacts
  <2> QED BY <1>1, <2>1
<1>3. ToSet(k) = {m \in S \cap LibNames : FoundIn(pl, m)}
  BY <1>2 DEF LibNames
<1>4. r = [i \in DOMAIN k |-> FindIn(pl, k[i])]
  BY DEF RouteIn
<1> HIDE DEF T, k, r
<1>5. ASSUME NEW i \in DOMAIN k
      PROVE  k[i] \in LibNames /\ FoundIn(pl, k[i])
  BY <1>3 DEF ToSet
<1>6. ASSUME NEW i \in DOMAIN k PROVE r[i] \in LibPaths /\ r[i][2] = k[i]
  BY <1>4, <1>5, FindFacts
<1>7. Len(k) \in Nat /\ DOMAIN k = 1 .. Len(k)
  BY <1>2, LenProperties
<1>8. r \in Seq(LibPaths)
  <2>1. r \in [1 .. Len(k) -> LibPaths]
    BY <1>4, <1>6, <1>7
  <2> QED BY <2>1, <1>7
<1>9. DOMAIN r = DOMAIN k
  BY <1>4
<1>10. IsInjective(r)
  <2>1. ASSUME NEW i \in DOMAIN k, NEW j \in DOMAIN k, r[i] = r[j] PROVE i = j
    BY <2>1, <1>2, <1>6 DEF IsInjective
  <2> QED BY <2>1, <1>9 DEF IsInjective
<1>11. ToSet(r) = {FindIn(pl, k[i]) : i \in DOMAIN k}
  BY <1>4 DEF ToSet
<1>12. {FindIn(pl, k[i]) : i \in DOMAIN k} = {FindIn(pl, n) : n \in ToSet(k)}
  BY DEF ToSet
<1> QED BY <1>3, <1>8, <1>10, <1>11, <1>12 DEF r

\* What is found depends on which libraries there are.
Same(pl, ql) == \A p \in LibPaths : pl[p] # 0 <=> ql[p] # 0

\* Where the same libraries exist, every search has the same result.
LEMMA SameSearch ==
    ASSUME NEW pl, NEW ql, Same(pl, ql)
    PROVE  /\ \A n \in LibNames : /\ FoundIn(pl, n) = FoundIn(ql, n)
                                  /\ FindIn(pl, n) = FindIn(ql, n)
           /\ \A S \in SUBSET LibNames : RouteIn(pl, S) = RouteIn(ql, S)
           /\ \A n \in LibNames : Nearest(pl, EnvDirs, n) = Nearest(ql, EnvDirs, n)
<1>1. ASSUME NEW n \in LibNames PROVE \A d \in Dirs : pl[<<d, n>>] # 0 <=> ql[<<d, n>>] # 0
  BY PathFacts DEF Same
<1>2. ASSUME NEW n \in LibNames, NEW dirs \in SUBSET Dirs
      PROVE  Nearest(pl, dirs, n) = Nearest(ql, dirs, n)
  <2>1. {d \in dirs : pl[<<d, n>>] # 0} = {d \in dirs : ql[<<d, n>>] # 0}
    BY <1>1
  <2> QED BY <2>1 DEF Nearest
<1>3. \A n \in LibNames : FoundIn(pl, n) = FoundIn(ql, n)
  BY <1>1 DEF FoundIn
<1>4. \A n \in LibNames : FindIn(pl, n) = FindIn(ql, n)
  BY <1>2 DEF FindIn
<1>5. \A n \in LibNames : Nearest(pl, EnvDirs, n) = Nearest(ql, EnvDirs, n)
  BY <1>2, PathFacts
<1>6. ASSUME NEW S \in SUBSET LibNames PROVE RouteIn(pl, S) = RouteIn(ql, S)
  <2> DEFINE T == {n \in S : FoundIn(pl, n)}
             k == Kept(LibOrder, T)
  <2>1. T = {n \in S : FoundIn(ql, n)}
    BY <1>3
  <2>2. /\ RouteIn(pl, S) = [i \in DOMAIN k |-> FindIn(pl, k[i])]
        /\ RouteIn(ql, S) = [i \in DOMAIN k |-> FindIn(ql, k[i])]
    BY <2>1 DEF RouteIn
  <2>3. \A i \in DOMAIN k : k[i] \in LibNames
    <3> HIDE DEF T
    <3>1. LibOrder \in Seq(LibNames)
      BY LibrariesAssumption
    <3>2. Kept(LibOrder, T) \in Seq(LibNames)
      BY <3>1, KeptFacts
    <3> QED BY <3>2, LenProperties
  <2> HIDE DEF k
  <2> QED BY <2>2, <2>3, <1>4
<1> QED BY <1>3, <1>4, <1>5, <1>6

-----------------------------------------------------------------------------
(* The options: which files and which libraries they name *)

\* Options name libraries and files of the request, and one base-address file at most.
LEMMA OptionFacts ==
    ASSUME NEW o \in OptionSets
    PROVE  /\ FileInputPaths(o.args) \in Seq(Explicit)
           /\ ToSet(FileInputPaths(o.args)) \subseteq Explicit
           /\ o.requested \subseteq LibNames /\ WholeArchives(o.args) \subseteq LibNames
           /\ Sanitized(o) \subseteq LibNames /\ DefaultLibraries(o.args) \subseteq LibNames
           /\ Open(o) \subseteq LibNames /\ NeededBy(o) \subseteq LibNames
           /\ \A f, g \in BaseFiles(o.args) : f = g
           /\ \A f \in BaseFiles(o.args) :
                 \/ f[1] = 0 /\ f \in Explicit
                 \/ f[1] # 0 /\ f[2] \in LibNames
           /\ Given(o) \subseteq Explicit
           /\ BaseNames(o) \subseteq LibNames
           /\ BaseNames(o) \cap o.requested = {} /\ BaseNames(o) \cap Open(o) = {}
<1>1. /\ FileInputPaths(o.args) \in Seq(Explicit)
      /\ o.requested \cup WholeArchives(o.args) \cup Sanitized(o) \cup DefaultLibraries(o.args)
            \cup Open(o) \subseteq LibNames
      /\ \A f \in BaseFiles(o.args) :
            \/ f \in Explicit
            \/ /\ f[1] # 0 /\ f[2] \in LibNames
               /\ f[2] \notin o.requested \cup WholeArchives(o.args) \cup Sanitized(o)
                     \cup DefaultLibraries(o.args) \cup Open(o)
                     \cup UNION {Directives(r) : r \in 1 .. LinkEdits + 1}
  BY OptionsAssumption DEF Open
<1>2. ToSet(FileInputPaths(o.args)) \subseteq Explicit
  BY <1>1, LenProperties DEF ToSet
<1>3. \A f, g \in BaseFiles(o.args) : f = g
  BY DEF BaseFiles
<1>4. \A p \in Explicit : p[1] = 0
  BY PathFacts
<1>5. \A f \in BaseFiles(o.args) :
         \/ f[1] = 0 /\ f \in Explicit
         \/ /\ f[1] # 0 /\ f[2] \in LibNames
            /\ f[2] \notin o.requested /\ f[2] \notin Open(o)
  BY <1>1, <1>4
<1>6. Given(o) \subseteq Explicit
  BY <1>2, <1>5 DEF Given
<1>7. /\ BaseNames(o) \subseteq LibNames
      /\ BaseNames(o) \cap o.requested = {} /\ BaseNames(o) \cap Open(o) = {}
  BY <1>5 DEF BaseNames
<1>8. NeededBy(o) \subseteq LibNames
  BY <1>1 DEF NeededBy
<1> QED BY <1>1, <1>2, <1>3, <1>5, <1>6, <1>7, <1>8

\* What the object and the options bring by name are libraries, none of them the one that
\* names the base address.
LEMMA NameFacts ==
    ASSUME NEW o \in OptionSets, NEW r \in 1 .. LinkEdits + 1
    PROVE  /\ ByNames(o, r) \subseteq LibNames
           /\ BaseNames(o) \cap ByNames(o, r) = {}
<1>1. Directives(r) \subseteq LibNames
  BY LibrariesAssumption
<1>2. \A f \in BaseFiles(o.args) :
         \/ f \in Explicit
         \/ f[2] \notin WholeArchives(o.args) \cup Sanitized(o) \cup DefaultLibraries(o.args)
                  \cup Directives(r)
  BY OptionsAssumption
<1>3. \A f \in BaseFiles(o.args) : f[1] # 0 => f[2] \notin ByNames(o, r)
  BY <1>2, PathFacts DEF ByNames
<1>4. BaseNames(o) \cap ByNames(o, r) = {}
  BY <1>3 DEF BaseNames
<1> QED BY <1>1, <1>4, OptionFacts DEF ByNames

\* A set of at most one member, as a list.
LEMMA SetToSeqFacts ==
    ASSUME NEW A, NEW S \in SUBSET A, \A x, y \in S : x = y
    PROVE  SetToSeq(S) \in Seq(A) /\ ToSet(SetToSeq(S)) = S
<1> DEFINE c == Cardinality(S)
           s == SetToSeq(S)
<1>1. CASE S = {}
  <2>1. c = 0
    BY <1>1, FS_EmptySet
  <2>2. [i \in 1 .. 0 |-> i] \in [1 .. c -> S] /\ IsInjective([i \in 1 .. 0 |-> i])
    BY <2>1 DEF IsInjective
  <2>3. s \in [1 .. c -> S] /\ IsInjective(s)
    BY <2>2 DEF SetToSeq
  <2>4. s \in [1 .. 0 -> S]
    BY <2>1, <2>3
  <2> HIDE DEF s
  <2>5. s \in Seq(A) /\ DOMAIN s = {}
    BY <2>4
  <2>6. ToSet(s) = {}
    BY <2>5 DEF ToSet
  <2> QED BY <1>1, <2>5, <2>6 DEF s
<1>2. CASE S # {}
  <2>1. PICK x : S = {x}
    BY <1>2
  <2>2. c = 1
    BY <2>1, FS_Singleton
  <2>3. /\ [i \in 1 .. 1 |-> x] \in [1 .. c -> S]
        /\ IsInjective([i \in 1 .. 1 |-> x])
    BY <2>1, <2>2 DEF IsInjective
  <2>4. s \in [1 .. c -> S] /\ IsInjective(s)
    BY <2>3 DEF SetToSeq
  <2>5. s \in [1 .. 1 -> S]
    BY <2>2, <2>4
  <2> HIDE DEF s
  <2>6. s \in Seq(A) /\ DOMAIN s = {1} /\ s[1] = x
    <3>1. s \in [1 .. 1 -> A] /\ 1 .. 1 = {1} /\ 1 \in 1 .. 1
      BY <2>5
    <3>2. s \in Seq(A)
      <4>1. c \in Nat /\ s \in [1 .. c -> A]
        BY <2>2, <3>1
      <4> HIDE DEF c
      <4> QED BY <4>1
    <3> QED BY <2>1, <2>5, <3>1, <3>2
  <2>7. ToSet(s) = {x}
    BY <2>6 DEF ToSet
  <2> QED BY <2>1, <2>6, <2>7 DEF s
<1> QED BY <1>1, <1>2

\* The paths of the base-address files, and of the files that options name.
LEMMA BaseFacts ==
    ASSUME NEW o \in OptionSets, NEW pl,
           \A f \in BaseFiles(o.args) : f[1] # 0 => BaseFoundIn(pl, f)
    PROVE  /\ BasesIn(pl, o) \subseteq Paths
           /\ \A p, q \in BasesIn(pl, o) : p = q
           /\ \A p \in BasesIn(pl, o) : p[1] = 0 => p \in Given(o)
           /\ \A p \in BasesIn(pl, o) : p[1] # 0 => p \in LibPaths /\ p[2] \in BaseNames(o)
           /\ \A n \in BaseNames(o) : \E p \in BasesIn(pl, o) : p \in LibPaths /\ p[2] = n
           /\ Given(o) \subseteq NamedIn(pl, o) /\ NamedIn(pl, o) \subseteq Paths
<1>1. /\ \A f, g \in BaseFiles(o.args) : f = g
      /\ \A f \in BaseFiles(o.args) :
            (f[1] = 0 /\ f \in Explicit) \/ (f[1] # 0 /\ f[2] \in LibNames)
  BY OptionFacts
<1>2. ASSUME NEW f \in BaseFiles(o.args), f[1] # 0
      PROVE  /\ BaseIn(pl, f) \in LibPaths
             /\ BaseIn(pl, f)[2] = f[2] /\ f[2] \in BaseNames(o)
  <2>1. PICK d \in EnvDirs : pl[<<d, f[2]>>] # 0
    BY <1>2 DEF BaseFoundIn
  <2>2. EnvDirs \in SUBSET Nat /\ EnvDirs \subseteq Dirs /\ f[2] \in LibNames
    BY <1>1, <1>2, PathFacts
  <2>3. /\ Nearest(pl, EnvDirs, f[2]) \in EnvDirs \X {f[2]}
        /\ Nearest(pl, EnvDirs, f[2])[2] = f[2]
    BY <2>1, <2>2, NearestFacts
  <2>4. BaseIn(pl, f) = Nearest(pl, EnvDirs, f[2])
    BY <1>2 DEF BaseIn
  <2>5. f[2] \in BaseNames(o)
    BY <1>2 DEF BaseNames
  <2> QED BY <2>2, <2>3, <2>4, <2>5 DEF LibPaths
<1>3. \A f \in BaseFiles(o.args) :
         f[1] = 0 => BaseIn(pl, f) = f /\ f \in Given(o) /\ f \in Explicit
  BY <1>1 DEF BaseIn, Given
<1>4. \A p \in BasesIn(pl, o) : \E f \in BaseFiles(o.args) : p = BaseIn(pl, f)
  BY DEF BasesIn
<1>5. \A f \in BaseFiles(o.args) : BaseIn(pl, f) \in BasesIn(pl, o)
  BY DEF BasesIn
<1>6. /\ LibPaths \subseteq Paths /\ Explicit \subseteq Paths
      /\ \A p \in LibPaths : p[1] # 0
      /\ \A p \in Explicit : p[1] = 0
  BY PathFacts
<1>7. BasesIn(pl, o) \subseteq Paths
  BY <1>2, <1>3, <1>4, <1>6
<1>8. \A p, q \in BasesIn(pl, o) : p = q
  BY <1>1, <1>4
<1>9. \A p \in BasesIn(pl, o) : p[1] = 0 => p \in Given(o)
  BY <1>2, <1>3, <1>4, <1>6
<1>10. \A p \in BasesIn(pl, o) : p[1] # 0 => p \in LibPaths /\ p[2] \in BaseNames(o)
  BY <1>2, <1>3, <1>4, <1>6
<1>11. ASSUME NEW n \in BaseNames(o)
       PROVE  \E p \in BasesIn(pl, o) : p \in LibPaths /\ p[2] = n
  <2>1. PICK f \in BaseFiles(o.args) : f[1] # 0 /\ f[2] = n
    BY DEF BaseNames
  <2> QED BY <2>1, <1>2, <1>5
<1>12. ToSet(FileInputPaths(o.args)) \subseteq Explicit
  BY OptionFacts
<1>13. Given(o) \subseteq NamedIn(pl, o)
  BY <1>3, <1>5 DEF Given, NamedIn
<1> QED BY <1>6, <1>7, <1>8, <1>9, <1>10, <1>11, <1>12, <1>13 DEF NamedIn

\* What the declarations of a call are.
LEMMA DeclaredFacts ==
    ASSUME NEW o \in OptionSets, NEW pl,
           \A f \in BaseFiles(o.args) : f[1] # 0 => BaseFoundIn(pl, f)
    PROVE  /\ DeclaredIn(pl, o) \in Seq(Files) /\ IsInjective(DeclaredIn(pl, o))
           /\ ToSet(DeclaredIn(pl, o)) =
                NamedIn(pl, o) \cup {Tool}
                \cup {FindIn(pl, n) : n \in {m \in DefaultLibraries(o.args) \cup WholeArchives(o.args)
                                                   \cup Sanitized(o) \cup Open(o) : FoundIn(pl, m)}}
<1> DEFINE fs == FileInputPaths(o.args)
           bs == SetToSeq(BasesIn(pl, o))
           r1 == RouteIn(pl, DefaultLibraries(o.args))
           r2 == RouteIn(pl, WholeArchives(o.args))
           r3 == RouteIn(pl, Sanitized(o))
           r4 == RouteIn(pl, Open(o))
           R(S) == {FindIn(pl, n) : n \in {m \in S \cap LibNames : FoundIn(pl, m)}}
<1>1. /\ LibPaths \subseteq Files /\ Explicit \subseteq Files /\ Paths \subseteq Files
      /\ Tool \in Files
  BY PathFacts DEF Files
<1>2. fs \in Seq(Files) /\ <<Tool>> \in Seq(Files) /\ ToSet(<<Tool>>) = {Tool}
  BY <1>1, OptionFacts DEF ToSet
<1>3. bs \in Seq(Files) /\ ToSet(bs) = BasesIn(pl, o)
  BY <1>1, BaseFacts, SetToSeqFacts
<1>4. /\ r1 \in Seq(LibPaths) /\ ToSet(r1) = R(DefaultLibraries(o.args))
      /\ r2 \in Seq(LibPaths) /\ ToSet(r2) = R(WholeArchives(o.args))
      /\ r3 \in Seq(LibPaths) /\ ToSet(r3) = R(Sanitized(o))
      /\ r4 \in Seq(LibPaths) /\ ToSet(r4) = R(Open(o))
  BY RouteFacts
<1>5. r1 \in Seq(Files) /\ r2 \in Seq(Files) /\ r3 \in Seq(Files) /\ r4 \in Seq(Files)
  BY <1>1, <1>4
<1> DEFINE l == fs \o <<Tool>> \o bs \o r1 \o r2 \o r3 \o r4
<1>6. /\ l \in Seq(Files)
      /\ ToSet(l) = ToSet(fs) \cup {Tool} \cup ToSet(bs) \cup ToSet(r1) \cup ToSet(r2)
                       \cup ToSet(r3) \cup ToSet(r4)
  <2> HIDE DEF fs, bs, r1, r2, r3, r4
  <2> DEFINE linker == <<Tool>>
  <2>1. /\ fs \o linker \in Seq(Files)
        /\ ToSet(fs \o linker) = ToSet(fs) \cup {Tool}
    <3>1. linker \in Seq(Files) /\ ToSet(linker) = {Tool}
      BY <1>2
    <3> HIDE DEF linker
    <3>2. /\ fs \o linker \in Seq(Files)
          /\ ToSet(fs \o linker) = ToSet(fs) \cup ToSet(linker)
      BY <1>2, <3>1, ConcatSet
    <3> QED BY <3>1, <3>2
  <2> DEFINE l1 == fs \o <<Tool>>
             l2 == l1 \o bs
             l3 == l2 \o r1
             l4 == l3 \o r2
             l5 == l4 \o r3
             l6 == l5 \o r4
  <2>2. l = l6
    OBVIOUS
  <2>3. l1 \in Seq(Files) /\ ToSet(l1) = ToSet(fs) \cup {Tool}
    BY <2>1
  <2> HIDE DEF l, l1
  <2>4. l2 \in Seq(Files) /\ ToSet(l2) = ToSet(l1) \cup ToSet(bs)
    BY <2>3, <1>3, ConcatSet
  <2> HIDE DEF l2
  <2>5. l3 \in Seq(Files) /\ ToSet(l3) = ToSet(l2) \cup ToSet(r1)
    BY <2>4, <1>5, ConcatSet
  <2> HIDE DEF l3
  <2>6. l4 \in Seq(Files) /\ ToSet(l4) = ToSet(l3) \cup ToSet(r2)
    BY <2>5, <1>5, ConcatSet
  <2> HIDE DEF l4
  <2>7. l5 \in Seq(Files) /\ ToSet(l5) = ToSet(l4) \cup ToSet(r3)
    BY <2>6, <1>5, ConcatSet
  <2> HIDE DEF l5
  <2>8. l6 \in Seq(Files) /\ ToSet(l6) = ToSet(l5) \cup ToSet(r4)
    BY <2>7, <1>5, ConcatSet
  <2> HIDE DEF l6
  <2> QED BY <2>2, <2>3, <2>4, <2>5, <2>6, <2>7, <2>8
<1>7. DeclaredIn(pl, o) = AppendUnique(<<>>, l)
  BY DEF DeclaredIn
<1>8. <<>> \in Seq(Files) /\ ToSet(<<>>) = {} /\ IsInjective(<<>>)
  BY DEF ToSet, IsInjective
<1>9. /\ DeclaredIn(pl, o) \in Seq(Files)
      /\ ToSet(DeclaredIn(pl, o)) = ToSet(l)
      /\ IsInjective(DeclaredIn(pl, o))
  <2> HIDE DEF l
  <2>1. /\ AppendUnique(<<>>, l) \in Seq(Files)
        /\ ToSet(AppendUnique(<<>>, l)) = ToSet(<<>>) \cup ToSet(l)
        /\ IsInjective(<<>>) => IsInjective(AppendUnique(<<>>, l))
    BY <1>6, <1>8, UniqueFacts
  <2> QED BY <1>7, <1>8, <2>1
<1> HIDE DEF l
<1>10. /\ DefaultLibraries(o.args) \subseteq LibNames /\ WholeArchives(o.args) \subseteq LibNames
       /\ Sanitized(o) \subseteq LibNames /\ Open(o) \subseteq LibNames
  BY OptionFacts
<1>11. ToSet(r1) \cup ToSet(r2) \cup ToSet(r3) \cup ToSet(r4)
         = {FindIn(pl, n) : n \in {m \in DefaultLibraries(o.args) \cup WholeArchives(o.args)
                                        \cup Sanitized(o) \cup Open(o) : FoundIn(pl, m)}}
  <2> HIDE DEF r1, r2, r3, r4
  <2> QED BY <1>4, <1>10
<1> QED BY <1>3, <1>6, <1>9, <1>11 DEF NamedIn

\* Where nothing appears or goes away, the same is found and declared.
LEMMA SameNames ==
    ASSUME NEW pl, NEW ql, Same(pl, ql), NEW o \in OptionSets, NEW r \in 1 .. LinkEdits + 1
    PROVE  /\ RouteIn(pl, o.requested) = RouteIn(ql, o.requested)
           /\ DeclaredIn(pl, o) = DeclaredIn(ql, o)
           /\ NamesIn(pl, o, r) = NamesIn(ql, o, r)
           /\ BasesIn(pl, o) = BasesIn(ql, o) /\ NamedIn(pl, o) = NamedIn(ql, o)
           /\ NamesIn(pl, o, r) \subseteq LibNames
<1>1. /\ \A n \in LibNames : FoundIn(pl, n) = FoundIn(ql, n)
      /\ \A S \in SUBSET LibNames : RouteIn(pl, S) = RouteIn(ql, S)
      /\ \A n \in LibNames : Nearest(pl, EnvDirs, n) = Nearest(ql, EnvDirs, n)
  BY SameSearch
<1>2. \A f \in BaseFiles(o.args) : BaseIn(pl, f) = BaseIn(ql, f)
  BY <1>1, OptionFacts DEF BaseIn
<1>3. BasesIn(pl, o) = BasesIn(ql, o)
  BY <1>2 DEF BasesIn
<1>4. ByNames(o, r) \subseteq LibNames /\ Open(o) \subseteq LibNames
  BY NameFacts, OptionFacts
<1>5. NamesIn(pl, o, r) = NamesIn(ql, o, r) /\ NamesIn(pl, o, r) \subseteq LibNames
  BY <1>1, <1>4 DEF NamesIn
<1>6. /\ RouteIn(pl, o.requested) = RouteIn(ql, o.requested)
      /\ RouteIn(pl, DefaultLibraries(o.args)) = RouteIn(ql, DefaultLibraries(o.args))
      /\ RouteIn(pl, WholeArchives(o.args)) = RouteIn(ql, WholeArchives(o.args))
      /\ RouteIn(pl, Sanitized(o)) = RouteIn(ql, Sanitized(o))
      /\ RouteIn(pl, Open(o)) = RouteIn(ql, Open(o))
  BY <1>1, OptionFacts
<1>7. DeclaredIn(pl, o) = DeclaredIn(ql, o)
  BY <1>3, <1>6 DEF DeclaredIn
<1> QED BY <1>3, <1>5, <1>6, <1>7 DEF NamedIn

\* Where no file appears or goes away, LINK goes on finding the same.
LEMMA SameSeen ==
    ASSUME NEW pl, NEW ql, \A p \in Paths : pl[p] # 0 <=> ql[p] # 0,
           NEW o \in OptionSets, NEW r \in 1 .. LinkEdits + 1, NEW libs \in Seq(LibPaths),
           LinkableIn(pl, o, r, libs)
    PROVE  LinkableIn(ql, o, r, libs) /\ SelfIn(ql, o, r, libs) = SelfIn(pl, o, r, libs)
<1>1. Same(pl, ql)
  BY PathFacts DEF Same
<1>2. /\ NamesIn(pl, o, r) = NamesIn(ql, o, r) /\ NamesIn(pl, o, r) \subseteq LibNames
      /\ NamedIn(pl, o) = NamedIn(ql, o)
  BY <1>1, SameNames
<1>3. /\ \A n \in LibNames : /\ FoundIn(pl, n) = FoundIn(ql, n)
                              /\ FindIn(pl, n) = FindIn(ql, n)
      /\ \A S \in SUBSET LibNames : RouteIn(pl, S) = RouteIn(ql, S)
  BY <1>1, SameSearch
<1>4. /\ \A n \in NamesIn(pl, o, r) : FoundIn(pl, n)
      /\ \A f \in BaseFiles(o.args) : BaseFoundIn(pl, f)
      /\ \A p \in ToSet(libs) \cup NamedIn(pl, o) : pl[p] # 0
  BY DEF LinkableIn
<1>5. NamedIn(pl, o) \subseteq Paths
  BY <1>4, BaseFacts
<1>6. ToSet(libs) \subseteq Paths
  BY LenProperties, PathFacts DEF ToSet
<1>7. ASSUME NEW f \in BaseFiles(o.args) PROVE BaseFoundIn(ql, f)
  <2>1. BaseFoundIn(pl, f)
    BY <1>4
  <2>2. CASE f[1] = 0
    BY <2>1, <2>2, OptionFacts, PathFacts DEF BaseFoundIn
  <2>3. CASE f[1] # 0
    <3>1. f[2] \in LibNames /\ EnvDirs \subseteq Dirs
      BY <2>3, OptionFacts, PathFacts
    <3>2. \A d \in EnvDirs : <<d, f[2]>> \in Paths
      BY <3>1, PathFacts
    <3> QED BY <2>1, <2>3, <3>2 DEF BaseFoundIn
  <2> QED BY <2>2, <2>3
<1>8. SelfNames(pl, o, r, libs) = SelfNames(ql, o, r, libs)
  BY <1>2, <1>3 DEF SelfNames
<1>9. SelfNames(pl, o, r, libs) \subseteq LibNames
  BY <1>2 DEF SelfNames
<1>10. SelfIn(ql, o, r, libs) = SelfIn(pl, o, r, libs)
  BY <1>3, <1>8, <1>9 DEF SelfIn
<1>11. LinkableIn(ql, o, r, libs)
  BY <1>2, <1>3, <1>4, <1>5, <1>6, <1>7 DEF LinkableIn
<1> QED BY <1>10, <1>11

-----------------------------------------------------------------------------
(* The state: types, and what entry and image say of each other *)

Sides == {"map", "pdb", "manifest", "implib"}
Entries == [libraries : Seq(LibPaths), files : Seq(Files), options : OptionSets, tool : Nat,
            late : BOOLEAN, sides : SUBSET Sides]
EntryOK(e) == e \in Entries /\ IsInjective(e.files)
Sightings == {NotRead} \cup [files : UNION {[S -> Nat] : S \in SUBSET Paths},
                             named : Seq(LibPaths)]
Plans == [libraries : Seq(LibPaths), declared : Seq(Files), full : BOOLEAN, seen : Sightings,
          entry : Entries \cup {NoEntry}, raced : BOOLEAN, late : BOOLEAN]
PlanOK(p) == p \in Plans /\ IsInjective(p.declared)

TypeInv ==
    /\ regime \in LinkRegimes
    /\ edits \in 0 .. LinkEdits
    /\ place \in [Paths -> 0 .. LinkEdits + 1]
    /\ object \in 1 .. edits + 1 /\ tool \in 1 .. edits + 1
    /\ options \in OptionSets
    /\ newer \subseteq Paths \cup {Tool, Object} /\ moved \subseteq Dirs
    /\ sides \subseteq Sides
    /\ phase \in {"idle", "inspected", "linked"} /\ outcome \in {"none", "ok", "error"}
    /\ quiet \in BOOLEAN
    /\ (phase = "idle") = (plan = NoPlan)
    /\ phase # "idle" => PlanOK(plan)
    /\ phase = "linked" => EntryOK(plan.entry)
    /\ image # NoImage => /\ DOMAIN image.read \subseteq Paths
                          /\ image.options \in OptionSets
                          /\ image.object \in 1 .. LinkEdits + 1
    /\ entry # NoEntry => EntryOK(entry)

\* Object and linker are those of the image unless their times say otherwise.
AgeInv ==
    image # NoImage => /\ Object \notin newer => image.object = object
                       /\ Tool \notin newer => image.tool = tool

\* Entries of format 4: LINK itself is among their files.
Modern(e) == e # NoEntry /\ Tool \in ToSet(e.files)

Called(S, n) == {p \in S \cap LibPaths : p[2] = n}
ImageNames(img) == ByNames(img.options, img.object) \cup Open(img.options)

\* No library of this name that is older than the image can be found.
Hidden(pl, nw, n) == \A d \in Dirs : pl[<<d, n>>] = 0 \/ <<d, n>> \in nw

\* Entry e names what the image was made from: every file LINK read, for every name LINK
\* looked up a file that it read, and files that are as old as they look have not changed.
Describes(img, pl, nw, e) ==
    /\ e.options = img.options /\ e.tool = img.tool
    /\ DOMAIN img.read \subseteq ToSet(e.libraries) \cup ToSet(e.files)
    /\ ToSet(e.libraries) \cup Given(img.options) \subseteq DOMAIN img.read
    /\ \A n \in BaseNames(img.options) :
          /\ Called(DOMAIN img.read, n) = Called(ToSet(e.files), n)
          /\ \A p, q \in Called(ToSet(e.files), n) : p = q
    /\ \A n \in ByNames(img.options, img.object) : Called(DOMAIN img.read, n) # {}
    /\ \A n \in Open(img.options) : Called(DOMAIN img.read, n) # {} \/ Hidden(pl, nw, n)
    /\ \A p \in DOMAIN img.read :
          \/ p \in Given(img.options) \cup ToSet(e.libraries)
          \/ p \in LibPaths /\ p[2] \in ImageNames(img) \cup BaseNames(img.options)
    /\ \A p \in DOMAIN img.read : p \notin nw /\ pl[p] # 0 => img.read[p] = pl[p]

\* The search finds what LINK read.
Settled(img, pl, e) ==
    /\ \A n \in ImageNames(img) : FoundIn(pl, n) => FindIn(pl, n) \in DOMAIN img.read
    /\ \A p \in DOMAIN img.read :
          \/ p \in Given(img.options) \cup ToSet(e.libraries)
          \/ p[2] \in BaseNames(img.options)
          \/ FoundIn(pl, p[2]) /\ p = FindIn(pl, p[2])

\* The entry, or the one about to be saved, describes the image; and while no directory
\* has changed since it was sealed, the search has the same results.
PairInv ==
    (image # NoImage /\ ~image.raced) =>
        /\ phase = "linked" => /\ Describes(image, place, newer, plan.entry)
                               /\ ~plan.late => Settled(image, place, plan.entry)
        /\ (Modern(entry) /\ (phase # "linked" \/ regime = "faults")) =>
              /\ Describes(image, place, newer, entry)
              /\ (moved = {} /\ ~entry.late) => Settled(image, place, entry)

\* Entry e holds what LINK would read now.
Holds(pl, o, ob, e) ==
    /\ {FindIn(pl, n) : n \in NamesIn(pl, o, ob)} \cup NamedIn(pl, o)
          \subseteq ToSet(e.libraries) \cup ToSet(e.files)
    /\ \A n \in BaseNames(o) : Called(ToSet(e.files), n) \subseteq BasesIn(pl, o)
Fits(pl, o, ob, t, e) ==
    /\ e.options = o /\ e.tool = t /\ e.libraries = RouteIn(pl, o.requested)
    /\ Holds(pl, o, ob, e)

\* Where only contents change, every entry fits whatever image there is.
FaultInv ==
    regime = "faults" =>
        /\ moved = {}
        /\ image # NoImage =>
              image.options = options /\ image.object = object /\ image.tool = tool
        /\ Modern(entry) => Fits(place, options, object, tool, entry) /\ ~entry.late
        /\ phase = "linked" => Fits(place, options, object, tool, plan.entry) /\ ~plan.late

FreshIn(pl, nw, p) == p \notin nw /\ (p = Tool \/ pl[p] # 0)

\* The invocation is that of the files there are, unless they changed under it; LINK may
\* update an image only if all that its entry names is older than it; and what LINK has
\* read is what it would read, unless it changed since.
PlanInv ==
    phase = "inspected" =>
        /\ ~plan.late
        /\ quiet => ~plan.raced
        /\ (regime = "faults" \/ ~plan.raced) =>
              /\ plan.libraries = RouteIn(place, options.requested)
              /\ plan.declared = DeclaredIn(place, options)
              /\ \A n \in NeededBy(options) : FoundIn(place, n)
        /\ (~plan.raced /\ ~plan.full /\ image # NoImage) =>
              /\ Modern(entry)
              /\ \A p \in ToSet(entry.libraries) \cup ToSet(entry.files) : FreshIn(place, newer, p)
        /\ Given(options) \cup {Tool} \subseteq ToSet(plan.declared)
        /\ (plan.seen # NotRead /\ (quiet \/ regime = "faults")) =>
              /\ LinkableIn(place, options, object, plan.libraries)
              /\ plan.seen.named = SelfIn(place, options, object, plan.libraries)
        /\ (plan.seen # NotRead /\ quiet) =>
              plan.seen = SeenIn(place, options, object, plan.libraries)

\* The image is of what LINK would find now.
CurrentIn(img, pl, o, ob, t) ==
    /\ img # NoImage
    /\ img.object = ob /\ img.tool = t /\ img.options = o
    /\ \A n \in o.requested \cup NamesIn(pl, o, ob) : FoundIn(pl, n)
    /\ DOMAIN img.read
         = {FindIn(pl, n) : n \in o.requested \cup NamesIn(pl, o, ob)} \cup NamedIn(pl, o)
    /\ \A p \in DOMAIN img.read : img.read[p] = pl[p]

RequiredBy(o) == IF MapRequested(o.args) THEN {"map"} ELSE {}
OptionalBy(o) == (IF ProgramDatabase(o.debug, o.args) THEN {"pdb"} ELSE {})
                     \cup (IF ExternalManifest(o.args) THEN {"manifest"} ELSE {})

LinkedInv ==
    (phase = "linked" /\ quiet) =>
        /\ image # NoImage
        /\ image.raced \/ CurrentIn(image, place, options, object, tool)
        /\ RequiredBy(options) \subseteq sides

\* The entry about to be saved seals what an undisturbed LINK read.
WarmInv ==
    (phase = "linked" /\ quiet) =>
        /\ plan.entry.options = options /\ plan.entry.tool = tool
        /\ image # NoImage /\ newer = {} /\ plan.entry.libraries = RouteIn(place, options.requested)
        /\ \A p \in ToSet(plan.entry.libraries) \cup ToSet(plan.entry.files) :
              p = Tool \/ place[p] # 0
        /\ \A f \in BaseFiles(options.args) : BaseFoundIn(place, f)
        /\ \E S \in SUBSET LibNames :
              /\ plan.entry.files = AppendUnique(DeclaredIn(place, options), RouteIn(place, S))
              /\ ToSet(RouteIn(place, S)) \cap ToSet(plan.entry.libraries) = {}
        /\ plan.entry.sides \subseteq sides
        /\ RequiredBy(options) \cup (sides \cap OptionalBy(options)) \subseteq plan.entry.sides

\* What an undisturbed call leaves behind.
QuietInv ==
    (phase = "idle" /\ outcome = "ok" /\ quiet) =>
        \/ image.raced
        \/ entry # NoEntry /\ entry.late
        \/ /\ CurrentIn(image, place, options, object, tool)
           /\ RequiredBy(options) \subseteq sides

LinkInv ==
    /\ regime \in {"edits", "faults"}
    /\ TypeInv /\ AgeInv /\ PairInv /\ FaultInv /\ PlanInv /\ LinkedInv /\ QuietInv

-----------------------------------------------------------------------------
(* Types *)

\* Entries, plans and images are not the values that say there is none.
LEMMA RecordFacts ==
    /\ \A e \in Entries : e # NoEntry
    /\ \A p \in Plans : p # NoPlan
    /\ Written # NoImage /\ Seen # NotRead
<1>1. /\ DOMAIN NoEntry = {"kind"} /\ DOMAIN NoPlan = {"kind"} /\ DOMAIN NoImage = {"kind"}
      /\ DOMAIN NotRead = {"kind"}
  BY DEF NoEntry, NoPlan, NoImage, NotRead
<1>2. \A e \in Entries : "tool" \in DOMAIN e
  BY DEF Entries
<1>3. \A p \in Plans : "late" \in DOMAIN p
  BY DEF Plans
<1>4. "tool" \in DOMAIN Written
  BY DEF Written
<1>5. "files" \in DOMAIN Seen
  BY DEF Seen
<1> QED BY <1>1, <1>2, <1>3, <1>4, <1>5

\* What a change of the user's does to the plan of the call it meets.
LEMMA DuringFacts ==
    ASSUME TypeInv, NEW m \in BOOLEAN
    PROVE  /\ phase = "idle" => During(m) = plan
           /\ phase # "idle" =>
                /\ PlanOK(During(m)) /\ During(m) # NoPlan
                /\ During(m).libraries = plan.libraries /\ During(m).declared = plan.declared
                /\ During(m).full = plan.full /\ During(m).entry = plan.entry
                /\ During(m).seen = plan.seen
           /\ phase = "inspected" => During(m).raced /\ During(m).late = plan.late
           /\ phase = "linked" => (m => During(m).late) /\ (~m => During(m) = plan)
<1>1. CASE phase = "idle"
  BY <1>1 DEF During
<1>2. CASE phase = "inspected"
  <2>1. During(m) = [plan EXCEPT !.raced = TRUE] /\ PlanOK(plan)
    BY <1>2 DEF During, TypeInv
  <2> QED BY <1>2, <2>1, RecordFacts DEF PlanOK, Plans
<1>3. CASE phase = "linked"
  <2>1. PlanOK(plan) /\ During(m) = IF m THEN [plan EXCEPT !.late = TRUE] ELSE plan
    BY <1>3 DEF During, TypeInv
  <2> QED BY <1>3, <2>1, RecordFacts DEF PlanOK, Plans
<1> QED BY <1>1, <1>2, <1>3 DEF TypeInv

\* What an inspection finds has the types of a plan.
LEMMA LinkableDeclared ==
    ASSUME TypeInv, \A f \in BaseFiles(options.args) : f[1] # 0 => BaseFound(f)
    PROVE  Declared \in Seq(Files) /\ IsInjective(Declared) /\ Libraries \in Seq(LibPaths)
<1>1. options \in OptionSets
  BY DEF TypeInv
<1>2. \A f \in BaseFiles(options.args) : f[1] # 0 => BaseFoundIn(place, f)
  BY Views
<1>3. DeclaredIn(place, options) \in Seq(Files) /\ IsInjective(DeclaredIn(place, options))
  BY <1>1, <1>2, DeclaredFacts
<1> QED BY <1>3, Views, RouteFacts

\* The names of the libraries that LINK finds by itself.
SealedNames == {n \in ByName : Find(n) \notin ToSet(plan.libraries)}

\* LINK has found by itself what it would find now.
Traced == plan.seen # NotRead /\ Linkable /\ plan.seen.named = RouteIn(place, SealedNames)

\* The sealed list is one of files, each once.
LEMMA SealedTypes ==
    ASSUME TypeInv, phase = "inspected", plan.seen # NotRead
    PROVE  Sealed \in Seq(Files) /\ IsInjective(Sealed)
<1> DEFINE d == plan.declared
           r == Kept(plan.seen.named, {p \in Paths : place[p] # 0})
<1>1. Sealed = AppendUnique(d, r)
  BY DEF Sealed
<1>2. d \in Seq(Files) /\ IsInjective(d) /\ plan.seen.named \in Seq(LibPaths)
  BY DEF TypeInv, PlanOK, Plans, Sightings
<1>3. r \in Seq(LibPaths) /\ LibPaths \subseteq Files
  BY <1>2, KeptFacts, PathFacts DEF Files
<1>4. r \in Seq(Files)
  BY <1>3
<1> HIDE DEF d, r
<1>5. /\ AppendUnique(d, r) \in Seq(Files)
      /\ IsInjective(d) => IsInjective(AppendUnique(d, r))
  BY <1>2, <1>4, UniqueFacts
<1> QED BY <1>1, <1>2, <1>5

\* The sealed list is the declarations with what LINK found by itself.
LEMMA SealedFacts ==
    ASSUME TypeInv, phase = "inspected", Traced
    PROVE  /\ Sealed = AppendUnique(plan.declared, RouteIn(place, SealedNames))
           /\ ToSet(Sealed) = ToSet(plan.declared) \cup ToSet(RouteIn(place, SealedNames))
<1> DEFINE d == plan.declared
           r == RouteIn(place, SealedNames)
           there == {p \in Paths : place[p] # 0}
<1>1. d \in Seq(Files)
  BY DEF TypeInv, PlanOK, Plans
<1>2. r \in Seq(LibPaths) /\ LibPaths \subseteq Files
  BY RouteFacts, PathFacts DEF Files
<1>3. ToSet(r) \subseteq there
  <2>1. ToSet(r) = {FindIn(place, n) : n \in {m \in SealedNames \cap LibNames : FoundIn(place, m)}}
    BY RouteFacts
  <2> QED BY <2>1, FindFacts, PathFacts
<1>4. Sealed = AppendUnique(d, Kept(r, there))
  BY DEF Sealed, Traced
<1>5. r \in Seq(Files)
  BY <1>2
<1> HIDE DEF d, r, there
<1>6. Kept(r, there) = r
  BY <1>3, <1>5, KeptAll
<1>7. ToSet(AppendUnique(d, r)) = ToSet(d) \cup ToSet(r)
  BY <1>1, <1>5, UniqueFacts
<1> QED BY <1>4, <1>6, <1>7 DEF d, r

\* What LINK reads.
LEMMA InputFacts ==
    ASSUME TypeInv, phase = "inspected", Linkable
    PROVE  /\ Inputs \subseteq Paths /\ \A p \in Inputs : place[p] # 0
           /\ Inputs = ToSet(plan.libraries)
                          \cup {FindIn(place, n) : n \in NamesIn(place, options, object)}
                          \cup NamedIn(place, options)
           /\ \A n \in NamesIn(place, options, object) : n \in LibNames /\ FoundIn(place, n)
           /\ \A f \in BaseFiles(options.args) : BaseFoundIn(place, f)
           /\ ToSet(plan.libraries) \subseteq LibPaths
<1>1. options \in OptionSets /\ object \in 1 .. LinkEdits + 1
  BY LibrariesAssumption DEF TypeInv
<1>2. NamesIn(place, options, object) \subseteq LibNames
  BY <1>1, NameFacts, OptionFacts DEF NamesIn
<1>3. /\ \A n \in NamesIn(place, options, object) : FoundIn(place, n)
      /\ \A f \in BaseFiles(options.args) : BaseFoundIn(place, f)
      /\ \A p \in ToSet(plan.libraries) \cup NamedIn(place, options) : place[p] # 0
  BY Views DEF Linkable
<1>4. Inputs = ToSet(plan.libraries)
                   \cup {FindIn(place, n) : n \in NamesIn(place, options, object)}
                   \cup NamedIn(place, options)
  BY Views DEF Inputs
<1>5. ToSet(plan.libraries) \subseteq LibPaths
  <2>1. plan.libraries \in Seq(LibPaths)
    BY DEF TypeInv, PlanOK, Plans
  <2> QED BY <2>1, LenProperties DEF ToSet
<1>6. NamedIn(place, options) \subseteq Paths /\ LibPaths \subseteq Paths
  BY <1>1, <1>3, BaseFacts, PathFacts
<1>7. \A n \in NamesIn(place, options, object) :
         FindIn(place, n) \in LibPaths /\ place[FindIn(place, n)] # 0
  BY <1>2, <1>3, FindFacts
<1> QED BY <1>2, <1>3, <1>4, <1>5, <1>6, <1>7

\* LINK may find and read its inputs: what it has of them has the types of a plan.
LEMMA SeenTypes ==
    ASSUME TypeInv, phase = "inspected", Linkable
    PROVE  Seen \in Sightings
<1>1. Inputs \subseteq Paths
  BY InputFacts
<1>2. \A p \in Inputs : place[p] \in Nat
  BY <1>1, LibrariesAssumption DEF TypeInv
<1>3. [p \in Inputs |-> place[p]] \in UNION {[S -> Nat] : S \in SUBSET Paths}
  BY <1>1, <1>2
<1>4. Seen.named \in Seq(LibPaths)
  BY Views, RouteFacts DEF Seen
<1> QED BY <1>3, <1>4 DEF Seen, Sightings

\* What LINK wrote is of files that are as it read them, or known not to be.
LEMMA Untorn ==
    ASSUME TypeInv, phase = "inspected", ~Written.raced
    PROVE  /\ Traced /\ DOMAIN Written.read = Inputs
           /\ \A p \in Inputs : Written.read[p] = IF Incremental /\ p \in DOMAIN image.read
                                                 THEN image.read[p] ELSE place[p]
<1>1. ~Torn
  BY DEF Written
<1>2. Linkable /\ plan.seen = Seen
  BY <1>1 DEF Torn
<1>3. plan.seen.files = [p \in Inputs |-> place[p]]
  BY <1>2 DEF Seen
<1>4. plan.seen.named = RouteIn(place, SealedNames)
  BY <1>2, Views DEF Seen, SealedNames
<1>5. Written.read = [p \in Inputs |-> IF Incremental /\ p \in DOMAIN image.read
                                      THEN image.read[p] ELSE place[p]]
  BY <1>3 DEF Written, Read
<1> QED BY <1>2, <1>4, <1>5, RecordFacts DEF Traced

\* Where nothing appears or goes away, or nothing changes, LINK has found what there is.
LEMMA SeenTraced ==
    ASSUME TypeInv, PlanInv, phase = "inspected", plan.seen # NotRead, quiet \/ regime = "faults"
    PROVE  Traced
<1>1. /\ LinkableIn(place, options, object, plan.libraries)
      /\ plan.seen.named = SelfIn(place, options, object, plan.libraries)
  BY DEF PlanInv
<1>2. SealedNames = SelfNames(place, options, object, plan.libraries)
  BY Views DEF SealedNames, SelfNames
<1> QED BY <1>1, <1>2, SeenViews DEF Traced, SelfIn

\* The first state has the types, whatever an older version left.
LEMMA TypeStart == Init => TypeInv
<1> SUFFICES ASSUME Init PROVE TypeInv
  OBVIOUS
<1>1. LinkEdits \in Nat /\ Placements \subseteq SUBSET Paths
  BY LibrariesAssumption
<1>2. place \in [Paths -> 0 .. LinkEdits + 1]
  BY <1>1 DEF Init
<1>3. /\ regime \in LinkRegimes /\ edits \in 0 .. LinkEdits
      /\ object \in 1 .. edits + 1 /\ tool \in 1 .. edits + 1 /\ options \in OptionSets
      /\ newer = {} /\ moved = {} /\ sides = {} /\ object = 1
      /\ phase = "idle" /\ outcome = "none" /\ quiet = TRUE /\ plan = NoPlan
  BY <1>1 DEF Init
<1>4. ASSUME NEW format \in 2 .. 3, Legacy(format)
      PROVE  /\ image # NoImage => /\ DOMAIN image.read \subseteq Paths
                                   /\ image.options \in OptionSets
                                   /\ image.object \in 1 .. LinkEdits + 1
             /\ entry # NoEntry => EntryOK(entry)
  <2> DEFINE names == Needed \cup Directed \cup DefaultLibraries(options.args)
             e == [libraries |-> Libraries, files |-> Declared, sides |-> {"pdb"},
                   options |-> options, tool |-> 1, late |-> FALSE]
  <2>1. image = [read |-> [p \in {Find(n) : n \in names} |-> 0], object |-> 1, tool |-> 1,
                 options |-> options, raced |-> FALSE]
    BY <1>4 DEF Legacy
  <2>2. \A n \in names : n \in LibNames /\ FoundIn(place, n)
    <3>1. names \subseteq NeededBy(options) \cup ByNames(options, 1)
      BY <1>3, Views DEF Directed, ByNames
    <3>2. NeededBy(options) \subseteq LibNames /\ ByNames(options, 1) \subseteq LibNames
      BY <1>1, <1>3, OptionFacts, NameFacts
    <3>3. \A n \in names : FoundIn(place, n)
      BY <1>4, Views DEF Legacy
    <3> QED BY <3>1, <3>2, <3>3
  <2>3. {Find(n) : n \in names} \subseteq Paths
    <3>1. \A n \in names : Find(n) \in Paths
      BY <2>2, FindFacts, Views, PathFacts
    <3> QED BY <3>1
  <2>4. image # NoImage => /\ DOMAIN image.read \subseteq Paths
                           /\ image.options \in OptionSets
                           /\ image.object \in 1 .. LinkEdits + 1
    <3> HIDE DEF names
    <3> QED BY <1>1, <1>3, <2>1, <2>3
  <2>5. Libraries \in Seq(LibPaths)
    BY Views, RouteFacts
  <2>6. <<>> \in Seq(Files) /\ IsInjective(<<>>)
    BY DEF IsInjective
  <2>7. entry = [e EXCEPT !.files = <<>>] \/ entry = [e EXCEPT !.files = <<>>, !.sides = {}]
    BY <1>4 DEF Legacy, Loaded
  <2>8. EntryOK(entry)
    <3>1. \E kept \in SUBSET {"pdb"} :
             entry = [libraries |-> Libraries, files |-> <<>>, sides |-> kept,
                      options |-> options, tool |-> 1, late |-> FALSE]
      BY <2>7, Zenon
    <3>2. {"pdb"} \subseteq Sides
      BY DEF Sides
    <3> QED BY <1>3, <2>5, <2>6, <3>1, <3>2 DEF EntryOK, Entries
  <2> QED BY <2>4, <2>8
<1>5. /\ image # NoImage => /\ DOMAIN image.read \subseteq Paths
                            /\ image.options \in OptionSets
                            /\ image.object \in 1 .. LinkEdits + 1
      /\ entry # NoEntry => EntryOK(entry)
  BY <1>4 DEF Init
<1> QED BY <1>2, <1>3, <1>5 DEF TypeInv

\* The user changes files, the object, the linker or the options.
LEMMA UserTypes ==
    ASSUME TypeInv,
           \/ \E p \in Editable : PutFile(p) \/ RemoveFile(p)
           \/ Recompile \/ ReplaceTool \/ Reconfigure \/ DeleteOutput \/ DamageEntry
    PROVE  TypeInv'
<1>1. LinkEdits \in Nat /\ Editable \subseteq Paths
  BY LibrariesAssumption
<1>2. edits < LinkEdits /\ edits' = edits + 1 /\ quiet' = FALSE
  BY DEF PutFile, RemoveFile, Recompile, ReplaceTool, Reconfigure, DeleteOutput, DamageEntry,
         Changing
<1>3. /\ edits' \in 0 .. LinkEdits /\ 1 .. edits + 1 \subseteq 1 .. edits' + 1
      /\ edits + 2 \in 0 .. LinkEdits + 1 /\ 0 \in 0 .. LinkEdits + 1
      /\ object + 1 \in 1 .. edits' + 1 /\ tool + 1 \in 1 .. edits' + 1
  BY <1>1, <1>2 DEF TypeInv
<1>4. ASSUME NEW p \in Editable, PutFile(p) \/ RemoveFile(p) PROVE TypeInv'
  <2>1. p \in Paths /\ (p[1] # 0 => {p[1]} \subseteq Dirs)
    BY <1>1, PathFacts
  <2>2. Directory(p) \subseteq Dirs
    BY <2>1 DEF Directory
  <2>3. /\ place' \in [Paths -> 0 .. LinkEdits + 1]
        /\ newer' \subseteq Paths \cup {Tool, Object} /\ moved' \subseteq Dirs
    BY <1>3, <1>4, <2>1, <2>2 DEF TypeInv, PutFile, RemoveFile
  <2>4. /\ UNCHANGED <<regime, object, tool, options, image, sides, entry, phase, outcome>>
        /\ \E m \in BOOLEAN : plan' = During(m)
    BY <1>4 DEF PutFile, RemoveFile
  <2>5. /\ (phase' = "idle") = (plan' = NoPlan)
        /\ phase' # "idle" => PlanOK(plan')
        /\ phase' = "linked" => EntryOK(plan'.entry)
    BY <2>4, DuringFacts DEF TypeInv
  <2> QED BY <1>2, <1>3, <2>3, <2>4, <2>5 DEF TypeInv
<1>5. CASE Recompile \/ ReplaceTool
  <2>1. /\ UNCHANGED <<regime, place, options, image, sides, sealVars, callVars>>
        /\ object' \in 1 .. edits' + 1 /\ tool' \in 1 .. edits' + 1
        /\ newer' \subseteq Paths \cup {Tool, Object}
    BY <1>3, <1>5 DEF Recompile, ReplaceTool, TypeInv
  <2> QED BY <1>2, <1>3, <2>1 DEF TypeInv, sealVars, callVars
<1>6. CASE Reconfigure
  <2>1. /\ UNCHANGED <<regime, place, object, tool, diskVars, sealVars, callVars>>
        /\ options' \in OptionSets
    BY <1>6 DEF Reconfigure
  <2> QED BY <1>2, <1>3, <2>1 DEF TypeInv, diskVars, sealVars, callVars
<1>7. CASE DamageEntry
  <2>1. /\ UNCHANGED <<regime, place, object, tool, options, diskVars, moved, callVars>>
        /\ entry' = NoEntry
    BY <1>7 DEF DamageEntry
  <2> QED BY <1>2, <1>3, <2>1 DEF TypeInv, diskVars, callVars
<1>8. CASE DeleteOutput
  <2>1. /\ UNCHANGED <<regime, place, object, tool, options, newer, sealVars, callVars>>
        /\ image' \in {image, NoImage} /\ sides' \subseteq sides
    BY <1>8 DEF DeleteOutput
  <2> QED BY <1>2, <1>3, <2>1 DEF TypeInv, sealVars, callVars
<1> QED BY <1>4, <1>5, <1>6, <1>7, <1>8

\* LINK writes an image.
LEMMA WrittenTypes ==
    ASSUME TypeInv, phase = "inspected", plan.seen # NotRead
    PROVE  /\ DOMAIN Written.read \subseteq Paths /\ Written.options \in OptionSets
           /\ Written.object \in 1 .. LinkEdits + 1
<1>1. object \in 1 .. LinkEdits + 1 /\ options \in OptionSets
  BY LibrariesAssumption DEF TypeInv
<1>2. Written.object = object /\ Written.options = options
  BY DEF Written
<1>3. plan.seen \in Sightings
  BY DEF TypeInv, PlanOK, Plans
<1>4. DOMAIN plan.seen.files \subseteq Paths
  BY <1>3 DEF Sightings
<1>5. DOMAIN Written.read = DOMAIN plan.seen.files
  BY DEF Written, Read
<1> QED BY <1>1, <1>2, <1>4, <1>5

\* The coordinator.
LEMMA CallTypes ==
    ASSUME TypeInv,
           \/ ResolveFails \/ ReuseImage \/ Inspect \/ ReadInputs \/ RunLink \/ LinkFails
           \/ Save \/ SaveFails \/ Crash
    PROVE  TypeInv'
<1>1. UNCHANGED <<regime, worldVars>>
  BY DEF ResolveFails, ReuseImage, Inspect, ReadInputs, RunLink, LinkFails, Save, SaveFails, Crash
<1>2. /\ RequiredBy(options) \subseteq Sides /\ OptionalBy(options) \subseteq Sides
      /\ Required = RequiredBy(options) /\ Optional = OptionalBy(options)
  BY DEF RequiredBy, OptionalBy, Required, Optional, Sides
<1>3. CASE ResolveFails \/ ReuseImage
  <2>1. /\ UNCHANGED <<diskVars, sealVars>> /\ quiet' = TRUE
        /\ phase' = "idle" /\ plan' = NoPlan /\ outcome' \in {"ok", "error"}
    BY <1>3 DEF ResolveFails, ReuseImage, Ended
  <2> QED BY <1>1, <2>1 DEF TypeInv, worldVars, diskVars, sealVars
<1>4. CASE Inspect
  <2>1. /\ UNCHANGED <<diskVars, sealVars>> /\ quiet' = TRUE
        /\ phase' = "inspected" /\ outcome' = "none"
        /\ plan' = [libraries |-> Libraries, declared |-> Declared, full |-> FullLink,
                    seen |-> NotRead, entry |-> NoEntry, raced |-> FALSE, late |-> FALSE]
    BY <1>4 DEF Inspect
  <2>2. /\ Declared \in Seq(Files) /\ IsInjective(Declared) /\ Libraries \in Seq(LibPaths)
    BY <1>4, LinkableDeclared DEF Inspect, Inspectable
  <2>3. FullLink \in BOOLEAN
    BY DEF FullLink
  <2>4. PlanOK(plan') /\ plan' # NoPlan
    BY <2>1, <2>2, <2>3, RecordFacts DEF PlanOK, Plans, Sightings
  <2> QED BY <1>1, <2>1, <2>4 DEF TypeInv, worldVars, diskVars, sealVars
<1>9. CASE ReadInputs
  <2>1. /\ UNCHANGED <<diskVars, sealVars, phase, outcome, quiet>> /\ phase = "inspected"
        /\ Linkable /\ plan' = [plan EXCEPT !.seen = Seen]
    BY <1>9 DEF ReadInputs
  <2>2. PlanOK(plan) /\ Seen \in Sightings
    BY <2>1, SeenTypes DEF TypeInv
  <2>3. PlanOK(plan') /\ plan' # NoPlan
    BY <2>1, <2>2, RecordFacts DEF PlanOK, Plans
  <2> QED BY <1>1, <2>1, <2>3 DEF TypeInv, worldVars, diskVars, sealVars
<1>5. CASE RunLink
  <2>1. /\ UNCHANGED <<sealVars, outcome, quiet>>
        /\ phase = "inspected" /\ phase' = "linked" /\ plan.seen # NotRead
        /\ image' = Written /\ newer' = {}
    BY <1>5 DEF RunLink
  <2>2. sides' \subseteq Sides
    <3>1. PICK more \in SUBSET (Optional \cup (IF options.dll THEN {"implib"} ELSE {})) :
             sides' = sides \cup Required \cup more
      BY <1>5 DEF RunLink
    <3>2. more \subseteq Sides
      BY <1>2 DEF Sides
    <3> QED BY <1>2, <3>1, <3>2 DEF TypeInv
  <2> DEFINE e == [libraries |-> plan.libraries, files |-> Sealed, options |-> options,
                   tool |-> tool, late |-> FALSE,
                   sides |-> sides' \cap (Required \cup Optional \cup
                                 (IF options.dll THEN {"implib"} ELSE {}))]
  <2>3. plan' = [plan EXCEPT !.entry = e] /\ PlanOK(plan)
    BY <1>5, <2>1 DEF RunLink, TypeInv
  <2>4. EntryOK(e)
    <3>1. plan.libraries \in Seq(LibPaths)
      BY <2>3 DEF PlanOK, Plans
    <3>2. Sealed \in Seq(Files) /\ IsInjective(Sealed)
      BY <2>1, SealedTypes
    <3>3. options \in OptionSets /\ tool \in Nat
      BY DEF TypeInv
    <3> QED BY <2>2, <3>1, <3>2, <3>3 DEF EntryOK, Entries
  <2> HIDE DEF e
  <2>5. PlanOK(plan') /\ plan' # NoPlan /\ plan'.entry = e
    BY <2>3, <2>4, RecordFacts DEF PlanOK, Plans, EntryOK
  <2>6. /\ DOMAIN Written.read \subseteq Paths /\ Written.options \in OptionSets
        /\ Written.object \in 1 .. LinkEdits + 1
    BY <2>1, WrittenTypes
  <2> QED BY <1>1, <2>1, <2>2, <2>4, <2>5, <2>6 DEF TypeInv, worldVars, sealVars
<1>6. CASE LinkFails
  <2>1. /\ UNCHANGED <<sealVars, quiet>> /\ phase = "inspected"
        /\ phase' = "idle" /\ plan' = NoPlan /\ outcome' = "error"
        /\ newer' \in {newer, {}} /\ sides' \subseteq sides
        /\ \/ image' \in {image, NoImage}
           \/ plan.seen # NotRead /\ image' = Written
    BY <1>6 DEF LinkFails, Ended
  <2>2. image' # NoImage => /\ DOMAIN image'.read \subseteq Paths
                            /\ image'.options \in OptionSets
                            /\ image'.object \in 1 .. LinkEdits + 1
    BY <2>1, WrittenTypes DEF TypeInv
  <2> QED BY <1>1, <2>1, <2>2 DEF TypeInv, worldVars, sealVars
<1>7. CASE Save
  <2>1. /\ UNCHANGED <<diskVars, quiet>> /\ phase = "linked" /\ moved' = {}
        /\ phase' = "idle" /\ plan' = NoPlan /\ outcome' = "ok"
        /\ entry' = [plan.entry EXCEPT !.late = plan.late]
    BY <1>7 DEF Save, Ended
  <2>2. EntryOK(plan.entry) /\ plan.late \in BOOLEAN
    BY <2>1 DEF TypeInv, PlanOK, Plans
  <2>3. EntryOK(entry')
    BY <2>1, <2>2 DEF EntryOK, Entries
  <2> QED BY <1>1, <2>1, <2>3 DEF TypeInv, worldVars, diskVars
<1>8. CASE SaveFails \/ Crash
  <2>1. /\ UNCHANGED <<diskVars, moved, quiet>> /\ entry' \in {entry, NoEntry}
        /\ phase' = "idle" /\ plan' = NoPlan /\ outcome' \in {"ok", "error"}
    BY <1>8 DEF SaveFails, Crash, Ended
  <2> QED BY <1>1, <2>1 DEF TypeInv, worldVars, diskVars
<1> QED BY <1>3, <1>4, <1>5, <1>6, <1>7, <1>8, <1>9

\* Every step keeps the types.
LEMMA TypeStep == TypeInv /\ [Next]_vars => TypeInv'
<1>1. CASE UNCHANGED vars
  BY <1>1 DEF vars, worldVars, diskVars, sealVars, callVars, TypeInv
<1> QED BY <1>1, UserTypes, CallTypes DEF Next

\* Every reachable state has the types that the model names: libraries and observed files
\* are paths, sealed once each (append_unique_path), and a plan exists exactly during a call.
THEOREM LinkTypes == Spec => []TypeOK
<1>1. TypeInv => TypeOK
  <2> SUFFICES ASSUME TypeInv PROVE TypeOK
    OBVIOUS
  <2>1. object \in 1 .. LinkEdits + 1 /\ tool \in 1 .. LinkEdits + 1
    BY LibrariesAssumption DEF TypeInv
  <2>2. ASSUME entry # NoEntry
        PROVE  /\ ToSet(entry.libraries) \subseteq Paths
               /\ ToSet(entry.files) \subseteq Paths \cup {Tool} /\ IsInjective(entry.files)
    <3>1. entry.libraries \in Seq(LibPaths) /\ entry.files \in Seq(Files)
      BY <2>2 DEF TypeInv, EntryOK, Entries
    <3>2. ToSet(entry.libraries) \subseteq LibPaths /\ ToSet(entry.files) \subseteq Files
      BY <3>1, LenProperties DEF ToSet
    <3> QED BY <2>2, <3>2, PathFacts DEF TypeInv, EntryOK, Files
  <2>3. ASSUME plan # NoPlan, plan.seen # NotRead
        PROVE  DOMAIN plan.seen.files \subseteq Paths /\ ToSet(plan.seen.named) \subseteq Paths
    <3>1. plan.seen \in Sightings
      BY <2>3 DEF TypeInv, PlanOK, Plans
    <3>2. DOMAIN plan.seen.files \subseteq Paths /\ plan.seen.named \in Seq(LibPaths)
      BY <2>3, <3>1 DEF Sightings
    <3>3. ToSet(plan.seen.named) \subseteq LibPaths
      BY <3>2, LenProperties DEF ToSet
    <3> QED BY <3>2, <3>3, PathFacts
  <2> QED BY <2>1, <2>2, <2>3 DEF TypeInv, TypeOK, Sides
<1> QED BY <1>1, TypeStart, TypeStep, PTL DEF Spec

-----------------------------------------------------------------------------
(* What one change does to what entry and image say of each other *)

\* A change of a file leaves every other file as it was, and its own file is younger than
\* the image afterwards, or gone. If it makes a library appear or go away, a directory and
\* the plan remember it.
LEMMA FileFacts ==
    ASSUME TypeInv, NEW p \in Editable, PutFile(p) \/ RemoveFile(p)
    PROVE  /\ quiet' = FALSE
           /\ UNCHANGED <<regime, object, tool, options, image, sides, entry, phase, outcome>>
           /\ \A q \in Paths : (q \notin newer' /\ place'[q] # 0) =>
                                 q \notin newer /\ place[q] # 0 /\ place'[q] = place[q]
           /\ Object \notin newer' => Object \notin newer
           /\ Tool \notin newer' => Tool \notin newer
           /\ \/ Same(place, place') /\ moved' = moved /\ plan' = During(FALSE)
              \/ regime # "faults" /\ moved' # {} /\ plan' = During(TRUE)
           /\ regime = "faults" => \A q \in Paths : place[q] # 0 <=> place'[q] # 0
<1>1. p \in Paths /\ p # Object /\ p # Tool /\ LibPaths \subseteq Paths
  BY LibrariesAssumption, PathFacts
<1>2. /\ quiet' = FALSE
      /\ UNCHANGED <<regime, object, tool, options, image, sides, entry, phase, outcome>>
  BY DEF PutFile, RemoveFile, Changing
<1>3. place \in [Paths -> 0 .. LinkEdits + 1] /\ edits \in Nat /\ edits + 2 # 0
  BY DEF TypeInv
<1>4. CASE PutFile(p)
  <2>1. /\ place[p] = 0 => regime # "faults"
        /\ place' = [place EXCEPT ![p] = edits + 2] /\ newer' = newer \cup {p}
        /\ moved' = IF place[p] = 0 THEN moved \cup Directory(p) ELSE moved
        /\ plan' = During(place[p] = 0 /\ p[1] # 0)
    BY <1>4 DEF PutFile
  <2>2. \A q \in Paths : q # p => place'[q] = place[q] /\ (q \in newer' <=> q \in newer)
    BY <1>3, <2>1
  <2>3. place'[p] # 0 /\ p \in newer'
    BY <1>1, <1>3, <2>1
  <2>4. CASE place[p] = 0 /\ p[1] # 0
    <3>1. plan' = During(TRUE)
      BY <2>1, <2>4
    <3> QED BY <1>1, <1>2, <2>1, <2>2, <2>3, <2>4, <3>1 DEF Directory
  <2>5. CASE ~(place[p] = 0 /\ p[1] # 0)
    <3>1. (place[p] = 0 /\ p[1] # 0) = FALSE
      BY <2>5
    <3>2. plan' = During(FALSE) /\ moved' = moved
      BY <2>1, <2>5, <3>1 DEF Directory
    <3>3. Same(place, place')
      BY <1>1, <2>2, <2>3, <2>5, PathFacts DEF Same
    <3> QED BY <1>1, <1>2, <2>1, <2>2, <2>3, <3>2, <3>3
  <2> QED BY <2>4, <2>5
<1>5. CASE RemoveFile(p)
  <2>1. /\ regime # "faults"
        /\ place' = [place EXCEPT ![p] = 0] /\ newer' = newer \ {p}
        /\ moved' = moved \cup Directory(p)
        /\ plan' = During(p[1] # 0)
    BY <1>5 DEF RemoveFile
  <2>2. \A q \in Paths : q # p => place'[q] = place[q] /\ (q \in newer' <=> q \in newer)
    BY <1>3, <2>1
  <2>3. place'[p] = 0
    BY <1>1, <1>3, <2>1
  <2>4. CASE p[1] # 0
    <3>1. plan' = During(TRUE)
      BY <2>1, <2>4
    <3> QED BY <1>1, <1>2, <2>1, <2>2, <2>3, <2>4, <3>1 DEF Directory
  <2>5. CASE p[1] = 0
    <3>1. (p[1] # 0) = FALSE
      BY <2>5
    <3>2. plan' = During(FALSE) /\ moved' = moved
      BY <2>1, <2>5, <3>1 DEF Directory
    <3>3. Same(place, place')
      BY <1>1, <2>2, <2>5, PathFacts DEF Same
    <3> QED BY <1>1, <1>2, <2>1, <2>2, <2>3, <3>2, <3>3
  <2> QED BY <2>4, <2>5
<1> QED BY <1>4, <1>5

\* Files that only become younger or go away leave the description true.
LEMMA DescribesKept ==
    ASSUME NEW img, NEW pl, NEW nw, NEW ql, NEW mw, NEW e,
           Describes(img, pl, nw, e), DOMAIN img.read \subseteq Paths,
           \A n \in Open(img.options) : n \in LibNames,
           \A q \in Paths : (q \notin mw /\ ql[q] # 0) =>
                               q \notin nw /\ pl[q] # 0 /\ ql[q] = pl[q]
    PROVE  Describes(img, ql, mw, e)
<1>1. ASSUME NEW n \in Open(img.options), Hidden(pl, nw, n) PROVE Hidden(ql, mw, n)
  <2>1. \A d \in Dirs : <<d, n>> \in Paths
    BY PathFacts
  <2> QED BY <1>1, <2>1 DEF Hidden
<1> QED BY <1>1 DEF Describes

\* The same search leaves it settled.
LEMMA SettledKept ==
    ASSUME NEW img, NEW pl, NEW nw, NEW ql, NEW e, Same(pl, ql),
           img.options \in OptionSets, img.object \in 1 .. LinkEdits + 1,
           Describes(img, pl, nw, e), Settled(img, pl, e)
    PROVE  Settled(img, ql, e)
<1>1. ImageNames(img) \subseteq LibNames
  BY OptionFacts, NameFacts DEF ImageNames
<1>2. \A n \in LibNames : FoundIn(pl, n) = FoundIn(ql, n) /\ FindIn(pl, n) = FindIn(ql, n)
  BY SameSearch
<1>3. \A p \in DOMAIN img.read :
         \/ p \in Given(img.options) \cup ToSet(e.libraries)
         \/ p[2] \in LibNames
  BY PathFacts DEF Describes
<1> QED BY <1>1, <1>2, <1>3 DEF Settled

\* Only four fields of an entry are looked at.
Alike(e, f) == /\ e.options = f.options /\ e.tool = f.tool
               /\ e.libraries = f.libraries /\ e.files = f.files

\* Entries that agree on these say the same of an image.
LEMMA AlikeEntries ==
    ASSUME NEW e, NEW f, Alike(e, f)
    PROVE  /\ \A img, pl, nw : Describes(img, pl, nw, e) => Describes(img, pl, nw, f)
           /\ \A img, pl : Settled(img, pl, e) => Settled(img, pl, f)
           /\ \A pl, o, ob, t : Fits(pl, o, ob, t, e) => Fits(pl, o, ob, t, f)
<1>1. \A img, pl, nw : Describes(img, pl, nw, e) => Describes(img, pl, nw, f)
  BY DEF Describes, Alike
<1>2. \A img, pl : Settled(img, pl, e) => Settled(img, pl, f)
  BY DEF Settled, Alike
<1>3. \A pl, o, ob, t : Fits(pl, o, ob, t, e) => Fits(pl, o, ob, t, f)
  BY DEF Fits, Holds, Alike
<1> QED BY <1>1, <1>2, <1>3

-----------------------------------------------------------------------------
(* What LINK writes, and what is sealed of it *)

\* If LINK looks a base-address file up by its name, the plan is of the files there are.
Exact == BaseNames(options) # {} =>
            /\ plan.libraries = RouteIn(place, options.requested)
            /\ plan.declared = DeclaredIn(place, options)

\* No library that is looked up has the name of a base-address file.
LEMMA BaseApart ==
    ASSUME TypeInv, NEW n \in BaseNames(options)
    PROVE  /\ \A m \in options.requested \cup NamesIn(place, options, object) : m # n
           /\ \A m \in DefaultLibraries(options.args) \cup WholeArchives(options.args)
                          \cup Sanitized(options) \cup Open(options) : m \in LibNames /\ m # n
<1>1. options \in OptionSets /\ object \in 1 .. LinkEdits + 1
  BY LibrariesAssumption DEF TypeInv
<1>2. /\ n \notin options.requested /\ n \notin Open(options)
      /\ n \notin ByNames(options, object)
  BY <1>1, OptionFacts, NameFacts
<1>3. /\ DefaultLibraries(options.args) \subseteq LibNames
      /\ WholeArchives(options.args) \subseteq LibNames
      /\ Sanitized(options) \subseteq LibNames /\ Open(options) \subseteq LibNames
  BY <1>1, OptionFacts
<1> QED BY <1>2, <1>3 DEF NamesIn, ByNames

\* The entry about to be saved holds what LINK reads.
LEMMA SealedHolds ==
    ASSUME TypeInv, PlanInv, phase = "inspected", Traced, Exact,
           NEW e, e.libraries = plan.libraries, e.files = Sealed
    PROVE  Holds(place, options, object, e)
<1> DEFINE N == NamesIn(place, options, object)
           r == RouteIn(place, SealedNames)
<1>1. options \in OptionSets
  BY DEF TypeInv
<1>2. /\ \A n \in N : n \in LibNames /\ FoundIn(place, n)
      /\ \A f \in BaseFiles(options.args) : BaseFoundIn(place, f)
  BY InputFacts DEF Traced
<1>3. ToSet(e.files) = ToSet(plan.declared) \cup ToSet(r)
  BY SealedFacts
<1>4. SealedNames = {n \in N : FindIn(place, n) \notin ToSet(plan.libraries)}
  BY Views DEF SealedNames
<1>5. ToSet(r) = {FindIn(place, n) : n \in SealedNames}
  <2>1. ToSet(r) = {FindIn(place, n) : n \in {m \in SealedNames \cap LibNames : FoundIn(place, m)}}
    BY RouteFacts
  <2>2. {m \in SealedNames \cap LibNames : FoundIn(place, m)} = SealedNames
    BY <1>2, <1>4
  <2> QED BY <2>1, <2>2
<1>6. \A n \in N : FindIn(place, n) \in ToSet(e.libraries) \cup ToSet(e.files)
  BY <1>3, <1>4, <1>5
<1>7. Given(options) \subseteq ToSet(plan.declared)
  BY DEF PlanInv
<1>8. /\ BasesIn(place, options) \subseteq Paths
      /\ \A p \in BasesIn(place, options) : p[1] = 0 => p \in Given(options)
      /\ \A p \in BasesIn(place, options) : p[1] # 0 => p[2] \in BaseNames(options)
  BY <1>1, <1>2, BaseFacts
<1>9. ToSet(DeclaredIn(place, options)) =
         NamedIn(place, options) \cup {Tool}
         \cup {FindIn(place, n) : n \in
                 {m \in DefaultLibraries(options.args) \cup WholeArchives(options.args)
                            \cup Sanitized(options) \cup Open(options) : FoundIn(place, m)}}
  BY <1>1, <1>2, DeclaredFacts
<1>10. NamedIn(place, options) \subseteq ToSet(e.libraries) \cup ToSet(e.files)
  <2>1. ASSUME NEW p \in BasesIn(place, options) PROVE p \in ToSet(plan.declared)
    <3>1. CASE p[1] = 0
      BY <3>1, <1>7, <1>8
    <3>2. CASE p[1] # 0
      BY <3>2, <1>8, <1>9 DEF Exact, NamedIn
    <3> QED BY <3>1, <3>2
  <2> QED BY <2>1, <1>3, <1>7 DEF NamedIn, Given
<1>11. ASSUME NEW n \in BaseNames(options), NEW p \in Called(ToSet(e.files), n)
       PROVE  p \in BasesIn(place, options)
  <2>1. p \in LibPaths /\ p[2] = n /\ p[1] # 0 /\ p # Tool
    BY PathFacts DEF Called
  <2>2. p \notin ToSet(r)
    <3>1. ASSUME NEW m \in N PROVE FindIn(place, m) # p
      BY <3>1, <2>1, <1>2, FindFacts, BaseApart
    <3> QED BY <3>1, <1>4, <1>5
  <2>3. p \in ToSet(DeclaredIn(place, options))
    BY <2>2, <1>3 DEF Exact, Called
  <2>4. ASSUME NEW m \in DefaultLibraries(options.args) \cup WholeArchives(options.args)
                            \cup Sanitized(options) \cup Open(options),
               FoundIn(place, m)
        PROVE  FindIn(place, m) # p
    BY <2>1, <2>4, FindFacts, BaseApart
  <2>5. p \notin ToSet(FileInputPaths(options.args))
    BY <1>1, <2>1, OptionFacts, PathFacts
  <2> QED BY <1>9, <2>1, <2>3, <2>4, <2>5 DEF NamedIn
<1>12. \A n \in BaseNames(options) : Called(ToSet(e.files), n) \subseteq BasesIn(place, options)
  BY <1>11
<1> QED BY <1>6, <1>10, <1>12 DEF Holds

\* LINK updates in place only what is as its entry says: the image is of the files as they
\* are.
LEMMA ReadsCurrent ==
    ASSUME TypeInv, PairInv, PlanInv, phase = "inspected", ~Written.raced
    PROVE  \A p \in Inputs : Written.read[p] = place[p]
<1> SUFFICES ASSUME NEW p \in Inputs PROVE Written.read[p] = place[p]
  OBVIOUS
<1>1. Written.read[p] = IF Incremental /\ p \in DOMAIN image.read THEN image.read[p] ELSE place[p]
  BY Untorn
<1>2. CASE Incremental /\ p \in DOMAIN image.read
  <2>1. ~plan.full /\ image # NoImage /\ ~plan.raced /\ ~image.raced
    BY <1>2 DEF Written, Incremental
  <2>2. /\ Modern(entry)
        /\ \A q \in ToSet(entry.libraries) \cup ToSet(entry.files) : FreshIn(place, newer, q)
    BY <2>1 DEF PlanInv
  <2>3. Describes(image, place, newer, entry)
    BY <2>1, <2>2 DEF PairInv
  <2>4. FreshIn(place, newer, p)
    BY <1>2, <2>2, <2>3 DEF Describes
  <2>5. p # Tool
    BY <1>2, <2>1, PathFacts DEF TypeInv
  <2>6. image.read[p] = place[p]
    BY <1>2, <2>3, <2>4, <2>5 DEF Describes, FreshIn
  <2> QED BY <1>1, <1>2, <2>6
<1> QED BY <1>1, <1>2

\* Every entry of the same options that holds what LINK reads describes what LINK writes.
LEMMA WrittenDescribed ==
    ASSUME TypeInv, PairInv, PlanInv, phase = "inspected", Exact, ~Written.raced,
           NEW e, e.options = options, e.tool = tool, e.libraries = plan.libraries,
           Holds(place, options, object, e)
    PROVE  Describes(Written, place, {}, e) /\ Settled(Written, place, e)
<1> DEFINE N == NamesIn(place, options, object)
<1>1. options \in OptionSets
  BY DEF TypeInv
<1>2. /\ DOMAIN Written.read = Inputs
      /\ Written.options = options /\ Written.object = object /\ Written.tool = tool
  BY Untorn DEF Written
<1>3. /\ Inputs = ToSet(e.libraries) \cup {FindIn(place, n) : n \in N} \cup NamedIn(place, options)
      /\ \A n \in N : n \in LibNames /\ FoundIn(place, n)
      /\ \A f \in BaseFiles(options.args) : BaseFoundIn(place, f)
      /\ ToSet(e.libraries) \subseteq LibPaths
  BY Untorn, InputFacts DEF Traced
<1>4. /\ BasesIn(place, options) \subseteq Paths
      /\ \A p, q \in BasesIn(place, options) : p = q
      /\ \A p \in BasesIn(place, options) : p[1] = 0 => p \in Given(options)
      /\ \A p \in BasesIn(place, options) :
            p[1] # 0 => p \in LibPaths /\ p[2] \in BaseNames(options)
      /\ \A n \in BaseNames(options) :
            \E p \in BasesIn(place, options) : p \in LibPaths /\ p[2] = n
      /\ Given(options) \subseteq NamedIn(place, options)
  BY <1>1, <1>3, BaseFacts
<1>5. \A n \in N : FindIn(place, n) \in LibPaths /\ FindIn(place, n)[2] = n
  BY <1>3, FindFacts
<1>6. Inputs \subseteq ToSet(e.libraries) \cup ToSet(e.files)
  BY <1>3 DEF Holds
<1>7. ASSUME NEW n \in BaseNames(options)
      PROVE  /\ Called(Inputs, n) = Called(ToSet(e.files), n)
             /\ \A p, q \in Called(ToSet(e.files), n) : p = q
  <2>1. PICK b \in BasesIn(place, options) : b \in LibPaths /\ b[2] = n
    BY <1>4
  <2>2. \A p \in BasesIn(place, options) : p = b
    BY <1>4
  <2>3. ASSUME NEW p \in ToSet(e.libraries) PROVE p[2] # n
    <3>1. p \in ToSet(RouteIn(place, options.requested))
      BY DEF Exact
    <3>2. PICK m \in options.requested \cap LibNames : FoundIn(place, m) /\ p = FindIn(place, m)
      BY <3>1, RouteFacts
    <3> QED BY <3>2, FindFacts, BaseApart
  <2>4. \A p \in LibPaths : p \in NamedIn(place, options) => p \in BasesIn(place, options)
    BY <1>1, OptionFacts, PathFacts DEF NamedIn
  <2>5. Called(Inputs, n) = {b}
    <3>1. b \in Inputs
      BY <1>3 DEF NamedIn
    <3>2. ASSUME NEW p \in Called(Inputs, n) PROVE p = b
      <4>1. p \in Inputs /\ p \in LibPaths /\ p[2] = n
        BY DEF Called
      <4>2. \A m \in N : FindIn(place, m) # p
        BY <1>5, <4>1, BaseApart
      <4> QED BY <1>3, <2>2, <2>3, <2>4, <4>1, <4>2
    <3> QED BY <2>1, <3>1, <3>2 DEF Called
  <2>6. Called(ToSet(e.files), n) = {b}
    <3>1. b \in ToSet(e.files)
      BY <1>3, <1>6, <2>1, <2>3 DEF NamedIn
    <3>2. Called(ToSet(e.files), n) \subseteq BasesIn(place, options)
      BY DEF Holds
    <3> QED BY <2>1, <2>2, <3>1, <3>2 DEF Called
  <2> QED BY <2>5, <2>6
<1>8. \A n \in N : Called(Inputs, n) # {}
  BY <1>3, <1>5 DEF Called
<1>9. ASSUME NEW n \in Open(options) PROVE Called(Inputs, n) # {} \/ Hidden(place, {}, n)
  <2>1. CASE FoundIn(place, n)
    BY <2>1, <1>8 DEF NamesIn
  <2>2. CASE ~FoundIn(place, n)
    BY <2>2 DEF FoundIn, Hidden
  <2> QED BY <2>1, <2>2
<1>10. ByNames(options, object) \subseteq N /\ N \subseteq ImageNames(Written)
  BY <1>2 DEF NamesIn, ImageNames
<1>11. ASSUME NEW p \in Inputs
       PROVE  \/ p \in Given(options) \cup ToSet(e.libraries)
              \/ p \in LibPaths /\ p[2] \in BaseNames(options)
              \/ p \in LibPaths /\ p[2] \in N /\ p = FindIn(place, p[2])
  <2>1. CASE p \in ToSet(e.libraries)
    BY <2>1
  <2>2. CASE p \in {FindIn(place, n) : n \in N}
    BY <2>2, <1>5
  <2>3. CASE p \in NamedIn(place, options)
    BY <2>3, <1>4 DEF NamedIn, Given
  <2> QED BY <2>1, <2>2, <2>3, <1>3
<1>12. \A p \in Inputs : Written.read[p] = place[p]
  BY ReadsCurrent
<1>13. Describes(Written, place, {}, e)
  <2>1. ToSet(e.libraries) \cup Given(options) \subseteq Inputs
    BY <1>3, <1>4
  <2>2. \A n \in BaseNames(options) :
          /\ Called(Inputs, n) = Called(ToSet(e.files), n)
          /\ \A p, q \in Called(ToSet(e.files), n) : p = q
    BY <1>7
  <2>3. \A n \in ByNames(options, object) : Called(Inputs, n) # {}
    BY <1>8, <1>10
  <2>4. \A n \in Open(options) : Called(Inputs, n) # {} \/ Hidden(place, {}, n)
    BY <1>9
  <2>5. \A p \in Inputs :
          \/ p \in Given(options) \cup ToSet(e.libraries)
          \/ p \in LibPaths /\ p[2] \in ImageNames(Written) \cup BaseNames(options)
    BY <1>10, <1>11
  <2> HIDE DEF N
  <2> QED BY <1>2, <1>6, <1>12, <2>1, <2>2, <2>3, <2>4, <2>5 DEF Describes
<1>14. Settled(Written, place, e)
  <2>1. ASSUME NEW n \in ImageNames(Written), FoundIn(place, n) PROVE FindIn(place, n) \in Inputs
    <3>1. n \in N
      BY <1>2, <2>1 DEF ImageNames, NamesIn
    <3> QED BY <1>3, <3>1
  <2>2. \A p \in Inputs :
          \/ p \in Given(options) \cup ToSet(e.libraries)
          \/ p[2] \in BaseNames(options)
          \/ FoundIn(place, p[2]) /\ p = FindIn(place, p[2])
    BY <1>3, <1>11
  <2> HIDE DEF N
  <2> QED BY <1>2, <2>1, <2>2 DEF Settled
<1> QED BY <1>13, <1>14

-----------------------------------------------------------------------------
(* The steps keep what entry, image and plan say of each other *)

\* The object and the linker of the image are known by their times.
LEMMA AgeStep == TypeInv /\ AgeInv /\ Next => AgeInv'
<1> SUFFICES ASSUME TypeInv, AgeInv, Next PROVE AgeInv'
  OBVIOUS
<1>1. Written.object = object /\ Written.tool = tool
  BY DEF Written
<1>2. ASSUME NEW p \in Editable, PutFile(p) \/ RemoveFile(p) PROVE AgeInv'
  <2>1. /\ UNCHANGED <<object, tool, image>>
        /\ Object \notin newer' => Object \notin newer
        /\ Tool \notin newer' => Tool \notin newer
    BY <1>2, FileFacts
  <2> QED BY <2>1 DEF AgeInv
<1>3. CASE Recompile
  <2>1. UNCHANGED <<image, tool>> /\ newer' = newer \cup {Object}
    BY <1>3 DEF Recompile
  <2> QED BY <2>1 DEF AgeInv
<1>4. CASE ReplaceTool
  <2>1. UNCHANGED <<image, object>> /\ newer' = newer \cup {Tool}
    BY <1>4 DEF ReplaceTool
  <2> QED BY <2>1 DEF AgeInv
<1>5. CASE DeleteOutput
  <2>1. UNCHANGED <<object, tool, newer>> /\ image' \in {image, NoImage}
    BY <1>5 DEF DeleteOutput
  <2> QED BY <2>1 DEF AgeInv
<1>6. CASE RunLink
  <2>1. UNCHANGED <<object, tool>> /\ image' = Written
    BY <1>6 DEF RunLink, worldVars
  <2> QED BY <1>1, <2>1 DEF AgeInv
<1>7. CASE LinkFails
  <2>1. /\ UNCHANGED <<object, tool>>
        /\ (image' \in {image, NoImage} /\ newer' = newer) \/ image' = Written
    BY <1>7 DEF LinkFails, worldVars
  <2> QED BY <1>1, <2>1 DEF AgeInv
<1>8. CASE \/ Reconfigure \/ DamageEntry \/ ResolveFails \/ ReuseImage \/ Inspect
           \/ ReadInputs \/ Save \/ SaveFails \/ Crash
  <2>1. UNCHANGED <<object, tool, image, newer>>
    BY <1>8 DEF Reconfigure, DamageEntry, ResolveFails, ReuseImage, Inspect, ReadInputs, Save,
               SaveFails, Crash, worldVars, diskVars
  <2> QED BY <2>1 DEF AgeInv
<1> QED BY <1>2, <1>3, <1>4, <1>5, <1>6, <1>7, <1>8 DEF Next

\* LINK is run with a plan of the files there are, if it looks a base-address file up or
\* if only contents change.
LEMMA LinkExact ==
    ASSUME PlanInv, phase = "inspected",
           ~Written.raced \/ regime = "faults"
    PROVE  Exact
<1>1. CASE regime = "faults"
  BY <1>1 DEF PlanInv, Exact
<1>2. CASE ~Written.raced
  <2>1. \/ ~plan.raced
        \/ ~\E f \in BaseFiles(options.args) : f[1] # 0
    BY <1>2 DEF Written
  <2>2. BaseNames(options) # {} => ~plan.raced
    BY <2>1 DEF BaseNames
  <2> QED BY <2>2 DEF PlanInv, Exact
<1> QED BY <1>1, <1>2

\* RunLink writes the image and makes an entry that describes it.
LEMMA RunLinkPair ==
    ASSUME TypeInv, PairInv, FaultInv, PlanInv, RunLink
    PROVE  PairInv'
<1> SUFFICES ASSUME ~Written.raced PROVE PairInv'
  BY DEF PairInv, RunLink
<1>1. /\ phase = "inspected" /\ image' = Written /\ newer' = {}
      /\ phase' = "linked" /\ UNCHANGED <<place, regime, entry, moved, options, object, tool>>
  BY DEF RunLink, worldVars, sealVars
<1>2. PICK e : /\ plan' = [plan EXCEPT !.entry = e]
               /\ e.libraries = plan.libraries /\ e.files = Sealed
               /\ e.options = options /\ e.tool = tool
  <2> DEFINE f == [libraries |-> plan.libraries, files |-> Sealed, options |-> options,
                   tool |-> tool, late |-> FALSE,
                   sides |-> sides' \cap (Required \cup Optional \cup
                                 (IF options.dll THEN {"implib"} ELSE {}))]
  <2>1. plan' = [plan EXCEPT !.entry = f]
    BY DEF RunLink
  <2>2. /\ f.libraries = plan.libraries /\ f.files = Sealed
        /\ f.options = options /\ f.tool = tool
    OBVIOUS
  <2> HIDE DEF f
  <2> QED BY <2>1, <2>2
<1>3. PlanOK(plan) /\ plan'.entry = e
  BY <1>1, <1>2 DEF TypeInv, PlanOK, Plans
<1>4. Exact
  BY <1>1, LinkExact
<1>5. Describes(Written, place, {}, e) /\ Settled(Written, place, e)
  BY <1>1, <1>2, <1>4, Untorn, SealedHolds, WrittenDescribed
<1>6. ASSUME Modern(entry), regime = "faults"
      PROVE  Describes(Written, place, {}, entry) /\ Settled(Written, place, entry)
  <2>1. Fits(place, options, object, tool, entry)
    BY <1>6 DEF FaultInv
  <2>2. plan.libraries = RouteIn(place, options.requested)
    BY <1>1, <1>6 DEF PlanInv
  <2>3. /\ entry.options = options /\ entry.tool = tool /\ entry.libraries = plan.libraries
        /\ Holds(place, options, object, entry)
    BY <2>1, <2>2 DEF Fits
  <2> QED BY <1>1, <1>4, <2>3, WrittenDescribed
<1>7. Modern(entry)' = Modern(entry)
  BY <1>1 DEF Modern
<1>8. /\ Describes(image', place', newer', plan'.entry) /\ Settled(image', place', plan'.entry)
      /\ Modern(entry') /\ regime' = "faults" =>
            Describes(image', place', newer', entry') /\ Settled(image', place', entry')
  BY <1>1, <1>3, <1>5, <1>6
<1> QED BY <1>1, <1>8 DEF PairInv, Modern

\* LINK fails.
LEMMA LinkFailsPair ==
    ASSUME TypeInv, PairInv, FaultInv, PlanInv, LinkFails, regime \in {"edits", "faults"}
    PROVE  PairInv'
<1>1. /\ phase = "inspected" /\ phase' = "idle"
      /\ UNCHANGED <<place, regime, entry, moved, options, object, tool>>
  BY DEF LinkFails, Ended, worldVars, sealVars
<1>2. CASE image' = image /\ newer' = newer
  BY <1>1, <1>2 DEF PairInv, Modern
<1>3. CASE image' = NoImage
  BY <1>1, <1>3 DEF PairInv
<1>4. CASE regime # "edits" /\ image' = Written /\ newer' = {}
  <2> SUFFICES ASSUME ~Written.raced, Modern(entry)
      PROVE  Describes(Written, place, {}, entry) /\ Settled(Written, place, entry)
    BY <1>1, <1>4 DEF PairInv, Modern
  <2>1. Exact
    BY <1>1, LinkExact
  <2>2. Fits(place, options, object, tool, entry)
    BY <1>4 DEF FaultInv
  <2>3. plan.libraries = RouteIn(place, options.requested)
    BY <1>1, <1>4 DEF PlanInv
  <2>4. /\ entry.options = options /\ entry.tool = tool /\ entry.libraries = plan.libraries
        /\ Holds(place, options, object, entry)
    BY <2>2, <2>3 DEF Fits
  <2> QED BY <1>1, <1>4, <2>1, <2>4, WrittenDescribed
<1> QED BY <1>2, <1>3, <1>4 DEF LinkFails

\* A change of a file.
LEMMA FilePair ==
    ASSUME TypeInv, PairInv, NEW p \in Editable, PutFile(p) \/ RemoveFile(p)
    PROVE  PairInv'
<1>1. UNCHANGED <<regime, image, entry, phase>>
  BY FileFacts
<1>2. \A q \in Paths : (q \notin newer' /\ place'[q] # 0) =>
                         q \notin newer /\ place[q] # 0 /\ place'[q] = place[q]
  BY FileFacts
<1>3. \/ Same(place, place') /\ moved' = moved /\ plan' = During(FALSE)
      \/ moved' # {} /\ plan' = During(TRUE)
  BY FileFacts
<1> SUFFICES ASSUME image # NoImage, ~image.raced PROVE PairInv'
  BY <1>1 DEF PairInv
<1>4. /\ DOMAIN image.read \subseteq Paths
      /\ image.options \in OptionSets /\ image.object \in 1 .. LinkEdits + 1
      /\ \A n \in Open(image.options) : n \in LibNames
  BY OptionFacts DEF TypeInv
<1>5. ASSUME NEW e, Describes(image, place, newer, e)
      PROVE  /\ Describes(image, place', newer', e)
             /\ Same(place, place') /\ Settled(image, place, e) => Settled(image, place', e)
  BY <1>2, <1>4, <1>5, DescribesKept, SettledKept
<1>6. CASE phase = "linked"
  <2>1. /\ \/ Same(place, place') /\ moved' = moved /\ plan' = plan
           \/ moved' # {} /\ plan'.late
        /\ plan'.entry = plan.entry
    BY <1>3, <1>6, DuringFacts
  <2>2. /\ Describes(image, place', newer', plan'.entry)
        /\ ~plan'.late => Settled(image, place', plan'.entry)
    BY <1>5, <1>6, <2>1 DEF PairInv
  <2>3. (Modern(entry) /\ regime = "faults") =>
           /\ Describes(image, place', newer', entry)
           /\ (moved' = {} /\ ~entry.late) => Settled(image, place', entry)
    BY <1>5, <1>6, <2>1 DEF PairInv
  <2> QED BY <1>1, <1>6, <2>2, <2>3 DEF PairInv, Modern
<1>7. CASE phase # "linked"
  <2>1. (Same(place, place') /\ moved' = moved) \/ moved' # {}
    BY <1>3
  <2>2. Modern(entry) =>
           /\ Describes(image, place', newer', entry)
           /\ (moved' = {} /\ ~entry.late) => Settled(image, place', entry)
    BY <1>5, <1>7, <2>1 DEF PairInv
  <2> QED BY <1>1, <1>7, <2>2 DEF PairInv, Modern
<1> QED BY <1>6, <1>7

\* Nothing but newer inputs, fewer outputs or another request, between two calls.
LEMMA IdlePair ==
    ASSUME TypeInv, PairInv,
           \/ Recompile \/ ReplaceTool \/ Reconfigure \/ DeleteOutput \/ DamageEntry
           \/ ResolveFails \/ ReuseImage \/ Inspect
    PROVE  PairInv'
<1>1. /\ phase = "idle" /\ phase' # "linked" /\ UNCHANGED <<place, moved, regime>>
      /\ image' \in {image, NoImage} /\ entry' \in {entry, NoEntry} /\ newer \subseteq newer'
  BY DEF Recompile, ReplaceTool, Reconfigure, DeleteOutput, DamageEntry, ResolveFails, ReuseImage,
         Inspect, Ended, worldVars, diskVars, sealVars, callVars
<1> SUFFICES ASSUME image' # NoImage, ~image'.raced, Modern(entry')
    PROVE  /\ Describes(image, place, newer', entry)
           /\ (moved = {} /\ ~entry.late) => Settled(image, place, entry)
  BY <1>1 DEF PairInv, Modern
<1>2. image' = image /\ entry' = entry
  BY <1>1 DEF Modern
<1>3. /\ Describes(image, place, newer, entry)
      /\ (moved = {} /\ ~entry.late) => Settled(image, place, entry)
  BY <1>1, <1>2 DEF PairInv, Modern
<1>4. DOMAIN image.read \subseteq Paths /\ \A n \in Open(image.options) : n \in LibNames
  BY <1>2, OptionFacts DEF TypeInv
<1>5. Describes(image, place, newer', entry)
  BY <1>1, <1>3, <1>4, DescribesKept
<1> QED BY <1>3, <1>5

\* LINK reads its inputs.
LEMMA ReadPair == ASSUME PairInv, ReadInputs PROVE PairInv'
<1>1. /\ phase = "inspected" /\ phase' = phase
      /\ UNCHANGED <<place, moved, regime, image, newer, entry>>
  BY DEF ReadInputs, worldVars, diskVars, sealVars
<1> QED BY <1>1 DEF PairInv, Modern

\* The entry is saved, or the call ends without it.
LEMMA SealPair ==
    ASSUME TypeInv, PairInv, FaultInv, Save \/ SaveFails \/ Crash, regime \in {"edits", "faults"}
    PROVE  PairInv'
<1>1. UNCHANGED <<place, regime, image, newer>> /\ phase' = "idle"
  BY DEF Save, SaveFails, Crash, Ended, worldVars, diskVars
<1>2. CASE Save
  <2>1. /\ phase = "linked" /\ entry' = [plan.entry EXCEPT !.late = plan.late]
    BY <1>2 DEF Save
  <2>2. plan.entry \in Entries
    BY <2>1 DEF TypeInv, EntryOK
  <2>3. Alike(plan.entry, entry') /\ entry'.late = plan.late
    BY <2>1, <2>2 DEF Alike, Entries
  <2> SUFFICES ASSUME image # NoImage, ~image.raced
      PROVE  /\ Describes(image, place, newer, entry')
             /\ ~entry'.late => Settled(image, place, entry')
    BY <1>1 DEF PairInv, Modern
  <2>4. /\ Describes(image, place, newer, plan.entry)
        /\ ~plan.late => Settled(image, place, plan.entry)
    BY <2>1 DEF PairInv
  <2> QED BY <2>3, <2>4, AlikeEntries
<1>3. CASE SaveFails \/ Crash
  <2>1. /\ entry' \in {entry, NoEntry} /\ moved' = moved /\ regime = "faults"
    BY <1>3 DEF SaveFails, Crash
  <2> SUFFICES ASSUME image # NoImage, ~image.raced, Modern(entry')
      PROVE  /\ Describes(image, place, newer, entry)
             /\ (moved = {} /\ ~entry.late) => Settled(image, place, entry)
    BY <1>1, <2>1 DEF PairInv, Modern
  <2> QED BY <2>1 DEF PairInv, Modern
<1> QED BY <1>2, <1>3

\* What the image was made from can be told from the entry.
LEMMA PairStep ==
    TypeInv /\ PairInv /\ FaultInv /\ PlanInv /\ regime \in {"edits", "faults"} /\ Next => PairInv'
BY FilePair, IdlePair, ReadPair, RunLinkPair, LinkFailsPair, SealPair DEF Next

\* Where nothing appears or goes away, what fits stays fitting.
LEMMA SameFits ==
    ASSUME NEW pl, NEW ql, Same(pl, ql), NEW o \in OptionSets, NEW r \in 1 .. LinkEdits + 1,
           NEW t, NEW e, Fits(pl, o, r, t, e)
    PROVE  Fits(ql, o, r, t, e)
<1>1. /\ RouteIn(pl, o.requested) = RouteIn(ql, o.requested)
      /\ NamesIn(pl, o, r) = NamesIn(ql, o, r)
      /\ BasesIn(pl, o) = BasesIn(ql, o) /\ NamedIn(pl, o) = NamedIn(ql, o)
      /\ NamesIn(pl, o, r) \subseteq LibNames
  BY SameNames
<1>2. \A n \in LibNames : FindIn(pl, n) = FindIn(ql, n)
  BY SameSearch
<1>3. {FindIn(pl, n) : n \in NamesIn(pl, o, r)} = {FindIn(ql, n) : n \in NamesIn(ql, o, r)}
  BY <1>1, <1>2
<1>4. Holds(ql, o, r, e)
  BY <1>1, <1>3 DEF Fits, Holds
<1> QED BY <1>1, <1>4 DEF Fits

\* While only contents change, image and entries are those of the request.
LEMMA FaultStep == TypeInv /\ FaultInv /\ PlanInv /\ Next => FaultInv'
<1> SUFFICES ASSUME TypeInv, FaultInv, PlanInv, Next, regime = "faults" PROVE FaultInv'
  <2>1. Next => regime' = regime
    BY FileFacts DEF Next, PutFile, RemoveFile, Recompile, ReplaceTool, Reconfigure, DeleteOutput,
       DamageEntry, ResolveFails, ReuseImage, Inspect, ReadInputs, RunLink, LinkFails, Save,
       SaveFails, Crash
  <2> QED BY <2>1 DEF FaultInv
<1>1. /\ moved = {}
      /\ image # NoImage =>
            image.options = options /\ image.object = object /\ image.tool = tool
      /\ Modern(entry) => Fits(place, options, object, tool, entry) /\ ~entry.late
      /\ phase = "linked" => Fits(place, options, object, tool, plan.entry) /\ ~plan.late
  BY DEF FaultInv
<1>2. options \in OptionSets /\ object \in 1 .. LinkEdits + 1
  BY LibrariesAssumption DEF TypeInv
<1>3. Written.options = options /\ Written.object = object /\ Written.tool = tool
  BY DEF Written
<1>4. ASSUME NEW p \in Editable, PutFile(p) \/ RemoveFile(p) PROVE FaultInv'
  <2>1. /\ UNCHANGED <<regime, object, tool, options, image, entry, phase>>
        /\ Same(place, place') /\ moved' = moved /\ plan' = During(FALSE)
    BY <1>4, FileFacts
  <2>2. phase = "linked" => plan' = plan
    BY <2>1, DuringFacts
  <2>3. /\ Modern(entry) => Fits(place', options, object, tool, entry)
        /\ phase = "linked" => Fits(place', options, object, tool, plan.entry)
    BY <1>1, <1>2, <2>1, SameFits
  <2> QED BY <1>1, <2>1, <2>2, <2>3 DEF FaultInv, Modern
<1>5. CASE Recompile \/ ReplaceTool \/ Reconfigure
  BY <1>5 DEF Recompile, ReplaceTool, Reconfigure
<1>6. CASE \/ DeleteOutput \/ DamageEntry \/ ResolveFails \/ ReuseImage \/ Inspect \/ ReadInputs
           \/ Crash \/ SaveFails
  <2>1. /\ UNCHANGED <<place, object, tool, options, moved>> /\ phase' # "linked"
        /\ image' \in {image, NoImage} /\ entry' \in {entry, NoEntry}
    BY <1>6 DEF DeleteOutput, DamageEntry, ResolveFails, ReuseImage, Inspect, ReadInputs, Crash,
                SaveFails, Ended, worldVars, diskVars, sealVars, callVars
  <2> QED BY <1>1, <2>1 DEF FaultInv, Modern
<1>7. CASE RunLink
  <2> DEFINE e == [libraries |-> plan.libraries, files |-> Sealed, options |-> options,
                   tool |-> tool, late |-> FALSE,
                   sides |-> sides' \cap (Required \cup Optional \cup
                                 (IF options.dll THEN {"implib"} ELSE {}))]
  <2>1. /\ phase = "inspected" /\ plan.seen # NotRead /\ image' = Written
        /\ UNCHANGED <<place, object, tool, options, moved, entry>>
        /\ plan' = [plan EXCEPT !.entry = e]
    BY <1>7 DEF RunLink, worldVars, sealVars
  <2>2. e.libraries = plan.libraries /\ e.files = Sealed /\ e.options = options /\ e.tool = tool
    OBVIOUS
  <2> HIDE DEF e
  <2>3. PlanOK(plan) /\ plan'.entry = e /\ plan'.late = plan.late
    BY <2>1 DEF TypeInv, PlanOK, Plans
  <2>4. plan.libraries = RouteIn(place, options.requested) /\ ~plan.late
    BY <2>1 DEF PlanInv
  <2>5. Holds(place, options, object, e)
    BY <2>1, <2>2, SeenTraced, LinkExact, SealedHolds
  <2>6. Fits(place, options, object, tool, e)
    BY <2>2, <2>4, <2>5 DEF Fits
  <2> QED BY <1>1, <1>3, <2>1, <2>3, <2>4, <2>6 DEF FaultInv, Modern
<1>8. CASE LinkFails
  <2>1. /\ UNCHANGED <<place, object, tool, options, moved, entry>> /\ phase' # "linked"
        /\ image' \in {image, NoImage, Written}
    BY <1>8 DEF LinkFails, Ended, worldVars, sealVars
  <2> QED BY <1>1, <1>3, <2>1 DEF FaultInv, Modern
<1>9. CASE Save
  <2>1. /\ UNCHANGED <<place, object, tool, options, image>> /\ phase' # "linked"
        /\ phase = "linked" /\ entry' = [plan.entry EXCEPT !.late = plan.late] /\ moved' = {}
    BY <1>9 DEF Save, Ended, worldVars, diskVars
  <2>2. plan.entry \in Entries
    BY <2>1 DEF TypeInv, EntryOK
  <2>3. Alike(plan.entry, entry') /\ entry'.late = plan.late
    BY <2>1, <2>2 DEF Alike, Entries
  <2>4. Fits(place, options, object, tool, entry') /\ ~entry'.late
    BY <1>1, <2>1, <2>3, AlikeEntries
  <2> QED BY <1>1, <2>1, <2>4 DEF FaultInv
<1> QED BY <1>4, <1>5, <1>6, <1>7, <1>8, <1>9 DEF Next

-----------------------------------------------------------------------------
(* The validator, in terms of what is at the paths *)

LookedUp(pl, mv, p) == IF mv # {} /\ FoundIn(pl, p[2]) THEN FindIn(pl, p[2]) ELSE p
KnownIn(pl, o) == ToSet(DeclaredIn(pl, o)) \cup ToSet(RouteIn(pl, o.requested))
RememberedIn(pl, o, mv, e) ==
    LET kept == Kept(e.files, LibPaths \ KnownIn(pl, o))
    IN  [i \in DOMAIN kept |-> LookedUp(pl, mv, kept[i])]
FileInputsIn(pl, o, mv, e) == AppendUnique(DeclaredIn(pl, o), RememberedIn(pl, o, mv, e))

\* LinkReusable, of an entry that there is.
ReusableIn(img, pl, nw, mv, o, t, e, sd) ==
    /\ img # NoImage
    /\ e.options = o /\ e.tool = t
    /\ e.libraries = RouteIn(pl, o.requested) /\ e.files = FileInputsIn(pl, o, mv, e)
    /\ \A p \in ToSet(e.libraries) \cup ToSet(e.files) : FreshIn(pl, nw, p)
    /\ Object \notin nw
    /\ e.sides \subseteq sd
    /\ RequiredBy(o) \cup (sd \cap OptionalBy(o)) \subseteq e.sides

\* The validator looks at what is at the paths now.
LEMMA ReuseViews ==
    /\ FileInputs = IF entry = NoEntry THEN Declared
                    ELSE FileInputsIn(place, options, moved, entry)
    /\ \A p : Fresh(p) = FreshIn(place, newer, p)
    /\ LinkReusable <=> /\ entry # NoEntry
                        /\ ReusableIn(image, place, newer, moved, options, tool, entry, sides)
<1>1. /\ Remembered = RememberedIn(place, options, moved, entry)
  BY Views DEF Remembered, RememberedIn, KnownIn, Refreshed, LookedUp, LibPaths
<1>2. FileInputs = IF entry = NoEntry THEN Declared
                   ELSE FileInputsIn(place, options, moved, entry)
  BY <1>1, Views DEF FileInputs, FileInputsIn
<1>3. \A p : Fresh(p) = FreshIn(place, newer, p)
  BY DEF Fresh, FreshIn
<1>4. Required = RequiredBy(options) /\ Optional = OptionalBy(options)
  BY DEF Required, RequiredBy, Optional, OptionalBy
<1>5. LinkReusable <=> /\ entry # NoEntry
                       /\ ReusableIn(image, place, newer, moved, options, tool, entry, sides)
  <2>1. CASE entry = NoEntry
    BY <2>1 DEF LinkReusable
  <2>2. CASE entry # NoEntry
    <3>1. /\ LibrariesChanged <=> \/ entry.libraries # Libraries
                                  \/ \E p \in ToSet(Libraries) : ~FreshIn(place, newer, p)
          /\ FilesChanged <=> \/ entry.files # FileInputs
                              \/ \E p \in ToSet(FileInputs) : ~FreshIn(place, newer, p)
      BY <2>2, <1>3 DEF LibrariesChanged, FilesChanged
    <3>2. /\ ~LibrariesChanged /\ ~FilesChanged <=>
                /\ entry.libraries = Libraries /\ entry.files = FileInputs
                /\ \A p \in ToSet(entry.libraries) \cup ToSet(entry.files) :
                      FreshIn(place, newer, p)
      BY <3>1
    <3>3. Libraries = RouteIn(place, options.requested)
      BY Views
    <3> QED BY <2>2, <3>2, <3>3, <1>2, <1>4 DEF LinkReusable, ReusableIn, SameIdentity
  <2> QED BY <2>1, <2>2
<1> QED BY <1>2, <1>3, <1>5

\* The same of the next state.
LEMMA ReuseNextViews ==
    /\ FileInputs' = IF entry' = NoEntry THEN Declared'
                    ELSE FileInputsIn(place', options', moved', entry')
    /\ \A p : Fresh(p)' = FreshIn(place', newer', p)
    /\ LinkReusable' <=> /\ entry' # NoEntry
                        /\ ReusableIn(image', place', newer', moved', options', tool', entry', sides')
<1>1. /\ Remembered' = RememberedIn(place', options', moved', entry')
  BY NextViews DEF Remembered, RememberedIn, KnownIn, Refreshed, LookedUp, LibPaths
<1>2. FileInputs' = IF entry' = NoEntry THEN Declared'
                   ELSE FileInputsIn(place', options', moved', entry')
  BY <1>1, NextViews DEF FileInputs, FileInputsIn
<1>3. \A p : Fresh(p)' = FreshIn(place', newer', p)
  BY DEF Fresh, FreshIn
<1>4. Required' = RequiredBy(options') /\ Optional' = OptionalBy(options')
  BY DEF Required, RequiredBy, Optional, OptionalBy
<1>5. LinkReusable' <=> /\ entry' # NoEntry
                       /\ ReusableIn(image', place', newer', moved', options', tool', entry', sides')
  <2>1. CASE entry' = NoEntry
    BY <2>1 DEF LinkReusable
  <2>2. CASE entry' # NoEntry
    <3>1. /\ LibrariesChanged' <=> \/ entry'.libraries # Libraries'
                                  \/ \E p \in ToSet(Libraries') : ~FreshIn(place', newer', p)
          /\ FilesChanged' <=> \/ entry'.files # FileInputs'
                              \/ \E p \in ToSet(FileInputs') : ~FreshIn(place', newer', p)
      BY <2>2, <1>3 DEF LibrariesChanged, FilesChanged
    <3>2. /\ ~LibrariesChanged' /\ ~FilesChanged' <=>
                /\ entry'.libraries = Libraries' /\ entry'.files = FileInputs'
                /\ \A p \in ToSet(entry'.libraries) \cup ToSet(entry'.files) :
                      FreshIn(place', newer', p)
      BY <3>1
    <3>3. Libraries' = RouteIn(place', options'.requested)
      BY NextViews
    <3> QED BY <2>2, <3>2, <3>3, <1>2, <1>4 DEF LinkReusable, ReusableIn, SameIdentity
  <2> QED BY <2>1, <2>2
<1> QED BY <1>2, <1>3, <1>5

\* What an entry makes a call look at.
LEMMA ObservedFacts ==
    ASSUME NEW o \in OptionSets, NEW pl, NEW mv, NEW e, EntryOK(e),
           \A f \in BaseFiles(o.args) : f[1] # 0 => BaseFoundIn(pl, f)
    PROVE  /\ ToSet(RememberedIn(pl, o, mv, e))
                = {LookedUp(pl, mv, p) : p \in (ToSet(e.files) \cap LibPaths) \ KnownIn(pl, o)}
           /\ RememberedIn(pl, o, mv, e) \in Seq(Files)
           /\ FileInputsIn(pl, o, mv, e) \in Seq(Files)
           /\ ToSet(FileInputsIn(pl, o, mv, e))
                = ToSet(DeclaredIn(pl, o)) \cup ToSet(RememberedIn(pl, o, mv, e))
<1> DEFINE S == LibPaths \ KnownIn(pl, o)
           k == Kept(e.files, S)
           r == RememberedIn(pl, o, mv, e)
           d == DeclaredIn(pl, o)
<1>1. e.files \in Seq(Files)
  BY DEF EntryOK, Entries
<1>2. k \in Seq(Files) /\ ToSet(k) = ToSet(e.files) \cap S
  <2> HIDE DEF S
  <2> QED BY <1>1, KeptFacts
<1>3. r = [i \in DOMAIN k |-> LookedUp(pl, mv, k[i])]
  BY DEF RememberedIn
<1> HIDE DEF k, r
<1>4. \A p \in LibPaths : LookedUp(pl, mv, p) \in LibPaths
  BY FindFacts, PathFacts DEF LookedUp
<1>5. \A i \in DOMAIN k : k[i] \in LibPaths
  BY <1>2 DEF ToSet
<1>6. r \in Seq(Files)
  <2>1. Len(k) \in Nat /\ DOMAIN k = 1 .. Len(k)
    BY <1>2, LenProperties
  <2>2. \A i \in DOMAIN k : LookedUp(pl, mv, k[i]) \in Files
    BY <1>4, <1>5, PathFacts DEF Files
  <2>3. r \in [1 .. Len(k) -> Files]
    BY <1>3, <2>1, <2>2
  <2> QED BY <2>1, <2>3
<1>7. ToSet(r) = {LookedUp(pl, mv, p) : p \in ToSet(k)}
  BY <1>3 DEF ToSet
<1>8. d \in Seq(Files)
  BY DeclaredFacts
<1>9. FileInputsIn(pl, o, mv, e) = AppendUnique(d, r)
  BY DEF FileInputsIn, r
<1>10. AppendUnique(d, r) \in Seq(Files) /\ ToSet(AppendUnique(d, r)) = ToSet(d) \cup ToSet(r)
  <2> HIDE DEF d
  <2> QED BY <1>6, <1>8, UniqueFacts
<1>11. ToSet(e.files) \cap S = (ToSet(e.files) \cap LibPaths) \ KnownIn(pl, o)
  OBVIOUS
<1> HIDE DEF d, S
<1> QED BY <1>2, <1>6, <1>7, <1>9, <1>10, <1>11 DEF r, d

\* The plan is of the files there are, or knows that it is not.
LEMMA PlanStep == TypeInv /\ PlanInv /\ Next => PlanInv'
<1> SUFFICES ASSUME TypeInv, PlanInv, Next, phase' = "inspected" PROVE PlanInv'
  BY DEF PlanInv
<1>1. options \in OptionSets
  BY DEF TypeInv
<1>2. ASSUME NEW p \in Editable, PutFile(p) \/ RemoveFile(p) PROVE PlanInv'
  <2>1. /\ quiet' = FALSE /\ UNCHANGED <<regime, options, phase, image, entry>>
        /\ \/ Same(place, place') /\ plan' = During(FALSE)
           \/ regime # "faults" /\ plan' = During(TRUE)
    BY <1>2, FileFacts
  <2>2. /\ plan'.raced /\ plan'.late = plan.late
        /\ plan'.libraries = plan.libraries /\ plan'.declared = plan.declared
        /\ plan'.seen = plan.seen
    BY <2>1, DuringFacts
  <2>3. ASSUME regime = "faults"
        PROVE  /\ RouteIn(place', options.requested) = RouteIn(place, options.requested)
               /\ DeclaredIn(place', options) = DeclaredIn(place, options)
               /\ \A n \in NeededBy(options) : FoundIn(place', n) = FoundIn(place, n)
    <3>1. Same(place, place') /\ 1 \in 1 .. LinkEdits + 1
      BY <2>1, <2>3, LibrariesAssumption
    <3>2. NeededBy(options) \subseteq LibNames
      BY <1>1, OptionFacts
    <3> QED BY <1>1, <3>1, <3>2, SameNames, SameSearch
  <2>4. ASSUME regime = "faults", LinkableIn(place, options, object, plan.libraries)
        PROVE  /\ LinkableIn(place', options, object, plan.libraries)
               /\ SelfIn(place', options, object, plan.libraries)
                    = SelfIn(place, options, object, plan.libraries)
    <3>1. \A q \in Paths : place[q] # 0 <=> place'[q] # 0
      BY <1>2, <2>4, FileFacts
    <3>2. object \in 1 .. LinkEdits + 1
      BY LibrariesAssumption DEF TypeInv
    <3>3. plan.libraries \in Seq(LibPaths)
      BY <2>1 DEF TypeInv, PlanOK, Plans
    <3> QED BY <1>1, <2>4, <3>1, <3>2, <3>3, SameSeen
  <2>5. object' = object
    BY <1>2, FileFacts
  <2> QED BY <2>1, <2>2, <2>3, <2>4, <2>5 DEF PlanInv
<1>3. CASE Inspect
  <2>1. /\ plan' = [libraries |-> Libraries, declared |-> Declared, full |-> FullLink,
                    seen |-> NotRead, entry |-> NoEntry, raced |-> FALSE, late |-> FALSE]
        /\ UNCHANGED <<place, options, image, newer, entry>> /\ Inspectable
    BY <1>3 DEF Inspect, worldVars, diskVars, sealVars
  <2>2. /\ plan'.libraries = RouteIn(place, options.requested)
        /\ plan'.declared = DeclaredIn(place, options)
        /\ plan'.full = FullLink /\ ~plan'.raced /\ ~plan'.late /\ plan'.seen = NotRead
    BY <2>1, Views
  <2>3. /\ \A n \in NeededBy(options) : FoundIn(place, n)
        /\ \A f \in BaseFiles(options.args) : f[1] # 0 => BaseFoundIn(place, f)
    BY <2>1, Views DEF Inspectable
  <2>4. Given(options) \cup {Tool} \subseteq ToSet(DeclaredIn(place, options))
    BY <1>1, <2>3, DeclaredFacts, BaseFacts
  <2>5. ASSUME ~FullLink, image # NoImage
        PROVE  /\ Modern(entry)
               /\ \A p \in ToSet(entry.libraries) \cup ToSet(entry.files) : FreshIn(place, newer, p)
    <3>1. ~LibrariesChanged /\ ~FilesChanged
      BY <2>5 DEF FullLink
    <3>2. entry # NoEntry
      BY <2>5, <3>1 DEF FilesChanged
    <3>3. /\ entry.libraries = Libraries /\ entry.files = FileInputs
          /\ \A p \in ToSet(entry.libraries) \cup ToSet(entry.files) : Fresh(p)
      BY <3>1, <3>2 DEF LibrariesChanged, FilesChanged
    <3>4. EntryOK(entry)
      BY <3>2 DEF TypeInv
    <3>5. ToSet(DeclaredIn(place, options)) \subseteq ToSet(entry.files)
      BY <1>1, <2>3, <3>2, <3>3, <3>4, ReuseViews, ObservedFacts
    <3> QED BY <2>4, <3>2, <3>3, <3>5, ReuseViews DEF Modern
  <2> QED BY <2>1, <2>2, <2>3, <2>4, <2>5 DEF PlanInv
<1>4. CASE \/ Recompile \/ ReplaceTool \/ Reconfigure \/ DeleteOutput \/ DamageEntry
           \/ ResolveFails \/ ReuseImage \/ RunLink \/ LinkFails \/ Save \/ SaveFails \/ Crash
  <2>1. phase' # "inspected"
    BY <1>4 DEF Recompile, ReplaceTool, Reconfigure, DeleteOutput, DamageEntry, ResolveFails,
                ReuseImage, RunLink, LinkFails, Save, SaveFails, Crash, Ended, callVars
  <2> QED BY <2>1
<1>5. CASE ReadInputs
  <2>1. /\ phase = "inspected" /\ Linkable /\ plan' = [plan EXCEPT !.seen = Seen]
        /\ UNCHANGED <<regime, place, object, options, image, newer, entry, quiet>>
    BY <1>5 DEF ReadInputs, worldVars, diskVars, sealVars
  <2>2. PlanOK(plan)
    BY <2>1 DEF TypeInv
  <2>3. /\ plan'.libraries = plan.libraries /\ plan'.declared = plan.declared
        /\ plan'.full = plan.full /\ plan'.raced = plan.raced /\ plan'.late = plan.late
        /\ plan'.seen = Seen
    BY <2>1, <2>2 DEF PlanOK, Plans
  <2>4. /\ LinkableIn(place, options, object, plan.libraries)
        /\ Seen = SeenIn(place, options, object, plan.libraries)
    BY <2>1, SeenViews
  <2>5. Seen.named = SelfIn(place, options, object, plan.libraries)
    BY <2>4 DEF SeenIn
  <2> QED BY <2>1, <2>3, <2>4, <2>5 DEF PlanInv, Modern
<1> QED BY <1>2, <1>3, <1>4, <1>5 DEF Next

\* What RunLink does in an undisturbed call.
LEMMA QuietRun ==
    ASSUME TypeInv, PlanInv, RunLink, quiet'
    PROVE  /\ phase = "inspected" /\ Traced /\ Linkable /\ image' = Written /\ newer' = {}
           /\ UNCHANGED <<regime, place, object, tool, options, entry, moved>>
           /\ plan.libraries = RouteIn(place, options.requested)
           /\ plan.declared = DeclaredIn(place, options)
           /\ \A n \in NeededBy(options) : FoundIn(place, n)
           /\ RequiredBy(options) \subseteq sides'
           /\ plan'.entry.libraries = plan.libraries /\ plan'.entry.files = Sealed
           /\ plan'.entry.options = options /\ plan'.entry.tool = tool
           /\ plan'.entry.sides \subseteq sides'
           /\ RequiredBy(options) \cup (sides' \cap OptionalBy(options)) \subseteq plan'.entry.sides
<1> DEFINE brought == IF options.dll THEN {"implib"} ELSE {}
           e == [libraries |-> plan.libraries, files |-> Sealed, options |-> options,
                 tool |-> tool, late |-> FALSE,
                 sides |-> sides' \cap (Required \cup Optional \cup brought)]
<1>1. /\ phase = "inspected" /\ plan.seen # NotRead /\ image' = Written /\ newer' = {}
      /\ UNCHANGED <<regime, place, object, tool, options, entry, moved>>
      /\ quiet /\ plan' = [plan EXCEPT !.entry = e]
  BY DEF RunLink, worldVars, sealVars
<1>2. /\ plan.libraries = RouteIn(place, options.requested)
      /\ plan.declared = DeclaredIn(place, options)
      /\ \A n \in NeededBy(options) : FoundIn(place, n)
  BY <1>1 DEF PlanInv
<1>3. PICK more : sides' = sides \cup Required \cup more
  BY DEF RunLink
<1>4. Required = RequiredBy(options) /\ Optional = OptionalBy(options)
  BY DEF Required, RequiredBy, Optional, OptionalBy
<1>5. /\ e.libraries = plan.libraries /\ e.files = Sealed /\ e.options = options /\ e.tool = tool
      /\ e.sides = sides' \cap (RequiredBy(options) \cup OptionalBy(options) \cup brought)
  BY <1>4
<1> HIDE DEF e, brought
<1>6. plan'.entry = e
  BY <1>1 DEF TypeInv, PlanOK, Plans
<1>7. Traced /\ Linkable
  BY <1>1, SeenTraced DEF Traced
<1> QED BY <1>1, <1>2, <1>3, <1>4, <1>5, <1>6, <1>7

\* Only RunLink reaches the state between LINK and the save without a disturbance.
LEMMA OnlyRun ==
    ASSUME TypeInv, Next, phase' = "linked", quiet'
    PROVE  RunLink
<1>1. ASSUME NEW p \in Editable, PutFile(p) \/ RemoveFile(p) PROVE FALSE
  BY <1>1, FileFacts
<1>2. CASE \/ Recompile \/ ReplaceTool \/ Reconfigure \/ DeleteOutput \/ DamageEntry
           \/ ResolveFails \/ ReuseImage \/ Inspect \/ ReadInputs \/ LinkFails
           \/ Save \/ SaveFails \/ Crash
  BY <1>2 DEF Recompile, ReplaceTool, Reconfigure, DeleteOutput, DamageEntry, ResolveFails,
              ReuseImage, Inspect, ReadInputs, LinkFails, Save, SaveFails, Crash, Ended, callVars
<1> QED BY <1>1, <1>2 DEF Next

\* An undisturbed LINK leaves an image of what is there.
LEMMA LinkedStep == TypeInv /\ PairInv /\ PlanInv /\ Next => LinkedInv'
<1> SUFFICES ASSUME TypeInv, PairInv, PlanInv, Next, phase' = "linked", quiet'
    PROVE  LinkedInv'
  BY DEF LinkedInv
<1>1. RunLink
  BY OnlyRun
<1>2. /\ phase = "inspected" /\ Linkable /\ image' = Written
      /\ UNCHANGED <<place, object, tool, options>>
      /\ plan.libraries = RouteIn(place, options.requested)
      /\ \A n \in NeededBy(options) : FoundIn(place, n)
      /\ RequiredBy(options) \subseteq sides'
  BY <1>1, QuietRun
<1>3. options \in OptionSets
  BY DEF TypeInv
<1>4. ASSUME ~Written.raced PROVE CurrentIn(Written, place, options, object, tool)
  <2> DEFINE N == NamesIn(place, options, object)
             R == options.requested
  <2>1. /\ \A n \in N : FoundIn(place, n)
        /\ Inputs = ToSet(plan.libraries) \cup {FindIn(place, n) : n \in N}
                       \cup NamedIn(place, options)
        /\ DOMAIN Written.read = Inputs
    BY <1>2, <1>4, InputFacts, Untorn
  <2>2. \A n \in R : n \in LibNames /\ FoundIn(place, n)
    BY <1>2, <1>3, OptionFacts DEF NeededBy
  <2>3. ToSet(plan.libraries) = {FindIn(place, n) : n \in R}
    <3>1. ToSet(plan.libraries)
             = {FindIn(place, n) : n \in {m \in R \cap LibNames : FoundIn(place, m)}}
      BY <1>2, RouteFacts
    <3>2. {m \in R \cap LibNames : FoundIn(place, m)} = R
      BY <2>2
    <3> QED BY <3>1, <3>2
  <2>4. \A p \in Inputs : Written.read[p] = place[p]
    BY <1>2, <1>4, ReadsCurrent
  <2>5. /\ Written.object = object /\ Written.tool = tool /\ Written.options = options
        /\ Written # NoImage
    BY RecordFacts DEF Written
  <2>6. Inputs = {FindIn(place, n) : n \in R \cup N} \cup NamedIn(place, options)
    BY <2>1, <2>3
  <2> HIDE DEF N, R
  <2> QED BY <2>1, <2>2, <2>4, <2>5, <2>6 DEF CurrentIn, N, R
<1>5. Written # NoImage
  BY RecordFacts
<1> QED BY <1>2, <1>4, <1>5 DEF LinkedInv

\* Its entry seals what LINK read, as it is.
LEMMA WarmStep == TypeInv /\ PlanInv /\ Next => WarmInv'
<1> SUFFICES ASSUME TypeInv, PlanInv, Next, phase' = "linked", quiet'
    PROVE  WarmInv'
  BY DEF WarmInv
<1>1. RunLink
  BY OnlyRun
<1> DEFINE e == plan'.entry
           S == SealedNames
<1>2. /\ phase = "inspected" /\ Traced /\ Linkable /\ image' = Written /\ newer' = {}
      /\ UNCHANGED <<place, object, tool, options>>
      /\ plan.libraries = RouteIn(place, options.requested)
      /\ plan.declared = DeclaredIn(place, options)
      /\ e.libraries = plan.libraries /\ e.files = Sealed
      /\ e.options = options /\ e.tool = tool
      /\ e.sides \subseteq sides'
      /\ RequiredBy(options) \cup (sides' \cap OptionalBy(options)) \subseteq e.sides
  BY <1>1, QuietRun
<1>3. options \in OptionSets
  BY DEF TypeInv
<1>4. /\ \A p \in Inputs : place[p] # 0
      /\ ToSet(plan.libraries) \cup NamedIn(place, options) \subseteq Inputs
      /\ \A n \in NamesIn(place, options, object) : n \in LibNames /\ FoundIn(place, n)
      /\ \A f \in BaseFiles(options.args) : BaseFoundIn(place, f)
  BY <1>2, InputFacts
<1>5. Sealed = AppendUnique(DeclaredIn(place, options), RouteIn(place, S))
  BY <1>2, SealedFacts
<1>6. ToSet(Sealed) = ToSet(DeclaredIn(place, options)) \cup ToSet(RouteIn(place, S))
  BY <1>2, SealedFacts
<1>7. S \subseteq LibNames /\ \A n \in S : FindIn(place, n) \notin ToSet(plan.libraries)
  BY <1>4, Views DEF SealedNames
<1> HIDE DEF S
<1>8. ToSet(RouteIn(place, S))
         = {FindIn(place, n) : n \in {m \in S \cap LibNames : FoundIn(place, m)}}
  BY RouteFacts
<1>9. ToSet(RouteIn(place, S)) \cap ToSet(plan.libraries) = {}
  BY <1>7, <1>8
<1>10. \A p \in ToSet(RouteIn(place, S)) : place[p] # 0
  BY <1>8, FindFacts
<1>11. ASSUME NEW p \in ToSet(DeclaredIn(place, options)) PROVE p = Tool \/ place[p] # 0
  <2> DEFINE D == DefaultLibraries(options.args) \cup WholeArchives(options.args)
                     \cup Sanitized(options) \cup Open(options)
  <2>1. D \subseteq LibNames
    BY <1>3, OptionFacts
  <2>2. \/ p \in NamedIn(place, options) \cup {Tool}
        \/ \E n \in D : FoundIn(place, n) /\ p = FindIn(place, n)
    BY <1>3, <1>4, DeclaredFacts
  <2> HIDE DEF D
  <2> QED BY <1>4, <2>1, <2>2, FindFacts
<1>12. \A p \in ToSet(e.libraries) \cup ToSet(e.files) : p = Tool \/ place[p] # 0
  BY <1>2, <1>4, <1>6, <1>10, <1>11
<1> HIDE DEF e
<1>13. /\ e.options = options' /\ e.tool = tool'
       /\ image' # NoImage /\ newer' = {} /\ e.libraries = RouteIn(place', options'.requested)
       /\ \A p \in ToSet(e.libraries) \cup ToSet(e.files) : p = Tool \/ place'[p] # 0
       /\ \A f \in BaseFiles(options'.args) : BaseFoundIn(place', f)
  BY <1>2, <1>4, <1>12, RecordFacts
<1>14. \E T \in SUBSET LibNames :
          /\ e.files = AppendUnique(DeclaredIn(place', options'), RouteIn(place', T))
          /\ ToSet(RouteIn(place', T)) \cap ToSet(e.libraries) = {}
  BY <1>2, <1>5, <1>7, <1>9
<1>15. /\ e.sides \subseteq sides'
       /\ RequiredBy(options') \cup (sides' \cap OptionalBy(options')) \subseteq e.sides
  BY <1>2
<1> QED BY <1>13, <1>14, <1>15 DEF WarmInv, e

-----------------------------------------------------------------------------
(* Reuse: an image whose entry has nothing against it is of what is there *)

\* An image that inspect_link reuses was made from what LINK would find now: every library is
\* found where it was read, and none of them has changed.
LEMMA ReusedCurrent ==
    ASSUME TypeInv, AgeInv, PairInv, phase = "idle", Inspectable, LinkReusable,
           ~image.raced, ~entry.late
    PROVE  CurrentIn(image, place, options, object, tool)
<1> DEFINE e == entry
           D == ToSet(DeclaredIn(place, options))
           R == RouteIn(place, options.requested)
           N == NamesIn(place, options, object)
           read == DOMAIN image.read
<1>1. options \in OptionSets /\ object \in 1 .. LinkEdits + 1
  BY LibrariesAssumption DEF TypeInv
<1>2. /\ image # NoImage /\ e # NoEntry
      /\ e.options = options /\ e.tool = tool
      /\ e.libraries = R /\ e.files = FileInputsIn(place, options, moved, e)
      /\ \A p \in ToSet(e.libraries) \cup ToSet(e.files) : FreshIn(place, newer, p)
      /\ Object \notin newer
  BY ReuseViews DEF ReusableIn
<1>3. /\ \A n \in NeededBy(options) : FoundIn(place, n)
      /\ \A f \in BaseFiles(options.args) : f[1] # 0 => BaseFoundIn(place, f)
  BY Views DEF Inspectable
<1>4. EntryOK(e) /\ read \subseteq Paths
  BY <1>2 DEF TypeInv
<1>5. ToSet(e.files) =
         D \cup {LookedUp(place, moved, q) :
                   q \in (ToSet(e.files) \cap LibPaths) \ (D \cup ToSet(R))}
  BY <1>1, <1>2, <1>3, <1>4, ObservedFacts DEF KnownIn
<1>6. D = NamedIn(place, options) \cup {Tool}
            \cup {FindIn(place, n) : n \in
                    {m \in DefaultLibraries(options.args) \cup WholeArchives(options.args)
                               \cup Sanitized(options) \cup Open(options) : FoundIn(place, m)}}
  BY <1>1, <1>3, DeclaredFacts
<1>7. /\ Describes(image, place, newer, e)
      /\ moved = {} => Settled(image, place, e)
  <2>1. Modern(e)
    BY <1>2, <1>5, <1>6 DEF Modern
  <2> QED BY <1>2, <2>1 DEF PairInv
<1>8. image.options = options /\ image.object = object /\ image.tool = tool
  BY <1>2, <1>7 DEF AgeInv, Describes
<1>9. /\ read \subseteq ToSet(e.libraries) \cup ToSet(e.files)
      /\ ToSet(e.libraries) \cup Given(options) \subseteq read
      /\ \A n \in BaseNames(options) :
            /\ Called(read, n) = Called(ToSet(e.files), n)
            /\ \A p, q \in Called(ToSet(e.files), n) : p = q
      /\ \A n \in ByNames(options, object) : Called(read, n) # {}
      /\ \A n \in Open(options) : Called(read, n) # {} \/ Hidden(place, newer, n)
      /\ \A p \in read :
            \/ p \in Given(options) \cup ToSet(e.libraries)
            \/ p \in LibPaths /\ p[2] \in ByNames(options, object) \cup Open(options)
                                           \cup BaseNames(options)
      /\ \A p \in read : p \notin newer /\ place[p] # 0 => image.read[p] = place[p]
  BY <1>7, <1>8 DEF Describes, ImageNames
<1>10. /\ BasesIn(place, options) \subseteq Paths
       /\ \A p \in BasesIn(place, options) : p[1] = 0 => p \in Given(options)
       /\ \A p \in BasesIn(place, options) :
             p[1] # 0 => p \in LibPaths /\ p[2] \in BaseNames(options)
       /\ \A n \in BaseNames(options) :
             \E p \in BasesIn(place, options) : p \in LibPaths /\ p[2] = n
       /\ Given(options) \subseteq NamedIn(place, options)
  BY <1>1, <1>3, BaseFacts
<1>11. \A p \in read : p \notin newer /\ place[p] # 0
  BY <1>2, <1>4, <1>9, PathFacts DEF FreshIn
<1>12. ToSet(R) = {FindIn(place, n) : n \in options.requested}
  <2>1. ToSet(R) = {FindIn(place, n) : n \in {m \in options.requested \cap LibNames : FoundIn(place, m)}}
    BY RouteFacts
  <2>2. \A n \in options.requested : n \in LibNames /\ FoundIn(place, n)
    BY <1>1, <1>3, OptionFacts DEF NeededBy
  <2>3. {m \in options.requested \cap LibNames : FoundIn(place, m)} = options.requested
    BY <2>2
  <2> QED BY <2>1, <2>3
<1>13. \A n \in options.requested : n \in LibNames /\ FoundIn(place, n)
  BY <1>1, <1>3, OptionFacts DEF NeededBy
<1>14. \A p \in LibPaths : p \notin Given(options) /\ p # Tool /\ p[1] # 0
  BY <1>1, OptionFacts, PathFacts
<1>15. ASSUME NEW p \in D, p \in LibPaths, p[2] \notin BaseNames(options)
       PROVE  FoundIn(place, p[2]) /\ p = FindIn(place, p[2])
  <2>1. p \notin NamedIn(place, options)
    BY <1>10, <1>14, <1>15 DEF NamedIn, Given
  <2>2. PICK n \in DefaultLibraries(options.args) \cup WholeArchives(options.args)
                     \cup Sanitized(options) \cup Open(options) :
                FoundIn(place, n) /\ p = FindIn(place, n)
    BY <1>6, <1>14, <1>15, <2>1
  <2>3. n \in LibNames
    BY <1>1, OptionFacts
  <2> QED BY <2>2, <2>3, FindFacts
<1>16. ASSUME NEW p \in ToSet(R) PROVE FoundIn(place, p[2]) /\ p = FindIn(place, p[2])
  BY <1>12, <1>13, FindFacts
<1>17. ASSUME NEW p \in read, p \in LibPaths, p[2] \notin BaseNames(options)
       PROVE  FoundIn(place, p[2]) /\ p = FindIn(place, p[2])
  <2>1. FoundIn(place, p[2])
    BY <1>11, <1>17, ThereFound
  <2>2. CASE p \in D \cup ToSet(R)
    BY <1>15, <1>16, <1>17, <2>2
  <2>3. CASE p \notin D \cup ToSet(R)
    <3>1. CASE moved = {}
      BY <1>2, <1>7, <1>8, <1>14, <1>17, <2>3, <3>1 DEF Settled
    <3>2. CASE moved # {}
      <4>1. PICK q \in ToSet(e.files) \cap LibPaths : p = LookedUp(place, moved, q)
        BY <1>2, <1>5, <1>9, <1>17, <2>3
      <4>2. CASE FoundIn(place, q[2])
        <5>1. q[2] \in LibNames /\ p = FindIn(place, q[2])
          BY <3>2, <4>1, <4>2, PathFacts DEF LookedUp
        <5> QED BY <4>2, <5>1, FindFacts
      <4>3. CASE ~FoundIn(place, q[2])
        <5>1. p = q
          BY <4>1, <4>3 DEF LookedUp
        <5> QED BY <2>1, <4>3, <5>1
      <4> QED BY <4>2, <4>3
    <3> QED BY <3>1, <3>2
  <2> QED BY <2>2, <2>3
<1>18. ASSUME NEW n, n \notin BaseNames(options), Called(read, n) # {}
       PROVE  FoundIn(place, n) /\ FindIn(place, n) \in read
  <2>1. PICK p \in read : p \in LibPaths /\ p[2] = n
    BY <1>18 DEF Called
  <2> QED BY <1>17, <1>18, <2>1
<1>19. \A n \in ByNames(options, object) : FoundIn(place, n) /\ FindIn(place, n) \in read
  BY <1>1, <1>9, <1>18, NameFacts
<1>20. ASSUME NEW n \in Open(options), FoundIn(place, n) PROVE FindIn(place, n) \in read
  <2>1. n \in LibNames /\ n \notin BaseNames(options)
    BY <1>1, OptionFacts
  <2>2. FindIn(place, n) \in LibPaths /\ FindIn(place, n)[2] = n
    BY <1>20, <2>1, FindFacts
  <2>3. FindIn(place, n) \notin newer /\ place[FindIn(place, n)] # 0
    <3>1. FindIn(place, n) \in D
      BY <1>6, <1>20
    <3> QED BY <1>2, <1>5, <1>14, <2>2, <3>1 DEF FreshIn
  <2>4. ~Hidden(place, newer, n)
    <3>1. FindIn(place, n)[1] \in Dirs /\ FindIn(place, n) = <<FindIn(place, n)[1], n>>
      BY <2>2, PathFacts
    <3> QED BY <2>3, <3>1 DEF Hidden
  <2> QED BY <1>9, <1>18, <2>1, <2>4
<1>21. \A n \in options.requested : FindIn(place, n) \in read
  BY <1>2, <1>9, <1>12
<1>22. \A n \in options.requested \cup N : FoundIn(place, n) /\ FindIn(place, n) \in read
  BY <1>13, <1>19, <1>20, <1>21 DEF NamesIn
<1>23. ASSUME NEW b \in BasesIn(place, options), b[1] # 0
       PROVE  /\ b[2] \in BaseNames(options) /\ b \in Called(ToSet(e.files), b[2])
              /\ b \in read
  <2>1. b \in LibPaths /\ b[2] \in BaseNames(options)
    BY <1>10, <1>23
  <2>2. b \in ToSet(e.files)
    BY <1>5, <1>6 DEF NamedIn
  <2>3. b \in Called(ToSet(e.files), b[2])
    BY <2>1, <2>2 DEF Called
  <2>4. b \in Called(read, b[2])
    BY <1>9, <2>1, <2>3
  <2> QED BY <2>1, <2>3, <2>4 DEF Called
<1>24. NamedIn(place, options) \subseteq read
  BY <1>9, <1>10, <1>23 DEF NamedIn, Given
<1>25. ASSUME NEW p \in read
       PROVE  p \in {FindIn(place, n) : n \in options.requested \cup N} \cup NamedIn(place, options)
  <2>1. CASE p \in Given(options) \cup ToSet(e.libraries)
    BY <1>2, <1>10, <1>12, <2>1
  <2>2. CASE p \in LibPaths /\ p[2] \in BaseNames(options)
    <3>1. PICK b \in BasesIn(place, options) : b \in LibPaths /\ b[2] = p[2]
      BY <1>10, <2>2
    <3>2. b \in Called(ToSet(e.files), p[2])
      BY <1>14, <1>23, <3>1
    <3>3. p \in Called(ToSet(e.files), p[2])
      BY <1>9, <2>2 DEF Called
    <3>4. p = b
      BY <1>9, <2>2, <3>2, <3>3
    <3> QED BY <3>4 DEF NamedIn
  <2>3. CASE /\ p \in LibPaths /\ p[2] \notin BaseNames(options)
             /\ p[2] \in ByNames(options, object) \cup Open(options)
    <3>1. FoundIn(place, p[2]) /\ p = FindIn(place, p[2])
      BY <1>17, <2>3
    <3>2. p[2] \in N
      BY <2>3, <3>1 DEF NamesIn
    <3> QED BY <3>1, <3>2
  <2> QED BY <1>9, <2>1, <2>2, <2>3
<1>26. \A p \in read : image.read[p] = place[p]
  BY <1>9, <1>11
<1>27. read = {FindIn(place, n) : n \in options.requested \cup N} \cup NamedIn(place, options)
  BY <1>22, <1>24, <1>25
<1> QED BY <1>2, <1>8, <1>22, <1>26, <1>27 DEF CurrentIn

\* The image is current after a call during which nothing changed.
LEMMA QuietStep == TypeInv /\ AgeInv /\ PairInv /\ LinkedInv /\ Next => QuietInv'
<1> SUFFICES ASSUME TypeInv, AgeInv, PairInv, LinkedInv, Next,
                    phase' = "idle", outcome' = "ok", quiet'
    PROVE  QuietInv'
  BY DEF QuietInv
<1>1. ReuseImage \/ Save \/ SaveFails
  <2>1. ASSUME NEW p \in Editable, PutFile(p) \/ RemoveFile(p) PROVE FALSE
    BY <2>1, FileFacts
  <2>2. CASE \/ Recompile \/ ReplaceTool \/ Reconfigure \/ DeleteOutput \/ DamageEntry
             \/ ResolveFails \/ Inspect \/ ReadInputs \/ RunLink \/ LinkFails \/ Crash
    BY <2>2 DEF Recompile, ReplaceTool, Reconfigure, DeleteOutput, DamageEntry, Changing,
                ResolveFails, Inspect, ReadInputs, RunLink, LinkFails, Crash, Ended
  <2> QED BY <2>1, <2>2 DEF Next
<1>2. CASE ReuseImage
  <2>1. /\ phase = "idle" /\ Inspectable /\ LinkReusable
        /\ UNCHANGED <<place, options, object, tool, image, entry, sides>>
    BY <1>2 DEF ReuseImage, worldVars, diskVars, sealVars
  <2>2. entry # NoEntry /\ RequiredBy(options) \subseteq sides
    BY <2>1, ReuseViews DEF ReusableIn
  <2>3. ~image.raced /\ ~entry.late => CurrentIn(image, place, options, object, tool)
    BY <2>1, ReusedCurrent
  <2> QED BY <2>1, <2>2, <2>3 DEF QuietInv
<1>3. CASE Save \/ SaveFails
  <2>1. /\ phase = "linked" /\ quiet
        /\ UNCHANGED <<place, options, object, tool, image, sides>>
    BY <1>3 DEF Save, SaveFails, worldVars, diskVars
  <2>2. /\ image.raced \/ CurrentIn(image, place, options, object, tool)
        /\ RequiredBy(options) \subseteq sides
    BY <2>1 DEF LinkedInv
  <2> QED BY <2>1, <2>2 DEF QuietInv
<1> QED BY <1>1, <1>2, <1>3

\* The first state: no image, or one whose entry is of an older format.
LEMMA LinkStart ==
    Init => AgeInv /\ PairInv /\ FaultInv /\ PlanInv /\ LinkedInv /\ WarmInv /\ QuietInv
<1> SUFFICES ASSUME Init
    PROVE  AgeInv /\ PairInv /\ FaultInv /\ PlanInv /\ LinkedInv /\ WarmInv /\ QuietInv
  OBVIOUS
<1>1. phase = "idle" /\ outcome = "none" /\ moved = {} /\ object = 1 /\ tool = 1
  BY DEF Init
<1>2. ASSUME NEW format \in 2 .. 3, Legacy(format)
      PROVE  /\ image.options = options /\ image.object = object /\ image.tool = tool
             /\ ~Modern(entry)
  <2>1. image.options = options /\ image.object = 1 /\ image.tool = 1
    BY <1>2 DEF Legacy
  <2>2. entry.files = <<>>
    BY <1>2 DEF Legacy, Loaded
  <2>3. ToSet(<<>>) = {}
    BY DEF ToSet
  <2> QED BY <1>1, <2>1, <2>2, <2>3 DEF Modern
<1>3. /\ image # NoImage =>
            image.options = options /\ image.object = object /\ image.tool = tool
      /\ ~Modern(entry)
  BY <1>2 DEF Init, Modern
<1> QED BY <1>1, <1>3 DEF AgeInv, PairInv, FaultInv, PlanInv, LinkedInv, WarmInv, QuietInv

\* The invariant is inductive.
LEMMA LinkStep == LinkInv /\ [Next]_vars => LinkInv'
<1> SUFFICES ASSUME LinkInv, [Next]_vars PROVE LinkInv'
  OBVIOUS
<1>1. CASE UNCHANGED vars
  BY <1>1 DEF vars, worldVars, diskVars, sealVars, callVars, LinkInv, TypeInv, AgeInv, PairInv,
              FaultInv, PlanInv, LinkedInv, QuietInv, Modern
<1>2. CASE Next
  <2>1. regime' = regime
    BY <1>2, FileFacts DEF LinkInv, Next, Recompile, ReplaceTool, Reconfigure, DeleteOutput,
       DamageEntry, ResolveFails, ReuseImage, Inspect, ReadInputs, RunLink, LinkFails, Save,
       SaveFails, Crash
  <2>2. TypeInv' /\ AgeInv'
    BY <1>2, TypeStep, AgeStep DEF LinkInv
  <2>3. PairInv' /\ FaultInv'
    BY <1>2, PairStep, FaultStep DEF LinkInv
  <2>4. PlanInv' /\ LinkedInv' /\ QuietInv'
    BY <1>2, PlanStep, LinkedStep, QuietStep DEF LinkInv
  <2> QED BY <2>1, <2>2, <2>3, <2>4 DEF LinkInv
<1> QED BY <1>1, <1>2

\* A successful call of MsvcIncrementalLinkCoordinator during which nothing changed leaves
\* an image of the current object, options, linker and libraries, with its map, for any
\* libraries and directories and any history of edits and failed calls; the windows that
\* the property names are excluded (inputs that change between inspection and an incremental
\* LINK, or while LINK runs, and directories before the seal), and an entry that could not be saved while directories
\* changed (the regime "unsaved", where it is false).
THEOREM QuietLinks ==
    ASSUME LinkRegimes \subseteq {"edits", "faults"}
    PROVE  Spec => []QuietLinkCurrent
<1>1. Init => LinkInv
  BY TypeStart, LinkStart DEF LinkInv, Init
<1>2. LinkInv => QuietLinkCurrent
  <2> SUFFICES ASSUME LinkInv, CurrentIn(image, place, options, object, tool),
                      RequiredBy(options) \subseteq sides
      PROVE  ImageCurrent /\ Required \subseteq sides
    BY DEF LinkInv, QuietInv, QuietLinkCurrent
  <2>1. Current = {FindIn(place, n) : n \in options.requested \cup NamesIn(place, options, object)}
                     \cup NamedIn(place, options)
    BY Views DEF Current
  <2> QED BY <2>1, Views DEF CurrentIn, ImageCurrent, Required, RequiredBy
<1> QED BY <1>1, <1>2, LinkStep, PTL DEF Spec

-----------------------------------------------------------------------------
(* The next call has nothing to do *)

\* An entry that seals what is there makes the validator look at what it seals, in its
\* order.
LEMMA ResealedInputs ==
    ASSUME NEW o \in OptionSets, NEW pl, NEW e, EntryOK(e), NEW S,
           \A f \in BaseFiles(o.args) : f[1] # 0 => BaseFoundIn(pl, f),
           e.libraries = RouteIn(pl, o.requested),
           e.files = AppendUnique(DeclaredIn(pl, o), RouteIn(pl, S)),
           ToSet(RouteIn(pl, S)) \cap ToSet(e.libraries) = {}
    PROVE  e.files = FileInputsIn(pl, o, {}, e)
<1> DEFINE d == DeclaredIn(pl, o)
           r == RouteIn(pl, S)
           T == LibPaths \ KnownIn(pl, o)
           k == Kept(e.files, T)
<1>1. d \in Seq(Files)
  BY DeclaredFacts
<1>2. r \in Seq(LibPaths) /\ IsInjective(r) /\ LibPaths \subseteq Files
  BY RouteFacts, PathFacts DEF Files
<1>3. ToSet(d) \cap T = {}
  BY DEF KnownIn
<1>4. ToSet(r) \ ToSet(d) \subseteq T
  <2>1. ToSet(r) \subseteq LibPaths
    BY <1>2, LenProperties DEF ToSet
  <2> QED BY <2>1 DEF KnownIn
<1>5. e.files = AppendUnique(d, r)
  OBVIOUS
<1>6. k \in Seq(Files)
  <2> HIDE DEF T
  <2>1. e.files \in Seq(Files)
    BY DEF EntryOK, Entries
  <2> QED BY <2>1, KeptFacts
<1>7. RememberedIn(pl, o, {}, e) = [i \in DOMAIN k |-> k[i]]
  BY DEF RememberedIn, LookedUp
<1>8. FileInputsIn(pl, o, {}, e) = AppendUnique(d, RememberedIn(pl, o, {}, e))
  BY DEF FileInputsIn
<1> HIDE DEF d, r, T
<1>9. AppendUnique(d, k) = AppendUnique(d, r)
  <2>1. r \in Seq(Files)
    BY <1>2
  <2>2. AppendUnique(d, Kept(AppendUnique(d, r), T)) = AppendUnique(d, r)
    BY <1>1, <1>2, <1>3, <1>4, <2>1, Reappended
  <2> QED BY <1>5, <2>2
<1> HIDE DEF k
<1>10. [i \in DOMAIN k |-> k[i]] = k
  BY <1>6
<1> QED BY <1>5, <1>7, <1>8, <1>9, <1>10

\* The saved entry has nothing against the image.
LEMMA WarmReuseStep ==
    TypeInv /\ WarmInv /\ WarmLinkReuses /\ Next => WarmLinkReuses'
<1> SUFFICES ASSUME TypeInv, WarmInv, Next, phase' = "idle", outcome' = "ok", quiet',
                    regime' = "edits"
    PROVE  LinkReusable'
  BY DEF WarmLinkReuses
<1>1. ReuseImage \/ Save
  <2>1. ASSUME NEW p \in Editable, PutFile(p) \/ RemoveFile(p) PROVE FALSE
    BY <2>1, FileFacts
  <2>2. CASE \/ Recompile \/ ReplaceTool \/ Reconfigure \/ DeleteOutput \/ DamageEntry
             \/ ResolveFails \/ Inspect \/ ReadInputs \/ RunLink \/ LinkFails \/ SaveFails \/ Crash
    BY <2>2 DEF Recompile, ReplaceTool, Reconfigure, DeleteOutput, DamageEntry, Changing,
                ResolveFails, Inspect, ReadInputs, RunLink, LinkFails, SaveFails, Crash, Ended
  <2> QED BY <2>1, <2>2 DEF Next
<1>2. CASE ReuseImage
  <2>1. LinkReusable /\ UNCHANGED <<place, options, tool, image, newer, entry, moved, sides>>
    BY <1>2 DEF ReuseImage, worldVars, diskVars, sealVars
  <2>2. /\ entry' # NoEntry
        /\ ReusableIn(image', place', newer', moved', options', tool', entry', sides')
    BY <2>1, ReuseViews
  <2> QED BY <2>2, ReuseNextViews
<1>3. CASE Save
  <2> DEFINE e == entry'
  <2>1. /\ phase = "linked" /\ quiet /\ e = [plan.entry EXCEPT !.late = plan.late]
        /\ moved' = {} /\ UNCHANGED <<place, options, tool, image, newer, sides>>
    BY <1>3 DEF Save, worldVars, diskVars
  <2>2. EntryOK(plan.entry) /\ options \in OptionSets
    BY <2>1 DEF TypeInv
  <2>3. /\ e.libraries = plan.entry.libraries /\ e.files = plan.entry.files
        /\ e.options = plan.entry.options /\ e.tool = plan.entry.tool
        /\ e.sides = plan.entry.sides
    BY <2>1, <2>2 DEF EntryOK, Entries
  <2>4. EntryOK(e) /\ e # NoEntry
    <3>1. plan.late \in BOOLEAN
      BY <2>1 DEF TypeInv, PlanOK, Plans
    <3>2. EntryOK(e)
      BY <2>1, <2>2, <3>1 DEF EntryOK, Entries
    <3> QED BY <3>2, RecordFacts DEF EntryOK
  <2> HIDE DEF e
  <2>5. /\ e.options = options /\ e.tool = tool
        /\ image # NoImage /\ newer = {} /\ e.libraries = RouteIn(place, options.requested)
        /\ \A p \in ToSet(e.libraries) \cup ToSet(e.files) : p = Tool \/ place[p] # 0
        /\ \A f \in BaseFiles(options.args) : BaseFoundIn(place, f)
        /\ e.sides \subseteq sides
        /\ RequiredBy(options) \cup (sides \cap OptionalBy(options)) \subseteq e.sides
    BY <2>1, <2>3 DEF WarmInv
  <2>6. PICK S \in SUBSET LibNames :
           /\ e.files = AppendUnique(DeclaredIn(place, options), RouteIn(place, S))
           /\ ToSet(RouteIn(place, S)) \cap ToSet(e.libraries) = {}
    BY <2>1, <2>3 DEF WarmInv
  <2>7. e.files = FileInputsIn(place, options, {}, e)
    BY <2>2, <2>4, <2>5, <2>6, ResealedInputs
  <2>8. ReusableIn(image, place, newer, {}, options, tool, e, sides)
    BY <2>5, <2>7 DEF ReusableIn, FreshIn
  <2> QED BY <2>1, <2>4, <2>8, ReuseNextViews DEF e
<1> QED BY <1>1, <1>2, <1>3

\* After a call during which nothing changed, and whose entry was saved, the validator has
\* nothing against the image: the next call does not link, for any libraries, options and
\* history of edits, although the sealed list is put together again in another order of
\* steps (append_unique_path) and remembered libraries are looked up again.
THEOREM WarmLinks == Spec => []WarmLinkReuses
<1> DEFINE I == TypeInv /\ PlanInv /\ WarmInv /\ WarmLinkReuses
<1>1. Init => I
  <2>1. Init => outcome = "none"
    BY DEF Init
  <2> QED BY <2>1, TypeStart, LinkStart DEF WarmLinkReuses
<1>2. I /\ [Next]_vars => I'
  <2> SUFFICES ASSUME TypeInv, PlanInv, WarmInv, WarmLinkReuses, [Next]_vars
      PROVE  TypeInv' /\ PlanInv' /\ WarmInv' /\ WarmLinkReuses'
    OBVIOUS
  <2>1. CASE Next
    BY <2>1, TypeStep, PlanStep, WarmStep, WarmReuseStep
  <2>2. CASE UNCHANGED vars
    <3>1. UNCHANGED <<place, options, tool, image, newer, entry, moved, sides,
                      phase, outcome, quiet, regime, plan>>
      BY <2>2 DEF vars, worldVars, diskVars, sealVars, callVars
    <3>2. LinkReusable' <=> LinkReusable
      BY <3>1, ReuseViews, ReuseNextViews
    <3>3. TypeInv' /\ PlanInv' /\ WarmInv'
      BY <2>2 DEF vars, worldVars, diskVars, sealVars, callVars, TypeInv, PlanInv, WarmInv, Modern
    <3> QED BY <3>1, <3>2, <3>3 DEF WarmLinkReuses
  <2> QED BY <2>1, <2>2
<1>3. I => WarmLinkReuses
  OBVIOUS
<1> QED BY <1>1, <1>2, <1>3, PTL DEF Spec
=============================================================================
