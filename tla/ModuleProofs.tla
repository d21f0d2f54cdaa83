---------------------------- MODULE ModuleProofs ----------------------------
(***************************************************************************)
(* What ModuleTarget guarantees for every set of units and header units,   *)
(* every choice of imports and any number of edits and builds: its types,  *)
(* that a reused scan is the truth, that an undisturbed build is current   *)
(* through every import, and that it never refuses good sources, all but   *)
(* for what an edit overtook while it was being read.                      *)
(*                                                                         *)
(* Levels, references and what a compiler reads are recursive functions:   *)
(* first, what their rounds make, by least counterexamples.                *)
(***************************************************************************)
EXTENDS ModuleTarget, FiniteSetTheorems, WellFoundedInduction, TLAPS

\* A set of numbers that is not empty has a least one.
LEMMA Least ==
    ASSUME NEW G \in SUBSET Nat, G # {}
    PROVE  \E i \in G : \A j \in G : i <= j
<1>1. PICK i \in G : \A j \in G : ~(<<j, i>> \in OpToRel(<, Nat))
  BY NatLessThanWellFounded, WFMin
<1>2. ASSUME NEW j \in G PROVE i <= j
  <2>1. <<j, i>> \in Nat \X Nat /\ i \in Nat /\ j \in Nat
    OBVIOUS
  <2>2. j < i => <<j, i>> \in OpToRel(<, Nat)
    BY <2>1, SMT DEF OpToRel
  <2>3. ~(j < i)
    BY <1>1, <2>2, Zenon
  <2> QED BY <2>1, <2>3
<1> QED BY <1>2

\* Induction: a set with 0 in it and with every successor has all numbers.
LEMMA Induction ==
    ASSUME NEW G, 0 \in G, \A n \in Nat : n \in G => n + 1 \in G
    PROVE  \A n \in Nat : n \in G
<1> SUFFICES ASSUME Nat \ G # {} PROVE FALSE
  OBVIOUS
<1>1. PICK i \in Nat \ G : \A j \in Nat \ G : i <= j
  BY Least
<1>2. i - 1 \in Nat /\ i - 1 \in G
  BY <1>1
<1> QED BY <1>1, <1>2

\* F[k] makes what there is after k rounds of what there was before the last, from a on.
Rule(A, a, F) == a \in A /\ F \in [Nat -> [A -> A]]
Run(n, t, A, a, F) == t \in [0 .. n -> A] /\ t[0] = a /\ \A k \in 1 .. n : t[k] = F[k][t[k - 1]]

\* A rule can be followed for any number of rounds.
LEMMA Rounds ==
    ASSUME NEW A, NEW a, NEW F, NEW M \in Nat, Rule(A, a, F)
    PROVE  \E t : Run(M, t, A, a, F)
<1> DEFINE G == {n \in Nat : \E t : Run(n, t, A, a, F)}
<1>1. 0 \in G
  <2>1. Run(0, [k \in 0 .. 0 |-> a], A, a, F)
    BY DEF Run, Rule
  <2> QED BY <2>1
<1>2. ASSUME NEW n \in Nat, n \in G PROVE n + 1 \in G
  <2>1. PICK t : Run(n, t, A, a, F)
    BY <1>2
  <2>2. t[n] \in A /\ F[n + 1][t[n]] \in A
    BY <2>1 DEF Run, Rule
  <2> DEFINE s == [k \in 0 .. n + 1 |-> IF k = n + 1 THEN F[n + 1][t[n]] ELSE t[k]]
  <2>3. s \in [0 .. n + 1 -> A] /\ s[0] = a
    BY <2>1, <2>2 DEF Run
  <2>4. ASSUME NEW k \in 1 .. n + 1 PROVE s[k] = F[k][s[k - 1]]
    <3>1. CASE k = n + 1
      BY <3>1
    <3>2. CASE k \in 1 .. n
      BY <3>2, <2>1 DEF Run
    <3> QED BY <3>1, <3>2
  <2> HIDE DEF s
  <2>5. Run(n + 1, s, A, a, F)
    BY <2>3, <2>4 DEF Run
  <2> QED BY <2>5
<1> HIDE DEF G
<1>3. M \in G
  BY <1>1, <1>2, Induction
<1> QED BY <1>3 DEF G

\* The number of rounds.
N == Cardinality(Units)

\* It is a number, as there are finitely many units.
LEMMA UnitsCount == N \in Nat
BY UnitsAssumption, FS_CardinalityType DEF N

\* The first rounds of the levels.
LEMMA TakenRounds ==
    ASSUME NEW g \in [Units -> SUBSET Units]
    PROVE  /\ TakenBy(g) \in [0 .. N -> SUBSET Units]
           /\ TakenBy(g)[0] = {}
           /\ \A n \in 1 .. N : TakenBy(g)[n] =
                 TakenBy(g)[n - 1] \cup {u \in Units : g[u] \subseteq TakenBy(g)[n - 1]}
<1> DEFINE F == [n \in Nat |-> [T \in SUBSET Units |-> T \cup {u \in Units : g[u] \subseteq T}]]
<1>1. Rule(SUBSET Units, {}, F)
  BY DEF Rule
<1>2. PICK t : Run(N, t, SUBSET Units, {}, F)
  BY <1>1, UnitsCount, Rounds, Zenon
<1>3. t = [n \in 0 .. N |->
             IF n = 0 THEN {} ELSE t[n - 1] \cup {u \in Units : g[u] \subseteq t[n - 1]}]
  <2>1. ASSUME NEW n \in 1 .. N
        PROVE  t[n] = t[n - 1] \cup {u \in Units : g[u] \subseteq t[n - 1]}
    <3>1. n \in Nat /\ n - 1 \in 0 .. N
      BY UnitsCount
    <3>2. t[n - 1] \in SUBSET Units /\ t[n] = F[n][t[n - 1]]
      BY <3>1, <1>2 DEF Run
    <3> QED BY <3>1, <3>2
  <2> HIDE DEF F
  <2> QED BY <1>2, <2>1, UnitsCount DEF Run
<1> DEFINE T == TakenBy(g)
<1>4. T = [n \in 0 .. N |->
             IF n = 0 THEN {} ELSE T[n - 1] \cup {u \in Units : g[u] \subseteq T[n - 1]}]
  BY <1>3 DEF TakenBy, N
<1> HIDE DEF T
<1>5. T = [n \in DOMAIN T |-> T[n]]
  BY <1>4, Zenon
<1>6. DOMAIN T = 0 .. N /\ \A n \in 0 .. N : T[n] =
        IF n = 0 THEN {} ELSE T[n - 1] \cup {u \in Units : g[u] \subseteq T[n - 1]}
  <2> DEFINE E == [n \in 0 .. N |->
                    IF n = 0 THEN {} ELSE T[n - 1] \cup {u \in Units : g[u] \subseteq T[n - 1]}]
  <2>1. DOMAIN E = 0 .. N /\ \A n \in 0 .. N : E[n] =
          IF n = 0 THEN {} ELSE T[n - 1] \cup {u \in Units : g[u] \subseteq T[n - 1]}
    OBVIOUS
  <2>2. T = E
    BY <1>4
  <2> HIDE DEF E
  <2> QED BY <2>1, <2>2
<1>7. \A n \in Nat : n \in {k \in Nat : k \in 0 .. N => T[k] \subseteq Units}
  <2> DEFINE G == {k \in Nat : k \in 0 .. N => T[k] \subseteq Units}
  <2>1. 0 \in G
    BY <1>6, UnitsCount
  <2>2. ASSUME NEW n \in Nat, n \in G PROVE n + 1 \in G
    BY <2>2, <1>6, UnitsCount
  <2> HIDE DEF G
  <2>3. \A n \in Nat : n \in G
    BY <2>1, <2>2, Induction
  <2> QED BY <2>3 DEF G
<1>8. T \in [0 .. N -> SUBSET Units]
  BY <1>5, <1>6, <1>7, UnitsCount
<1>9. T[0] = {} /\ \A n \in 1 .. N : T[n] = T[n - 1] \cup {u \in Units : g[u] \subseteq T[n - 1]}
  BY <1>6, UnitsCount
<1> QED BY <1>8, <1>9 DEF T

\* Later rounds take no less.
LEMMA TakenGrows ==
    ASSUME NEW g \in [Units -> SUBSET Units], NEW i \in 0 .. N, NEW j \in i .. N
    PROVE  TakenBy(g)[i] \subseteq TakenBy(g)[j]
<1> DEFINE T == TakenBy(g)
           G == {n \in Nat : n \in i .. N => T[i] \subseteq T[n]}
<1>1. 0 \in G
  BY UnitsCount
<1>2. ASSUME NEW n \in Nat, n \in G PROVE n + 1 \in G
  <2> SUFFICES ASSUME n + 1 \in i .. N, n + 1 # i PROVE T[i] \subseteq T[n + 1]
    OBVIOUS
  <2>1. n \in i .. N /\ n + 1 \in 1 .. N /\ n + 1 - 1 = n
    BY UnitsCount
  <2>2. T[n] \subseteq T[n + 1]
    BY <2>1, TakenRounds
  <2> QED BY <1>2, <2>1, <2>2
<1>3. j \in G
  <2> HIDE DEF G
  <2>1. j \in Nat
    BY UnitsCount
  <2> QED BY <1>1, <1>2, <2>1, Induction
<1> QED BY <1>3

\* The graph of a build that compiles.
Levelled == topo \in [Units -> SUBSET Units] /\ ~Cyclic(topo)

\* Every unit has a level, above those of all it imports.
LEMMA LevelsRise ==
    ASSUME Levelled, NEW u \in Units
    PROVE  Level(u) \in 1 .. N /\ \A p \in topo[u] : p \in Units /\ Level(p) < Level(u)
<1> DEFINE T == TakenBy(topo)
<1>0. topo \in [Units -> SUBSET Units] /\ T[N] = Units
  BY DEF Levelled, Cyclic, N
<1>1. ASSUME NEW v \in Units
      PROVE  Level(v) \in 1 .. N /\ v \in T[Level(v)] /\ v \notin T[Level(v) - 1]
  <2> DEFINE G == {n \in 0 .. N : v \in T[n]}
  <2>1. N \in G
    BY <1>0, UnitsCount
  <2>2. G \in SUBSET Nat
    BY UnitsCount
  <2>3. PICK n \in G : \A k \in G : n <= k
    BY <2>1, <2>2, Least
  <2>4. n # 0
    BY <1>0, <2>3, TakenRounds
  <2>5. n \in 1 .. N /\ v \in T[n]
    BY <2>3, <2>4, UnitsCount
  <2>6. v \notin T[n - 1]
    BY <2>3, <2>5, UnitsCount
  <2>7. \E k \in 1 .. Cardinality(Units) : v \in TakenBy(topo)[k] /\ v \notin TakenBy(topo)[k - 1]
    BY <2>5, <2>6 DEF N
  <2> HIDE DEF G, T
  <2>8. /\ Level(v) \in 1 .. Cardinality(Units)
        /\ v \in TakenBy(topo)[Level(v)] /\ v \notin TakenBy(topo)[Level(v) - 1]
    BY <2>7 DEF Level
  <2> QED BY <2>8 DEF T, N
<1>2. ASSUME NEW p \in topo[u] PROVE p \in Units /\ Level(p) < Level(u)
  <2>1. p \in Units /\ topo[u] \subseteq Units
    BY <1>0
  <2>2. Level(u) \in 1 .. N /\ u \in T[Level(u)] /\ u \notin T[Level(u) - 1]
    BY <1>1
  <2>3. Level(p) \in 1 .. N /\ p \notin T[Level(p) - 1]
    BY <1>1, <2>1
  <2> HIDE DEF T
  <2>4. T[Level(u)] = T[Level(u) - 1] \cup {v \in Units : topo[v] \subseteq T[Level(u) - 1]}
    BY <1>0, <2>2, TakenRounds DEF T
  <2>5. p \in T[Level(u) - 1]
    BY <2>2, <2>4
  <2>6. ASSUME Level(u) <= Level(p) PROVE FALSE
    <3>1. Level(u) - 1 \in 0 .. N /\ Level(p) - 1 \in Level(u) - 1 .. N
      BY <2>2, <2>3, <2>6, UnitsCount
    <3>2. T[Level(u) - 1] \subseteq T[Level(p) - 1]
      BY <1>0, <3>1, TakenGrows DEF T
    <3> QED BY <2>3, <2>5, <3>2
  <2> QED BY <2>1, <2>2, <2>3, <2>6, UnitsCount
<1> QED BY <1>1, <1>2

\* The rounds of build_module_compile_plan.
LEMMA MergedRounds ==
    ASSUME topo \in [Units -> SUBSET Units]
    PROVE  \E m \in [0 .. N -> [Units -> SUBSET Units]] :
             /\ m[0] = topo /\ References = m[N]
             /\ \A n \in 1 .. N : \A u \in Units :
                   m[n][u] = IF Level(u) = n THEN topo[u] \cup UNION {m[n - 1][p] : p \in topo[u]}
                             ELSE m[n - 1][u]
<1> DEFINE Graphs == [Units -> SUBSET Units]
           Merge(n, g) == [u \in Units |->
               IF Level(u) = n THEN topo[u] \cup UNION {g[p] : p \in topo[u]} ELSE g[u]]
           F == [n \in Nat |-> [g \in Graphs |-> Merge(n, g)]]
<1>0. ASSUME NEW n, NEW g \in Graphs PROVE Merge(n, g) \in Graphs
  OBVIOUS
<1> HIDE DEF Merge
<1>1. Rule(Graphs, topo, F)
  BY <1>0 DEF Rule
<1>2. PICK t : Run(N, t, Graphs, topo, F)
  BY <1>1, UnitsCount, Rounds, Zenon
<1>3. t = [n \in 0 .. N |-> IF n = 0 THEN topo ELSE Merge(n, t[n - 1])]
  <2>1. ASSUME NEW n \in 1 .. N PROVE t[n] = Merge(n, t[n - 1])
    <3>1. n \in Nat /\ n - 1 \in 0 .. N
      BY UnitsCount
    <3>2. t[n - 1] \in Graphs /\ t[n] = F[n][t[n - 1]]
      BY <3>1, <1>2 DEF Run
    <3> HIDE DEF Graphs
    <3> QED BY <3>1, <3>2
  <2> HIDE DEF F, Graphs
  <2> QED BY <1>2, <2>1, UnitsCount DEF Run
<1> DEFINE merged == CHOOSE m : m = [n \in 0 .. N |-> IF n = 0 THEN topo ELSE Merge(n, m[n - 1])]
<1>4. merged = [n \in 0 .. N |-> IF n = 0 THEN topo ELSE Merge(n, merged[n - 1])]
  BY <1>3
<1>5. References = merged[N]
  BY DEF References, Merge, N
<1> HIDE DEF merged, Graphs
<1>6. /\ DOMAIN merged = 0 .. N
      /\ \A n \in 0 .. N : merged[n] = IF n = 0 THEN topo ELSE Merge(n, merged[n - 1])
  <2> DEFINE E == [n \in 0 .. N |-> IF n = 0 THEN topo ELSE Merge(n, merged[n - 1])]
  <2>1. /\ DOMAIN E = 0 .. N
        /\ \A n \in 0 .. N : E[n] = IF n = 0 THEN topo ELSE Merge(n, merged[n - 1])
    OBVIOUS
  <2>2. merged = E
    BY <1>4
  <2> HIDE DEF E
  <2> QED BY <2>1, <2>2
<1>7. merged[0] = topo /\ \A n \in 1 .. N : merged[n] = Merge(n, merged[n - 1])
  BY <1>6, UnitsCount
<1>8. \A n \in 0 .. N : merged[n] \in Graphs
  <2> DEFINE G == {n \in Nat : n \in 0 .. N => merged[n] \in Graphs}
  <2>1. 0 \in G
    BY <1>7, UnitsCount DEF Graphs
  <2>2. ASSUME NEW n \in Nat, n \in G PROVE n + 1 \in G
    <3> SUFFICES ASSUME n + 1 \in 0 .. N PROVE merged[n + 1] \in Graphs
      OBVIOUS
    <3>1. n + 1 \in 1 .. N /\ n + 1 - 1 = n /\ n \in 0 .. N
      BY UnitsCount
    <3>2. merged[n + 1] = Merge(n + 1, merged[n]) /\ merged[n] \in Graphs
      BY <2>2, <3>1, <1>7
    <3> QED BY <3>2, <1>0
  <2> HIDE DEF G
  <2>3. \A n \in Nat : n \in G
    BY <2>1, <2>2, Induction
  <2> QED BY <2>3, UnitsCount DEF G
<1>9. merged = [n \in DOMAIN merged |-> merged[n]]
  BY <1>4, Zenon
<1>10. merged \in [0 .. N -> [Units -> SUBSET Units]]
  BY <1>6, <1>8, <1>9 DEF Graphs
<1>11. \A n \in 1 .. N : \A u \in Units : merged[n][u] =
         IF Level(u) = n THEN topo[u] \cup UNION {merged[n - 1][p] : p \in topo[u]} ELSE merged[n - 1][u]
  <2> SUFFICES ASSUME NEW n \in 1 .. N, NEW u \in Units
               PROVE  merged[n][u] = IF Level(u) = n
                                     THEN topo[u] \cup UNION {merged[n - 1][p] : p \in topo[u]}
                                     ELSE merged[n - 1][u]
    OBVIOUS
  <2>1. merged[n] = Merge(n, merged[n - 1])
    BY <1>7
  <2>2. Merge(n, merged[n - 1])[u] = IF Level(u) = n
                                     THEN topo[u] \cup UNION {merged[n - 1][p] : p \in topo[u]}
                                     ELSE merged[n - 1][u]
    BY DEF Merge
  <2> QED BY <2>1, <2>2
<1> QED BY <1>5, <1>7, <1>10, <1>11

\* What a unit is compiled with is what it imports and what that was compiled with.
LEMMA ReferencesClosed ==
    ASSUME Levelled
    PROVE  /\ References \in [Units -> SUBSET Units]
           /\ \A u \in Units : References[u] = topo[u] \cup UNION {References[p] : p \in topo[u]}
<1>1. topo \in [Units -> SUBSET Units]
  BY DEF Levelled
<1>2. PICK m \in [0 .. N -> [Units -> SUBSET Units]] :
        /\ m[0] = topo /\ References = m[N]
        /\ \A n \in 1 .. N : \A u \in Units :
             m[n][u] = IF Level(u) = n THEN topo[u] \cup UNION {m[n - 1][p] : p \in topo[u]}
                       ELSE m[n - 1][u]
  BY <1>1, MergedRounds
<1>3. ASSUME NEW u \in Units, NEW n \in Level(u) .. N PROVE m[n][u] = m[Level(u)][u]
  <2> DEFINE G == {k \in Nat : k \in Level(u) .. N => m[k][u] = m[Level(u)][u]}
  <2>0. Level(u) \in 1 .. N
    BY LevelsRise
  <2>1. 0 \in G
    BY <2>0, UnitsCount
  <2>2. ASSUME NEW k \in Nat, k \in G PROVE k + 1 \in G
    <3> SUFFICES ASSUME k + 1 \in Level(u) .. N, k + 1 # Level(u)
                 PROVE  m[k + 1][u] = m[Level(u)][u]
      OBVIOUS
    <3>1. k + 1 \in 1 .. N /\ k \in Level(u) .. N /\ k + 1 - 1 = k
      BY <2>0, UnitsCount
    <3>2. m[k][u] = m[Level(u)][u]
      BY <2>2, <3>1
    <3>3. m[k + 1][u] = m[k][u]
      <4> HIDE DEF G
      <4>1. \A j \in 1 .. N : Level(u) # j => m[j][u] = m[j - 1][u]
        BY <1>2
      <4>2. k + 1 # Level(u)
        OBVIOUS
      <4>3. m[k + 1][u] = m[k + 1 - 1][u]
        BY <3>1, <4>1, <4>2
      <4> QED BY <3>1, <4>3
    <3> QED BY <3>2, <3>3
  <2> HIDE DEF G
  <2>3. n \in Nat
    BY <2>0, UnitsCount
  <2>4. n \in G
    BY <2>1, <2>2, <2>3, Induction
  <2> QED BY <2>4 DEF G
<1>4. ASSUME NEW u \in Units
      PROVE  References[u] = topo[u] \cup UNION {References[p] : p \in topo[u]}
  <2>1. Level(u) \in 1 .. N /\ \A p \in topo[u] : p \in Units /\ Level(p) < Level(u)
    BY LevelsRise
  <2>2. References[u] = m[Level(u)][u]
    BY <1>2, <1>3, <2>1, UnitsCount
  <2>3. m[Level(u)][u] = topo[u] \cup UNION {m[Level(u) - 1][p] : p \in topo[u]}
    BY <1>2, <2>1
  <2>4. ASSUME NEW p \in topo[u] PROVE m[Level(u) - 1][p] = References[p]
    <3>1. p \in Units /\ Level(p) \in 1 .. N /\ Level(u) - 1 \in Level(p) .. N /\ N \in Level(p) .. N
      BY <2>1, LevelsRise, UnitsCount
    <3> QED BY <3>1, <1>2, <1>3
  <2> QED BY <2>2, <2>3, <2>4
<1>5. References \in [Units -> SUBSET Units]
  BY <1>2, UnitsCount
<1> QED BY <1>4, <1>5

\* All of it is below the unit, is compiled before it, and brings what it imports itself.
LEMMA ReferencesBelow ==
    ASSUME Levelled, NEW u \in Units, NEW p \in References[u]
    PROVE  /\ p \in Planned /\ Level(p) < Level(u)
           /\ topo[p] \subseteq References[u] /\ References[p] \subseteq References[u]
<1> DEFINE Below(v) == \A q \in References[v] :
               q \in Planned /\ Level(q) < Level(v) /\ References[q] \subseteq References[v]
           G == {n \in Nat : \A v \in Units : Level(v) <= n => Below(v)}
<1>0. \A v \in Units : Level(v) \in Nat /\ Level(v) >= 1
  BY LevelsRise, UnitsCount
<1>1. 0 \in G
  BY <1>0
<1>2. ASSUME NEW n \in Nat, n \in G PROVE n + 1 \in G
  <2> SUFFICES ASSUME NEW v \in Units, Level(v) <= n + 1, NEW q \in References[v]
               PROVE  q \in Planned /\ Level(q) < Level(v) /\ References[q] \subseteq References[v]
    OBVIOUS
  <2>1. \A r \in topo[v] : r \in Units /\ Level(r) < Level(v) /\ r \in Planned
    BY LevelsRise DEF Planned
  <2>2. References[v] = topo[v] \cup UNION {References[r] : r \in topo[v]}
    BY ReferencesClosed
  <2>3. CASE q \in topo[v]
    BY <2>1, <2>2, <2>3
  <2>4. CASE q \notin topo[v]
    <3>1. PICK r \in topo[v] : q \in References[r]
      BY <2>2, <2>4
    <3>2. r \in Units /\ Level(r) <= n /\ Level(r) < Level(v)
      BY <2>1, <1>0
    <3>3. q \in Planned /\ Level(q) < Level(r) /\ References[q] \subseteq References[r]
      BY <1>2, <3>1, <3>2
    <3>4. q \in Units
      BY <3>3 DEF Planned
    <3> QED BY <2>2, <3>1, <3>2, <3>3, <3>4, <1>0
  <2> QED BY <2>3, <2>4
<1> HIDE DEF G
<1>3. Level(u) \in G
  BY <1>0, <1>1, <1>2, Induction
<1>4. Below(u)
  BY <1>0, <1>3 DEF G
<1>5. topo[p] \subseteq References[p]
  BY <1>4, ReferencesClosed DEF Planned
<1> QED BY <1>4, <1>5

\* What a compiler can meet: objects name units.
ImportsTyped ==
    /\ \A u \in Units : reads[u] # None => reads[u].imports \in SUBSET Units
    /\ \A u \in Units : out[u] # None => out[u].imports \in SUBSET Units

\* The compiler reads no more than the closure of what the source imports.
LEMMA NeededWithin ==
    ASSUME ImportsTyped, NEW u \in Units, reads[u] # None
    PROVE  /\ Needed(u) \in SUBSET Units
           /\ \A S \in SUBSET Units :
                (/\ reads[u].imports \subseteq S
                 /\ \A p \in S \cap Needed(u) : out[p] # None => out[p].imports \subseteq S)
                => Needed(u) \subseteq S
<1> DEFINE Reach(R) == R \cup UNION {out[p].imports : p \in {q \in R : out[q] # None}}
           F == [n \in Nat |-> [R \in SUBSET Units |-> Reach(R)]]
<1>0. reads[u].imports \in SUBSET Units /\ \A R \in SUBSET Units : Reach(R) \in SUBSET Units
  BY DEF ImportsTyped
<1> HIDE DEF Reach
<1>1. Rule(SUBSET Units, reads[u].imports, F)
  BY <1>0 DEF Rule
<1>2. PICK t : Run(N, t, SUBSET Units, reads[u].imports, F)
  BY <1>1, UnitsCount, Rounds, Zenon
<1>3. t = [n \in 0 .. N |-> IF n = 0 THEN reads[u].imports ELSE Reach(t[n - 1])]
  <2>1. ASSUME NEW n \in 1 .. N PROVE t[n] = Reach(t[n - 1])
    <3>1. n \in Nat /\ n - 1 \in 0 .. N
      BY UnitsCount
    <3>2. t[n - 1] \in SUBSET Units /\ t[n] = F[n][t[n - 1]]
      BY <3>1, <1>2 DEF Run
    <3> QED BY <3>1, <3>2
  <2> HIDE DEF F
  <2> QED BY <1>2, <2>1, UnitsCount DEF Run
<1> DEFINE read == CHOOSE r : r = [n \in 0 .. N |->
               IF n = 0 THEN reads[u].imports ELSE Reach(r[n - 1])]
<1>4. read = [n \in 0 .. N |-> IF n = 0 THEN reads[u].imports ELSE Reach(read[n - 1])]
  BY <1>3
<1>5. Needed(u) = read[N]
  BY DEF Needed, Reach, N
<1> HIDE DEF read
<1>6. \A n \in 0 .. N : read[n] = IF n = 0 THEN reads[u].imports ELSE Reach(read[n - 1])
  <2> DEFINE E == [n \in 0 .. N |-> IF n = 0 THEN reads[u].imports ELSE Reach(read[n - 1])]
  <2>1. \A n \in 0 .. N : E[n] = IF n = 0 THEN reads[u].imports ELSE Reach(read[n - 1])
    OBVIOUS
  <2>2. read = E
    BY <1>4
  <2> HIDE DEF E
  <2> QED BY <2>1, <2>2
<1>7. /\ read[0] = reads[u].imports
      /\ \A n \in Nat : n + 1 \in 0 .. N => n \in 0 .. N /\ read[n + 1] = Reach(read[n])
  <2>1. ASSUME NEW n \in Nat, n + 1 \in 0 .. N PROVE n \in 0 .. N /\ read[n + 1] = Reach(read[n])
    <3>1. n \in 0 .. N /\ n + 1 # 0 /\ n + 1 - 1 = n
      BY <2>1, UnitsCount
    <3> QED BY <2>1, <3>1, <1>6
  <2> QED BY <2>1, <1>6, UnitsCount
<1>8. \A n \in Nat : n \in 0 .. N => read[n] \in SUBSET Units
  <2> DEFINE G == {n \in Nat : n \in 0 .. N => read[n] \in SUBSET Units}
  <2>1. 0 \in G
    BY <1>7, <1>0
  <2>2. ASSUME NEW n \in Nat, n \in G PROVE n + 1 \in G
    <3>1. n + 1 \in 0 .. N => read[n + 1] \in SUBSET Units
      BY <2>2, <1>7, <1>0
    <3> QED BY <3>1
  <2> HIDE DEF G
  <2>3. \A n \in Nat : n \in G
    BY <2>1, <2>2, Induction
  <2> QED BY <2>3 DEF G
\* no round loses anything
<1>9. \A n \in Nat : n \in 0 .. N => read[n] \subseteq Needed(u)
  <2> SUFFICES ASSUME NEW n \in Nat, n \in 0 .. N PROVE read[n] \subseteq read[N]
    BY <1>5
  <2> DEFINE G == {k \in Nat : k \in n .. N => read[n] \subseteq read[k]}
  <2>1. 0 \in G
    OBVIOUS
  <2>2. ASSUME NEW k \in Nat, k \in G PROVE k + 1 \in G
    <3> SUFFICES ASSUME k + 1 \in n .. N, k + 1 # n PROVE read[n] \subseteq read[k + 1]
      OBVIOUS
    <3>1. k \in n .. N /\ k + 1 \in 0 .. N
      BY UnitsCount
    <3>2. read[k + 1] = Reach(read[k]) /\ read[k] \subseteq Reach(read[k])
      BY <3>1, <1>7 DEF Reach
    <3> QED BY <2>2, <3>1, <3>2
  <2> HIDE DEF G
  <2>3. N \in G
    BY <2>1, <2>2, UnitsCount, Induction
  <2> QED BY <2>3, UnitsCount DEF G
<1>10. ASSUME NEW S \in SUBSET Units, reads[u].imports \subseteq S,
              \A p \in S \cap Needed(u) : out[p] # None => out[p].imports \subseteq S
       PROVE  Needed(u) \subseteq S
  <2> DEFINE G == {n \in Nat : n \in 0 .. N => read[n] \subseteq S}
  <2>1. 0 \in G
    BY <1>7, <1>10
  <2>2. ASSUME NEW n \in Nat, n \in G PROVE n + 1 \in G
    <3> SUFFICES ASSUME n + 1 \in 0 .. N PROVE read[n + 1] \subseteq S
      OBVIOUS
    <3>1. n \in 0 .. N /\ read[n + 1] = Reach(read[n])
      BY <1>7
    <3>2. read[n] \subseteq S /\ read[n] \subseteq Needed(u)
      BY <2>2, <3>1, <1>9
    <3> HIDE DEF G
    <3>3. \A p \in read[n] : out[p] # None => out[p].imports \subseteq S
      BY <3>2, <1>10
    <3> QED BY <3>1, <3>2, <3>3 DEF Reach
  <2> HIDE DEF G
  <2>3. N \in G
    BY <2>1, <2>2, UnitsCount, Induction
  <2> QED BY <2>3, <1>5, UnitsCount DEF G
<1>11. Needed(u) \in SUBSET Units
  BY <1>5, <1>8, UnitsCount
<1> QED BY <1>10, <1>11
-----------------------------------------------------------------------------
(* The invariant *)

Texts    == [time : Nat, imports : SUBSET Units]
Scans    == [time : Nat, imports : SUBSET Units, raced : BOOLEAN]
Objects  == [time : Nat, src : Nat, imports : SUBSET Units,
             used : UNION {[S -> Nat] : S \in SUBSET Units}, raced : BOOLEAN]
Entries  == [refs : SUBSET Units, scan : {None} \cup [src : Nat, out : Nat]]
Images   == [time : Nat, objs : [Sources -> Nat]]

ShapeInv ==
    /\ src \in [Units -> Texts] /\ reads \in [Units -> {None} \cup Texts]
    /\ scanFile \in [Units -> {None} \cup Scans]
    /\ out \in [Units -> {None} \cup Objects] /\ entry \in [Units -> {None} \cup Entries]
    /\ exe \in {None} \cup Images
TypeInv == TypeOK /\ ShapeInv

\* What a scanner or a compiler has read is the source, unless there was an edit since.
TextInv == \A u \in Units :
    /\ (reads[u] # None /\ (quiet \/ reads[u].time = src[u].time)) => reads[u] = src[u]
    /\ status[u] = "reading" => reads[u] # None

\* An object that its source is not newer than was made from it, unless it was raced.
SourceInv == \A u \in Units : (out[u] # None /\ src[u].time <= out[u].time /\ ~out[u].raced) =>
    out[u].src = src[u].time /\ out[u].imports = src[u].imports

\* A scan that its source is not newer than is the truth, unless it was raced; evidence is
\* of scans that the source is not newer than.
ScanInv == \A u \in Units :
    /\ (scanFile[u] # None /\ src[u].time <= scanFile[u].time /\ ~scanFile[u].raced) =>
          scanFile[u].imports = src[u].imports
    /\ (entry[u] # None /\ entry[u].scan # None) => entry[u].scan.src <= entry[u].scan.out

\* A set that a compile of u which sees the objects there are now would not leave.
Within(u, S) ==
    /\ out[u].imports \subseteq S
    /\ \A p \in S : out[p] # None /\ out[p].time <= out[u].time /\ out[p].imports \subseteq S

\* What an object has read is there still, unless it is newer, and was needed.
ReadInv == \A u \in Units : out[u] # None =>
    /\ \A p \in DOMAIN out[u].used :
          (out[p] # None /\ out[p].time <= out[u].time) => out[u].used[p] = out[p].time
    /\ \A S \in SUBSET Units : Within(u, S) => DOMAIN out[u].used \subseteq S

\* The image holds every object that is not newer.
ImageInv == exe # None =>
    \A u \in Sources : (out[u] # None /\ out[u].time <= exe.time) => exe.objs[u] = out[u].time

DiskInv == SourceInv /\ ScanInv /\ ReadInv /\ ImageInv

ScanRaced(u) == scanFile[u] # None /\ scanFile[u].raced
ObjectRaced(u) == out[u] # None /\ out[u].raced

\* The graph is what the scans said, which, undisturbed and not raced, is what the sources
\* say.
GraphInv ==
    /\ \A h \in Headers : topo[h] = {}
    /\ quiet => \A u \in scanned : ScanRaced(u) \/ topo[u] = src[u].imports
    /\ pc \in {"compile", "link", "ok"} => ~Cyclic(topo) /\ scanned = Sources
    /\ pc \in {"idle", "scan"} => \A u \in Units : status[u] = "wait"

\* A unit is looked at when all it is compiled with is done.
ReadyInv == \A u \in Units : status[u] # "wait" =>
    \A p \in References[u] : status[p] = "done"
Behind(u) == status[u] \in {"written", "done"}
PresentInv == \A u \in Units : Behind(u) => out[u] # None

\* What an undisturbed wave leaves behind, and is sound, is made from what is there.
Fresh(u) ==
    /\ out[u].src = src[u].time /\ out[u].imports = src[u].imports
    /\ \A p \in DOMAIN out[u].used :
          p \in References[u] /\ out[p] # None /\ out[p].time <= out[u].time
FreshInv == quiet => \A u \in Units : Behind(u) /\ Sound(u) => Fresh(u)
DoneInv == pc # "compile" => \A u \in Planned : status[u] = "done"
WaveInv == pc \in {"compile", "link", "ok"} => ReadyInv /\ PresentInv /\ FreshInv /\ DoneInv

\* A unit whose imports a build in its waves may have wrong, to the end of the build.
Misled(u) == ScanRaced(u) \/ (status[u] = "done" /\ ObjectRaced(u))

\* How an undisturbed build ends.
EndInv == quiet =>
    /\ pc = "ok" => exe # None /\ exe.objs = [u \in Sources |-> out[u].time]
    /\ failing => faulted \/ (pc # "scan" /\ \E u \in Units : Misled(u))
    /\ pc = "failed" /\ ~faulted => \/ Cyclic([u \in Units |-> src[u].imports])
                                     \/ \E u \in Units : Overtaken(u)

BuildInv == GraphInv /\ WaveInv /\ EndInv
ModuleInv == TypeInv /\ DiskInv /\ TextInv /\ BuildInv
-----------------------------------------------------------------------------
(* Facts of every state *)

\* A file is something.
LEMMA NothingIsNoFile ==
    None \notin Texts /\ None \notin Scans /\ None \notin Objects /\ None \notin Entries /\ None \notin Images
<1>1. DOMAIN None = {"kind"}
  BY DEF None
<1>2. /\ \A r \in Texts : "time" \in DOMAIN r
      /\ \A r \in Scans : "time" \in DOMAIN r
  BY DEF Texts, Scans
<1>3. \A r \in Objects : "time" \in DOMAIN r
  BY DEF Objects
<1>4. \A r \in Entries : "refs" \in DOMAIN r
  BY DEF Entries
<1>5. \A r \in Images : "time" \in DOMAIN r
  BY DEF Images
<1> QED BY <1>1, <1>2, <1>3, <1>4, <1>5

\* The graph of a build that compiles or links is levelled.
LEMMA BuildsLevelled ==
    ASSUME TypeInv, GraphInv, pc \in {"compile", "link", "ok"}
    PROVE  Levelled
BY DEF TypeInv, TypeOK, GraphInv, Levelled

\* Objects and what compilers read name units.
LEMMA ImportsAreTyped == ASSUME TypeInv PROVE ImportsTyped
BY DEF TypeInv, ShapeInv, Texts, Objects, ImportsTyped

\* A reused scan that was not raced is the truth.
LEMMA TruthfulScans == ASSUME TypeInv, ScanInv PROVE ScanTruthful
<1> SUFFICES ASSUME NEW u \in Sources, EvidenceHolds(u), ~scanFile[u].raced
             PROVE  scanFile[u].imports = src[u].imports
  BY DEF ScanTruthful
<1>1. u \in Units /\ entry[u] # None /\ entry[u].scan # None /\ scanFile[u] # None
  BY DEF Sources, EvidenceHolds
<1>2. entry[u].scan.src = src[u].time /\ entry[u].scan.out = scanFile[u].time
  BY DEF EvidenceHolds
<1> QED BY <1>1, <1>2 DEF ScanInv

\* The graph decides levels, references and what is planned.
LEMMA GraphKept ==
    ASSUME topo' = topo
    PROVE  /\ References' = References /\ Planned' = Planned /\ Cyclic(topo)' = Cyclic(topo)
           /\ \A u \in Units : Level(u)' = Level(u)
BY DEF References, Planned, Cyclic, TakenBy, Level

\* In an undisturbed build the scan of a unit is what its source says, if no edit raced it.
LEMMA QuietTopology ==
    ASSUME ModuleInv, pc = "compile", quiet, NEW u \in Units, ~ScanRaced(u)
    PROVE  topo[u] = src[u].imports
<1> USE DEF ModuleInv, BuildInv
<1>1. CASE u \in Headers
  <2>1. src[u].imports \in Choices[u] /\ Choices[u] = {{}}
    BY <1>1, UnitsAssumption DEF TypeInv, TypeOK
  <2> QED BY <1>1, <2>1 DEF GraphInv
<1>2. CASE u \notin Headers
  BY <1>2 DEF GraphInv, Sources
<1> QED BY <1>1, <1>2

\* In an undisturbed build all that a unit is compiled with is there when its turn comes,
\* and what is sound of it imports no more than is there too.
LEMMA QuietReferences ==
    ASSUME ModuleInv, pc = "compile", quiet, NEW u \in Units,
           \A p \in References[u] : status[p] = "done" /\ ~Overtaken(p)
    PROVE  /\ topo[u] \subseteq References[u] /\ References[u] \in SUBSET Units
           /\ \A p \in References[u] : out[p] # None /\ out[p].imports \subseteq References[u]
<1> USE DEF ModuleInv, BuildInv, WaveInv
<1>1. Levelled
  BY BuildsLevelled
<1>2. References[u] \in SUBSET Units /\ topo[u] \subseteq References[u]
  BY <1>1, ReferencesClosed
<1>3. ASSUME NEW p \in References[u]
      PROVE  out[p] # None /\ out[p].imports \subseteq References[u]
  <2>1. p \in Units /\ Behind(p)
    BY <1>2 DEF Behind
  <2>2. topo[p] \subseteq References[u] /\ References[p] \subseteq References[u]
    BY <1>1, ReferencesBelow
  <2>3. Sound(p)
    BY <2>2 DEF Sound
  <2>4. out[p] # None /\ out[p].imports = src[p].imports
    BY <2>1, <2>3 DEF PresentInv, FreshInv, Fresh
  <2>5. src[p].imports = topo[p]
    BY <2>1, QuietTopology DEF Overtaken, ScanRaced
  <2> QED BY <2>2, <2>4, <2>5
<1> QED BY <1>2, <1>3

\* So the compiler accepts the unit, if no edit raced its scan.
LEMMA QuietAccepted ==
    ASSUME ModuleInv, pc = "compile", quiet, NEW u \in Units, status[u] = "reading",
           ~ScanRaced(u), \A p \in References[u] : status[p] = "done" /\ ~Overtaken(p)
    PROVE  Accepted(u)
<1> USE DEF ModuleInv
<1>1. reads[u] # None /\ reads[u] = src[u] /\ src[u].imports = topo[u]
  BY QuietTopology DEF TextInv
<1>2. /\ topo[u] \subseteq References[u] /\ References[u] \in SUBSET Units
      /\ \A p \in References[u] : out[p] # None /\ out[p].imports \subseteq References[u]
  BY QuietReferences
<1>3. Needed(u) \subseteq References[u]
  <2>1. /\ reads[u].imports \subseteq References[u]
        /\ \A p \in References[u] \cap Needed(u) : out[p] # None => out[p].imports \subseteq References[u]
    BY <1>1, <1>2
  <2> QED BY <1>1, <1>2, <2>1, ImportsAreTyped, NeededWithin
<1> QED BY <1>2, <1>3 DEF Accepted

\* What a compile leaves.
LEMMA Compiled ==
    ASSUME ModuleInv, NEW u \in Units, Compile(u)
    PROVE  /\ reads[u] # None /\ reads[u] \in Texts
           /\ Needed(u) \in SUBSET Units /\ u \notin Needed(u)
           /\ \A p \in Needed(u) : p \in References[u] /\ out[p] # None /\ out'[p] = out[p]
           /\ \A v \in Units \ {u} : out'[v] = out[v]
           /\ out'[u] # None /\ out'[u].time = clock + 1
           /\ out'[u].src = reads[u].time /\ out'[u].imports = reads[u].imports
           /\ out'[u].used = [p \in Needed(u) |-> out[p].time] /\ DOMAIN out'[u].used = Needed(u)
           /\ out'[u].raced = (src[u].time # reads[u].time)
           /\ out' \in [Units -> {None} \cup Objects]
<1> USE DEF ModuleInv, BuildInv
<1>1. Levelled
  BY BuildsLevelled DEF Compile
<1>0. reads[u] # None /\ reads[u] \in Texts
  BY DEF Compile, TextInv, TypeInv, ShapeInv
<1>2. Needed(u) \in SUBSET Units
  BY <1>0, ImportsAreTyped, NeededWithin
<1>3. \A p \in Needed(u) : p \in References[u] /\ out[p] # None
  BY DEF Compile, Accepted
<1>4. u \notin Needed(u)
  <2>1. Level(u) \in Nat
    BY <1>1, LevelsRise, UnitsCount
  <2> QED BY <1>1, <1>3, <2>1, ReferencesBelow
<1> DEFINE made == [p \in Needed(u) |-> out[p].time]
           o == [time |-> clock + 1, src |-> reads[u].time, imports |-> reads[u].imports,
                 used |-> made, raced |-> src[u].time # reads[u].time]
<1>5. made \in UNION {[S -> Nat] : S \in SUBSET Units} /\ DOMAIN made = Needed(u)
  <2>1. \A p \in Needed(u) : out[p].time \in Nat
    BY <1>2, <1>3 DEF TypeInv, ShapeInv, Objects
  <2>2. made \in [Needed(u) -> Nat]
    BY <2>1
  <2> QED BY <1>2, <2>2
<1>6. out' = [out EXCEPT ![u] = o]
  BY DEF Compile, Raced
<1> HIDE DEF made
<1>7. /\ o.time = clock + 1 /\ o.src = reads[u].time /\ o.imports = reads[u].imports
      /\ o.used = made /\ o.raced = (src[u].time # reads[u].time)
  OBVIOUS
<1>8. clock + 1 \in Nat /\ reads[u].time \in Nat /\ reads[u].imports \in SUBSET Units
  BY <1>0 DEF TypeInv, TypeOK, Texts
<1>9. o \in Objects
  <2>1. (src[u].time # reads[u].time) \in BOOLEAN
    OBVIOUS
  <2> QED BY <1>5, <1>8, <2>1 DEF Objects
<1>10. o # None
  BY <1>9, NothingIsNoFile
<1> HIDE DEF o
<1>11. /\ out'[u] = o /\ \A v \in Units \ {u} : out'[v] = out[v]
       /\ out' \in [Units -> {None} \cup Objects]
  BY <1>6, <1>9 DEF TypeInv, ShapeInv
<1> QED BY <1>0, <1>2, <1>3, <1>4, <1>5, <1>7, <1>10, <1>11 DEF made
-----------------------------------------------------------------------------
(* The first state, and the files *)

\* Nothing has been scanned, compiled or linked.
LEMMA ModuleStart == Init => ModuleInv
<1> SUFFICES ASSUME Init PROVE ModuleInv
  OBVIOUS
<1>1. src \in [Units -> Texts] /\ \A u \in Units : src[u].time = 1 /\ src[u].imports \in Choices[u]
  BY UnitsAssumption DEF Init, Texts
<1>2. ShapeInv
  BY <1>1 DEF Init, ShapeInv
<1>0. TypeOK
  <2>1. /\ clock \in Nat /\ edits \in 0 .. MaxEdits /\ builds \in 0 .. MaxBuilds /\ 1 \in 1 .. clock
        /\ topo \in [Units -> SUBSET Units]
        /\ status \in [Units -> {"wait", "build", "reading", "written", "done", "failed"}]
    BY UnitsAssumption DEF Init
  <2>2. \A u \in Units : /\ src[u].time \in 1 .. clock /\ src[u].imports \in Choices[u]
                         /\ scanFile[u] = None /\ out[u] = None /\ entry[u] = None
                         /\ reads[u] = None
    BY <1>1, <2>1 DEF Init
  <2>3. \A h \in Headers : scanFile[h] = None
    BY UnitsAssumption DEF Init
  <2> QED BY <2>1, <2>2, <2>3 DEF Init, TypeOK
<1>3. DiskInv
  BY DEF Init, DiskInv, SourceInv, ScanInv, ReadInv, ImageInv
<1>4. BuildInv
  BY UnitsAssumption DEF Init, BuildInv, GraphInv, WaveInv, EndInv, Sources
<1>5. TextInv
  BY DEF Init, TextInv
<1> QED BY <1>0, <1>2, <1>3, <1>4, <1>5 DEF ModuleInv, TypeInv

\* Files that nothing touches.
LEMMA DiskKept ==
    ASSUME DiskInv, UNCHANGED diskVars
    PROVE  DiskInv'
BY DEF DiskInv, SourceInv, ScanInv, ReadInv, Within, ImageInv, diskVars

\* What a scan that ends leaves: the file of what the scanner has read.
LEMMA Scanned ==
    ASSUME TypeInv, NEW u \in Units, FinishScan(u)
    PROVE  /\ reads[u] # None /\ reads[u] \in Texts
           /\ \A v \in Units \ {u} : scanFile'[v] = scanFile[v]
           /\ scanFile'[u] # None /\ scanFile'[u].time = clock
           /\ scanFile'[u].imports = reads[u].imports
           /\ scanFile'[u].raced = (src[u].time # reads[u].time)
           /\ scanFile' \in [Units -> {None} \cup Scans]
<1> USE DEF TypeInv
<1>1. reads[u] # None /\ reads[u] \in Texts
  BY DEF FinishScan, ShapeInv
<1> DEFINE f == [time |-> clock, imports |-> reads[u].imports, raced |-> src[u].time # reads[u].time]
<1>2. scanFile' = [scanFile EXCEPT ![u] = f]
  BY DEF FinishScan, Raced
<1>3. f.time = clock /\ f.imports = reads[u].imports /\ f.raced = (src[u].time # reads[u].time)
  OBVIOUS
<1>4. f \in Scans
  <2>1. clock \in Nat /\ reads[u].imports \in SUBSET Units /\ (src[u].time # reads[u].time) \in BOOLEAN
    BY <1>1 DEF TypeOK, Texts
  <2> QED BY <2>1 DEF Scans
<1>5. f # None
  BY <1>4, NothingIsNoFile
<1> HIDE DEF f
<1>6. /\ scanFile'[u] = f /\ \A v \in Units \ {u} : scanFile'[v] = scanFile[v]
      /\ scanFile' \in [Units -> {None} \cup Scans]
  BY <1>2, <1>4 DEF ShapeInv
<1> QED BY <1>1, <1>3, <1>5, <1>6

\* The old scan goes away when a scan starts.
LEMMA ScanGone ==
    ASSUME TypeInv, NEW u \in Units, StartScan(u)
    PROVE  /\ scanFile'[u] = None /\ reads'[u] = src[u]
           /\ \A v \in Units \ {u} : scanFile'[v] = scanFile[v] /\ reads'[v] = reads[v]
           /\ scanFile' \in [Units -> {None} \cup Scans] /\ reads' \in [Units -> {None} \cup Texts]
BY DEF StartScan, TypeInv, ShapeInv

\* A scan.
LEMMA ScanDisk ==
    ASSUME ModuleInv, NEW u \in Units, StartScan(u) \/ FinishScan(u)
    PROVE  DiskInv'
<1> USE DEF ModuleInv, DiskInv
<1>1. UNCHANGED <<src, out, entry, exe>>
  BY DEF StartScan, FinishScan
<1>2. SourceInv' /\ ReadInv' /\ ImageInv'
  BY <1>1 DEF SourceInv, ReadInv, Within, ImageInv
<1>3. CASE StartScan(u)
  BY <1>1, <1>2, <1>3, ScanGone DEF ScanInv
<1>4. CASE FinishScan(u)
  <2>1. ~scanFile'[u].raced => scanFile'[u].imports = src[u].imports
    BY <1>4, Scanned DEF TextInv
  <2>2. ScanInv'
    BY <1>1, <1>4, <2>1, Scanned DEF ScanInv
  <2> QED BY <1>2, <2>2
<1> QED BY <1>3, <1>4

\* A compile: its object is younger than all others.
LEMMA CompileDisk ==
    ASSUME ModuleInv, NEW u \in Units, Compile(u)
    PROVE  DiskInv'
<1> USE DEF ModuleInv, DiskInv
<1>1. UNCHANGED <<src, scanFile, entry, exe>>
  BY DEF Compile
<1>2. /\ \A v \in Units \ {u} : out'[v] = out[v]
      /\ out'[u].time = clock + 1 /\ out'[u].imports = reads[u].imports /\ reads[u] # None
      /\ out'[u].used = [p \in Needed(u) |-> out[p].time] /\ DOMAIN out'[u].used = Needed(u)
      /\ out'[u] # None
  BY Compiled
<1>3. clock \in Nat /\ \A v \in Units : out[v] # None => out[v].time \in 1 .. clock
  BY DEF TypeInv, TypeOK
<1>4. SourceInv' /\ ScanInv'
  <2>1. ~out'[u].raced => out'[u].src = src[u].time /\ out'[u].imports = src[u].imports
    BY Compiled DEF TextInv
  <2> QED BY <1>1, <1>2, <2>1 DEF SourceInv, ScanInv
<1>5. ImageInv'
  <2>1. exe # None => exe.time \in 1 .. clock
    BY DEF TypeInv, TypeOK
  <2> QED BY <1>1, <1>2, <1>3, <2>1 DEF ImageInv, Sources
<1>6. ASSUME NEW v \in Units \ {u}, out[v] # None
      PROVE  /\ \A p \in DOMAIN out'[v].used :
                   (out'[p] # None /\ out'[p].time <= out'[v].time) => out'[v].used[p] = out'[p].time
             /\ \A S \in SUBSET Units : Within(v, S)' => DOMAIN out'[v].used \subseteq S
  <2>1. out'[v] = out[v] /\ out[v].time < out'[u].time /\ ~(out'[u].time <= out'[v].time)
    BY <1>2, <1>3, <1>6
  <2>2. DOMAIN out[v].used \subseteq Units
    BY <1>6 DEF TypeInv, TypeOK
  <2>3. ASSUME NEW p \in DOMAIN out'[v].used, out'[p] # None, out'[p].time <= out'[v].time
        PROVE  out'[v].used[p] = out'[p].time
    <3>1. p # u /\ p \in Units
      BY <2>1, <2>2, <2>3
    <3> QED BY <1>2, <1>6, <2>1, <2>3, <3>1 DEF ReadInv
  <2>4. ASSUME NEW S \in SUBSET Units, Within(v, S)'
        PROVE  DOMAIN out'[v].used \subseteq S
    <3>1. u \notin S
      BY <2>1, <2>4 DEF Within
    <3>2. Within(v, S)
      BY <1>2, <2>1, <2>4, <3>1 DEF Within
    <3> QED BY <1>6, <2>1, <3>2 DEF ReadInv
  <2> QED BY <2>3, <2>4
<1>7. \A p \in DOMAIN out'[u].used : out'[u].used[p] = out'[p].time
  <2> SUFFICES ASSUME NEW p \in Needed(u) PROVE out'[u].used[p] = out'[p].time
    BY <1>2
  <2>1. out'[p] = out[p]
    BY Compiled
  <2>2. out'[u].used[p] = out[p].time
    BY <1>2
  <2> QED BY <2>1, <2>2
<1>8. ASSUME NEW S \in SUBSET Units, Within(u, S)' PROVE Needed(u) \subseteq S
  <2>1. reads[u].imports \subseteq S
    BY <1>2, <1>8 DEF Within
  <2>2. \A p \in S \cap Needed(u) : out[p].imports \subseteq S
    BY <1>8, Compiled DEF Within
  <2> QED BY <1>2, <2>1, <2>2, ImportsAreTyped, NeededWithin
<1>9. ReadInv'
  BY <1>2, <1>6, <1>7, <1>8 DEF ReadInv
<1> QED BY <1>4, <1>5, <1>9

\* A compile that fails may take an object away.
LEMMA CompileFailsDisk ==
    ASSUME ModuleInv, NEW u \in Units, CompileFails(u)
    PROVE  DiskInv'
<1> USE DEF ModuleInv, DiskInv
<1>1. UNCHANGED <<src, scanFile, entry, exe>>
  BY DEF CompileFails
<1>2. \A v \in Units : out'[v] \in {None, out[v]}
  BY DEF CompileFails, TypeInv, ShapeInv
<1>3. SourceInv' /\ ScanInv' /\ ImageInv'
  BY <1>1, <1>2 DEF SourceInv, ScanInv, ImageInv, Sources
<1>4. ASSUME NEW v \in Units, out'[v] # None
      PROVE  /\ \A p \in DOMAIN out'[v].used :
                   (out'[p] # None /\ out'[p].time <= out'[v].time) => out'[v].used[p] = out'[p].time
             /\ \A S \in SUBSET Units : Within(v, S)' => DOMAIN out'[v].used \subseteq S
  <2>1. out'[v] = out[v] /\ out[v] # None
    BY <1>2, <1>4
  <2>2. DOMAIN out[v].used \subseteq Units
    BY <2>1 DEF TypeInv, TypeOK
  <2>3. ASSUME NEW p \in DOMAIN out'[v].used, out'[p] # None, out'[p].time <= out'[v].time
        PROVE  out'[v].used[p] = out'[p].time
    BY <1>2, <2>1, <2>2, <2>3 DEF ReadInv
  <2>4. ASSUME NEW S \in SUBSET Units, Within(v, S)' PROVE DOMAIN out'[v].used \subseteq S
    <3>1. Within(v, S)
      BY <1>2, <2>1, <2>4 DEF Within
    <3> QED BY <2>1, <3>1 DEF ReadInv
  <2> QED BY <2>3, <2>4
<1>5. ReadInv'
  BY <1>4 DEF ReadInv
<1> QED BY <1>3, <1>5

\* Evidence is sealed of a scan that nothing is newer than.
LEMMA SealDisk ==
    ASSUME ModuleInv, NEW u \in Units, Seal(u)
    PROVE  DiskInv'
<1> USE DEF ModuleInv, DiskInv
<1>1. UNCHANGED <<src, scanFile, out, exe>>
  BY DEF Seal
<1>2. SourceInv' /\ ReadInv' /\ ImageInv'
  BY <1>1 DEF SourceInv, ReadInv, Within, ImageInv
<1>3. ScanInv'
  <2> SUFFICES ASSUME NEW v \in Units, entry'[v] # None, entry'[v].scan # None
               PROVE  entry'[v].scan.src <= entry'[v].scan.out
    BY <1>1 DEF ScanInv
  <2>1. \/ entry'[v] = entry[v]
        \/ v = u /\ entry'[u] = [refs |-> References[u], scan |-> ScanEvidence(u)]
    BY DEF Seal, TypeInv, ShapeInv
  <2>2. CASE entry'[v] = entry[v]
    BY <2>2 DEF ScanInv
  <2>3. CASE v = u /\ entry'[u] = [refs |-> References[u], scan |-> ScanEvidence(u)]
    <3>1. entry'[v].scan = ScanEvidence(u)
      BY <2>3
    <3>2. scanFile[u] # None /\ ~(src[u].time > scanFile[u].time)
          /\ entry'[v].scan = [src |-> src[u].time, out |-> scanFile[u].time]
      BY <3>1 DEF ScanEvidence
    <3>3. src[u].time \in Nat /\ scanFile[u].time \in Nat
      BY <3>2 DEF TypeInv, ShapeInv, Texts, Scans
    <3> QED BY <3>2, <3>3
  <2> QED BY <2>1, <2>2, <2>3
<1> QED BY <1>2, <1>3

\* The link.
LEMMA LinkDisk ==
    ASSUME ModuleInv, Link \/ LinkFails
    PROVE  DiskInv'
<1> USE DEF ModuleInv, DiskInv
<1>1. UNCHANGED <<src, scanFile, out, entry>>
  BY DEF Link, LinkFails
<1>2. SourceInv' /\ ScanInv' /\ ReadInv'
  BY <1>1 DEF SourceInv, ScanInv, ReadInv, Within
<1>3. ImageInv'
  <2>1. CASE exe' \in {None, exe}
    BY <1>1, <2>1 DEF ImageInv
  <2>2. CASE Link
    BY <1>1, <2>2 DEF Link, ImageInv
  <2> QED BY <2>1, <2>2 DEF LinkFails
<1> QED BY <1>2, <1>3

\* An edit makes the source younger than all that was made from it.
LEMMA EditDisk ==
    ASSUME ModuleInv, NEW u \in Units, Edit(u)
    PROVE  DiskInv'
<1> USE DEF ModuleInv, DiskInv
<1>1. UNCHANGED <<scanFile, out, entry, exe>>
  BY DEF Edit
<1>2. \A v \in Units \ {u} : src'[v] = src[v]
  BY DEF Edit, TypeInv, ShapeInv
<1>3. src'[u].time = clock + 1
  BY DEF Edit, TypeInv, ShapeInv
<1>4. /\ clock \in Nat
      /\ out[u] # None => out[u].time \in 1 .. clock
      /\ scanFile[u] # None => scanFile[u].time \in 1 .. clock
  BY DEF TypeInv, TypeOK
<1>5. SourceInv' /\ ScanInv'
  <2>1. /\ out[u] # None => ~(src'[u].time <= out[u].time)
        /\ scanFile[u] # None => ~(src'[u].time <= scanFile[u].time)
    BY <1>3, <1>4
  <2> QED BY <1>1, <1>2, <2>1 DEF SourceInv, ScanInv
<1>6. ReadInv' /\ ImageInv'
  BY <1>1 DEF ReadInv, Within, ImageInv
<1> QED BY <1>5, <1>6

\* The steps together.
LEMMA DiskStep ==
    ASSUME ModuleInv, [Next]_vars
    PROVE  DiskInv'
<1> USE DEF ModuleInv
<1>1. CASE \/ StartBuild \/ BuildGraph \/ FinishWaves \/ Abandon \/ ReuseLink \/ Kill
           \/ UNCHANGED vars
           \/ \E u \in Units : ReuseScan(u) \/ ScanFails(u) \/ Inspect(u) \/ StartCompile(u)
  BY <1>1, DiskKept
     DEF StartBuild, BuildGraph, FinishWaves, Abandon, ReuseLink, Kill, ReuseScan, ScanFails,
         Inspect, StartCompile, vars
<1>2. CASE Link \/ LinkFails
  BY <1>2, LinkDisk
<1>3. CASE \E u \in Units : \/ StartScan(u) \/ FinishScan(u) \/ Compile(u)
                           \/ CompileFails(u) \/ Seal(u) \/ Edit(u)
  BY <1>3, ScanDisk, CompileDisk, CompileFailsDisk, SealDisk, EditDisk
<1> QED BY <1>1, <1>2, <1>3 DEF Next
-----------------------------------------------------------------------------
(* Types *)

\* A step that touches no file: the progress of the program only.
LEMMA ProgressTyped ==
    ASSUME TypeInv,
           \/ StartBuild \/ BuildGraph \/ FinishWaves \/ Abandon \/ ReuseLink \/ Kill
           \/ UNCHANGED vars
           \/ \E u \in Units : ReuseScan(u) \/ ScanFails(u) \/ Inspect(u) \/ StartCompile(u)
    PROVE  TypeInv'
<1> USE DEF TypeInv
<1>1. UNCHANGED <<clock, edits, src, scanFile, out, entry, exe>>
  BY DEF StartBuild, BuildGraph, FinishWaves, Abandon, ReuseLink, Kill, ReuseScan, ScanFails,
         Inspect, StartCompile, vars, diskVars, boundVars
<1>2. /\ reads' \in [Units -> {None} \cup Texts]
      /\ \A u \in Units : reads'[u] \in {None, reads[u], src[u]}
  <2>1. CASE \E u \in Units : ScanFails(u) \/ StartCompile(u)
    BY <2>1 DEF ScanFails, StartCompile, ShapeInv
  <2>2. CASE StartBuild \/ Kill
    BY <2>2 DEF StartBuild, Kill, Forget
  <2>3. CASE UNCHANGED reads
    BY <2>3 DEF ShapeInv
  <2>4. CASE \/ BuildGraph \/ FinishWaves \/ Abandon \/ ReuseLink \/ UNCHANGED vars
             \/ \E u \in Units : ReuseScan(u) \/ Inspect(u)
    BY <2>3, <2>4 DEF BuildGraph, FinishWaves, Abandon, ReuseLink, ReuseScan, Inspect, vars
  <2> QED BY <2>1, <2>2, <2>4
<1>3. ShapeInv'
  BY <1>1, <1>2 DEF ShapeInv
<1>4. builds' \in 0 .. MaxBuilds
  BY UnitsAssumption DEF StartBuild, BuildGraph, FinishWaves, Abandon, ReuseLink, Kill, ReuseScan,
         ScanFails, Inspect, StartCompile, vars, boundVars, TypeOK
<1>5. /\ pc' \in {"idle", "scan", "compile", "link", "ok", "failed"}
      /\ failing' \in BOOLEAN /\ quiet' \in BOOLEAN /\ faulted' \in BOOLEAN
  BY DEF StartBuild, BuildGraph, FinishWaves, Abandon, ReuseLink, Kill, ReuseScan, ScanFails,
         Inspect, StartCompile, vars, Forget, TypeOK
<1>6. ASSUME NEW u \in Units, ReuseScan(u)
      PROVE  scanned' \in SUBSET Sources /\ topo' \in [Units -> SUBSET Units]
  <2>1. scanFile[u].imports \in SUBSET Units
    BY <1>6 DEF ReuseScan, EvidenceHolds, ShapeInv, Scans
  <2> QED BY <1>6, <2>1 DEF ReuseScan, TypeOK
<1>7. scanned' \in SUBSET Sources /\ topo' \in [Units -> SUBSET Units]
  <2>1. CASE StartBuild \/ Kill
    BY <2>1 DEF StartBuild, Kill, Forget
  <2>2. CASE UNCHANGED scanVars
    BY <2>2 DEF scanVars, TypeOK
  <2>3. CASE \/ BuildGraph \/ FinishWaves \/ Abandon \/ ReuseLink \/ UNCHANGED vars
             \/ \E u \in Units : ScanFails(u) \/ Inspect(u) \/ StartCompile(u)
    BY <2>2, <2>3 DEF BuildGraph, FinishWaves, Abandon, ReuseLink, ScanFails, Inspect,
         StartCompile, vars
  <2> QED BY <1>6, <2>1, <2>3
<1>8. /\ compiled' \in SUBSET Units
      /\ status' \in [Units -> {"wait", "build", "reading", "written", "done", "failed"}]
  BY DEF StartBuild, BuildGraph, FinishWaves, Abandon, ReuseLink, Kill, ReuseScan, ScanFails,
         Inspect, StartCompile, vars, Forget, waveVars, TypeOK
<1>9. \A u \in Units : reads'[u] # None =>
         reads'[u].time \in 1 .. clock /\ reads'[u].imports \in Choices[u]
  BY <1>2 DEF TypeOK
<1> QED BY <1>1, <1>3, <1>4, <1>5, <1>7, <1>8, <1>9 DEF TypeOK

\* A scan.
LEMMA ScanTyped ==
    ASSUME TypeInv, NEW u \in Units, StartScan(u) \/ FinishScan(u)
    PROVE  TypeInv'
<1> USE DEF TypeInv
<1>1. /\ UNCHANGED <<clock, edits, builds, src, out, entry, exe, pc, failing, quiet, faulted,
                     status, compiled>>
      /\ u \in Sources /\ u \notin Headers
  BY DEF StartScan, FinishScan, boundVars, waveVars, Sources
<1>2. clock \in Nat /\ clock >= 1
  BY DEF TypeOK
<1>3. CASE StartScan(u)
  <2>1. scanFile' \in [Units -> {None} \cup Scans] /\ reads' \in [Units -> {None} \cup Texts]
    BY <1>3, ScanGone
  <2>2. ShapeInv'
    BY <1>1, <2>1 DEF ShapeInv
  <2>3. \A v \in Units :
           /\ scanFile'[v] # None => scanFile'[v] = scanFile[v]
           /\ reads'[v] # None => reads'[v] \in {reads[v], src[v]}
           /\ scanFile[v] = None => scanFile'[v] = None
    BY <1>3, ScanGone
  <2>4. \A h \in Headers : scanFile'[h] = None
    BY <2>3, UnitsAssumption DEF TypeOK
  <2>5. UNCHANGED <<scanned, topo>>
    BY <1>3 DEF StartScan, scanVars
  <2>6. \A v \in Units :
           /\ reads'[v] # None => reads'[v].time \in 1 .. clock /\ reads'[v].imports \in Choices[v]
           /\ scanFile'[v] # None => /\ scanFile'[v].time \in 1 .. clock
                                     /\ scanFile'[v].imports \in Choices[v]
    BY <2>3 DEF TypeOK
  <2> QED BY <1>1, <2>2, <2>4, <2>5, <2>6 DEF TypeOK
<1>4. CASE FinishScan(u)
  <2>1. reads' = [reads EXCEPT ![u] = None]
    BY <1>4 DEF FinishScan
  <2>2. /\ reads' \in [Units -> {None} \cup Texts]
        /\ \A v \in Units : reads'[v] \in {None, reads[v]}
    BY <2>1 DEF ShapeInv
  <2>3. ShapeInv'
    BY <1>1, <1>4, <2>2, Scanned DEF ShapeInv
  <2>4. reads[u].imports \in Choices[u] /\ reads[u].imports \in SUBSET Units
    BY <1>4, Scanned DEF TypeOK, Texts
  <2>5. \A v \in Units : scanFile'[v] # None =>
           scanFile'[v].time \in 1 .. clock /\ scanFile'[v].imports \in Choices[v]
    BY <1>2, <1>4, <2>4, Scanned DEF TypeOK
  <2>6. \A h \in Headers : scanFile'[h] = None
    BY <1>1, <1>4, Scanned, UnitsAssumption DEF TypeOK
  <2>7. scanned' \in SUBSET Sources /\ topo' \in [Units -> SUBSET Units]
    BY <1>1, <1>4, <2>4 DEF FinishScan, TypeOK
  <2>8. \A v \in Units : reads'[v] # None =>
           reads'[v].time \in 1 .. clock /\ reads'[v].imports \in Choices[v]
    BY <2>2 DEF TypeOK
  <2> QED BY <1>1, <2>3, <2>5, <2>6, <2>7, <2>8 DEF TypeOK
<1> QED BY <1>3, <1>4

\* A compile.
LEMMA CompileTyped ==
    ASSUME ModuleInv, NEW u \in Units, Compile(u)
    PROVE  TypeInv'
<1> USE DEF ModuleInv, TypeInv
<1>1. /\ UNCHANGED <<edits, builds, src, scanFile, entry, exe, pc, quiet, scanned, topo>>
      /\ UNCHANGED <<failing, faulted>> /\ clock' = clock + 1 /\ clock \in Nat
      /\ compiled' = compiled \cup {u} /\ status' = [status EXCEPT ![u] = "written"]
  BY DEF Compile, boundVars, scanVars, TypeOK
<1>2. \A n : n \in 1 .. clock => n \in 1 .. clock'
  BY <1>1
<1>3. \A v \in Units : out'[v] # None =>
         /\ out'[v].time \in 1 .. clock' /\ out'[v].src \in 1 .. clock'
         /\ DOMAIN out'[v].used \subseteq Units
  <2>1. reads[u].time \in 1 .. clock
    BY Compiled DEF TypeOK
  <2>4. /\ out'[u].time = clock + 1 /\ out'[u].src = reads[u].time
        /\ DOMAIN out'[u].used \subseteq Units
    BY Compiled
  <2>2. /\ out'[u].time \in 1 .. clock' /\ out'[u].src \in 1 .. clock'
        /\ DOMAIN out'[u].used \subseteq Units
    BY <1>1, <2>1, <2>4
  <2>3. \A v \in Units \ {u} : out'[v] = out[v]
    BY Compiled
  <2> QED BY <1>2, <2>2, <2>3 DEF TypeOK
<1>8. /\ reads' \in [Units -> {None} \cup Texts]
      /\ \A v \in Units : reads'[v] # None =>
            reads'[v].time \in 1 .. clock' /\ reads'[v].imports \in Choices[v]
  <2>1. reads' = [reads EXCEPT ![u] = None]
    BY DEF Compile
  <2>2. reads' \in [Units -> {None} \cup Texts] /\ \A v \in Units : reads'[v] \in {None, reads[v]}
    BY <2>1 DEF ShapeInv
  <2> QED BY <1>2, <2>2 DEF TypeOK
<1>4. ShapeInv'
  BY <1>1, <1>8, Compiled DEF ShapeInv
<1>5. \A v \in Units :
        /\ src'[v].time \in 1 .. clock' /\ src'[v].imports \in Choices[v]
        /\ scanFile'[v] # None => scanFile'[v].time \in 1 .. clock' /\ scanFile'[v].imports \in Choices[v]
        /\ entry'[v] # None => entry'[v].refs \in SUBSET Units
  BY <1>1, <1>2 DEF TypeOK
<1>6. exe' # None => exe'.time \in 1 .. clock'
  BY <1>1, <1>2 DEF TypeOK
<1>7. status' \in [Units -> {"wait", "build", "reading", "written", "done", "failed"}] /\ compiled' \in SUBSET Units
  BY <1>1 DEF TypeOK
<1> QED BY <1>1, <1>3, <1>4, <1>5, <1>6, <1>7, <1>8 DEF TypeOK

\* A compile that fails.
LEMMA CompileFailsTyped ==
    ASSUME TypeInv, NEW u \in Units, CompileFails(u)
    PROVE  TypeInv'
<1> USE DEF TypeInv
<1>1. /\ UNCHANGED <<clock, edits, builds, src, scanFile, entry, exe, pc, quiet>>
      /\ UNCHANGED <<scanned, topo, compiled>>
      /\ failing' \in BOOLEAN /\ faulted' \in BOOLEAN
      /\ status' \in [Units -> {"wait", "build", "reading", "written", "done", "failed"}]
  BY DEF CompileFails, boundVars, scanVars, TypeOK
<1>2. /\ out' \in [Units -> {None} \cup Objects]
      /\ \A v \in Units : out'[v] \in {None, out[v]}
  BY DEF CompileFails, ShapeInv
<1>3. /\ reads' \in [Units -> {None} \cup Texts]
      /\ \A v \in Units : reads'[v] \in {None, reads[v]}
  BY DEF CompileFails, ShapeInv
<1> QED BY <1>1, <1>2, <1>3 DEF TypeOK, ShapeInv

\* A save.
LEMMA SealTyped ==
    ASSUME ModuleInv, NEW u \in Units, Seal(u)
    PROVE  TypeInv'
<1> USE DEF ModuleInv, BuildInv, TypeInv
<1>1. /\ UNCHANGED <<clock, edits, builds, src, reads, scanFile, out, exe, pc, quiet>>
      /\ UNCHANGED <<scanned, topo, compiled>>
      /\ failing' \in BOOLEAN /\ faulted' \in BOOLEAN
      /\ status' \in [Units -> {"wait", "build", "reading", "written", "done", "failed"}]
  BY DEF Seal, boundVars, scanVars, TypeOK
<1>2. References[u] \in SUBSET Units
  BY BuildsLevelled, ReferencesClosed DEF Seal
<1>3. ScanEvidence(u) \in {None} \cup [src : Nat, out : Nat]
  <2>1. scanFile[u] # None => scanFile[u].time \in Nat
    BY DEF ShapeInv, Scans
  <2>2. src[u].time \in Nat
    BY DEF ShapeInv, Texts
  <2> QED BY <2>1, <2>2 DEF ScanEvidence
<1>4. [refs |-> References[u], scan |-> ScanEvidence(u)] \in Entries
  BY <1>2, <1>3 DEF Entries
<1>5. entry' \in [Units -> {None} \cup Entries]
  BY <1>4 DEF Seal, ShapeInv
<1>6. \A v \in Units : entry'[v] # None => entry'[v].refs \in SUBSET Units
  BY <1>5 DEF Entries
<1> QED BY <1>1, <1>5, <1>6 DEF TypeOK, ShapeInv

\* A link: every source has its object.
LEMMA LinkTyped ==
    ASSUME ModuleInv, Link \/ LinkFails
    PROVE  TypeInv'
<1> USE DEF ModuleInv, BuildInv, TypeInv
<1>1. /\ UNCHANGED <<edits, builds, src, reads, scanFile, out, entry, failing, quiet>>
      /\ UNCHANGED <<scanned, topo, status, compiled>>
      /\ faulted' \in BOOLEAN /\ pc' \in {"ok", "failed"}
      /\ clock \in Nat /\ clock' \in Nat /\ clock <= clock'
  <2>1. CASE Link
    BY <2>1 DEF Link, boundVars, scanVars, waveVars, TypeOK
  <2>2. CASE LinkFails
    BY <2>2 DEF LinkFails, boundVars, scanVars, waveVars, TypeOK
  <2> QED BY <2>1, <2>2
<1>2. \A n : n \in 1 .. clock => n \in 1 .. clock'
  BY <1>1
<1>3. exe' \in {None} \cup Images /\ (exe' # None => exe'.time \in 1 .. clock')
  <2>1. CASE LinkFails
    BY <2>1, <1>2 DEF LinkFails, ShapeInv, TypeOK
  <2>2. CASE Link
    <3>1. \A u \in Sources : u \in Units /\ out[u] # None
      BY <2>2 DEF Link, WaveInv, DoneInv, PresentInv, Behind, Sources, Planned
    <3>2. \A u \in Sources : out[u].time \in Nat
      BY <3>1 DEF ShapeInv, Objects
    <3>3. [u \in Sources |-> out[u].time] \in [Sources -> Nat]
      BY <3>2
    <3>4. exe' = [time |-> clock + 1, objs |-> [u \in Sources |-> out[u].time]] /\ clock' = clock + 1
      BY <2>2 DEF Link
    <3> QED BY <1>1, <3>3, <3>4 DEF Images
  <2> QED BY <2>1, <2>2
<1>4. \A v \in Units :
        /\ src'[v].time \in 1 .. clock' /\ src'[v].imports \in Choices[v]
        /\ reads'[v] # None => reads'[v].time \in 1 .. clock' /\ reads'[v].imports \in Choices[v]
        /\ scanFile'[v] # None => scanFile'[v].time \in 1 .. clock' /\ scanFile'[v].imports \in Choices[v]
        /\ out'[v] # None => /\ out'[v].time \in 1 .. clock' /\ out'[v].src \in 1 .. clock'
                             /\ DOMAIN out'[v].used \subseteq Units
        /\ entry'[v] # None => entry'[v].refs \in SUBSET Units
  BY <1>1, <1>2 DEF TypeOK
<1> QED BY <1>1, <1>3, <1>4 DEF TypeOK, ShapeInv

\* An edit.
LEMMA EditTyped ==
    ASSUME TypeInv, NEW u \in Units, Edit(u)
    PROVE  TypeInv'
<1> USE DEF TypeInv
<1>1. /\ UNCHANGED <<builds, reads, scanFile, out, entry, exe, pc, failing, faulted>>
      /\ UNCHANGED <<scanned, topo, status, compiled>>
      /\ quiet' = FALSE /\ clock \in Nat /\ clock' = clock + 1 /\ edits' \in 0 .. MaxEdits
  BY UnitsAssumption DEF Edit, scanVars, waveVars, TypeOK
<1>2. \A n : n \in 1 .. clock => n \in 1 .. clock'
  BY <1>1
<1>3. PICK c \in Choices[u] : src' = [src EXCEPT ![u] = [time |-> clock + 1, imports |-> c]]
  BY DEF Edit
<1>4. [time |-> clock + 1, imports |-> c] \in Texts
  BY <1>1, UnitsAssumption DEF Texts
<1>5. src' \in [Units -> Texts]
  BY <1>3, <1>4 DEF ShapeInv
<1>6. \A v \in Units : src'[v].time \in 1 .. clock' /\ src'[v].imports \in Choices[v]
  BY <1>1, <1>2, <1>3 DEF TypeOK, ShapeInv
<1>7. \A v \in Units :
        /\ reads'[v] # None => reads'[v].time \in 1 .. clock' /\ reads'[v].imports \in Choices[v]
        /\ scanFile'[v] # None => scanFile'[v].time \in 1 .. clock' /\ scanFile'[v].imports \in Choices[v]
        /\ out'[v] # None => /\ out'[v].time \in 1 .. clock' /\ out'[v].src \in 1 .. clock'
                             /\ DOMAIN out'[v].used \subseteq Units
        /\ entry'[v] # None => entry'[v].refs \in SUBSET Units
  BY <1>1, <1>2 DEF TypeOK
<1>8. exe' # None => exe'.time \in 1 .. clock'
  BY <1>1, <1>2 DEF TypeOK
<1>9. ShapeInv'
  BY <1>1, <1>5 DEF ShapeInv
<1>10. clock' \in Nat
  BY <1>1
<1>11. quiet' \in BOOLEAN
  BY <1>1, Zenon
<1> QED BY <1>1, <1>6, <1>7, <1>8, <1>9, <1>10, <1>11 DEF TypeOK

\* The steps together.
LEMMA TypeStep ==
    ASSUME ModuleInv, [Next]_vars
    PROVE  TypeInv'
<1> USE DEF ModuleInv
<1>1. CASE \/ StartBuild \/ BuildGraph \/ FinishWaves \/ Abandon \/ ReuseLink \/ Kill
           \/ UNCHANGED vars
           \/ \E u \in Units : ReuseScan(u) \/ ScanFails(u) \/ Inspect(u) \/ StartCompile(u)
  BY <1>1, ProgressTyped
<1>2. CASE Link \/ LinkFails
  BY <1>2, LinkTyped
<1>3. CASE \E u \in Units : \/ StartScan(u) \/ FinishScan(u) \/ Compile(u)
                           \/ CompileFails(u) \/ Seal(u) \/ Edit(u)
  BY <1>3, ScanTyped, CompileTyped, CompileFailsTyped, SealTyped, EditTyped
<1> QED BY <1>1, <1>2, <1>3 DEF Next
-----------------------------------------------------------------------------
(* What is being read *)

\* It is the source there was at the start; an edit since makes the source younger.
LEMMA TextStep ==
    ASSUME ModuleInv, [Next]_vars
    PROVE  TextInv'
<1> USE DEF ModuleInv
<1>1. CASE StartBuild \/ Kill
  BY <1>1 DEF StartBuild, Kill, Forget, TextInv
<1>2. CASE \/ BuildGraph \/ FinishWaves \/ Abandon \/ ReuseLink \/ Link \/ LinkFails
           \/ UNCHANGED vars \/ \E u \in Units : ReuseScan(u)
  <2>1. UNCHANGED <<src, reads, quiet, status>>
    BY <1>2 DEF BuildGraph, FinishWaves, Abandon, ReuseLink, Link, LinkFails, ReuseScan, vars,
         diskVars, waveVars
  <2> QED BY <2>1 DEF TextInv
<1>3. ASSUME NEW u \in Units, StartScan(u) \/ StartCompile(u) PROVE TextInv'
  <2>1. /\ UNCHANGED <<src, quiet>> /\ reads' = [reads EXCEPT ![u] = src[u]]
        /\ \A v \in Units \ {u} : status'[v] = status[v]
    BY <1>3 DEF StartScan, StartCompile, diskVars, waveVars, TypeInv, TypeOK
  <2>2. reads'[u] = src[u] /\ \A v \in Units \ {u} : reads'[v] = reads[v]
    BY <2>1 DEF TypeInv, ShapeInv
  <2>3. src[u] # None
    BY NothingIsNoFile DEF TypeInv, ShapeInv
  <2> QED BY <2>1, <2>2, <2>3 DEF TextInv
<1>4. ASSUME NEW u \in Units, FinishScan(u) \/ ScanFails(u) PROVE TextInv'
  <2>1. /\ UNCHANGED <<src, quiet, status>> /\ reads' = [reads EXCEPT ![u] = None] /\ pc = "scan"
    BY <1>4 DEF FinishScan, ScanFails, diskVars, waveVars
  <2>2. reads'[u] = None /\ \A v \in Units \ {u} : reads'[v] = reads[v]
    BY <2>1 DEF TypeInv, ShapeInv
  <2>3. \A v \in Units : status[v] = "wait"
    BY <2>1 DEF BuildInv, GraphInv
  <2> QED BY <2>1, <2>2, <2>3 DEF TextInv
<1>5. ASSUME NEW u \in Units, Compile(u) \/ CompileFails(u) PROVE TextInv'
  <2>1. /\ UNCHANGED <<src, quiet>> /\ reads' = [reads EXCEPT ![u] = None]
        /\ status'[u] # "reading" /\ \A v \in Units \ {u} : status'[v] = status[v]
    BY <1>5 DEF Compile, CompileFails, TypeInv, TypeOK
  <2>2. reads'[u] = None /\ \A v \in Units \ {u} : reads'[v] = reads[v]
    BY <2>1 DEF TypeInv, ShapeInv
  <2> QED BY <2>1, <2>2 DEF TextInv
<1>6. ASSUME NEW u \in Units, Inspect(u) \/ Seal(u) PROVE TextInv'
  <2>1. /\ UNCHANGED <<src, reads, quiet>>
        /\ status'[u] # "reading" /\ \A v \in Units \ {u} : status'[v] = status[v]
    BY <1>6 DEF Inspect, Seal, diskVars, TypeInv, TypeOK
  <2> QED BY <2>1 DEF TextInv
<1>7. ASSUME NEW u \in Units, Edit(u) PROVE TextInv'
  <2>1. /\ UNCHANGED <<reads, status>> /\ quiet' = FALSE
        /\ \A v \in Units \ {u} : src'[v] = src[v]
    BY <1>7 DEF Edit, waveVars, TypeInv, ShapeInv
  <2>2. src'[u].time = clock + 1
    BY <1>7 DEF Edit, TypeInv, ShapeInv
  <2>3. reads[u] # None => reads[u].time # src'[u].time
    BY <2>2 DEF TypeInv, TypeOK
  <2> QED BY <2>1, <2>3 DEF TextInv
<1> QED BY <1>1, <1>2, <1>3, <1>4, <1>5, <1>6, <1>7 DEF Next
-----------------------------------------------------------------------------
(* A build *)

\* Undisturbed, the graph is what the sources say, if no edit raced a scan.
LEMMA QuietGraph ==
    ASSUME ModuleInv, quiet, scanned = Sources, \A u \in Units : ~ScanRaced(u)
    PROVE  topo = [u \in Units |-> src[u].imports]
<1> USE DEF ModuleInv, BuildInv
<1>1. \A u \in Sources : topo[u] = src[u].imports
  BY DEF GraphInv, Sources
<1>2. ASSUME NEW u \in Headers PROVE topo[u] = src[u].imports
  <2>1. src[u].imports \in Choices[u] /\ Choices[u] = {{}}
    BY UnitsAssumption DEF TypeInv, TypeOK
  <2> QED BY <2>1 DEF GraphInv
<1>3. topo = [u \in Units |-> topo[u]]
  BY DEF TypeInv, TypeOK
<1> QED BY <1>1, <1>2, <1>3 DEF Sources

\* A step that changes neither scans nor the graph, nor what is behind a wave, says of the
\* units behind it what it said.
LEMMA FreshKept ==
    ASSUME ModuleInv, Levelled, ReadyInv, PresentInv, FreshInv, NEW w \in Units,
           UNCHANGED <<src, scanFile, topo>>, status[w] # "done",
           \A v \in Units \ {w} : out'[v] = out[v], NEW v \in Units, v # w, quiet, Behind(v),
           Sound(v)'
    PROVE  Fresh(v)'
<1>1. References' = References
  BY GraphKept
<1>2. References[v] \in SUBSET Units /\ w \notin References[v]
  BY ReferencesClosed DEF ReadyInv, Behind
<1>3. \A p \in References[v] \cup {v} : p \in Units /\ out'[p] = out[p]
  BY <1>2
<1>4. Sound(v) /\ Fresh(v)
  <2>1. Sound(v)
    BY <1>1, <1>3 DEF Sound, Overtaken
  <2> QED BY <2>1 DEF FreshInv
<1>5. ASSUME NEW p \in DOMAIN out'[v].used
      PROVE  p \in References'[v] /\ out'[p] # None /\ out'[p].time <= out'[v].time
  <2>1. p \in References[v] /\ out[p] # None /\ out[p].time <= out[v].time
    BY <1>3, <1>4, <1>5 DEF Fresh
  <2> QED BY <1>1, <1>3, <2>1
<1> QED BY <1>3, <1>4, <1>5 DEF Fresh

\* Nor does it take away what has misled a build.
LEMMA MisledKept ==
    ASSUME UNCHANGED scanFile, NEW w \in Units, status[w] # "done",
           \A v \in Units \ {w} : out'[v] = out[v] /\ status'[v] = status[v],
           \E u \in Units : Misled(u)
    PROVE  (\E u \in Units : Misled(u))'
<1>1. PICK u \in Units : Misled(u)
  OBVIOUS
<1>2. Misled(u)'
  BY <1>1 DEF Misled, ScanRaced, ObjectRaced
<1> QED BY <1>2

\* A build begins, or its process ends.
LEMMA ForgetBuild ==
    ASSUME ModuleInv, StartBuild \/ Kill
    PROVE  BuildInv'
<1>1. /\ pc' \in {"scan", "idle"} /\ failing' = FALSE /\ scanned' = {}
      /\ topo' = [u \in Units |-> {}] /\ status' = [u \in Units |-> "wait"]
  BY DEF StartBuild, Kill, Forget
<1> QED BY <1>1, UnitsAssumption DEF BuildInv, GraphInv, WaveInv, EndInv

\* A scan.
LEMMA ScanBuild ==
    ASSUME ModuleInv, NEW u \in Units,
           ReuseScan(u) \/ StartScan(u) \/ FinishScan(u) \/ ScanFails(u)
    PROVE  BuildInv'
<1> USE DEF ModuleInv, BuildInv
<1>1. /\ pc = "scan" /\ UNCHANGED <<src, pc, quiet, status>> /\ u \in Sources \ scanned
      /\ u \notin Headers
  BY DEF ReuseScan, StartScan, FinishScan, ScanFails, diskVars, waveVars, Sources
<1>2. EndInv'
  BY <1>1 DEF ReuseScan, StartScan, FinishScan, ScanFails, EndInv
<1>3. scanned \subseteq Units
  BY DEF TypeInv, TypeOK, Sources
<1>4. CASE StartScan(u) \/ ScanFails(u)
  <2>1. UNCHANGED <<scanned, topo>> /\ \A v \in Units \ {u} : scanFile'[v] = scanFile[v]
    BY <1>4, ScanGone DEF StartScan, ScanFails, scanVars, diskVars
  <2> QED BY <1>1, <1>2, <1>3, <2>1 DEF GraphInv, WaveInv, ScanRaced
<1>5. CASE ReuseScan(u) \/ FinishScan(u)
  <2>1. /\ scanned' = scanned \cup {u} /\ \A v \in Units \ {u} : scanFile'[v] = scanFile[v]
        /\ \A v \in Units \ {u} : topo'[v] = topo[v]
    BY <1>5, Scanned DEF ReuseScan, FinishScan, diskVars, TypeInv, TypeOK
  <2>2. quiet => ScanRaced(u)' \/ topo'[u] = src[u].imports
    <3>1. CASE ReuseScan(u)
      <4>1. UNCHANGED scanFile /\ topo'[u] = scanFile[u].imports /\ EvidenceHolds(u)
        BY <3>1 DEF ReuseScan, diskVars, TypeInv, TypeOK
      <4>2. scanFile[u] # None /\ (~scanFile[u].raced => scanFile[u].imports = src[u].imports)
        BY <1>1, <4>1, TruthfulScans DEF EvidenceHolds, ScanTruthful, DiskInv
      <4> QED BY <4>1, <4>2 DEF ScanRaced
    <3>2. CASE FinishScan(u)
      <4>1. topo'[u] = reads[u].imports /\ reads[u] # None
        BY <3>2, Scanned DEF FinishScan, TypeInv, TypeOK
      <4> QED BY <4>1 DEF TextInv
    <3> QED BY <1>5, <3>1, <3>2
  <2>3. \A h \in Headers : topo'[h] = {}
    BY <1>1, <2>1, UnitsAssumption DEF GraphInv
  <2>4. quiet => \A v \in scanned' : ScanRaced(v)' \/ topo'[v] = src[v].imports
    BY <1>3, <2>1, <2>2 DEF GraphInv, ScanRaced
  <2> QED BY <1>1, <1>2, <2>3, <2>4 DEF GraphInv, WaveInv
<1> QED BY <1>4, <1>5

\* The graph of an undisturbed build is cyclic when the sources are.
LEMMA GraphBuild ==
    ASSUME ModuleInv, BuildGraph
    PROVE  BuildInv'
<1> USE DEF ModuleInv, BuildInv
<1>1. /\ pc = "scan" /\ ~failing /\ UNCHANGED <<src, scanFile, out, scanned, topo, status>>
      /\ UNCHANGED <<failing, quiet, faulted>>
      /\ scanned = Sources /\ pc' = IF Cyclic(topo) THEN "failed" ELSE "compile"
  BY DEF BuildGraph, diskVars, scanVars, waveVars
<1>2. Cyclic(topo)' = Cyclic(topo)
  BY <1>1, GraphKept
<1>3. GraphInv'
  BY <1>1, <1>2 DEF GraphInv, ScanRaced
<1>4. WaveInv'
  BY <1>1 DEF GraphInv, WaveInv, ReadyInv, PresentInv, FreshInv, DoneInv, Behind
<1>5. EndInv'
  <2> SUFFICES ASSUME quiet, pc' = "failed", \A u \in Units : ~Overtaken(u)'
               PROVE  Cyclic([u \in Units |-> src[u].imports])'
    BY <1>1 DEF EndInv
  <2>0. \A u \in Units : ~ScanRaced(u)
    BY <1>1 DEF Overtaken, ScanRaced
  <2>1. Cyclic(topo)' /\ topo' = [u \in Units |-> src'[u].imports]
    BY <1>1, <1>2, <2>0, QuietGraph
  <2> QED BY <2>1
<1> QED BY <1>3, <1>4, <1>5

\* A unit is inspected: reused, it is as fresh as if it were compiled now.
LEMMA InspectBuild ==
    ASSUME ModuleInv, NEW u \in Units, Inspect(u)
    PROVE  BuildInv'
<1> USE DEF ModuleInv, BuildInv
<1>1. /\ pc = "compile" /\ status[u] = "wait" /\ u \in Planned
      /\ UNCHANGED <<src, scanFile, out, exe, pc, failing, quiet, faulted, scanned, topo>>
      /\ status' \in [Units -> {"wait", "build", "reading", "written", "done", "failed"}]
      /\ \A v \in Units \ {u} : status'[v] = status[v]
      /\ status'[u] = "build" \/ (status'[u] = "done" /\ Reusable(u))
  BY DEF Inspect, diskVars, scanVars, TypeInv, TypeOK
<1>2. Levelled /\ WaveInv /\ ReadyInv /\ PresentInv /\ FreshInv
  BY <1>1, BuildsLevelled DEF WaveInv
<1>3. References[u] \in SUBSET Units /\ \A p \in References[u] : p # u /\ status[p] = "done"
  <2>1. Level(u) \in Nat
    BY <1>2, LevelsRise, UnitsCount
  <2> QED BY <1>2, <2>1, ReferencesClosed, ReferencesBelow DEF Inspect
<1>4. References' = References /\ Planned' = Planned /\ Cyclic(topo)' = Cyclic(topo)
  BY <1>1, GraphKept
<1>10. \A v \in Units : /\ (Fresh(v)' <=> Fresh(v)) /\ (Sound(v)' <=> Sound(v))
                        /\ (ScanRaced(v)' <=> ScanRaced(v)) /\ (Overtaken(v)' <=> Overtaken(v))
                        /\ (Misled(v) => Misled(v)')
  BY <1>1, <1>4 DEF Fresh, Sound, Overtaken, ScanRaced, ObjectRaced, Misled
<1>5. GraphInv' /\ EndInv'
  BY <1>1, <1>4, <1>10 DEF GraphInv, EndInv, TypeInv, TypeOK, Sources
<1>6. ReadyInv'
  <2> SUFFICES ASSUME NEW v \in Units, status'[v] # "wait", NEW p \in References[v]
               PROVE  status'[p] = "done"
    BY <1>4 DEF ReadyInv
  <2>1. p \in Units
    BY <1>2, ReferencesClosed
  <2>2. status[p] = "done"
    BY <1>1, <1>2, <1>3 DEF ReadyInv
  <2> QED BY <1>1, <2>1, <2>2
<1>7. PresentInv'
  BY <1>1, <1>2 DEF PresentInv, Behind, Reusable
<1>8. FreshInv'
  <2> SUFFICES ASSUME quiet, status'[u] = "done", Sound(u) PROVE Fresh(u)
    <3>1. \A v \in Units \ {u} : Behind(v)' <=> Behind(v)
      BY <1>1 DEF Behind
    <3> QED BY <1>1, <1>2, <1>10, <3>1 DEF FreshInv, Behind
  <2>1. /\ Reusable(u) /\ out[u] # None /\ src[u].time <= out[u].time
        /\ \A p \in References[u] : out[p] # None /\ out[p].time <= out[u].time
    BY <1>1 DEF Reusable
  <2>2. out[u].src = src[u].time /\ out[u].imports = src[u].imports /\ src[u].imports = topo[u]
    <3>1. ~out[u].raced /\ ~ScanRaced(u)
      BY <2>1 DEF Sound, Overtaken, ScanRaced
    <3> QED BY <1>1, <2>1, <3>1, QuietTopology DEF DiskInv, SourceInv
  <2>3. Within(u, References[u])
    <3>1. \A p \in References[u] : status[p] = "done" /\ ~Overtaken(p)
      BY <1>3 DEF Sound
    <3> QED BY <1>1, <2>1, <2>2, <3>1, QuietReferences DEF Within
  <2>4. DOMAIN out[u].used \subseteq References[u]
    BY <1>3, <2>1, <2>3 DEF DiskInv, ReadInv
  <2> QED BY <2>1, <2>2, <2>4 DEF Fresh
<1>9. DoneInv'
  BY <1>1 DEF DoneInv
<1> QED BY <1>5, <1>6, <1>7, <1>8, <1>9 DEF WaveInv
\* A unit is compiled: nothing that is behind it has read its object.
LEMMA CompileBuild ==
    ASSUME ModuleInv, NEW u \in Units, Compile(u)
    PROVE  BuildInv'
<1> USE DEF ModuleInv, BuildInv
<1>1. /\ pc = "compile" /\ status[u] = "reading"
      /\ UNCHANGED <<src, scanFile, exe, pc, failing, quiet, faulted, scanned, topo>>
      /\ status'[u] = "written" /\ \A v \in Units \ {u} : status'[v] = status[v]
  BY DEF Compile, scanVars, TypeInv, TypeOK
<1>2. Levelled /\ ReadyInv /\ PresentInv /\ FreshInv
  BY <1>1, BuildsLevelled DEF WaveInv
<1>3. References' = References /\ Planned' = Planned /\ Cyclic(topo)' = Cyclic(topo)
  BY <1>1, GraphKept
<1>4. GraphInv'
  BY <1>1, <1>3 DEF GraphInv, ScanRaced
<1>12. EndInv'
  <2>1. (\E v \in Units : Misled(v)) => (\E v \in Units : Misled(v))'
    BY <1>1, Compiled, MisledKept
  <2> QED BY <1>1, <2>1 DEF EndInv
<1>5. ASSUME NEW v \in Units, status[v] # "wait", NEW p \in References[v]
      PROVE  p \in Units /\ p # u /\ status'[p] = "done"
  <2>1. p \in Units
    BY <1>2, ReferencesClosed
  <2>2. status[p] = "done"
    BY <1>2, <1>5 DEF ReadyInv
  <2> QED BY <1>1, <2>1, <2>2
<1>6. ReadyInv'
  BY <1>1, <1>3, <1>5 DEF ReadyInv
<1>7. /\ out'[u] # None /\ \A v \in Units \ {u} : out'[v] = out[v]
  BY Compiled
<1>8. PresentInv'
  BY <1>1, <1>2, <1>7 DEF PresentInv, Behind
<1>9. ASSUME quiet, NEW v \in Units, Behind(v)', Sound(v)' PROVE Fresh(v)'
  <2>1. CASE v # u
    <3>1. Behind(v)
      BY <1>1, <1>9, <2>1 DEF Behind
    <3> QED BY <1>1, <1>2, <1>7, <1>9, <2>1, <3>1, FreshKept
  <2>2. CASE v = u
    <3>1. /\ reads[u] = src[u] /\ out'[u].src = src[u].time /\ out'[u].imports = src[u].imports
          /\ DOMAIN out'[u].used = Needed(u) /\ out'[u].time = clock + 1
      BY <1>9, Compiled DEF TextInv
    <3>2. ASSUME NEW p \in Needed(u)
          PROVE  p \in References'[u] /\ out'[p] # None /\ out'[p].time <= out'[u].time
      <4>1. p \in References[u] /\ out[p] # None /\ out'[p] = out[p] /\ p \in Units
        BY Compiled
      <4>2. clock \in Nat /\ out[p].time \in 1 .. clock
        BY <4>1 DEF TypeInv, TypeOK
      <4> QED BY <1>3, <3>1, <4>1, <4>2
    <3> QED BY <1>1, <2>2, <3>1, <3>2 DEF Fresh
  <2> QED BY <2>1, <2>2
<1>10. FreshInv'
  BY <1>1, <1>9 DEF FreshInv
<1>11. DoneInv'
  BY <1>1 DEF DoneInv
<1> QED BY <1>4, <1>6, <1>8, <1>10, <1>11, <1>12 DEF WaveInv

\* A compiler starts: nothing is behind the wave that was not.
LEMMA StartCompileBuild ==
    ASSUME ModuleInv, NEW u \in Units, StartCompile(u)
    PROVE  BuildInv'
<1> USE DEF ModuleInv, BuildInv
<1>1. /\ pc = "compile" /\ status[u] = "build"
      /\ UNCHANGED <<src, scanFile, out, exe, pc, failing, quiet, faulted, scanned, topo>>
      /\ status'[u] = "reading" /\ \A v \in Units \ {u} : status'[v] = status[v]
  BY DEF StartCompile, diskVars, scanVars, TypeInv, TypeOK
<1>2. Levelled /\ ReadyInv /\ PresentInv /\ FreshInv
  BY <1>1, BuildsLevelled DEF WaveInv
<1>3. References' = References /\ Planned' = Planned /\ Cyclic(topo)' = Cyclic(topo)
  BY <1>1, GraphKept
<1>4. GraphInv'
  BY <1>1, <1>3 DEF GraphInv, ScanRaced
<1>5. EndInv'
  <2>1. (\E v \in Units : Misled(v)) => (\E v \in Units : Misled(v))'
    BY <1>1, MisledKept
  <2> QED BY <1>1, <2>1 DEF EndInv
<1>6. ReadyInv'
  <2> SUFFICES ASSUME NEW v \in Units, status'[v] # "wait", NEW p \in References[v]
               PROVE  status'[p] = "done"
    BY <1>3 DEF ReadyInv
  <2>1. p \in Units /\ status[p] = "done"
    BY <1>1, <1>2, ReferencesClosed DEF ReadyInv
  <2> QED BY <1>1, <2>1
<1>7. PresentInv' /\ DoneInv'
  BY <1>1, <1>2 DEF PresentInv, Behind, DoneInv
<1>8. ASSUME quiet, NEW v \in Units, Behind(v)', Sound(v)' PROVE Fresh(v)'
  <2>1. v # u /\ Behind(v)
    BY <1>1, <1>8 DEF Behind
  <2> QED BY <1>1, <1>2, <1>8, <2>1, FreshKept
<1>9. FreshInv'
  BY <1>1, <1>8 DEF FreshInv
<1> QED BY <1>4, <1>5, <1>6, <1>7, <1>9 DEF WaveInv

\* A unit that fails: in an undisturbed build the compiler had no reason to reject it.
LEMMA CompileFailsBuild ==
    ASSUME ModuleInv, NEW u \in Units, CompileFails(u)
    PROVE  BuildInv'
<1> USE DEF ModuleInv, BuildInv
<1>1. /\ pc = "compile" /\ status[u] = "reading"
      /\ UNCHANGED <<src, scanFile, exe, pc, quiet, scanned, topo>>
      /\ status'[u] = "failed" /\ \A v \in Units \ {u} : status'[v] = status[v]
      /\ \A v \in Units \ {u} : out'[v] = out[v]
      /\ faulted' = (faulted \/ Accepted(u))
  BY DEF CompileFails, scanVars, TypeInv, TypeOK, ShapeInv
<1>2. Levelled /\ ReadyInv /\ PresentInv /\ FreshInv
  BY <1>1, BuildsLevelled DEF WaveInv
<1>3. References' = References /\ Planned' = Planned /\ Cyclic(topo)' = Cyclic(topo)
  BY <1>1, GraphKept
<1>4. GraphInv'
  BY <1>1, <1>3 DEF GraphInv, ScanRaced
<1>5. ASSUME NEW v \in Units, status[v] # "wait", NEW p \in References[v]
      PROVE  p \in Units /\ p # u /\ status'[p] = "done"
  <2>1. p \in Units
    BY <1>2, ReferencesClosed
  <2>2. status[p] = "done"
    BY <1>2, <1>5 DEF ReadyInv
  <2> QED BY <1>1, <2>1, <2>2
<1>6. ReadyInv'
  BY <1>1, <1>3, <1>5 DEF ReadyInv
<1>7. PresentInv'
  BY <1>1, <1>2 DEF PresentInv, Behind
<1>8. ASSUME quiet, NEW v \in Units, Behind(v)', Sound(v)' PROVE Fresh(v)'
  <2>1. v # u /\ Behind(v)
    BY <1>1, <1>8 DEF Behind
  <2> QED BY <1>1, <1>2, <1>8, <2>1, FreshKept
<1>9. FreshInv'
  BY <1>1, <1>8 DEF FreshInv
<1>10. DoneInv'
  BY <1>1 DEF DoneInv
<1>11. quiet => Accepted(u) \/ \E v \in Units : Misled(v)
  <2> SUFFICES ASSUME quiet, \A v \in Units : ~Misled(v) PROVE Accepted(u)
    OBVIOUS
  <2>1. \A p \in References[u] : status[p] = "done" /\ ~Overtaken(p)
    <3>1. \A p \in References[u] : p \in Units /\ status[p] = "done"
      BY <1>1, <1>2, ReferencesClosed DEF ReadyInv
    <3> QED BY <3>1 DEF Misled, ScanRaced, ObjectRaced, Overtaken
  <2> QED BY <1>1, <2>1, QuietAccepted DEF Misled
<1>12. EndInv'
  <2>1. (\E v \in Units : Misled(v)) => (\E v \in Units : Misled(v))'
    BY <1>1, MisledKept
  <2> QED BY <1>1, <1>11, <2>1 DEF EndInv
<1> QED BY <1>4, <1>6, <1>7, <1>9, <1>10, <1>12 DEF WaveInv

\* A save says nothing of the objects.
LEMMA SealBuild ==
    ASSUME ModuleInv, NEW u \in Units, Seal(u)
    PROVE  BuildInv'
<1> USE DEF ModuleInv, BuildInv
<1>1. /\ pc = "compile" /\ status[u] = "written"
      /\ UNCHANGED <<src, scanFile, out, exe, pc, failing, quiet, scanned, topo>>
      /\ status'[u] = "done" /\ \A v \in Units \ {u} : status'[v] = status[v]
      /\ faulted => faulted'
  BY DEF Seal, scanVars, TypeInv, TypeOK
<1>2. Levelled /\ ReadyInv /\ PresentInv /\ FreshInv
  BY <1>1, BuildsLevelled DEF WaveInv
<1>3. References' = References /\ Planned' = Planned /\ Cyclic(topo)' = Cyclic(topo)
  BY <1>1, GraphKept
<1>4. GraphInv'
  BY <1>1, <1>3 DEF GraphInv, ScanRaced
<1>8. EndInv'
  <2>1. (\E v \in Units : Misled(v)) => (\E v \in Units : Misled(v))'
    BY <1>1, MisledKept
  <2> QED BY <1>1, <2>1 DEF EndInv
<1>5. ReadyInv'
  <2> SUFFICES ASSUME NEW v \in Units, status'[v] # "wait", NEW p \in References[v]
               PROVE  status'[p] = "done"
    BY <1>3 DEF ReadyInv
  <2>1. p \in Units /\ status[p] = "done"
    BY <1>1, <1>2, ReferencesClosed DEF ReadyInv
  <2> QED BY <1>1, <2>1
<1>6. \A v \in Units : (Behind(v)' <=> Behind(v)) /\ (Fresh(v)' <=> Fresh(v)) /\ (Sound(v)' <=> Sound(v))
  BY <1>1, <1>3 DEF Behind, Fresh, Sound, Overtaken
<1>7. PresentInv' /\ FreshInv' /\ DoneInv'
  BY <1>1, <1>2, <1>6 DEF PresentInv, FreshInv, DoneInv
<1> QED BY <1>4, <1>5, <1>7, <1>8 DEF WaveInv

\* The waves end, or are given up.
LEMMA WavesEndBuild ==
    ASSUME ModuleInv, FinishWaves \/ Abandon
    PROVE  BuildInv'
<1> USE DEF ModuleInv, BuildInv
<1>1. UNCHANGED <<src, scanFile, out, exe, failing, quiet, faulted, scanned, topo, status>>
  BY DEF FinishWaves, Abandon, diskVars, scanVars, waveVars
<1>2. References' = References /\ Planned' = Planned /\ Cyclic(topo)' = Cyclic(topo)
  BY <1>1, GraphKept
<1>3. \A v \in Units : /\ (Behind(v)' <=> Behind(v)) /\ (Fresh(v)' <=> Fresh(v))
                       /\ (Sound(v)' <=> Sound(v)) /\ (Overtaken(v)' <=> Overtaken(v))
                       /\ (ScanRaced(v)' <=> ScanRaced(v)) /\ (Misled(v)' <=> Misled(v))
  BY <1>1, <1>2 DEF Behind, Fresh, Sound, Overtaken, ScanRaced, ObjectRaced, Misled
<1>9. \A v \in Units : Misled(v) => Overtaken(v)
  BY DEF Misled, ScanRaced, ObjectRaced, Overtaken
<1>4. CASE Abandon
  <2>1. failing /\ pc' = "failed"
    BY <1>4 DEF Abandon
  <2> QED BY <1>1, <1>3, <1>9, <2>1 DEF GraphInv, WaveInv, EndInv, TypeInv, TypeOK, Sources
<1>5. CASE FinishWaves
  <2>1. pc = "compile" /\ pc' = "link" /\ \A v \in Planned : status[v] = "done"
    BY <1>5 DEF FinishWaves
  <2>2. ReadyInv' /\ PresentInv' /\ FreshInv' /\ DoneInv'
    BY <1>1, <1>2, <1>3, <2>1 DEF WaveInv, ReadyInv, PresentInv, FreshInv, DoneInv
  <2> QED BY <1>1, <1>2, <1>3, <2>1, <2>2
          DEF GraphInv, WaveInv, EndInv, TypeInv, TypeOK, Sources
<1> QED BY <1>4, <1>5

\* The link: a reused image holds the objects there are.
LEMMA LinkBuild ==
    ASSUME ModuleInv, ReuseLink \/ Link \/ LinkFails
    PROVE  BuildInv'
<1> USE DEF ModuleInv, BuildInv
<1>1. /\ UNCHANGED <<src, scanFile, out, failing, quiet, scanned, topo, status>>
      /\ pc = "link" /\ pc' \in {"ok", "failed"}
  BY DEF ReuseLink, Link, LinkFails, diskVars, scanVars, waveVars
<1>2. References' = References /\ Planned' = Planned /\ Cyclic(topo)' = Cyclic(topo)
  BY <1>1, GraphKept
<1>3. \A v \in Units : /\ (Behind(v)' <=> Behind(v)) /\ (Fresh(v)' <=> Fresh(v))
                       /\ (Sound(v)' <=> Sound(v)) /\ (Overtaken(v)' <=> Overtaken(v))
                       /\ (ScanRaced(v)' <=> ScanRaced(v)) /\ (Misled(v)' <=> Misled(v))
  BY <1>1, <1>2 DEF Behind, Fresh, Sound, Overtaken, ScanRaced, ObjectRaced, Misled
<1>9. \A v \in Units : Misled(v) => Overtaken(v)
  BY DEF Misled, ScanRaced, ObjectRaced, Overtaken
<1>4. ReadyInv' /\ PresentInv' /\ FreshInv' /\ DoneInv'
  BY <1>1, <1>2, <1>3 DEF WaveInv, ReadyInv, PresentInv, FreshInv, DoneInv
<1>5. GraphInv' /\ WaveInv'
  BY <1>1, <1>2, <1>3, <1>4 DEF GraphInv, WaveInv, TypeInv, TypeOK, Sources
<1>6. CASE LinkFails
  BY <1>1, <1>3, <1>5, <1>6 DEF LinkFails, EndInv
<1>7. CASE Link
  <2>1. /\ exe' = [time |-> clock + 1, objs |-> [u \in Sources |-> out[u].time]]
        /\ UNCHANGED faulted /\ pc' = "ok"
    BY <1>7 DEF Link
  <2>2. exe'.objs = [u \in Sources |-> out[u].time] /\ "time" \in DOMAIN exe'
    BY <2>1
  <2>3. exe' # None
    BY <2>2 DEF None
  <2> QED BY <1>1, <1>3, <1>5, <2>1, <2>2, <2>3 DEF EndInv
<1>8. CASE ReuseLink
  <2>1. /\ UNCHANGED <<exe, faulted>> /\ pc' = "ok" /\ exe # None
        /\ \A u \in Sources : out[u].time <= exe.time
    BY <1>8 DEF ReuseLink, LinkReusable, diskVars
  <2>2. \A u \in Sources : out[u] # None
    BY <1>1 DEF WaveInv, DoneInv, PresentInv, Behind, Sources, Planned
  <2>3. \A u \in Sources : exe.objs[u] = out[u].time
    BY <2>1, <2>2 DEF DiskInv, ImageInv
  <2>4. exe.objs \in [Sources -> Nat]
    BY <2>1 DEF TypeInv, ShapeInv, Images
  <2>5. exe.objs = [u \in Sources |-> out[u].time]
    BY <2>3, <2>4
  <2> QED BY <1>1, <1>3, <1>5, <2>1, <2>5 DEF EndInv
<1> QED BY <1>6, <1>7, <1>8

\* An edit ends all that is said of the sources.
LEMMA EditBuild ==
    ASSUME ModuleInv, NEW u \in Units, Edit(u)
    PROVE  BuildInv'
<1> USE DEF ModuleInv, BuildInv
<1>1. UNCHANGED <<out, exe, pc, failing, faulted, scanned, topo, status>> /\ quiet' = FALSE
  BY DEF Edit, scanVars, waveVars
<1>2. References' = References /\ Planned' = Planned /\ Cyclic(topo)' = Cyclic(topo)
  BY <1>1, GraphKept
<1>3. WaveInv'
  BY <1>1, <1>2 DEF WaveInv, ReadyInv, PresentInv, FreshInv, DoneInv, Behind
<1> QED BY <1>1, <1>2, <1>3 DEF GraphInv, EndInv

\* The steps together.
LEMMA BuildStep ==
    ASSUME ModuleInv, [Next]_vars
    PROVE  BuildInv'
<1>1. CASE StartBuild \/ Kill \/ BuildGraph \/ FinishWaves \/ Abandon
  BY <1>1, ForgetBuild, GraphBuild, WavesEndBuild
<1>2. CASE ReuseLink \/ Link \/ LinkFails
  BY <1>2, LinkBuild
<1>3. CASE \E u \in Units : \/ ReuseScan(u) \/ StartScan(u) \/ FinishScan(u) \/ ScanFails(u)
                           \/ Inspect(u)
  BY <1>3, ScanBuild, InspectBuild
<1>4. CASE \E u \in Units : \/ StartCompile(u) \/ Compile(u) \/ CompileFails(u) \/ Seal(u)
                           \/ Edit(u)
  BY <1>4, StartCompileBuild, CompileBuild, CompileFailsBuild, SealBuild, EditBuild
<1>5. CASE UNCHANGED vars
  <2>1. UNCHANGED <<src, scanFile, out, exe, pc, failing, quiet, faulted, scanned, topo, status>>
    BY <1>5 DEF vars, diskVars, scanVars, waveVars
  <2>2. References' = References /\ Planned' = Planned /\ Cyclic(topo)' = Cyclic(topo)
    BY <2>1, GraphKept
  <2> QED BY <2>1, <2>2
          DEF ModuleInv, BuildInv, GraphInv, WaveInv, EndInv, ReadyInv, PresentInv, FreshInv,
              DoneInv, Behind, Fresh, Sound, Overtaken, ScanRaced, ObjectRaced, Misled
<1> QED BY <1>1, <1>2, <1>3, <1>4, <1>5 DEF Next
-----------------------------------------------------------------------------
(* The theorems *)

\* The inductive invariant of the modules of a target, for every set of units and header
\* units, every choice of imports, and any number of edits and builds.
THEOREM ModuleInvariant == Spec => []ModuleInv
<1>1. ModuleInv /\ [Next]_vars => ModuleInv'
  BY TypeStep, DiskStep, TextStep, BuildStep DEF ModuleInv
<1> QED BY <1>1, ModuleStart, PTL DEF Spec

\* The variables keep their types.
THEOREM ModuleTypes == Spec => []TypeOK
<1>1. ModuleInv => TypeOK
  BY DEF ModuleInv, TypeInv
<1> QED BY <1>1, ModuleInvariant, PTL

\* A scan that is reused says what the source says (seal_module_scan_evidence): evidence
\* is never sealed for a topology that an edit after the scan has overtaken.  An edit while
\* the scanner ran is excluded.
THEOREM TrueScans == Spec => []ScanTruthful
<1>1. ModuleInv => ScanTruthful
  BY TruthfulScans DEF ModuleInv, DiskInv
<1> QED BY <1>1, ModuleInvariant, PTL

\* A build that no edit disturbed links objects that are current through every import,
\* whatever failures, kills and edits the builds before it met, but for units that an edit
\* overtook while cl.exe read them, and units compiled with such.
THEOREM CurrentModules == Spec => []ModulesCurrent
<1>1. ModuleInv => ModulesCurrent
  <2> SUFFICES ASSUME ModuleInv, pc = "ok", quiet
               PROVE  /\ \A u \in Planned : Sound(u) => Current(u)
                      /\ exe # None /\ exe.objs = [u \in Sources |-> out[u].time]
    BY DEF ModulesCurrent
  <2> USE DEF ModuleInv, BuildInv
  <2>1. ASSUME NEW u \in Planned, Sound(u) PROVE Current(u)
    <3>1. u \in Units /\ status[u] = "done"
      BY DEF WaveInv, DoneInv, Planned
    <3>2. out[u] # None /\ Fresh(u)
      BY <2>1, <3>1 DEF WaveInv, PresentInv, FreshInv, Behind
    <3> QED BY <3>1, <3>2 DEF Fresh, Current, DiskInv, ReadInv
  <2> QED BY <2>1 DEF EndInv
<1> QED BY <1>1, ModuleInvariant, PTL

\* A build that no edit and no failure disturbed fails only for a cycle in the sources:
\* what earlier builds left never makes good sources fail, when no edit overtook it.
THEOREM GoodSourcesPass == Spec => []GoodSourcesBuild
<1>1. ModuleInv => GoodSourcesBuild
  BY Zenon DEF ModuleInv, BuildInv, EndInv, GoodSourcesBuild
<1> QED BY <1>1, ModuleInvariant, PTL
=============================================================================
