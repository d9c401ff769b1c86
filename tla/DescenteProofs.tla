--------------------------- MODULE DescenteProofs ---------------------------
(***************************************************************************)
(* Proofs about Descente, for every timeslot and start, every hyperframe   *)
(* and depth of the BSP, and every run: the types, no block given twice on *)
(* a channel, and every whole block given, in its word.                    *)
(*                                                                         *)
(* The frames the code finds by counting back from the last burst are      *)
(* those of the tables of 45.002 (BlocTchFDit, BlocFacchHDit,              *)
(* BlocSacchHDit).  A block is not given twice because a prosthesis that   *)
(* was on for a burst has noted it, and was on for every burst of the      *)
(* channel announced (Suivi, Notes).  It is given because the key kept is  *)
(* that of the channel (Chiffre) and no note is of a frame to come         *)
(* (Passe): the latter takes a run no longer than a hyperframe.            *)
(***************************************************************************)
EXTENDS Descente, FiniteSetTheorems, TLAPS

-----------------------------------------------------------------------------
(* Counting back.                                                          *)

\* Counting back from the last frame of a set gives the frames of an increasing sequence
\* that holds every one of them from its first on.
LEMMA RemonterDonne ==
  ASSUME NEW bons \in SUBSET Int, IsFiniteSet(bons), NEW p \in Nat, NEW s \in [1 .. p -> bons],
         \A i, j \in 1 .. p : i < j => s[i] < s[j],
         \A f \in bons : (\A i \in 1 .. p : f # s[i]) => \A i \in 1 .. p : f < s[i]
  PROVE  Remonter(bons, p) = s
<1> DEFINE apres(f) == {x \in bons : x >= f}
<1>0. /\ \A f \in bons : f \in Int
      /\ \A i \in 1 .. p : s[i] \in bons /\ s[i] \in Int
  OBVIOUS
<1>1. \A f \in bons : IsFiniteSet(apres(f))
  BY FS_Subset
<1>2. \A f, g \in bons : f < g => Cardinality(apres(g)) < Cardinality(apres(f))
  <2> SUFFICES ASSUME NEW f \in bons, NEW g \in bons, f < g
               PROVE  Cardinality(apres(g)) < Cardinality(apres(f))
    OBVIOUS
  <2>1. apres(g) \in SUBSET apres(f) /\ f \in apres(f) /\ f \notin apres(g)
    <3>1. f \in Int /\ g \in Int
      BY <1>0
    <3>2. ASSUME NEW x \in apres(g) PROVE x \in apres(f)
      <4>1. x \in bons /\ x \in Int /\ x >= g
        BY <1>0
      <4> QED BY <4>1, <3>1
    <3>3. f >= f /\ ~(f >= g)
      BY <3>1
    <3> QED BY <3>2, <3>3
  <2>2. Cardinality(apres(g)) <= Cardinality(apres(f)) /\ Cardinality(apres(g)) # Cardinality(apres(f))
    BY <1>1, <2>1, FS_Subset
  <2>3. Cardinality(apres(g)) \in Nat /\ Cardinality(apres(f)) \in Nat
    BY <1>1, FS_CardinalityType
  <2> QED BY <2>2, <2>3
<1>3. \A i \in 1 .. p : Cardinality(apres(s[i])) = p + 1 - i
  <2> SUFFICES ASSUME NEW i \in 1 .. p PROVE Cardinality(apres(s[i])) = p + 1 - i
    OBVIOUS
  <2> DEFINE b == [j \in i .. p |-> s[j]]
  <2>1. apres(s[i]) = {s[j] : j \in i .. p}
    <3>1. ASSUME NEW f \in apres(s[i]) PROVE f \in {s[j] : j \in i .. p}
      <4>1. f \in bons /\ f \in Int /\ ~(f < s[i])
        BY <1>0
      <4>2. PICK j \in 1 .. p : f = s[j]
        BY <4>1
      <4>3. ~(j < i)
        BY <4>1, <4>2
      <4> QED BY <4>2, <4>3
    <3>2. ASSUME NEW j \in i .. p PROVE s[j] \in apres(s[i])
      <4>1. j \in 1 .. p /\ (j = i \/ i < j)
        OBVIOUS
      <4> QED BY <4>1, <1>0
    <3> QED BY <3>1, <3>2
  <2>2. b \in [i .. p -> apres(s[i])]
    BY <2>1
  <2>3. \A j, k \in i .. p : b[j] = b[k] => j = k
    <3> SUFFICES ASSUME NEW j \in i .. p, NEW k \in i .. p, s[j] = s[k] PROVE j = k
      OBVIOUS
    <3>1. j \in 1 .. p /\ k \in 1 .. p /\ s[j] \in Int
      BY <1>0
    <3>2. ~(j < k) /\ ~(k < j)
      BY <3>1
    <3> QED BY <3>2
  <2>4. \A f \in apres(s[i]) : \E j \in i .. p : b[j] = f
    BY <2>1
  <2>5. b \in Bijection(i .. p, apres(s[i]))
    BY <2>2, <2>3, <2>4 DEF Bijection, Injection, Surjection, IsInjective
  <2>6. IsFiniteSet(i .. p) /\ Cardinality(i .. p) = p - i + 1
    BY FS_Interval
  <2>7. ExistsBijection(i .. p, apres(s[i]))
    BY <2>5 DEF ExistsBijection
  <2> QED BY <2>6, <2>7, FS_Bijection
<1>4. \A i \in 1 .. p : (CHOOSE f \in bons : Cardinality(apres(f)) = p + 1 - i) = s[i]
  <2> SUFFICES ASSUME NEW i \in 1 .. p
               PROVE  (CHOOSE f \in bons : Cardinality(apres(f)) = p + 1 - i) = s[i]
    OBVIOUS
  <2>1. \A f \in bons : Cardinality(apres(f)) = p + 1 - i => f = s[i]
    <3>1. SUFFICES ASSUME NEW f \in bons, Cardinality(apres(f)) = p + 1 - i, f # s[i] PROVE FALSE
      OBVIOUS
    <3>2. f < s[i] \/ s[i] < f
      BY <1>0, <3>1
    <3>3. Cardinality(apres(f)) = Cardinality(apres(s[i])) /\ Cardinality(apres(f)) \in Nat
      BY <1>1, <1>3, <3>1, FS_CardinalityType
    <3>4. s[i] \in bons
      BY <1>0
    <3>5. ~(Cardinality(apres(f)) < Cardinality(apres(s[i])))
          /\ ~(Cardinality(apres(s[i])) < Cardinality(apres(f)))
      <4> HIDE DEF apres
      <4> QED BY <3>3
    <3> HIDE DEF apres
    <3> QED BY <3>1, <3>2, <3>4, <3>5, <1>2
  <2>2. s[i] \in bons /\ Cardinality(apres(s[i])) = p + 1 - i
    BY <1>3
  <2> QED BY <2>1, <2>2
<1> QED BY <1>4 DEF Remonter

\* The rows of the tables: a row holds every frame the code counts, from its first to its last.
LEMMA RangeeTchF ==
  ASSUME NEW r \in TableTchF, NEW e \in Int, (e - r[Len(r)]) % 26 = 0
  PROVE  /\ DOMAIN r = 1 .. 8 /\ Len(r) = 8
         /\ \A i \in 1 .. 8 : r[i] \in Nat /\ e - r[8] + r[i] >= e - 9 /\ e - r[8] + r[i] <= e
                              /\ Libre(e - r[8] + r[i])
         /\ \A i, j \in 1 .. 8 : i < j => r[i] < r[j]
         /\ \A f \in Int : Libre(f) /\ f <= e /\ f >= e - r[8] + r[1] => \E i \in 1 .. 8 : f = e - r[8] + r[i]
         /\ (e % 13) % 4 = 3
<1>1. CASE r = <<0, 1, 2, 3, 4, 5, 6, 7>>
  <2>1. DOMAIN r = 1 .. 8 /\ Len(r) = 8 /\ e % 26 = 7
    BY <1>1
  <2>2. r[1] = 0 /\ r[8] = 7 /\ \A i \in 1 .. 8 : r[i] = i - 1
    BY <1>1
  <2>3. \A f \in Int : Libre(f) /\ f <= e /\ f >= e - r[8] + r[1]
          => \E i \in 1 .. 8 : f = e - r[8] + r[i]
    <3> SUFFICES ASSUME NEW f \in Int, Libre(f), f <= e, f >= e - r[8] + r[1]
                 PROVE  \E i \in 1 .. 8 : f = e - r[8] + r[i]
      OBVIOUS
    <3> DEFINE i == f - e + 8
    <3>1. i \in 1 .. 8 /\ f = e - r[8] + r[i]
      BY <2>1, <2>2 DEF Libre
    <3> QED BY <3>1
  <2>4. \A i \in 1 .. 8 : Libre(e - r[8] + r[i])
    BY <2>1, <2>2 DEF Libre
  <2>5. (e % 13) % 4 = 3
    BY <2>1
  <2> QED BY <2>1, <2>2, <2>3, <2>4, <2>5
<1>2. CASE r = <<4, 5, 6, 7, 8, 9, 10, 11>>
  <2>1. DOMAIN r = 1 .. 8 /\ Len(r) = 8 /\ e % 26 = 11
    BY <1>2
  <2>2. r[1] = 4 /\ r[8] = 11 /\ \A i \in 1 .. 8 : r[i] = i + 3
    BY <1>2
  <2>3. \A f \in Int : Libre(f) /\ f <= e /\ f >= e - r[8] + r[1]
          => \E i \in 1 .. 8 : f = e - r[8] + r[i]
    <3> SUFFICES ASSUME NEW f \in Int, Libre(f), f <= e, f >= e - r[8] + r[1]
                 PROVE  \E i \in 1 .. 8 : f = e - r[8] + r[i]
      OBVIOUS
    <3> DEFINE i == f - e + 8
    <3>1. i \in 1 .. 8 /\ f = e - r[8] + r[i]
      BY <2>1, <2>2 DEF Libre
    <3> QED BY <3>1
  <2>4. \A i \in 1 .. 8 : Libre(e - r[8] + r[i])
    BY <2>1, <2>2 DEF Libre
  <2>5. (e % 13) % 4 = 3
    BY <2>1
  <2> QED BY <2>1, <2>2, <2>3, <2>4, <2>5
<1>3. CASE r = <<8, 9, 10, 11, 13, 14, 15, 16>>
  <2>1. DOMAIN r = 1 .. 8 /\ Len(r) = 8 /\ e % 26 = 16
    BY <1>3
  <2>2. r[1] = 8 /\ r[8] = 16 /\ \A i \in 1 .. 8 : r[i] = IF i <= 4 THEN i + 7 ELSE i + 8
    BY <1>3
  <2>3. \A f \in Int : Libre(f) /\ f <= e /\ f >= e - r[8] + r[1]
          => \E i \in 1 .. 8 : f = e - r[8] + r[i]
    <3> SUFFICES ASSUME NEW f \in Int, Libre(f), f <= e, f >= e - r[8] + r[1]
                 PROVE  \E i \in 1 .. 8 : f = e - r[8] + r[i]
      OBVIOUS
    <3> DEFINE i == IF f - e + 16 <= 11 THEN f - e + 9 ELSE f - e + 8
    <3>1. i \in 1 .. 8 /\ f = e - r[8] + r[i]
      BY <2>1, <2>2 DEF Libre
    <3> QED BY <3>1
  <2>4. \A i \in 1 .. 8 : Libre(e - r[8] + r[i])
    BY <2>1, <2>2 DEF Libre
  <2>5. (e % 13) % 4 = 3
    BY <2>1
  <2> QED BY <2>1, <2>2, <2>3, <2>4, <2>5
<1>4. CASE r = <<13, 14, 15, 16, 17, 18, 19, 20>>
  <2>1. DOMAIN r = 1 .. 8 /\ Len(r) = 8 /\ e % 26 = 20
    BY <1>4
  <2>2. r[1] = 13 /\ r[8] = 20 /\ \A i \in 1 .. 8 : r[i] = i + 12
    BY <1>4
  <2>3. \A f \in Int : Libre(f) /\ f <= e /\ f >= e - r[8] + r[1]
          => \E i \in 1 .. 8 : f = e - r[8] + r[i]
    <3> SUFFICES ASSUME NEW f \in Int, Libre(f), f <= e, f >= e - r[8] + r[1]
                 PROVE  \E i \in 1 .. 8 : f = e - r[8] + r[i]
      OBVIOUS
    <3> DEFINE i == f - e + 8
    <3>1. i \in 1 .. 8 /\ f = e - r[8] + r[i]
      BY <2>1, <2>2 DEF Libre
    <3> QED BY <3>1
  <2>4. \A i \in 1 .. 8 : Libre(e - r[8] + r[i])
    BY <2>1, <2>2 DEF Libre
  <2>5. (e % 13) % 4 = 3
    BY <2>1
  <2> QED BY <2>1, <2>2, <2>3, <2>4, <2>5
<1>5. CASE r = <<17, 18, 19, 20, 21, 22, 23, 24>>
  <2>1. DOMAIN r = 1 .. 8 /\ Len(r) = 8 /\ e % 26 = 24
    BY <1>5
  <2>2. r[1] = 17 /\ r[8] = 24 /\ \A i \in 1 .. 8 : r[i] = i + 16
    BY <1>5
  <2>3. \A f \in Int : Libre(f) /\ f <= e /\ f >= e - r[8] + r[1]
          => \E i \in 1 .. 8 : f = e - r[8] + r[i]
    <3> SUFFICES ASSUME NEW f \in Int, Libre(f), f <= e, f >= e - r[8] + r[1]
                 PROVE  \E i \in 1 .. 8 : f = e - r[8] + r[i]
      OBVIOUS
    <3> DEFINE i == f - e + 8
    <3>1. i \in 1 .. 8 /\ f = e - r[8] + r[i]
      BY <2>1, <2>2 DEF Libre
    <3> QED BY <3>1
  <2>4. \A i \in 1 .. 8 : Libre(e - r[8] + r[i])
    BY <2>1, <2>2 DEF Libre
  <2>5. (e % 13) % 4 = 3
    BY <2>1
  <2> QED BY <2>1, <2>2, <2>3, <2>4, <2>5
<1>6. CASE r = <<21, 22, 23, 24, 26, 27, 28, 29>>
  <2>1. DOMAIN r = 1 .. 8 /\ Len(r) = 8 /\ e % 26 = 3
    BY <1>6
  <2>2. r[1] = 21 /\ r[8] = 29 /\ \A i \in 1 .. 8 : r[i] = IF i <= 4 THEN i + 20 ELSE i + 21
    BY <1>6
  <2>3. \A f \in Int : Libre(f) /\ f <= e /\ f >= e - r[8] + r[1]
          => \E i \in 1 .. 8 : f = e - r[8] + r[i]
    <3> SUFFICES ASSUME NEW f \in Int, Libre(f), f <= e, f >= e - r[8] + r[1]
                 PROVE  \E i \in 1 .. 8 : f = e - r[8] + r[i]
      OBVIOUS
    <3> DEFINE i == IF f - e + 29 <= 24 THEN f - e + 9 ELSE f - e + 8
    <3>1. i \in 1 .. 8 /\ f = e - r[8] + r[i]
      BY <2>1, <2>2 DEF Libre
    <3> QED BY <3>1
  <2>4. \A i \in 1 .. 8 : Libre(e - r[8] + r[i])
    BY <2>1, <2>2 DEF Libre
  <2>5. (e % 13) % 4 = 3
    BY <2>1
  <2> QED BY <2>1, <2>2, <2>3, <2>4, <2>5
<1> QED BY <1>1, <1>2, <1>3, <1>4, <1>5, <1>6 DEF TableTchF

\* A row of six increasing frames, given by its places.
LEMMA SixPlaces ==
  ASSUME NEW v1 \in Nat, NEW v2 \in Nat, NEW v3 \in Nat, NEW v4 \in Nat, NEW v5 \in Nat, NEW v6 \in Nat,
         v1 < v2, v2 < v3, v3 < v4, v4 < v5, v5 < v6, NEW r,
         r[1] = v1, r[2] = v2, r[3] = v3, r[4] = v4, r[5] = v5, r[6] = v6
  PROVE  /\ \A i \in 1 .. 6 : r[i] \in {v1, v2, v3, v4, v5, v6}
         /\ \A i, j \in 1 .. 6 : i < j => r[i] < r[j]
         /\ \A x \in {v1, v2, v3, v4, v5, v6} : \E i \in 1 .. 6 : r[i] = x
<1>1. \A i \in 1 .. 6 : i = 1 \/ i = 2 \/ i = 3 \/ i = 4 \/ i = 5 \/ i = 6
  OBVIOUS
<1>2. \A i \in 1 .. 6 : r[i] \in {v1, v2, v3, v4, v5, v6}
  BY <1>1
<1>3. \A i, j \in 1 .. 6 : i < j => r[i] < r[j]
  BY <1>1
<1>4. \A x \in {v1, v2, v3, v4, v5, v6} : \E i \in 1 .. 6 : r[i] = x
  OBVIOUS
<1> QED BY <1>2, <1>3, <1>4

LEMMA Six ==
  ASSUME NEW v1 \in Nat, NEW v2 \in Nat, NEW v3 \in Nat, NEW v4 \in Nat, NEW v5 \in Nat, NEW v6 \in Nat,
         v1 < v2, v2 < v3, v3 < v4, v4 < v5, v5 < v6, NEW r, r = <<v1, v2, v3, v4, v5, v6>>
  PROVE  /\ DOMAIN r = 1 .. 6 /\ Len(r) = 6 /\ r[1] = v1 /\ r[6] = v6
         /\ \A i \in 1 .. 6 : r[i] \in {v1, v2, v3, v4, v5, v6}
         /\ \A i, j \in 1 .. 6 : i < j => r[i] < r[j]
         /\ \A x \in {v1, v2, v3, v4, v5, v6} : \E i \in 1 .. 6 : r[i] = x
<1>1. DOMAIN r = 1 .. 6 /\ Len(r) = 6
  OBVIOUS
<1>2. r[1] = v1 /\ r[2] = v2 /\ r[3] = v3 /\ r[4] = v4 /\ r[5] = v5 /\ r[6] = v6
  OBVIOUS
<1>3. /\ \A i \in 1 .. 6 : r[i] \in {v1, v2, v3, v4, v5, v6}
      /\ \A i, j \in 1 .. 6 : i < j => r[i] < r[j]
      /\ \A x \in {v1, v2, v3, v4, v5, v6} : \E i \in 1 .. 6 : r[i] = x
  BY <1>2, SixPlaces
<1> QED BY <1>1, <1>2, <1>3

LEMMA RangeeFacchH ==
  ASSUME NEW ss \in {0, 1}, NEW r \in TableFacchH[ss + 1], NEW e \in Int, (e - r[Len(r)]) % 26 = 0
  PROVE  /\ DOMAIN r = 1 .. 6 /\ Len(r) = 6
         /\ \A i \in 1 .. 6 : r[i] \in Nat /\ e - r[6] + r[i] >= e - 11 /\ e - r[6] + r[i] <= e
                              /\ Libre(e - r[6] + r[i]) /\ Rang(e - r[6] + r[i]) % 2 = ss
         /\ \A i, j \in 1 .. 6 : i < j => r[i] < r[j]
         /\ \A f \in Int : Libre(f) /\ Rang(f) % 2 = ss /\ f <= e /\ f >= e - r[6] + r[1]
              => \E i \in 1 .. 6 : f = e - r[6] + r[i]
         /\ (e - ss) % 26 \in {15, 23, 6}
<1>1. CASE r = <<4, 6, 8, 10, 13, 15>> /\ ss = 0
  <2>1. /\ DOMAIN r = 1 .. 6 /\ Len(r) = 6 /\ r[1] = 4 /\ r[6] = 15
        /\ \A i \in 1 .. 6 : r[i] \in {4, 6, 8, 10, 13, 15}
        /\ \A i, j \in 1 .. 6 : i < j => r[i] < r[j]
        /\ \A x \in {4, 6, 8, 10, 13, 15} : \E i \in 1 .. 6 : r[i] = x
    BY <1>1, Six
  <2>2. e % 26 = 15 /\ ss = 0
    BY <1>1, <2>1
  <2>3. /\ \A x \in {4, 6, 8, 10, 13, 15} : Libre(e - 15 + x) /\ Rang(e - 15 + x) % 2 = 0
        /\ (e - ss) % 26 \in {15, 23, 6}
    BY <2>2 DEF Libre, Rang
  <2>4. \A f \in Int : Libre(f) /\ Rang(f) % 2 = 0 /\ f <= e /\ f >= e - 11
          => f - e + 15 \in {4, 6, 8, 10, 13, 15}
    <3> SUFFICES ASSUME NEW x \in 4 .. 15, Libre(e - 15 + x), Rang(e - 15 + x) % 2 = 0
                 PROVE  x \in {4, 6, 8, 10, 13, 15}
      <4>1. \A f \in Int : f <= e /\ f >= e - 11 =>
              f - e + 15 \in 4 .. 15 /\ e - 15 + (f - e + 15) = f
        OBVIOUS
      <4> QED BY <4>1, SMTT(30)
    <3> QED BY <2>2, SMTT(30) DEF Libre, Rang
  <2>5. \A f \in Int : Libre(f) /\ Rang(f) % 2 = ss /\ f <= e /\ f >= e - r[6] + r[1]
          => \E i \in 1 .. 6 : f = e - r[6] + r[i]
    <3> SUFFICES ASSUME NEW f \in Int, Libre(f), Rang(f) % 2 = ss, f <= e, f >= e - r[6] + r[1]
                 PROVE  \E i \in 1 .. 6 : f = e - r[6] + r[i]
      OBVIOUS
    <3>1. f - e + 15 \in {4, 6, 8, 10, 13, 15}
      BY <2>1, <2>2, <2>4
    <3>2. PICK i \in 1 .. 6 : r[i] = f - e + 15
      BY <2>1, <3>1
    <3>3. r[6] \in Nat /\ r[i] \in Nat
      BY <2>1
    <3> QED BY <2>1, <3>2, <3>3
  <2>6. \A i \in 1 .. 6 : r[i] \in Nat /\ e - r[6] + r[i] >= e - 11 /\ e - r[6] + r[i] <= e
    BY <2>1
  <2>7. \A i \in 1 .. 6 : Libre(e - r[6] + r[i]) /\ Rang(e - r[6] + r[i]) % 2 = ss
    BY <2>1, <2>2, <2>3
  <2> QED BY <2>1, <2>3, <2>5, <2>6, <2>7
<1>2. CASE r = <<13, 15, 17, 19, 21, 23>> /\ ss = 0
  <2>1. /\ DOMAIN r = 1 .. 6 /\ Len(r) = 6 /\ r[1] = 13 /\ r[6] = 23
        /\ \A i \in 1 .. 6 : r[i] \in {13, 15, 17, 19, 21, 23}
        /\ \A i, j \in 1 .. 6 : i < j => r[i] < r[j]
        /\ \A x \in {13, 15, 17, 19, 21, 23} : \E i \in 1 .. 6 : r[i] = x
    BY <1>2, Six
  <2>2. e % 26 = 23 /\ ss = 0
    BY <1>2, <2>1
  <2>3. /\ \A x \in {13, 15, 17, 19, 21, 23} : Libre(e - 23 + x) /\ Rang(e - 23 + x) % 2 = 0
        /\ (e - ss) % 26 \in {15, 23, 6}
    BY <2>2 DEF Libre, Rang
  <2>4. \A f \in Int : Libre(f) /\ Rang(f) % 2 = 0 /\ f <= e /\ f >= e - 10
          => f - e + 23 \in {13, 15, 17, 19, 21, 23}
    <3> SUFFICES ASSUME NEW x \in 13 .. 23, Libre(e - 23 + x), Rang(e - 23 + x) % 2 = 0
                 PROVE  x \in {13, 15, 17, 19, 21, 23}
      <4>1. \A f \in Int : f <= e /\ f >= e - 10 =>
              f - e + 23 \in 13 .. 23 /\ e - 23 + (f - e + 23) = f
        OBVIOUS
      <4> QED BY <4>1, SMTT(30)
    <3> QED BY <2>2, SMTT(30) DEF Libre, Rang
  <2>5. \A f \in Int : Libre(f) /\ Rang(f) % 2 = ss /\ f <= e /\ f >= e - r[6] + r[1]
          => \E i \in 1 .. 6 : f = e - r[6] + r[i]
    <3> SUFFICES ASSUME NEW f \in Int, Libre(f), Rang(f) % 2 = ss, f <= e, f >= e - r[6] + r[1]
                 PROVE  \E i \in 1 .. 6 : f = e - r[6] + r[i]
      OBVIOUS
    <3>1. f - e + 23 \in {13, 15, 17, 19, 21, 23}
      BY <2>1, <2>2, <2>4
    <3>2. PICK i \in 1 .. 6 : r[i] = f - e + 23
      BY <2>1, <3>1
    <3>3. r[6] \in Nat /\ r[i] \in Nat
      BY <2>1
    <3> QED BY <2>1, <3>2, <3>3
  <2>6. \A i \in 1 .. 6 : r[i] \in Nat /\ e - r[6] + r[i] >= e - 11 /\ e - r[6] + r[i] <= e
    BY <2>1
  <2>7. \A i \in 1 .. 6 : Libre(e - r[6] + r[i]) /\ Rang(e - r[6] + r[i]) % 2 = ss
    BY <2>1, <2>2, <2>3
  <2> QED BY <2>1, <2>3, <2>5, <2>6, <2>7
<1>3. CASE r = <<21, 23, 26, 28, 30, 32>> /\ ss = 0
  <2>1. /\ DOMAIN r = 1 .. 6 /\ Len(r) = 6 /\ r[1] = 21 /\ r[6] = 32
        /\ \A i \in 1 .. 6 : r[i] \in {21, 23, 26, 28, 30, 32}
        /\ \A i, j \in 1 .. 6 : i < j => r[i] < r[j]
        /\ \A x \in {21, 23, 26, 28, 30, 32} : \E i \in 1 .. 6 : r[i] = x
    BY <1>3, Six
  <2>2. e % 26 = 6 /\ ss = 0
    BY <1>3, <2>1
  <2>3. /\ \A x \in {21, 23, 26, 28, 30, 32} : Libre(e - 32 + x) /\ Rang(e - 32 + x) % 2 = 0
        /\ (e - ss) % 26 \in {15, 23, 6}
    BY <2>2 DEF Libre, Rang
  <2>4. \A f \in Int : Libre(f) /\ Rang(f) % 2 = 0 /\ f <= e /\ f >= e - 11
          => f - e + 32 \in {21, 23, 26, 28, 30, 32}
    <3> SUFFICES ASSUME NEW x \in 21 .. 32, Libre(e - 32 + x), Rang(e - 32 + x) % 2 = 0
                 PROVE  x \in {21, 23, 26, 28, 30, 32}
      <4>1. \A f \in Int : f <= e /\ f >= e - 11 =>
              f - e + 32 \in 21 .. 32 /\ e - 32 + (f - e + 32) = f
        OBVIOUS
      <4> QED BY <4>1, SMTT(30)
    <3> QED BY <2>2, SMTT(30) DEF Libre, Rang
  <2>5. \A f \in Int : Libre(f) /\ Rang(f) % 2 = ss /\ f <= e /\ f >= e - r[6] + r[1]
          => \E i \in 1 .. 6 : f = e - r[6] + r[i]
    <3> SUFFICES ASSUME NEW f \in Int, Libre(f), Rang(f) % 2 = ss, f <= e, f >= e - r[6] + r[1]
                 PROVE  \E i \in 1 .. 6 : f = e - r[6] + r[i]
      OBVIOUS
    <3>1. f - e + 32 \in {21, 23, 26, 28, 30, 32}
      BY <2>1, <2>2, <2>4
    <3>2. PICK i \in 1 .. 6 : r[i] = f - e + 32
      BY <2>1, <3>1
    <3>3. r[6] \in Nat /\ r[i] \in Nat
      BY <2>1
    <3> QED BY <2>1, <3>2, <3>3
  <2>6. \A i \in 1 .. 6 : r[i] \in Nat /\ e - r[6] + r[i] >= e - 11 /\ e - r[6] + r[i] <= e
    BY <2>1
  <2>7. \A i \in 1 .. 6 : Libre(e - r[6] + r[i]) /\ Rang(e - r[6] + r[i]) % 2 = ss
    BY <2>1, <2>2, <2>3
  <2> QED BY <2>1, <2>3, <2>5, <2>6, <2>7
<1>4. CASE r = <<5, 7, 9, 11, 14, 16>> /\ ss = 1
  <2>1. /\ DOMAIN r = 1 .. 6 /\ Len(r) = 6 /\ r[1] = 5 /\ r[6] = 16
        /\ \A i \in 1 .. 6 : r[i] \in {5, 7, 9, 11, 14, 16}
        /\ \A i, j \in 1 .. 6 : i < j => r[i] < r[j]
        /\ \A x \in {5, 7, 9, 11, 14, 16} : \E i \in 1 .. 6 : r[i] = x
    BY <1>4, Six
  <2>2. e % 26 = 16 /\ ss = 1
    BY <1>4, <2>1
  <2>3. /\ \A x \in {5, 7, 9, 11, 14, 16} : Libre(e - 16 + x) /\ Rang(e - 16 + x) % 2 = 1
        /\ (e - ss) % 26 \in {15, 23, 6}
    BY <2>2 DEF Libre, Rang
  <2>4. \A f \in Int : Libre(f) /\ Rang(f) % 2 = 1 /\ f <= e /\ f >= e - 11
          => f - e + 16 \in {5, 7, 9, 11, 14, 16}
    <3> SUFFICES ASSUME NEW x \in 5 .. 16, Libre(e - 16 + x), Rang(e - 16 + x) % 2 = 1
                 PROVE  x \in {5, 7, 9, 11, 14, 16}
      <4>1. \A f \in Int : f <= e /\ f >= e - 11 =>
              f - e + 16 \in 5 .. 16 /\ e - 16 + (f - e + 16) = f
        OBVIOUS
      <4> QED BY <4>1, SMTT(30)
    <3> QED BY <2>2, SMTT(30) DEF Libre, Rang
  <2>5. \A f \in Int : Libre(f) /\ Rang(f) % 2 = ss /\ f <= e /\ f >= e - r[6] + r[1]
          => \E i \in 1 .. 6 : f = e - r[6] + r[i]
    <3> SUFFICES ASSUME NEW f \in Int, Libre(f), Rang(f) % 2 = ss, f <= e, f >= e - r[6] + r[1]
                 PROVE  \E i \in 1 .. 6 : f = e - r[6] + r[i]
      OBVIOUS
    <3>1. f - e + 16 \in {5, 7, 9, 11, 14, 16}
      BY <2>1, <2>2, <2>4
    <3>2. PICK i \in 1 .. 6 : r[i] = f - e + 16
      BY <2>1, <3>1
    <3>3. r[6] \in Nat /\ r[i] \in Nat
      BY <2>1
    <3> QED BY <2>1, <3>2, <3>3
  <2>6. \A i \in 1 .. 6 : r[i] \in Nat /\ e - r[6] + r[i] >= e - 11 /\ e - r[6] + r[i] <= e
    BY <2>1
  <2>7. \A i \in 1 .. 6 : Libre(e - r[6] + r[i]) /\ Rang(e - r[6] + r[i]) % 2 = ss
    BY <2>1, <2>2, <2>3
  <2> QED BY <2>1, <2>3, <2>5, <2>6, <2>7
<1>5. CASE r = <<14, 16, 18, 20, 22, 24>> /\ ss = 1
  <2>1. /\ DOMAIN r = 1 .. 6 /\ Len(r) = 6 /\ r[1] = 14 /\ r[6] = 24
        /\ \A i \in 1 .. 6 : r[i] \in {14, 16, 18, 20, 22, 24}
        /\ \A i, j \in 1 .. 6 : i < j => r[i] < r[j]
        /\ \A x \in {14, 16, 18, 20, 22, 24} : \E i \in 1 .. 6 : r[i] = x
    BY <1>5, Six
  <2>2. e % 26 = 24 /\ ss = 1
    BY <1>5, <2>1
  <2>3. /\ \A x \in {14, 16, 18, 20, 22, 24} : Libre(e - 24 + x) /\ Rang(e - 24 + x) % 2 = 1
        /\ (e - ss) % 26 \in {15, 23, 6}
    BY <2>2 DEF Libre, Rang
  <2>4. \A f \in Int : Libre(f) /\ Rang(f) % 2 = 1 /\ f <= e /\ f >= e - 10
          => f - e + 24 \in {14, 16, 18, 20, 22, 24}
    <3> SUFFICES ASSUME NEW x \in 14 .. 24, Libre(e - 24 + x), Rang(e - 24 + x) % 2 = 1
                 PROVE  x \in {14, 16, 18, 20, 22, 24}
      <4>1. \A f \in Int : f <= e /\ f >= e - 10 =>
              f - e + 24 \in 14 .. 24 /\ e - 24 + (f - e + 24) = f
        OBVIOUS
      <4> QED BY <4>1, SMTT(30)
    <3> QED BY <2>2, SMTT(30) DEF Libre, Rang
  <2>5. \A f \in Int : Libre(f) /\ Rang(f) % 2 = ss /\ f <= e /\ f >= e - r[6] + r[1]
          => \E i \in 1 .. 6 : f = e - r[6] + r[i]
    <3> SUFFICES ASSUME NEW f \in Int, Libre(f), Rang(f) % 2 = ss, f <= e, f >= e - r[6] + r[1]
                 PROVE  \E i \in 1 .. 6 : f = e - r[6] + r[i]
      OBVIOUS
    <3>1. f - e + 24 \in {14, 16, 18, 20, 22, 24}
      BY <2>1, <2>2, <2>4
    <3>2. PICK i \in 1 .. 6 : r[i] = f - e + 24
      BY <2>1, <3>1
    <3>3. r[6] \in Nat /\ r[i] \in Nat
      BY <2>1
    <3> QED BY <2>1, <3>2, <3>3
  <2>6. \A i \in 1 .. 6 : r[i] \in Nat /\ e - r[6] + r[i] >= e - 11 /\ e - r[6] + r[i] <= e
    BY <2>1
  <2>7. \A i \in 1 .. 6 : Libre(e - r[6] + r[i]) /\ Rang(e - r[6] + r[i]) % 2 = ss
    BY <2>1, <2>2, <2>3
  <2> QED BY <2>1, <2>3, <2>5, <2>6, <2>7
<1>6. CASE r = <<22, 24, 27, 29, 31, 33>> /\ ss = 1
  <2>1. /\ DOMAIN r = 1 .. 6 /\ Len(r) = 6 /\ r[1] = 22 /\ r[6] = 33
        /\ \A i \in 1 .. 6 : r[i] \in {22, 24, 27, 29, 31, 33}
        /\ \A i, j \in 1 .. 6 : i < j => r[i] < r[j]
        /\ \A x \in {22, 24, 27, 29, 31, 33} : \E i \in 1 .. 6 : r[i] = x
    BY <1>6, Six
  <2>2. e % 26 = 7 /\ ss = 1
    BY <1>6, <2>1
  <2>3. /\ \A x \in {22, 24, 27, 29, 31, 33} : Libre(e - 33 + x) /\ Rang(e - 33 + x) % 2 = 1
        /\ (e - ss) % 26 \in {15, 23, 6}
    BY <2>2 DEF Libre, Rang
  <2>4. \A f \in Int : Libre(f) /\ Rang(f) % 2 = 1 /\ f <= e /\ f >= e - 11
          => f - e + 33 \in {22, 24, 27, 29, 31, 33}
    <3> SUFFICES ASSUME NEW x \in 22 .. 33, Libre(e - 33 + x), Rang(e - 33 + x) % 2 = 1
                 PROVE  x \in {22, 24, 27, 29, 31, 33}
      <4>1. \A f \in Int : f <= e /\ f >= e - 11 =>
              f - e + 33 \in 22 .. 33 /\ e - 33 + (f - e + 33) = f
        OBVIOUS
      <4> QED BY <4>1, SMTT(30)
    <3> QED BY <2>2, SMTT(30) DEF Libre, Rang
  <2>5. \A f \in Int : Libre(f) /\ Rang(f) % 2 = ss /\ f <= e /\ f >= e - r[6] + r[1]
          => \E i \in 1 .. 6 : f = e - r[6] + r[i]
    <3> SUFFICES ASSUME NEW f \in Int, Libre(f), Rang(f) % 2 = ss, f <= e, f >= e - r[6] + r[1]
                 PROVE  \E i \in 1 .. 6 : f = e - r[6] + r[i]
      OBVIOUS
    <3>1. f - e + 33 \in {22, 24, 27, 29, 31, 33}
      BY <2>1, <2>2, <2>4
    <3>2. PICK i \in 1 .. 6 : r[i] = f - e + 33
      BY <2>1, <3>1
    <3>3. r[6] \in Nat /\ r[i] \in Nat
      BY <2>1
    <3> QED BY <2>1, <3>2, <3>3
  <2>6. \A i \in 1 .. 6 : r[i] \in Nat /\ e - r[6] + r[i] >= e - 11 /\ e - r[6] + r[i] <= e
    BY <2>1
  <2>7. \A i \in 1 .. 6 : Libre(e - r[6] + r[i]) /\ Rang(e - r[6] + r[i]) % 2 = ss
    BY <2>1, <2>2, <2>3
  <2> QED BY <2>1, <2>3, <2>5, <2>6, <2>7
<1> QED BY <1>1, <1>2, <1>3, <1>4, <1>5, <1>6 DEF TableFacchH

LEMMA RangeeSacchH ==
  ASSUME NEW tn \in 1 .. 7, NEW ss \in {0, 1}, NEW r \in TableSacchH(tn)[ss + 1], NEW e \in Int,
         (e - r[Len(r)]) % 104 = 0
  PROVE  /\ DOMAIN r = 1 .. 4 /\ Len(r) = 4
         /\ r[4] - r[1] = 78 /\ r[4] - r[2] = 52 /\ r[4] - r[3] = 26 /\ \A i \in 1 .. 4 : r[i] \in Nat
         /\ e % 104 = (((12 + 26 * (tn \div 2) + 13 * ss) % 104) + 78) % 104
<1>1. CASE tn \in {0, 1} /\ ss = 0
  <2>1. TableSacchH(tn)[ss + 1] = {<<12, 38, 64, 90>>}
    BY <1>1 DEF TableSacchH
  <2>2. r = <<12, 38, 64, 90>>
    BY <2>1
  <2>3. tn \div 2 = 0
    BY <1>1
  <2> QED BY <1>1, <2>2, <2>3
<1>2. CASE tn \in {0, 1} /\ ss = 1
  <2>1. TableSacchH(tn)[ss + 1] = {<<25, 51, 77, 103>>}
    BY <1>2 DEF TableSacchH
  <2>2. r = <<25, 51, 77, 103>>
    BY <2>1
  <2>3. tn \div 2 = 0
    BY <1>2
  <2> QED BY <1>2, <2>2, <2>3
<1>3. CASE tn \in {2, 3} /\ ss = 0
  <2>1. TableSacchH(tn)[ss + 1] = {<<38, 64, 90, 116>>}
    BY <1>3 DEF TableSacchH
  <2>2. r = <<38, 64, 90, 116>>
    BY <2>1
  <2>3. tn \div 2 = 1
    BY <1>3
  <2> QED BY <1>3, <2>2, <2>3
<1>4. CASE tn \in {2, 3} /\ ss = 1
  <2>1. TableSacchH(tn)[ss + 1] = {<<51, 77, 103, 129>>}
    BY <1>4 DEF TableSacchH
  <2>2. r = <<51, 77, 103, 129>>
    BY <2>1
  <2>3. tn \div 2 = 1
    BY <1>4
  <2> QED BY <1>4, <2>2, <2>3
<1>5. CASE tn \in {4, 5} /\ ss = 0
  <2>1. TableSacchH(tn)[ss + 1] = {<<64, 90, 116, 142>>}
    BY <1>5 DEF TableSacchH
  <2>2. r = <<64, 90, 116, 142>>
    BY <2>1
  <2>3. tn \div 2 = 2
    BY <1>5
  <2> QED BY <1>5, <2>2, <2>3
<1>6. CASE tn \in {4, 5} /\ ss = 1
  <2>1. TableSacchH(tn)[ss + 1] = {<<77, 103, 129, 155>>}
    BY <1>6 DEF TableSacchH
  <2>2. r = <<77, 103, 129, 155>>
    BY <2>1
  <2>3. tn \div 2 = 2
    BY <1>6
  <2> QED BY <1>6, <2>2, <2>3
<1>7. CASE tn \in {6, 7} /\ ss = 0
  <2>1. TableSacchH(tn)[ss + 1] = {<<90, 116, 142, 168>>}
    BY <1>7 DEF TableSacchH
  <2>2. r = <<90, 116, 142, 168>>
    BY <2>1
  <2>3. tn \div 2 = 3
    BY <1>7
  <2> QED BY <1>7, <2>2, <2>3
<1>8. CASE tn \in {6, 7} /\ ss = 1
  <2>1. TableSacchH(tn)[ss + 1] = {<<103, 129, 155, 181>>}
    BY <1>8 DEF TableSacchH
  <2>2. r = <<103, 129, 155, 181>>
    BY <2>1
  <2>3. tn \div 2 = 3
    BY <1>8
  <2> QED BY <1>8, <2>2, <2>3
<1> QED BY <1>1, <1>2, <1>3, <1>4, <1>5, <1>6, <1>7, <1>8

\* The frames of a block, as the code counts them back from its last burst.
LEMMA BlocTchFDit ==
  ASSUME NEW e \in Int, NEW seq \in BlocTchF(e)
  PROVE  /\ Libre(e) /\ (e % 13) % 4 = 3
         /\ seq = HuitDerniers(e) /\ seq \in [1 .. 8 -> Int] /\ seq[8] = e
<1>1. PICK r \in TableTchF : (e - r[Len(r)]) % 26 = 0 /\ seq = [i \in DOMAIN r |-> e - r[Len(r)] + r[i]]
  BY DEF BlocTchF, Trames
<1>2. /\ DOMAIN r = 1 .. 8 /\ Len(r) = 8
      /\ \A i \in 1 .. 8 : r[i] \in Nat /\ e - r[8] + r[i] >= e - 9 /\ e - r[8] + r[i] <= e
                           /\ Libre(e - r[8] + r[i])
      /\ \A i, j \in 1 .. 8 : i < j => r[i] < r[j]
      /\ \A f \in Int : Libre(f) /\ f <= e /\ f >= e - r[8] + r[1] => \E i \in 1 .. 8 : f = e - r[8] + r[i]
      /\ (e % 13) % 4 = 3
  BY <1>1, RangeeTchF
<1>3. /\ seq \in [1 .. 8 -> Int]
      /\ \A i \in 1 .. 8 : seq[i] = e - r[8] + r[i]
      /\ seq[8] = e
  BY <1>1, <1>2
<1>4. Libre(e)
  <2>1. e - r[8] + r[8] = e
    BY <1>2
  <2> QED BY <1>2, <2>1
<1> DEFINE bons == {f \in e - 30 .. e : Libre(f)}
<1>5. bons \in SUBSET Int /\ IsFiniteSet(bons)
  <2>1. bons \in SUBSET (e - 30 .. e) /\ e - 30 .. e \in SUBSET Int
    OBVIOUS
  <2>2. IsFiniteSet(e - 30 .. e)
    BY FS_Interval
  <2> QED BY <2>1, <2>2, FS_Subset
<1>6. seq \in [1 .. 8 -> bons]
  <2>1. \A i \in 1 .. 8 : e - r[8] + r[i] \in e - 30 .. e
    BY <1>2
  <2> QED BY <1>2, <1>3, <2>1
<1>7. \A i, j \in 1 .. 8 : i < j => seq[i] < seq[j]
  BY <1>2, <1>3
<1>8. \A f \in bons : (\A i \in 1 .. 8 : f # seq[i]) => \A i \in 1 .. 8 : f < seq[i]
  <2> SUFFICES ASSUME NEW f \in bons, \A i \in 1 .. 8 : f # seq[i] PROVE \A i \in 1 .. 8 : f < seq[i]
    OBVIOUS
  <2>1. f \in Int /\ f <= e /\ Libre(f)
    OBVIOUS
  <2>2. f < e - r[8] + r[1]
    BY <1>2, <1>3, <2>1
  <2>3. \A i \in 1 .. 8 : r[1] <= r[i]
    BY <1>2
  <2> QED BY <1>2, <1>3, <2>1, <2>2, <2>3
<1>9. Remonter(bons, 8) = seq
  <2> HIDE DEF bons
  <2> QED BY <1>5, <1>6, <1>7, <1>8, RemonterDonne
<1> QED BY <1>2, <1>3, <1>4, <1>9 DEF HuitDerniers

\* Where a block of a subchannel ends.
PlaceFacchH(e, ss) == Libre(e) /\ (e - ss) % 26 \in {15, 23, 6}

LEMMA BlocFacchHDit ==
  ASSUME NEW e \in Int, NEW ss \in {0, 1}, NEW seq \in BlocFacchH(e, ss)
  PROVE  /\ PlaceFacchH(e, ss)
         /\ seq = SixDerniers(e, ss) /\ seq \in [1 .. 6 -> Int] /\ seq[6] = e
<1>1. PICK r \in TableFacchH[ss + 1] :
        (e - r[Len(r)]) % 26 = 0 /\ seq = [i \in DOMAIN r |-> e - r[Len(r)] + r[i]]
  BY DEF BlocFacchH, Trames
<1>2. /\ DOMAIN r = 1 .. 6 /\ Len(r) = 6
      /\ \A i \in 1 .. 6 : r[i] \in Nat /\ e - r[6] + r[i] >= e - 11 /\ e - r[6] + r[i] <= e
                           /\ Libre(e - r[6] + r[i]) /\ Rang(e - r[6] + r[i]) % 2 = ss
      /\ \A i, j \in 1 .. 6 : i < j => r[i] < r[j]
      /\ \A f \in Int : Libre(f) /\ Rang(f) % 2 = ss /\ f <= e /\ f >= e - r[6] + r[1]
           => \E i \in 1 .. 6 : f = e - r[6] + r[i]
      /\ (e - ss) % 26 \in {15, 23, 6}
  BY <1>1, RangeeFacchH
<1>3. /\ seq \in [1 .. 6 -> Int]
      /\ \A i \in 1 .. 6 : seq[i] = e - r[6] + r[i]
      /\ seq[6] = e
  BY <1>1, <1>2
<1>4. Libre(e)
  <2>1. e - r[6] + r[6] = e
    BY <1>2
  <2> QED BY <1>2, <2>1
<1> DEFINE bons == {f \in e - 30 .. e : Libre(f) /\ Rang(f) % 2 = ss}
<1>5. bons \in SUBSET Int /\ IsFiniteSet(bons)
  <2>1. bons \in SUBSET (e - 30 .. e) /\ e - 30 .. e \in SUBSET Int
    OBVIOUS
  <2>2. IsFiniteSet(e - 30 .. e)
    BY FS_Interval
  <2> QED BY <2>1, <2>2, FS_Subset
<1>6. seq \in [1 .. 6 -> bons]
  <2>1. \A i \in 1 .. 6 : e - r[6] + r[i] \in e - 30 .. e
    BY <1>2
  <2> QED BY <1>2, <1>3, <2>1
<1>7. \A i, j \in 1 .. 6 : i < j => seq[i] < seq[j]
  BY <1>2, <1>3
<1>8. \A f \in bons : (\A i \in 1 .. 6 : f # seq[i]) => \A i \in 1 .. 6 : f < seq[i]
  <2> SUFFICES ASSUME NEW f \in bons, \A i \in 1 .. 6 : f # seq[i] PROVE \A i \in 1 .. 6 : f < seq[i]
    OBVIOUS
  <2>1. f \in Int /\ f <= e /\ Libre(f) /\ Rang(f) % 2 = ss
    OBVIOUS
  <2>2. f < e - r[6] + r[1]
    BY <1>2, <1>3, <2>1
  <2>3. \A i \in 1 .. 6 : r[1] <= r[i]
    BY <1>2
  <2> QED BY <1>2, <1>3, <2>1, <2>2, <2>3
<1>9. Remonter(bons, 6) = seq
  <2> HIDE DEF bons
  <2> QED BY <1>5, <1>6, <1>7, <1>8, RemonterDonne
<1> QED BY <1>2, <1>3, <1>4, <1>9 DEF SixDerniers, PlaceFacchH

\* The six frames counted back end at the frame they are counted from.
LEMMA SixDerniersDits ==
  ASSUME NEW e \in Int, NEW ss \in {0, 1}, PlaceFacchH(e, ss)
  PROVE  SixDerniers(e, ss) \in [1 .. 6 -> Int] /\ SixDerniers(e, ss)[6] = e
<1>1. \E r \in TableFacchH[ss + 1] : (e - r[Len(r)]) % 26 = 0
  <2>1. (e - ss - 15) % 26 = 0 \/ (e - ss - 23) % 26 = 0 \/ (e - ss - 32) % 26 = 0
    BY DEF PlaceFacchH
  <2>2. \A x \in {15 + ss, 23 + ss, 32 + ss} : \E r \in TableFacchH[ss + 1] : r[Len(r)] = x
    <3>1. CASE ss = 0
      <4>1. TableFacchH[ss + 1] = {<<4, 6, 8, 10, 13, 15>>, <<13, 15, 17, 19, 21, 23>>,
                                  <<21, 23, 26, 28, 30, 32>>}
        BY <3>1 DEF TableFacchH
      <4>2. \A r \in TableFacchH[ss + 1] : Len(r) = 6
        BY <4>1
      <4>3. <<4, 6, 8, 10, 13, 15>>[6] = 15 /\ <<13, 15, 17, 19, 21, 23>>[6] = 23 /\ <<21, 23, 26, 28, 30, 32>>[6] = 32
        OBVIOUS
      <4>4. \A x \in {15, 23, 32} : \E r \in TableFacchH[ss + 1] : r[6] = x
        BY <4>1, <4>3
      <4> QED BY <3>1, <4>2, <4>4
    <3>2. CASE ss = 1
      <4>1. TableFacchH[ss + 1] = {<<5, 7, 9, 11, 14, 16>>, <<14, 16, 18, 20, 22, 24>>,
                                  <<22, 24, 27, 29, 31, 33>>}
        BY <3>2 DEF TableFacchH
      <4>2. \A r \in TableFacchH[ss + 1] : Len(r) = 6
        BY <4>1
      <4>3. <<5, 7, 9, 11, 14, 16>>[6] = 16 /\ <<14, 16, 18, 20, 22, 24>>[6] = 24 /\ <<22, 24, 27, 29, 31, 33>>[6] = 33
        OBVIOUS
      <4>4. \A x \in {16, 24, 33} : \E r \in TableFacchH[ss + 1] : r[6] = x
        BY <4>1, <4>3
      <4> QED BY <3>2, <4>2, <4>4
    <3> QED BY <3>1, <3>2
  <2>3. PICK x \in {15 + ss, 23 + ss, 32 + ss} : (e - x) % 26 = 0
    BY <2>1
  <2> QED BY <2>2, <2>3
<1>2. PICK r \in TableFacchH[ss + 1] : (e - r[Len(r)]) % 26 = 0
  BY <1>1
<1>3. [i \in DOMAIN r |-> e - r[Len(r)] + r[i]] \in BlocFacchH(e, ss)
  BY <1>2 DEF BlocFacchH, Trames
<1> QED BY <1>3, BlocFacchHDit

PlaceSacchH(e, ss) == e % 104 = (((12 + 26 * (cas.tn \div 2) + 13 * ss) % 104) + 78) % 104

LEMMA BlocSacchHDit ==
  ASSUME cas \in Cas, NEW e \in Int, NEW ss \in {0, 1}, NEW seq \in BlocSacchH(e, ss)
  PROVE  PlaceSacchH(e, ss) /\ seq = QuatreDerniers(e) /\ seq[4] = e
<1>0. cas.tn \in 1 .. 7
  BY DescenteAssumption
<1>1. PICK r \in TableSacchH(cas.tn)[ss + 1] :
        (e - r[Len(r)]) % 104 = 0 /\ seq = [i \in DOMAIN r |-> e - r[Len(r)] + r[i]]
  BY DEF BlocSacchH, Trames
<1>2. /\ DOMAIN r = 1 .. 4 /\ Len(r) = 4
      /\ r[4] - r[1] = 78 /\ r[4] - r[2] = 52 /\ r[4] - r[3] = 26 /\ \A i \in 1 .. 4 : r[i] \in Nat
      /\ e % 104 = (((12 + 26 * (cas.tn \div 2) + 13 * ss) % 104) + 78) % 104
  BY <1>0, <1>1, RangeeSacchH, ZenonT(60)
<1>3. seq = <<e - 78, e - 52, e - 26, e>>
  <2>1. seq = [i \in 1 .. 4 |-> e - r[4] + r[i]]
    BY <1>1, <1>2
  <2>2. /\ e - r[4] + r[1] = e - 78 /\ e - r[4] + r[2] = e - 52
        /\ e - r[4] + r[3] = e - 26 /\ e - r[4] + r[4] = e
    BY <1>2
  <2> QED BY <2>1, <2>2
<1> QED BY <1>2, <1>3 DEF QuatreDerniers, PlaceSacchH

LEMMA PlaceSacchHOccupee ==
  ASSUME cas \in Cas, NEW e \in Int, NEW ss \in {0, 1}, PlaceSacchH(e, ss)
  PROVE  ~Libre(e)
<1>1. cas.tn \in 1 .. 7
  BY DescenteAssumption
<1>2. \A t \in 0 .. 3 : ((((12 + 26 * t + 13 * ss) % 104) + 78) % 104) % 26 \in {12, 25}
  OBVIOUS
<1>3. e % 26 = (e % 104) % 26
  OBVIOUS
<1>4. cas.tn \div 2 \in 0 .. 3
  BY <1>1
<1> QED BY <1>2, <1>3, <1>4 DEF PlaceSacchH, Libre

-----------------------------------------------------------------------------
(* Invariants.                                                             *)

Mots == {"fd", "dd", "cd"}
Frames == 0 .. Hyper - 1
Canaux == [genre: {"sdcch", "tchf", "tchh"}, ss: {0, 1}, id: Nat]
Cles == {Clair, Kc}
Blocs == [genre: {"rien", "bruit", "facch", "parole", "sacch"}, fin: Int]
BlocsEmis == [genre: {"rien", "facch", "parole", "sacch"}, fin: Int]
Cellules == [blud: BOOLEAN, ko: BOOLEAN, bloc: Blocs]
Bursts == [canal: Canaux, cle: Cles]
Recus == UNION {[D -> Bursts] : D \in SUBSET Frames}

\* The shape of the state.
Forme ==
  /\ canal \in Canaux
  /\ bsp \in [joue: Canaux, recus: Recus, dernier: Frames \cup {Aucun}, fini: BlocsEmis]
  /\ deja \in [facch: Frames \cup {Aucun}, facchh: Frames \cup {Aucun}, sacch: Frames \cup {Aucun}]
  /\ mots \in [Mots -> Cellules]
  /\ dedie \in [ti: BOOLEAN, depuis: 0 .. Garde]
  /\ fini \in BlocsEmis
  /\ {reseau, a5, cle, sue} \subseteq Cles
  /\ pc # "arm" => n < Duree

LEMMA ConstantesDites ==
  /\ Hyper \in Nat \ {0} /\ Garde \in Nat /\ Duree \in Nat
  /\ Vide \in Cellules /\ Mauvais \in Cellules /\ Rien \in BlocsEmis /\ Bruit \in Blocs
  /\ Repos \in Canaux /\ Repos.genre = "sdcch" /\ Repos.id = 0
  /\ Rien # Bruit /\ ~Lue(Vide) /\ ~Lue(Mauvais) /\ ~DejaBon(Vide) /\ ~DejaBon(Mauvais)
BY DescenteAssumption DEF Vide, Mauvais, Cellules, Rien, Bruit, Bloc, Blocs, BlocsEmis, Repos, Canaux, Aucun,
   Lue, DejaBon

LEMMA BlocsEmisDits == BlocsEmis \subseteq Blocs
BY DEF BlocsEmis, Blocs

LEMMA BonDit ==
  ASSUME NEW b \in Blocs
  PROVE  /\ Bon(b) \in Cellules /\ DejaBon(Bon(b)) /\ Bon(b).bloc = b
         /\ (Lue(Bon(b)) <=> b # Bruit)
BY DEF Bon, Cellules, DejaBon, Lue

LEMMA FormeInit == Init => Forme
<1> SUFFICES ASSUME Init PROVE Forme OBVIOUS
<1>1. bsp \in [joue: Canaux, recus: Recus, dernier: Frames \cup {Aucun}, fini: BlocsEmis]
  <2>1. <<>> \in Recus
    <3>1. <<>> \in [{} -> Bursts]
      OBVIOUS
    <3> QED BY <3>1 DEF Recus
  <2> QED BY <2>1, ConstantesDites DEF Init
<1>2. mots \in [Mots -> Cellules]
  BY ConstantesDites DEF Init, Mots
<1> QED BY <1>1, <1>2, ConstantesDites DEF Init, Forme, Cles

\* One prosthesis: what it posts, and where.
LEMMA ParoleDite ==
  ASSUME NEW m \in [Mots -> Cellules], NEW b \in Blocs
  PROVE  /\ ProtheseParole(m, b) \in [Mots -> Cellules]
         /\ ProtheseParole(m, b) = m \/
              (~DejaBon(m["dd"]) /\ ProtheseParole(m, b) = [m EXCEPT !["dd"] = Bon(b)])
BY BonDit DEF ProtheseParole, Mots

LEMMA DecodeTchF ==
  ASSUME NEW seq, NEW b \in DecoderTchF(seq)
  PROVE  b \in {bsp.fini, Rien, Bruit}
BY DEF DecoderTchF

\* What a prosthesis may make of a word: nothing, the block of the last burst, or, in the
\* word of the speech, noise.
LEMMA FacchDite ==
  ASSUME Forme, NEW m \in [Mots -> Cellules], NEW s \in ProtheseFacch(m)
  PROVE  /\ s \in [Mots -> Cellules]
         /\ ~(dedie.ti /\ Nouveau(deja.facch)) => s = m
         /\ s["cd"] = m["cd"]
         /\ s["fd"] # m["fd"] => s["fd"] = Bon(bsp.fini) /\ bsp.fini.genre = "facch"
         /\ s["dd"] # m["dd"] => s["dd"] = Bon(Bruit)
                                 \/ (s["dd"] = Bon(bsp.fini) /\ bsp.fini.genre = "parole")
<1> DEFINE seq == HuitDerniers(bsp.dernier)
           utile == /\ dedie.ti /\ Nouveau(deja.facch) /\ Libre(bsp.dernier)
                    /\ (bsp.dernier % 13) % 4 = 3 /\ Present(seq)
           poser(b) == CASE b.genre = "facch" -> [m EXCEPT !.fd = Bon(b)]
                         [] b.genre \in {"parole", "bruit"} -> ProtheseParole(m, b)
                         [] OTHER -> m
<1>1. ProtheseFacch(m) = IF utile THEN {poser(b) : b \in DecoderTchF(seq)} ELSE {m}
  BY DEF ProtheseFacch
<1>2. utile => dedie.ti /\ Nouveau(deja.facch)
  OBVIOUS
<1> HIDE DEF utile
<1>3. CASE ~utile
  BY <1>1, <1>2, <1>3
<1>4. CASE utile
  <2>1. PICK b \in DecoderTchF(seq) : s = poser(b)
    BY <1>1, <1>4
  <2>2. b \in {bsp.fini, Rien, Bruit} /\ b \in Blocs
    BY DecodeTchF, ConstantesDites, BlocsEmisDits DEF Forme
  <2>a. b.genre \in {"bruit", "facch", "parole"} => b = Bruit \/ b = bsp.fini
    BY <2>2 DEF Rien, Bloc
  <2>b. Bruit.genre = "bruit"
    BY DEF Bruit, Bloc
  <2>c. bsp.fini.genre # "bruit"
    BY DEF Forme, BlocsEmis
  <2>3. CASE b.genre = "facch"
    <3>1. s = [m EXCEPT !["fd"] = Bon(b)] /\ b = bsp.fini
      BY <2>1, <2>a, <2>b, <2>3
    <3> QED BY <3>1, <2>3, <2>2, BonDit, <1>2, <1>4 DEF Mots
  <2>4. CASE b.genre \in {"parole", "bruit"}
    <3>1. s = ProtheseParole(m, b)
      BY <2>1, <2>4
    <3>2. b = Bruit \/ (b = bsp.fini /\ b.genre = "parole")
      BY <2>a, <2>b, <2>c, <2>4
    <3>3. /\ s \in [Mots -> Cellules]
          /\ s = m \/ s = [m EXCEPT !["dd"] = Bon(b)]
      BY <3>1, <2>2, ParoleDite
    <3> QED BY <3>2, <3>3, <1>2, <1>4 DEF Mots
  <2>5. CASE b.genre \notin {"facch", "parole", "bruit"}
    <3>1. s = m
      BY <2>1, <2>5
    <3> QED BY <3>1, <1>2, <1>4
  <2> QED BY <2>3, <2>4, <2>5
<1> QED BY <1>3, <1>4

LEMMA FacchHDite ==
  ASSUME Forme, NEW m \in [Mots -> Cellules], NEW s, s = ProtheseFacchH(m)
  PROVE  /\ s \in [Mots -> Cellules]
         /\ s = m \/ /\ s = [m EXCEPT !["fd"] = Bon(bsp.fini)]
                     /\ canal.genre = "tchh" /\ Nouveau(deja.facchh)
                     /\ bsp.fini # Rien /\ PlaceFacchH(bsp.dernier, canal.ss)
                     /\ bsp.recus[bsp.dernier].canal.genre = "tchh"
<1> DEFINE e == bsp.dernier
           seq == SixDerniers(e, canal.ss)
           utile == /\ canal.genre = "tchh" /\ Nouveau(deja.facchh)
                    /\ Libre(e) /\ (e - canal.ss) % 26 \in {15, 23, 6} /\ Present(seq)
           chiffre == DecoderFacchH(seq, cle')
           b == IF chiffre # Rien THEN chiffre ELSE DecoderFacchH(seq, Clair)
<1>1. s = IF utile /\ b # Rien /\ ~DejaBon(m.fd) THEN [m EXCEPT !.fd = Bon(b)] ELSE m
  BY DEF ProtheseFacchH
<1>2. bsp.fini \in Blocs /\ e \in Int /\ canal.ss \in {0, 1}
  BY ConstantesDites, BlocsEmisDits DEF Forme, Aucun, Canaux, Frames
<1>3. CASE utile /\ b # Rien /\ ~DejaBon(m.fd)
  <2>1. PlaceFacchH(e, canal.ss)
    BY <1>3 DEF PlaceFacchH
  <2>2. seq \in [1 .. 6 -> Int] /\ seq[6] = e
    BY <1>2, <2>1, SixDerniersDits
  <2>3. PICK k : DecoderFacchH(seq, k) # Rien /\ b = DecoderFacchH(seq, k)
    BY <1>3
  <2>4. b = bsp.fini /\ \A i \in DOMAIN seq : bsp.recus[seq[i]].canal.genre = "tchh"
    <3> HIDE DEF b, seq
    <3> QED BY <2>3 DEF DecoderFacchH, Entier
  <2>5. bsp.recus[e].canal.genre = "tchh"
    <3>1. 6 \in DOMAIN seq
      BY <2>2
    <3> QED BY <2>2, <2>4, <3>1
  <2>6. s = [m EXCEPT !["fd"] = Bon(bsp.fini)]
    BY <1>1, <1>3, <2>4
  <2>7. s \in [Mots -> Cellules]
    BY <1>2, <2>6, BonDit DEF Mots
  <2>8. canal.genre = "tchh" /\ Nouveau(deja.facchh) /\ b # Rien
    BY <1>3
  <2> HIDE DEF b, utile, seq, chiffre
  <2> QED BY <2>1, <2>4, <2>5, <2>6, <2>7, <2>8
<1>4. CASE ~(utile /\ b # Rien /\ ~DejaBon(m.fd))
  BY <1>1, <1>4
<1> QED BY <1>3, <1>4

LEMMA SacchHDite ==
  ASSUME Forme, NEW m \in [Mots -> Cellules], NEW s, s = ProtheseSacchH(m)
  PROVE  /\ s \in [Mots -> Cellules]
         /\ s = m \/ /\ s = [m EXCEPT !["cd"] = Bon(bsp.fini)]
                     /\ canal.genre = "tchh" /\ Nouveau(deja.sacch)
                     /\ bsp.fini # Rien /\ PlaceSacchH(bsp.dernier, canal.ss)
                     /\ bsp.recus[bsp.dernier].canal.genre = "tchh"
<1> DEFINE e == bsp.dernier
           base == (12 + 26 * (cas.tn \div 2) + 13 * canal.ss) % 104
           seq == QuatreDerniers(e)
           utile == /\ canal.genre = "tchh" /\ Nouveau(deja.sacch)
                    /\ e % 104 = (base + 78) % 104 /\ Present(seq)
           b == DecoderSacchH(seq, cle')
<1>1. s = IF utile /\ b # Rien /\ ~DejaBon(m.cd) THEN [m EXCEPT !.cd = Bon(b)] ELSE m
  BY DEF ProtheseSacchH
<1>2. bsp.fini \in Blocs /\ e \in Int /\ canal.ss \in {0, 1}
  BY ConstantesDites, BlocsEmisDits DEF Forme, Aucun, Canaux, Frames
<1>3. CASE utile /\ b # Rien /\ ~DejaBon(m.cd)
  <2>1. PlaceSacchH(e, canal.ss)
    BY <1>3 DEF PlaceSacchH
  <2>2. 4 \in DOMAIN seq /\ seq[4] = e
    BY DEF QuatreDerniers
  <2>4. b = bsp.fini /\ \A i \in DOMAIN seq : bsp.recus[seq[i]].canal.genre = "tchh"
    <3>1. b # Rien
      BY <1>3
    <3> HIDE DEF seq
    <3> QED BY <3>1 DEF DecoderSacchH, Entier
  <2>5. bsp.recus[e].canal.genre = "tchh"
    <3> HIDE DEF seq
    <3> QED BY <2>2, <2>4
  <2>6. s = [m EXCEPT !["cd"] = Bon(bsp.fini)]
    BY <1>1, <1>3, <2>4
  <2>7. s \in [Mots -> Cellules]
    BY <1>2, <2>6, BonDit DEF Mots
  <2>8. canal.genre = "tchh" /\ Nouveau(deja.sacch) /\ b # Rien
    BY <1>3
  <2> HIDE DEF b, utile, seq, base
  <2> QED BY <2>1, <2>4, <2>5, <2>6, <2>7, <2>8
<1>4. CASE ~(utile /\ b # Rien /\ ~DejaBon(m.cd))
  BY <1>1, <1>4
<1> QED BY <1>3, <1>4

LEMMA ModuloDit ==
  ASSUME NEW a \in Nat, NEW h \in Nat \ {0}
  PROVE  /\ a % h \in 0 .. h - 1
         /\ a < h => a % h = a
         /\ a >= h /\ a < 2 * h => a % h = a - h
OBVIOUS

LEMMA FnDit ==
  ASSUME cas \in Cas, n \in Nat
  PROVE  /\ cas.debut \in Frames /\ fn \in Frames /\ fn \in Int
         /\ n <= Hyper => fn = IF cas.debut + n < Hyper THEN cas.debut + n ELSE cas.debut + n - Hyper
<1>1. cas.debut \in 0 .. Hyper - 1 /\ Hyper \in Nat \ {0}
  BY DescenteAssumption
<1>2. cas.debut + n \in Nat
  BY <1>1
<1>3. fn \in 0 .. Hyper - 1
  BY <1>1, <1>2, ModuloDit DEF fn
<1>4. n <= Hyper => cas.debut + n < 2 * Hyper
  BY <1>1
<1>5. /\ cas.debut + n < Hyper => fn = cas.debut + n
      /\ cas.debut + n >= Hyper /\ cas.debut + n < 2 * Hyper => fn = cas.debut + n - Hyper
  BY <1>1, <1>2, ModuloDit, SMTT(30) DEF fn
<1>6. n <= Hyper => fn = IF cas.debut + n < Hyper THEN cas.debut + n ELSE cas.debut + n - Hyper
  BY <1>1, <1>2, <1>4, <1>5
<1> QED BY <1>1, <1>3, <1>6 DEF Frames

LEMMA FinissantsDits ==
  ASSUME cas \in Cas, n \in Nat, Forme, NEW b \in Finissants
  PROVE  /\ b \in BlocsEmis
         /\ bsp.joue.genre = "sdcch" => b = Rien
         /\ b.genre = "parole" => bsp.joue.genre = "tchf"
         /\ b.genre = "sacch" => bsp.joue.genre = "tchh" /\ ~Libre(fn)
         /\ b.genre = "facch" /\ bsp.joue.genre = "tchh" => Libre(fn)
<1> DEFINE de(table, genres) == IF table = {} THEN {} ELSE genres
           tchf == de(BlocTchF(fn), {"facch", "parole"})
           sacch == de(BlocSacchH(fn, bsp.joue.ss), {"sacch"})
           facch == de(BlocFacchH(fn, bsp.joue.ss), {"facch", "rien"})
           blocs == IF bsp.joue.genre = "tchf" THEN tchf
                    ELSE IF bsp.joue.genre = "tchh" THEN sacch \cup facch
                    ELSE {}
<1>1. b = Rien \/ \E x \in blocs : x # "rien" /\ b = Bloc(x, n)
  BY DEF Finissants
<1>2. bsp.joue.genre \in {"sdcch", "tchf", "tchh"} /\ bsp.joue.ss \in {0, 1} /\ fn \in Int
  BY FnDit DEF Forme, Canaux
<1>3. sacch # {} => ~Libre(fn)
  <2>1. sacch # {} => BlocSacchH(fn, bsp.joue.ss) # {}
    OBVIOUS
  <2> QED BY <1>2, <2>1, BlocSacchHDit, PlaceSacchHOccupee
<1>4. facch # {} => Libre(fn)
  <2>1. facch # {} => BlocFacchH(fn, bsp.joue.ss) # {}
    OBVIOUS
  <2> QED BY <1>2, <2>1, BlocFacchHDit DEF PlaceFacchH
<1>5. tchf \subseteq {"facch", "parole"} /\ sacch \subseteq {"sacch"} /\ facch \subseteq {"facch", "rien"}
  OBVIOUS
<1>6. Rien \in BlocsEmis /\ Rien.genre = "rien"
  BY DEF Rien, Bloc, BlocsEmis, Aucun
<1>7. \A x : Bloc(x, n).genre = x
  BY DEF Bloc
<1>8. \A x \in {"facch", "parole", "sacch"} : Bloc(x, n) \in BlocsEmis
  BY DEF Bloc, BlocsEmis
<1> HIDE DEF tchf, sacch, facch
<1>9. CASE b = Rien
  BY <1>6, <1>9
<1>10. CASE \E x \in blocs : x # "rien" /\ b = Bloc(x, n)
  <2>1. PICK x \in blocs : x # "rien" /\ b = Bloc(x, n)
    BY <1>10
  <2>2. CASE bsp.joue.genre = "tchf"
    BY <2>1, <2>2, <1>5, <1>7, <1>8
  <2>3. CASE bsp.joue.genre = "tchh"
    BY <2>1, <2>3, <1>3, <1>4, <1>5, <1>7, <1>8
  <2>4. CASE bsp.joue.genre = "sdcch"
    BY <2>1, <2>4
  <2> QED BY <1>2, <2>2, <2>3, <2>4
<1> QED BY <1>1, <1>9, <1>10

\* The last burst is one of the channel announced.
Meme == bsp.dernier # Aucun /\ bsp.recus[bsp.dernier].canal = canal

Cadre ==
  /\ cas \in Cas /\ pc \in {"arm", "dsp", "pont"} /\ n \in 0 .. Duree
  /\ Forme /\ bsp.dernier \in DOMAIN bsp.recus \cup {Aucun}

\* The block of the last burst is of a kind that ends there on the channel of that burst.
Place ==
  bsp.dernier # Aucun =>
    LET g == bsp.recus[bsp.dernier].canal.genre
    IN  /\ bsp.fini.genre = "parole" => g = "tchf"
        /\ bsp.fini.genre = "sacch" => g = "tchh" /\ ~Libre(bsp.dernier)
        /\ bsp.fini.genre = "facch" /\ g = "tchh" => Libre(bsp.dernier)

\* No channel comes back under the same id.
Identites ==
  /\ bsp.joue.id <= canal.id
  /\ \A f \in DOMAIN bsp.recus :
       bsp.recus[f].canal.genre # "sdcch" /\ bsp.recus[f].canal.id <= canal.id

\* The flag of the dedicated mode has been up for as long as the BSP plays the channel.
Suivi ==
  /\ pc = "arm" => bsp.joue = canal
  /\ Meme => bsp.joue = canal
  /\ bsp.joue = canal /\ canal.genre # "sdcch" => dedie.ti = (0 < Garde)
  /\ pc = "pont" /\ canal.genre # "sdcch" => dedie.depuis = 0

\* A prosthesis that was on for the last burst has noted it.
Notes ==
  Meme /\ (pc # "pont" \/ lus # {}) =>
    /\ 0 < Garde => deja.facch = bsp.dernier
    /\ canal.genre = "tchh" => deja.facchh = bsp.dernier /\ deja.sacch = bsp.dernier

\* What the firmware finds is the block of the last burst, and it has not read it.
Lecture ==
  /\ pc = "dsp" => \A w \in Mots : mots[w] = Vide
  /\ \A w \in Mots : Lue(mots[w]) => mots[w].bloc = bsp.fini /\ bsp.dernier # Aucun
  /\ pc = "pont" => \A w \in Mots : Lue(mots[w]) => lus = {}
  /\ lus # {} => bsp.dernier # Aucun
  /\ pc = "arm" /\ Meme => \A w \in Mots : Lue(mots[w]) => w \notin lus

\* Each word holds a block of its own kind, and noise is only good for speech.
Contenu ==
  \A w \in Mots : /\ mots[w].bloc.genre \in Genres[w]
                  /\ DejaBon(mots[w]) /\ mots[w].bloc = Bruit => w = "dd"

IInv == Cadre /\ Place /\ Identites /\ Suivi /\ Notes /\ Lecture /\ Contenu

LEMMA IInvTient ==
  ASSUME IInv
  PROVE  TypeOK /\ JamaisDeuxFois
<1>1. /\ canal \in Canaux /\ deja \in [facch: Frames \cup {Aucun}, facchh: Frames \cup {Aucun},
                                       sacch: Frames \cup {Aucun}]
      /\ mots \in [Mots -> Cellules] /\ dedie \in [ti: BOOLEAN, depuis: 0 .. Garde]
      /\ {reseau, a5, cle, sue} \subseteq Cles /\ bsp.recus \in Recus
      /\ bsp.dernier \in DOMAIN bsp.recus \cup {Aucun}
      /\ cas \in Cas /\ pc \in {"arm", "dsp", "pont"} /\ n \in 0 .. Duree
  BY DEF IInv, Cadre, Forme
<1>2. DOMAIN bsp.recus \subseteq Frames
  BY <1>1 DEF Recus
<1>3. DOMAIN mots = Mots /\ \A w \in Mots : mots[w].blud \in BOOLEAN
  BY <1>1 DEF Cellules
<1>4. \A p \in DOMAIN deja : deja[p] \in Frames \cup {Aucun}
  <2>1. /\ DOMAIN deja = {"facch", "facchh", "sacch"} /\ deja["facch"] \in Frames \cup {Aucun}
        /\ deja["facchh"] \in Frames \cup {Aucun} /\ deja["sacch"] \in Frames \cup {Aucun}
    BY <1>1
  <2> QED BY <2>1
<1>5. canal.genre \in {"sdcch", "tchf", "tchh"} /\ canal.ss \in {0, 1} /\ canal.id \in Nat
  BY <1>1 DEF Canaux
<1>6. dedie.ti \in BOOLEAN /\ dedie.depuis \in 0 .. Garde
  BY <1>1
<1>7. TypeOK
  BY <1>1, <1>2, <1>3, <1>4, <1>5, <1>6 DEF TypeOK, Frames, Cles, IInv, Contenu
<1>8. JamaisDeuxFois
  BY <1>3 DEF JamaisDeuxFois, IInv, Lecture, Meme
<1> QED BY <1>7, <1>8

LEMMA IInvInit == Init => IInv
<1> SUFFICES ASSUME Init PROVE IInv
  OBVIOUS
<1>1. Forme
  BY FormeInit
<1>2. /\ cas \in Cas /\ pc = "arm" /\ n = 0 /\ canal = Repos /\ bsp.joue = Repos /\ bsp.dernier = Aucun
      /\ bsp.recus = <<>> /\ lus = {} /\ \A w \in Mots : mots[w] = Vide
  BY DEF Init, Mots
<1>3. Cadre
  BY <1>1, <1>2, DescenteAssumption DEF Cadre
<1>4. Place /\ Identites /\ Suivi /\ Notes
  BY <1>2, ConstantesDites DEF Place, Identites, Suivi, Notes, Meme
<1>5. Lecture
  BY <1>2, ConstantesDites DEF Lecture
<1>6. Contenu
  <2>1. Vide.bloc.genre = "rien" /\ ~DejaBon(Vide)
    BY DEF Vide, Rien, Bloc, DejaBon
  <2> QED BY <1>2, <2>1 DEF Contenu, Genres, Mots
<1> QED BY <1>3, <1>4, <1>5, <1>6 DEF IInv

-----------------------------------------------------------------------------
(* The actions.                                                            *)

\* What Arm does: the words read and cleared, the channel left alone, changed for one of a
\* new id or given back.
LEMMA ArmDit ==
  ASSUME Cadre, Arm
  PROVE  /\ pc = "arm" /\ pc' = "dsp" /\ n < Duree
         /\ lus' = lus \cup {w \in Mots : Lue(mots[w])}
         /\ mots' \in [Mots -> Cellules] /\ \A w \in Mots : mots'[w] = Vide
         /\ canal' \in Canaux /\ {reseau', a5', sue'} \subseteq Cles
         /\ canal' = canal \/ canal'.id = canal.id + 1
              \/ (canal'.genre = "sdcch" /\ canal'.id = canal.id)
         /\ UNCHANGED <<cas, n, cle, bsp, deja, dedie, fini>>
<1>1. /\ pc = "arm" /\ pc' = "dsp" /\ n < Duree
      /\ lus' = lus \cup {w \in DOMAIN mots : Lue(mots[w])}
      /\ mots' = [w \in DOMAIN mots |-> Vide]
      /\ UNCHANGED <<cas, n, cle, bsp, deja, dedie, fini>>
  BY DEF Arm
<1>2. DOMAIN mots = Mots
  BY DEF Cadre, Forme
<1>3. mots' \in [Mots -> Cellules] /\ \A w \in Mots : mots'[w] = Vide
  BY <1>1, <1>2, ConstantesDites
<1>4. canal \in Canaux /\ {reseau, a5, sue} \subseteq Cles /\ Clair \in Cles /\ Kc \in Cles
  BY DEF Cadre, Forme, Cles
<1>5. {reseau', a5', sue'} \subseteq Cles
  <2>1. reseau' \in {reseau, Kc, Clair} /\ a5' \in {a5, Kc, Clair} /\ sue' \in {sue, Kc, Clair}
    BY DEF Arm
  <2> QED BY <1>4, <2>1
<1>6. /\ canal' \in Canaux
      /\ canal' = canal \/ canal'.id = canal.id + 1
           \/ (canal'.genre = "sdcch" /\ canal'.id = canal.id)
  <2>1. \/ canal' = canal
        \/ \E genre \in {"tchf", "tchh"}, ss \in {0, 1} :
             canal' = [genre |-> genre, ss |-> IF genre = "tchf" THEN 0 ELSE ss, id |-> canal.id + 1]
        \/ canal' = [Repos EXCEPT !.id = canal.id]
    BY DEF Arm
  <2>2. CASE canal' = canal
    BY <2>2, <1>4
  <2>3. ASSUME NEW genre \in {"tchf", "tchh"}, NEW ss \in {0, 1},
               canal' = [genre |-> genre, ss |-> IF genre = "tchf" THEN 0 ELSE ss, id |-> canal.id + 1]
        PROVE  canal' \in Canaux /\ canal'.id = canal.id + 1
    BY <2>3, <1>4 DEF Canaux
  <2>4. CASE canal' = [Repos EXCEPT !.id = canal.id]
    <3>1. canal' = [genre |-> "sdcch", ss |-> 0, id |-> canal.id]
      BY <2>4 DEF Repos
    <3> QED BY <3>1, <1>4 DEF Canaux
  <2> QED BY <2>1, <2>2, <2>3, <2>4
<1> QED BY <1>1, <1>2, <1>3, <1>5, <1>6

\* The burst of this frame is delivered.
Livree ==
  /\ bsp.joue.genre # "sdcch" /\ lus' = {}
  /\ bsp'.joue = bsp.joue /\ bsp'.dernier = fn /\ bsp'.fini = fini' /\ fn \in DOMAIN bsp'.recus
  /\ bsp'.recus[fn] = [canal |-> bsp.joue, cle |-> reseau]
  /\ \A f \in DOMAIN bsp'.recus : f = fn \/ (f \in DOMAIN bsp.recus /\ bsp'.recus[f] = bsp.recus[f])

LEMMA RomDit ==
  ASSUME Forme, NEW b \in BlocsEmis, NEW livree \in BOOLEAN, NEW s \in Rom(b, livree)
  PROVE  /\ s \in [Mots -> Cellules]
         /\ \A w \in Mots : \/ s[w] = mots[w] \/ s[w] = Mauvais
                            \/ livree /\ s[w] = Bon(b) /\ b.genre \in Genres[w] \ {"rien", "bruit"}
<1>1. mots \in [Mots -> Cellules] /\ b \in Blocs
  BY BlocsEmisDits DEF Forme
<1>2. \/ s = mots
      \/ \E w \in Mots :
           \/ s = [mots EXCEPT ![w] = Mauvais]
           \/ livree /\ s = [mots EXCEPT ![w] = Bon(b)] /\ b.genre \in Genres[w] \ {"rien", "bruit"}
  <2> DEFINE mot == CASE b.genre = "facch" -> "fd" [] b.genre = "parole" -> "dd"
                      [] b.genre = "sacch" -> "cd" [] OTHER -> "aucun"
  <2>1. s \in IF mot = "aucun" THEN {mots}
              ELSE {mots, [mots EXCEPT ![mot] = Mauvais]}
                   \cup IF a5 = reseau /\ livree THEN {[mots EXCEPT ![mot] = Bon(b)]} ELSE {}
    BY DEF Rom
  <2>2. mot # "aucun" => mot \in Mots /\ b.genre \in Genres[mot] \ {"rien", "bruit"}
    BY DEF Mots, Genres
  <2> HIDE DEF mot
  <2> QED BY <2>1, <2>2
<1>3. CASE s = mots
  BY <1>1, <1>3
<1>4. ASSUME NEW w \in Mots, s = [mots EXCEPT ![w] = Mauvais]
      PROVE  s \in [Mots -> Cellules] /\ \A x \in Mots : s[x] = mots[x] \/ s[x] = Mauvais
  BY <1>1, <1>4, ConstantesDites
<1>5. ASSUME NEW w \in Mots, s = [mots EXCEPT ![w] = Bon(b)]
      PROVE  /\ s \in [Mots -> Cellules] /\ s[w] = Bon(b)
             /\ \A x \in Mots : x # w => s[x] = mots[x]
  BY <1>1, <1>5, BonDit
<1> QED BY <1>2, <1>3, <1>4, <1>5

LEMMA DspDit ==
  ASSUME Cadre, Dsp
  PROVE  /\ pc = "dsp" /\ pc' = "pont" /\ fini' \in Finissants /\ fini' \in BlocsEmis
         /\ mots' \in [Mots -> Cellules]
         /\ bsp' \in [joue: Canaux, recus: Recus, dernier: Frames \cup {Aucun}, fini: BlocsEmis]
         /\ bsp'.dernier \in DOMAIN bsp'.recus \cup {Aucun}
         /\ dedie' \in [ti: BOOLEAN, depuis: 0 .. Garde] /\ dedie'.ti = dedie.ti
         /\ canal.genre # "sdcch" => dedie'.depuis = 0
         /\ Livree \/ (UNCHANGED <<bsp, lus>> /\ fn \in Frames)
         /\ \A w \in Mots : \/ mots'[w] = mots[w] \/ mots'[w] = Mauvais
                            \/ Livree /\ mots'[w] = Bon(fini') /\ fini'.genre \in Genres[w] \ {"rien", "bruit"}
         /\ UNCHANGED <<cas, n, canal, reseau, a5, cle, deja, sue>>
<1>1. /\ cas \in Cas /\ n \in Nat /\ Forme
  BY DescenteAssumption DEF Cadre
<1>2. /\ pc = "dsp" /\ pc' = "pont" /\ fini' \in Finissants
      /\ UNCHANGED <<cas, n, canal, reseau, a5, cle, deja, sue>>
      /\ dedie' = [dedie EXCEPT !.depuis = IF canal.genre # "sdcch" THEN 0
                                           ELSE IF @ < Garde THEN @ + 1 ELSE @]
  BY DEF Dsp
<1>3. fini' \in BlocsEmis
  BY <1>1, <1>2, FinissantsDits
<1>4. /\ dedie' \in [ti: BOOLEAN, depuis: 0 .. Garde] /\ dedie'.ti = dedie.ti
      /\ canal.genre # "sdcch" => dedie'.depuis = 0
  BY <1>1, <1>2, DescenteAssumption DEF Forme
<1> DEFINE gardes == {f \in DOMAIN bsp.recus : (fn - f) % Hyper <= Profondeur}
           burst == [canal |-> bsp.joue, cle |-> reseau]
           livre == [f \in gardes \cup {fn} |-> IF f = fn THEN burst ELSE bsp.recus[f]]
<1>5. \/ /\ bsp.joue.genre # "sdcch" /\ lus' = {} /\ mots' \in Rom(fini', TRUE)
         /\ bsp' = [bsp EXCEPT !.recus = livre, !.dernier = fn, !.fini = fini']
      \/ mots' \in Rom(fini', FALSE) /\ UNCHANGED <<bsp, lus>>
  BY DEF Dsp
<1>6. CASE /\ bsp.joue.genre # "sdcch" /\ lus' = {} /\ mots' \in Rom(fini', TRUE)
           /\ bsp' = [bsp EXCEPT !.recus = livre, !.dernier = fn, !.fini = fini']
  <2>1. fn \in Frames
    BY <1>1, FnDit
  <2>2. burst \in Bursts
    BY <1>1 DEF Forme, Bursts
  <2>3. PICK D \in SUBSET Frames : bsp.recus \in [D -> Bursts]
    BY <1>1 DEF Forme, Recus
  <2>4. gardes \in SUBSET D
    BY <2>3
  <2>5. livre \in [gardes \cup {fn} -> Bursts] /\ gardes \cup {fn} \in SUBSET Frames
    <3> HIDE DEF gardes, burst
    <3> QED BY <2>1, <2>2, <2>3, <2>4
  <2>6. livre \in Recus /\ fn \in DOMAIN livre /\ livre[fn] = burst
    <3> HIDE DEF gardes, burst
    <3> QED BY <2>5 DEF Recus
  <2>7. \A f \in DOMAIN livre : f = fn \/ (f \in DOMAIN bsp.recus /\ livre[f] = bsp.recus[f])
    BY <2>3, <2>4
  <2> HIDE DEF livre
  <2>8. bsp' = [joue |-> bsp.joue, recus |-> livre, dernier |-> fn, fini |-> fini']
    BY <1>1, <1>6 DEF Forme
  <2>9. bsp' \in [joue: Canaux, recus: Recus, dernier: Frames \cup {Aucun}, fini: BlocsEmis]
    BY <2>8, <2>1, <2>6, <1>1, <1>3 DEF Forme
  <2>10. Livree
    BY <2>8, <2>6, <2>7, <1>6 DEF Livree
  <2>11. bsp'.dernier \in DOMAIN bsp'.recus
    BY <2>8, <2>6
  <2>12. /\ mots' \in [Mots -> Cellules]
         /\ \A w \in Mots : \/ mots'[w] = mots[w] \/ mots'[w] = Mauvais
                            \/ mots'[w] = Bon(fini') /\ fini'.genre \in Genres[w] \ {"rien", "bruit"}
    BY <1>1, <1>3, <1>6, RomDit
  <2> QED BY <1>2, <1>3, <1>4, <2>9, <2>10, <2>11, <2>12
<1>7. CASE mots' \in Rom(fini', FALSE) /\ UNCHANGED <<bsp, lus>>
  <2>1. /\ mots' \in [Mots -> Cellules]
        /\ \A w \in Mots : mots'[w] = mots[w] \/ mots'[w] = Mauvais
    BY <1>1, <1>3, <1>7, RomDit
  <2>2. bsp' \in [joue: Canaux, recus: Recus, dernier: Frames \cup {Aucun}, fini: BlocsEmis]
        /\ bsp'.dernier \in DOMAIN bsp'.recus \cup {Aucun}
    BY <1>7 DEF Cadre, Forme
  <2>3. fn \in Frames
    BY <1>1, FnDit
  <2> QED BY <1>2, <1>3, <1>4, <1>7, <2>1, <2>2, <2>3
<1> QED BY <1>5, <1>6, <1>7

\* What Scruter leaves in the words: what was there, or the block of the last burst,
\* posted by a prosthesis that had not noted it, or noise for speech.
LEMMA ScruterDit ==
  ASSUME Cadre, Scruter
  PROVE  /\ pc = "pont" /\ pc' = "arm" /\ n' = n + 1
         /\ cle' = SuivreCle /\ cle' \in Cles
         /\ deja' = Noter /\ deja' \in [facch: Frames \cup {Aucun}, facchh: Frames \cup {Aucun},
                                        sacch: Frames \cup {Aucun}]
         /\ dedie' \in [ti: BOOLEAN, depuis: 0 .. Garde]
         /\ dedie'.ti = DedieTi /\ dedie'.depuis = dedie.depuis
         /\ bsp' \in [joue: Canaux, recus: Recus, dernier: Frames \cup {Aucun}, fini: BlocsEmis]
         /\ bsp'.joue = canal /\ bsp'.recus = bsp.recus /\ bsp'.dernier = bsp.dernier
         /\ bsp'.fini = bsp.fini
         /\ UNCHANGED <<cas, canal, reseau, a5, fini, sue, lus>>
<1>1. /\ pc = "pont" /\ pc' = "arm" /\ n' = n + 1 /\ cle' = SuivreCle /\ deja' = Noter
      /\ dedie' = [dedie EXCEPT !.ti = DedieTi] /\ bsp' = [bsp EXCEPT !.joue = canal]
      /\ UNCHANGED <<cas, canal, reseau, a5, fini, sue, lus>>
  BY DEF Scruter
<1>2. Forme
  BY DEF Cadre
<1>3. cle' \in Cles
  BY <1>1, <1>2 DEF SuivreCle, Forme, Cles
<1>4. Noter \in [facch: Frames \cup {Aucun}, facchh: Frames \cup {Aucun}, sacch: Frames \cup {Aucun}]
  BY <1>2 DEF Noter, Forme
<1>5. /\ dedie' \in [ti: BOOLEAN, depuis: 0 .. Garde]
      /\ dedie'.ti = DedieTi /\ dedie'.depuis = dedie.depuis
  <2>1. DedieTi \in BOOLEAN
    BY DEF DedieTi
  <2>2. dedie' = [ti |-> DedieTi, depuis |-> dedie.depuis] /\ dedie.depuis \in 0 .. Garde
    BY <1>1, <1>2 DEF Forme
  <2> QED BY <2>1, <2>2
<1>6. /\ bsp' \in [joue: Canaux, recus: Recus, dernier: Frames \cup {Aucun}, fini: BlocsEmis]
      /\ bsp'.joue = canal /\ bsp'.recus = bsp.recus /\ bsp'.dernier = bsp.dernier
      /\ bsp'.fini = bsp.fini
  <2>1. bsp' = [joue |-> canal, recus |-> bsp.recus, dernier |-> bsp.dernier, fini |-> bsp.fini]
    BY <1>1, <1>2 DEF Forme
  <2> QED BY <1>2, <2>1 DEF Forme
<1> QED BY <1>1, <1>3, <1>4, <1>5, <1>6

MotsPostes(m, s) ==
  /\ s \in [Mots -> Cellules]
  /\ \A w \in Mots :
       \/ s[w] = m[w]
       \/ w = "dd" /\ s[w] = Bon(Bruit)
       \/ /\ s[w] = Bon(bsp.fini) /\ bsp.dernier # Aucun
          /\ \/ w \in {"fd", "dd"} /\ dedie.ti /\ Nouveau(deja.facch) /\ bsp.fini.genre \in Genres[w] \ {"rien", "bruit"}
             \/ /\ w = "fd" /\ canal.genre = "tchh" /\ Nouveau(deja.facchh) /\ bsp.fini # Rien
                /\ Libre(bsp.dernier) /\ bsp.recus[bsp.dernier].canal.genre = "tchh"
             \/ /\ w = "cd" /\ canal.genre = "tchh" /\ Nouveau(deja.sacch) /\ bsp.fini # Rien
                /\ ~Libre(bsp.dernier) /\ bsp.recus[bsp.dernier].canal.genre = "tchh"

LEMMA ScruterPoste ==
  ASSUME Cadre, Scruter
  PROVE  MotsPostes(mots, mots')
<1>1. Forme /\ mots \in [Mots -> Cellules] /\ cas \in Cas /\ canal.ss \in {0, 1} /\ bsp.dernier \in Int
  BY DEF Cadre, Forme, Canaux, Frames, Aucun
<1>2. PICK m \in ProtheseFacch(mots) : mots' = ProtheseSacchH(ProtheseFacchH(m))
  BY DEF Scruter
<1> DEFINE p == ProtheseFacchH(m)
           s == ProtheseSacchH(p)
<1>3. /\ m \in [Mots -> Cellules]
      /\ ~(dedie.ti /\ Nouveau(deja.facch)) => m = mots
      /\ m["cd"] = mots["cd"]
      /\ m["fd"] # mots["fd"] => m["fd"] = Bon(bsp.fini) /\ bsp.fini.genre = "facch"
      /\ m["dd"] # mots["dd"] => m["dd"] = Bon(Bruit)
                                 \/ (m["dd"] = Bon(bsp.fini) /\ bsp.fini.genre = "parole")
  BY <1>1, FacchDite
<1>4. /\ p \in [Mots -> Cellules]
      /\ p = m \/ /\ p = [m EXCEPT !["fd"] = Bon(bsp.fini)]
                  /\ canal.genre = "tchh" /\ Nouveau(deja.facchh)
                  /\ bsp.fini # Rien /\ PlaceFacchH(bsp.dernier, canal.ss)
                  /\ bsp.recus[bsp.dernier].canal.genre = "tchh"
  BY <1>1, <1>3, FacchHDite
<1> HIDE DEF p
<1>5. /\ s \in [Mots -> Cellules]
      /\ s = p \/ /\ s = [p EXCEPT !["cd"] = Bon(bsp.fini)]
                  /\ canal.genre = "tchh" /\ Nouveau(deja.sacch)
                  /\ bsp.fini # Rien /\ PlaceSacchH(bsp.dernier, canal.ss)
                  /\ bsp.recus[bsp.dernier].canal.genre = "tchh"
  BY <1>1, <1>4, SacchHDite
<1>6. mots' = s
  BY <1>2 DEF p
<1> HIDE DEF s
<1>7. PlaceSacchH(bsp.dernier, canal.ss) => ~Libre(bsp.dernier)
  BY <1>1, PlaceSacchHOccupee
<1>8. PlaceFacchH(bsp.dernier, canal.ss) => Libre(bsp.dernier)
  BY DEF PlaceFacchH
<1>9. \A d : Nouveau(d) => bsp.dernier # Aucun
  BY DEF Nouveau
<1>10. Genres["fd"] = {"rien", "bruit", "facch"} /\ Genres["dd"] = {"rien", "bruit", "parole"}
  BY DEF Genres
<1>11. s["dd"] = m["dd"] /\ p["dd"] = m["dd"] /\ p["cd"] = m["cd"] /\ s["fd"] = p["fd"]
  BY <1>3, <1>4, <1>5 DEF Mots
<1>12. \/ s["fd"] = mots["fd"]
       \/ /\ s["fd"] = Bon(bsp.fini) /\ bsp.dernier # Aucun
          /\ \/ dedie.ti /\ Nouveau(deja.facch) /\ bsp.fini.genre = "facch"
             \/ /\ canal.genre = "tchh" /\ Nouveau(deja.facchh) /\ bsp.fini # Rien
                /\ Libre(bsp.dernier) /\ bsp.recus[bsp.dernier].canal.genre = "tchh"
  <2>1. CASE p = m
    BY <2>1, <1>3, <1>9, <1>11
  <2>2. CASE p # m
    BY <2>2, <1>3, <1>4, <1>8, <1>9, <1>11 DEF Mots
  <2> QED BY <2>1, <2>2
<1>13. \/ s["dd"] = mots["dd"] \/ s["dd"] = Bon(Bruit)
       \/ /\ s["dd"] = Bon(bsp.fini) /\ bsp.dernier # Aucun
          /\ dedie.ti /\ Nouveau(deja.facch) /\ bsp.fini.genre = "parole"
  BY <1>3, <1>9, <1>11
<1>14. \/ s["cd"] = mots["cd"]
       \/ /\ s["cd"] = Bon(bsp.fini) /\ bsp.dernier # Aucun
          /\ canal.genre = "tchh" /\ Nouveau(deja.sacch) /\ bsp.fini # Rien
          /\ ~Libre(bsp.dernier) /\ bsp.recus[bsp.dernier].canal.genre = "tchh"
  BY <1>3, <1>4, <1>5, <1>7, <1>9, <1>11 DEF Mots
<1> QED BY <1>5, <1>6, <1>10, <1>12, <1>13, <1>14 DEF MotsPostes, Mots

-----------------------------------------------------------------------------
(* The invariant is kept.                                                  *)

LEMMA ArmTient ==
  ASSUME IInv, Arm
  PROVE  IInv'
<1>0. Cadre
  BY DEF IInv
<1>1. /\ pc = "arm" /\ pc' = "dsp" /\ n < Duree
      /\ lus' = lus \cup {w \in Mots : Lue(mots[w])}
      /\ mots' \in [Mots -> Cellules] /\ \A w \in Mots : mots'[w] = Vide
      /\ canal' \in Canaux /\ {reseau', a5', sue'} \subseteq Cles
      /\ canal' = canal \/ canal'.id = canal.id + 1
           \/ (canal'.genre = "sdcch" /\ canal'.id = canal.id)
      /\ cas' = cas /\ n' = n /\ cle' = cle /\ bsp' = bsp /\ deja' = deja /\ dedie' = dedie /\ fini' = fini
  BY <1>0, ArmDit
<1>2. /\ canal.id \in Nat /\ bsp.joue.id \in Nat
      /\ \A f \in DOMAIN bsp.recus : bsp.recus[f].canal.id \in Nat
  BY <1>0 DEF Cadre, Forme, Canaux, Recus, Bursts
<1>3. Cadre'
  <2>1. Forme'
    BY <1>0, <1>1 DEF Cadre, Forme
  <2> QED BY <1>0, <1>1, <2>1 DEF Cadre
<1>4. Place'
  BY <1>1 DEF IInv, Place, Libre
<1>5. Identites'
  <2>1. canal'.id = canal.id \/ canal'.id = canal.id + 1
    BY <1>1
  <2> QED BY <1>1, <1>2, <2>1 DEF IInv, Identites
<1>6. Meme' => Meme /\ canal' = canal
  <2> SUFFICES ASSUME Meme' PROVE Meme /\ canal' = canal
    OBVIOUS
  <2>1. bsp.dernier \in DOMAIN bsp.recus /\ bsp.recus[bsp.dernier].canal = canal'
    BY <1>0, <1>1 DEF Cadre, Meme
  <2>2. canal'.genre # "sdcch" /\ canal'.id <= canal.id
    BY <2>1 DEF IInv, Identites
  <2>3. canal'.id # canal.id + 1
    BY <1>2, <2>2, <2>1
  <2> QED BY <1>1, <2>2, <2>3 DEF Meme
<1>7. bsp.joue = canal' /\ canal'.genre # "sdcch" => canal' = canal
  <2> SUFFICES ASSUME bsp.joue = canal', canal'.genre # "sdcch" PROVE canal' = canal
    OBVIOUS
  <2>1. canal'.id <= canal.id
    BY DEF IInv, Identites
  <2>2. canal'.id # canal.id + 1
    BY <1>2, <2>1
  <2> QED BY <1>1, <2>2
<1>8. Suivi'
  BY <1>1, <1>6, <1>7 DEF IInv, Suivi
<1>9. Notes'
  BY <1>1, <1>6 DEF IInv, Notes
<1>10. Lecture'
  <2>1. lus' # {} => bsp.dernier # Aucun
    <3>1. lus' # {} => lus # {} \/ \E w \in Mots : Lue(mots[w])
      BY <1>1
    <3> QED BY <3>1 DEF IInv, Lecture
  <2>2. \A w \in Mots : ~Lue(mots'[w])
    BY <1>1, ConstantesDites
  <2>3. \A w \in Mots : ~Lue(mots[w])'
    BY <2>2 DEF Lue, DejaBon
  <2> QED BY <1>1, <2>1, <2>3 DEF Lecture
<1>11. Contenu'
  <2>1. Vide.bloc.genre = "rien" /\ ~DejaBon(Vide)
    BY DEF Vide, Rien, Bloc, DejaBon
  <2>2. \A w \in Mots : mots'[w].bloc.genre \in Genres[w] /\ ~DejaBon(mots'[w])
    BY <1>1, <2>1 DEF Genres, Mots
  <2> QED BY <2>2 DEF Contenu, DejaBon
<1> QED BY <1>3, <1>4, <1>5, <1>8, <1>9, <1>10, <1>11 DEF IInv

LEMMA DspTient ==
  ASSUME IInv, Dsp
  PROVE  IInv'
<1>0. Cadre /\ cas \in Cas /\ n \in Nat /\ Forme
  BY DescenteAssumption DEF IInv, Cadre
<1>1. /\ pc = "dsp" /\ pc' = "pont" /\ fini' \in Finissants /\ fini' \in BlocsEmis
      /\ mots' \in [Mots -> Cellules]
      /\ bsp' \in [joue: Canaux, recus: Recus, dernier: Frames \cup {Aucun}, fini: BlocsEmis]
      /\ bsp'.dernier \in DOMAIN bsp'.recus \cup {Aucun}
      /\ dedie' \in [ti: BOOLEAN, depuis: 0 .. Garde] /\ dedie'.ti = dedie.ti
      /\ canal.genre # "sdcch" => dedie'.depuis = 0
      /\ Livree \/ (UNCHANGED <<bsp, lus>> /\ fn \in Frames)
      /\ \A w \in Mots : \/ mots'[w] = mots[w] \/ mots'[w] = Mauvais
                         \/ Livree /\ mots'[w] = Bon(fini') /\ fini'.genre \in Genres[w] \ {"rien", "bruit"}
      /\ cas' = cas /\ n' = n /\ canal' = canal /\ reseau' = reseau /\ a5' = a5 /\ cle' = cle
      /\ deja' = deja /\ sue' = sue
  BY <1>0, DspDit
<1>2. fn # Aucun
  BY <1>0, FnDit DEF Frames, Aucun
<1>3. Cadre'
  <2>1. Forme'
    BY <1>0, <1>1 DEF Cadre, Forme
  <2> QED BY <1>0, <1>1, <2>1 DEF Cadre
<1>4. Livree => bsp'.recus[bsp'.dernier].canal = bsp.joue /\ bsp'.dernier = fn /\ bsp'.joue = bsp.joue
  BY DEF Livree
<1>5. Place'
  <2>1. CASE Livree
    <3>1. /\ fini'.genre = "parole" => bsp.joue.genre = "tchf"
          /\ fini'.genre = "sacch" => bsp.joue.genre = "tchh" /\ ~Libre(fn)
          /\ fini'.genre = "facch" /\ bsp.joue.genre = "tchh" => Libre(fn)
      BY <1>0, <1>1, FinissantsDits
    <3>2. bsp'.fini = fini' /\ bsp'.dernier = fn /\ bsp'.recus[bsp'.dernier].canal = bsp.joue
      BY <2>1, <1>4 DEF Livree
    <3>3. Libre(bsp.dernier)' = Libre(fn)
      BY <3>2 DEF Libre
    <3> QED BY <3>1, <3>2, <3>3 DEF Place
  <2>2. CASE bsp' = bsp
    BY <2>2 DEF IInv, Place, Libre
  <2> QED BY <1>1, <2>1, <2>2
<1>6. Identites'
  <2>1. CASE Livree
    <3>1. \A f \in DOMAIN bsp'.recus :
            bsp'.recus[f].canal = bsp.joue \/ (f \in DOMAIN bsp.recus /\ bsp'.recus[f] = bsp.recus[f])
      BY <2>1 DEF Livree
    <3>2. bsp.joue.genre # "sdcch" /\ bsp.joue.id <= canal.id /\ bsp'.joue = bsp.joue
      BY <2>1 DEF Livree, IInv, Identites
    <3> QED BY <3>1, <3>2, <1>1 DEF IInv, Identites
  <2>2. CASE bsp' = bsp
    BY <2>2, <1>1 DEF IInv, Identites
  <2> QED BY <1>1, <2>1, <2>2
<1>7. Suivi'
  <2>1. bsp'.joue = bsp.joue
    BY <1>1 DEF Livree
  <2>2. Meme' => bsp.joue = canal
    BY <1>1, <1>4 DEF IInv, Suivi, Meme
  <2> QED BY <1>1, <2>1, <2>2 DEF IInv, Suivi
<1>8. Notes'
  <2>1. CASE Livree
    BY <2>1, <1>1 DEF Livree, Notes
  <2>2. CASE UNCHANGED <<bsp, lus>>
    BY <2>2, <1>1 DEF IInv, Notes, Meme
  <2> QED BY <1>1, <2>1, <2>2
<1>9. \A w \in Mots : \/ ~DejaBon(mots'[w]) /\ mots'[w].bloc.genre \in {"rien", "bruit"}
                      \/ Livree /\ mots'[w] = Bon(fini') /\ fini'.genre \in Genres[w] \ {"rien", "bruit"}
  <2>1. \A w \in Mots : mots[w] = Vide
    BY <1>1 DEF IInv, Lecture
  <2>2. /\ ~DejaBon(Vide) /\ Vide.bloc.genre = "rien"
        /\ ~DejaBon(Mauvais) /\ Mauvais.bloc.genre = "bruit"
    BY DEF Vide, Mauvais, DejaBon, Rien, Bruit, Bloc
  <2> QED BY <1>1, <2>1, <2>2
<1>10. \A w \in Mots : Lue(mots'[w]) => Livree /\ mots'[w].bloc = fini'
  <2>1. Bon(fini').bloc = fini'
    BY DEF Bon
  <2> QED BY <1>9, <2>1 DEF Lue
<1>11. Lecture'
  <2>1. CASE Livree
    <3>1. lus' = {} /\ bsp'.dernier # Aucun /\ bsp'.fini = fini'
      BY <2>1, <1>2 DEF Livree
    <3>2. \A w \in Mots : Lue(mots'[w]) => mots'[w].bloc = bsp'.fini /\ bsp'.dernier # Aucun
      BY <3>1, <1>10
    <3> QED BY <3>1, <3>2, <1>1 DEF Lecture, Lue, DejaBon
  <2>2. CASE ~Livree
    <3>1. UNCHANGED <<bsp, lus>> /\ \A w \in Mots : ~Lue(mots'[w])
      BY <2>2, <1>1, <1>10
    <3> QED BY <3>1, <1>1 DEF IInv, Lecture, Lue, DejaBon
  <2> QED BY <2>1, <2>2
<1>12. Contenu'
  <2>1. fini' # Bruit /\ Bon(fini').bloc = fini'
    BY <1>1 DEF BlocsEmis, Bruit, Bloc, Bon
  <2>2. \A w \in Mots : "rien" \in Genres[w] /\ "bruit" \in Genres[w]
    BY DEF Genres, Mots
  <2>3. \A w \in Mots : mots'[w].bloc.genre \in Genres[w]
                        /\ (DejaBon(mots'[w]) => mots'[w].bloc # Bruit)
    BY <1>9, <2>1, <2>2
  <2> QED BY <2>3 DEF Contenu, DejaBon
<1> QED BY <1>3, <1>5, <1>6, <1>7, <1>8, <1>11, <1>12 DEF IInv

LEMMA ScruterTient ==
  ASSUME IInv, Scruter
  PROVE  IInv'
<1>0. Cadre /\ Forme
  BY DEF IInv, Cadre
<1>1. /\ pc = "pont" /\ pc' = "arm" /\ n' = n + 1
      /\ cle' = SuivreCle /\ cle' \in Cles
      /\ deja' = Noter /\ deja' \in [facch: Frames \cup {Aucun}, facchh: Frames \cup {Aucun},
                                     sacch: Frames \cup {Aucun}]
      /\ dedie' \in [ti: BOOLEAN, depuis: 0 .. Garde]
      /\ dedie'.ti = DedieTi /\ dedie'.depuis = dedie.depuis
      /\ bsp' \in [joue: Canaux, recus: Recus, dernier: Frames \cup {Aucun}, fini: BlocsEmis]
      /\ bsp'.joue = canal /\ bsp'.recus = bsp.recus /\ bsp'.dernier = bsp.dernier
      /\ bsp'.fini = bsp.fini
      /\ cas' = cas /\ canal' = canal /\ reseau' = reseau /\ a5' = a5 /\ fini' = fini
      /\ sue' = sue /\ lus' = lus
  BY <1>0, ScruterDit
<1>2. MotsPostes(mots, mots')
  BY <1>0, ScruterPoste
<1>3. Cadre'
  <2>1. Forme'
    BY <1>0, <1>1, <1>2 DEF Cadre, Forme, MotsPostes
  <2>2. n + 1 \in 0 .. Duree
    BY <1>0, <1>1, DescenteAssumption DEF Cadre, Forme
  <2> QED BY <1>0, <1>1, <2>1, <2>2 DEF Cadre
<1>4. Place'
  BY <1>1 DEF IInv, Place, Libre
<1>5. Identites'
  <2>1. canal.id <= canal.id
    BY <1>0 DEF Forme, Canaux
  <2> QED BY <1>1, <2>1 DEF IInv, Identites
<1>6. Meme' <=> Meme
  BY <1>1 DEF Meme
<1>7. Suivi'
  <2>1. canal.genre # "sdcch" => DedieTi = (0 < Garde)
    BY <1>1 DEF IInv, Suivi, DedieTi
  <2> QED BY <1>1, <1>6, <2>1 DEF Suivi
<1>8. Meme => canal.genre # "sdcch" /\ dedie.ti = (0 < Garde)
  <2>1. Meme => canal.genre # "sdcch"
    BY <1>0 DEF IInv, Identites, Meme, Cadre
  <2> QED BY <2>1 DEF IInv, Suivi
<1>9. Notes'
  <2>1. SUFFICES ASSUME Meme
                 PROVE  /\ 0 < Garde => deja'.facch = bsp.dernier
                        /\ canal.genre = "tchh" => deja'.facchh = bsp.dernier /\ deja'.sacch = bsp.dernier
    BY <1>1, <1>6 DEF Notes
  <2>2. bsp.dernier # Aucun
    BY <2>1 DEF Meme
  <2> QED BY <1>1, <1>8, <2>1, <2>2 DEF Noter, Nouveau
<1>10. bsp.dernier \in DOMAIN bsp.recus \cup {Aucun} /\ bsp.fini \in BlocsEmis /\ bsp.fini \in Blocs
       /\ bsp.fini # Bruit /\ Bruit \in Blocs
  BY <1>0, BlocsEmisDits, ConstantesDites DEF Cadre, Forme, BlocsEmis, Bruit, Bloc
<1>11. \A w \in Mots : \/ mots'[w] = mots[w]
                       \/ DejaBon(mots'[w]) /\ mots'[w].bloc = Bruit /\ w = "dd"
                       \/ mots'[w].bloc = bsp.fini /\ bsp.dernier # Aucun
  BY <1>2, <1>10, BonDit DEF MotsPostes
<1>12. \A w \in Mots : Meme /\ lus # {} => mots'[w] = mots[w] \/ mots'[w] = Bon(Bruit)
  <2> SUFFICES ASSUME NEW w \in Mots, Meme, lus # {}
               PROVE  mots'[w] = mots[w] \/ mots'[w] = Bon(Bruit)
    OBVIOUS
  <2>1. /\ 0 < Garde => ~Nouveau(deja.facch)
        /\ canal.genre = "tchh" => ~Nouveau(deja.facchh) /\ ~Nouveau(deja.sacch)
    BY DEF IInv, Notes, Nouveau
  <2>2. ~(dedie.ti /\ Nouveau(deja.facch))
    BY <1>8, <2>1
  <2> QED BY <1>2, <2>1, <2>2 DEF MotsPostes
<1>13. ~Lue(Bon(Bruit))
  BY <1>10, BonDit
<1>14. Lecture'
  <2>1. \A w \in Mots : Lue(mots'[w]) => mots'[w].bloc = bsp.fini /\ bsp.dernier # Aucun
    BY <1>11 DEF IInv, Lecture, Lue
  <2>2. \A w \in Mots : Meme /\ Lue(mots'[w]) => lus = {}
    BY <1>1, <1>12, <1>13 DEF IInv, Lecture
  <2>3. lus # {} => bsp.dernier # Aucun
    BY DEF IInv, Lecture
  <2> QED BY <1>1, <1>6, <2>1, <2>2, <2>3 DEF Lecture, Lue, DejaBon
<1>15. Contenu'
  <2> SUFFICES ASSUME NEW w \in Mots
               PROVE  /\ mots'[w].bloc.genre \in Genres[w]
                      /\ DejaBon(mots'[w]) /\ mots'[w].bloc = Bruit => w = "dd"
    BY DEF Contenu, DejaBon
  <2>1. CASE mots'[w] = mots[w]
    BY <2>1 DEF IInv, Contenu
  <2>2. CASE w = "dd" /\ mots'[w] = Bon(Bruit)
    <3>1. Bon(Bruit).bloc.genre = "bruit" /\ "bruit" \in Genres["dd"]
      BY DEF Bon, Bruit, Bloc, Genres
    <3> QED BY <2>2, <3>1
  <2>3. CASE mots'[w] = Bon(bsp.fini) /\ bsp.fini.genre \in Genres[w]
    BY <2>3, <1>10, BonDit
  <2>4. CASE /\ w = "fd" /\ mots'[w] = Bon(bsp.fini) /\ bsp.dernier # Aucun /\ Libre(bsp.dernier)
             /\ bsp.recus[bsp.dernier].canal.genre = "tchh"
    <3>1. bsp.fini.genre \in {"rien", "facch"}
      BY <2>4, <1>10 DEF IInv, Place, BlocsEmis
    <3> QED BY <2>4, <3>1, <1>10, BonDit DEF Genres
  <2>5. CASE /\ w = "cd" /\ mots'[w] = Bon(bsp.fini) /\ bsp.dernier # Aucun /\ ~Libre(bsp.dernier)
             /\ bsp.recus[bsp.dernier].canal.genre = "tchh"
    <3>1. bsp.fini.genre \in {"rien", "sacch"}
      BY <2>5, <1>10 DEF IInv, Place, BlocsEmis
    <3> QED BY <2>5, <3>1, <1>10, BonDit DEF Genres
  <2> QED BY <1>2, <2>1, <2>2, <2>3, <2>4, <2>5 DEF MotsPostes
<1> QED BY <1>3, <1>4, <1>5, <1>7, <1>9, <1>14, <1>15 DEF IInv

LEMMA IInvSuivant == IInv /\ [Next]_vars => IInv'
<1> SUFFICES ASSUME IInv, [Next]_vars PROVE IInv'
  OBVIOUS
<1>1. CASE UNCHANGED vars
  BY <1>1 DEF vars, IInv, Cadre, Forme, Place, Identites, Suivi, Notes, Lecture, Contenu, Meme,
     Libre, Lue, DejaBon
<1> QED BY <1>1, ArmTient, DspTient, ScruterTient DEF Next

\* The types: noise only passes for speech, and each word of the API RAM holds a block of its
\* own kind.
THEOREM TypeCorrecte == Spec => []TypeOK
<1>1. IInv => TypeOK
  BY IInvTient
<1> QED BY <1>1, IInvInit, IInvSuivant, PTL DEF Spec

\* The firmware is given no block twice on a channel, however long the run and whatever the
\* bursts lost: what a prosthesis posts, it has noted (prothese_facch_dl, prothese_facchh_dl,
\* prothese_sacchth_dl).
THEOREM BlocRenduUneFois == Spec => []JamaisDeuxFois
<1>1. IInv => JamaisDeuxFois
  BY IInvTient
<1> QED BY <1>1, IInvInit, IInvSuivant, PTL DEF Spec

-----------------------------------------------------------------------------
(* Every whole block reaches the firmware.                                 *)

\* Among the first k frames of the run, on a run no longer than a hyperframe.
Passee(f, k) == IF f >= cas.debut THEN f - cas.debut < k ELSE f + Hyper - cas.debut < k

\* No burst, and no note of a prosthesis, is of a frame to come.
Passe ==
  /\ \A f \in DOMAIN bsp.recus : Passee(f, IF pc = "pont" THEN n + 1 ELSE n)
  /\ \A d \in {deja.facch, deja.facchh, deja.sacch} : d # Aucun => Passee(d, n)

\* The key kept is the one set on this channel, or the network has ciphered the whole channel.
Chiffre ==
  /\ sue = Kc => canal.genre = "tchh" /\ (a5 = Kc \/ cle = Kc)
  /\ a5 = Kc => reseau = Kc
  /\ a5 = Kc /\ canal.genre = "tchh" => sue = Kc
  /\ cle = Kc /\ canal.genre # "sdcch" => reseau = Kc
  /\ pc = "arm" /\ sue = Kc => cle = Kc
  /\ pc = "arm" /\ cle = Kc => canal.genre = "tchh"
  /\ canal.genre = "tchh" /\ cle = Kc /\ sue = Clair =>
       \A f \in DOMAIN bsp.recus : bsp.recus[f].canal = canal => bsp.recus[f].cle = Kc

\* What the ROM has posted is the block of this frame, and the burst of this frame, if the
\* BSP has it, is the last one.
Trame ==
  pc = "pont" =>
    /\ fn \in DOMAIN bsp.recus => bsp.dernier = fn /\ bsp.fini = fini
    /\ fini.genre = "rien" => fini = Rien
    /\ \A w \in Mots : DejaBon(mots[w]) =>
         mots[w] = Bon(fini) /\ fini.genre \in Genres[w] \ {"rien", "bruit"}

JInv == IInv /\ Passe /\ Chiffre /\ Trame /\ BlocRendu

LEMMA FinissantsRien ==
  ASSUME NEW b \in Finissants, b.genre = "rien"
  PROVE  b = Rien
<1>1. b = Rien \/ \E x : x # "rien" /\ b = Bloc(x, n)
  BY DEF Finissants
<1> QED BY <1>1 DEF Bloc

LEMMA JInvInit == Init => JInv
<1> SUFFICES ASSUME Init PROVE JInv
  OBVIOUS
<1>1. /\ pc = "arm" /\ canal = Repos /\ a5 = Clair /\ cle = Clair /\ sue = Clair /\ fini = Rien
      /\ bsp.recus = <<>> /\ deja = [facch |-> Aucun, facchh |-> Aucun, sacch |-> Aucun]
  BY DEF Init
<1>2. Passe
  BY <1>1 DEF Passe
<1>3. Chiffre /\ Trame /\ BlocRendu
  BY <1>1 DEF Chiffre, Clair, Kc, Trame, BlocRendu
<1> QED BY <1>2, <1>3, IInvInit DEF JInv

LEMMA PasseSuivant ==
  ASSUME IInv, Passe, Next, Duree <= Hyper
  PROVE  Passe'
<1>1. /\ Cadre /\ cas \in Cas /\ n \in Nat /\ cas.debut \in Int /\ Hyper \in Int
      /\ \A f \in DOMAIN bsp.recus : f \in Int
  <2>1. /\ Cadre /\ cas \in Cas /\ n \in Nat /\ cas.debut \in Int /\ Hyper \in Int
    BY DescenteAssumption, FnDit DEF IInv, Cadre, Frames
  <2>2. PICK D \in SUBSET Frames : bsp.recus \in [D -> Bursts]
    BY DEF IInv, Cadre, Forme, Recus
  <2>3. DOMAIN bsp.recus \in SUBSET Frames
    BY <2>2
  <2>4. Frames \in SUBSET Int
    BY DescenteAssumption DEF Frames
  <2> QED BY <2>1, <2>3, <2>4
<1>2. CASE Arm
  <2>1. pc = "arm" /\ pc' = "dsp" /\ cas' = cas /\ n' = n /\ bsp' = bsp /\ deja' = deja
    BY <1>1, <1>2, ArmDit
  <2> QED BY <2>1 DEF Passe, Passee
<1>3. CASE Dsp
  <2>1. /\ pc = "dsp" /\ pc' = "pont" /\ cas' = cas /\ n' = n /\ deja' = deja
        /\ Livree \/ bsp' = bsp
    BY <1>1, <1>3, DspDit
  <2>2. n < Hyper
    BY <1>1, <2>1, DescenteAssumption DEF Cadre, Forme
  <2>3. Passee(fn, n + 1)
    BY <1>1, <2>2, FnDit DEF Passee
  <2>4. \A f \in DOMAIN bsp.recus : Passee(f, n + 1)
    BY <1>1, <2>1 DEF Passe, Passee
  <2>5. \A f \in DOMAIN bsp'.recus : Passee(f, n + 1)
    BY <2>1, <2>3, <2>4 DEF Livree
  <2> QED BY <2>1, <2>5 DEF Passe, Passee
<1>4. CASE Scruter
  <2>1. /\ pc = "pont" /\ pc' = "arm" /\ cas' = cas /\ n' = n + 1 /\ deja' = Noter
        /\ bsp'.recus = bsp.recus
    BY <1>1, <1>4, ScruterDit
  <2>2. \A d \in {Noter.facch, Noter.facchh, Noter.sacch} :
          d \in {deja.facch, deja.facchh, deja.sacch, bsp.dernier}
    BY DEF Noter
  <2>3. bsp.dernier # Aucun => Passee(bsp.dernier, n + 1)
    BY <1>1, <2>1 DEF Cadre, Passe
  <2>4. \A d \in {deja.facch, deja.facchh, deja.sacch} : d \in Int
    BY <1>1 DEF Cadre, Forme, Frames, Aucun
  <2>5. \A d \in {deja.facch, deja.facchh, deja.sacch} : d # Aucun => Passee(d, n + 1)
    BY <1>1, <2>4 DEF Passe, Passee
  <2> HIDE DEF Noter
  <2>6. \A d \in {Noter.facch, Noter.facchh, Noter.sacch} : d # Aucun => Passee(d, n + 1)
    BY <2>2, <2>3, <2>5
  <2>7. \A f \in DOMAIN bsp.recus : Passee(f, n + 1)
    BY <2>1 DEF Passe
  <2> QED BY <2>1, <2>6, <2>7 DEF Passe, Passee
<1> QED BY <1>2, <1>3, <1>4 DEF Next

LEMMA ChiffreArm ==
  ASSUME IInv, Chiffre, Arm
  PROVE  Chiffre'
<1>1. /\ pc = "arm" /\ pc' = "dsp" /\ cle' = cle /\ bsp' = bsp
  BY ArmDit DEF IInv
<1>2. /\ reseau \in {Clair, Kc} /\ a5 \in {Clair, Kc} /\ cle \in {Clair, Kc} /\ sue \in {Clair, Kc}
      /\ canal.id \in Nat /\ Clair # Kc
      /\ \A f \in DOMAIN bsp.recus : bsp.recus[f].canal.id \in Nat
  BY DEF IInv, Cadre, Forme, Cles, Canaux, Recus, Bursts, Clair, Kc
<1>3. CASE UNCHANGED <<canal, reseau, a5, sue>>
  BY <1>1, <1>2, <1>3 DEF Chiffre
<1>4. CASE reseau' = Kc /\ UNCHANGED <<canal, a5, sue>>
  BY <1>1, <1>2, <1>4 DEF Chiffre
<1>5. CASE /\ reseau = Kc /\ a5' = Kc
           /\ sue' = IF canal.genre = "tchh" THEN Kc ELSE sue
           /\ UNCHANGED <<canal, reseau>>
  BY <1>1, <1>2, <1>5 DEF Chiffre
<1>6. CASE a5' = Clair /\ UNCHANGED <<canal, reseau, sue>>
  BY <1>1, <1>2, <1>6 DEF Chiffre
<1>7. CASE /\ a5' = Clair /\ sue' = Clair /\ UNCHANGED reseau
           /\ \E genre \in {"tchf", "tchh"}, ss \in {0, 1} :
                canal' = [genre |-> genre, ss |-> IF genre = "tchf" THEN 0 ELSE ss, id |-> canal.id + 1]
  <2>1. canal'.id = canal.id + 1
    BY <1>7
  <2>2. \A f \in DOMAIN bsp.recus : bsp.recus[f].canal # canal'
    BY <2>1, <1>2 DEF IInv, Identites
  <2>3. cle = Kc => reseau = Kc
    BY <1>1 DEF Chiffre
  <2> QED BY <1>1, <1>2, <1>7, <2>2, <2>3 DEF Chiffre
<1>8. CASE /\ canal' = [Repos EXCEPT !.id = canal.id] /\ reseau' = Clair /\ a5' = Clair /\ sue' = Clair
  <2>1. canal'.genre = "sdcch"
    BY <1>8 DEF Repos
  <2> QED BY <1>1, <1>2, <1>8, <2>1 DEF Chiffre
<1> QED BY <1>3, <1>4, <1>5, <1>6, <1>7, <1>8 DEF Arm

LEMMA ChiffreDspScruter ==
  ASSUME IInv, Chiffre, Dsp \/ Scruter
  PROVE  Chiffre'
<1>1. Cadre /\ cle \in {Clair, Kc} /\ Clair # Kc
  BY DEF IInv, Cadre, Forme, Cles, Clair, Kc
<1>2. CASE Dsp
  <2>1. /\ pc' = "pont" /\ canal' = canal /\ reseau' = reseau /\ a5' = a5 /\ cle' = cle /\ sue' = sue
        /\ Livree \/ bsp' = bsp
    BY <1>1, <1>2, DspDit
  <2>2. canal.genre = "tchh" /\ cle = Kc /\ sue = Clair =>
          \A f \in DOMAIN bsp'.recus : bsp'.recus[f].canal = canal => bsp'.recus[f].cle = Kc
    BY <2>1 DEF Livree, Chiffre
  <2> QED BY <2>1, <2>2 DEF Chiffre
<1>3. CASE Scruter
  <2>1. /\ pc' = "arm" /\ canal' = canal /\ reseau' = reseau /\ a5' = a5 /\ sue' = sue
        /\ cle' = SuivreCle /\ bsp'.recus = bsp.recus
    BY <1>1, <1>3, ScruterDit
  <2>2. cle' = IF canal.genre # "tchh" THEN Clair ELSE IF a5 = Clair THEN cle ELSE a5
    BY <2>1 DEF SuivreCle
  <2>3. a5 \in {Clair, Kc}
    BY <1>1 DEF Cadre, Forme, Cles
  <2> QED BY <1>1, <2>1, <2>2, <2>3 DEF Chiffre
<1> QED BY <1>2, <1>3

LEMMA TrameSuivant ==
  ASSUME IInv, Passe, Next, Duree <= Hyper
  PROVE  Trame'
<1>1. /\ Cadre /\ cas \in Cas /\ n \in Nat /\ Forme
  BY DescenteAssumption DEF IInv, Cadre
<1>2. CASE Arm \/ Scruter
  <2>1. pc' # "pont"
    BY <1>2 DEF Arm, Scruter
  <2> QED BY <2>1 DEF Trame
<1>3. CASE Dsp
  <2>1. /\ pc = "dsp" /\ cas' = cas /\ n' = n /\ fini' \in Finissants /\ fini' \in BlocsEmis
        /\ Livree \/ bsp' = bsp
        /\ \A w \in Mots : \/ mots'[w] = mots[w] \/ mots'[w] = Mauvais
                           \/ Livree /\ mots'[w] = Bon(fini') /\ fini'.genre \in Genres[w] \ {"rien", "bruit"}
    BY <1>1, <1>3, DspDit
  <2>2. fn' = fn
    BY <2>1 DEF fn
  <2>3. fn \notin DOMAIN bsp.recus
    <3>1. n < Hyper
      BY <1>1, <2>1, DescenteAssumption DEF Cadre, Forme
    <3>2. ~Passee(fn, n)
      BY <1>1, <3>1, DescenteAssumption, FnDit DEF Passee
    <3> QED BY <2>1, <3>2 DEF Passe
  <2>4. fn \in DOMAIN bsp'.recus => bsp'.dernier = fn /\ bsp'.fini = fini'
    BY <2>1, <2>3 DEF Livree
  <2>5. fini'.genre = "rien" => fini' = Rien
    BY <2>1, FinissantsRien
  <2>6. \A w \in Mots : DejaBon(mots'[w]) =>
          mots'[w] = Bon(fini') /\ fini'.genre \in Genres[w] \ {"rien", "bruit"}
    BY <2>1, ConstantesDites DEF IInv, Lecture
  <2> QED BY <2>2, <2>4, <2>5, <2>6 DEF Trame, DejaBon
<1> QED BY <1>2, <1>3 DEF Next

\* A whole block of the channel announced that ends in this frame: its last burst is the
\* last the BSP has delivered, and no prosthesis has noted it.
LEMMA EntierDit ==
  ASSUME JInv, pc = "pont", Duree <= Hyper, NEW seq, NEW trames, NEW genre, NEW k, NEW p \in Nat \ {0},
         Entier(seq, trames, genre, k), DOMAIN seq = 1 .. p, seq[p] = fn,
         bsp.recus[seq[1]].canal = canal
  PROVE  /\ bsp.dernier = fn /\ bsp.fini = fini /\ Meme /\ canal.genre = genre
         /\ bsp.recus[bsp.dernier].canal = canal /\ bsp.recus[seq[1]].cle = k
         /\ Present(seq)
         /\ Nouveau(deja.facch) /\ Nouveau(deja.facchh) /\ Nouveau(deja.sacch)
<1>1. /\ Cadre /\ cas \in Cas /\ n \in Nat /\ fn \in Frames /\ n < Hyper
  BY DescenteAssumption, FnDit DEF JInv, IInv, Cadre, Forme
<1>2. 1 \in DOMAIN seq /\ p \in DOMAIN seq
  OBVIOUS
<1>3. /\ \A i \in DOMAIN seq : seq[i] \in DOMAIN bsp.recus
      /\ bsp.recus[seq[p]].canal.genre = genre
      /\ bsp.recus[seq[p]].canal = bsp.recus[seq[1]].canal /\ bsp.recus[seq[1]].cle = k
  BY <1>2 DEF Entier, Recu
<1>4. bsp.dernier = fn /\ bsp.fini = fini
  BY <1>2, <1>3 DEF JInv, Trame
<1>5. bsp.dernier # Aucun
  BY <1>1, <1>4 DEF Frames, Aucun
<1>6. ~Passee(fn, n)
  BY <1>1, FnDit, DescenteAssumption DEF Passee
<1>7. Nouveau(deja.facch) /\ Nouveau(deja.facchh) /\ Nouveau(deja.sacch)
  BY <1>4, <1>5, <1>6 DEF JInv, Passe, Nouveau
<1>8. Present(seq)
  BY <1>3 DEF Present, Recu
<1> QED BY <1>3, <1>4, <1>5, <1>7, <1>8 DEF Meme

\* The conditions of BlocRendu, at the end of frame e.
Lisible(e) ==
  \/ Complet(BlocTchF(e), "tchf", Clair)
  \/ /\ canal.genre = "tchh" /\ fini.genre = "facch"
     /\ \E k \in {Clair, sue} : Complet(BlocFacchH(e, canal.ss), "tchh", k)
  \/ /\ canal.genre = "tchh" /\ fini.genre = "sacch"
     /\ Complet(BlocSacchH(e, canal.ss), "tchh", sue)

\* The same of given bursts, channel, block, key and timeslot.
EntierDe(recus, seq, trames, genre, k) ==
  /\ seq \in trames
  /\ \A i \in DOMAIN seq :
       /\ seq[i] \in DOMAIN recus /\ recus[seq[i]].canal.genre = genre
       /\ recus[seq[i]].canal = recus[seq[1]].canal /\ recus[seq[i]].cle = k

CompletDe(recus, c, trames, genre, k) ==
  \E seq \in trames : EntierDe(recus, seq, trames, genre, k) /\ recus[seq[1]].canal = c

LisibleDe(recus, c, b, k0, tn, e) ==
  \/ CompletDe(recus, c, Trames(TableTchF, 26, e), "tchf", Clair)
  \/ /\ c.genre = "tchh" /\ b.genre = "facch"
     /\ \E k \in {Clair, k0} : CompletDe(recus, c, Trames(TableFacchH[c.ss + 1], 26, e), "tchh", k)
  \/ /\ c.genre = "tchh" /\ b.genre = "sacch"
     /\ CompletDe(recus, c, Trames(TableSacchH(tn)[c.ss + 1], 104, e), "tchh", k0)

Mot == [facch |-> "fd", parole |-> "dd", sacch |-> "cd"]

LEMMA TchFRendu ==
  ASSUME JInv, Scruter, Duree <= Hyper, 0 < Garde, fini # Rien, Complet(BlocTchF(fn), "tchf", Clair)
  PROVE  mots'[Mot[fini.genre]] = Bon(fini)
<1>1. /\ IInv /\ Cadre /\ pc = "pont" /\ Forme /\ fn \in Int /\ mots \in [Mots -> Cellules]
      /\ fini \in BlocsEmis /\ fini \in Blocs
  BY DescenteAssumption, FnDit, BlocsEmisDits DEF JInv, IInv, Cadre, Forme, Scruter
<1>2. PICK seq \in BlocTchF(fn) :
        Entier(seq, BlocTchF(fn), "tchf", Clair) /\ bsp.recus[seq[1]].canal = canal
  BY DEF Complet
<1>3. /\ Libre(fn) /\ (fn % 13) % 4 = 3
      /\ seq = HuitDerniers(fn) /\ DOMAIN seq = 1 .. 8 /\ seq[8] = fn /\ 8 \in Nat \ {0}
  BY <1>1, BlocTchFDit
<1>4. /\ bsp.dernier = fn /\ bsp.fini = fini /\ Meme /\ canal.genre = "tchf"
      /\ bsp.recus[bsp.dernier].canal = canal
      /\ Present(seq) /\ Nouveau(deja.facch)
  <2> DEFINE T == BlocTchF(fn)
  <2>1. /\ pc = "pont" /\ Entier(seq, T, "tchf", Clair) /\ bsp.recus[seq[1]].canal = canal
        /\ DOMAIN seq = 1 .. 8 /\ seq[8] = fn /\ 8 \in Nat \ {0}
    BY <1>1, <1>2, <1>3
  <2> HIDE DEF T
  <2>2. /\ bsp.dernier = fn /\ bsp.fini = fini /\ Meme
        /\ bsp.recus[bsp.dernier].canal = canal /\ Present(seq)
        /\ Nouveau(deja.facch)
    BY <2>1, EntierDit
  <2>3. canal.genre = "tchf"
    <3>1. 8 \in DOMAIN seq /\ seq[8] = bsp.dernier
      BY <2>1, <2>2
    <3> QED BY <2>1, <2>2, <3>1 DEF Entier
  <2> QED BY <2>2, <2>3
<1>5. dedie.ti
  <2>1. dedie.ti = (0 < Garde)
    BY <1>1, <1>4 DEF IInv, Suivi
  <2> QED BY <2>1
<1>6. fini.genre \in {"facch", "parole"}
  <2>1. fini.genre # "rien"
    BY <1>1 DEF JInv, Trame
  <2>2. fini.genre # "sacch"
    BY <1>1, <1>4 DEF IInv, Place, Meme
  <2> QED BY <1>1, <2>1, <2>2 DEF BlocsEmis
<1>7. PICK m \in ProtheseFacch(mots) : mots' = ProtheseSacchH(ProtheseFacchH(m))
  BY DEF Scruter
<1>8. DecoderTchF(seq) = {fini}
  BY <1>2, <1>3, <1>4 DEF DecoderTchF
<1>9. m = CASE fini.genre = "facch" -> [mots EXCEPT !.fd = Bon(fini)]
            [] fini.genre \in {"parole", "bruit"} -> ProtheseParole(mots, fini)
            [] OTHER -> mots
  <2> DEFINE poser(b) == CASE b.genre = "facch" -> [mots EXCEPT !.fd = Bon(b)]
                           [] b.genre \in {"parole", "bruit"} -> ProtheseParole(mots, b)
                           [] OTHER -> mots
  <2>1. ProtheseFacch(mots) = {poser(b) : b \in DecoderTchF(seq)}
    BY <1>3, <1>4, <1>5 DEF ProtheseFacch
  <2>2. m = poser(fini)
    <3> HIDE DEF poser
    <3> QED BY <2>1, <1>8
  <2> QED BY <2>2
<1>10. m \in [Mots -> Cellules]
  BY <1>1, <1>7, FacchDite
<1>11. mots' = m
  <2> DEFINE p == ProtheseFacchH(m)
  <2>1. p = m
    BY <1>1, <1>4, <1>10, FacchHDite
  <2>2. ProtheseSacchH(m) = m
    BY <1>1, <1>4, <1>10, SacchHDite
  <2> QED BY <1>7, <2>1, <2>2
<1>12. CASE fini.genre = "facch"
  BY <1>1, <1>9, <1>11, <1>12 DEF Mot, Mots
<1>13. CASE fini.genre = "parole"
  <2>1. m = ProtheseParole(mots, fini)
    BY <1>9, <1>13
  <2>2. DejaBon(mots["dd"]) => mots["dd"] = Bon(fini)
    BY <1>1 DEF JInv, Trame, Mots
  <2>3. m["dd"] = Bon(fini)
    BY <1>1, <2>1, <2>2 DEF ProtheseParole, Mots
  <2> QED BY <1>11, <1>13, <2>3 DEF Mot
<1> QED BY <1>6, <1>12, <1>13

LEMMA FacchHRendu ==
  ASSUME JInv, Scruter, Duree <= Hyper, fini # Rien, canal.genre = "tchh", fini.genre = "facch",
         NEW k \in {Clair, sue}, Complet(BlocFacchH(fn, canal.ss), "tchh", k)
  PROVE  mots'["fd"] = Bon(fini)
<1>1. /\ IInv /\ Cadre /\ pc = "pont" /\ Forme /\ fn \in Int /\ mots \in [Mots -> Cellules]
      /\ fini \in Blocs /\ canal.ss \in {0, 1}
  BY DescenteAssumption, FnDit, BlocsEmisDits DEF JInv, IInv, Cadre, Forme, Scruter, Canaux
<1>2. PICK seq \in BlocFacchH(fn, canal.ss) :
        Entier(seq, BlocFacchH(fn, canal.ss), "tchh", k) /\ bsp.recus[seq[1]].canal = canal
  BY DEF Complet
<1>3. /\ PlaceFacchH(fn, canal.ss)
      /\ seq = SixDerniers(fn, canal.ss) /\ DOMAIN seq = 1 .. 6 /\ seq[6] = fn /\ 6 \in Nat \ {0}
  BY <1>1, BlocFacchHDit
<1>4. /\ bsp.dernier = fn /\ bsp.fini = fini /\ bsp.recus[bsp.dernier].canal = canal
      /\ Present(seq) /\ Nouveau(deja.facchh)
  <2> DEFINE T == BlocFacchH(fn, canal.ss)
  <2>1. /\ pc = "pont" /\ Entier(seq, T, "tchh", k) /\ bsp.recus[seq[1]].canal = canal
        /\ DOMAIN seq = 1 .. 6 /\ seq[6] = fn /\ 6 \in Nat \ {0}
    BY <1>1, <1>2, <1>3
  <2> HIDE DEF T
  <2> QED BY <2>1, EntierDit
<1>5. PICK m \in ProtheseFacch(mots) : mots' = ProtheseSacchH(ProtheseFacchH(m))
  BY DEF Scruter
<1>6. m \in [Mots -> Cellules] /\ (m["fd"] # mots["fd"] => m["fd"] = Bon(fini))
  BY <1>1, <1>4, <1>5, FacchDite
<1>7. DecoderFacchH(seq, k) = fini
  BY <1>2, <1>3, <1>4 DEF DecoderFacchH
<1>8. \A x : DecoderFacchH(seq, x) \in {fini, Rien}
  BY <1>4 DEF DecoderFacchH
<1>9. k = Clair \/ k = cle'
  <2>1. cle' = IF a5 = Clair THEN cle ELSE a5
    BY DEF Scruter, SuivreCle
  <2>2. a5 \in {Clair, Kc} /\ sue \in {Clair, Kc} /\ Clair # Kc
    BY <1>1 DEF Forme, Cles, Clair, Kc
  <2> QED BY <2>1, <2>2 DEF JInv, Chiffre
<1> DEFINE chiffre == DecoderFacchH(seq, cle')
           b == IF chiffre # Rien THEN chiffre ELSE DecoderFacchH(seq, Clair)
           p == ProtheseFacchH(m)
<1>10. b = fini
  BY <1>7, <1>8, <1>9
<1>11. p = IF ~DejaBon(m["fd"]) THEN [m EXCEPT !["fd"] = Bon(fini)] ELSE m
  <2>1. p = IF b # Rien /\ ~DejaBon(m.fd) THEN [m EXCEPT !.fd = Bon(b)] ELSE m
    BY <1>3, <1>4 DEF ProtheseFacchH, PlaceFacchH
  <2> HIDE DEF b
  <2> QED BY <1>10, <2>1
<1>12. p["fd"] = Bon(fini) /\ p \in [Mots -> Cellules]
  <2>1. DejaBon(mots["fd"]) => mots["fd"] = Bon(fini)
    BY <1>1 DEF JInv, Trame, Mots
  <2>2. DejaBon(m["fd"]) => m["fd"] = Bon(fini)
    BY <1>6, <2>1
  <2> HIDE DEF p
  <2> QED BY <1>1, <1>6, <1>11, <2>2, BonDit DEF Mots
<1>13. mots' = ProtheseSacchH(p)
  BY <1>5
<1> HIDE DEF p
<1>14. mots' = p \/ mots' = [p EXCEPT !["cd"] = Bon(bsp.fini)]
  BY <1>1, <1>12, <1>13, SacchHDite
<1> QED BY <1>12, <1>14 DEF Mots

LEMMA SacchHRendu ==
  ASSUME JInv, Scruter, Duree <= Hyper, fini # Rien, canal.genre = "tchh", fini.genre = "sacch",
         Complet(BlocSacchH(fn, canal.ss), "tchh", sue)
  PROVE  mots'["cd"] = Bon(fini)
<1>1. /\ IInv /\ Cadre /\ pc = "pont" /\ Forme /\ fn \in Int /\ mots \in [Mots -> Cellules]
      /\ fini \in Blocs /\ canal.ss \in {0, 1} /\ cas \in Cas
  BY DescenteAssumption, FnDit, BlocsEmisDits DEF JInv, IInv, Cadre, Forme, Scruter, Canaux
<1>2. PICK seq \in BlocSacchH(fn, canal.ss) :
        Entier(seq, BlocSacchH(fn, canal.ss), "tchh", sue) /\ bsp.recus[seq[1]].canal = canal
  BY DEF Complet
<1>3. /\ PlaceSacchH(fn, canal.ss)
      /\ seq = QuatreDerniers(fn) /\ DOMAIN seq = 1 .. 4 /\ seq[4] = fn /\ 4 \in Nat \ {0}
  BY <1>1, BlocSacchHDit DEF QuatreDerniers
<1>4. /\ bsp.dernier = fn /\ bsp.fini = fini /\ bsp.recus[bsp.dernier].canal = canal
      /\ Present(seq) /\ Nouveau(deja.sacch) /\ bsp.recus[seq[1]].cle = sue
  <2> DEFINE T == BlocSacchH(fn, canal.ss)
  <2>1. /\ pc = "pont" /\ Entier(seq, T, "tchh", sue) /\ bsp.recus[seq[1]].canal = canal
        /\ DOMAIN seq = 1 .. 4 /\ seq[4] = fn /\ 4 \in Nat \ {0}
    BY <1>1, <1>2, <1>3
  <2> HIDE DEF T
  <2>2. /\ bsp.dernier = fn /\ bsp.fini = fini /\ bsp.recus[bsp.dernier].canal = canal
        /\ Present(seq) /\ Nouveau(deja.sacch)
    BY <2>1, EntierDit
  <2>3. 1 \in DOMAIN seq
    BY <2>1
  <2> QED BY <2>1, <2>2, <2>3 DEF Entier
<1>5. PICK m \in ProtheseFacch(mots) : mots' = ProtheseSacchH(ProtheseFacchH(m))
  BY DEF Scruter
<1>6. m \in [Mots -> Cellules] /\ m["cd"] = mots["cd"]
  BY <1>1, <1>5, FacchDite
<1> DEFINE p == ProtheseFacchH(m)
<1>7. p \in [Mots -> Cellules] /\ (p = m \/ p = [m EXCEPT !["fd"] = Bon(bsp.fini)])
  BY <1>1, <1>6, FacchHDite
<1>8. mots' = ProtheseSacchH(p)
  BY <1>5
<1> HIDE DEF p
<1>9. p["cd"] = mots["cd"]
  BY <1>6, <1>7 DEF Mots
<1>10. cle' = sue
  <2>1. cle' = IF a5 = Clair THEN cle ELSE a5
    BY DEF Scruter, SuivreCle
  <2>2. a5 \in {Clair, Kc} /\ sue \in {Clair, Kc} /\ cle \in {Clair, Kc} /\ Clair # Kc
    BY <1>1 DEF Forme, Cles, Clair, Kc
  <2>3. seq[1] \in DOMAIN bsp.recus
    BY <1>3, <1>4 DEF Present, Recu
  <2> QED BY <1>2, <1>4, <2>1, <2>2, <2>3 DEF JInv, Chiffre
<1>11. DecoderSacchH(seq, cle') = fini
  BY <1>2, <1>3, <1>4, <1>10 DEF DecoderSacchH
<1>12. mots' = IF ~DejaBon(p["cd"]) THEN [p EXCEPT !["cd"] = Bon(fini)] ELSE p
  BY <1>3, <1>4, <1>8, <1>11 DEF ProtheseSacchH, PlaceSacchH
<1>13. DejaBon(mots["cd"]) => mots["cd"] = Bon(fini)
  BY <1>1 DEF JInv, Trame, Mots
<1> QED BY <1>7, <1>9, <1>12, <1>13 DEF Mots

LEMMA FnPrecedent ==
  ASSUME cas \in Cas, n \in Nat, cas' = cas, n' = n + 1, n < Hyper
  PROVE  (fn' - 1) % Hyper = fn
<1>1. /\ Hyper \in Nat \ {0} /\ cas.debut \in 0 .. Hyper - 1
      /\ fn = IF cas.debut + n < Hyper THEN cas.debut + n ELSE cas.debut + n - Hyper
  BY DescenteAssumption, FnDit DEF Frames
<1>2. fn' = (cas.debut + (n + 1)) % Hyper
  BY DEF fn
<1>3. PICK a \in Nat : a = cas.debut + (n + 1) /\ a < 2 * Hyper
  BY <1>1
<1>7. fn' = a % Hyper
  BY <1>2, <1>3
<1>8. /\ a < Hyper => fn' = a
      /\ a >= Hyper => fn' = a - Hyper
  BY <1>1, <1>3, <1>7, ModuloDit
<1>4. (-1) % Hyper = Hyper - 1
  BY <1>1
<1>5. CASE fn' = 0
  <2>1. fn' - 1 = -1
    BY <1>5
  <2>2. fn = Hyper - 1
    BY <1>1, <1>3, <1>8, <1>5
  <2> QED BY <1>4, <2>1, <2>2
<1>6. CASE fn' # 0
  <2>1. fn' - 1 = fn /\ fn \in Nat /\ fn < Hyper
    BY <1>1, <1>3, <1>8, <1>6
  <2> QED BY <1>1, <2>1, ModuloDit
<1> QED BY <1>5, <1>6

LEMMA BlocRenduSuivant ==
  ASSUME JInv, Next, Duree <= Hyper, 0 < Garde
  PROVE  BlocRendu'
<1>1. CASE Arm \/ Dsp
  <2>1. pc' # "arm"
    BY <1>1 DEF Arm, Dsp
  <2> QED BY <2>1 DEF BlocRendu
<1>2. CASE Scruter
  <2>1. /\ IInv /\ Cadre /\ cas \in Cas /\ n \in Nat /\ n < Hyper
    BY <1>2, DescenteAssumption DEF JInv, IInv, Cadre, Forme, Scruter
  <2>2. /\ cas' = cas /\ canal' = canal /\ fini' = fini /\ sue' = sue /\ n' = n + 1
        /\ bsp'.recus = bsp.recus
    BY <1>2, <2>1, ScruterDit
  <2>3. (fn' - 1) % Hyper = fn
    BY <2>1, <2>2, FnPrecedent
  <2>4. ASSUME fini # Rien, Lisible(fn)
        PROVE  mots'[Mot[fini.genre]] = Bon(fini)
    <3>1. CASE Complet(BlocTchF(fn), "tchf", Clair)
      BY <1>2, <2>4, <3>1, TchFRendu
    <3>2. ASSUME canal.genre = "tchh", fini.genre = "facch", NEW k \in {Clair, sue},
                 Complet(BlocFacchH(fn, canal.ss), "tchh", k)
          PROVE  mots'[Mot[fini.genre]] = Bon(fini)
      <4>1. Mot[fini.genre] = "fd"
        BY <3>2 DEF Mot
      <4> QED BY <1>2, <2>4, <3>2, <4>1, FacchHRendu
    <3>3. CASE canal.genre = "tchh" /\ fini.genre = "sacch" /\ Complet(BlocSacchH(fn, canal.ss), "tchh", sue)
      <4>1. Mot[fini.genre] = "cd"
        BY <3>3 DEF Mot
      <4> QED BY <1>2, <2>4, <3>3, <4>1, SacchHRendu
    <3> QED BY <2>4, <3>1, <3>2, <3>3 DEF Lisible
  <2>5. Lisible((fn - 1) % Hyper)' => Lisible(fn)
    <3>1. Lisible((fn - 1) % Hyper)'
            = LisibleDe(bsp'.recus, canal', fini', sue', cas'.tn, (fn' - 1) % Hyper)
      BY DEF Lisible, Complet, Entier, Recu, BlocTchF, BlocFacchH, BlocSacchH, LisibleDe,
         CompletDe, EntierDe
    <3>2. Lisible(fn) = LisibleDe(bsp.recus, canal, fini, sue, cas.tn, fn)
      BY DEF Lisible, Complet, Entier, Recu, BlocTchF, BlocFacchH, BlocSacchH, LisibleDe,
         CompletDe, EntierDe
    <3> QED BY <2>2, <2>3, <3>1, <3>2
  <2>6. BlocRendu' <=> (pc' = "arm" /\ fini' # Rien /\ Lisible((fn - 1) % Hyper)'
                          => mots'[Mot[fini'.genre]] = Bon(fini'))
    BY DEF BlocRendu, Lisible, Mot
  <2> QED BY <2>2, <2>4, <2>5, <2>6
<1> QED BY <1>1, <1>2 DEF Next

LEMMA JInvSuivant ==
  ASSUME Duree <= Hyper, 0 < Garde
  PROVE  JInv /\ [Next]_vars => JInv'
<1> SUFFICES ASSUME JInv, [Next]_vars PROVE JInv'
  OBVIOUS
<1>1. CASE Next
  <2>1. IInv'
    BY <1>1, IInvSuivant DEF JInv
  <2>2. Chiffre'
    BY <1>1, ChiffreArm, ChiffreDspScruter DEF JInv, Next
  <2> QED BY <1>1, <2>1, <2>2, PasseSuivant, TrameSuivant, BlocRenduSuivant DEF JInv
<1>2. CASE UNCHANGED vars
  <2>1. IInv'
    BY <1>2, IInvSuivant DEF JInv
  <2>2. Passe' /\ Chiffre'
    BY <1>2 DEF vars, JInv, Passe, Passee, Chiffre
  <2>3. Trame'
    BY <1>2 DEF vars, JInv, Trame, fn, DejaBon
  <2>4. BlocRendu'
    <3> DEFINE L == LisibleDe(bsp.recus, canal, fini, sue, cas.tn, (fn - 1) % Hyper)
    <3>1. BlocRendu <=> (pc = "arm" /\ fini # Rien /\ L => mots[Mot[fini.genre]] = Bon(fini))
      BY DEF BlocRendu, Complet, Entier, Recu, BlocTchF, BlocFacchH, BlocSacchH, LisibleDe,
         CompletDe, EntierDe, Mot
    <3>2. BlocRendu' <=> (pc' = "arm" /\ fini' # Rien /\ L' => mots'[Mot[fini'.genre]] = Bon(fini'))
      BY DEF BlocRendu, Complet, Entier, Recu, BlocTchF, BlocFacchH, BlocSacchH, LisibleDe,
         CompletDe, EntierDe, Mot
    <3>3. L' <=> L
      BY <1>2 DEF vars, fn
    <3> HIDE DEF L
    <3> QED BY <1>2, <3>1, <3>2, <3>3 DEF vars, JInv
  <2> QED BY <2>1, <2>2, <2>3, <2>4 DEF JInv
<1> QED BY <1>1, <1>2

\* A block whose bursts the BSP has all delivered is given to the firmware, in its word, when it
\* is in clear or ciphered with the key the firmware has set: on a run no longer than a
\* hyperframe (the BSP tells its bursts by frame number alone), and for a process that waits
\* for uplink tasks at all.
THEOREM BlocToujoursRendu ==
  ASSUME Duree <= Hyper, 0 < Garde
  PROVE  Spec => []BlocRendu
<1>1. JInv => BlocRendu
  BY DEF JInv
<1>2. JInv /\ [Next]_vars => JInv'
  BY JInvSuivant
<1> QED BY <1>1, <1>2, JInvInit, PTL DEF Spec
=============================================================================
