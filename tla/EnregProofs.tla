---------------------------- MODULE EnregProofs ----------------------------
(***************************************************************************)
(* Proofs about Enreg, for every number of ticks, writes and channels, any *)
(* set of values, both settings of PONT_DONE_TOT and every size of the     *)
(* readers' tables: the types, what rejeu_banc plays, and the account of   *)
(* layer1_tester.                                                          *)
(*                                                                         *)
(* The invariant says what is in the file, and nothing of its readers:     *)
(* there is a series of phases, each of which starts on what its record    *)
(* writes over what the ROM has left of the phase before, and on that      *)
(* alone without a record (Histoire), and in the words that no write       *)
(* without a record has reached it is the series lived (Accord); where the *)
(* bridge is in its frame says what the snapshot and the API RAM are to    *)
(* the last phase, in those words (Suivi).                                 *)
(* The replay is then right phase by phase, by induction on the ticks; and *)
(* the account is even by induction on the records, a table of values that *)
(* overflows being what is left when groups of NVal + 1 writes of          *)
(* different values are taken away (Compensee).                            *)
(*                                                                         *)
(* Induction goes by the least counterexample (PlusPetit): a recursive     *)
(* function of the readers exists (SuiteExiste), so that it is its own     *)
(* unfolding, and what its first state and its steps give all of them have *)
(* (Proche).                                                               *)
(***************************************************************************)
EXTENDS Enreg, FiniteSetTheorems, FunctionTheorems, SequenceTheorems, WellFoundedInduction, TLAPS

-----------------------------------------------------------------------------
(* Induction, recursion, intervals.                                        *)

LEMMA IntervalleFini ==
  ASSUME NEW n \in Nat
  PROVE  IsFiniteSet(1 .. n) /\ Cardinality(1 .. n) = n
<1>1. 1 \in Int /\ n \in Int
  OBVIOUS
<1>2. IsFiniteSet(1 .. n) /\ Cardinality(1 .. n) = IF 1 > n THEN 0 ELSE n - 1 + 1
  BY <1>1, FS_Interval
<1>3. (IF 1 > n THEN 0 ELSE n - 1 + 1) = n
  OBVIOUS
<1> QED BY <1>2, <1>3

\* A set of naturals that is not empty has a least element.
LEMMA PlusPetit ==
  ASSUME NEW T \in SUBSET Nat, T # {}
  PROVE  \E n \in T : \A m \in T : n <= m
<1> DEFINE R == OpToRel(<, Nat)
<1>1. PICK n \in T : \A m \in T : ~ (<<m, n>> \in R)
  BY NatLessThanWellFounded, WFMin
<1>2. \A m \in T : <<m, n>> \in Nat \X Nat
  OBVIOUS
<1>3. \A m \in T : ~(m < n)
  BY <1>1, <1>2 DEF OpToRel
<1> QED BY <1>3

\* What holds first and is kept by each step of a sequence of states holds of all.
LEMMA Proche ==
  ASSUME NEW n \in Nat, NEW h, NEW S, h[0] \in S,
         \A i \in 1 .. n : h[i - 1] \in S => h[i] \in S
  PROVE  \A i \in 0 .. n : h[i] \in S
<1> SUFFICES ASSUME NEW i \in 0 .. n, h[i] \notin S PROVE FALSE
  OBVIOUS
<1> DEFINE T == {k \in 0 .. n : h[k] \notin S}
<1>1. PICK k \in T : \A m \in T : k <= m
  <2>1. T \in SUBSET Nat /\ T # {}
    OBVIOUS
  <2> HIDE DEF T
  <2> QED BY <2>1, PlusPetit
<1>2. k \in 1 .. n /\ k - 1 \in 0 .. n /\ ~(k <= k - 1)
  BY <1>1
<1>3. h[k - 1] \in S
  BY <1>1, <1>2
<1> QED BY <1>1, <1>2, <1>3

\* A sequence of states is given by its first and the step from each to the next.
Enchaine(g, n, S, b, F) ==
  g \in [0 .. n -> S] /\ g[0] = b /\ \A i \in 1 .. n : g[i] = F[i][g[i - 1]]

LEMMA SuiteExiste ==
  ASSUME NEW n \in Nat, NEW S, NEW b \in S, NEW F \in [1 .. n -> [S -> S]]
  PROVE  \E g : Enchaine(g, n, S, b, F)
<1> DEFINE Bonne(g, k) == g \in [0 .. k -> S] /\ g[0] = b /\ \A i \in 1 .. k : g[i] = F[i][g[i - 1]]
           T == {k \in 0 .. n : ~ \E g : Bonne(g, k)}
<1> SUFFICES ASSUME T # {} PROVE FALSE
  <2>1. n \in 0 .. n
    OBVIOUS
  <2> QED BY <2>1 DEF Enchaine
<1>1. PICK k \in T : \A m \in T : k <= m
  <2>1. T \in SUBSET Nat /\ T # {}
    OBVIOUS
  <2> HIDE DEF T
  <2> QED BY <2>1, PlusPetit
<1>2. CASE k = 0
  <2> DEFINE g == [i \in 0 .. 0 |-> b]
  <2>1. Bonne(g, 0)
    OBVIOUS
  <2> QED BY <1>1, <1>2, <2>1
<1>3. CASE k # 0
  <2>1. k \in 1 .. n /\ k - 1 \in 0 .. n /\ ~(k <= k - 1)
    BY <1>3
  <2>2. PICK g : Bonne(g, k - 1)
    BY <1>1, <2>1
  <2> DEFINE h == [i \in 0 .. k |-> IF i = k THEN F[k][g[k - 1]] ELSE g[i]]
  <2>3. h \in [0 .. k -> S]
    BY <2>1, <2>2
  <2>4. h[0] = b
    BY <2>1, <2>2
  <2>5. ASSUME NEW i \in 1 .. k PROVE h[i] = F[i][h[i - 1]]
    <3>1. i - 1 \in 0 .. k - 1 /\ h[i - 1] = g[i - 1]
      BY <2>1
    <3>2. CASE i = k
      BY <3>1, <3>2
    <3>3. CASE i # k
      <4>1. i \in 1 .. k - 1 /\ i \in 0 .. k
        BY <3>3, <2>1
      <4>2. h[i] = g[i]
        BY <4>1, <3>3
      <4> QED BY <4>1, <4>2, <3>1, <2>2
    <3> QED BY <3>2, <3>3
  <2>6. Bonne(h, k)
    BY <2>3, <2>4, <2>5
  <2> QED BY <1>1, <2>6
<1> QED BY <1>2, <1>3

-----------------------------------------------------------------------------
(* Ranks.                                                                  *)

Avant(rangs, p) == {q \in rangs : q <= p}

LEMMA AvantCroit ==
  ASSUME NEW rangs \in SUBSET Nat, IsFiniteSet(rangs), NEW p \in rangs, NEW q \in rangs, p < q
  PROVE  Cardinality(Avant(rangs, p)) < Cardinality(Avant(rangs, q))
<1>0. \A x \in rangs : x \in Nat
  OBVIOUS
<1>1. Avant(rangs, p) \in SUBSET Avant(rangs, q) /\ q \in Avant(rangs, q) /\ q \notin Avant(rangs, p)
  <2>1. ASSUME NEW x \in Avant(rangs, p) PROVE x \in Avant(rangs, q)
    BY <1>0 DEF Avant
  <2>2. q <= q /\ ~(q <= p)
    BY <1>0
  <2> QED BY <2>1, <2>2 DEF Avant
<1>2. IsFiniteSet(Avant(rangs, q)) /\ Avant(rangs, q) \subseteq rangs
  BY FS_Subset DEF Avant
<1>3. Cardinality(Avant(rangs, p)) <= Cardinality(Avant(rangs, q)) /\ Cardinality(Avant(rangs, p)) # Cardinality(Avant(rangs, q))
  BY <1>1, <1>2, FS_Subset
<1>4. Cardinality(Avant(rangs, p)) \in Nat /\ Cardinality(Avant(rangs, q)) \in Nat
  BY <1>1, <1>2, FS_CardinalityType, FS_Subset
<1> QED BY <1>3, <1>4

\* The i-th of some ranks is the one that has i of them up to it.
LEMMA RangUnique ==
  ASSUME NEW rangs \in SUBSET Nat, IsFiniteSet(rangs), NEW p \in rangs
  PROVE  Rang(rangs, Cardinality(Avant(rangs, p))) = p
<1> DEFINE i == Cardinality(Avant(rangs, p))
<1>1. \A q \in rangs : Cardinality(Avant(rangs, q)) = i => q = p
  <2> SUFFICES ASSUME NEW q \in rangs, Cardinality(Avant(rangs, q)) = i, q # p PROVE FALSE
    OBVIOUS
  <2>1. p < q \/ q < p
    OBVIOUS
  <2>2. Cardinality(Avant(rangs, p)) \in Nat /\ Cardinality(Avant(rangs, q)) \in Nat
    BY FS_CardinalityType, FS_Subset DEF Avant
  <2> QED BY <2>1, <2>2, AvantCroit
<1> HIDE DEF i
<1>2. Cardinality(Avant(rangs, p)) = i
  BY DEF i
<1> QED BY <1>1, <1>2 DEF Rang, Avant, i

LEMMA RangDit ==
  ASSUME NEW rangs \in SUBSET Nat, IsFiniteSet(rangs), NEW i \in 1 .. Cardinality(rangs)
  PROVE  Rang(rangs, i) \in rangs /\ Cardinality(Avant(rangs, Rang(rangs, i))) = i
<1>0. Cardinality(rangs) \in Nat
  BY FS_CardinalityType
<1> DEFINE T == {k \in 1 .. Cardinality(rangs) : ~ \E p \in rangs : Cardinality(Avant(rangs, p)) = k}
<1>1. T = {}
  <2> SUFFICES ASSUME T # {} PROVE FALSE
    OBVIOUS
  <2>1. PICK k \in T : \A m \in T : k <= m
    <3>1. T \in SUBSET Nat
      BY <1>0
    <3> HIDE DEF T
    <3> QED BY <3>1, PlusPetit
  <2>2. k \in 1 .. Cardinality(rangs) /\ k \in Nat
    BY <1>0
  <2> DEFINE apres(d) == {q \in rangs : \A x \in d : x < q}
  <2>3. \E d \in SUBSET rangs : /\ Cardinality(d) = k - 1
                                /\ \A x \in d : \A q \in rangs : q <= x => q \in d
    <3>1. CASE k = 1
      <4>1. {} \in SUBSET rangs /\ Cardinality({}) = k - 1
        BY <3>1, FS_EmptySet
      <4> QED BY <4>1
    <3>2. CASE k # 1
      <4>1. k - 1 \in 1 .. Cardinality(rangs) /\ ~(k <= k - 1)
        BY <2>2, <3>2, <1>0
      <4>2. PICK p \in rangs : Cardinality(Avant(rangs, p)) = k - 1
        BY <4>1, <2>1
      <4>3. Avant(rangs, p) \in SUBSET rangs
            /\ \A x \in Avant(rangs, p) : \A q \in rangs : q <= x => q \in Avant(rangs, p)
        BY DEF Avant
      <4> QED BY <4>2, <4>3
    <3> QED BY <3>1, <3>2
  <2>4. PICK d \in SUBSET rangs : /\ Cardinality(d) = k - 1
                                  /\ \A x \in d : \A q \in rangs : q <= x => q \in d
    BY <2>3
  <2>5. rangs \ d # {}
    <3> SUFFICES ASSUME rangs \ d = {} PROVE FALSE
      OBVIOUS
    <3>1. d = rangs
      OBVIOUS
    <3> QED BY <3>1, <2>4, <2>2, <1>0
  <2>6. PICK p \in rangs \ d : \A q \in rangs \ d : p <= q
    <3>1. rangs \ d \in SUBSET Nat
      OBVIOUS
    <3> QED BY <2>5, <3>1, PlusPetit
  <2>7. Avant(rangs, p) = d \cup {p}
    <3>1. ASSUME NEW q \in Avant(rangs, p) PROVE q \in d \cup {p}
      <4>1. q \in rangs /\ q <= p /\ q \in Nat /\ p \in Nat
        BY DEF Avant
      <4> QED BY <4>1, <2>6
    <3>2. ASSUME NEW q \in d PROVE q \in Avant(rangs, p)
      <4>1. q \in rangs /\ q \in Nat /\ p \in Nat /\ ~(p <= q)
        BY <2>4
      <4> QED BY <4>1 DEF Avant
    <3>3. p \in Avant(rangs, p)
      BY DEF Avant
    <3> QED BY <3>1, <3>2, <3>3
  <2>8. Cardinality(d \cup {p}) = k
    <3>1. IsFiniteSet(d) /\ p \notin d
      BY FS_Subset
    <3>2. Cardinality(d \cup {p}) = Cardinality(d) + 1
      BY <3>1, FS_AddElement
    <3> QED BY <3>2, <2>4, <2>2
  <2>9. p \in rangs /\ Cardinality(Avant(rangs, p)) = k
    BY <2>7, <2>8
  <2> QED BY <2>9, <2>1
<1>2. PICK p \in rangs : Cardinality(Avant(rangs, p)) = i
  BY <1>1
<1> QED BY <1>2, RangUnique

\* The ranks follow one another: nothing is between the i-th and the next.
LEMMA RangCroit ==
  ASSUME NEW rangs \in SUBSET Nat, IsFiniteSet(rangs),
         NEW i \in 1 .. Cardinality(rangs), NEW j \in 1 .. Cardinality(rangs), i < j
  PROVE  Rang(rangs, i) < Rang(rangs, j)
<1> DEFINE p == Rang(rangs, i)
           q == Rang(rangs, j)
<1>1. p \in rangs /\ q \in rangs /\ Cardinality(Avant(rangs, p)) = i /\ Cardinality(Avant(rangs, q)) = j
  BY RangDit
<1> HIDE DEF p, q
<1>2. Cardinality(rangs) \in Nat
  BY FS_CardinalityType
<1>3. i \in Nat /\ j \in Nat /\ p \in Nat /\ q \in Nat
  BY <1>1, <1>2
<1>4. ~(q < p) /\ p # q
  BY <1>1, <1>3, AvantCroit
<1>5. p < q
  BY <1>3, <1>4
<1> QED BY <1>5 DEF p, q

LEMMA RangSuivant ==
  ASSUME NEW rangs \in SUBSET Nat, IsFiniteSet(rangs),
         NEW i \in 1 .. Cardinality(rangs), i + 1 \in 1 .. Cardinality(rangs),
         NEW q \in rangs, Rang(rangs, i) < q
  PROVE  Rang(rangs, i + 1) <= q
<1> DEFINE p == Rang(rangs, i)
           r == Rang(rangs, i + 1)
<1>1. /\ p \in rangs /\ Cardinality(Avant(rangs, p)) = i
      /\ r \in rangs /\ Cardinality(Avant(rangs, r)) = i + 1
      /\ p < q
  BY RangDit
<1> HIDE DEF p, r
<1>2. Cardinality(rangs) \in Nat /\ Cardinality(Avant(rangs, q)) \in Nat
  BY FS_CardinalityType, FS_Subset DEF Avant
<1>3. i < Cardinality(Avant(rangs, q))
  BY <1>1, AvantCroit
<1>4. ~(q < r)
  BY <1>1, <1>2, <1>3, AvantCroit
<1>5. r <= q
  BY <1>1, <1>4
<1> QED BY <1>5 DEF r

\* A set of ranks cut at n has the same first ranks.
LEMMA RangCoupe ==
  ASSUME NEW rangs \in SUBSET Nat, IsFiniteSet(rangs), NEW n \in Nat,
         NEW i \in 1 .. Cardinality(Avant(rangs, n))
  PROVE  /\ i \in 1 .. Cardinality(rangs)
         /\ Rang(Avant(rangs, n), i) = Rang(rangs, i) /\ Rang(rangs, i) <= n
<1> DEFINE coupe == Avant(rangs, n)
           p == Rang(coupe, i)
<1>1. coupe \in SUBSET rangs /\ coupe \in SUBSET Nat /\ IsFiniteSet(coupe)
  BY FS_Subset DEF Avant
<1>2. p \in coupe /\ Cardinality(Avant(coupe, p)) = i
  BY <1>1, RangDit
<1> HIDE DEF p
<1>3. p \in rangs /\ p <= n /\ p \in Nat
  BY <1>2 DEF Avant
<1>4. Avant(coupe, p) = Avant(rangs, p)
  <2>1. ASSUME NEW x \in rangs, x <= p PROVE x <= n
    <3>1. x \in Nat
      OBVIOUS
    <3> HIDE DEF coupe
    <3> QED BY <1>3, <2>1, <3>1
  <2> QED BY <2>1, <1>3 DEF Avant
<1>5. Rang(rangs, i) = p
  BY <1>2, <1>3, <1>4, RangUnique
<1>6. Cardinality(coupe) <= Cardinality(rangs) /\ Cardinality(coupe) \in Nat /\ Cardinality(rangs) \in Nat
  BY <1>1, FS_Subset, FS_CardinalityType
<1> HIDE DEF coupe
<1>7. i \in 1 .. Cardinality(rangs)
  BY <1>6 DEF coupe
<1> QED BY <1>3, <1>5, <1>7 DEF p, coupe

LEMMA DernierDit ==
  ASSUME NEW rangs \in SUBSET Nat, IsFiniteSet(rangs), rangs # {}
  PROVE  Dernier(rangs) \in rangs /\ \A q \in rangs : q <= Dernier(rangs)
<1> DEFINE n == Cardinality(rangs)
           p == Rang(rangs, n)
<1>1. n \in Nat /\ n \in 1 .. n
  <2>1. n \in Nat /\ n # 0
    BY FS_CardinalityType, FS_EmptySet
  <2> HIDE DEF n
  <2> QED BY <2>1
<1>2. p \in rangs /\ Cardinality(Avant(rangs, p)) = n
  BY <1>1, RangDit
<1> HIDE DEF p
<1>3. \A q \in rangs : q <= p
  <2> SUFFICES ASSUME NEW q \in rangs, p < q PROVE FALSE
    <3>1. \A q \in rangs : q \in Nat /\ p \in Nat
      BY <1>2
    <3> QED BY <3>1
  <2>1. n < Cardinality(Avant(rangs, q))
    BY <1>2, AvantCroit
  <2>2. Cardinality(Avant(rangs, q)) <= n /\ Cardinality(Avant(rangs, q)) \in Nat
    BY FS_Subset, FS_CardinalityType DEF Avant
  <2> HIDE DEF n
  <2> QED BY <2>1, <2>2, <1>1
<1>4. \E r \in rangs : \A q \in rangs : q <= r
  BY <1>2, <1>3
<1> QED BY <1>4 DEF Dernier

-----------------------------------------------------------------------------
(* The inductive invariant.                                                *)

\* What a record gives: some words of the API RAM.
Majs == UNION {[D -> Valeurs] : D \in SUBSET Mots}

Recs ==
  {r \in [k: {"S", "D", "P", "T", "A"}, tick: 1 .. MaxTicks, fenetre: {0, 1}, maj: Majs] :
     r.k = "S" => r.maj \in Ram}

Cadre ==
  /\ api \in Ram /\ (snap = SansCliche \/ snap \in Ram)
  /\ actif \in BOOLEAN /\ base \in BOOLEAN /\ trou \in BOOLEAN /\ derive \subseteq Mots
  /\ pc \in {"entre", "l1sync", "reste", "suite"} /\ tick \in 0 .. MaxTicks
  /\ vecu \in Seq(Ram) /\ compte \in [ecrits: 0 .. MaxEcrits, tch: 0 .. MaxTch]
  /\ fichier \in Seq(Recs)
  /\ pc # "entre" => tick >= 1
  /\ base => snap # SansCliche

\* The starting state is written once, before the first tick.
Tete ==
  /\ ~base => Rangs(fichier, "S") = {} /\ Rangs(fichier, "T") = {} /\ vecu = <<>>
  /\ base => \E s \in DOMAIN fichier :
       Rangs(fichier, "S") = {s} /\ \A q \in Rangs(fichier, "T") : s < q

\* What a record of differences gives, and what the API RAM holds once it is written there.
Ecart(a, c) == [m \in {x \in Mots : a[x] # c[x]} |-> a[m]]
Ecrire(a, maj) == [m \in Mots |-> IF m \in DOMAIN maj THEN maj[m] ELSE a[m]]

\* The tick a record belongs to (0 before the first), the phase it precedes, and what the
\* API RAM holds before a phase if the ARM does nothing.
TickDe(f, q) == Cardinality(Avant(Rangs(f, "T"), q))
Phase(f, q) == 2 * TickDe(f, q) - 1 + f[q].fenetre
Attendu(f, V, j) == IF j = 1 THEN Depart(f) ELSE Rom(V[j - 1])

\* What the replay plays: a phase starts on what its record leaves on what the phase before
\* has left, and on that alone without a record.
Histoire(f, W) ==
  /\ \A q \in Rangs(f, "A") : TickDe(f, q) >= 1 =>
       Phase(f, q) \in 1 .. Len(W) /\ W[Phase(f, q)] = Ecrire(Attendu(f, W, Phase(f, q)), f[q].maj)
  /\ \A j \in 1 .. Len(W) :
       W[j] = Attendu(f, W, j) \/ \E q \in Rangs(f, "A") : TickDe(f, q) >= 1 /\ Phase(f, q) = j

\* Two series of phases start on the same values, in the words of S.
Accord(V, W, S) ==
  W \in Seq(Ram) /\ Len(W) = Len(V) /\ \A j \in 1 .. Len(V) : \A m \in S : W[j][m] = V[j][m]

\* The same values in the words of S.
Pareils(a, b, S) == \A m \in S : a[m] = b[m]

\* The ticks recorded are those lived, and the API RAM is where they have left it.
Suivi ==
  LET n == Cardinality(Rangs(fichier, "T"))
  IN  /\ n >= 1
      /\ Len(vecu) = IF pc = "l1sync" THEN 2 * n - 1 ELSE 2 * n
      /\ pc \in {"entre", "l1sync"} => Pareils(snap, Rom(vecu[Len(vecu)]), Surs)
      /\ pc = "reste" => Pareils(api, vecu[Len(vecu)], Surs)
      /\ pc = "suite" => Pareils(api, Rom(vecu[Len(vecu)]), Surs)

Fidele ==
  base /\ ~trou => (\E W : Histoire(fichier, W) /\ Accord(vecu, W, Surs)) /\ Suivi

IInv == Cadre /\ Tete /\ Fidele

-----------------------------------------------------------------------------
(* Types.                                                                  *)

LEMMA RamMajs == Ram \subseteq Majs
<1>1. Mots \in SUBSET Mots
  OBVIOUS
<1> QED BY <1>1 DEF Ram, Majs

LEMMA VideMajs == <<>> \in Majs
<1>1. <<>> \in [{} -> Valeurs]
  <2>1. <<>> \in Seq(Valeurs) /\ Len(<<>>) = 0
    BY EmptySeq
  <2>2. <<>> \in [1 .. Len(<<>>) -> Valeurs]
    BY <2>1, LenProperties
  <2>3. 1 .. Len(<<>>) = {}
    BY <2>1
  <2> QED BY <2>2, <2>3
<1> QED BY <1>1 DEF Majs

LEMMA RamPleine == \A a \in Ram : a # SansCliche
<1> SUFFICES ASSUME NEW a \in Ram, a = <<>> PROVE FALSE
  BY DEF SansCliche
<1>1. Commande \in DOMAIN a
  BY DEF Ram, Mots
<1>2. DOMAIN a = {}
  OBVIOUS
<1> QED BY <1>1, <1>2

LEMMA RomRam == \A a \in Ram : Rom(a) \in Ram
BY DEF Ram, Rom, Mots

LEMMA EcartMajs == ASSUME NEW a \in Ram, NEW c PROVE Ecart(a, c) \in Majs
<1>1. {x \in Mots : a[x] # c[x]} \in SUBSET Mots
  OBVIOUS
<1>2. Ecart(a, c) \in [{x \in Mots : a[x] # c[x]} -> Valeurs]
  BY DEF Ecart, Ram
<1> QED BY <1>1, <1>2 DEF Majs

LEMMA SursDit ==
  /\ \A m \in Surs : m \in Mots /\ m \notin derive /\ Commande \in Surs
  /\ Surs \subseteq Mots
BY DEF Surs, Mots

\* What the ROM answers agrees where what it reads does.
LEMMA RomPareils ==
  ASSUME NEW a \in Ram, NEW b \in Ram, NEW S \in SUBSET Mots, S # {} => Commande \in S, Pareils(a, b, S)
  PROVE  Pareils(Rom(a), Rom(b), S)
<1>1. ASSUME NEW m \in S PROVE Rom(a)[m] = Rom(b)[m]
  <2>1. a[Commande] = b[Commande] /\ a[m] = b[m] /\ m \in Mots
    BY DEF Pareils
  <2>2. DOMAIN a = Mots /\ DOMAIN b = Mots
    BY DEF Ram
  <2>3. Rom(a)[m] = IF m = Reponse THEN a[Commande] ELSE a[m]
    BY <2>1, <2>2 DEF Rom
  <2>4. Rom(b)[m] = IF m = Reponse THEN b[Commande] ELSE b[m]
    BY <2>1, <2>2 DEF Rom
  <2> QED BY <2>1, <2>3, <2>4
<1> QED BY <1>1 DEF Pareils

\* The difference with a snapshot, written on what agrees with it.
LEMMA EcrireEcart ==
  ASSUME NEW a \in Ram, NEW b \in Ram, NEW c \in Ram, NEW S \in SUBSET Mots, Pareils(c, b, S)
  PROVE  Ecrire(c, Ecart(a, b)) \in Ram /\ Pareils(Ecrire(c, Ecart(a, b)), a, S)
<1>1. /\ DOMAIN Ecart(a, b) = {x \in Mots : a[x] # b[x]}
      /\ \A m \in DOMAIN Ecart(a, b) : Ecart(a, b)[m] = a[m]
  BY DEF Ecart
<1>2. \A m \in Mots : Ecrire(c, Ecart(a, b))[m] = IF a[m] # b[m] THEN a[m] ELSE c[m]
  BY <1>1 DEF Ecrire
<1>3. Ecrire(c, Ecart(a, b)) \in Ram
  <2>1. Ecrire(c, Ecart(a, b)) = [m \in Mots |-> IF a[m] # b[m] THEN a[m] ELSE c[m]]
    BY <1>1 DEF Ecrire
  <2>2. \A m \in Mots : a[m] \in Valeurs /\ c[m] \in Valeurs
    BY DEF Ram
  <2> QED BY <2>1, <2>2 DEF Ram
<1> QED BY <1>2, <1>3 DEF Pareils

\* The words that differ are the bridge's.
LEMMA EcartesPareils ==
  ASSUME NEW a, NEW b, NEW S \in SUBSET Mots, S \cap Ecartes(a, b) = {}
  PROVE  Pareils(a, b, S)
BY DEF Ecartes, Pareils

LEMMA AccordPlus ==
  ASSUME NEW V \in Seq(Ram), NEW W, NEW S, NEW S2 \in SUBSET S, Accord(V, W, S),
         NEW x \in Ram, NEW y \in Ram, Pareils(y, x, S2)
  PROVE  Accord(V \o <<x>>, W \o <<y>>, S2)
<1>1. W \in Seq(Ram) /\ Len(W) = Len(V) /\ \A j \in 1 .. Len(V) : \A m \in S2 : W[j][m] = V[j][m]
  BY DEF Accord
<1> DEFINE A == V \o <<x>>
           B == W \o <<y>>
<1>2. /\ A \in Seq(Ram) /\ Len(A) = Len(V) + 1 /\ Len(V) \in Nat
      /\ \A i \in 1 .. Len(V) : A[i] = V[i]
      /\ A[Len(V) + 1] = x
  OBVIOUS
<1>3. /\ B \in Seq(Ram) /\ Len(B) = Len(W) + 1
      /\ \A i \in 1 .. Len(W) : B[i] = W[i]
      /\ B[Len(W) + 1] = y
  BY <1>1
<1> HIDE DEF A, B
<1>4. \A j \in 1 .. Len(A) : j \in 1 .. Len(V) \/ j = Len(V) + 1
  BY <1>2
<1>5. ASSUME NEW j \in 1 .. Len(A), NEW m \in S2 PROVE B[j][m] = A[j][m]
  BY <1>1, <1>2, <1>3, <1>4 DEF Pareils
<1>6. Len(B) = Len(A)
  BY <1>1, <1>2, <1>3
<1> QED BY <1>3, <1>5, <1>6 DEF Accord, A, B

LEMMA EnrRecs ==
  ASSUME NEW k \in {"S", "D", "P", "T", "A"}, NEW t \in 1 .. MaxTicks, NEW w \in {0, 1}, NEW maj \in Majs,
         k = "S" => maj \in Ram
  PROVE  Enr(k, t, w, maj) \in Recs
BY DEF Enr, Recs

\* The base, and what it adds to a file.
LEMMA BaseDit ==
  ASSUME NEW t \in 1 .. MaxTicks, api \in Ram, snap = SansCliche \/ snap \in Ram
  PROVE  /\ Base(t) \in Seq(Recs) /\ Len(Base(t)) = 3
         /\ Base(t)[1].k = "S" /\ Base(t)[2].k = "D" /\ Base(t)[3].k = "P"
         /\ Base(t)[1].maj = IF snap = SansCliche THEN api ELSE snap
<1> DEFINE depart == IF snap = SansCliche THEN api ELSE snap
           s == Enr("S", t, 0, depart)
           d == Enr("D", t, 0, <<>>)
           p == Enr("P", t, 0, <<>>)
<1>1. depart \in Ram
  OBVIOUS
<1> HIDE DEF depart
<1>2. s \in Recs /\ d \in Recs /\ p \in Recs
  BY <1>1, EnrRecs, RamMajs, VideMajs
<1>3. s.k = "S" /\ s.maj = depart /\ d.k = "D" /\ p.k = "P"
  BY DEF Enr
<1>4. Base(t) = <<s, d, p>>
  BY DEF Base, depart
<1> HIDE DEF s, d, p
<1>5. <<s, d, p>> \in Seq(Recs) /\ Len(<<s, d, p>>) = 3
      /\ <<s, d, p>>[1] = s /\ <<s, d, p>>[2] = d /\ <<s, d, p>>[3] = p
  BY <1>2
<1> QED BY <1>3, <1>4, <1>5 DEF depart

-----------------------------------------------------------------------------
(* A record more.                                                          *)

LEMMA RangsFinis ==
  ASSUME NEW S, NEW f \in Seq(S), NEW k
  PROVE  /\ Rangs(f, k) \in SUBSET (1 .. Len(f)) /\ Rangs(f, k) \in SUBSET Nat
         /\ IsFiniteSet(Rangs(f, k)) /\ Cardinality(Rangs(f, k)) \in Nat
<1>1. DOMAIN f = 1 .. Len(f) /\ Len(f) \in Nat
  BY LenProperties
<1>2. Rangs(f, k) \in SUBSET (1 .. Len(f))
  BY <1>1 DEF Rangs
<1>3. IsFiniteSet(1 .. Len(f))
  BY <1>1, IntervalleFini
<1> QED BY <1>1, <1>2, <1>3, FS_Subset, FS_CardinalityType

LEMMA AjoutDit ==
  ASSUME NEW f \in Seq(Recs), NEW r \in Recs
  PROVE  /\ f \o <<r>> \in Seq(Recs) /\ Len(f \o <<r>>) = Len(f) + 1 /\ Len(f) \in Nat
         /\ \A i \in 1 .. Len(f) : (f \o <<r>>)[i] = f[i]
         /\ (f \o <<r>>)[Len(f) + 1] = r
OBVIOUS

LEMMA AjoutRangs ==
  ASSUME NEW f \in Seq(Recs), NEW r \in Recs, NEW k
  PROVE  Rangs(f \o <<r>>, k) = IF r.k = k THEN Rangs(f, k) \cup {Len(f) + 1} ELSE Rangs(f, k)
<1> DEFINE g == f \o <<r>>
<1>1. /\ g \in Seq(Recs) /\ Len(g) = Len(f) + 1 /\ Len(f) \in Nat
      /\ \A i \in 1 .. Len(f) : g[i] = f[i]
      /\ g[Len(f) + 1] = r
  BY AjoutDit
<1> HIDE DEF g
<1>2. DOMAIN g = 1 .. Len(f) + 1 /\ DOMAIN f = 1 .. Len(f)
  BY <1>1, LenProperties
<1>3. \A i \in 1 .. Len(f) + 1 : i \in 1 .. Len(f) \/ i = Len(f) + 1
  BY <1>1
<1>4. \A i \in 1 .. Len(f) : i \in 1 .. Len(f) + 1 /\ i # Len(f) + 1
  BY <1>1
<1>5. Len(f) + 1 \in 1 .. Len(f) + 1
  BY <1>1
<1>6. Rangs(g, k) = IF r.k = k THEN Rangs(f, k) \cup {Len(f) + 1} ELSE Rangs(f, k)
  BY <1>1, <1>2, <1>3, <1>4, <1>5 DEF Rangs
<1> QED BY <1>6 DEF g

LEMMA AjoutTickDe ==
  ASSUME NEW f \in Seq(Recs), NEW r \in Recs
  PROVE  /\ \A q \in 1 .. Len(f) : TickDe(f \o <<r>>, q) = TickDe(f, q)
         /\ TickDe(f \o <<r>>, Len(f) + 1) = Cardinality(Rangs(f \o <<r>>, "T"))
<1> DEFINE g == f \o <<r>>
<1>1. g \in Seq(Recs) /\ Len(g) = Len(f) + 1 /\ Len(f) \in Nat
  BY AjoutDit
<1>2. Rangs(g, "T") = IF r.k = "T" THEN Rangs(f, "T") \cup {Len(f) + 1} ELSE Rangs(f, "T")
  BY AjoutRangs
<1> HIDE DEF g
<1>3. \A q \in 1 .. Len(f) : Avant(Rangs(g, "T"), q) = Avant(Rangs(f, "T"), q)
  <2>1. \A q \in 1 .. Len(f) : ~(Len(f) + 1 <= q)
    BY <1>1
  <2> QED BY <1>2, <2>1 DEF Avant
<1>4. Avant(Rangs(g, "T"), Len(f) + 1) = Rangs(g, "T")
  <2>1. Rangs(g, "T") \in SUBSET (1 .. Len(f) + 1)
    BY <1>1, RangsFinis
  <2> QED BY <1>1, <2>1 DEF Avant
<1> QED BY <1>3, <1>4 DEF TickDe, g

LEMMA AjoutDepart ==
  ASSUME NEW f \in Seq(Recs), NEW r \in Recs, r.k # "S"
  PROVE  Depart(f \o <<r>>) = Depart(f)
<1>1. Rangs(f \o <<r>>, "S") = Rangs(f, "S")
  BY AjoutRangs
<1>2. CASE Rangs(f, "S") = {}
  BY <1>1, <1>2 DEF Depart
<1>3. CASE Rangs(f, "S") # {}
  <2>1. Dernier(Rangs(f, "S")) \in 1 .. Len(f)
    BY <1>3, RangsFinis, DernierDit
  <2>2. (f \o <<r>>)[Dernier(Rangs(f, "S"))] = f[Dernier(Rangs(f, "S"))]
    BY <2>1, AjoutDit
  <2> QED BY <1>1, <1>3, <2>2 DEF Depart
<1> QED BY <1>2, <1>3

\* The tick of a record, a natural.
LEMMA TickDeType ==
  ASSUME NEW f \in Seq(Recs), NEW q \in 1 .. Len(f)
  PROVE  /\ TickDe(f, q) \in Nat /\ TickDe(f, q) <= Cardinality(Rangs(f, "T"))
         /\ Phase(f, q) \in Int
<1>1. TickDe(f, q) \in Nat /\ TickDe(f, q) <= Cardinality(Rangs(f, "T"))
  BY RangsFinis, FS_Subset, FS_CardinalityType DEF TickDe, Avant
<1>2. f[q] \in Recs
  BY ElementOfSeq
<1>3. f[q].fenetre \in {0, 1}
  BY <1>2 DEF Recs
<1> HIDE DEF TickDe
<1> QED BY <1>1, <1>3 DEF Phase

LEMMA AjoutPhase ==
  ASSUME NEW f \in Seq(Recs), NEW r \in Recs, r.k # "S"
  PROVE  /\ \A q \in 1 .. Len(f) : Phase(f \o <<r>>, q) = Phase(f, q)
         /\ Phase(f \o <<r>>, Len(f) + 1) = 2 * Cardinality(Rangs(f \o <<r>>, "T")) - 1 + r.fenetre
         /\ \A V, j : Attendu(f \o <<r>>, V, j) = Attendu(f, V, j)
BY AjoutTickDe, AjoutDit, AjoutDepart DEF Phase, Attendu

\* A tick more changes nothing.
LEMMA HistoireTick ==
  ASSUME NEW f \in Seq(Recs), NEW r \in Recs, r.k \notin {"S", "A"}, NEW V, Histoire(f, V)
  PROVE  Histoire(f \o <<r>>, V)
<1> DEFINE g == f \o <<r>>
<1>1. Rangs(g, "A") = Rangs(f, "A") /\ Rangs(f, "A") \in SUBSET (1 .. Len(f))
  BY AjoutRangs, RangsFinis
<1>2. \A q \in 1 .. Len(f) : TickDe(g, q) = TickDe(f, q) /\ Phase(g, q) = Phase(f, q) /\ g[q] = f[q]
  BY AjoutTickDe, AjoutPhase, AjoutDit
<1>3. \A j : Attendu(g, V, j) = Attendu(f, V, j)
  BY AjoutPhase
<1> HIDE DEF g
<1>4. Histoire(g, V)
  BY <1>1, <1>2, <1>3 DEF Histoire
<1> QED BY <1>4 DEF g

\* A phase more that starts where the last has left the API RAM.
LEMMA HistoirePhase ==
  ASSUME NEW f \in Seq(Recs), NEW V \in Seq(Ram), NEW x \in Ram, Histoire(f, V),
         x = Attendu(f, V, Len(V) + 1)
  PROVE  Histoire(f, V \o <<x>>)
<1> DEFINE W == V \o <<x>>
<1>1. /\ W \in Seq(Ram) /\ Len(W) = Len(V) + 1 /\ Len(V) \in Nat
      /\ \A i \in 1 .. Len(V) : W[i] = V[i]
      /\ W[Len(V) + 1] = x
  OBVIOUS
<1> HIDE DEF W
<1>2. \A j \in 1 .. Len(V) + 1 : Attendu(f, W, j) = Attendu(f, V, j)
  <2>1. \A j \in 1 .. Len(V) + 1 : j = 1 \/ j - 1 \in 1 .. Len(V)
    BY <1>1
  <2> QED BY <1>1, <2>1 DEF Attendu
<1>3. \A j \in 1 .. Len(V) : j \in 1 .. Len(V) + 1
  BY <1>1
<1>4. \A j \in 1 .. Len(V) + 1 : j \in 1 .. Len(V) \/ j = Len(V) + 1
  BY <1>1
<1>5. Histoire(f, W)
  BY <1>1, <1>2, <1>3, <1>4 DEF Histoire
<1> QED BY <1>5 DEF W

\* A phase more, after a record of what the ARM has changed.
LEMMA HistoireEcart ==
  ASSUME NEW f \in Seq(Recs), NEW V \in Seq(Ram), NEW x \in Ram, NEW r \in Recs, Histoire(f, V),
         r.k = "A", x = Ecrire(Attendu(f, V, Len(V) + 1), r.maj),
         2 * Cardinality(Rangs(f, "T")) - 1 + r.fenetre = Len(V) + 1
  PROVE  Histoire(f \o <<r>>, V \o <<x>>)
<1> DEFINE W == V \o <<x>>
           g == f \o <<r>>
           l == Len(f) + 1
<1>1. /\ W \in Seq(Ram) /\ Len(W) = Len(V) + 1 /\ Len(V) \in Nat
      /\ \A i \in 1 .. Len(V) : W[i] = V[i]
      /\ W[Len(V) + 1] = x
  OBVIOUS
<1>2. Rangs(g, "A") = Rangs(f, "A") \cup {l} /\ Rangs(f, "A") \in SUBSET (1 .. Len(f))
      /\ Rangs(g, "T") = Rangs(f, "T")
  <2> HIDE DEF W
  <2>1. \A k : Rangs(g, k) = IF r.k = k THEN Rangs(f, k) \cup {l} ELSE Rangs(f, k)
    BY AjoutRangs
  <2> HIDE DEF g, l
  <2>2. Rangs(g, "A") = Rangs(f, "A") \cup {l} /\ Rangs(g, "T") = Rangs(f, "T")
    BY <2>1
  <2>3. Rangs(f, "A") \in SUBSET (1 .. Len(f))
    BY RangsFinis
  <2> QED BY <2>2, <2>3
<1>3. \A q \in 1 .. Len(f) : TickDe(g, q) = TickDe(f, q) /\ Phase(g, q) = Phase(f, q) /\ g[q] = f[q]
  BY AjoutTickDe, AjoutPhase, AjoutDit
<1>4. g[l] = r /\ TickDe(g, l) = Cardinality(Rangs(f, "T")) /\ Phase(g, l) = Len(V) + 1
  BY AjoutTickDe, AjoutPhase, AjoutDit, <1>2
<1>5. \A j : Attendu(g, W, j) = Attendu(f, W, j)
  BY AjoutPhase
<1>6. TickDe(g, l) >= 1
  <2>1. Cardinality(Rangs(f, "T")) \in Nat /\ r.fenetre \in {0, 1}
    BY RangsFinis DEF Recs
  <2> QED BY <2>1, <1>4, <1>1
<1> HIDE DEF W, g, l
<1>7. \A j \in 1 .. Len(V) + 1 : Attendu(f, W, j) = Attendu(f, V, j)
  <2>1. \A j \in 1 .. Len(V) + 1 : j = 1 \/ j - 1 \in 1 .. Len(V)
    BY <1>1
  <2> QED BY <1>1, <2>1 DEF Attendu
<1>8. \A j \in 1 .. Len(V) : j \in 1 .. Len(V) + 1
  BY <1>1
<1>9. \A j \in 1 .. Len(V) + 1 : j \in 1 .. Len(V) \/ j = Len(V) + 1
  BY <1>1
<1>10. Len(V) + 1 \in 1 .. Len(V) + 1
  BY <1>1
<1>11. ASSUME NEW q \in Rangs(g, "A"), TickDe(g, q) >= 1
       PROVE  /\ Phase(g, q) \in 1 .. Len(W)
              /\ W[Phase(g, q)] = Ecrire(Attendu(g, W, Phase(g, q)), g[q].maj)
  <2>1. CASE q = l
    BY <2>1, <1>1, <1>4, <1>5, <1>7, <1>10
  <2>2. CASE q \in Rangs(f, "A")
    <3>1. /\ TickDe(f, q) >= 1 /\ Phase(g, q) = Phase(f, q) /\ g[q] = f[q]
      BY <2>2, <1>2, <1>3, <1>11
    <3>2. Phase(f, q) \in 1 .. Len(V) /\ V[Phase(f, q)] = Ecrire(Attendu(f, V, Phase(f, q)), f[q].maj)
      BY <2>2, <3>1 DEF Histoire
    <3> QED BY <3>1, <3>2, <1>1, <1>5, <1>7, <1>8
  <2> QED BY <2>1, <2>2, <1>2
<1>12. ASSUME NEW j \in 1 .. Len(W)
       PROVE  W[j] = Attendu(g, W, j) \/ \E q \in Rangs(g, "A") : TickDe(g, q) >= 1 /\ Phase(g, q) = j
  <2>1. CASE j = Len(V) + 1
    BY <2>1, <1>2, <1>4, <1>6
  <2>2. CASE j \in 1 .. Len(V)
    <3>1. V[j] = Attendu(f, V, j) \/ \E q \in Rangs(f, "A") : TickDe(f, q) >= 1 /\ Phase(f, q) = j
      BY <2>2 DEF Histoire
    <3>2. V[j] = Attendu(f, V, j) => W[j] = Attendu(g, W, j)
      BY <2>2, <1>1, <1>5, <1>7, <1>8
    <3> QED BY <3>1, <3>2, <1>2, <1>3
  <2> QED BY <2>1, <2>2, <1>1, <1>9
<1>13. Histoire(g, W)
  BY <1>11, <1>12 DEF Histoire
<1> QED BY <1>13 DEF W, g

-----------------------------------------------------------------------------
(* The steps.                                                              *)

\* A record of differences, when there is one.
LEMMA DifferencesDit ==
  ASSUME NEW t \in 1 .. MaxTicks, NEW w \in {0, 1}, Cadre
  PROVE  \/ /\ Differences(w, t) = <<>> /\ (~actif \/ snap = SansCliche)
         \/ \E r \in Recs : /\ Differences(w, t) = <<r>> /\ actif /\ snap # SansCliche
                            /\ r.k = "A" /\ r.fenetre = w /\ r.maj = Ecart(api, snap)
<1>1. CASE actif /\ snap # SansCliche
  <2> DEFINE r == Enr("A", t, w, Ecart(api, snap))
  <2>1. Differences(w, t) = <<r>>
    BY <1>1 DEF Differences, Ecart
  <2>2. r \in Recs
    BY EnrRecs, EcartMajs DEF Cadre
  <2>3. r.k = "A" /\ r.fenetre = w /\ r.maj = Ecart(api, snap)
    BY DEF Enr
  <2> HIDE DEF r
  <2> QED BY <1>1, <2>1, <2>2, <2>3
<1>2. CASE ~(actif /\ snap # SansCliche)
  BY <1>2 DEF Differences
<1> QED BY <1>1, <1>2

\* The file of a base just written.
LEMMA BasePosee ==
  ASSUME NEW t \in 1 .. MaxTicks, Cadre, Tete, ~base
  PROVE  LET g == fichier \o Base(t) IN
         /\ g \in Seq(Recs)
         /\ Rangs(g, "S") = {Len(fichier) + 1} /\ Rangs(g, "T") = {}
         /\ Len(fichier) + 1 \in DOMAIN g
         /\ Depart(g) = IF snap = SansCliche THEN api ELSE snap
         /\ Histoire(g, <<>>)
<1> DEFINE g == fichier \o Base(t)
           l == Len(fichier)
<1>1. fichier \in Seq(Recs) /\ l \in Nat
  BY DEF Cadre
<1>2. /\ Base(t) \in Seq(Recs) /\ Len(Base(t)) = 3
      /\ Base(t)[1].k = "S" /\ Base(t)[2].k = "D" /\ Base(t)[3].k = "P"
      /\ Base(t)[1].maj = IF snap = SansCliche THEN api ELSE snap
  BY BaseDit DEF Cadre
<1>3. /\ g \in Seq(Recs) /\ Len(g) = l + 3
      /\ \A i \in 1 .. l + 3 : g[i] = IF i <= l THEN fichier[i] ELSE Base(t)[i - l]
  <2> HIDE DEF l
  <2>1. /\ g \in Seq(Recs) /\ Len(g) = Len(fichier) + Len(Base(t))
        /\ \A i \in 1 .. Len(fichier) + Len(Base(t)) :
             g[i] = IF i <= Len(fichier) THEN fichier[i] ELSE Base(t)[i - Len(fichier)]
    BY <1>1, <1>2, ConcatProperties
  <2> HIDE DEF g
  <2> QED BY <1>2, <2>1 DEF l
<1>4. Rangs(fichier, "S") = {} /\ Rangs(fichier, "T") = {}
  BY DEF Tete
<1> HIDE DEF g
<1>5. DOMAIN g = 1 .. l + 3 /\ DOMAIN fichier = 1 .. l
  BY <1>1, <1>3, LenProperties
<1>6. g[l + 1] = Base(t)[1] /\ g[l + 2] = Base(t)[2] /\ g[l + 3] = Base(t)[3]
  BY <1>1, <1>3
<1>7. \A i \in 1 .. l : g[i].k # "S" /\ g[i].k # "T"
  <2>1. \A i \in 1 .. l : fichier[i].k # "S" /\ fichier[i].k # "T"
    BY <1>4, <1>5 DEF Rangs
  <2> QED BY <2>1, <1>1, <1>3
<1>8. \A i \in 1 .. l + 3 : i \in 1 .. l \/ i = l + 1 \/ i = l + 2 \/ i = l + 3
  BY <1>1
<1>9. l + 1 \in 1 .. l + 3
  BY <1>1
<1>10. Rangs(g, "S") = {l + 1} /\ Rangs(g, "T") = {}
  BY <1>2, <1>5, <1>6, <1>7, <1>8, <1>9 DEF Rangs
<1>11. Dernier(Rangs(g, "S")) = l + 1
  <2>1. {l + 1} \in SUBSET Nat /\ IsFiniteSet({l + 1}) /\ {l + 1} # {}
    <3> HIDE DEF l
    <3>1. IsFiniteSet({l + 1})
      BY FS_Singleton
    <3> QED BY <1>1, <3>1
  <2>2. Dernier({l + 1}) \in {l + 1}
    BY <2>1, DernierDit
  <2> QED BY <2>2, <1>10
<1>12. Depart(g) = IF snap = SansCliche THEN api ELSE snap
  BY <1>2, <1>6, <1>10, <1>11 DEF Depart
<1>13. Histoire(g, <<>>)
  <2>1. \A q : TickDe(g, q) = 0
    BY <1>10, FS_EmptySet DEF TickDe, Avant
  <2>2. 1 .. Len(<<>>) = {}
    OBVIOUS
  <2>3. \A q \in Rangs(g, "A") : ~(TickDe(g, q) >= 1)
    BY <2>1
  <2> HIDE DEF l
  <2> QED BY <2>2, <2>3 DEF Histoire
<1> QED BY <1>3, <1>5, <1>9, <1>10, <1>12, <1>13 DEF g

\* The file of a tick just received.
LEMMA TickPose ==
  ASSUME NEW t \in 1 .. MaxTicks, Cadre, Tete, Fidele, actif, pc = "entre"
  PROVE  LET g == fichier \o EnregTick(t) \o Differences(0, t) IN
         /\ g \in Seq(Recs)
         /\ \E s \in DOMAIN g : Rangs(g, "S") = {s} /\ \A q \in Rangs(g, "T") : s < q
         /\ ~trou =>
              /\ \E W : Histoire(g, W) /\ Accord(vecu \o <<api>>, W, Surs)
              /\ Cardinality(Rangs(g, "T")) \in Nat \ {0}
              /\ Len(vecu) = 2 * Cardinality(Rangs(g, "T")) - 2
<1> DEFINE f == IF base THEN fichier ELSE fichier \o Base(t)
           T == Enr("T", t, 0, <<>>)
           h == f \o <<T>>
           g == fichier \o EnregTick(t) \o Differences(0, t)
           d == IF snap = SansCliche THEN api ELSE snap
           n == Cardinality(Rangs(f, "T"))
<1>1. fichier \in Seq(Recs) /\ vecu \in Seq(Ram) /\ api \in Ram /\ (snap = SansCliche \/ snap \in Ram)
  BY DEF Cadre
<1>2. T \in Recs /\ T.k = "T"
  BY EnrRecs, VideMajs DEF Enr
<1> HIDE DEF T
<1>3. Base(t) \in Seq(Recs)
  BY <1>1, BaseDit
<1>4. f \in Seq(Recs) /\ h \in Seq(Recs) /\ fichier \o EnregTick(t) = h
  <2>1. CASE base
    <3>1. EnregTick(t) = <<>> \o <<T>>
      BY <2>1 DEF EnregTick, T
    <3>2. <<>> \o <<T>> = <<T>> /\ <<T>> \in Seq(Recs)
      BY <1>2, ConcatEmptySeq
    <3> QED BY <1>1, <2>1, <3>1, <3>2, ConcatProperties
  <2>2. CASE ~base
    <3>1. EnregTick(t) = Base(t) \o <<T>>
      BY <2>2 DEF EnregTick, T
    <3>2. <<T>> \in Seq(Recs)
      BY <1>2
    <3>3. fichier \o (Base(t) \o <<T>>) = (fichier \o Base(t)) \o <<T>>
      BY <1>1, <1>3, <3>2, ConcatAssociative
    <3>4. fichier \o Base(t) \in Seq(Recs) /\ (fichier \o Base(t)) \o <<T>> \in Seq(Recs)
      BY <1>1, <1>3, <3>2, ConcatProperties
    <3> QED BY <2>2, <3>1, <3>3, <3>4
  <2> QED BY <2>1, <2>2
<1>5. PICK s \in DOMAIN f : Rangs(f, "S") = {s} /\ \A q \in Rangs(f, "T") : s < q
  <2>1. CASE base
    BY <2>1 DEF Tete
  <2>2. CASE ~base
    <3>1. /\ Rangs(f, "S") = {Len(fichier) + 1} /\ Rangs(f, "T") = {}
          /\ Len(fichier) + 1 \in DOMAIN f
      BY <2>2, BasePosee
    <3> QED BY <3>1
  <2> QED BY <2>1, <2>2
<1>6. ASSUME ~trou
      PROVE  /\ n \in Nat /\ Len(vecu) = 2 * n
             /\ \E W : /\ Histoire(f, W) /\ Accord(vecu, W, Surs)
                       /\ Attendu(f, W, Len(W) + 1) \in Ram
                       /\ Pareils(Attendu(f, W, Len(W) + 1), d, Surs)
                       /\ snap = SansCliche => Attendu(f, W, Len(W) + 1) = d
  <2>1. CASE base
    <3>1. PICK W : Histoire(fichier, W) /\ Accord(vecu, W, Surs)
      BY <1>6, <2>1 DEF Fidele
    <3>2. n >= 1 /\ Len(vecu) = 2 * n /\ Pareils(snap, Rom(vecu[Len(vecu)]), Surs)
      BY <1>6, <2>1 DEF Fidele, Suivi
    <3>3. n \in Nat
      BY <1>4, RangsFinis
    <3>4. snap # SansCliche /\ d = snap
      BY <2>1 DEF Cadre
    <3>5. W \in Seq(Ram) /\ Len(W) = Len(vecu)
      BY <3>1 DEF Accord
    <3>6. Len(vecu) + 1 # 1 /\ (Len(vecu) + 1) - 1 = Len(vecu) /\ Len(vecu) \in 1 .. Len(vecu)
      <4> HIDE DEF n
      <4> QED BY <3>2, <3>3
    <3> DEFINE v == vecu[Len(vecu)]
               w == W[Len(vecu)]
    <3>7. v \in Ram /\ w \in Ram
      BY <1>1, <3>5, <3>6, ElementOfSeq
    <3>8. Pareils(w, v, Surs)
      BY <3>1, <3>6 DEF Accord, Pareils
    <3>9. Attendu(f, W, Len(W) + 1) = Rom(w)
      BY <3>5, <3>6 DEF Attendu
    <3>10. Pareils(snap, Rom(v), Surs)
      BY <3>2
    <3> HIDE DEF v, w
    <3>11. Pareils(Rom(w), Rom(v), Surs)
      BY <3>7, <3>8, SursDit, RomPareils
    <3>12. Pareils(Rom(w), d, Surs)
      BY <3>4, <3>10, <3>11 DEF Pareils
    <3>13. Rom(w) \in Ram
      BY <3>7, RomRam
    <3> QED BY <2>1, <3>1, <3>2, <3>3, <3>4, <3>9, <3>12, <3>13
  <2>2. CASE ~base
    <3>1. vecu = <<>> /\ Len(vecu) = 0
      BY <2>2 DEF Tete
    <3>2. Rangs(f, "T") = {} /\ Depart(f) = d /\ Histoire(f, <<>>)
      BY <2>2, BasePosee
    <3>3. n = 0
      BY <3>2, FS_EmptySet
    <3>4. Len(vecu) = 2 * n /\ n \in Nat
      BY <3>1, <3>3
    <3>5. Attendu(f, vecu, Len(vecu) + 1) = d
      BY <3>1, <3>2 DEF Attendu
    <3>6. d \in Ram
      BY <1>1
    <3>7. Accord(vecu, vecu, Surs) /\ Histoire(f, vecu) /\ Pareils(d, d, Surs)
      BY <3>1, <3>2, <1>1 DEF Accord, Pareils
    <3> HIDE DEF d, n, f
    <3> QED BY <3>4, <3>5, <3>6, <3>7
  <2> QED BY <2>1, <2>2
<1> HIDE DEF f
<1>7. Rangs(h, "S") = Rangs(f, "S") /\ Rangs(h, "T") = Rangs(f, "T") \cup {Len(f) + 1}
  <2>1. f \in Seq(Recs) /\ T.k # "S"
    BY <1>2, <1>4
  <2>2. Rangs(h, "S") = Rangs(f, "S")
    BY <1>2, <2>1, AjoutRangs
  <2>3. Rangs(h, "T") = Rangs(f, "T") \cup {Len(f) + 1}
    BY <1>2, <2>1, AjoutRangs
  <2> QED BY <2>2, <2>3
<1>8. s \in 1 .. Len(f) /\ Len(f) \in Nat /\ Len(h) = Len(f) + 1
  BY <1>4, <1>5, <1>2, LenProperties, AjoutDit
<1>9. Cardinality(Rangs(h, "T")) = n + 1
  <2>1. IsFiniteSet(Rangs(f, "T")) /\ Len(f) + 1 \notin Rangs(f, "T")
    <3>1. Rangs(f, "T") \in SUBSET (1 .. Len(f)) /\ IsFiniteSet(Rangs(f, "T"))
      BY <1>4, RangsFinis
    <3>2. Len(f) + 1 \notin 1 .. Len(f)
      BY <1>8
    <3> QED BY <3>1, <3>2
  <2> QED BY <1>7, <2>1, FS_AddElement
<1>10. \A q \in Rangs(h, "T") : s < q
  BY <1>5, <1>7, <1>8
<1>11. ASSUME ~trou
       PROVE  \E W : /\ Histoire(h, W) /\ Accord(vecu, W, Surs)
                     /\ Attendu(h, W, Len(W) + 1) \in Ram
                     /\ Pareils(Attendu(h, W, Len(W) + 1), d, Surs)
                     /\ snap = SansCliche => Attendu(h, W, Len(W) + 1) = d
  <2>1. T.k \notin {"S", "A"} /\ T.k # "S"
    BY <1>2
  <2>2. PICK W : /\ Histoire(f, W) /\ Accord(vecu, W, Surs)
                 /\ Attendu(f, W, Len(W) + 1) \in Ram
                 /\ Pareils(Attendu(f, W, Len(W) + 1), d, Surs)
                 /\ snap = SansCliche => Attendu(f, W, Len(W) + 1) = d
    BY <1>6, <1>11
  <2> HIDE DEF d, n
  <2>3. Histoire(h, W)
    BY <2>1, <2>2, <1>2, <1>4, HistoireTick
  <2>4. \A j : Attendu(h, W, j) = Attendu(f, W, j)
    BY <2>1, <1>2, <1>4, AjoutPhase
  <2> HIDE DEF h
  <2> QED BY <2>2, <2>3, <2>4
<1>12. g = h \o Differences(0, t)
  BY <1>4
<1>13. CASE snap = SansCliche
  <2>1. Differences(0, t) = <<>>
    BY <1>13 DEF Differences
  <2>2. g = h
    BY <1>4, <1>12, <2>1, ConcatEmptySeq
  <2>3. ASSUME ~trou PROVE \E W : Histoire(h, W) /\ Accord(vecu \o <<api>>, W, Surs)
    <3>1. PICK W : /\ Histoire(h, W) /\ Accord(vecu, W, Surs)
                   /\ Attendu(h, W, Len(W) + 1) = api
      BY <1>11, <1>13, <2>3
    <3>2. W \in Seq(Ram)
      BY <3>1 DEF Accord
    <3> HIDE DEF h
    <3>3. Histoire(h, W \o <<api>>)
      BY <3>1, <3>2, <1>1, <1>4, HistoirePhase
    <3>4. Accord(vecu \o <<api>>, W \o <<api>>, Surs)
      <4>1. Pareils(api, api, Surs)
        BY DEF Pareils
      <4> QED BY <4>1, <3>1, <1>1, AccordPlus
    <3> QED BY <3>3, <3>4
  <2>4. s \in DOMAIN h
    BY <1>4, <1>8, LenProperties
  <2>5. ASSUME ~trou PROVE n + 1 \in Nat \ {0} /\ Len(vecu) = 2 * (n + 1) - 2
    <3> HIDE DEF n, d
    <3> QED BY <2>5, <1>6
  <2> HIDE DEF h, f, g, n
  <2> QED BY <2>2, <2>3, <2>4, <2>5, <1>4, <1>5, <1>7, <1>9, <1>10 DEF g
<1>14. CASE snap # SansCliche
  <2>1. PICK r \in Recs : /\ Differences(0, t) = <<r>>
                          /\ r.k = "A" /\ r.fenetre = 0 /\ r.maj = Ecart(api, snap)
    <3>1. 0 \in {0, 1}
      OBVIOUS
    <3> QED BY <1>14, <3>1, DifferencesDit
  <2>2. g = h \o <<r>>
    BY <1>12, <2>1
  <2>3. g \in Seq(Recs) /\ Rangs(g, "S") = {s} /\ Rangs(g, "T") = Rangs(h, "T") /\ Len(g) = Len(h) + 1
    <3> HIDE DEF h
    <3>1. r.k # "S" /\ r.k # "T"
      BY <2>1
    <3>2. h \o <<r>> \in Seq(Recs) /\ Len(h \o <<r>>) = Len(h) + 1
      BY <1>4, AjoutDit
    <3>3. Rangs(h \o <<r>>, "S") = Rangs(h, "S") /\ Rangs(h \o <<r>>, "T") = Rangs(h, "T")
      BY <3>1, <1>4, AjoutRangs
    <3> QED BY <2>2, <3>2, <3>3, <1>5, <1>7
  <2>4. ASSUME ~trou PROVE \E W : Histoire(g, W) /\ Accord(vecu \o <<api>>, W, Surs)
    <3>1. PICK W : /\ Histoire(h, W) /\ Accord(vecu, W, Surs)
                   /\ Attendu(h, W, Len(W) + 1) \in Ram
                   /\ Pareils(Attendu(h, W, Len(W) + 1), snap, Surs)
      BY <1>11, <1>14, <2>4
    <3>2. W \in Seq(Ram) /\ Len(W) = Len(vecu)
      BY <3>1 DEF Accord
    <3>3. 2 * Cardinality(Rangs(h, "T")) - 1 + r.fenetre = Len(W) + 1
      <4> HIDE DEF n, h
      <4> QED BY <1>6, <1>9, <2>1, <2>4, <3>2
    <3> DEFINE x == Ecrire(Attendu(h, W, Len(W) + 1), r.maj)
    <3>4. x \in Ram /\ Pareils(x, api, Surs)
      <4>1. r.maj = Ecart(api, snap) /\ snap \in Ram
        BY <2>1, <1>1, <1>14
      <4> HIDE DEF h
      <4> QED BY <4>1, <3>1, <1>1, SursDit, EcrireEcart
    <3>5. x = Ecrire(Attendu(h, W, Len(W) + 1), r.maj)
      OBVIOUS
    <3> HIDE DEF x, h
    <3>6. Histoire(h \o <<r>>, W \o <<x>>)
      BY <3>1, <3>2, <3>3, <3>4, <3>5, <2>1, <1>4, HistoireEcart
    <3>7. Accord(vecu \o <<api>>, W \o <<x>>, Surs)
      BY <3>1, <3>4, <1>1, AccordPlus
    <3> QED BY <3>6, <3>7, <2>2
  <2>5. s \in DOMAIN g
    BY <2>3, <1>8, LenProperties
  <2>6. ASSUME ~trou PROVE n + 1 \in Nat \ {0} /\ Len(vecu) = 2 * (n + 1) - 2
    <3> HIDE DEF n, d
    <3> QED BY <2>6, <1>6
  <2> HIDE DEF h, f, g, n
  <2> QED BY <2>3, <2>4, <2>5, <2>6, <1>9, <1>10 DEF g
<1> QED BY <1>13, <1>14

\* The file of a GO just received.
LEMMA GoPose ==
  ASSUME Cadre, Tete, Fidele, pc = "l1sync"
  PROVE  LET g == fichier \o Differences(1, tick) IN
         /\ g \in Seq(Recs)
         /\ Rangs(g, "S") = Rangs(fichier, "S") /\ Rangs(g, "T") = Rangs(fichier, "T")
         /\ DOMAIN fichier \subseteq DOMAIN g
         /\ base /\ actif /\ ~trou => \E W : Histoire(g, W) /\ Accord(vecu \o <<api>>, W, Surs)
<1> DEFINE g == fichier \o Differences(1, tick)
           n == Cardinality(Rangs(fichier, "T"))
<1>1. /\ fichier \in Seq(Recs) /\ vecu \in Seq(Ram) /\ api \in Ram /\ (snap = SansCliche \/ snap \in Ram)
      /\ tick \in 1 .. MaxTicks /\ Len(fichier) \in Nat /\ DOMAIN fichier = 1 .. Len(fichier)
  <2>1. tick \in 0 .. MaxTicks /\ tick >= 1
    BY DEF Cadre
  <2> QED BY <2>1, LenProperties DEF Cadre
<1>2. CASE Differences(1, tick) = <<>> /\ (~actif \/ snap = SansCliche)
  <2>1. g = fichier
    BY <1>1, <1>2, ConcatEmptySeq
  <2>2. ~(base /\ actif)
    BY <1>2 DEF Cadre
  <2> HIDE DEF g
  <2> QED BY <2>1, <2>2, <1>1 DEF g
<1>3. ASSUME NEW r \in Recs, Differences(1, tick) = <<r>>, actif, snap # SansCliche,
             r.k = "A", r.fenetre = 1, r.maj = Ecart(api, snap)
      PROVE  /\ g \in Seq(Recs)
             /\ Rangs(g, "S") = Rangs(fichier, "S") /\ Rangs(g, "T") = Rangs(fichier, "T")
             /\ DOMAIN fichier \subseteq DOMAIN g
             /\ base /\ actif /\ ~trou => \E W : Histoire(g, W) /\ Accord(vecu \o <<api>>, W, Surs)
  <2>1. g = fichier \o <<r>>
    BY <1>3
  <2> HIDE DEF g
  <2>2. g \in Seq(Recs) /\ Len(g) = Len(fichier) + 1
    BY <2>1, <1>1, AjoutDit
  <2>3. r.k # "S" /\ r.k # "T"
    BY <1>3
  <2>4. Rangs(g, "S") = Rangs(fichier, "S") /\ Rangs(g, "T") = Rangs(fichier, "T")
    BY <2>1, <2>3, <1>1, AjoutRangs
  <2>5. DOMAIN fichier \subseteq DOMAIN g
    <3>1. DOMAIN g = 1 .. Len(g)
      BY <2>2, LenProperties
    <3> QED BY <3>1, <2>2, <1>1
  <2>6. ASSUME base, ~trou PROVE \E W : Histoire(g, W) /\ Accord(vecu \o <<api>>, W, Surs)
    <3>1. n >= 1 /\ Len(vecu) = 2 * n - 1 /\ Pareils(snap, Rom(vecu[Len(vecu)]), Surs)
      BY <2>6 DEF Fidele, Suivi
    <3>2. PICK W : Histoire(fichier, W) /\ Accord(vecu, W, Surs)
      BY <2>6 DEF Fidele
    <3>3. n \in Nat
      BY <1>1, RangsFinis
    <3> HIDE DEF n
    <3>4. W \in Seq(Ram) /\ Len(W) = Len(vecu) /\ snap \in Ram
      BY <3>2, <1>1, <1>3 DEF Accord
    <3>5. Len(vecu) + 1 # 1 /\ (Len(vecu) + 1) - 1 = Len(vecu) /\ Len(vecu) \in 1 .. Len(vecu)
      BY <3>1, <3>3
    <3> DEFINE v == vecu[Len(vecu)]
               w == W[Len(vecu)]
               x == Ecrire(Rom(w), r.maj)
    <3>6. v \in Ram /\ w \in Ram
      BY <1>1, <3>4, <3>5, ElementOfSeq
    <3>7. Pareils(w, v, Surs)
      BY <3>2, <3>5 DEF Accord, Pareils
    <3>8. Attendu(fichier, W, Len(W) + 1) = Rom(w)
      BY <3>4, <3>5 DEF Attendu
    <3>9. Pareils(snap, Rom(v), Surs)
      BY <3>1
    <3>10. x = Ecrire(Attendu(fichier, W, Len(W) + 1), r.maj)
      BY <3>8
    <3> HIDE DEF v, w
    <3>11. Pareils(Rom(w), snap, Surs)
      <4>1. Pareils(Rom(w), Rom(v), Surs)
        BY <3>6, <3>7, SursDit, RomPareils
      <4> QED BY <4>1, <3>9 DEF Pareils
    <3>12. x \in Ram /\ Pareils(x, api, Surs)
      BY <3>4, <3>6, <3>11, <1>1, <1>3, SursDit, RomRam, EcrireEcart
    <3>13. 2 * n - 1 + r.fenetre = Len(W) + 1
      BY <1>3, <3>1, <3>3, <3>4
    <3> HIDE DEF x
    <3>14. Histoire(fichier \o <<r>>, W \o <<x>>)
      BY <3>2, <3>4, <3>10, <3>12, <3>13, <1>1, <1>3, HistoireEcart DEF n
    <3>15. Accord(vecu \o <<api>>, W \o <<x>>, Surs)
      BY <3>2, <3>12, <1>1, AccordPlus
    <3> QED BY <3>14, <3>15, <2>1
  <2> QED BY <2>2, <2>4, <2>5, <2>6
<1>4. 1 \in {0, 1}
  OBVIOUS
<1> HIDE DEF g
<1>5. /\ g \in Seq(Recs)
      /\ Rangs(g, "S") = Rangs(fichier, "S") /\ Rangs(g, "T") = Rangs(fichier, "T")
      /\ DOMAIN fichier \subseteq DOMAIN g
      /\ base /\ actif /\ ~trou => \E W : Histoire(g, W) /\ Accord(vecu \o <<api>>, W, Surs)
  <2>1. CASE Differences(1, tick) = <<>> /\ (~actif \/ snap = SansCliche)
    BY <2>1, <1>2 DEF g
  <2>2. CASE ~(Differences(1, tick) = <<>> /\ (~actif \/ snap = SansCliche))
    <3>1. PICK r \in Recs : /\ Differences(1, tick) = <<r>> /\ actif /\ snap # SansCliche
                            /\ r.k = "A" /\ r.fenetre = 1 /\ r.maj = Ecart(api, snap)
      BY <2>2, <1>1, <1>4, DifferencesDit
    <3> QED BY <3>1, <1>3
  <2> QED BY <2>1, <2>2
<1> QED BY <1>5 DEF g

\* The two phases of a frame played at once.
LEMMA DeuxPhases ==
  ASSUME NEW V \in Seq(Ram), NEW a \in Ram, NEW b \in Ram
  PROVE  /\ V \o <<a, b>> = (V \o <<a>>) \o <<b>>
         /\ V \o <<a>> \in Seq(Ram) /\ Len(V \o <<a>>) = Len(V) + 1 /\ (V \o <<a>>)[Len(V) + 1] = a
         /\ V \o <<a, b>> \in Seq(Ram) /\ Len(V \o <<a, b>>) = Len(V) + 2
         /\ (V \o <<a, b>>)[Len(V) + 2] = b /\ Len(V) \in Nat
<1>1. <<a>> \in Seq(Ram) /\ <<b>> \in Seq(Ram) /\ <<a>> \o <<b>> = <<a, b>>
  <2>1. <<a>> \in Seq(Ram) /\ <<b>> \in Seq(Ram) /\ <<a, b>> \in Seq(Ram)
    OBVIOUS
  <2>2. Len(<<a>> \o <<b>>) = 2 /\ (<<a>> \o <<b>>)[1] = a /\ (<<a>> \o <<b>>)[2] = b
    OBVIOUS
  <2>3. Len(<<a, b>>) = 2 /\ <<a, b>>[1] = a /\ <<a, b>>[2] = b
    OBVIOUS
  <2>4. <<a>> \o <<b>> \in Seq(Ram)
    BY <2>1, ConcatProperties
  <2>5. \A i \in 1 .. 2 : i = 1 \/ i = 2
    OBVIOUS
  <2>6. \A i \in 1 .. 2 : (<<a>> \o <<b>>)[i] = <<a, b>>[i]
    BY <2>2, <2>3, <2>5
  <2> QED BY <2>1, <2>2, <2>3, <2>4, <2>6, SeqEqual
<1>2. (V \o <<a>>) \o <<b>> = V \o (<<a>> \o <<b>>)
  BY <1>1, ConcatAssociative
<1>3. /\ V \o <<a>> \in Seq(Ram) /\ Len(V \o <<a>>) = Len(V) + 1 /\ (V \o <<a>>)[Len(V) + 1] = a
      /\ Len(V) \in Nat
  OBVIOUS
<1>4. /\ V \o <<a, b>> \in Seq(Ram) /\ Len(V \o <<a, b>>) = Len(V) + 2
      /\ (V \o <<a, b>>)[Len(V) + 2] = b
  OBVIOUS
<1> QED BY <1>1, <1>2, <1>3, <1>4

\* The words a write without a record has reached stay so.
LEMMA DeriverMoins ==
  ASSUME derive \subseteq Mots, NEW mots \in SUBSET Mots, Deriver(mots)
  PROVE  /\ derive' \in SUBSET Mots /\ Surs' \in SUBSET Surs /\ Surs' \in SUBSET Mots
         /\ base' => Surs' \cap mots = {}
         /\ Surs' # {} => Commande \in Surs'
<1>1. derive \subseteq derive' /\ derive' \in SUBSET Mots /\ (base' => mots \subseteq derive')
  BY DEF Deriver
<1>2. \A m : m \in Surs' <=> m \in Mots /\ m \notin derive' /\ Commande \notin derive'
  BY DEF Surs
<1>3. \A m : m \in Surs <=> m \in Mots /\ m \notin derive /\ Commande \notin derive
  BY DEF Surs
<1>4. Commande \in Mots
  BY DEF Mots
<1> QED BY <1>1, <1>2, <1>3, <1>4

LEMMA PontDerive ==
  ASSUME Cadre, NEW mots \in SUBSET Mots, PontEcrit(mots)
  PROVE  /\ derive' \in SUBSET Mots /\ Surs' \in SUBSET Surs /\ Surs' \in SUBSET Mots
         /\ base' => Surs' \cap mots = {}
         /\ Surs' # {} => Commande \in Surs'
         /\ compte' \in [ecrits: 0 .. MaxEcrits, tch: 0 .. MaxTch]
<1>1. derive \subseteq Mots /\ Deriver(mots)
  BY DEF Cadre, PontEcrit
<1>2. compte' \in [ecrits: 0 .. MaxEcrits, tch: 0 .. MaxTch]
  <2>1. CASE mots = {}
    BY <2>1 DEF PontEcrit, Cadre
  <2>2. CASE mots # {}
    <3>1. compte.ecrits \in 0 .. MaxEcrits /\ compte.ecrits < MaxEcrits /\ MaxEcrits \in Nat
      BY <2>2, EnregAssumption DEF PontEcrit, Cadre
    <3>2. compte.ecrits + 1 \in 0 .. MaxEcrits
      BY <3>1
    <3> QED BY <2>2, <3>2 DEF PontEcrit, Cadre
  <2> QED BY <2>1, <2>2
<1> QED BY <1>1, <1>2, DeriverMoins

LEMMA EcartesMots == \A a, b : Ecartes(a, b) \in SUBSET Mots
BY DEF Ecartes

\* What a tick leaves.
LEMMA TickLaisse ==
  ASSUME Cadre, NEW deux \in BOOLEAN, TickRecu(deux)
  PROVE  /\ derive' \in SUBSET Mots /\ Surs' \in SUBSET Surs /\ Surs' \in SUBSET Mots
         /\ Surs' # {} => Commande \in Surs'
         /\ compte' \in [ecrits: 0 .. MaxEcrits, tch: 0 .. MaxTch]
         /\ pc' = (IF deux THEN "l1sync" ELSE "entre")
         /\ api' \in Ram /\ snap' = api'
         /\ deux => /\ vecu' = (IF base' THEN vecu \o <<api>> ELSE vecu)
                    /\ api' = Rom(api)
         /\ ~deux => \E milieu \in Ram :
                       /\ vecu' = (IF base' THEN vecu \o <<api, milieu>> ELSE vecu)
                       /\ base' => Pareils(milieu, Rom(api), Surs')
                       /\ base' => Pareils(api', Rom(milieu), Surs')
<1>1. api \in Ram /\ Rom(api) \in Ram /\ derive \in SUBSET Mots
  BY RomRam DEF Cadre
<1>2. CASE deux
  <2>1. /\ pc' = "l1sync" /\ api' = Rom(api) /\ snap' = api' /\ derive' = derive /\ compte' = compte
        /\ vecu' = (IF base' THEN vecu \o <<api>> ELSE vecu)
    BY <1>2 DEF TickRecu, TickDeuxPhases, Vivre
  <2>2. Surs' = Surs
    BY <2>1 DEF Surs
  <2>3. compte' \in [ecrits: 0 .. MaxEcrits, tch: 0 .. MaxTch]
    BY <2>1 DEF Cadre
  <2> QED BY <1>1, <1>2, <2>1, <2>2, <2>3, SursDit
<1>3. CASE ~deux
  <2>1. PICK milieu \in Ram, fin \in Ram :
          /\ PontEcrit(Ecartes(milieu, Rom(api)) \cup Ecartes(fin, Rom(milieu)))
          /\ Vivre(<<api, milieu>>)
          /\ api' = fin /\ snap' = fin
    BY <1>3 DEF TickRecu, TickUnePhase
  <2> DEFINE mots == Ecartes(milieu, Rom(api)) \cup Ecartes(fin, Rom(milieu))
  <2>2. mots \in SUBSET Mots
    BY EcartesMots
  <2>3. /\ derive' \in SUBSET Mots /\ Surs' \in SUBSET Surs /\ Surs' \in SUBSET Mots
        /\ base' => Surs' \cap mots = {}
        /\ Surs' # {} => Commande \in Surs'
        /\ compte' \in [ecrits: 0 .. MaxEcrits, tch: 0 .. MaxTch]
    BY <2>1, <2>2, PontDerive
  <2>4. ASSUME base'
        PROVE  Pareils(milieu, Rom(api), Surs') /\ Pareils(fin, Rom(milieu), Surs')
    <3>1. Surs' \cap Ecartes(milieu, Rom(api)) = {} /\ Surs' \cap Ecartes(fin, Rom(milieu)) = {}
      BY <2>3, <2>4
    <3> QED BY <3>1, <2>3, EcartesPareils
  <2>5. pc' = "entre" /\ vecu' = (IF base' THEN vecu \o <<api, milieu>> ELSE vecu)
    BY <2>1, <1>3 DEF TickRecu, TickUnePhase, Vivre
  <2> HIDE DEF mots
  <2> QED BY <1>3, <2>1, <2>3, <2>4, <2>5
<1> QED BY <1>2, <1>3

LEMMA TickInv == ASSUME IInv, NEW deux \in BOOLEAN, TickRecu(deux) PROVE IInv'
<1>1. Cadre /\ Tete /\ Fidele
  BY DEF IInv
<1>2. /\ api \in Ram /\ Rom(api) \in Ram /\ vecu \in Seq(Ram) /\ fichier \in Seq(Recs)
      /\ MaxTicks \in Nat
  BY <1>1, RomRam, EnregAssumption DEF Cadre
<1>3. tick + 1 \in 1 .. MaxTicks
  BY <1>1, <1>2 DEF Cadre, TickRecu
<1>4. pc = "entre"
  BY DEF TickRecu
<1> DEFINE g == fichier \o EnregTick(tick + 1) \o Differences(0, tick + 1)
<1>5. /\ fichier' = g /\ base' = (base \/ actif) /\ tick' = tick + 1
      /\ trou' = (trou \/ (base /\ ~actif)) /\ UNCHANGED actif
  BY DEF TickRecu, Fermer
<1>7. /\ derive' \in SUBSET Mots /\ Surs' \in SUBSET Surs /\ Surs' \in SUBSET Mots
      /\ Surs' # {} => Commande \in Surs'
      /\ compte' \in [ecrits: 0 .. MaxEcrits, tch: 0 .. MaxTch]
      /\ pc' = (IF deux THEN "l1sync" ELSE "entre")
      /\ api' \in Ram /\ snap' = api'
      /\ deux => /\ vecu' = (IF base' THEN vecu \o <<api>> ELSE vecu)
                 /\ api' = Rom(api)
      /\ ~deux => \E milieu \in Ram :
                    /\ vecu' = (IF base' THEN vecu \o <<api, milieu>> ELSE vecu)
                    /\ base' => Pareils(milieu, Rom(api), Surs')
                    /\ base' => Pareils(api', Rom(milieu), Surs')
  BY <1>1, TickLaisse
<1>9. ASSUME actif
      PROVE  /\ g \in Seq(Recs)
             /\ \E s \in DOMAIN g : Rangs(g, "S") = {s} /\ \A q \in Rangs(g, "T") : s < q
             /\ ~trou =>
                  /\ \E W : Histoire(g, W) /\ Accord(vecu \o <<api>>, W, Surs)
                  /\ Cardinality(Rangs(g, "T")) \in Nat \ {0}
                  /\ Len(vecu) = 2 * Cardinality(Rangs(g, "T")) - 2
  BY <1>1, <1>3, <1>4, <1>9, TickPose
<1>10. ASSUME ~actif PROVE g = fichier
  <2>1. EnregTick(tick + 1) = <<>> /\ Differences(0, tick + 1) = <<>>
    BY <1>10 DEF EnregTick, Differences
  <2> QED BY <2>1, <1>2, ConcatEmptySeq
<1> HIDE DEF g
<1>11. g \in Seq(Recs)
  BY <1>2, <1>9, <1>10
<1>12. Cadre'
  <2>1. vecu' \in Seq(Ram)
    <3>1. vecu \o <<api>> \in Seq(Ram) /\ \A b \in Ram : vecu \o <<api, b>> \in Seq(Ram)
      BY <1>2, DeuxPhases
    <3> QED BY <1>2, <1>7, <3>1
  <2>2. tick' \in 0 .. MaxTicks /\ tick' >= 1
    BY <1>2, <1>3, <1>5
  <2>3. snap' \in Ram /\ snap' # SansCliche
    BY <1>7, RamPleine
  <2> QED BY <1>1, <1>2, <1>5, <1>7, <1>11, <2>1, <2>2, <2>3 DEF Cadre
<1>13. Tete'
  <2>1. CASE actif
    BY <1>5, <1>9, <2>1 DEF Tete
  <2>2. CASE ~actif
    <3>1. ~base' => vecu' = vecu
      BY <1>7
    <3> QED BY <1>1, <1>5, <1>10, <2>2, <3>1 DEF Tete
  <2> QED BY <2>1, <2>2
<1>14. Fidele'
  <2> SUFFICES ASSUME base', ~trou'
               PROVE  (\E W : Histoire(fichier', W) /\ Accord(vecu', W, Surs')) /\ Suivi'
    BY DEF Fidele
  <2>1. actif /\ ~trou
    BY <1>5
  <2> DEFINE n == Cardinality(Rangs(g, "T"))
  <2>2. n \in Nat \ {0} /\ Len(vecu) = 2 * n - 2
    BY <1>9, <2>1
  <2>6. PICK W : Histoire(g, W) /\ Accord(vecu \o <<api>>, W, Surs)
    BY <1>9, <2>1
  <2>7. W \in Seq(Ram) /\ Len(W) = Len(vecu) + 1
    <3>1. Len(vecu \o <<api>>) = Len(vecu) + 1
      BY <1>2, DeuxPhases
    <3> QED BY <2>6, <3>1 DEF Accord
  <2>8. Accord(vecu \o <<api>>, W, Surs')
    BY <2>6, <1>7 DEF Accord
  <2>5. Cardinality(Rangs(fichier', "T")) = n
    BY <1>5
  <2> HIDE DEF n
  <2>3. CASE deux
    <3>1. vecu' = vecu \o <<api>> /\ pc' = "l1sync" /\ snap' = Rom(api)
      BY <1>7, <2>3
    <3>2. Len(vecu') = Len(vecu) + 1 /\ vecu'[Len(vecu) + 1] = api
      BY <1>2, <3>1, DeuxPhases
    <3>3. Len(vecu') = 2 * n - 1 /\ snap' = Rom(vecu'[Len(vecu')])
      BY <3>1, <2>2, <3>2
    <3>4. Suivi'
      <4>1. Pareils(snap', Rom(vecu'[Len(vecu')]), Surs')
        BY <3>3 DEF Pareils
      <4> QED BY <4>1, <2>2, <2>5, <3>1, <3>3 DEF Suivi
    <3> QED BY <3>1, <3>4, <2>6, <2>8, <1>5
  <2>4. CASE ~deux
    <3> DEFINE V == vecu \o <<api>>
               x == W[Len(vecu) + 1]
    <3>1. PICK milieu \in Ram : /\ vecu' = vecu \o <<api, milieu>>
                                /\ Pareils(milieu, Rom(api), Surs')
                                /\ Pareils(api', Rom(milieu), Surs')
      BY <1>7, <2>4
    <3>2. /\ V \in Seq(Ram) /\ Len(V) = Len(vecu) + 1 /\ V[Len(vecu) + 1] = api /\ Len(vecu) \in Nat
          /\ Len(vecu') = Len(vecu) + 2 /\ vecu'[Len(vecu) + 2] = milieu
          /\ vecu' = V \o <<milieu>>
      BY <1>2, <3>1, DeuxPhases
    <3>3. Accord(V, W, Surs')
      BY <2>8
    <3> HIDE DEF V
    <3>4. Len(vecu) + 1 \in 1 .. Len(V) /\ Len(vecu) + 1 \in 1 .. Len(W)
      BY <3>2, <2>7
    <3>5. x \in Ram /\ Pareils(x, api, Surs')
      <4>1. x \in Ram
        BY <2>7, <3>4, ElementOfSeq
      <4>2. Pareils(x, api, Surs')
        BY <3>2, <3>3, <3>4 DEF Accord, Pareils
      <4> QED BY <4>1, <4>2
    <3>6. Attendu(g, W, Len(W) + 1) = Rom(x)
      <4>1. Len(W) + 1 # 1 /\ (Len(W) + 1) - 1 = Len(vecu) + 1
        BY <2>7, <3>2
      <4> QED BY <4>1 DEF Attendu
    <3> HIDE DEF x
    <3>7. Rom(x) \in Ram /\ Pareils(Rom(x), milieu, Surs')
      <4>1. Pareils(Rom(x), Rom(api), Surs') /\ Rom(x) \in Ram
        BY <3>5, <1>2, <1>7, RomPareils, RomRam
      <4> QED BY <4>1, <3>1 DEF Pareils
    <3>8. Histoire(g, W \o <<Rom(x)>>)
      BY <1>11, <2>6, <2>7, <3>6, <3>7, HistoirePhase
    <3>9. Accord(V \o <<milieu>>, W \o <<Rom(x)>>, Surs')
      BY <3>1, <3>2, <3>3, <3>7, AccordPlus
    <3>10. Len(vecu') = 2 * n /\ Len(vecu') = Len(vecu) + 2
      BY <2>2, <3>2
    <3>11. pc' = "entre" /\ Pareils(snap', Rom(vecu'[Len(vecu')]), Surs')
      BY <1>7, <2>4, <3>1, <3>2, <3>10
    <3>12. Suivi'
      BY <2>2, <2>5, <3>10, <3>11 DEF Suivi
    <3> QED BY <3>2, <3>8, <3>9, <3>12, <1>5
  <2> QED BY <2>3, <2>4
<1> QED BY <1>12, <1>13, <1>14 DEF IInv

\* What the second half of a frame leaves.
LEMMA GoLaisse ==
  ASSUME Cadre, GoRecu
  PROVE  /\ derive' \in SUBSET Mots /\ Surs' \in SUBSET Surs /\ Surs' \in SUBSET Mots
         /\ compte' \in [ecrits: 0 .. MaxEcrits, tch: 0 .. MaxTch]
         /\ \E milieu \in Ram :
              /\ vecu' = (IF base' THEN vecu \o <<milieu>> ELSE vecu)
              /\ base' => Pareils(milieu, api, Surs')
              /\ api' \in Ram
              /\ \/ /\ snap' = api' /\ pc' = "entre"
                    /\ base' => Pareils(api', Rom(milieu), Surs')
                 \/ snap' = snap /\ api' = milieu /\ pc' = "reste"
<1>1. PICK milieu \in Ram, fin \in Ram :
        /\ Vivre(<<milieu>>)
        /\ \/ /\ pc' = "entre"
              /\ PontEcrit(Ecartes(milieu, api) \cup Ecartes(fin, Rom(milieu)))
              /\ api' = fin /\ snap' = fin
           \/ /\ pc' = "reste"
              /\ PontEcrit(Ecartes(milieu, api))
              /\ api' = milieu /\ UNCHANGED snap
  BY DEF GoRecu
<1>2. vecu' = (IF base' THEN vecu \o <<milieu>> ELSE vecu)
  BY <1>1 DEF Vivre
<1>3. CASE /\ pc' = "entre"
           /\ PontEcrit(Ecartes(milieu, api) \cup Ecartes(fin, Rom(milieu)))
           /\ api' = fin /\ snap' = fin
  <2> DEFINE mots == Ecartes(milieu, api) \cup Ecartes(fin, Rom(milieu))
  <2>1. mots \in SUBSET Mots
    BY EcartesMots
  <2>2. /\ derive' \in SUBSET Mots /\ Surs' \in SUBSET Surs /\ Surs' \in SUBSET Mots
        /\ base' => Surs' \cap mots = {}
        /\ compte' \in [ecrits: 0 .. MaxEcrits, tch: 0 .. MaxTch]
    BY <1>3, <2>1, PontDerive
  <2>3. ASSUME base'
        PROVE  Pareils(milieu, api, Surs') /\ Pareils(fin, Rom(milieu), Surs')
    <3>1. Surs' \cap Ecartes(milieu, api) = {} /\ Surs' \cap Ecartes(fin, Rom(milieu)) = {}
      BY <2>2, <2>3
    <3> QED BY <3>1, <2>2, EcartesPareils
  <2> HIDE DEF mots
  <2> QED BY <1>2, <1>3, <2>2, <2>3
<1>4. CASE /\ pc' = "reste"
           /\ PontEcrit(Ecartes(milieu, api))
           /\ api' = milieu /\ UNCHANGED snap
  <2> DEFINE mots == Ecartes(milieu, api)
  <2>1. mots \in SUBSET Mots
    BY EcartesMots
  <2>2. /\ derive' \in SUBSET Mots /\ Surs' \in SUBSET Surs /\ Surs' \in SUBSET Mots
        /\ base' => Surs' \cap mots = {}
        /\ compte' \in [ecrits: 0 .. MaxEcrits, tch: 0 .. MaxTch]
    BY <1>4, <2>1, PontDerive
  <2>3. ASSUME base' PROVE Pareils(milieu, api, Surs')
    BY <2>2, <2>3, EcartesPareils
  <2> HIDE DEF mots
  <2> QED BY <1>2, <1>4, <2>2, <2>3
<1> QED BY <1>1, <1>3, <1>4

LEMMA GoInv == ASSUME IInv, GoRecu PROVE IInv'
<1>1. Cadre /\ Tete /\ Fidele
  BY DEF IInv
<1>2. api \in Ram /\ vecu \in Seq(Ram) /\ fichier \in Seq(Recs) /\ Len(vecu) \in Nat
  BY <1>1, LenProperties DEF Cadre
<1> DEFINE g == fichier \o Differences(1, tick)
<1>4. pc = "l1sync"
  BY DEF GoRecu
<1>5. fichier' = g /\ trou' = (trou \/ (base /\ ~actif)) /\ UNCHANGED <<actif, base, tick>>
  BY DEF GoRecu, Fermer
<1>6. /\ g \in Seq(Recs)
      /\ Rangs(g, "S") = Rangs(fichier, "S") /\ Rangs(g, "T") = Rangs(fichier, "T")
      /\ DOMAIN fichier \subseteq DOMAIN g
      /\ base /\ actif /\ ~trou => \E W : Histoire(g, W) /\ Accord(vecu \o <<api>>, W, Surs)
  BY <1>1, <1>4, GoPose
<1> HIDE DEF g
<1>3. /\ derive' \in SUBSET Mots /\ Surs' \in SUBSET Surs /\ Surs' \in SUBSET Mots
      /\ compte' \in [ecrits: 0 .. MaxEcrits, tch: 0 .. MaxTch]
  BY <1>1, GoLaisse
<1>7. PICK milieu \in Ram :
        /\ vecu' = (IF base' THEN vecu \o <<milieu>> ELSE vecu)
        /\ base' => Pareils(milieu, api, Surs')
        /\ api' \in Ram
        /\ \/ /\ snap' = api' /\ pc' = "entre"
              /\ base' => Pareils(api', Rom(milieu), Surs')
           \/ snap' = snap /\ api' = milieu /\ pc' = "reste"
  BY <1>1, GoLaisse
<1>8. Cadre'
  <2>1. vecu' \in Seq(Ram)
    <3>1. vecu \o <<milieu>> \in Seq(Ram)
      BY <1>2, DeuxPhases
    <3> QED BY <1>2, <1>7, <3>1
  <2>2. tick >= 1
    BY <1>1, <1>4 DEF Cadre
  <2>3. (snap' = SansCliche \/ snap' \in Ram) /\ (base' => snap' # SansCliche)
    BY <1>1, <1>5, <1>7, RamPleine DEF Cadre
  <2> QED BY <1>1, <1>3, <1>5, <1>6, <1>7, <2>1, <2>2, <2>3 DEF Cadre
<1>9. Tete'
  <2>1. ASSUME ~base PROVE vecu' = vecu
    BY <2>1, <1>7, <1>5
  <2> QED BY <1>1, <1>5, <1>6, <2>1 DEF Tete
<1>10. Fidele'
  <2> SUFFICES ASSUME base', ~trou'
               PROVE  (\E W : Histoire(fichier', W) /\ Accord(vecu', W, Surs')) /\ Suivi'
    BY DEF Fidele
  <2>1. base /\ actif /\ ~trou
    BY <1>5
  <2> DEFINE n == Cardinality(Rangs(fichier, "T"))
             V == vecu \o <<api>>
  <2>2. n >= 1 /\ Len(vecu) = 2 * n - 1
    BY <1>1, <1>4, <2>1 DEF Fidele, Suivi
  <2>3. n \in Nat
    BY <1>2, RangsFinis
  <2>4. Cardinality(Rangs(fichier', "T")) = n
    BY <1>5, <1>6
  <2> HIDE DEF n
  <2>5. PICK W : Histoire(g, W) /\ Accord(V, W, Surs)
    BY <1>6, <2>1
  <2>6. vecu' = vecu \o <<milieu>> /\ Pareils(milieu, api, Surs')
    BY <1>7
  <2>7. /\ V \in Seq(Ram) /\ Len(V) = Len(vecu) + 1 /\ V[Len(vecu) + 1] = api
        /\ \A i \in 1 .. Len(vecu) : V[i] = vecu[i]
    BY <1>2
  <2>8. /\ vecu' \in Seq(Ram) /\ Len(vecu') = Len(vecu) + 1 /\ vecu'[Len(vecu) + 1] = milieu
        /\ \A i \in 1 .. Len(vecu) : vecu'[i] = vecu[i]
    BY <1>2, <2>6
  <2> HIDE DEF V
  <2>9. Accord(vecu', W, Surs')
    <3>1. W \in Seq(Ram) /\ Len(W) = Len(vecu')
      BY <2>5, <2>7, <2>8 DEF Accord
    <3>2. ASSUME NEW j \in 1 .. Len(vecu'), NEW m \in Surs' PROVE W[j][m] = vecu'[j][m]
      <4>1. j \in 1 .. Len(V) /\ m \in Surs
        BY <1>3, <2>7, <2>8
      <4>2. W[j][m] = V[j][m]
        BY <4>1, <2>5 DEF Accord
      <4>3. j \in 1 .. Len(vecu) \/ j = Len(vecu) + 1
        BY <1>2, <2>8
      <4>4. milieu[m] = api[m]
        BY <2>6 DEF Pareils
      <4> QED BY <4>2, <4>3, <4>4, <2>7, <2>8
    <3> QED BY <3>1, <3>2 DEF Accord
  <2>10. Len(vecu') = 2 * n /\ vecu'[Len(vecu')] = milieu
    BY <1>2, <2>2, <2>3, <2>8
  <2>11. \/ pc' = "entre" /\ Pareils(snap', Rom(vecu'[Len(vecu')]), Surs')
         \/ pc' = "reste" /\ Pareils(api', vecu'[Len(vecu')], Surs')
    <3>1. Pareils(milieu, milieu, Surs')
      BY DEF Pareils
    <3> QED BY <3>1, <1>7, <2>10
  <2>12. Suivi'
    BY <2>2, <2>4, <2>10, <2>11 DEF Suivi
  <2> QED BY <1>5, <2>5, <2>9, <2>12
<1> QED BY <1>8, <1>9, <1>10 DEF IInv

LEMMA ResteInv == ASSUME IInv, Reste PROVE IInv'
<1>1. Cadre /\ Tete /\ Fidele /\ api \in Ram /\ Rom(api) \in Ram /\ derive \in SUBSET Mots
  BY RomRam DEF IInv, Cadre
<1>2. UNCHANGED <<actif, base, fichier, tick, vecu, trou>>
  BY DEF Reste
<1>3. \/ /\ pc = "reste" /\ pc' = "suite" /\ api' = Rom(api) /\ snap' = snap
         /\ derive' = derive /\ compte' = compte
      \/ /\ pc = "suite" /\ pc' = "entre" /\ api' \in Ram /\ snap' = api'
         /\ PontEcrit(Ecartes(api', api))
  BY DEF Reste
<1>4. /\ derive' \in SUBSET Mots /\ Surs' \in SUBSET Surs
      /\ compte' \in [ecrits: 0 .. MaxEcrits, tch: 0 .. MaxTch]
      /\ \/ pc = "reste" /\ pc' = "suite" /\ api' = Rom(api) /\ snap' = snap
         \/ /\ pc = "suite" /\ pc' = "entre" /\ api' \in Ram /\ snap' = api'
            /\ base' => Pareils(api', api, Surs')
  <2>1. CASE /\ pc = "reste" /\ pc' = "suite" /\ api' = Rom(api) /\ snap' = snap
             /\ derive' = derive /\ compte' = compte
    BY <2>1, <1>1 DEF Surs, Cadre
  <2>2. CASE pc = "suite"
    <3>1. PICK fin \in Ram : PontEcrit(Ecartes(fin, api)) /\ api' = fin /\ snap' = fin
      BY <2>2 DEF Reste
    <3> DEFINE mots == Ecartes(fin, api)
    <3>2. mots \in SUBSET Mots
      BY EcartesMots
    <3>3. /\ derive' \in SUBSET Mots /\ Surs' \in SUBSET Surs /\ Surs' \in SUBSET Mots
          /\ base' => Surs' \cap mots = {}
          /\ compte' \in [ecrits: 0 .. MaxEcrits, tch: 0 .. MaxTch]
      BY <1>1, <3>1, <3>2, PontDerive
    <3>4. base' => Pareils(fin, api, Surs')
      BY <3>3, EcartesPareils
    <3>5. pc' = "entre"
      BY <2>2 DEF Reste
    <3> HIDE DEF mots
    <3> QED BY <2>2, <3>1, <3>3, <3>4, <3>5
  <2> QED BY <1>3, <2>1, <2>2
<1>5. Cadre'
  <2>1. api' \in Ram /\ snap' \in Ram \cup {SansCliche} /\ (base => snap' # SansCliche)
        /\ pc' \in {"entre", "suite"} /\ (pc' # "entre" => tick >= 1)
    BY <1>1, <1>4, RamPleine DEF Cadre
  <2> QED BY <1>1, <1>2, <1>4, <2>1 DEF Cadre
<1>6. Tete'
  BY <1>1, <1>2 DEF Tete
<1>7. Fidele'
  <2> SUFFICES ASSUME base', ~trou'
               PROVE  (\E W : Histoire(fichier', W) /\ Accord(vecu', W, Surs')) /\ Suivi'
    BY DEF Fidele
  <2>1. base /\ ~trou
    BY <1>2
  <2>2. Suivi /\ \E W : Histoire(fichier, W) /\ Accord(vecu, W, Surs)
    BY <1>1, <2>1 DEF Fidele
  <2>3. \E W : Histoire(fichier', W) /\ Accord(vecu', W, Surs')
    <3>1. PICK W : Histoire(fichier, W) /\ Accord(vecu, W, Surs)
      BY <2>2
    <3>2. Accord(vecu, W, Surs')
      BY <3>1, <1>4 DEF Accord
    <3> QED BY <3>1, <3>2, <1>2
  <2> DEFINE n == Cardinality(Rangs(fichier, "T"))
             v == vecu[Len(vecu)]
  <2>4. n >= 1 /\ Len(vecu) = 2 * n
    BY <2>2, <1>4 DEF Suivi
  <2>5. v \in Ram
    <3>1. n \in Nat
      BY <1>1, RangsFinis DEF Cadre
    <3> HIDE DEF n
    <3>2. Len(vecu) \in 1 .. Len(vecu) /\ vecu \in Seq(Ram)
      BY <2>4, <3>1, <1>1 DEF Cadre
    <3> QED BY <3>2, ElementOfSeq
  <2>6. \/ pc' = "suite" /\ Pareils(api', Rom(v), Surs')
        \/ pc' = "entre" /\ Pareils(snap', Rom(v), Surs')
    <3>1. CASE pc = "reste" /\ pc' = "suite" /\ api' = Rom(api)
      <4>1. Pareils(api, v, Surs)
        BY <2>2, <3>1 DEF Suivi
      <4> HIDE DEF v
      <4>2. Pareils(Rom(api), Rom(v), Surs)
        BY <4>1, <2>5, <1>1, SursDit, RomPareils
      <4> QED BY <4>2, <3>1, <1>4 DEF Pareils
    <3>2. CASE pc = "suite" /\ pc' = "entre" /\ snap' = api' /\ Pareils(api', api, Surs')
      <4>1. Pareils(api, Rom(v), Surs)
        BY <2>2, <3>2 DEF Suivi
      <4> HIDE DEF v
      <4> QED BY <4>1, <3>2, <1>4 DEF Pareils
    <3> QED BY <3>1, <3>2, <1>4
  <2>7. Cardinality(Rangs(fichier', "T")) = n /\ vecu'[Len(vecu')] = v /\ Len(vecu') = Len(vecu)
    BY <1>2
  <2> HIDE DEF n, v
  <2>8. Suivi'
    BY <2>4, <2>6, <2>7 DEF Suivi
  <2> QED BY <2>3, <2>8
<1> QED BY <1>5, <1>6, <1>7 DEF IInv

LEMMA ArmInv == ASSUME IInv, NEW m \in Mots, NEW v \in Valeurs, ArmEcrire(m, v) PROVE IInv'
<1>1. Cadre /\ Tete /\ Fidele
  BY DEF IInv
<1>2. UNCHANGED <<snap, actif, base, fichier, pc, tick, vecu, trou>>
      /\ api' = [api EXCEPT ![m] = v]
  BY DEF ArmEcrire
<1> DEFINE mots == IF pc \in {"reste", "suite"} THEN {m} ELSE {}
<1>3. /\ derive' \in SUBSET Mots /\ Surs' \in SUBSET Surs
      /\ base' => Surs' \cap mots = {}
  <2>1. mots \in SUBSET Mots /\ Deriver(mots) /\ derive \subseteq Mots
    BY <1>1 DEF ArmEcrire, Cadre
  <2> HIDE DEF mots
  <2> QED BY <2>1, DeriverMoins
<1>4. Cadre'
  <2>1. api' \in Ram
    BY <1>1, <1>2 DEF Cadre, Ram
  <2>2. compte' \in [ecrits: 0 .. MaxEcrits, tch: 0 .. MaxTch]
    <3>1. compte.ecrits \in 0 .. MaxEcrits /\ compte.ecrits < MaxEcrits /\ MaxEcrits \in Nat
      BY <1>1, EnregAssumption DEF ArmEcrire, Cadre
    <3>2. compte.ecrits + 1 \in 0 .. MaxEcrits
      BY <3>1
    <3> QED BY <1>1, <3>2 DEF ArmEcrire, Cadre
  <2> QED BY <1>1, <1>2, <1>3, <2>1, <2>2 DEF Cadre
<1>5. Tete'
  BY <1>1, <1>2 DEF Tete
<1>6. Fidele'
  <2> SUFFICES ASSUME base', ~trou'
               PROVE  (\E W : Histoire(fichier', W) /\ Accord(vecu', W, Surs')) /\ Suivi'
    BY DEF Fidele
  <2>1. Suivi /\ \E W : Histoire(fichier, W) /\ Accord(vecu, W, Surs)
    BY <1>1, <1>2 DEF Fidele
  <2>2. \E W : Histoire(fichier', W) /\ Accord(vecu', W, Surs')
    <3>1. PICK W : Histoire(fichier, W) /\ Accord(vecu, W, Surs)
      BY <2>1
    <3>2. Accord(vecu, W, Surs')
      BY <3>1, <1>3 DEF Accord
    <3> QED BY <3>1, <3>2, <1>2
  <2>3. pc \in {"reste", "suite"} => \A x \in Surs' : api'[x] = api[x]
    <3> SUFFICES ASSUME pc \in {"reste", "suite"}, NEW x \in Surs' PROVE api'[x] = api[x]
      OBVIOUS
    <3>1. x # m
      BY <1>3
    <3> QED BY <3>1, <1>2, <1>1 DEF Cadre, Ram
  <2> DEFINE d == vecu[Len(vecu)]
  <2>4. /\ pc \in {"entre", "l1sync"} => Pareils(snap, Rom(d), Surs')
        /\ pc = "reste" => Pareils(api', d, Surs')
        /\ pc = "suite" => Pareils(api', Rom(d), Surs')
    <3>1. /\ pc \in {"entre", "l1sync"} => Pareils(snap, Rom(d), Surs)
          /\ pc = "reste" => Pareils(api, d, Surs)
          /\ pc = "suite" => Pareils(api, Rom(d), Surs)
      BY <2>1 DEF Suivi
    <3> HIDE DEF d, mots
    <3> QED BY <3>1, <2>3, <1>3 DEF Pareils
  <2>5. vecu'[Len(vecu')] = d
    BY <1>2
  <2> HIDE DEF d, mots
  <2>6. Suivi'
    BY <2>1, <2>4, <2>5, <1>2 DEF Suivi
  <2> QED BY <2>2, <2>6
<1> QED BY <1>4, <1>5, <1>6 DEF IInv

LEMMA TchInv == ASSUME IInv, Tch PROVE IInv'
<1>1. Cadre /\ Tete /\ Fidele
  BY DEF IInv
<1>2. UNCHANGED <<api, snap, base, fichier, pc, tick, vecu, trou, derive>> /\ actif' \in BOOLEAN
  BY DEF Tch
<1>3. compte' \in [ecrits: 0 .. MaxEcrits, tch: 0 .. MaxTch]
  <2>1. compte.tch \in 0 .. MaxTch /\ compte.tch < MaxTch /\ MaxTch \in Nat
    BY <1>1, EnregAssumption DEF Tch, Cadre
  <2>2. compte.tch + 1 \in 0 .. MaxTch
    BY <2>1
  <2> QED BY <1>1, <2>2 DEF Tch, Cadre
<1>4. Cadre' /\ Tete' /\ Fidele'
  BY <1>1, <1>2, <1>3 DEF Cadre, Tete, Fidele, Suivi, Surs
<1> QED BY <1>4 DEF IInv

LEMMA IInvInit == Init => IInv
<1> SUFFICES ASSUME Init PROVE IInv
  OBVIOUS
<1>1. api \in Ram /\ fichier = <<>> /\ vecu = <<>> /\ fichier \in Seq(Recs) /\ vecu \in Seq(Ram)
  BY EnregAssumption, EmptySeq DEF Init, Ram
<1>2. compte \in [ecrits: 0 .. MaxEcrits, tch: 0 .. MaxTch] /\ tick \in 0 .. MaxTicks
  BY EnregAssumption DEF Init
<1>3. Cadre
  BY <1>1, <1>2 DEF Init, Cadre
<1>4. Rangs(fichier, "S") = {} /\ Rangs(fichier, "T") = {}
  <2>1. DOMAIN fichier = {}
    BY <1>1
  <2> QED BY <2>1 DEF Rangs
<1>5. ~base
  BY DEF Init
<1> QED BY <1>1, <1>3, <1>4, <1>5 DEF IInv, Tete, Fidele

LEMMA IInvNext == IInv /\ [Next]_vars => IInv'
<1> SUFFICES ASSUME IInv, [Next]_vars PROVE IInv'
  OBVIOUS
<1>1. CASE \E deux \in BOOLEAN : TickRecu(deux)
  BY <1>1, TickInv
<1>2. CASE GoRecu
  BY <1>2, GoInv
<1>3. CASE Reste
  BY <1>3, ResteInv
<1>4. CASE Tch
  BY <1>4, TchInv
<1>5. CASE \E m \in Mots, v \in Valeurs : ArmEcrire(m, v)
  BY <1>5, ArmInv
<1>6. CASE UNCHANGED vars
  BY <1>6 DEF vars, IInv, Cadre, Tete, Fidele, Suivi, Surs
<1> QED BY <1>1, <1>2, <1>3, <1>4, <1>5, <1>6 DEF Next

\* The types of the recorder; its file never starts twice.
LEMMA IInvTypeOK == IInv => TypeOK
<1> SUFFICES ASSUME Cadre, Tete PROVE TypeOK
  BY DEF IInv
<1>1. ASSUME NEW r \in Enregistrements(fichier)
      PROVE  /\ r.k \in {"S", "D", "P", "T", "A"} /\ r.tick \in 1 .. MaxTicks
             /\ r.fenetre \in {0, 1} /\ DOMAIN r.maj \subseteq Mots
  <2>1. r \in Recs
    BY ElementOfSeq DEF Enregistrements, Cadre
  <2>2. r.maj \in Majs
    BY <2>1 DEF Recs
  <2>3. DOMAIN r.maj \subseteq Mots
    BY <2>2 DEF Majs
  <2> QED BY <2>1, <2>3 DEF Recs
<1>2. Cardinality({i \in DOMAIN fichier : fichier[i].k = "S"}) = IF base THEN 1 ELSE 0
  <2>1. CASE base
    <3>1. PICK s : Rangs(fichier, "S") = {s}
      BY <2>1 DEF Tete
    <3> QED BY <3>1, <2>1, FS_Singleton DEF Rangs
  <2>2. CASE ~base
    BY <2>2, FS_EmptySet DEF Tete, Rangs
  <2> QED BY <2>1, <2>2
<1> QED BY <1>1, <1>2 DEF TypeOK, Cadre

\* Types, and a file that starts once, for every number of ticks, writes and channels.
THEOREM TypeCorrecte == Spec => []TypeOK
BY IInvInit, IInvNext, IInvTypeOK, PTL DEF Spec

-----------------------------------------------------------------------------
(* What the readers read.                                                  *)

LEMMA LisibleSuite ==
  ASSUME NEW lecteur, NEW f \in Seq(Recs)
  PROVE  Lisible(lecteur, f) \in Seq(Recs)
<1> DEFINE inconnus == {i \in DOMAIN f : f[i].k \notin Connus(lecteur)}
           p == CHOOSE i \in inconnus : \A j \in inconnus : i <= j
<1>1. DOMAIN f = 1 .. Len(f) /\ Len(f) \in Nat
  BY LenProperties
<1>2. CASE inconnus = {}
  BY <1>2 DEF Lisible
<1>3. CASE inconnus # {}
  <2>1. \E i \in inconnus : \A j \in inconnus : i <= j
    <3>1. inconnus \in SUBSET Nat
      BY <1>1
    <3> HIDE DEF inconnus
    <3> QED BY <3>1, <1>3, PlusPetit
  <2>2. p \in inconnus
    <3> HIDE DEF inconnus
    <3> QED BY <2>1
  <2>3. p \in 1 .. Len(f)
    BY <1>1, <2>2
  <2>4. Lisible(lecteur, f) = SubSeq(f, 1, p - 1)
    BY <1>3 DEF Lisible
  <2> HIDE DEF p
  <2>5. \A i \in 1 .. p - 1 : f[i] \in Recs
    <3>1. \A i \in 1 .. p - 1 : i \in 1 .. Len(f)
      BY <1>1, <2>3
    <3> QED BY <3>1, ElementOfSeq
  <2>6. 1 \in Int /\ p - 1 \in Int
    BY <1>1, <2>3
  <2> QED BY <2>4, <2>5, <2>6, SubSeqProperties
<1> QED BY <1>2, <1>3

LEMMA LisibleBanc ==
  ASSUME NEW f \in Seq(Recs)
  PROVE  Lisible("banc", f) = f
<1>1. \A i \in DOMAIN f : f[i].k \in {"S", "D", "P", "T", "A"}
  BY LenProperties, ElementOfSeq DEF Recs
<1>2. {i \in DOMAIN f : f[i].k \notin Connus("banc")} = {}
  BY <1>1 DEF Connus
<1> QED BY <1>2 DEF Lisible

\* The last rank of the i-th tick of n.
Fin(f, n, i) == IF i = n THEN Len(f) ELSE Rang(Rangs(f, "T"), i + 1) - 1
Gardes(f) == IF Cardinality(Rangs(f, "T")) < Table THEN Cardinality(Rangs(f, "T")) ELSE Table

LEMMA TickBornes ==
  ASSUME NEW f \in Seq(Recs), NEW i \in 1 .. Gardes(f)
  PROVE  /\ Rang(Rangs(f, "T"), i) \in Rangs(f, "T")
         /\ Rang(Rangs(f, "T"), i) \in 1 .. Len(f) /\ Fin(f, Gardes(f), i) \in 1 .. Len(f)
         /\ Rang(Rangs(f, "T"), i) <= Fin(f, Gardes(f), i)
<1> DEFINE tous == Rangs(f, "T")
           n == Gardes(f)
<1>1. tous \in SUBSET (1 .. Len(f)) /\ tous \in SUBSET Nat /\ IsFiniteSet(tous) /\ Cardinality(tous) \in Nat
  BY RangsFinis
<1>2. n \in Nat /\ n <= Cardinality(tous)
  BY <1>1, EnregAssumption DEF Gardes
<1>3. Len(f) \in Nat
  BY LenProperties
<1> HIDE DEF n, tous
<1>4. i \in 1 .. Cardinality(tous)
  BY <1>1, <1>2 DEF n
<1>5. Rang(tous, i) \in tous
  BY <1>1, <1>4, RangDit
<1>6. Rang(tous, i) \in 1 .. Len(f)
  BY <1>1, <1>5
<1>7. CASE i = n
  <2>1. Fin(f, n, i) = Len(f)
    BY <1>7 DEF Fin
  <2> QED BY <2>1, <1>3, <1>5, <1>6 DEF n, tous
<1>8. CASE i # n
  <2>1. i + 1 \in 1 .. Cardinality(tous) /\ i < i + 1
    BY <1>1, <1>2, <1>8 DEF n
  <2>2. Rang(tous, i + 1) \in 1 .. Len(f) /\ Rang(tous, i) < Rang(tous, i + 1)
    BY <1>1, <1>4, <2>1, RangDit, RangCroit
  <2>3. Fin(f, n, i) = Rang(tous, i + 1) - 1
    BY <1>8 DEF Fin, tous
  <2>4. Fin(f, n, i) \in 1 .. Len(f) /\ Rang(tous, i) <= Fin(f, n, i)
    BY <1>3, <1>6, <2>2, <2>3
  <2> QED BY <2>4, <1>5, <1>6 DEF n, tous
<1> QED BY <1>7, <1>8

LEMMA TicksDits ==
  ASSUME NEW f \in Seq(Recs)
  PROVE  /\ Gardes(f) \in Nat /\ Gardes(f) <= Cardinality(Rangs(f, "T"))
         /\ Ticks(f) \in Seq(Seq(Recs)) /\ Len(Ticks(f)) = Gardes(f)
         /\ \A i \in 1 .. Gardes(f) : /\ Ticks(f)[i] = SubSeq(f, Rang(Rangs(f, "T"), i), Fin(f, Gardes(f), i))
                                      /\ Ticks(f)[i] \in Seq(Recs) /\ Len(Ticks(f)[i]) >= 1
<1> DEFINE n == Gardes(f)
           tick_(i) == SubSeq(f, Rang(Rangs(f, "T"), i), Fin(f, n, i))
<1>1. n \in Nat /\ n <= Cardinality(Rangs(f, "T"))
  BY RangsFinis, EnregAssumption DEF Gardes
<1>2. Ticks(f) = [i \in 1 .. n |-> tick_(i)]
  BY DEF Ticks, Gardes, Fin
<1>3. ASSUME NEW i \in 1 .. n PROVE tick_(i) \in Seq(Recs) /\ Len(tick_(i)) >= 1
  <2> DEFINE a == Rang(Rangs(f, "T"), i)
             b == Fin(f, n, i)
  <2>1. a \in 1 .. Len(f) /\ b \in 1 .. Len(f) /\ a <= b
    BY TickBornes
  <2> HIDE DEF a, b
  <2>2. a \in Int /\ b \in Int /\ \A k \in a .. b : k \in 1 .. Len(f)
    BY <2>1
  <2>3. \A k \in a .. b : f[k] \in Recs
    BY <2>2, ElementOfSeq
  <2>4. SubSeq(f, a, b) \in Seq(Recs) /\ Len(SubSeq(f, a, b)) = b - a + 1
    BY <2>1, <2>2, <2>3, SubSeqProperties
  <2>5. Len(SubSeq(f, a, b)) >= 1
    BY <2>1, <2>2, <2>4
  <2> QED BY <2>4, <2>5 DEF a, b
<1> HIDE DEF tick_, n
<1>4. Ticks(f) \in [1 .. n -> Seq(Recs)]
  BY <1>2, <1>3
<1>5. Ticks(f) \in Seq(Seq(Recs)) /\ Len(Ticks(f)) = n
  BY <1>1, <1>4
<1>6. \A i \in 1 .. n : Ticks(f)[i] = tick_(i)
  BY <1>2
<1>7. \A i \in 1 .. n : /\ Ticks(f)[i] = SubSeq(f, Rang(Rangs(f, "T"), i), Fin(f, n, i))
                        /\ Ticks(f)[i] \in Seq(Recs) /\ Len(Ticks(f)[i]) >= 1
  BY <1>3, <1>6 DEF tick_
<1> QED BY <1>1, <1>5, <1>7 DEF n

-----------------------------------------------------------------------------
(* What a tick is played on.                                               *)

LEMMA PoserType ==
  ASSUME NEW a \in Ram, NEW records \in Seq(Recs), NEW rangs \in SUBSET (1 .. Len(records))
  PROVE  Poser(a, records, rangs) \in Ram
<1> DEFINE donnent(m) == {i \in rangs : m \in DOMAIN records[i].maj}
<1>1. \A m \in Mots : donnent(m) \in SUBSET Nat /\ IsFiniteSet(donnent(m))
  <2>1. Len(records) \in Nat /\ IsFiniteSet(1 .. Len(records))
    BY LenProperties, IntervalleFini
  <2>2. \A m \in Mots : donnent(m) \in SUBSET (1 .. Len(records))
    OBVIOUS
  <2> HIDE DEF donnent
  <2>3. \A m \in Mots : donnent(m) \in SUBSET Nat
    <3>1. 1 .. Len(records) \in SUBSET Nat
      BY <2>1
    <3> QED BY <2>2, <3>1
  <2> QED BY <2>1, <2>2, <2>3, FS_Subset
<1>2. ASSUME NEW m \in Mots, donnent(m) # {} PROVE records[Dernier(donnent(m))].maj[m] \in Valeurs
  <2> DEFINE d == Dernier(donnent(m))
  <2>1. d \in donnent(m)
    <3> HIDE DEF donnent
    <3> QED BY <1>1, <1>2, DernierDit
  <2>2. d \in 1 .. Len(records) /\ m \in DOMAIN records[d].maj
    BY <2>1
  <2> HIDE DEF d
  <2>3. records[d] \in Recs
    BY <2>2, ElementOfSeq
  <2>4. records[d].maj \in Majs
    BY <2>3 DEF Recs
  <2>5. records[d].maj[m] \in Valeurs
    BY <2>2, <2>4 DEF Majs
  <2> QED BY <2>5 DEF d
<1>3. Poser(a, records, rangs) = [m \in Mots |-> IF donnent(m) = {} THEN a[m] ELSE records[Dernier(donnent(m))].maj[m]]
  BY DEF Poser
<1> HIDE DEF donnent
<1>4. \A m \in Mots : a[m] \in Valeurs
  BY DEF Ram
<1> QED BY <1>2, <1>3, <1>4 DEF Ram

\* The records that make x of c give x.
LEMMA PoserEcart ==
  ASSUME NEW c \in Ram, NEW x \in Ram, NEW records \in Seq(Recs), NEW rangs \in SUBSET (1 .. Len(records)),
         \A q \in rangs : x = Ecrire(c, records[q].maj), rangs = {} => x = c
  PROVE  Poser(c, records, rangs) = x
<1> DEFINE donnent(m) == {i \in rangs : m \in DOMAIN records[i].maj}
           v(m) == IF donnent(m) = {} THEN c[m] ELSE records[Dernier(donnent(m))].maj[m]
<1>1. Poser(c, records, rangs) = [m \in Mots |-> v(m)]
  BY DEF Poser
<1>2. ASSUME NEW m \in Mots PROVE v(m) = x[m]
  <2>1. \A q \in rangs : x[m] = IF m \in DOMAIN records[q].maj THEN records[q].maj[m] ELSE c[m]
    BY DEF Ecrire
  <2>2. CASE donnent(m) = {}
    <3>1. CASE rangs = {}
      BY <2>2, <3>1
    <3>2. CASE rangs # {}
      <4>1. PICK q \in rangs : m \notin DOMAIN records[q].maj
        BY <2>2, <3>2
      <4> QED BY <4>1, <2>1, <2>2
    <3> QED BY <3>1, <3>2
  <2>3. CASE donnent(m) # {}
    <3> DEFINE d == Dernier(donnent(m))
    <3>1. donnent(m) \in SUBSET Nat /\ IsFiniteSet(donnent(m))
      <4>1. Len(records) \in Nat /\ IsFiniteSet(1 .. Len(records))
        BY LenProperties, IntervalleFini
      <4>2. donnent(m) \in SUBSET (1 .. Len(records))
        OBVIOUS
      <4> HIDE DEF donnent
      <4> QED BY <4>1, <4>2, FS_Subset
    <3>2. d \in donnent(m)
      <4> HIDE DEF donnent
      <4> QED BY <3>1, <2>3, DernierDit
    <3>3. d \in rangs /\ m \in DOMAIN records[d].maj
      BY <3>2
    <3>4. v(m) = records[d].maj[m]
      BY <2>3
    <3> HIDE DEF d, v
    <3> QED BY <3>3, <3>4, <2>1
  <2> QED BY <2>2, <2>3
<1> HIDE DEF v
<1>3. x = [m \in Mots |-> x[m]]
  BY DEF Ram
<1> QED BY <1>1, <1>2, <1>3

\* The records of tick i, between a and b, give what phase j starts on.
LEMMA SegmentJoue ==
  ASSUME NEW f \in Seq(Recs), NEW V \in Seq(Ram), Histoire(f, V),
         NEW i \in Nat \ {0}, NEW w \in {0, 1}, 2 * i - 1 + w \in 1 .. Len(V),
         NEW a \in 1 .. Len(f), NEW b \in 1 .. Len(f), a <= b,
         \A q \in 1 .. Len(f) : TickDe(f, q) = i <=> a <= q /\ q <= b,
         Attendu(f, V, 2 * i - 1 + w) \in Ram
  PROVE  Appliquer(Attendu(f, V, 2 * i - 1 + w), SubSeq(f, a, b), w) = V[2 * i - 1 + w]
<1> DEFINE j == 2 * i - 1 + w
           records == SubSeq(f, a, b)
           rangs == {k \in Rangs(records, "A") : records[k].fenetre = w}
           c == Attendu(f, V, j)
<1>1. /\ records \in Seq(Recs) /\ Len(records) = b - a + 1
      /\ \A k \in 1 .. b - a + 1 : records[k] = f[a + k - 1]
      /\ Len(f) \in Nat /\ a \in Nat /\ b \in Nat /\ DOMAIN records = 1 .. b - a + 1
  <2>1. a \in Int /\ b \in Int /\ \A k \in a .. b : f[k] \in Recs
    <3>1. \A k \in a .. b : k \in 1 .. Len(f)
      BY LenProperties
    <3> QED BY <3>1, LenProperties, ElementOfSeq
  <2>2. /\ records \in Seq(Recs) /\ Len(records) = b - a + 1
        /\ \A k \in 1 .. b - a + 1 : records[k] = f[a + k - 1]
    BY <2>1, SubSeqProperties
  <2> HIDE DEF records
  <2> QED BY <2>2, LenProperties
<1>2. V[j] \in Ram
  BY ElementOfSeq
<1>3. rangs \in SUBSET (1 .. Len(records))
  BY <1>1 DEF Rangs
<1>4. ASSUME NEW k \in rangs PROVE V[j] = Ecrire(c, records[k].maj)
  <2> DEFINE q == a + k - 1
  <2>1. k \in 1 .. b - a + 1 /\ records[k].k = "A" /\ records[k].fenetre = w
    BY <1>1 DEF Rangs
  <2>2. q \in 1 .. Len(f) /\ a <= q /\ q <= b /\ records[k] = f[q]
    BY <1>1, <2>1
  <2> HIDE DEF q, records
  <2>3. q \in Rangs(f, "A")
    BY <2>1, <2>2, LenProperties DEF Rangs
  <2>4. TickDe(f, q) = i /\ Phase(f, q) = j
    BY <2>1, <2>2 DEF Phase
  <2>5. i >= 1
    OBVIOUS
  <2> QED BY <2>2, <2>3, <2>4, <2>5 DEF Histoire
<1>5. ASSUME rangs = {} PROVE V[j] = c
  <2> SUFFICES ASSUME NEW q \in Rangs(f, "A"), TickDe(f, q) >= 1, Phase(f, q) = j PROVE FALSE
    BY DEF Histoire
  <2>1. q \in 1 .. Len(f) /\ f[q].k = "A"
    BY LenProperties DEF Rangs
  <2>2. f[q].fenetre \in {0, 1}
    BY <2>1, ElementOfSeq DEF Recs
  <2>3. TickDe(f, q) \in Nat
    BY <2>1, TickDeType
  <2>4. 2 * TickDe(f, q) - 1 + f[q].fenetre = 2 * i - 1 + w
    BY DEF Phase
  <2>5. TickDe(f, q) = i /\ f[q].fenetre = w
    BY <2>2, <2>3, <2>4
  <2>6. a <= q /\ q <= b
    BY <2>1, <2>5
  <2> DEFINE k == q - a + 1
  <2>7. k \in 1 .. b - a + 1 /\ a + k - 1 = q
    BY <1>1, <2>1, <2>6
  <2> HIDE DEF k
  <2>8. records[k] = f[q] /\ k \in DOMAIN records
    BY <1>1, <2>7
  <2> HIDE DEF records
  <2>9. k \in rangs
    BY <2>1, <2>5, <2>8 DEF Rangs
  <2> QED BY <2>9, <1>5
<1> HIDE DEF c, records
<1>6. Poser(c, records, rangs) = V[j]
  <2>1. c \in Ram
    BY DEF c
  <2> HIDE DEF rangs, j
  <2> QED BY <2>1, <1>1, <1>2, <1>3, <1>4, <1>5, PoserEcart
<1> QED BY <1>6 DEF Appliquer, c, records

-----------------------------------------------------------------------------
(* The replay.                                                             *)

\* What holds of 0 and passes from each number to the next holds up to n.
LEMMA Recurrence ==
  ASSUME NEW n \in Nat, NEW T, 0 \in T, \A i \in 1 .. n : i - 1 \in T => i \in T
  PROVE  \A i \in 0 .. n : i \in T
<1> DEFINE h == [i \in 0 .. n |-> i]
<1>1. 0 \in 0 .. n /\ \A i \in 1 .. n : i \in 0 .. n /\ i - 1 \in 0 .. n
  OBVIOUS
<1>2. h[0] \in T /\ \A i \in 1 .. n : h[i - 1] \in T => h[i] \in T
  BY <1>1
<1>3. \A i \in 0 .. n : h[i] = i
  OBVIOUS
<1> HIDE DEF h
<1>4. \A i \in 0 .. n : h[i] \in T
  BY <1>2, Proche
<1> QED BY <1>3, <1>4

Etats == [api: Ram, phases: Seq(Ram)]

LEMMA DepartRam == ASSUME NEW f \in Seq(Recs) PROVE Depart(f) \in Ram
<1>1. CASE Rangs(f, "S") = {}
  BY <1>1, EnregAssumption DEF Depart, Ram
<1>2. CASE Rangs(f, "S") # {}
  <2> DEFINE d == Dernier(Rangs(f, "S"))
  <2>1. d \in Rangs(f, "S") /\ Rangs(f, "S") \in SUBSET (1 .. Len(f))
    BY <1>2, RangsFinis, DernierDit
  <2> HIDE DEF d
  <2>2. f[d].k = "S" /\ f[d] \in Recs
    BY <2>1, ElementOfSeq DEF Rangs
  <2>3. f[d].maj \in Ram
    BY <2>2 DEF Recs
  <2> QED BY <1>2, <2>3 DEF Depart, d
<1> QED BY <1>1, <1>2

LEMMA AppliquerRam ==
  ASSUME NEW a \in Ram, NEW records \in Seq(Recs), NEW w PROVE Appliquer(a, records, w) \in Ram
<1>1. {i \in Rangs(records, "A") : records[i].fenetre = w} \in SUBSET (1 .. Len(records))
  BY RangsFinis
<1> QED BY <1>1, PoserType DEF Appliquer

LEMMA JouerTickEtat ==
  ASSUME NEW e \in Etats, NEW records \in Seq(Recs) PROVE JouerTick(e, records) \in Etats
<1> DEFINE a == Appliquer(e.api, records, 0)
           b == Appliquer(Rom(a), records, 1)
<1>1. e.api \in Ram /\ e.phases \in Seq(Ram)
  BY DEF Etats
<1>2. a \in Ram /\ b \in Ram /\ Rom(b) \in Ram
  BY <1>1, AppliquerRam, RomRam
<1>3. JouerTick(e, records) = [api |-> Rom(b), phases |-> e.phases \o <<a, b>>]
  BY DEF JouerTick
<1> HIDE DEF a, b
<1>4. e.phases \o <<a, b>> \in Seq(Ram)
  BY <1>1, <1>2
<1> QED BY <1>2, <1>3, <1>4 DEF Etats

\* The states a replay goes through.
Suite(f, e) ==
  /\ e \in [0 .. Gardes(f) -> Etats]
  /\ e[0] = [api |-> Depart(f), phases |-> <<>>]
  /\ \A i \in 1 .. Gardes(f) : e[i] = JouerTick(e[i - 1], Ticks(f)[i])
  /\ Rejeu(f) = e[Gardes(f)].phases

LEMMA RejeuSuite == ASSUME NEW f \in Seq(Recs) PROVE \E e : Suite(f, e)
<1> DEFINE n == Gardes(f)
           ticks == Ticks(f)
           debut == [api |-> Depart(f), phases |-> <<>>]
           Pas == [i \in 1 .. n |-> [s \in Etats |-> JouerTick(s, ticks[i])]]
           Corps(h) == [i \in 0 .. n |-> IF i = 0 THEN debut ELSE JouerTick(h[i - 1], ticks[i])]
           etat[i \in 0 .. Len(ticks)] == IF i = 0 THEN debut ELSE JouerTick(etat[i - 1], ticks[i])
<1>1. n \in Nat /\ Len(ticks) = n /\ \A i \in 1 .. n : ticks[i] \in Seq(Recs)
  BY TicksDits
<1>2. debut \in Etats
  BY DepartRam, EmptySeq DEF Etats
<1>3. Pas \in [1 .. n -> [Etats -> Etats]]
  <2> HIDE DEF n, ticks
  <2> QED BY <1>1, JouerTickEtat
<1>4. PICK g \in [0 .. n -> Etats] : g[0] = debut /\ \A i \in 1 .. n : g[i] = Pas[i][g[i - 1]]
  <2>1. n \in Nat /\ debut \in Etats
    BY <1>1, <1>2
  <2> HIDE DEF n, Pas, debut
  <2>2. \E g : Enchaine(g, n, Etats, debut, Pas)
    BY <2>1, <1>3, SuiteExiste
  <2> QED BY <2>2 DEF Enchaine
<1>5. \A i \in 1 .. n : g[i] = JouerTick(g[i - 1], ticks[i])
  <2> SUFFICES ASSUME NEW i \in 1 .. n PROVE g[i] = JouerTick(g[i - 1], ticks[i])
    OBVIOUS
  <2>1. i - 1 \in 0 .. n
    BY <1>1
  <2>2. g[i - 1] \in Etats
    BY <1>4, <2>1
  <2> HIDE DEF n, ticks, debut
  <2> QED BY <1>4, <2>2
<1>6. g = Corps(g)
  <2> HIDE DEF n, ticks, debut, Pas
  <2>1. \A i \in 0 .. n : g[i] = IF i = 0 THEN debut ELSE JouerTick(g[i - 1], ticks[i])
    <3>1. \A i \in 0 .. n : i = 0 \/ i \in 1 .. n
      BY <1>1
    <3> QED BY <1>4, <1>5, <3>1
  <2> QED BY <1>4, <2>1
<1>7. etat = Corps(etat)
  <2>1. \E h : h = [i \in 0 .. Len(ticks) |-> IF i = 0 THEN debut ELSE JouerTick(h[i - 1], ticks[i])]
    BY <1>1, <1>6
  <2> HIDE DEF n, ticks, debut
  <2>2. etat = [i \in 0 .. Len(ticks) |-> IF i = 0 THEN debut ELSE JouerTick(etat[i - 1], ticks[i])]
    BY <2>1 DEF etat
  <2> QED BY <1>1, <2>2
<1>8. Rejeu(f) = etat[n].phases
  <2>1. Lisible("banc", f) = f
    BY LisibleBanc
  <2>2. Rejeu(f) = etat[Len(ticks)].phases
    BY <2>1 DEF Rejeu
  <2> HIDE DEF etat
  <2> QED BY <2>2, <1>1
<1> HIDE DEF etat
<1>9. \A i \in 0 .. n : etat[i] = IF i = 0 THEN debut ELSE JouerTick(etat[i - 1], ticks[i])
  <2> HIDE DEF n, ticks, debut
  <2> QED BY <1>7
<1>10. 0 \in 0 .. n /\ \A i \in 1 .. n : i \in 0 .. n /\ i # 0 /\ i - 1 \in 0 .. n
  BY <1>1
<1>11. etat[0] = debut /\ \A i \in 1 .. n : etat[i] = JouerTick(etat[i - 1], ticks[i])
  <2> HIDE DEF n, ticks, debut
  <2> QED BY <1>9, <1>10
<1>12. \A i \in 0 .. n : etat[i] \in Etats
  <2> HIDE DEF n, ticks, debut, Pas, Corps
  <2>1. \A i \in 1 .. n : etat[i - 1] \in Etats => etat[i] \in Etats
    BY <1>1, <1>11, JouerTickEtat
  <2>2. etat[0] \in Etats
    BY <1>2, <1>11
  <2> QED BY <1>1, <2>1, <2>2, Proche
<1>13. etat \in [0 .. n -> Etats]
  <2> HIDE DEF n, ticks, debut
  <2>1. etat = [i \in 0 .. n |-> etat[i]]
    BY <1>7
  <2> QED BY <2>1, <1>12
<1> HIDE DEF ticks, debut, n
<1>14. Suite(f, etat)
  BY <1>8, <1>11, <1>13 DEF Suite, ticks, debut, n
<1> QED BY <1>14

-----------------------------------------------------------------------------
(* The replay is faithful.                                                 *)

LEMMA TickBorne ==
  ASSUME NEW rangs \in SUBSET Nat, IsFiniteSet(rangs), NEW i \in 1 .. Cardinality(rangs), NEW q \in Nat
  PROVE  Cardinality(Avant(rangs, q)) = i
           <=> Rang(rangs, i) <= q /\ (i = Cardinality(rangs) \/ q < Rang(rangs, i + 1))
<1> DEFINE n == Cardinality(rangs)
           d == Cardinality(Avant(rangs, q))
<1>1. n \in Nat /\ d \in Nat /\ d <= n /\ IsFiniteSet(Avant(rangs, q))
  BY FS_CardinalityType, FS_Subset DEF Avant
<1>2. \A j \in 1 .. n : j <= d => Rang(rangs, j) <= q
  <2> SUFFICES ASSUME NEW j \in 1 .. n, j <= d PROVE Rang(rangs, j) <= q
    OBVIOUS
  <2>1. j \in 1 .. d
    BY <1>1
  <2> QED BY <2>1, RangCoupe
<1>3. \A j \in 1 .. n : Rang(rangs, j) <= q => j <= d
  <2> SUFFICES ASSUME NEW j \in 1 .. n, Rang(rangs, j) <= q PROVE j <= d
    OBVIOUS
  <2> DEFINE p == Rang(rangs, j)
  <2>1. p \in rangs /\ Cardinality(Avant(rangs, p)) = j
    BY RangDit
  <2> HIDE DEF p
  <2>2. p <= q
    BY DEF p
  <2>3. Avant(rangs, p) \subseteq Avant(rangs, q)
    <3>1. \A x \in rangs : x <= p => x <= q
      <4>1. \A x \in rangs : x \in Nat
        OBVIOUS
      <4>2. p \in Nat
        BY <2>1
      <4> QED BY <4>1, <4>2, <2>2
    <3> QED BY <3>1 DEF Avant
  <2>4. Cardinality(Avant(rangs, p)) <= d
    BY <2>3, <1>1, FS_Subset
  <2> QED BY <2>1, <2>4
<1>4. \A j \in 1 .. n : Rang(rangs, j) \in Nat
  BY RangDit
<1> HIDE DEF n, d
<1>5. i \in 1 .. n /\ (i = n \/ i + 1 \in 1 .. n)
  BY <1>1 DEF n
<1>6. d = i <=> Rang(rangs, i) <= q /\ (i = n \/ q < Rang(rangs, i + 1))
  <2>1. ASSUME d = i, i + 1 \in 1 .. n PROVE q < Rang(rangs, i + 1)
    BY <2>1, <1>1, <1>3, <1>4, <1>5
  <2>2. ASSUME d = i PROVE Rang(rangs, i) <= q
    BY <2>2, <1>1, <1>2, <1>5
  <2>3. ASSUME Rang(rangs, i) <= q, i = n PROVE d = i
    BY <2>3, <1>1, <1>3, <1>5
  <2>4. ASSUME Rang(rangs, i) <= q, i + 1 \in 1 .. n, q < Rang(rangs, i + 1) PROVE d = i
    <3>1. i <= d
      BY <2>4, <1>3, <1>5
    <3>2. ~(i + 1 <= d)
      BY <2>4, <1>2, <1>4
    <3> QED BY <3>1, <3>2, <1>1, <1>5
  <2> QED BY <2>1, <2>2, <2>3, <2>4, <1>5
<1> QED BY <1>6 DEF n, d

LEMMA PrefixeDit ==
  ASSUME NEW f \in Seq(Recs), NEW n \in 0 .. Len(f)
  PROVE  /\ SubSeq(f, 1, n) \in Seq(Recs) /\ Len(SubSeq(f, 1, n)) = n /\ n \in Nat
         /\ \A i \in 1 .. n : SubSeq(f, 1, n)[i] = f[i]
         /\ \A k : Rangs(SubSeq(f, 1, n), k) = Avant(Rangs(f, k), n)
         /\ \A a, b \in 1 .. n : SubSeq(SubSeq(f, 1, n), a, b) = SubSeq(f, a, b)
<1> DEFINE g == SubSeq(f, 1, n)
<1>1. Len(f) \in Nat /\ n \in Nat /\ n \in Int /\ DOMAIN f = 1 .. Len(f)
  BY LenProperties
<1>2. \A i \in 1 .. n : i \in 1 .. Len(f) /\ f[i] \in Recs
  <2>1. \A i \in 1 .. n : i \in 1 .. Len(f)
    BY <1>1
  <2> QED BY <2>1, ElementOfSeq
<1>3. g \in Seq(Recs) /\ Len(g) = n /\ \A i \in 1 .. n : g[i] = f[i]
  <2>1. 1 \in Int
    OBVIOUS
  <2>2. g \in Seq(Recs)
    BY <1>1, <1>2, <2>1, SubSeqProperties
  <2>3. Len(g) = (IF 1 <= n THEN n - 1 + 1 ELSE 0)
    BY <1>1, <1>2, <2>1, SubSeqProperties
  <2>4. \A i \in 1 .. n - 1 + 1 : g[i] = f[1 + i - 1]
    BY <1>1, <1>2, <2>1, SubSeqProperties
  <2> HIDE DEF g
  <2>5. n - 1 + 1 = n /\ \A i \in 1 .. n : 1 + i - 1 = i
    BY <1>1
  <2>6. Len(g) = n
    BY <1>1, <2>3
  <2> QED BY <2>2, <2>4, <2>5, <2>6
<1> HIDE DEF g
<1>4. DOMAIN g = 1 .. n
  BY <1>3, LenProperties
<1>5. ASSUME NEW k PROVE Rangs(g, k) = Avant(Rangs(f, k), n)
  <2>1. \A i \in 1 .. Len(f) : i <= n <=> i \in 1 .. n
    BY <1>1
  <2> QED BY <1>1, <1>2, <1>3, <1>4, <2>1 DEF Rangs, Avant
<1>6. ASSUME NEW a \in 1 .. n, NEW b \in 1 .. n PROVE SubSeq(g, a, b) = SubSeq(f, a, b)
  <2>1. a \in Int /\ b \in Int /\ \A i \in a .. b : i \in 1 .. n
    BY <1>1
  <2>2. \A i \in a .. b : g[i] \in Recs /\ f[i] \in Recs
    BY <2>1, <1>2, <1>3
  <2>3. /\ SubSeq(g, a, b) \in Seq(Recs) /\ SubSeq(f, a, b) \in Seq(Recs)
        /\ Len(SubSeq(g, a, b)) = Len(SubSeq(f, a, b))
        /\ Len(SubSeq(g, a, b)) = IF a <= b THEN b - a + 1 ELSE 0
        /\ \A i \in 1 .. b - a + 1 : SubSeq(g, a, b)[i] = g[a + i - 1] /\ SubSeq(f, a, b)[i] = f[a + i - 1]
    BY <2>1, <2>2, SubSeqProperties
  <2>4. \A i \in 1 .. Len(SubSeq(g, a, b)) : i \in 1 .. b - a + 1 /\ a + i - 1 \in 1 .. n
    BY <2>1, <2>3, <1>1
  <2>5. \A i \in 1 .. Len(SubSeq(g, a, b)) : SubSeq(g, a, b)[i] = SubSeq(f, a, b)[i]
    BY <2>3, <2>4, <1>3
  <2> QED BY <2>3, <2>5, SeqEqual
<1> QED BY <1>1, <1>3, <1>5, <1>6 DEF g

\* A tick whose records are all there, in a file cut at n, is played as it was lived.
LEMMA TickJoue ==
  ASSUME NEW f \in Seq(Recs), NEW V \in Seq(Ram), Histoire(f, V),
         NEW n \in 0 .. Len(f), NEW i \in 1 .. Gardes(SubSeq(f, 1, n)),
         i < Gardes(SubSeq(f, 1, n)) \/ (n = Len(f) /\ i = Cardinality(Rangs(f, "T"))),
         2 * i <= Len(V),
         NEW e \in Etats, e.api = Attendu(f, V, 2 * i - 1)
  PROVE  JouerTick(e, Ticks(SubSeq(f, 1, n))[i]) =
           [api |-> Rom(V[2 * i]), phases |-> e.phases \o <<V[2 * i - 1], V[2 * i]>>]
<1> DEFINE g == SubSeq(f, 1, n)
           K == Gardes(g)
           Ts == Rangs(f, "T")
           a == Rang(Ts, i)
           b == Fin(g, K, i)
           records == Ticks(g)[i]
<1>1. /\ g \in Seq(Recs) /\ Len(g) = n /\ n \in Nat
      /\ Rangs(g, "T") = Avant(Ts, n)
      /\ \A x, y \in 1 .. n : SubSeq(g, x, y) = SubSeq(f, x, y)
  BY PrefixeDit
<1>2. /\ Ts \in SUBSET (1 .. Len(f)) /\ Ts \in SUBSET Nat /\ IsFiniteSet(Ts) /\ Cardinality(Ts) \in Nat
      /\ Len(f) \in Nat /\ Len(V) \in Nat
  BY RangsFinis, LenProperties
<1> HIDE DEF g, Ts
<1>3. /\ K \in Nat /\ K <= Cardinality(Avant(Ts, n)) /\ records = SubSeq(g, Rang(Avant(Ts, n), i), b)
  <2>1. i \in 1 .. Gardes(g)
    BY DEF g
  <2> QED BY <2>1, <1>1, TicksDits
<1>4. i \in 1 .. K /\ (i < K \/ (n = Len(f) /\ i = Cardinality(Ts)))
  BY DEF g, Ts
<1>5. \A j \in 1 .. K : j \in 1 .. Cardinality(Ts) /\ Rang(Avant(Ts, n), j) = Rang(Ts, j)
  <2> SUFFICES ASSUME NEW j \in 1 .. K PROVE j \in 1 .. Cardinality(Ts) /\ Rang(Avant(Ts, n), j) = Rang(Ts, j)
    OBVIOUS
  <2>1. Cardinality(Avant(Ts, n)) \in Nat
    BY <1>2, FS_Subset, FS_CardinalityType DEF Avant
  <2> HIDE DEF K
  <2>2. j \in 1 .. Cardinality(Avant(Ts, n))
    BY <1>3, <2>1
  <2> QED BY <2>2, <1>1, <1>2, RangCoupe
<1>6. a \in 1 .. n /\ b \in 1 .. n /\ a <= b
  <2>1. /\ Rang(Rangs(g, "T"), i) \in 1 .. Len(g) /\ Fin(g, Gardes(g), i) \in 1 .. Len(g)
        /\ Rang(Rangs(g, "T"), i) <= Fin(g, Gardes(g), i)
    BY <1>1, <1>4, TickBornes
  <2> QED BY <2>1, <1>1, <1>4, <1>5
<1>7. records = SubSeq(f, a, b)
  BY <1>1, <1>3, <1>4, <1>5, <1>6
<1>8. \A q \in 1 .. Len(f) : TickDe(f, q) = i <=> a <= q /\ q <= b
  <2> SUFFICES ASSUME NEW q \in 1 .. Len(f) PROVE TickDe(f, q) = i <=> a <= q /\ q <= b
    OBVIOUS
  <2>1. TickDe(f, q) = i <=> a <= q /\ (i = Cardinality(Ts) \/ q < Rang(Ts, i + 1))
    <3>1. q \in Nat /\ i \in 1 .. Cardinality(Ts)
      BY <1>2, <1>4, <1>5
    <3>2. TickDe(f, q) = Cardinality(Avant(Ts, q))
      BY DEF TickDe, Ts
    <3> QED BY <3>1, <3>2, <1>2, TickBorne
  <2>2. CASE i = K
    <3>1. n = Len(f) /\ i = Cardinality(Ts)
      <4> HIDE DEF K
      <4> QED BY <2>2, <1>3, <1>4
    <3>2. b = Len(f)
      BY <2>2, <3>1, <1>1 DEF Fin
    <3> HIDE DEF a, b, K
    <3> QED BY <2>1, <3>1, <3>2, <1>2
  <2>3. CASE i # K
    <3> HIDE DEF K
    <3>1. i + 1 \in 1 .. K /\ i \in Nat
      BY <2>3, <1>3, <1>4
    <3>2. i + 1 \in 1 .. Cardinality(Ts) /\ Rang(Avant(Ts, n), i + 1) = Rang(Ts, i + 1)
      BY <3>1, <1>5
    <3>3. b = Rang(Ts, i + 1) - 1
      BY <2>3, <3>2, <1>1 DEF Fin
    <3>4. Rang(Ts, i + 1) \in Nat /\ i # Cardinality(Ts)
      <4>1. Rang(Ts, i + 1) \in Ts
        BY <3>2, <1>2, RangDit
      <4>2. i + 1 <= Cardinality(Ts)
        BY <3>2, <1>2
      <4>3. Rang(Ts, i + 1) \in Nat
        BY <4>1, <1>2
      <4>4. i # Cardinality(Ts)
        BY <4>2, <3>1
      <4> QED BY <4>3, <4>4
    <3>5. q \in Nat
      BY <1>2
    <3> HIDE DEF a, b
    <3> QED BY <2>1, <3>3, <3>4, <3>5
  <2> QED BY <2>2, <2>3
<1>9. i \in Nat \ {0} /\ a \in 1 .. Len(f) /\ b \in 1 .. Len(f) /\ 0 \in {0, 1} /\ 1 \in {0, 1}
  <2> HIDE DEF a, b, K
  <2> QED BY <1>2, <1>3, <1>4, <1>6
<1> HIDE DEF a, b, K, records
<1>10. /\ 2 * i - 1 + 0 \in 1 .. Len(V) /\ 2 * i - 1 + 1 \in 1 .. Len(V)
       /\ 2 * i - 1 + 0 = 2 * i - 1 /\ 2 * i - 1 + 1 = 2 * i
       /\ 2 * i - 1 \in 1 .. Len(V) /\ 2 * i \in 1 .. Len(V) /\ 2 * i # 1 /\ 2 * i - 1 = (2 * i) - 1
  BY <1>2, <1>9
<1>11. e.api \in Ram /\ V[2 * i - 1] \in Ram /\ V[2 * i] \in Ram
  BY <1>10, ElementOfSeq DEF Etats
<1>12. Attendu(f, V, 2 * i) = Rom(V[2 * i - 1]) /\ Rom(V[2 * i - 1]) \in Ram
  BY <1>10, <1>11, RomRam DEF Attendu
<1>13. Appliquer(e.api, records, 0) = V[2 * i - 1]
  <2>1. Attendu(f, V, 2 * i - 1 + 0) \in Ram
    BY <1>10, <1>11
  <2>2. Appliquer(Attendu(f, V, 2 * i - 1 + 0), SubSeq(f, a, b), 0) = V[2 * i - 1 + 0]
    BY <2>1, <1>6, <1>8, <1>9, <1>10, SegmentJoue
  <2> QED BY <2>2, <1>7, <1>10
<1>14. Appliquer(Rom(V[2 * i - 1]), records, 1) = V[2 * i]
  <2>1. Attendu(f, V, 2 * i - 1 + 1) \in Ram
    BY <1>10, <1>12
  <2>2. Appliquer(Attendu(f, V, 2 * i - 1 + 1), SubSeq(f, a, b), 1) = V[2 * i - 1 + 1]
    BY <2>1, <1>6, <1>8, <1>9, <1>10, SegmentJoue
  <2> QED BY <2>2, <1>7, <1>10, <1>12
<1>15. JouerTick(e, records) =
         [api |-> Rom(V[2 * i]), phases |-> e.phases \o <<V[2 * i - 1], V[2 * i]>>]
  BY <1>13, <1>14 DEF JouerTick
<1> QED BY <1>15 DEF records, g

\* The phases played, two more at a time.
LEMMA DeuxDePlus ==
  ASSUME NEW V \in Seq(Ram), NEW i \in Nat \ {0}, 2 * i <= Len(V)
  PROVE  SubSeq(V, 1, 2 * (i - 1)) \o <<V[2 * i - 1], V[2 * i]>> = SubSeq(V, 1, 2 * i)
<1> DEFINE m == 2 * (i - 1)
           n == 2 * i
           g == SubSeq(V, 1, m)
           h == SubSeq(V, 1, n)
           p == <<V[n - 1], V[n]>>
<1>1. Len(V) \in Nat /\ m \in Int /\ n \in Int /\ m \in Nat /\ n = m + 2 /\ 1 \in Int /\ n <= Len(V)
  BY LenProperties
<1> HIDE DEF m, n
<1>2. \A k \in 1 .. n : V[k] \in Ram
  <2>1. \A k \in 1 .. n : k \in 1 .. Len(V)
    BY <1>1
  <2> QED BY <2>1, ElementOfSeq
<1>3. g \in Seq(Ram) /\ Len(g) = m /\ \A k \in 1 .. m : g[k] = V[k]
  <2>1. \A k \in 1 .. m : V[k] \in Ram
    BY <1>1, <1>2
  <2>2. g \in Seq(Ram)
    BY <1>1, <2>1, SubSeqProperties
  <2>3. Len(g) = (IF 1 <= m THEN m - 1 + 1 ELSE 0)
    BY <1>1, <2>1, SubSeqProperties
  <2>4. \A k \in 1 .. m - 1 + 1 : g[k] = V[1 + k - 1]
    BY <1>1, <2>1, SubSeqProperties
  <2> HIDE DEF g
  <2>5. m - 1 + 1 = m /\ \A k \in 1 .. m : 1 + k - 1 = k
    BY <1>1
  <2>6. Len(g) = m
    BY <1>1, <2>3
  <2> QED BY <2>2, <2>4, <2>5, <2>6
<1>4. h \in Seq(Ram) /\ Len(h) = n /\ \A k \in 1 .. n : h[k] = V[k]
  <2>2. h \in Seq(Ram)
    BY <1>1, <1>2, SubSeqProperties
  <2>3. Len(h) = (IF 1 <= n THEN n - 1 + 1 ELSE 0)
    BY <1>1, <1>2, SubSeqProperties
  <2>4. \A k \in 1 .. n - 1 + 1 : h[k] = V[1 + k - 1]
    BY <1>1, <1>2, SubSeqProperties
  <2> HIDE DEF h
  <2>5. n - 1 + 1 = n /\ \A k \in 1 .. n : 1 + k - 1 = k
    BY <1>1
  <2>6. Len(h) = n
    BY <1>1, <2>3
  <2> QED BY <2>2, <2>4, <2>5, <2>6
<1>5. p \in Seq(Ram) /\ Len(p) = 2 /\ p[1] = V[n - 1] /\ p[2] = V[n]
  <2>1. V[n - 1] \in Ram /\ V[n] \in Ram
    BY <1>1, <1>2
  <2> QED BY <2>1
<1> HIDE DEF g, h, p
<1>6. g \o p \in Seq(Ram) /\ Len(g \o p) = n
      /\ \A k \in 1 .. n : (g \o p)[k] = IF k <= m THEN g[k] ELSE p[k - m]
  <2>1. g \o p \in Seq(Ram) /\ Len(g \o p) = Len(g) + Len(p)
      /\ \A k \in 1 .. Len(g) + Len(p) : (g \o p)[k] = IF k <= Len(g) THEN g[k] ELSE p[k - Len(g)]
    <3>1. g \in Seq(Ram) /\ p \in Seq(Ram)
      BY <1>3, <1>5
    <3> QED BY <3>1, ConcatProperties
  <2>2. Len(g) = m /\ Len(g) + Len(p) = n
    BY <1>1, <1>3, <1>5
  <2> QED BY <2>1, <2>2
<1>7. \A k \in 1 .. n : (g \o p)[k] = h[k]
  <2> SUFFICES ASSUME NEW k \in 1 .. n PROVE (g \o p)[k] = h[k]
    OBVIOUS
  <2>1. CASE k <= m
    <3>1. k \in 1 .. m
      BY <2>1, <1>1
    <3> QED BY <3>1, <2>1, <1>3, <1>4, <1>6
  <2>2. CASE ~(k <= m)
    <3>1. (k = n - 1 /\ k - m = 1) \/ (k = n /\ k - m = 2)
      <4>1. k \in Int /\ k <= n /\ k > m
        BY <2>2, <1>1
      <4> QED BY <4>1, <1>1
    <3>2. (g \o p)[k] = p[k - m]
      BY <2>2, <1>6
    <3> QED BY <3>1, <3>2, <1>4, <1>5
  <2> QED BY <2>1, <2>2
<1>8. g \o p = h
  BY <1>4, <1>6, <1>7, SeqEqual
<1> QED BY <1>8 DEF g, h, p, m, n

\* The ticks played of a file cut at n, up to those whose records are all there.
LEMMA SuiteJouee ==
  ASSUME NEW f \in Seq(Recs), NEW V \in Seq(Ram), Histoire(f, V), NEW n \in 0 .. Len(f),
         Rangs(SubSeq(f, 1, n), "T") # {} => Depart(SubSeq(f, 1, n)) = Depart(f),
         NEW e, Suite(SubSeq(f, 1, n), e),
         NEW l \in 0 .. Gardes(SubSeq(f, 1, n)),
         l < Gardes(SubSeq(f, 1, n)) \/ (n = Len(f) /\ l = Cardinality(Rangs(f, "T"))),
         2 * l <= Len(V)
  PROVE  e[l].phases = SubSeq(V, 1, 2 * l)
<1> DEFINE g == SubSeq(f, 1, n)
           K == Gardes(g)
           Bon(i) == /\ e[i].phases = SubSeq(V, 1, 2 * i)
                     /\ i < K => e[i].api = Attendu(f, V, 2 * i + 1)
           T == {i \in Nat : Bon(i)}
<1>1. /\ K \in Nat /\ K <= Cardinality(Rangs(g, "T")) /\ Cardinality(Rangs(g, "T")) \in Nat
      /\ g \in Seq(Recs) /\ Len(V) \in Nat /\ l \in Nat /\ l <= K
  <2>1. g \in Seq(Recs)
    BY PrefixeDit
  <2>2. Gardes(g) \in Nat /\ Gardes(g) <= Cardinality(Rangs(g, "T"))
    <3> HIDE DEF g
    <3> QED BY <2>1, TicksDits
  <2>3. Cardinality(Rangs(g, "T")) \in Nat
    <3> HIDE DEF g
    <3> QED BY <2>1, RangsFinis
  <2>4. l \in 0 .. Gardes(g)
    OBVIOUS
  <2> HIDE DEF g
  <2>5. l \in Nat /\ l <= K
    BY <2>2, <2>4
  <2>6. Len(V) \in Nat
    BY LenProperties
  <2> QED BY <2>1, <2>2, <2>3, <2>5, <2>6
<1>2. /\ e \in [0 .. K -> Etats]
      /\ e[0] = [api |-> Depart(g), phases |-> <<>>]
      /\ \A i \in 1 .. K : e[i] = JouerTick(e[i - 1], Ticks(g)[i])
  BY DEF Suite
<1>3. 0 \in T
  <2>1. e[0].phases = SubSeq(V, 1, 2 * 0)
    <3>1. SubSeq(V, 1, 0) = <<>>
      BY SubSeqEmpty
    <3> QED BY <3>1, <1>2
  <2>2. 0 < K => e[0].api = Attendu(f, V, 2 * 0 + 1)
    <3> SUFFICES ASSUME 0 < K PROVE e[0].api = Attendu(f, V, 2 * 0 + 1)
      OBVIOUS
    <3>1. Rangs(g, "T") # {}
      <4> HIDE DEF g, K
      <4>1. Cardinality(Rangs(g, "T")) # 0
        BY <1>1
      <4> QED BY <4>1, FS_EmptySet
    <3>2. Depart(g) = Depart(f)
      BY <3>1
    <3>3. Attendu(f, V, 2 * 0 + 1) = Depart(f)
      BY DEF Attendu
    <3> QED BY <3>2, <3>3, <1>2
  <2> HIDE DEF K
  <2> QED BY <2>1, <2>2
<1>4. ASSUME NEW i \in 1 .. l, i - 1 \in T PROVE i \in T
  <2>1. i \in Nat \ {0} /\ i \in 1 .. K /\ i - 1 \in 0 .. K /\ i - 1 < K /\ 2 * i <= Len(V)
        /\ 2 * (i - 1) + 1 = 2 * i - 1
    <3> HIDE DEF K, T
    <3> QED BY <1>1
  <2>2. i < K \/ (n = Len(f) /\ i = Cardinality(Rangs(f, "T")))
    <3>1. l < K \/ (n = Len(f) /\ l = Cardinality(Rangs(f, "T")))
      OBVIOUS
    <3> HIDE DEF K, T
    <3>2. i < K \/ i = l
      BY <1>1
    <3> QED BY <3>1, <3>2, <1>1
  <2>3. e[i - 1].phases = SubSeq(V, 1, 2 * (i - 1)) /\ e[i - 1].api = Attendu(f, V, 2 * i - 1)
    <3>1. Bon(i - 1)
      BY <1>4
    <3> HIDE DEF K
    <3> QED BY <3>1, <2>1
  <2>4. e[i - 1] \in Etats
    <3> HIDE DEF K
    <3> QED BY <1>2, <2>1
  <2>5. JouerTick(e[i - 1], Ticks(g)[i]) =
          [api |-> Rom(V[2 * i]), phases |-> e[i - 1].phases \o <<V[2 * i - 1], V[2 * i]>>]
    BY <2>1, <2>2, <2>3, <2>4, TickJoue
  <2>6. e[i].phases = SubSeq(V, 1, 2 * i) /\ e[i].api = Rom(V[2 * i])
    <3>1. e[i] = JouerTick(e[i - 1], Ticks(g)[i])
      <4> HIDE DEF K
      <4> QED BY <1>2, <2>1
    <3>2. SubSeq(V, 1, 2 * (i - 1)) \o <<V[2 * i - 1], V[2 * i]>> = SubSeq(V, 1, 2 * i)
      BY <2>1, DeuxDePlus
    <3>3. e[i] = [api |-> Rom(V[2 * i]), phases |-> e[i - 1].phases \o <<V[2 * i - 1], V[2 * i]>>]
      BY <3>1, <2>5
    <3>4. e[i - 1].phases \o <<V[2 * i - 1], V[2 * i]>> = SubSeq(V, 1, 2 * i)
      BY <3>2, <2>3
    <3> DEFINE suite == e[i - 1].phases \o <<V[2 * i - 1], V[2 * i]>>
               apres == Rom(V[2 * i])
    <3>5. e[i] = [api |-> apres, phases |-> suite] /\ suite = SubSeq(V, 1, 2 * i)
      BY <3>3, <3>4
    <3> HIDE DEF g, K, suite, apres
    <3>6. e[i].phases = suite /\ e[i].api = apres
      BY <3>5
    <3> QED BY <3>5, <3>6 DEF apres
  <2>7. Attendu(f, V, 2 * i + 1) = Rom(V[2 * i])
    <3>1. 2 * i + 1 # 1 /\ (2 * i + 1) - 1 = 2 * i
      BY <2>1
    <3> QED BY <3>1 DEF Attendu
  <2> HIDE DEF K
  <2> QED BY <2>1, <2>6, <2>7
<1>5. l \in 0 .. l
  BY <1>1
<1> HIDE DEF T
<1>6. l \in T
  BY <1>1, <1>3, <1>4, <1>5, Recurrence
<1> QED BY <1>6 DEF T

LEMMA RejeuVide ==
  ASSUME NEW f \in Seq(Recs), Rangs(f, "T") = {}
  PROVE  Rejeu(f) = <<>>
<1>1. PICK e : Suite(f, e)
  BY RejeuSuite
<1>2. Gardes(f) = 0
  <2>1. Cardinality(Rangs(f, "T")) = 0
    BY FS_EmptySet
  <2>2. Table \in Nat /\ Table # 0
    BY EnregAssumption
  <2>3. 0 < Table
    BY <2>2
  <2> QED BY <2>1, <2>3 DEF Gardes
<1> QED BY <1>1, <1>2 DEF Suite

\* The replay of a file cut at n, whose last tick may lack records.
LEMMA RejeuCoupe ==
  ASSUME IInv, ~trou, NEW n \in 0 .. Len(fichier),
         NEW i \in 1 .. Len(Rejeu(SubSeq(fichier, 1, n))) - 2
  PROVE  \A m \in Surs : Rejeu(SubSeq(fichier, 1, n))[i][m] = vecu[i][m]
<1> DEFINE g == SubSeq(fichier, 1, n)
           K == Gardes(g)
           Ts == Rangs(fichier, "T")
<1>1. fichier \in Seq(Recs) /\ vecu \in Seq(Ram) /\ Cadre /\ Tete /\ Fidele
  BY DEF IInv, Cadre
<1>2. /\ g \in Seq(Recs) /\ Len(g) = n /\ n \in Nat
      /\ Rangs(g, "T") = Avant(Ts, n) /\ Rangs(g, "S") = Avant(Rangs(fichier, "S"), n)
      /\ \A j \in 1 .. n : g[j] = fichier[j]
  BY <1>1, PrefixeDit
<1>3. i \in 1 .. Len(Rejeu(g)) - 2
  OBVIOUS
<1> HIDE DEF g
<1>4. Rangs(g, "T") # {}
  <2> SUFFICES ASSUME Rangs(g, "T") = {} PROVE FALSE
    OBVIOUS
  <2>1. Rejeu(g) = <<>>
    BY <1>2, RejeuVide
  <2>2. Len(Rejeu(g)) = 0
    BY <2>1
  <2> QED BY <2>2, <1>3
<1>5. base
  <2>1. Ts # {}
    BY <1>2, <1>4 DEF Avant
  <2> QED BY <2>1, <1>1 DEF Tete
<1>6. PICK W : Histoire(fichier, W) /\ Accord(vecu, W, Surs)
  BY <1>1, <1>5 DEF Fidele
<1>20. /\ W \in Seq(Ram) /\ Len(W) = Len(vecu) /\ Len(W) >= 2 * Cardinality(Ts) - 1
       /\ Cardinality(Ts) \in Nat /\ Len(W) \in Nat
  <2>1. W \in Seq(Ram) /\ Len(W) = Len(vecu)
    BY <1>6 DEF Accord
  <2>2. Cardinality(Ts) \in Nat /\ Len(vecu) \in Nat
    BY <1>1, RangsFinis, LenProperties
  <2>3. Len(vecu) = 2 * Cardinality(Ts) - 1 \/ Len(vecu) = 2 * Cardinality(Ts)
    BY <1>1, <1>5 DEF Fidele, Suivi
  <2> HIDE DEF Ts
  <2> QED BY <2>1, <2>2, <2>3
<1>7. Depart(g) = Depart(fichier)
  <2>1. PICK s \in DOMAIN fichier : Rangs(fichier, "S") = {s} /\ \A q \in Ts : s < q
    BY <1>1, <1>5 DEF Tete
  <2>2. s \in 1 .. n
    <3>1. PICK q \in Ts : q <= n
      BY <1>2, <1>4 DEF Avant
    <3>2. s \in 1 .. Len(fichier) /\ q \in 1 .. Len(fichier) /\ s < q
      BY <2>1, <3>1, <1>1, LenProperties, RangsFinis
    <3> QED BY <3>1, <3>2, <1>2
  <2>3. Rangs(g, "S") = {s} /\ Rangs(fichier, "S") = {s}
    BY <2>1, <2>2, <1>2 DEF Avant
  <2>4. Dernier({s}) = s
    <3>1. {s} \in SUBSET Nat /\ IsFiniteSet({s}) /\ {s} # {}
      <4>1. IsFiniteSet({s})
        BY FS_Singleton
      <4> QED BY <4>1, <2>2
    <3>2. Dernier({s}) \in {s}
      BY <3>1, DernierDit
    <3> QED BY <3>2
  <2>5. g[s] = fichier[s]
    BY <2>2, <1>2
  <2> QED BY <2>3, <2>4, <2>5 DEF Depart
<1>8. PICK e : Suite(g, e)
  BY <1>2, RejeuSuite
<1>9. /\ e \in [0 .. K -> Etats] /\ Rejeu(g) = e[K].phases
      /\ \A j \in 1 .. K : e[j] = JouerTick(e[j - 1], Ticks(g)[j])
      /\ e[0].phases = <<>>
  BY <1>8 DEF Suite
<1>10. K \in Nat /\ K <= Cardinality(Ts) /\ \A j \in 1 .. K : Ticks(g)[j] \in Seq(Recs)
  <2>1. /\ K \in Nat /\ K <= Cardinality(Rangs(g, "T")) /\ \A j \in 1 .. K : Ticks(g)[j] \in Seq(Recs)
    BY <1>2, TicksDits
  <2>2. Cardinality(Avant(Ts, n)) <= Cardinality(Ts) /\ Cardinality(Avant(Ts, n)) \in Nat
    BY <1>1, RangsFinis, FS_Subset, FS_CardinalityType DEF Avant
  <2> HIDE DEF K, Ts
  <2> QED BY <2>1, <2>2, <1>2, <1>6, <1>20
<1> HIDE DEF Ts
<1>11. K # 0
  <2> SUFFICES ASSUME K = 0 PROVE FALSE
    OBVIOUS
  <2>1. Rejeu(g) = <<>>
    BY <1>9
  <2>2. Len(Rejeu(g)) = 0
    BY <2>1
  <2> QED BY <2>2, <1>3
<1>12. e[K - 1].phases = SubSeq(W, 1, 2 * (K - 1))
  <2>1. K - 1 \in 0 .. K /\ K - 1 < K /\ 2 * (K - 1) <= Len(W)
    <3> HIDE DEF K
    <3> QED BY <1>6, <1>20, <1>10, <1>11
  <2>2. K - 1 \in 0 .. Gardes(g) /\ K - 1 < Gardes(g)
    BY <2>1
  <2> HIDE DEF K
  <2>3. K - 1 \in 0 .. Gardes(SubSeq(fichier, 1, n)) /\ K - 1 < Gardes(SubSeq(fichier, 1, n))
        /\ Suite(SubSeq(fichier, 1, n), e) /\ Depart(SubSeq(fichier, 1, n)) = Depart(fichier)
    BY <2>2, <1>7, <1>8 DEF g
  <2> QED BY <2>1, <2>3, <1>1, <1>6, <1>20, SuiteJouee
<1> DEFINE m == 2 * (K - 1)
<1>13. e[K - 1] \in Etats /\ K \in 1 .. K /\ Ticks(g)[K] \in Seq(Recs) /\ m \in Nat /\ m <= Len(W)
  <2> HIDE DEF K
  <2>1. K - 1 \in 0 .. K /\ K \in 1 .. K
    BY <1>10, <1>11
  <2> QED BY <2>1, <1>6, <1>20, <1>9, <1>10
<1>14. PICK a \in Ram, b \in Ram : e[K].phases = e[K - 1].phases \o <<a, b>>
  <2>1. e[K] = JouerTick(e[K - 1], Ticks(g)[K])
    <3> HIDE DEF K
    <3> QED BY <1>9, <1>13
  <2> DEFINE aa == Appliquer(e[K - 1].api, Ticks(g)[K], 0)
             bb == Appliquer(Rom(aa), Ticks(g)[K], 1)
  <2>2. aa \in Ram /\ bb \in Ram
    <3>1. e[K - 1].api \in Ram
      BY <1>13 DEF Etats
    <3> QED BY <3>1, <1>13, AppliquerRam, RomRam
  <2>3. e[K].phases = e[K - 1].phases \o <<aa, bb>>
    BY <2>1 DEF JouerTick
  <2> HIDE DEF aa, bb
  <2> QED BY <2>2, <2>3
<1>15. /\ SubSeq(W, 1, m) \in Seq(Ram) /\ Len(SubSeq(W, 1, m)) = m
       /\ \A j \in 1 .. m : SubSeq(W, 1, m)[j] = W[j]
  <2> HIDE DEF m
  <2>1. 1 \in Int /\ m \in Int /\ \A j \in 1 .. m : W[j] \in Ram
    <3>1. \A j \in 1 .. m : j \in 1 .. Len(W)
      BY <1>6, <1>20, <1>13
    <3> QED BY <3>1, <1>13, <1>20, ElementOfSeq
  <2>2. SubSeq(W, 1, m) \in Seq(Ram)
    BY <2>1, SubSeqProperties
  <2>3. Len(SubSeq(W, 1, m)) = (IF 1 <= m THEN m - 1 + 1 ELSE 0)
    BY <2>1, SubSeqProperties
  <2>4. \A j \in 1 .. m - 1 + 1 : SubSeq(W, 1, m)[j] = W[1 + j - 1]
    BY <2>1, SubSeqProperties
  <2>5. m - 1 + 1 = m /\ \A j \in 1 .. m : 1 + j - 1 = j
    BY <1>13
  <2>6. Len(SubSeq(W, 1, m)) = m
    BY <1>13, <2>3
  <2> QED BY <2>2, <2>4, <2>5, <2>6
<1> HIDE DEF K
<1>16. Rejeu(g) = SubSeq(W, 1, m) \o <<a, b>>
  BY <1>9, <1>12, <1>14
<1> HIDE DEF m
<1> DEFINE d == SubSeq(W, 1, m)
<1>17. Len(d \o <<a, b>>) = m + 2 /\ \A j \in 1 .. m : (d \o <<a, b>>)[j] = d[j]
  <2>1. <<a, b>> \in Seq(Ram) /\ Len(<<a, b>>) = 2
    OBVIOUS
  <2>2. d \in Seq(Ram) /\ Len(d) = m
    BY <1>15
  <2> HIDE DEF d
  <2>3. Len(d \o <<a, b>>) = Len(d) + Len(<<a, b>>)
        /\ \A j \in 1 .. Len(d) + Len(<<a, b>>) : (d \o <<a, b>>)[j] =
              IF j <= Len(d) THEN d[j] ELSE <<a, b>>[j - Len(d)]
    BY <2>1, <2>2, ConcatProperties
  <2> QED BY <2>1, <2>2, <2>3, <1>13
<1>18. i \in 1 .. m
  BY <1>3, <1>13, <1>16, <1>17
<1>19. Rejeu(g)[i] = W[i]
  BY <1>15, <1>16, <1>17, <1>18
<1>21. i \in 1 .. Len(vecu)
  BY <1>13, <1>18, <1>20
<1>22. \A x \in Surs : W[i][x] = vecu[i][x]
  BY <1>6, <1>21 DEF Accord
<1>23. \A x \in Surs : Rejeu(g)[i][x] = vecu[i][x]
  BY <1>19, <1>22
<1> QED BY <1>23 DEF g

LEMMA RejeuEntier ==
  ASSUME IInv, ~trou, pc = "entre", Len(vecu) <= 2 * Table
  PROVE  /\ Len(Rejeu(fichier)) = Len(vecu)
         /\ \A i \in 1 .. Len(vecu) : \A m \in Surs : Rejeu(fichier)[i][m] = vecu[i][m]
<1> DEFINE n == Len(fichier)
           g == SubSeq(fichier, 1, n)
           N == Cardinality(Rangs(fichier, "T"))
<1>1. fichier \in Seq(Recs) /\ vecu \in Seq(Ram) /\ Cadre /\ Tete /\ Fidele
  BY DEF IInv, Cadre
<1>2. CASE ~base
  <2>1. Rejeu(fichier) = vecu
    BY <1>1, <1>2, RejeuVide DEF Tete
  <2> QED BY <2>1
<1>3. CASE base
  <2>0. PICK W : Histoire(fichier, W) /\ Accord(vecu, W, Surs)
    BY <1>1, <1>3 DEF Fidele
  <2>9. W \in Seq(Ram) /\ Len(W) = Len(vecu)
    BY <2>0 DEF Accord
  <2>1. Histoire(fichier, W) /\ Len(W) = 2 * N
    BY <1>1, <1>3, <2>0, <2>9 DEF Fidele, Suivi
  <2>2. N \in Nat /\ n \in Nat /\ n \in 0 .. n /\ Table \in Nat
    <3>1. N \in Nat /\ n \in Nat /\ Table \in Nat
      BY <1>1, RangsFinis, LenProperties, EnregAssumption
    <3> HIDE DEF n
    <3> QED BY <3>1
  <2>3. g = fichier
    BY <1>1, SubSeqFull
  <2>4. Gardes(fichier) = N
    <3>1. N <= Table
      <4> HIDE DEF N
      <4> QED BY <2>1, <2>2, <2>9
    <3>2. Gardes(fichier) = IF N < Table THEN N ELSE Table
      BY DEF Gardes
    <3> HIDE DEF N
    <3> QED BY <3>1, <3>2, <2>2
  <2>5. PICK e : Suite(fichier, e)
    BY <1>1, RejeuSuite
  <2>6. e[N].phases = SubSeq(W, 1, 2 * N)
    <3>1. N \in 0 .. Gardes(g) /\ 2 * N <= Len(W)
      <4> HIDE DEF N, g
      <4> QED BY <2>1, <2>2, <2>3, <2>4
    <3>2. Suite(g, e) /\ Depart(g) = Depart(fichier)
      BY <2>3, <2>5
    <3> QED BY <3>1, <3>2, <2>1, <2>2, <2>9, <1>1, SuiteJouee
  <2>7. Rejeu(fichier) = e[N].phases
    BY <2>4, <2>5 DEF Suite
  <2>8. SubSeq(W, 1, 2 * N) = W
    BY <2>1, <2>9, SubSeqFull
  <2>10. Rejeu(fichier) = W
    BY <2>6, <2>7, <2>8
  <2> QED BY <2>0, <2>9, <2>10 DEF Accord
<1> QED BY <1>2, <1>3

LEMMA IInvRejeu == IInv => RejeuFidele
<1> SUFFICES ASSUME IInv, ~trou PROVE RejeuFidele
  BY DEF RejeuFidele
<1>1. \A n \in 0 .. Len(fichier) :
        \A i \in 1 .. Len(Rejeu(SubSeq(fichier, 1, n))) - 2 :
          \A m \in Surs : Rejeu(SubSeq(fichier, 1, n))[i][m] = vecu[i][m]
  BY RejeuCoupe
<1>2. pc = "entre" /\ Len(vecu) <= 2 * Table =>
         /\ Len(Rejeu(fichier)) = Len(vecu)
         /\ \A i \in 1 .. Len(vecu) : \A m \in Surs : Rejeu(fichier)[i][m] = vecu[i][m]
  BY RejeuEntier
<1> QED BY <1>1, <1>2 DEF RejeuFidele

\* A replay plays the ROM on the API RAM that the bridge has played it on, phase for phase,
\* in the words that no write without a record has reached, whatever the length of the
\* recording, and wherever its file is cut.
THEOREM RejeuToujoursFidele == Spec => []RejeuFidele
BY IInvInit, IInvNext, IInvRejeu, PTL DEF Spec

-----------------------------------------------------------------------------
(* The account of layer1_tester.                                           *)

\* The writes of a word, apart from some, by value.
Ecritures(V, x, I) == {i \in I : V[i] = x}

\* The table of values after the fact: of the modifications, some have been given up, at
\* most one of each value and at least NVal + 1 in all each time the table overflowed; the
\* others are those it counts.
Compensee(V, val) ==
  \E M \in SUBSET (1 .. Len(V)), d \in Nat :
    /\ \A x \in Valeurs : Cardinality(Ecritures(V, x, (1 .. Len(V)) \ M)) = val.compte[x]
    /\ \A x \in Valeurs : Cardinality(Ecritures(V, x, M)) <= d
    /\ Cardinality(M) >= (NVal + 1) * d
    /\ ~val.plus => d = 0

Bilans ==
  {c \in [arm: Nat, val: [compte: [Valeurs -> Nat], plus: BOOLEAN], vues: Seq(Valeurs),
          pend: BOOLEAN, depuis: Int, conso: Nat, latence: Int, ecrase: Nat] :
     Conserves(c) /\ c.arm = Len(c.vues) /\ Compensee(c.vues, c.val)}

LEMMA BilanVide == SansCompte \in Bilans
<1> DEFINE c == SansCompte
<1>1. /\ c.vues = <<>> /\ c.val = SansValeur /\ c.arm = 0 /\ c.conso = 0 /\ c.ecrase = 0
      /\ c.pend = FALSE
  BY DEF SansCompte
<1>2. c \in [arm: Nat, val: [compte: [Valeurs -> Nat], plus: BOOLEAN], vues: Seq(Valeurs),
             pend: BOOLEAN, depuis: Int, conso: Nat, latence: Int, ecrase: Nat]
  <2>1. SansValeur \in [compte: [Valeurs -> Nat], plus: BOOLEAN]
    BY DEF SansValeur
  <2>2. <<>> \in Seq(Valeurs)
    BY EmptySeq
  <2> QED BY <2>1, <2>2 DEF SansCompte
<1> HIDE DEF c
<1>3. Len(c.vues) = 0 /\ 1 .. Len(c.vues) = {}
  BY <1>1
<1>4. Compensee(c.vues, c.val)
  <2>1. \A x \in Valeurs : c.val.compte[x] = 0
    BY <1>1 DEF SansValeur
  <2>2. {} \in SUBSET (1 .. Len(c.vues)) /\ 0 \in Nat
    OBVIOUS
  <2>3. \A x : Ecritures(c.vues, x, (1 .. Len(c.vues)) \ {}) = {} /\ Ecritures(c.vues, x, {}) = {}
    BY <1>3 DEF Ecritures
  <2>4. Cardinality({}) = 0
    BY FS_EmptySet
  <2>5. (NVal + 1) * 0 = 0
    <3>1. NVal \in Nat
      BY EnregAssumption
    <3> QED BY <3>1
  <2>6. /\ \A x \in Valeurs : Cardinality(Ecritures(c.vues, x, (1 .. Len(c.vues)) \ {})) = c.val.compte[x]
        /\ \A x \in Valeurs : Cardinality(Ecritures(c.vues, x, {})) <= 0
    <3>1. \A x : Cardinality(Ecritures(c.vues, x, (1 .. Len(c.vues)) \ {})) = Cardinality({})
      BY <2>3, Zenon
    <3>2. \A x : Cardinality(Ecritures(c.vues, x, {})) = Cardinality({})
      BY <2>3, Zenon
    <3> QED BY <3>1, <3>2, <2>1, <2>4
  <2>7. Cardinality({}) >= (NVal + 1) * 0
    BY <2>4, <2>5
  <2> QED BY <2>2, <2>6, <2>7 DEF Compensee
<1>5. Conserves(c)
  BY <1>1 DEF Conserves
<1> QED BY <1>1, <1>2, <1>3, <1>4, <1>5 DEF Bilans, c

\* What a set of ranks gains or loses.
LEMMA EcrituresFinies ==
  ASSUME NEW V \in Seq(Valeurs), NEW I \in SUBSET (1 .. Len(V)), NEW x
  PROVE  /\ {i \in I : V[i] = x} \in SUBSET (1 .. Len(V)) /\ IsFiniteSet({i \in I : V[i] = x})
         /\ Cardinality({i \in I : V[i] = x}) \in Nat
         /\ IsFiniteSet(I) /\ Cardinality(I) \in Nat
<1>1. IsFiniteSet(1 .. Len(V))
  BY LenProperties, IntervalleFini
<1> QED BY <1>1, FS_Subset, FS_CardinalityType

\* A value counted.
LEMMA CompterValeur ==
  ASSUME NEW c \in Bilans, NEW v \in Valeurs, NEW b,
         b.vues = Append(c.vues, v), b.val = [c.val EXCEPT !.compte[v] = @ + 1]
  PROVE  Compensee(b.vues, b.val)
<1> DEFINE V == c.vues
           W == b.vues
           l == Len(V) + 1
<1>1. /\ V \in Seq(Valeurs) /\ c.val.compte \in [Valeurs -> Nat] /\ c.val \in [compte: [Valeurs -> Nat], plus: BOOLEAN]
      /\ Len(V) \in Nat
  BY LenProperties DEF Bilans
<1>2. /\ W \in Seq(Valeurs) /\ Len(W) = l /\ W[l] = v /\ \A i \in 1 .. Len(V) : W[i] = V[i]
  BY <1>1, AppendProperties
<1>3. b.val.plus = c.val.plus
      /\ \A x \in Valeurs : b.val.compte[x] = IF x = v THEN c.val.compte[x] + 1 ELSE c.val.compte[x]
  BY <1>1
<1>4. PICK M \in SUBSET (1 .. Len(V)), d \in Nat :
        /\ \A x \in Valeurs : Cardinality(Ecritures(c.vues, x, (1 .. Len(V)) \ M)) = c.val.compte[x]
        /\ \A x \in Valeurs : Cardinality(Ecritures(c.vues, x, M)) <= d
        /\ Cardinality(M) >= (NVal + 1) * d
        /\ ~c.val.plus => d = 0
  BY DEF Bilans, Compensee
<1> HIDE DEF V, W
<1>5. l \notin 1 .. Len(V) /\ 1 .. Len(W) = (1 .. Len(V)) \cup {l} /\ l \notin M
  BY <1>1, <1>2
<1>6. M \in SUBSET (1 .. Len(W))
  BY <1>5
<1>7. \A x \in Valeurs : Ecritures(b.vues, x, M) = Ecritures(c.vues, x, M)
  BY <1>2 DEF Ecritures, V, W
<1>8. ASSUME NEW x \in Valeurs
      PROVE  Cardinality(Ecritures(b.vues, x, (1 .. Len(W)) \ M)) = b.val.compte[x]
  <2> DEFINE E == Ecritures(c.vues, x, (1 .. Len(V)) \ M)
             F == Ecritures(b.vues, x, (1 .. Len(W)) \ M)
  <2>1. F = IF x = v THEN E \cup {l} ELSE E
    <3>1. \A i \in (1 .. Len(V)) \ M : W[i] = V[i]
      BY <1>2
    <3>2. (1 .. Len(W)) \ M = ((1 .. Len(V)) \ M) \cup {l}
      BY <1>5
    <3> QED BY <1>2, <3>1, <3>2 DEF Ecritures, V, W
  <2>2. IsFiniteSet(E) /\ Cardinality(E) = c.val.compte[x] /\ l \notin E
    <3>1. (1 .. Len(V)) \ M \in SUBSET (1 .. Len(V))
      OBVIOUS
    <3>2. IsFiniteSet({i \in (1 .. Len(V)) \ M : V[i] = x})
      BY <3>1, <1>1, EcrituresFinies
    <3>3. l \notin E
      BY <1>5 DEF Ecritures
    <3>4. IsFiniteSet(E)
      BY <3>2 DEF Ecritures, V
    <3>5. Cardinality(E) = c.val.compte[x]
      BY <1>4 DEF V
    <3> QED BY <3>3, <3>4, <3>5
  <2> HIDE DEF E, F
  <2>3. Cardinality(E \cup {l}) = Cardinality(E) + 1
    BY <2>2, FS_AddElement
  <2>4. Cardinality(F) = b.val.compte[x]
    BY <2>1, <2>2, <2>3, <1>3
  <2> QED BY <2>4 DEF F
<1>9. \A x \in Valeurs : Cardinality(Ecritures(b.vues, x, M)) <= d
  BY <1>4, <1>7
<1>10. /\ \A x \in Valeurs : Cardinality(Ecritures(b.vues, x, (1 .. Len(b.vues)) \ M)) = b.val.compte[x]
       /\ M \in SUBSET (1 .. Len(b.vues))
  BY <1>6, <1>8 DEF W
<1> QED BY <1>3, <1>4, <1>9, <1>10 DEF Compensee

\* An overflow: the newcomer is given up with one of each value of the table.
LEMMA PerdreValeurs ==
  ASSUME NEW c \in Bilans, NEW v \in Valeurs, NEW b,
         v \notin Presentes(c.val), ~(Cardinality(Presentes(c.val)) < NVal),
         b.vues = Append(c.vues, v),
         b.val = [compte |-> [y \in Valeurs |-> IF c.val.compte[y] > 0 THEN c.val.compte[y] - 1 ELSE 0],
                  plus |-> TRUE]
  PROVE  Compensee(b.vues, b.val)
<1> DEFINE V == c.vues
           W == b.vues
           l == Len(V) + 1
           P == Presentes(c.val)
<1>1. V \in Seq(Valeurs) /\ c.val.compte \in [Valeurs -> Nat] /\ Len(V) \in Nat
  BY LenProperties DEF Bilans
<1>2. /\ W \in Seq(Valeurs) /\ Len(W) = l /\ W[l] = v /\ \A i \in 1 .. Len(V) : W[i] = V[i]
  BY <1>1, AppendProperties
<1>3. /\ b.val.plus = TRUE
      /\ \A x \in Valeurs : b.val.compte[x] = IF x \in P THEN c.val.compte[x] - 1 ELSE 0
      /\ \A x \in Valeurs : x \notin P => c.val.compte[x] = 0
      /\ P \subseteq Valeurs
  BY <1>1 DEF Presentes
<1>4. PICK M \in SUBSET (1 .. Len(V)), d \in Nat :
        /\ \A x \in Valeurs : Cardinality(Ecritures(c.vues, x, (1 .. Len(V)) \ M)) = c.val.compte[x]
        /\ \A x \in Valeurs : Cardinality(Ecritures(c.vues, x, M)) <= d
        /\ Cardinality(M) >= (NVal + 1) * d
  BY DEF Bilans, Compensee
<1> DEFINE U == (1 .. Len(V)) \ M
           un == [y \in P |-> CHOOSE i \in U : V[i] = y]
           I == {un[y] : y \in P}
           N == M \cup I \cup {l}
<1> HIDE DEF V, W, P
<1>5. l \notin 1 .. Len(V) /\ 1 .. Len(W) = (1 .. Len(V)) \cup {l} /\ l \notin M /\ l \in 1 .. Len(W)
  BY <1>1, <1>2
<1>6. \A y \in P : un[y] \in U /\ V[un[y]] = y
  <2> SUFFICES ASSUME NEW y \in P PROVE \E i \in U : V[i] = y
    OBVIOUS
  <2>1. Cardinality(Ecritures(c.vues, y, U)) # 0
    <3>1. y \in Valeurs /\ c.val.compte[y] > 0 /\ c.val.compte[y] \in Nat
      BY <1>1 DEF P, Presentes
    <3>2. Cardinality(Ecritures(c.vues, y, U)) = c.val.compte[y]
      BY <3>1, <1>4
    <3> HIDE DEF U
    <3> QED BY <3>1, <3>2
  <2>2. Ecritures(c.vues, y, U) # {}
    BY <2>1, FS_EmptySet
  <2> QED BY <2>2 DEF Ecritures, V
<1>7. I \in SUBSET U /\ \A i \in I : V[i] \in P /\ un[V[i]] = i
  <2> HIDE DEF U, un
  <2> QED BY <1>6
<1>8. IsFiniteSet(I) /\ IsFiniteSet(M) /\ Cardinality(M) \in Nat /\ IsFiniteSet(M \cup I)
  <2> HIDE DEF un, I
  <2>1. IsFiniteSet(1 .. Len(V))
    BY <1>1, IntervalleFini
  <2>2. I \in SUBSET (1 .. Len(V)) /\ M \cup I \in SUBSET (1 .. Len(V))
    BY <1>7
  <2> QED BY <2>1, <2>2, FS_Subset, FS_CardinalityType
<1> HIDE DEF U, un, I
<1>9. Cardinality(P) = Cardinality(I) /\ Cardinality(I) \in Nat
  <2> DEFINE h == [i \in I |-> V[i]]
  <2>1. h \in [I -> P]
    BY <1>7
  <2>2. \A i, j \in I : h[i] = h[j] => i = j
    BY <1>7
  <2>3. \A y \in P : \E i \in I : h[i] = y
    <3> SUFFICES ASSUME NEW y \in P PROVE \E i \in I : h[i] = y
      OBVIOUS
    <3>1. un[y] \in I /\ V[un[y]] = y
      BY <1>6 DEF I
    <3> QED BY <3>1
  <2> HIDE DEF h
  <2>4. h \in Bijection(I, P)
    BY <2>1, <2>2, <2>3 DEF Bijection, Injection, Surjection, IsInjective
  <2>5. ExistsBijection(I, P)
    BY <2>4 DEF ExistsBijection
  <2> QED BY <2>5, <1>8, FS_Bijection, FS_CardinalityType
<1>10. Cardinality(N) >= (NVal + 1) * (d + 1)
  <2>1. Cardinality(P) >= NVal /\ NVal \in Nat
    <3>1. ~(Cardinality(P) < NVal) /\ NVal \in Nat
      BY EnregAssumption DEF P
    <3> QED BY <3>1, <1>9
  <2>2. Cardinality(M \cup I) = Cardinality(M) + Cardinality(I)
    <3>1. M \cap I = {}
      BY <1>7 DEF U
    <3>2. Cardinality(M \cup I) = Cardinality(M) + Cardinality(I) - Cardinality({})
      BY <3>1, <1>8, FS_Union
    <3> QED BY <3>2, <1>8, <1>9, FS_EmptySet
  <2>3. l \notin M \cup I
    BY <1>5, <1>7 DEF U
  <2>4. Cardinality(N) = Cardinality(M \cup I) + 1
    BY <2>3, <1>8, FS_AddElement
  <2>5. (NVal + 1) * (d + 1) = (NVal + 1) * d + NVal + 1
    BY <2>1
  <2>6. (NVal + 1) * d \in Nat
    BY <2>1
  <2> HIDE DEF N
  <2> QED BY <2>1, <2>2, <2>4, <2>5, <2>6, <1>4, <1>8, <1>9
<1>11. N \in SUBSET (1 .. Len(W))
  BY <1>5, <1>7 DEF U
<1>12. ASSUME NEW x \in Valeurs
       PROVE  Cardinality(Ecritures(b.vues, x, (1 .. Len(W)) \ N)) = b.val.compte[x]
  <2> DEFINE E == Ecritures(c.vues, x, U)
             F == Ecritures(b.vues, x, (1 .. Len(W)) \ N)
  <2>1. IsFiniteSet(E) /\ Cardinality(E) = c.val.compte[x] /\ c.val.compte[x] \in Nat
    <3>1. U \in SUBSET (1 .. Len(V))
      BY DEF U
    <3>2. IsFiniteSet(E)
      BY <3>1, <1>1, EcrituresFinies DEF Ecritures, V
    <3> QED BY <3>2, <1>1, <1>4 DEF U
  <2>2. F = {i \in U \ I : V[i] = x}
    <3>1. (1 .. Len(W)) \ N = U \ I
      BY <1>5 DEF U
    <3>2. \A i \in U : W[i] = V[i]
      BY <1>2 DEF U
    <3> HIDE DEF N
    <3> QED BY <3>1, <3>2 DEF Ecritures, W
  <2>3. E = {i \in U : V[i] = x}
    BY DEF Ecritures, V
  <2>4. CASE x \in P
    <3>1. F = E \ {un[x]}
      <4>1. \A i \in U : V[i] = x => (i \in I <=> i = un[x])
        BY <1>6, <1>7, <2>4 DEF I
      <4> QED BY <4>1, <2>2, <2>3
    <3>2. un[x] \in E
      BY <1>6, <2>3, <2>4
    <3> HIDE DEF E, F
    <3>3. Cardinality(F) = Cardinality(E) - 1
      BY <3>1, <3>2, <2>1, FS_RemoveElement
    <3> QED BY <3>3, <2>1, <2>4, <1>3 DEF F
  <2>5. CASE x \notin P
    <3>1. Cardinality(E) = 0
      BY <2>1, <2>5, <1>3
    <3>2. E = {}
      BY <3>1, <2>1, FS_EmptySet
    <3>3. F = {}
      BY <3>2, <2>2, <2>3
    <3> HIDE DEF E, F
    <3> QED BY <3>3, <2>5, <1>3, FS_EmptySet DEF F
  <2> QED BY <2>4, <2>5
<1>13. ASSUME NEW x \in Valeurs PROVE Cardinality(Ecritures(b.vues, x, N)) <= d + 1
  <2> DEFINE E == Ecritures(c.vues, x, M)
             F == Ecritures(b.vues, x, N)
  <2>1. IsFiniteSet(E) /\ Cardinality(E) <= d /\ Cardinality(E) \in Nat
    <3>1. IsFiniteSet(E) /\ Cardinality(E) \in Nat
      BY <1>1, EcrituresFinies DEF Ecritures, V
    <3> QED BY <3>1, <1>4
  <2>2. PICK z : F \subseteq E \cup {z}
    <3>1. \A i \in M : W[i] = V[i]
      BY <1>2
    <3>2. \A i \in I : W[i] = V[i]
      BY <1>2, <1>7 DEF U
    <3>3. F = {i \in N : W[i] = x} /\ E = {i \in M : V[i] = x}
      BY DEF Ecritures, V, W
    <3>4. CASE x = v
      <4>1. \A i \in I : W[i] # x
        BY <3>2, <3>4, <1>7 DEF P
      <4>2. F \subseteq E \cup {l}
        <5> HIDE DEF E, F
        <5> QED BY <3>1, <3>3, <4>1
      <4> QED BY <4>2
    <3>5. CASE x # v
      <4>1. \A i \in I : W[i] = x => i = un[x]
        BY <3>2, <1>7
      <4>2. F \subseteq E \cup {un[x]}
        <5> HIDE DEF E, F
        <5> QED BY <3>1, <3>3, <3>5, <4>1, <1>2
      <4> QED BY <4>2
    <3> QED BY <3>4, <3>5
  <2> HIDE DEF E, F
  <2>3. Cardinality(E \cup {z}) <= Cardinality(E) + 1 /\ IsFiniteSet(E \cup {z}) /\ Cardinality(E \cup {z}) \in Nat
    <3>1. CASE z \in E
      <4>1. E \cup {z} = E
        BY <3>1
      <4>2. Cardinality(E) <= Cardinality(E) + 1
        BY <2>1
      <4> QED BY <4>1, <4>2, <2>1
    <3>2. CASE z \notin E
      <4>1. IsFiniteSet(E \cup {z}) /\ Cardinality(E \cup {z}) = Cardinality(E) + 1
        BY <3>2, <2>1, FS_AddElement
      <4> QED BY <4>1, <2>1
    <3> QED BY <3>1, <3>2
  <2>4. Cardinality(F) <= Cardinality(E \cup {z}) /\ Cardinality(F) \in Nat
    BY <2>2, <2>3, FS_Subset, FS_CardinalityType
  <2>5. Cardinality(F) <= d + 1
    BY <2>1, <2>3, <2>4
  <2> QED BY <2>5 DEF F
<1> HIDE DEF N
<1>14. /\ N \in SUBSET (1 .. Len(b.vues))
       /\ \A x \in Valeurs : Cardinality(Ecritures(b.vues, x, (1 .. Len(b.vues)) \ N)) = b.val.compte[x]
  BY <1>11, <1>12 DEF W
<1>15. d + 1 \in Nat
  OBVIOUS
<1> QED BY <1>3, <1>10, <1>13, <1>14, <1>15 DEF Compensee

\* A modification of the ARM, whatever becomes of its value.
LEMMA EcrireArmBilan ==
  ASSUME NEW c \in Bilans, NEW v \in Valeurs, NEW t \in Int
  PROVE  EcrireArm(c, v, t) \in Bilans
<1> DEFINE b == EcrireArm(c, v, t)
           Types == [arm: Nat, val: [compte: [Valeurs -> Nat], plus: BOOLEAN], vues: Seq(Valeurs),
                     pend: BOOLEAN, depuis: Int, conso: Nat, latence: Int, ecrase: Nat]
<1>1. c \in Types /\ Conserves(c) /\ c.arm = Len(c.vues)
  BY DEF Bilans
<1>2. /\ c.arm \in Nat /\ c.val \in [compte: [Valeurs -> Nat], plus: BOOLEAN] /\ c.vues \in Seq(Valeurs)
      /\ c.conso \in Nat /\ c.ecrase \in Nat /\ c.pend \in BOOLEAN
  BY <1>1
<1>3. Valeur(c.val, v) \in [compte: [Valeurs -> Nat], plus: BOOLEAN]
  <2>1. \A y \in Valeurs : c.val.compte[y] \in Nat /\ (c.val.compte[y] > 0 => c.val.compte[y] - 1 \in Nat)
    BY <1>2
  <2>2. [c.val EXCEPT !.compte[v] = @ + 1] \in [compte: [Valeurs -> Nat], plus: BOOLEAN]
    BY <1>2
  <2>3. [compte |-> [y \in Valeurs |-> IF c.val.compte[y] > 0 THEN c.val.compte[y] - 1 ELSE 0],
         plus |-> TRUE] \in [compte: [Valeurs -> Nat], plus: BOOLEAN]
    BY <2>1
  <2> QED BY <2>2, <2>3 DEF Valeur
<1>4. Append(c.vues, v) \in Seq(Valeurs) /\ Len(Append(c.vues, v)) = Len(c.vues) + 1
  BY <1>2, AppendProperties
<1> DEFINE val == Valeur(c.val, v)
           vues == Append(c.vues, v)
           ecrase == IF c.pend THEN c.ecrase + 1 ELSE c.ecrase
<1>5. b = [c EXCEPT !.arm = c.arm + 1, !.val = val, !.vues = vues, !.ecrase = ecrase,
                    !.pend = TRUE, !.depuis = t]
  BY DEF EcrireArm
<1>6. val \in [compte: [Valeurs -> Nat], plus: BOOLEAN] /\ vues \in Seq(Valeurs) /\ ecrase \in Nat
  BY <1>2, <1>3, <1>4
<1> HIDE DEF b, val, vues, ecrase
<1>7. /\ b \in Types /\ b.arm = c.arm + 1 /\ b.val = val /\ b.vues = vues /\ b.ecrase = ecrase
      /\ b.pend = TRUE /\ b.conso = c.conso
  <2>1. b \in Types
    <3> DEFINE arm == c.arm + 1
    <3>1. b = [arm |-> arm, val |-> val, vues |-> vues, pend |-> TRUE, depuis |-> t,
               conso |-> c.conso, latence |-> c.latence, ecrase |-> ecrase]
      BY <1>1, <1>5
    <3>2. arm \in Nat /\ c.conso \in Nat /\ c.latence \in Int
      BY <1>1
    <3> HIDE DEF arm
    <3> QED BY <3>1, <3>2, <1>6
  <2>2. b.arm = c.arm + 1 /\ b.val = val /\ b.vues = vues
    BY <1>1, <1>5
  <2>3. b.ecrase = ecrase /\ b.pend = TRUE /\ b.conso = c.conso
    BY <1>1, <1>5
  <2> QED BY <2>1, <2>2, <2>3
<1>8. Conserves(b)
  <2>1. c.arm = c.conso + c.ecrase + (IF c.pend THEN 1 ELSE 0)
    BY <1>1 DEF Conserves
  <2>2. b.arm = b.conso + b.ecrase + 1
    <3>1. CASE c.pend
      BY <3>1, <2>1, <1>2, <1>7 DEF ecrase
    <3>2. CASE ~c.pend
      BY <3>2, <2>1, <1>2, <1>7 DEF ecrase
    <3> QED BY <3>1, <3>2
  <2> QED BY <2>2, <1>7 DEF Conserves
<1>9. b.arm = Len(b.vues)
  BY <1>1, <1>4, <1>7 DEF vues
<1>10. Compensee(b.vues, b.val)
  <2>1. CASE v \in Presentes(c.val) \/ Cardinality(Presentes(c.val)) < NVal
    <3>1. val = [c.val EXCEPT !.compte[v] = @ + 1]
      BY <2>1 DEF val, Valeur
    <3> QED BY <3>1, <1>7, CompterValeur DEF vues
  <2>2. CASE ~(v \in Presentes(c.val) \/ Cardinality(Presentes(c.val)) < NVal)
    <3>1. val = [compte |-> [y \in Valeurs |-> IF c.val.compte[y] > 0 THEN c.val.compte[y] - 1 ELSE 0],
                 plus |-> TRUE]
      BY <2>2 DEF val, Valeur
    <3> QED BY <3>1, <2>2, <1>7, PerdreValeurs DEF vues
  <2> QED BY <2>1, <2>2
<1>11. b \in Bilans
  BY <1>7, <1>8, <1>9, <1>10 DEF Bilans
<1> QED BY <1>11 DEF b

\* A read of the ROM.
LEMMA LireRomBilan ==
  ASSUME NEW c \in Bilans, NEW t \in Int
  PROVE  LireRom(c, t) \in Bilans
<1>1. CASE ~c.pend
  BY <1>1 DEF LireRom
<1>2. CASE c.pend
  <2> DEFINE b == LireRom(c, t)
             Types == [arm: Nat, val: [compte: [Valeurs -> Nat], plus: BOOLEAN], vues: Seq(Valeurs),
                       pend: BOOLEAN, depuis: Int, conso: Nat, latence: Int, ecrase: Nat]
             latence == c.latence + t - c.depuis
  <2>1. c \in Types /\ Conserves(c) /\ c.arm = Len(c.vues) /\ Compensee(c.vues, c.val)
    BY DEF Bilans
  <2>2. c.arm \in Nat /\ c.conso \in Nat /\ c.ecrase \in Nat /\ latence \in Int
    BY <2>1
  <2>3. b = [c EXCEPT !.pend = FALSE, !.conso = c.conso + 1, !.latence = latence]
    BY <1>2 DEF LireRom
  <2> HIDE DEF b, latence
  <2>4. /\ b \in Types /\ b.arm = c.arm /\ b.val = c.val /\ b.vues = c.vues /\ b.ecrase = c.ecrase
        /\ b.pend = FALSE /\ b.conso = c.conso + 1
    <3>1. b \in Types
      <4> DEFINE conso == c.conso + 1
      <4>1. b = [arm |-> c.arm, val |-> c.val, vues |-> c.vues, pend |-> FALSE, depuis |-> c.depuis,
                 conso |-> conso, latence |-> latence, ecrase |-> c.ecrase]
        BY <2>1, <2>3
      <4>2. /\ c.arm \in Nat /\ c.val \in [compte: [Valeurs -> Nat], plus: BOOLEAN]
            /\ c.vues \in Seq(Valeurs) /\ c.depuis \in Int /\ conso \in Nat /\ c.ecrase \in Nat
        BY <2>1
      <4> HIDE DEF conso
      <4> QED BY <4>1, <4>2, <2>2
    <3>2. b.arm = c.arm /\ b.val = c.val /\ b.vues = c.vues
      BY <2>1, <2>3
    <3>3. b.ecrase = c.ecrase /\ b.pend = FALSE /\ b.conso = c.conso + 1
      BY <2>1, <2>3
    <3> QED BY <3>1, <3>2, <3>3
  <2>5. Conserves(b)
    <3>1. c.arm = c.conso + c.ecrase + 1
      BY <1>2, <2>1 DEF Conserves
    <3>2. b.arm = b.conso + b.ecrase + 0
      <4>1. \A x, y \in Nat : x + y + 1 = (x + 1) + y + 0
        OBVIOUS
      <4>2. b.arm = c.conso + c.ecrase + 1
        BY <3>1, <2>4
      <4> QED BY <4>1, <4>2, <2>2, <2>4
    <3> QED BY <3>2, <2>4 DEF Conserves
  <2>6. Compensee(b.vues, b.val)
    <3>1. b.val = c.val /\ b.vues = c.vues /\ Compensee(c.vues, c.val)
      BY <2>1, <2>4
    <3> QED BY <3>1
  <2>7. b \in Bilans
    BY <2>1, <2>4, <2>5, <2>6 DEF Bilans
  <2> QED BY <2>7 DEF b
<1> QED BY <1>1, <1>2

\* What a word owes to its account.
LEMMA BilanTable ==
  ASSUME NEW c \in Bilans PROVE Conserves(c) /\ TableJuste(c)
<1> DEFINE V == c.vues
<1>1. V \in Seq(Valeurs) /\ Len(V) \in Nat /\ c.arm = Len(V) /\ Conserves(c)
      /\ c.val.compte \in [Valeurs -> Nat]
  BY LenProperties DEF Bilans
<1>2. PICK M \in SUBSET (1 .. Len(V)), d \in Nat :
        /\ \A x \in Valeurs : Cardinality(Ecritures(c.vues, x, (1 .. Len(V)) \ M)) = c.val.compte[x]
        /\ \A x \in Valeurs : Cardinality(Ecritures(c.vues, x, M)) <= d
        /\ Cardinality(M) >= (NVal + 1) * d
        /\ ~c.val.plus => d = 0
  BY DEF Bilans, Compensee
<1> HIDE DEF V
<1>3. Cardinality(M) \in Nat /\ Cardinality(M) <= Len(V)
  <2>1. IsFiniteSet(1 .. Len(V)) /\ Cardinality(1 .. Len(V)) = Len(V)
    BY <1>1, IntervalleFini
  <2> QED BY <2>1, FS_Subset, FS_CardinalityType
<1>4. ASSUME NEW x \in Valeurs
      PROVE  /\ c.val.compte[x] <= Occurrences(c, x)
             /\ ~c.val.plus => c.val.compte[x] = Occurrences(c, x)
             /\ Occurrences(c, x) * (NVal + 1) > c.arm => x \in Presentes(c.val)
  <2> DEFINE E == Ecritures(c.vues, x, (1 .. Len(V)) \ M)
             F == Ecritures(c.vues, x, M)
             o == Occurrences(c, x)
  <2>1. /\ IsFiniteSet(E) /\ Cardinality(E) \in Nat /\ IsFiniteSet(F) /\ Cardinality(F) \in Nat
    <3>1. (1 .. Len(V)) \ M \in SUBSET (1 .. Len(V))
      OBVIOUS
    <3> QED BY <3>1, <1>1, EcrituresFinies DEF Ecritures, V
  <2>2. E \cap F = {} /\ E \cup F = {i \in DOMAIN c.vues : c.vues[i] = x}
    BY <1>1, LenProperties DEF Ecritures, V
  <2>3. o = Cardinality(E) + Cardinality(F)
    <3> HIDE DEF E, F
    <3>1. Cardinality(E \cup F) = Cardinality(E) + Cardinality(F) - Cardinality({})
      BY <2>1, <2>2, FS_Union
    <3>2. Cardinality(E \cup F) = o
      BY <2>2 DEF Occurrences
    <3> QED BY <2>1, <3>1, <3>2, FS_EmptySet
  <2>4. Cardinality(E) = c.val.compte[x] /\ Cardinality(F) <= d
    BY <1>2
  <2> HIDE DEF E, F, o
  <2>5. c.val.compte[x] <= o /\ (~c.val.plus => c.val.compte[x] = o)
    BY <1>2, <2>1, <2>3, <2>4
  <2>6. o * (NVal + 1) > c.arm => x \in Presentes(c.val)
    <3> SUFFICES ASSUME o * (NVal + 1) > c.arm, c.val.compte[x] = 0 PROVE FALSE
      BY <1>1 DEF Presentes
    <3>1. NVal \in Nat /\ o \in Nat /\ o <= d
      BY <2>1, <2>3, <2>4, EnregAssumption
    <3>2. o * (NVal + 1) <= (NVal + 1) * d
      <4>1. \A x1, x2, x3 \in Nat : x1 <= x2 => x1 * x3 <= x3 * x2
        OBVIOUS
      <4> QED BY <3>1, <4>1
    <3>3. (NVal + 1) * d \in Nat /\ o * (NVal + 1) \in Nat
      BY <3>1
    <3> QED BY <3>2, <3>3, <1>1, <1>2, <1>3
  <2> QED BY <2>5, <2>6 DEF o
<1> QED BY <1>1, <1>4 DEF TableJuste

-----------------------------------------------------------------------------
(* Its folds.                                                              *)

Comptables == [Mots -> Bilans]

LEMMA CompterBilan ==
  ASSUME NEW a \in Comptables, NEW r \in Recs, NEW w, NEW t \in Int
  PROVE  Compter(a, r, w, t) \in Comptables
<1>1. ASSUME NEW m \in Mots, NEW c \in Bilans PROVE CompterMot(c, m, r, t) \in Bilans
  <2>1. CASE m \in DOMAIN r.maj
    <3>1. r.maj \in Majs
      BY DEF Recs
    <3>2. r.maj[m] \in Valeurs
      BY <2>1, <3>1 DEF Majs
    <3> QED BY <2>1, <3>2, EcrireArmBilan DEF CompterMot
  <2>2. CASE m \notin DOMAIN r.maj
    BY <2>2 DEF CompterMot
  <2> QED BY <2>1, <2>2
<1>2. Commande \in Mots /\ Reponse \in Mots
  BY DEF Mots
<1>3. a[Commande] \in Bilans /\ a[Reponse] \in Bilans
  BY <1>2 DEF Comptables
<1> DEFINE x == CompterMot(a[Commande], Commande, r, t)
           y == CompterMot(a[Reponse], Reponse, r, t)
<1>4. x \in Bilans /\ y \in Bilans
  BY <1>1, <1>2, <1>3
<1>5. Compter(a, r, w, t) = a \/ Compter(a, r, w, t) = [a EXCEPT ![Commande] = x, ![Reponse] = y]
  BY EnregAssumption DEF Compter, Comptables, Mots
<1> HIDE DEF x, y
<1> QED BY <1>4, <1>5 DEF Comptables

LEMMA CompterPhaseBilan ==
  ASSUME NEW comptes \in Comptables, NEW records \in Seq(Recs), NEW fenetre, NEW t \in Int
  PROVE  CompterPhase(comptes, records, fenetre, t) \in Comptables
<1> DEFINE n == Len(records)
           Pas == [i \in 1 .. n |-> [s \in Comptables |-> Compter(s, records[i], fenetre, t)]]
           ecrits[i \in 0 .. Len(records)] ==
             IF i = 0 THEN comptes ELSE Compter(ecrits[i - 1], records[i], fenetre, t)
<1>1. n \in Nat /\ \A i \in 1 .. n : records[i] \in Recs
  BY LenProperties, ElementOfSeq
<1>2. Pas \in [1 .. n -> [Comptables -> Comptables]]
  <2> HIDE DEF n
  <2> QED BY <1>1, CompterBilan
<1>3. PICK g \in [0 .. n -> Comptables] : g[0] = comptes /\ \A i \in 1 .. n : g[i] = Pas[i][g[i - 1]]
  <2>1. n \in Nat /\ comptes \in Comptables
    BY <1>1
  <2> HIDE DEF n, Pas
  <2>2. \E g : Enchaine(g, n, Comptables, comptes, Pas)
    BY <2>1, <1>2, SuiteExiste
  <2> QED BY <2>2 DEF Enchaine
<1>4. \A i \in 1 .. n : g[i] = Compter(g[i - 1], records[i], fenetre, t)
  <2> SUFFICES ASSUME NEW i \in 1 .. n PROVE g[i] = Compter(g[i - 1], records[i], fenetre, t)
    OBVIOUS
  <2>1. i - 1 \in 0 .. n
    BY <1>1
  <2>2. g[i - 1] \in Comptables
    BY <1>3, <2>1
  <2> HIDE DEF n
  <2> QED BY <1>3, <2>2
<1>5. g = [i \in 0 .. n |-> IF i = 0 THEN comptes ELSE Compter(g[i - 1], records[i], fenetre, t)]
  <2> HIDE DEF n, Pas
  <2>1. \A i \in 0 .. n : g[i] = IF i = 0 THEN comptes ELSE Compter(g[i - 1], records[i], fenetre, t)
    <3>1. \A i \in 0 .. n : i = 0 \/ i \in 1 .. n
      BY <1>1
    <3> QED BY <1>3, <1>4, <3>1
  <2> QED BY <1>3, <2>1
<1>6. ecrits = [i \in 0 .. n |-> IF i = 0 THEN comptes ELSE Compter(ecrits[i - 1], records[i], fenetre, t)]
  <2>1. \E h : h = [i \in 0 .. Len(records) |->
                      IF i = 0 THEN comptes ELSE Compter(h[i - 1], records[i], fenetre, t)]
    BY <1>5
  <2> QED BY <2>1 DEF ecrits
<1>7. CompterPhase(comptes, records, fenetre, t) = [ecrits[n] EXCEPT ![Commande] = LireRom(@, t)]
  BY DEF CompterPhase
<1> HIDE DEF ecrits
<1>8. \A i \in 0 .. n : ecrits[i] \in Comptables
  <2> HIDE DEF n, Pas
  <2>1. \A i \in 0 .. n : ecrits[i] = IF i = 0 THEN comptes ELSE Compter(ecrits[i - 1], records[i], fenetre, t)
    BY <1>6
  <2>2. 0 \in 0 .. n /\ \A i \in 1 .. n : i \in 0 .. n /\ i # 0 /\ i - 1 \in 0 .. n
    BY <1>1
  <2>3. ecrits[0] \in Comptables
    BY <2>1, <2>2
  <2>4. \A i \in 1 .. n : ecrits[i - 1] \in Comptables => ecrits[i] \in Comptables
    BY <2>1, <2>2, <1>1, CompterBilan
  <2> QED BY <1>1, <2>3, <2>4, Proche
<1>9. ecrits[n] \in Comptables
  <2> HIDE DEF n
  <2>1. n \in 0 .. n
    BY <1>1
  <2> QED BY <2>1, <1>8
<1>10. LireRom(ecrits[n][Commande], t) \in Bilans
  <2>1. ecrits[n][Commande] \in Bilans
    BY <1>9 DEF Comptables, Mots
  <2> QED BY <2>1, LireRomBilan
<1> HIDE DEF n
<1> QED BY <1>7, <1>9, <1>10 DEF Comptables

LEMMA CompterTickBilan ==
  ASSUME NEW comptes \in Comptables, NEW records \in Seq(Recs), Len(records) >= 1
  PROVE  CompterTick(comptes, records) \in Comptables
<1>1. records[1] \in Recs
  <2>1. 1 \in 1 .. Len(records)
    BY LenProperties
  <2> QED BY <2>1, ElementOfSeq
<1>2. records[1].tick \in Int
  BY <1>1 DEF Recs
<1>3. CompterPhase(comptes, records, 0, records[1].tick) \in Comptables
  BY <1>2, CompterPhaseBilan
<1> QED BY <1>2, <1>3, CompterPhaseBilan DEF CompterTick

LEMMA ComptesBilans ==
  ASSUME NEW f \in Seq(Recs)
  PROVE  Comptes(f) \in Comptables
<1> DEFINE l == Lisible("testeur", f)
           n == Gardes(l)
           ticks == Ticks(l)
           debut == [m \in Mots |-> SansCompte]
           Pas == [i \in 1 .. n |-> [s \in Comptables |-> CompterTick(s, ticks[i])]]
           bilan[i \in 0 .. Len(ticks)] == IF i = 0 THEN debut ELSE CompterTick(bilan[i - 1], ticks[i])
<1>1. n \in Nat /\ Len(ticks) = n /\ \A i \in 1 .. n : ticks[i] \in Seq(Recs) /\ Len(ticks[i]) >= 1
  <2>1. l \in Seq(Recs)
    BY LisibleSuite
  <2> HIDE DEF l
  <2> QED BY <2>1, TicksDits
<1>2. debut \in Comptables
  BY BilanVide DEF Comptables
<1>3. Pas \in [1 .. n -> [Comptables -> Comptables]]
  <2> HIDE DEF n, ticks
  <2> QED BY <1>1, CompterTickBilan
<1>4. PICK g \in [0 .. n -> Comptables] : g[0] = debut /\ \A i \in 1 .. n : g[i] = Pas[i][g[i - 1]]
  <2>1. n \in Nat /\ debut \in Comptables
    BY <1>1, <1>2
  <2> HIDE DEF n, Pas, debut
  <2>2. \E g : Enchaine(g, n, Comptables, debut, Pas)
    BY <2>1, <1>3, SuiteExiste
  <2> QED BY <2>2 DEF Enchaine
<1>5. \A i \in 1 .. n : g[i] = CompterTick(g[i - 1], ticks[i])
  <2> SUFFICES ASSUME NEW i \in 1 .. n PROVE g[i] = CompterTick(g[i - 1], ticks[i])
    OBVIOUS
  <2>1. i - 1 \in 0 .. n
    BY <1>1
  <2>2. g[i - 1] \in Comptables
    BY <1>4, <2>1
  <2> HIDE DEF n, ticks, debut
  <2> QED BY <1>4, <2>2
<1>6. g = [i \in 0 .. n |-> IF i = 0 THEN debut ELSE CompterTick(g[i - 1], ticks[i])]
  <2> HIDE DEF n, ticks, debut, Pas
  <2>1. \A i \in 0 .. n : g[i] = IF i = 0 THEN debut ELSE CompterTick(g[i - 1], ticks[i])
    <3>1. \A i \in 0 .. n : i = 0 \/ i \in 1 .. n
      BY <1>1
    <3> QED BY <1>4, <1>5, <3>1
  <2> QED BY <1>4, <2>1
<1>7. bilan = [i \in 0 .. n |-> IF i = 0 THEN debut ELSE CompterTick(bilan[i - 1], ticks[i])]
  <2>1. \E h : h = [i \in 0 .. Len(ticks) |-> IF i = 0 THEN debut ELSE CompterTick(h[i - 1], ticks[i])]
    BY <1>1, <1>6
  <2> HIDE DEF n, ticks, debut
  <2>2. bilan = [i \in 0 .. Len(ticks) |-> IF i = 0 THEN debut ELSE CompterTick(bilan[i - 1], ticks[i])]
    BY <2>1 DEF bilan
  <2> QED BY <1>1, <2>2
<1>8. Comptes(f) = bilan[n]
  <2>1. Comptes(f) = bilan[Len(ticks)]
    BY DEF Comptes
  <2> HIDE DEF bilan
  <2> QED BY <2>1, <1>1
<1> HIDE DEF bilan
<1>9. \A i \in 0 .. n : bilan[i] \in Comptables
  <2> HIDE DEF n, ticks, debut, Pas
  <2>1. \A i \in 0 .. n : bilan[i] = IF i = 0 THEN debut ELSE CompterTick(bilan[i - 1], ticks[i])
    BY <1>7
  <2>2. 0 \in 0 .. n /\ \A i \in 1 .. n : i \in 0 .. n /\ i # 0 /\ i - 1 \in 0 .. n
    BY <1>1
  <2>3. bilan[0] \in Comptables
    BY <2>1, <2>2, <1>2
  <2>4. \A i \in 1 .. n : bilan[i - 1] \in Comptables => bilan[i] \in Comptables
    BY <2>1, <2>2, <1>1, CompterTickBilan
  <2> QED BY <1>1, <2>3, <2>4, Proche
<1> HIDE DEF n
<1>10. n \in 0 .. n
  BY <1>1
<1> QED BY <1>8, <1>9, <1>10

LEMMA SansPType == ASSUME NEW f \in Seq(Recs) PROVE SansP(f) \in Seq(Recs)
<1>1. CASE Rangs(f, "P") = {}
  BY <1>1 DEF SansP
<1>2. CASE Rangs(f, "P") # {}
  <2> DEFINE p == Dernier(Rangs(f, "P"))
  <2>1. p \in 1 .. Len(f) /\ Len(f) \in Nat
    BY <1>2, RangsFinis, DernierDit, LenProperties
  <2>2. SansP(f) = SubSeq(f, 1, p - 1) \o SubSeq(f, p + 1, Len(f))
    BY <1>2 DEF SansP
  <2> HIDE DEF p
  <2>3. 1 \in Int /\ p - 1 \in Int /\ p + 1 \in Int /\ Len(f) \in Int
    BY <2>1
  <2>4. (\A i \in 1 .. p - 1 : f[i] \in Recs) /\ (\A i \in p + 1 .. Len(f) : f[i] \in Recs)
    <3>1. (\A i \in 1 .. p - 1 : i \in 1 .. Len(f)) /\ (\A i \in p + 1 .. Len(f) : i \in 1 .. Len(f))
      BY <2>1
    <3> QED BY <3>1, ElementOfSeq
  <2>5. SubSeq(f, 1, p - 1) \in Seq(Recs) /\ SubSeq(f, p + 1, Len(f)) \in Seq(Recs)
    BY <2>3, <2>4, SubSeqProperties
  <2> QED BY <2>2, <2>5, ConcatProperties
<1> QED BY <1>1, <1>2

LEMMA IInvBilan == IInv => BilanJuste
<1> SUFFICES ASSUME IInv PROVE BilanJuste
  OBVIOUS
<1>1. fichier \in Seq(Recs)
  BY DEF IInv, Cadre
<1>2. Comptes(SansP(fichier)) \in Comptables
  BY <1>1, SansPType, ComptesBilans
<1>3. \A m \in Mots : Comptes(SansP(fichier))[m] \in Bilans
  BY <1>2 DEF Comptables
<1>4. \A m \in Mots : Conserves(Comptes(SansP(fichier))[m]) /\ TableJuste(Comptes(SansP(fichier))[m])
  BY <1>3, BilanTable
<1> QED BY <1>4 DEF BilanJuste

\* The account of layer1_tester is even, for every recording and every size of its table.
THEOREM BilanToujoursJuste == Spec => []BilanJuste
BY IInvInit, IInvNext, IInvBilan, PTL DEF Spec
=============================================================================
