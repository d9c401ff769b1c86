---------------------------- MODULE RejeuProofs -----------------------------
(***************************************************************************)
(* Proofs about Rejeu, for every budget of retries, every set of settings  *)
(* and every latency of the DSP and error of its TOA: the types, one set   *)
(* of callbacks at a time that always answers, and where the SCH is looked *)
(* for.                                                                    *)
(*                                                                         *)
(* The inductive invariant gives the table its shape: it is an FB set or   *)
(* an SB set, whole, planned a number n of frames ago.  What each callback *)
(* still has to wait, the search of the DSP and the age of its report all  *)
(* follow from n.                                                          *)
(***************************************************************************)
EXTENDS Rejeu, TLAPS

-----------------------------------------------------------------------------
(* The shape of the table.                                                 *)

Elements ==
  [quoi: {"fbCmd", "fbResp", "sbCmd", "sbResp"}, essai: 0 .. Fenetre, dans: Int]

\* The callback i is due du frames after the set was planned, n frames ago; one that was
\* due has been run when the frame leaves l1_sync.
EnCours(i, du, n) ==
  /\ n < du => sched[i].dans = du - n
  /\ n > du => sched[i].dans = -1
  /\ n = du => sched[i].dans \in {0, -1} /\ (etape = "dsp" => sched[i].dans = -1)

\* An FB set: the command in the next frame, a response in each frame from the second
\* after it on.
DuFb(i) == IF i = 1 THEN 1 ELSE i + 1
TableFb(n) ==
  /\ sched \in [1 .. 13 -> Elements]
  /\ \A i \in 1 .. 13 :
       /\ sched[i].quoi = IF i = 1 THEN "fbCmd" ELSE "fbResp"
       /\ sched[i].essai = i - 1
       /\ EnCours(i, DuFb(i), n)
  /\ n = 14 => sched[13].dans = 0 /\ etape = "l1"

\* By how much an early TOA shortens ntdma, and the frames it would have been without.
Avance == IF vu.tot THEN 1 ELSE 0
NtdmaVrai == Ntdma(det.toa) + Avance

\* The DSP searches from the command on, for a window; what it reports is not older than
\* the command and is read by the first response that follows.
RechercheFb(n) ==
  /\ tache = "FB" => n = 1
  /\ cherche # -1 => 2 <= n /\ cherche = n - 1
  /\ det.leve => /\ cherche = -1 /\ 2 <= n /\ NtdmaVrai \in 0 .. 11 /\ NtdmaVrai <= n - 2
                 /\ n = 3 \/ NtdmaVrai + Latence >= n - 2
                 /\ n > 2 => sched[n - 1].dans = 0
                 /\ vu.fcch \in TramesFcch
                 /\ (p51 - n + 1 + NtdmaVrai + 51) % 51 = vu.fcch

EnFb(n) == TableFb(n) /\ RechercheFb(n)

\* An SB set, its first command d frames after it was planned.
NSb == IF reglage.unique THEN 2 ELSE 4
DuSb(i, d) ==
  IF reglage.unique THEN IF i = 1 THEN d ELSE d + 3
  ELSE IF i <= 2 THEN d + i - 1 ELSE d + i
TableSb(n, d) ==
  /\ sched \in [1 .. NSb -> Elements]
  /\ \A i \in 1 .. NSb :
       /\ sched[i].quoi = IF i <= NSb \div 2 THEN "sbCmd" ELSE "sbResp"
       /\ sched[i].essai = IF i <= NSb \div 2 THEN i ELSE i - NSb \div 2
       /\ EnCours(i, DuSb(i, d), n)
  /\ n <= DuSb(NSb, d)
  /\ n = DuSb(NSb, d) => sched[NSb].dans = 0 /\ etape = "l1"

\* The frame of the first command, eleven after the FCCH or one less; vise says whether one of
\* those that have been run was in a frame of the SCH.
TrameSb(n, d) == (p51 - n + d + 51) % 51
ViseeSb(n, d) ==
  Latence <= 9 =>
    /\ vu.fcch \in TramesFcch
    /\ TrameSb(n, d) = (vu.fcch + 11 - Avance) % 51
    /\ vise <=> \/ sched[1].dans = -1 /\ TrameSb(n, d) \in TramesSch
                \/ /\ ~reglage.unique
                   /\ sched[2].dans = -1 /\ (TrameSb(n, d) + 1) % 51 \in TramesSch

EnSb(n, d) ==
  TableSb(n, d) /\ ViseeSb(n, d) /\ tache # "FB" /\ cherche = -1 /\ ~det.leve

Forme == verdict = 0 =>
  \/ \E n \in 0 .. 14 : EnFb(n)
  \/ \E n \in 0 .. 14, d \in 0 .. 10 : EnSb(n, d)

IInv == TypeOK /\ (etape = "dsp" => verdict = 0) /\ Forme /\ UnSeulJeu

-----------------------------------------------------------------------------
(* The sets, as they are planned.                                          *)

LEMMA LongueurDite ==
  ASSUME NEW n \in Nat, NEW s \in [1 .. n -> Elements]
  PROVE  s \in Seq(Elements) /\ Len(s) = n /\ DOMAIN s = 1 .. n
OBVIOUS

\* A set that fits is planned whole.
LEMMA PlanEntier ==
  ASSUME NEW s \in Seq(Elements), Len(s) <= 32
  PROVE  Plan(<<>>, s) = s
<1>1. <<>> \o s = s
  OBVIOUS
<1> QED BY <1>1 DEF Plan, Capacite

LEMMA JeuFbDit ==
  /\ Plan(<<>>, JeuFb(1)) \in [1 .. 13 -> Elements]
  /\ \A i \in 1 .. 13 :
       /\ Plan(<<>>, JeuFb(1))[i].quoi = IF i = 1 THEN "fbCmd" ELSE "fbResp"
       /\ Plan(<<>>, JeuFb(1))[i].essai = i - 1
       /\ Plan(<<>>, JeuFb(1))[i].dans = DuFb(i)
<1>1. JeuFb(1) = [i \in 1 .. 13 |-> IF i = 1 THEN Element("fbCmd", 0, 1) ELSE Element("fbResp", i - 1, 1 + i)]
  BY DEF JeuFb, Fenetre
<1>2. JeuFb(1) \in [1 .. 13 -> Elements]
  BY <1>1 DEF Element, Elements, Fenetre
<1>3. JeuFb(1) \in Seq(Elements) /\ Len(JeuFb(1)) <= 32
  <2> SUFFICES ASSUME NEW s \in [1 .. 13 -> Elements]
               PROVE  s \in Seq(Elements) /\ Len(s) <= 32
    BY <1>2
  <2>1. s \in Seq(Elements) /\ Len(s) = 13
    BY LongueurDite
  <2> QED BY <2>1
<1>4. Plan(<<>>, JeuFb(1)) = JeuFb(1)
  BY <1>3, PlanEntier
<1> QED BY <1>1, <1>2, <1>4 DEF Element, DuFb

LEMMA JeuSbDit ==
  ASSUME NEW d \in 0 .. 20, reglage \in [unique: BOOLEAN, continuer: BOOLEAN]
  PROVE  /\ Plan(<<>>, JeuSb(d)) \in [1 .. NSb -> Elements]
         /\ \A i \in 1 .. NSb :
              /\ Plan(<<>>, JeuSb(d))[i].quoi = IF i <= NSb \div 2 THEN "sbCmd" ELSE "sbResp"
              /\ Plan(<<>>, JeuSb(d))[i].essai = IF i <= NSb \div 2 THEN i ELSE i - NSb \div 2
              /\ Plan(<<>>, JeuSb(d))[i].dans = DuSb(i, d)
<1>1. CASE reglage.unique
  <2>1. JeuSb(d) = <<Element("sbCmd", 1, d), Element("sbResp", 1, d + 3)>>
    BY <1>1 DEF JeuSb
  <2>2. JeuSb(d) \in Seq(Elements) /\ Len(JeuSb(d)) = 2 /\ JeuSb(d) \in [1 .. 2 -> Elements]
    BY <2>1 DEF Element, Elements, Fenetre
  <2>3. Plan(<<>>, JeuSb(d)) = JeuSb(d)
    <3>1. JeuSb(d) \in Seq(Elements) /\ Len(JeuSb(d)) <= 32
      BY <2>2
    <3> QED BY <3>1, PlanEntier
  <2>4. NSb = 2 /\ NSb \div 2 = 1
    BY <1>1 DEF NSb
  <2> QED BY <1>1, <2>1, <2>2, <2>3, <2>4 DEF DuSb, Element
<1>2. CASE ~reglage.unique
  <2>1. JeuSb(d) = <<Element("sbCmd", 1, d), Element("sbCmd", 2, d + 1),
                     Element("sbResp", 1, d + 3), Element("sbResp", 2, d + 4)>>
    BY <1>2 DEF JeuSb
  <2>2. JeuSb(d) \in Seq(Elements) /\ Len(JeuSb(d)) = 4 /\ JeuSb(d) \in [1 .. 4 -> Elements]
    BY <2>1 DEF Element, Elements, Fenetre
  <2>3. Plan(<<>>, JeuSb(d)) = JeuSb(d)
    <3>1. JeuSb(d) \in Seq(Elements) /\ Len(JeuSb(d)) <= 32
      BY <2>2
    <3> QED BY <3>1, PlanEntier
  <2>4. NSb = 4 /\ NSb \div 2 = 2
    BY <1>2 DEF NSb
  <2> QED BY <1>2, <2>1, <2>2, <2>3, <2>4 DEF DuSb, Element
<1> QED BY <1>1, <1>2

-----------------------------------------------------------------------------
(* What one step does to the table.                                        *)

\* What is due in an FB set says how old the set is.
LEMMA EchuFb ==
  ASSUME NEW n \in 0 .. 14, TableFb(n), NEW i \in DOMAIN sched, Echu(i)
  PROVE  i \in 1 .. 13 /\ n = DuFb(i)
<1>1. i \in 1 .. 13
  BY DEF TableFb
<1>2. EnCours(i, DuFb(i), n) /\ DuFb(i) \in Nat
  BY <1>1 DEF TableFb, DuFb
<1> QED BY <1>1, <1>2 DEF EnCours, Echu

LEMMA EchuSb ==
  ASSUME NEW n \in 0 .. 14, NEW d \in 0 .. 10, TableSb(n, d), NEW i \in DOMAIN sched, Echu(i),
         reglage.unique \in BOOLEAN
  PROVE  i \in 1 .. NSb /\ n = DuSb(i, d)
<1>1. i \in 1 .. NSb /\ NSb \in {2, 4}
  BY DEF TableSb, NSb
<1>2. EnCours(i, DuSb(i, d), n) /\ DuSb(i, d) \in Nat
  BY <1>1 DEF TableSb, DuSb
<1> QED BY <1>1, <1>2 DEF EnCours, Echu

\* A callback that is not the last leaves the set as it is.
LEMMA ConsommeFb ==
  ASSUME NEW n \in 0 .. 13, TableFb(n), NEW i \in 1 .. 13, n = DuFb(i), Consommer(i), etape = "l1",
         etape' = etape
  PROVE  TableFb(n)'
<1>1. sched' \in [1 .. 13 -> Elements]
  BY DEF TableFb, Consommer, Elements
<1>2. ASSUME NEW j \in 1 .. 13
      PROVE  /\ sched'[j].quoi = sched[j].quoi /\ sched'[j].essai = sched[j].essai
             /\ sched'[j].dans = IF j = i THEN -1 ELSE sched[j].dans
  BY DEF TableFb, Consommer, Elements
<1>3. ASSUME NEW j \in 1 .. 13 PROVE EnCours(j, DuFb(j), n)'
  BY <1>2, <1>3 DEF TableFb, EnCours, DuFb
<1> QED BY <1>1, <1>2, <1>3 DEF TableFb

LEMMA ConsommeSb ==
  ASSUME NEW n \in 0 .. 14, NEW d \in 0 .. 10, TableSb(n, d), NEW i \in 1 .. NSb, n = DuSb(i, d),
         i # NSb, Consommer(i), etape = "l1", etape' = etape, reglage' = reglage,
         reglage.unique \in BOOLEAN
  PROVE  /\ TableSb(n, d)'
         /\ \A j \in 1 .. NSb : sched'[j].dans = IF j = i THEN -1 ELSE sched[j].dans
<1>1. NSb \in {2, 4} /\ NSb' = NSb
  BY DEF NSb
<1>2. sched' \in [1 .. NSb -> Elements]
  BY <1>1 DEF TableSb, Consommer, Elements
<1>3. ASSUME NEW j \in 1 .. NSb
      PROVE  /\ sched'[j].quoi = sched[j].quoi /\ sched'[j].essai = sched[j].essai
             /\ sched'[j].dans = IF j = i THEN -1 ELSE sched[j].dans
  BY <1>1 DEF TableSb, Consommer, Elements
<1>4. ASSUME NEW j \in 1 .. NSb PROVE EnCours(j, DuSb(j, d), n)'
  BY <1>1, <1>3, <1>4 DEF TableSb, EnCours, DuSb
<1>5. n # DuSb(NSb, d)
  BY <1>1 DEF DuSb, NSb
<1>6. \A j \in 1 .. NSb : DuSb(j, d)' = DuSb(j, d)
  BY DEF DuSb
<1> QED BY <1>1, <1>2, <1>3, <1>4, <1>5, <1>6 DEF TableSb

\* A set that has just been planned.
LEMMA PoseFb ==
  ASSUME Remplacer(JeuFb(1))
  PROVE  TableFb(0)'
<1>1. sched' = Plan(<<>>, JeuFb(1))
  BY DEF Remplacer
<1>2. ASSUME NEW i \in 1 .. 13 PROVE EnCours(i, DuFb(i), 0)'
  BY <1>1, JeuFbDit DEF EnCours, DuFb
<1> QED BY <1>1, <1>2, JeuFbDit DEF TableFb

LEMMA PoseSb ==
  ASSUME NEW d \in 0 .. 10, Remplacer(JeuSb(d)), reglage \in [unique: BOOLEAN, continuer: BOOLEAN],
         reglage' = reglage, etape = "l1", etape' = etape
  PROVE  TableSb(0, d)' /\ \A i \in 1 .. NSb : sched'[i].dans # -1
<1>1. sched' = Plan(<<>>, JeuSb(d)) /\ d \in 0 .. 20
  BY DEF Remplacer
<1>2. NSb \in {2, 4} /\ NSb' = NSb
  BY DEF NSb
<1>3. \A i \in 1 .. NSb : DuSb(i, d)' = DuSb(i, d) /\ DuSb(i, d) \in Nat
  BY <1>2 DEF DuSb
<1>4. /\ sched' \in [1 .. NSb -> Elements]
      /\ \A i \in 1 .. NSb :
           /\ sched'[i].quoi = IF i <= NSb \div 2 THEN "sbCmd" ELSE "sbResp"
           /\ sched'[i].essai = IF i <= NSb \div 2 THEN i ELSE i - NSb \div 2
           /\ sched'[i].dans = DuSb(i, d)
  BY <1>1, JeuSbDit
<1>5. ASSUME NEW i \in 1 .. NSb PROVE EnCours(i, DuSb(i, d), 0)' /\ sched'[i].dans # -1
  BY <1>3, <1>4 DEF EnCours
<1>6. DuSb(NSb, d)' = DuSb(NSb, d) /\ DuSb(NSb, d) > 0
  BY <1>2 DEF DuSb, NSb
<1> QED BY <1>2, <1>3, <1>4, <1>5, <1>6 DEF TableSb

\* A frame: what was to come is one frame nearer.
AuSuivant == sched' = [i \in DOMAIN sched |-> [sched[i] EXCEPT !.dans = IF @ < 0 THEN -1 ELSE @ - 1]]

LEMMA TrameFb ==
  ASSUME NEW n \in 0 .. 14, TableFb(n), AuSuivant, etape = "dsp", etape' = "l1"
  PROVE  n + 1 \in 0 .. 14 /\ TableFb(n + 1)' /\ (n > 1 => sched'[n].dans = 0)
<1>1. n <= 13
  BY DEF TableFb
<1>2. sched' \in [1 .. 13 -> Elements]
  BY DEF TableFb, AuSuivant, Elements
<1>3. ASSUME NEW j \in 1 .. 13
      PROVE  /\ sched'[j].quoi = sched[j].quoi /\ sched'[j].essai = sched[j].essai
             /\ sched'[j].dans = IF sched[j].dans < 0 THEN -1 ELSE sched[j].dans - 1
  BY DEF TableFb, AuSuivant, Elements
<1>4. ASSUME NEW j \in 1 .. 13 PROVE EnCours(j, DuFb(j), n) /\ EnCours(j, DuFb(j), n + 1)'
  BY <1>3, <1>4 DEF TableFb, EnCours, DuFb
<1>5. n > 1 => sched'[n].dans = 0
  BY <1>1, <1>3, <1>4 DEF EnCours, DuFb
<1> QED BY <1>1, <1>2, <1>3, <1>4, <1>5 DEF TableFb

LEMMA TrameSbSuit ==
  ASSUME NEW n \in 0 .. 14, NEW d \in 0 .. 10, TableSb(n, d), AuSuivant, etape = "dsp", etape' = "l1",
         reglage' = reglage, reglage.unique \in BOOLEAN
  PROVE  /\ n + 1 \in 0 .. 14 /\ TableSb(n + 1, d)'
         /\ \A i \in 1 .. NSb : sched'[i].dans = -1 <=> sched[i].dans = -1
<1>1. NSb \in {2, 4} /\ NSb' = NSb
  BY DEF NSb
<1>2. n < DuSb(NSb, d) /\ DuSb(NSb, d) \in 3 .. 14 /\ DuSb(NSb, d)' = DuSb(NSb, d)
  BY <1>1 DEF TableSb, DuSb, NSb
<1>3. sched' \in [1 .. NSb -> Elements]
  BY <1>1 DEF TableSb, AuSuivant, Elements
<1>4. ASSUME NEW j \in 1 .. NSb
      PROVE  /\ sched'[j].quoi = sched[j].quoi /\ sched'[j].essai = sched[j].essai
             /\ sched'[j].dans = IF sched[j].dans < 0 THEN -1 ELSE sched[j].dans - 1
  BY DEF TableSb, AuSuivant, Elements
<1>5. ASSUME NEW j \in 1 .. NSb
      PROVE  /\ EnCours(j, DuSb(j, d), n) /\ EnCours(j, DuSb(j, d), n + 1)'
             /\ sched'[j].dans = -1 <=> sched[j].dans = -1
  BY <1>1, <1>4, <1>5 DEF TableSb, EnCours, DuSb
<1>6. \A j \in 1 .. NSb : DuSb(j, d)' = DuSb(j, d)
  BY DEF DuSb
<1>7. n + 1 = DuSb(NSb, d) => sched'[NSb].dans = 0
  <2>1. NSb \in 1 .. NSb
    BY <1>1
  <2>2. n + 1 = DuSb(NSb, d) => sched[NSb].dans = 1
    BY <1>2, <1>5, <2>1 DEF EnCours
  <2> QED BY <1>4, <2>1, <2>2
<1> QED BY <1>1, <1>2, <1>3, <1>4, <1>5, <1>6, <1>7 DEF TableSb

-----------------------------------------------------------------------------
(* Every step keeps the shape.                                             *)

\* The part of the invariant each action of l1_sync meets.
EnL1 == IInv /\ etape = "l1" /\ verdict = 0 /\ UNCHANGED <<reglage, etape, p51, cherche, vu>>

Typee == TypeOK /\ reglage \in [unique: BOOLEAN, continuer: BOOLEAN]

LEMMA ReglageTypee == TypeOK => Typee
BY RejeuAssumption DEF TypeOK, Typee

LEMMA FbCmdForme ==
  ASSUME EnL1, NEW i \in DOMAIN sched, Echu(i), FbCmd(i)
  PROVE  Forme'
<1>1. PICK n \in 0 .. 14 : EnFb(n)
  <2>1. ASSUME NEW n \in 0 .. 14, NEW d \in 0 .. 10, EnSb(n, d) PROVE FALSE
    <3>1. reglage.unique \in BOOLEAN
      BY ReglageTypee DEF EnL1, IInv, Typee
    <3>2. i \in 1 .. NSb
      BY <2>1, <3>1, EchuSb DEF EnSb
    <3> QED BY <2>1, <3>2 DEF EnSb, TableSb, FbCmd
  <2> QED BY <2>1 DEF EnL1, IInv, Forme
<1>2. i \in 1 .. 13 /\ n = DuFb(i)
  BY <1>1, EchuFb DEF EnFb
<1>3. i = 1 /\ n = 1
  BY <1>1, <1>2 DEF EnFb, TableFb, FbCmd, DuFb
<1>4. TableFb(1)'
  BY <1>1, <1>2, <1>3, ConsommeFb DEF EnFb, FbCmd, EnL1
<1>5. RechercheFb(1)'
  BY <1>1, <1>3 DEF EnFb, RechercheFb, NtdmaVrai, Avance, FbCmd, EnL1
<1> QED BY <1>4, <1>5 DEF Forme, EnFb

LEMMA RepondFb ==
  ASSUME EnL1, NEW i \in DOMAIN sched, Echu(i), sched[i].quoi = "fbResp"
  PROVE  \E n \in 3 .. 14 : EnFb(n) /\ i = n - 1 /\ sched[i].essai = n - 2
<1>1. PICK n \in 0 .. 14 : EnFb(n)
  <2>1. ASSUME NEW n \in 0 .. 14, NEW d \in 0 .. 10, EnSb(n, d) PROVE FALSE
    <3>1. reglage.unique \in BOOLEAN
      BY ReglageTypee DEF EnL1, IInv, Typee
    <3>2. i \in 1 .. NSb
      BY <2>1, <3>1, EchuSb DEF EnSb
    <3> QED BY <2>1, <3>2 DEF EnSb, TableSb
  <2> QED BY <2>1 DEF EnL1, IInv, Forme
<1>2. i \in 1 .. 13 /\ n = DuFb(i)
  BY <1>1, EchuFb DEF EnFb
<1>3. i # 1 /\ sched[i].essai = i - 1
  BY <1>1, <1>2 DEF EnFb, TableFb
<1> QED BY <1>1, <1>2, <1>3 DEF DuFb

\* A new search: nothing is asked, searched or reported.
LEMMA ChercheForme ==
  ASSUME Remplacer(JeuFb(1)), tache' # "FB", cherche' = -1, ~det'.leve
  PROVE  Forme'
<1>1. TableFb(0)'
  BY PoseFb
<1>2. RechercheFb(0)'
  BY DEF RechercheFb
<1> QED BY <1>1, <1>2 DEF Forme, EnFb

LEMMA FbMuetForme ==
  ASSUME EnL1, NEW i \in DOMAIN sched, Echu(i), FbMuet(i)
  PROVE  Forme'
<1>1. PICK n \in 3 .. 14 : EnFb(n) /\ i = n - 1 /\ sched[i].essai = n - 2
  BY RepondFb DEF FbMuet
<1>2. CASE n < 14
  <2>1. Consommer(i)
    BY <1>1, <1>2 DEF FbMuet, Fenetre
  <2>2. i \in 1 .. 13 /\ n = DuFb(i) /\ n \in 0 .. 13
    BY <1>1, <1>2 DEF DuFb
  <2>3. TableFb(n)'
    BY <1>1, <2>1, <2>2, ConsommeFb DEF EnFb, EnL1
  <2>4. RechercheFb(n)'
    BY <1>1 DEF EnFb, RechercheFb, FbMuet, EnL1
  <2> QED BY <1>1, <2>3, <2>4 DEF Forme, EnFb
<1>3. CASE n = 14
  <2>1. Chercher(0) \/ verdict' = -1
    BY <1>1, <1>3 DEF FbMuet, Fenetre, Abandonner
  <2>2. cherche = -1 /\ tache # "FB" /\ ~det.leve
    BY <1>1, <1>3 DEF EnFb, RechercheFb, FbMuet, EnL1, IInv, TypeOK, Fenetre
  <2>3. tache' # "FB" /\ cherche' = -1 /\ ~det'.leve
    BY <2>2 DEF FbMuet, EnL1
  <2> QED BY <2>1, <2>3, ChercheForme DEF Chercher, Forme
<1> QED BY <1>2, <1>3

\* What the truncation of the TOA gives.
Tronquee(j, r) == IF r < 0 THEN j - 1 ELSE j

LEMMA NtdmaDit ==
  ASSUME NEW j \in 0 .. 11, NEW r \in Residus
  PROVE  Ntdma(Toa(j, r)) = Tronquee(j, r)
<1>1. r \in -1250 .. 1249
  BY RejeuAssumption DEF BitsTrame
<1>2. CASE r < 0
  <2>1. CASE j = 0
    BY <1>1, <1>2, <2>1 DEF Ntdma, Toa, Tronquee, ToaNul, BitsTrame
  <2>2. CASE j # 0 /\ r = -1250
    BY <2>2 DEF Ntdma, Toa, Tronquee, ToaNul, BitsTrame
  <2>3. CASE j # 0 /\ r # -1250
    BY <1>1, <1>2, <2>3 DEF Ntdma, Toa, Tronquee, ToaNul, BitsTrame
  <2> QED BY <2>1, <2>2, <2>3
<1>3. CASE r >= 0
  BY <1>1, <1>3 DEF Ntdma, Toa, Tronquee, ToaNul, BitsTrame
<1> QED BY <1>1, <1>2, <1>3

LEMMA NtdmaEntier == TypeOK => Ntdma(det.toa) \in Int
<1> SUFFICES ASSUME TypeOK PROVE Ntdma(det.toa) \in Int
  OBVIOUS
<1>1. det.toa \in Int
  <2>1. det.toa \in Toas
    BY DEF TypeOK
  <2>2. \A t \in Toas : t \in Int
    BY DEF Toas, ToaNul, BitsTrame, Fenetre
  <2> QED BY <2>1, <2>2, Zenon
<1>2. ASSUME NEW t \in Int PROVE Ntdma(t) \in Int
  BY DEF Ntdma, ToaNul, BitsTrame
<1> QED BY <1>1, <1>2

\* The SB set that a detection plans: its first command comes eleven frames after the FCCH,
\* or one less.
LEMMA DelaiVise ==
  ASSUME NEW n \in 3 .. 14, EnFb(n), Typee, det.leve
  PROVE  /\ Delai(n - 2) \in 0 .. 10
         /\ vu.fcch \in TramesFcch
         /\ Latence <= 9 => (p51 + Delai(n - 2) + 51) % 51 = (vu.fcch + 11 - Avance) % 51
<1> DEFINE v == NtdmaVrai
<1>1. /\ v \in 0 .. 11 /\ v <= n - 2 /\ p51 \in 0 .. 50 /\ Latence \in Nat
      /\ n = 3 \/ v + Latence >= n - 2
      /\ vu.fcch \in TramesFcch /\ vu.fcch \in 0 .. 50
      /\ (p51 - n + 1 + v + 51) % 51 = vu.fcch
  BY RejeuAssumption DEF Typee, TypeOK, EnFb, RechercheFb, TramesFcch
<1>2. Avance \in {0, 1} /\ Ntdma(det.toa) = v - Avance
  <2>1. Avance \in {0, 1}
    BY DEF Avance
  <2>2. Ntdma(det.toa) \in Int
    BY NtdmaEntier DEF Typee
  <2> QED BY <2>1, <2>2 DEF NtdmaVrai
<1> HIDE DEF v
<1>3. Delai(n - 2) \in 0 .. 10
  BY <1>1, <1>2 DEF Delai
<1>4. ASSUME Latence <= 9
      PROVE  (p51 + Delai(n - 2) + 51) % 51 = (vu.fcch + 11 - Avance) % 51
  <2>1. Delai(n - 2) = v - Avance - n + 12
    BY <1>1, <1>2, <1>4 DEF Delai
  <2>2. p51 + Delai(n - 2) + 51 = (p51 - n + 1 + v + 51) + 11 - Avance
    BY <1>1, <1>2, <2>1
  <2>3. ASSUME NEW x \in 0 .. 200, NEW a \in {0, 1}
        PROVE  (x + 11 - a) % 51 = ((x % 51) + 11 - a) % 51
    BY <2>3
  <2>4. p51 - n + 1 + v + 51 \in 0 .. 200
    BY <1>1
  <2> QED BY <1>1, <1>2, <2>2, <2>3, <2>4
<1> QED BY <1>1, <1>3, <1>4

LEMMA FbTrouveForme ==
  ASSUME EnL1, NEW i \in DOMAIN sched, Echu(i), FbTrouve(i)
  PROVE  Forme'
<1>1. PICK n \in 3 .. 14 : EnFb(n) /\ i = n - 1 /\ sched[i].essai = n - 2
  BY RepondFb DEF FbTrouve
<1>2. /\ tache # "FB" /\ cherche = -1 /\ det.leve
      /\ tache' # "FB" /\ cherche' = -1 /\ ~det'.leve
  BY <1>1 DEF EnFb, RechercheFb, FbTrouve, Lire, EnL1
<1>3. \/ Remplacer(JeuFb(1)) \/ verdict' = -1
      \/ Remplacer(JeuSb(Delai(n - 2)))
  BY <1>1 DEF FbTrouve, Chercher, Abandonner
<1>4. CASE Remplacer(JeuFb(1))
  BY <1>2, <1>4, ChercheForme
<1>5. CASE verdict' = -1
  BY <1>5 DEF Forme
<1>6. CASE Remplacer(JeuSb(Delai(n - 2)))
  <2>1. Typee
    BY ReglageTypee DEF EnL1, IInv
  <2>2. PICK d \in 0 .. 10 :
          /\ d = Delai(n - 2)
          /\ vu.fcch \in TramesFcch
          /\ Latence <= 9 => (p51 + d + 51) % 51 = (vu.fcch + 11 - Avance) % 51
    BY <1>1, <1>2, <2>1, DelaiVise
  <2>3. TableSb(0, d)' /\ \A j \in 1 .. NSb : sched'[j].dans # -1
    BY <1>6, <2>1, <2>2, PoseSb DEF EnL1, Typee
  <2>4. ViseeSb(0, d)'
    <3>1. TrameSb(0, d)' = (p51 + d + 51) % 51
      BY <2>1 DEF TrameSb, EnL1, Typee, TypeOK
    <3>2. sched'[1].dans # -1 /\ sched'[2].dans # -1
      BY <2>1, <2>3 DEF NSb, Typee
    <3>3. vu' = vu /\ Avance' = Avance /\ reglage' = reglage /\ vise' = FALSE
      BY DEF EnL1, Avance, FbTrouve
    <3> QED BY <2>2, <3>1, <3>2, <3>3 DEF ViseeSb
  <2> QED BY <1>2, <2>3, <2>4 DEF Forme, EnSb
<1> QED BY <1>3, <1>4, <1>5, <1>6

LEMMA RepondSb ==
  ASSUME EnL1, NEW i \in DOMAIN sched, Echu(i), sched[i].quoi \in {"sbCmd", "sbResp"}
  PROVE  \E n \in 0 .. 14, d \in 0 .. 10 : EnSb(n, d) /\ i \in 1 .. NSb /\ n = DuSb(i, d)
<1>1. PICK n \in 0 .. 14, d \in 0 .. 10 : EnSb(n, d)
  <2>1. ASSUME NEW n \in 0 .. 14, EnFb(n) PROVE FALSE
    <3>1. i \in 1 .. 13
      BY <2>1, EchuFb DEF EnFb
    <3> QED BY <2>1, <3>1 DEF EnFb, TableFb
  <2> QED BY <2>1 DEF EnL1, IInv, Forme
<1>2. reglage.unique \in BOOLEAN
  BY ReglageTypee DEF EnL1, IInv, Typee
<1>3. i \in 1 .. NSb /\ n = DuSb(i, d)
  BY <1>1, <1>2, EchuSb DEF EnSb
<1> QED BY <1>1, <1>3

LEMMA SbCmdForme ==
  ASSUME EnL1, NEW i \in DOMAIN sched, Echu(i), SbCmd(i)
  PROVE  Forme'
<1>1. PICK n \in 0 .. 14, d \in 0 .. 10 : EnSb(n, d) /\ i \in 1 .. NSb /\ n = DuSb(i, d)
  BY RepondSb DEF SbCmd
<1>2. Typee /\ NSb \in {2, 4}
  BY ReglageTypee DEF EnL1, IInv, NSb
<1>3. i <= NSb \div 2 /\ i # NSb
  BY <1>1, <1>2 DEF EnSb, TableSb, SbCmd
<1>4. /\ TableSb(n, d)'
      /\ \A j \in 1 .. NSb : sched'[j].dans = IF j = i THEN -1 ELSE sched[j].dans
  BY <1>1, <1>2, <1>3, ConsommeSb DEF EnSb, SbCmd, EnL1, Typee
<1>5. ViseeSb(n, d)'
  <2> SUFFICES ASSUME Latence <= 9 PROVE ViseeSb(n, d)'
    BY DEF ViseeSb
  <2>1. TrameSb(n, d)' = TrameSb(n, d) /\ Avance' = Avance /\ vu' = vu /\ reglage' = reglage
    BY DEF TrameSb, Avance, EnL1
  <2>2. /\ vu.fcch \in TramesFcch
        /\ TrameSb(n, d) = (vu.fcch + 11 - Avance) % 51
        /\ vise <=> \/ sched[1].dans = -1 /\ TrameSb(n, d) \in TramesSch
                    \/ /\ ~reglage.unique
                       /\ sched[2].dans = -1 /\ (TrameSb(n, d) + 1) % 51 \in TramesSch
    BY <1>1 DEF EnSb, ViseeSb
  <2>3. /\ i = 1 => TrameSb(n, d) = p51
        /\ i = 2 => (TrameSb(n, d) + 1) % 51 = p51
    <3>1. p51 \in 0 .. 50
      BY <1>2 DEF Typee, TypeOK
    <3>2. (i = 1 => n = d) /\ (i = 2 => n = d + 1)
      BY <1>1, <1>3 DEF DuSb, NSb
    <3>3. CASE n = d
      BY <3>1, <3>2, <3>3 DEF TrameSb
    <3>4. CASE n = d + 1
      BY <3>1, <3>2, <3>4 DEF TrameSb
    <3> QED BY <3>2, <3>3, <3>4, <1>3
  <2>4. /\ i \in {1, 2} /\ sched[i].dans = 0
        /\ sched'[1].dans = IF i = 1 THEN -1 ELSE sched[1].dans
        /\ sched'[2].dans = IF i = 2 THEN -1 ELSE sched[2].dans
    <3>1. i \in {1, 2}
      BY <1>1, <1>3 DEF NSb
    <3>2. 1 \in 1 .. NSb /\ 2 \in 1 .. NSb
      BY <1>2
    <3> QED BY <1>4, <3>1, <3>2 DEF Echu
  <2>5. vise' = (vise \/ p51 \in TramesSch) /\ vise \in BOOLEAN
    BY <1>2 DEF SbCmd, Typee, TypeOK
  <2>6. vise' <=> \/ sched'[1].dans = -1 /\ TrameSb(n, d) \in TramesSch
                  \/ /\ ~reglage.unique
                     /\ sched'[2].dans = -1 /\ (TrameSb(n, d) + 1) % 51 \in TramesSch
    <3>1. CASE i = 1
      BY <2>2, <2>3, <2>4, <2>5, <3>1
    <3>2. CASE i = 2
      <4>1. ~reglage.unique
        BY <1>1, <1>3, <3>2 DEF NSb
      <4> QED BY <2>2, <2>3, <2>4, <2>5, <3>2, <4>1
    <3> QED BY <2>4, <3>1, <3>2
  <2> QED BY <2>1, <2>2, <2>6 DEF ViseeSb
<1> QED BY <1>1, <1>4, <1>5 DEF Forme, EnSb, SbCmd, EnL1

LEMMA SbRespForme ==
  ASSUME EnL1, NEW i \in DOMAIN sched, Echu(i), SbResp(i)
  PROVE  Forme'
<1>1. PICK n \in 0 .. 14, d \in 0 .. 10 : EnSb(n, d) /\ i \in 1 .. NSb /\ n = DuSb(i, d)
  BY RepondSb DEF SbResp
<1>2. Typee /\ NSb \in {2, 4}
  BY ReglageTypee DEF EnL1, IInv, NSb
<1>3. i > NSb \div 2 /\ sched[i].essai = i - NSb \div 2
  BY <1>1, <1>2 DEF EnSb, TableSb, SbResp
<1>4. tache' # "FB" /\ cherche' = -1 /\ ~det'.leve
  BY <1>1 DEF EnSb, SbResp, EnL1
<1>5. \/ verdict' = 1 \/ Chercher(0)
      \/ Consommer(i) /\ sched[i].essai # DernierEssai
  BY DEF SbResp, SbFaux
<1>6. CASE verdict' = 1
  BY <1>6 DEF Forme
<1>7. CASE Chercher(0)
  BY <1>4, <1>7, ChercheForme DEF Chercher
<1>8. CASE Consommer(i) /\ sched[i].essai # DernierEssai
  <2>1. i # NSb /\ i # 1 /\ i # 2 /\ ~reglage.unique
    BY <1>1, <1>2, <1>3, <1>8 DEF DernierEssai, NSb
  <2>2. /\ TableSb(n, d)'
        /\ \A j \in 1 .. NSb : sched'[j].dans = IF j = i THEN -1 ELSE sched[j].dans
    BY <1>1, <1>2, <1>8, <2>1, ConsommeSb DEF EnSb, EnL1, Typee
  <2>3. sched'[1].dans = sched[1].dans /\ sched'[2].dans = sched[2].dans
    BY <1>2, <2>1, <2>2
  <2>4. ViseeSb(n, d)'
    BY <1>1, <2>3 DEF ViseeSb, EnSb, TrameSb, Avance, SbResp, EnL1
  <2> QED BY <1>1, <1>4, <2>2, <2>4 DEF Forme, EnSb
<1> QED BY <1>5, <1>6, <1>7, <1>8

LEMMA FinSyncForme ==
  ASSUME IInv, FinSync
  PROVE  Forme'
<1>1. ASSUME NEW n \in 0 .. 14, EnFb(n) PROVE EnFb(n)'
  <2>1. \A i \in 1 .. 13 : sched[i].dans # 0
    BY <1>1 DEF EnFb, TableFb, FinSync, Echu
  <2>2. \A i \in 1 .. 13 : EnCours(i, DuFb(i), n)'
    BY <1>1, <2>1 DEF EnFb, TableFb, EnCours, FinSync, DuFb
  <2>3. TableFb(n)'
    BY <1>1, <2>1, <2>2 DEF EnFb, TableFb, FinSync
  <2>4. RechercheFb(n)'
    BY <1>1 DEF EnFb, RechercheFb, NtdmaVrai, Avance, FinSync
  <2> QED BY <2>3, <2>4 DEF EnFb
<1>2. ASSUME NEW n \in 0 .. 14, NEW d \in 0 .. 10, EnSb(n, d) PROVE EnSb(n, d)'
  <2>1. NSb \in {2, 4} /\ NSb' = NSb /\ \A i \in 1 .. NSb : DuSb(i, d)' = DuSb(i, d)
    BY DEF NSb, DuSb, FinSync
  <2>2. \A i \in 1 .. NSb : sched[i].dans # 0
    BY <1>2 DEF EnSb, TableSb, FinSync, Echu
  <2>3. \A i \in 1 .. NSb : EnCours(i, DuSb(i, d), n)'
    BY <1>2, <2>1, <2>2 DEF EnSb, TableSb, EnCours, FinSync
  <2>4. TableSb(n, d)'
    BY <1>2, <2>1, <2>2, <2>3 DEF EnSb, TableSb, FinSync
  <2>5. ViseeSb(n, d)'
    BY <1>2 DEF EnSb, ViseeSb, TrameSb, Avance, FinSync
  <2> QED BY <1>2, <2>4, <2>5 DEF EnSb, FinSync
<1> QED BY <1>1, <1>2 DEF Forme, IInv, FinSync

\* What the DSP does in a frame of a search that was posted n frames ago, seen from the
\* next frame.
LEMMA DspRecherche ==
  ASSUME IInv, Trame, NEW n \in 0 .. 13, EnFb(n), n > 1 => sched'[n].dans = 0
  PROVE  RechercheFb(n + 1)'
<1> DEFINE k == IF tache = "FB" THEN 0 ELSE cherche
<1>1. /\ p51 \in 0 .. 50 /\ cherche \in -1 .. 11 /\ Latence \in Nat
      /\ p51' = (p51 + 1) % 51 /\ tache' = "rien"
  BY RejeuAssumption DEF IInv, TypeOK, Trame, Fenetre
<1>2. k # -1 => n >= 1 /\ k = n - 1
  <2>1. (tache = "FB" => n = 1) /\ (cherche # -1 => 2 <= n /\ cherche = n - 1)
    BY DEF EnFb, RechercheFb
  <2>2. CASE tache = "FB"
    BY <2>1, <2>2
  <2>3. CASE tache # "FB"
    BY <1>1, <2>1, <2>3
  <2> QED BY <2>2, <2>3
<1>3. det.leve => n = 2
  BY DEF EnFb, RechercheFb, TableFb, EnCours, DuFb, Trame
<1>4. k >= 0 => ~det.leve
  BY <1>1, <1>2, <1>3 DEF EnFb, RechercheFb
<1>5. \A j \in 0 .. 11 : (p51' - (n + 1) + 1 + j + 51) % 51 = (p51 - n + 1 + j + 51) % 51
  BY <1>1
<1>6. CASE k = -1 /\ UNCHANGED <<cherche, det, vu>>
  <2>1. NtdmaVrai' = NtdmaVrai
    BY <1>6 DEF NtdmaVrai, Avance
  <2> QED BY <1>1, <1>3, <1>5, <1>6, <2>1 DEF EnFb, RechercheFb
<1>7. CASE k >= 0 /\ cherche' = (IF k = Fenetre - 1 THEN -1 ELSE k + 1) /\ UNCHANGED <<det, vu>>
  BY <1>1, <1>2, <1>4, <1>7 DEF RechercheFb
<1>8. ASSUME k >= 0, cherche' = -1, NEW j \in 0 .. k, k - j <= Latence,
             (p51 - (k - j) + 51) % 51 \in TramesFcch, NEW r \in Residus,
             det' = [leve |-> TRUE, toa |-> Toa(j, r)],
             vu' = [fcch |-> (p51 - (k - j) + 51) % 51, tot |-> r < 0]
      PROVE  RechercheFb(n + 1)'
  <2>0. k = n - 1 /\ n >= 1 /\ k \in 0 .. 11
    BY <1>1, <1>2, <1>8
  <2> HIDE DEF k
  <2>1. j \in 0 .. 11 /\ j <= n - 1
    BY <1>8, <2>0
  <2>2. (p51' - (n + 1) + 1 + j + 51) % 51 = (p51 - (k - j) + 51) % 51
    BY <1>1, <1>5, <2>0, <2>1
  <2>3. det'.leve /\ NtdmaVrai' = j
    <3>1. Ntdma(Toa(j, r)) = Tronquee(j, r)
      BY <2>1, NtdmaDit
    <3>2. vu'.tot <=> r < 0
      BY <1>8, Zenon
    <3>3. Avance' = IF r < 0 THEN 1 ELSE 0
      BY <3>2 DEF Avance
    <3>4. det'.leve /\ det'.toa = Toa(j, r)
      BY <1>8, Zenon
    <3>5. NtdmaVrai' = Ntdma(Toa(j, r)) + Avance'
      BY <3>4 DEF NtdmaVrai, Ntdma
    <3>6. NtdmaVrai' = j
      <4>1. CASE r < 0
        BY <2>1, <3>1, <3>3, <3>5, <4>1 DEF Tronquee
      <4>2. CASE ~(r < 0)
        BY <2>1, <3>1, <3>3, <3>5, <4>2 DEF Tronquee
      <4> QED BY <4>1, <4>2
    <3> QED BY <3>4, <3>6
  <2>4. n + 1 > 2 => sched'[n].dans = 0
    OBVIOUS
  <2>5. vu'.fcch = (p51 - (k - j) + 51) % 51
    BY <1>8
  <2> QED BY <1>1, <1>8, <2>0, <2>1, <2>2, <2>3, <2>4, <2>5 DEF RechercheFb
<1>9. Dsp
  BY DEF Trame
<1> QED BY <1>6, <1>7, <1>8, <1>9 DEF Dsp

LEMMA TrameForme ==
  ASSUME IInv, Trame
  PROVE  Forme'
<1>1. AuSuivant /\ etape = "dsp" /\ etape' = "l1" /\ reglage' = reglage /\ verdict = 0
  BY DEF Trame, AuSuivant, IInv
<1>2. Typee
  BY ReglageTypee DEF IInv
<1>3. ASSUME NEW n \in 0 .. 14, EnFb(n) PROVE Forme'
  <2>1. n + 1 \in 0 .. 14 /\ TableFb(n + 1)' /\ (n > 1 => sched'[n].dans = 0)
    BY <1>1, <1>3, TrameFb DEF EnFb
  <2>2. RechercheFb(n + 1)'
    BY <1>3, <2>1, DspRecherche
  <2> QED BY <2>1, <2>2 DEF Forme, EnFb
<1>4. ASSUME NEW n \in 0 .. 14, NEW d \in 0 .. 10, EnSb(n, d) PROVE Forme'
  <2>1. /\ n + 1 \in 0 .. 14 /\ TableSb(n + 1, d)'
        /\ \A i \in 1 .. NSb : sched'[i].dans = -1 <=> sched[i].dans = -1
    BY <1>1, <1>2, <1>4, TrameSbSuit DEF EnSb, Typee
  <2>2. UNCHANGED <<cherche, det, vu>> /\ tache' = "rien"
    BY <1>4 DEF EnSb, Trame, Dsp
  <2>3. TrameSb(n + 1, d)' = TrameSb(n, d)
    <3>1. p51 \in 0 .. 50 /\ p51' = (p51 + 1) % 51
      BY <1>2 DEF Trame, Typee, TypeOK
    <3>2. CASE p51 < 50
      BY <3>1, <3>2 DEF TrameSb
    <3>3. CASE p51 = 50
      BY <3>1, <3>3 DEF TrameSb
    <3> QED BY <3>1, <3>2, <3>3
  <2>4. ViseeSb(n + 1, d)'
    <3>1. vise' = vise
      BY DEF Trame
    <3>2. \A i \in {1, 2} : sched'[i].dans = -1 <=> sched[i].dans = -1
      BY <1>2, <2>1 DEF NSb, Typee
    <3>3. ViseeSb(n, d)
      BY <1>4 DEF EnSb
    <3> QED BY <1>1, <2>2, <2>3, <3>1, <3>2, <3>3 DEF ViseeSb, Avance
  <2> QED BY <1>4, <2>1, <2>2, <2>4 DEF Forme, EnSb
<1> QED BY <1>1, <1>3, <1>4 DEF IInv, Forme

-----------------------------------------------------------------------------
(* What the shape gives, and the invariant.                                *)

TableTypee ==
  /\ Len(sched) \in 0 .. Capacite
  /\ \A i \in DOMAIN sched :
       sched[i] \in [quoi: {"fbCmd", "fbResp", "sbCmd", "sbResp"}, essai: 0 .. Fenetre,
                     dans: -1 .. Fenetre + 2]

LEMMA JeuDeFb ==
  ASSUME NEW n \in 0 .. 14, TableFb(n)
  PROVE  TableTypee /\ UnSeulJeu /\ sched[13].dans >= 0 /\ 13 \in DOMAIN sched
<1>1. Len(sched) = 13 /\ DOMAIN sched = 1 .. 13
  BY LongueurDite DEF TableFb
<1>2. ASSUME NEW i \in 1 .. 13
      PROVE  /\ sched[i].dans \in -1 .. 14 /\ EnCours(i, DuFb(i), n)
             /\ sched[i].dans >= 0 => sched[i].dans = DuFb(i) - n
  BY DEF TableFb, EnCours, DuFb
<1>3. ASSUME NEW i \in 1 .. 13
      PROVE  sched[i] \in [quoi: {"fbCmd", "fbResp", "sbCmd", "sbResp"}, essai: 0 .. Fenetre,
                           dans: -1 .. Fenetre + 2]
  BY <1>2, <1>3 DEF TableFb, Elements, Fenetre
<1>4. /\ \A i, j \in 1 .. 13 : DuFb(i) = DuFb(j) => i = j
      /\ \A i \in 1 .. 13 : DuFb(i) \in Nat
  BY DEF DuFb
<1>5. ASSUME NEW i \in 1 .. 13, NEW j \in 1 .. 13, sched[i].dans = sched[j].dans, sched[i].dans >= 0
      PROVE  i = j
  <2>1. DuFb(i) - n = DuFb(j) - n
    BY <1>2, <1>5
  <2> QED BY <1>4, <2>1
<1>6. sched[13].dans >= 0
  BY DEF TableFb, EnCours, DuFb
<1> QED BY <1>1, <1>3, <1>5, <1>6 DEF TableTypee, UnSeulJeu, Capacite, Fenetre

LEMMA JeuDeSb ==
  ASSUME NEW n \in 0 .. 14, NEW d \in 0 .. 10, TableSb(n, d), reglage.unique \in BOOLEAN
  PROVE  TableTypee /\ UnSeulJeu /\ sched[NSb].dans >= 0 /\ NSb \in DOMAIN sched
<1>1. NSb \in {2, 4}
  BY DEF NSb
<1>2. Len(sched) = NSb /\ DOMAIN sched = 1 .. NSb
  BY <1>1, LongueurDite DEF TableSb
<1>3. ASSUME NEW i \in 1 .. NSb
      PROVE  /\ sched[i].dans \in -1 .. 14 /\ EnCours(i, DuSb(i, d), n)
             /\ sched[i].dans >= 0 => sched[i].dans = DuSb(i, d) - n
  <2>1. EnCours(i, DuSb(i, d), n) /\ DuSb(i, d) \in 0 .. 14
    BY <1>1 DEF TableSb, DuSb
  <2> QED BY <2>1 DEF EnCours
<1>4. ASSUME NEW i \in 1 .. NSb
      PROVE  sched[i] \in [quoi: {"fbCmd", "fbResp", "sbCmd", "sbResp"}, essai: 0 .. Fenetre,
                           dans: -1 .. Fenetre + 2]
  BY <1>1, <1>3 DEF TableSb, Elements, Fenetre
<1>5. \A i, j \in 1 .. NSb : DuSb(i, d) = DuSb(j, d) => i = j
  BY <1>1 DEF DuSb, NSb
<1>6. \A i \in 1 .. NSb : DuSb(i, d) \in Nat
  BY <1>1 DEF DuSb
<1>7. ASSUME NEW i \in 1 .. NSb, NEW j \in 1 .. NSb, sched[i].dans = sched[j].dans, sched[i].dans >= 0
      PROVE  i = j
  <2>1. DuSb(i, d) - n = DuSb(j, d) - n
    BY <1>3, <1>7
  <2> QED BY <1>5, <1>6, <2>1
<1>8. sched[NSb].dans >= 0
  BY <1>1, <1>3, <1>6 DEF TableSb, EnCours
<1> QED BY <1>1, <1>2, <1>4, <1>7, <1>8 DEF TableTypee, UnSeulJeu, Capacite, Fenetre

\* Without a verdict the shape alone gives the type of the table and the two halves of
\* ToujoursUnJeu.
LEMMA JeuDeForme ==
  ASSUME Forme, verdict = 0, reglage.unique \in BOOLEAN
  PROVE  TableTypee /\ UnSeulJeu /\ JamaisMuet
<1>1. ASSUME NEW n \in 0 .. 14, EnFb(n) PROVE TableTypee /\ UnSeulJeu /\ JamaisMuet
  BY <1>1, JeuDeFb DEF EnFb, JamaisMuet
<1>2. ASSUME NEW n \in 0 .. 14, NEW d \in 0 .. 10, EnSb(n, d)
      PROVE TableTypee /\ UnSeulJeu /\ JamaisMuet
  BY <1>2, JeuDeSb DEF EnSb, JamaisMuet
<1> QED BY <1>1, <1>2 DEF Forme

\* The same of the next state.
LEMMA JeuDeFormeSuivant ==
  (Forme /\ verdict = 0 /\ reglage.unique \in BOOLEAN)' => TableTypee' /\ UnSeulJeu'
<1>1. Forme /\ verdict = 0 /\ reglage.unique \in BOOLEAN => TableTypee /\ UnSeulJeu
  BY JeuDeForme
<1> QED BY <1>1, PTL

\* The variables but the table.
Reste ==
  /\ reglage \in Reglages
  /\ etape \in {"l1", "dsp", "fin"} /\ p51 \in 0 .. 50
  /\ fbMode \in 0 .. 1 /\ afcRetries \in 0 .. AfcRetryMax /\ fb0Retries \in 0 .. Fb0RetryMax
  /\ verdict \in -1 .. 1 /\ tache \in {"rien", "FB", "SB"} /\ cherche \in -1 .. Fenetre - 1
  /\ det \in [leve: BOOLEAN, toa: Toas]
  /\ sbCmd \in -1 .. 50 /\ vu \in [fcch: 0 .. 50, tot: BOOLEAN] /\ vise \in BOOLEAN

LEMMA TypeDecoupe == TypeOK <=> Reste /\ TableTypee
BY DEF TypeOK, Reste, TableTypee

LEMMA ResteReglage ==
  ASSUME Reste'
  PROVE  reglage'.unique \in BOOLEAN
BY RejeuAssumption DEF Reste

LEMMA TypeDecoupeSuivant == TypeOK' <=> Reste' /\ TableTypee'
BY TypeDecoupe, PTL

LEMMA ResteAppel ==
  ASSUME EnL1, NEW i \in DOMAIN sched,
         FbCmd(i) \/ FbMuet(i) \/ FbTrouve(i) \/ SbCmd(i) \/ SbResp(i)
  PROVE  Reste'
<1>1. Reste
  BY TypeDecoupe DEF EnL1, IInv
<1>2. AfcRetryMax \in Nat /\ Fb0RetryMax \in Nat
  BY RejeuAssumption
<1>3. CASE FbCmd(i)
  BY <1>1, <1>3 DEF Reste, EnL1, FbCmd
<1>4. CASE FbMuet(i)
  <2>1. fbMode' \in 0 .. 1 /\ sbCmd' \in -1 .. 50 /\ verdict' \in -1 .. 1
    <3>1. /\ Chercher(0) \/ Abandonner \/ UNCHANGED <<fbMode, sbCmd>>
          /\ verdict' \in {verdict, -1}
      BY <1>4 DEF FbMuet, Abandonner
    <3>2. fbMode \in 0 .. 1 /\ sbCmd \in -1 .. 50 /\ verdict \in -1 .. 1
      BY <1>1 DEF Reste
    <3>3. fbMode' \in {0, 1, fbMode} /\ sbCmd' \in {-1, sbCmd}
      BY <3>1 DEF Chercher, Abandonner
    <3> QED BY <3>1, <3>2, <3>3
  <2>2. fb0Retries' \in 0 .. Fb0RetryMax
    BY <1>1, <1>2, <1>4 DEF Reste, FbMuet
  <2> QED BY <1>1, <1>4, <2>1, <2>2 DEF Reste, EnL1, FbMuet
<1>5. CASE FbTrouve(i)
  <2>1. fbMode' \in 0 .. 1 /\ sbCmd' \in -1 .. 50 /\ verdict' \in -1 .. 1
    <3>1. /\ Chercher(0) \/ Chercher(1) \/ Abandonner \/ UNCHANGED <<fbMode, sbCmd>>
          /\ verdict' \in {verdict, -1}
      BY <1>5 DEF FbTrouve, Abandonner
    <3>2. fbMode \in 0 .. 1 /\ sbCmd \in -1 .. 50 /\ verdict \in -1 .. 1
      BY <1>1 DEF Reste
    <3>3. fbMode' \in {0, 1, fbMode} /\ sbCmd' \in {-1, sbCmd}
      BY <3>1 DEF Chercher, Abandonner
    <3> QED BY <3>1, <3>2, <3>3
  <2>2. afcRetries' \in 0 .. AfcRetryMax
    BY <1>1, <1>2, <1>5 DEF Reste, FbTrouve
  <2>3. det' \in [leve: BOOLEAN, toa: Toas]
    <3>1. 0 \in Toas
      BY DEF Toas, ToaNul, BitsTrame, Fenetre
    <3> QED BY <1>5, <3>1 DEF FbTrouve, Lire
  <2>4. UNCHANGED <<fb0Retries, tache>> /\ vise' = FALSE
    BY <1>5 DEF FbTrouve
  <2> QED BY <1>1, <2>1, <2>2, <2>3, <2>4 DEF Reste, EnL1
<1>6. CASE SbCmd(i)
  BY <1>1, <1>6 DEF Reste, EnL1, SbCmd
<1>7. CASE SbResp(i)
  BY <1>1, <1>7 DEF Reste, EnL1, SbResp, SbFaux, Chercher
<1> QED BY <1>3, <1>4, <1>5, <1>6, <1>7

\* A callback that ends the replay leaves a table that has at most lost an element.
LEMMA TableAppel ==
  ASSUME EnL1, NEW i \in DOMAIN sched,
         FbCmd(i) \/ FbMuet(i) \/ FbTrouve(i) \/ SbCmd(i) \/ SbResp(i), verdict' # 0
  PROVE  TableTypee' /\ UnSeulJeu'
<1>1. sched' = <<>> \/ Consommer(i)
  BY DEF EnL1, FbCmd, FbMuet, FbTrouve, SbCmd, SbResp, Abandonner
<1>2. CASE sched' = <<>>
  BY <1>2 DEF TableTypee, UnSeulJeu, Capacite, Fenetre
<1>3. CASE Consommer(i)
  <2>1. TableTypee /\ UnSeulJeu
    BY TypeDecoupe DEF EnL1, IInv
  <2>2. DOMAIN sched' = DOMAIN sched /\ Len(sched') = Len(sched)
    BY <1>3 DEF Consommer
  <2>3. \A j \in DOMAIN sched : sched'[j] = IF j = i THEN [sched[j] EXCEPT !.dans = -1] ELSE sched[j]
    BY <1>3 DEF Consommer
  <2>4. ASSUME NEW j \in DOMAIN sched
        PROVE  /\ sched'[j] \in [quoi: {"fbCmd", "fbResp", "sbCmd", "sbResp"}, essai: 0 .. Fenetre,
                                  dans: -1 .. Fenetre + 2]
               /\ sched'[j].dans = IF j = i THEN -1 ELSE sched[j].dans
    <3> DEFINE Champs == [quoi: {"fbCmd", "fbResp", "sbCmd", "sbResp"}, essai: 0 .. Fenetre,
                          dans: -1 .. Fenetre + 2]
    <3>1. sched[j] \in Champs
      BY <2>1 DEF TableTypee
    <3>2. [sched[j] EXCEPT !.dans = -1] \in Champs /\ [sched[j] EXCEPT !.dans = -1].dans = -1
      BY <3>1 DEF Fenetre
    <3> HIDE DEF Champs
    <3>3. sched'[j] \in Champs /\ sched'[j].dans = IF j = i THEN -1 ELSE sched[j].dans
      BY <2>3, <3>1, <3>2
    <3> QED BY <3>3 DEF Champs
  <2>5. TableTypee'
    BY <2>1, <2>2, <2>4 DEF TableTypee
  <2>6. UnSeulJeu'
    BY <2>1, <2>2, <2>4 DEF UnSeulJeu
  <2> QED BY <2>5, <2>6
<1> QED BY <1>1, <1>2, <1>3

-----------------------------------------------------------------------------
(* The theorems.                                                           *)

LEMMA InitIInv ==
  ASSUME Init
  PROVE  IInv
<1>1. sched = Plan(<<>>, JeuFb(1)) /\ etape = "l1" /\ verdict = 0
  BY DEF Init
<1>2. TableFb(0)
  <2>1. ASSUME NEW i \in 1 .. 13 PROVE EnCours(i, DuFb(i), 0)
    BY <1>1, JeuFbDit DEF EnCours, DuFb
  <2> QED BY <1>1, <2>1, JeuFbDit DEF TableFb
<1>3. RechercheFb(0)
  BY DEF Init, ArmDspInit, RechercheFb
<1>4. Forme
  BY <1>2, <1>3 DEF Forme, EnFb
<1>5. TableTypee /\ UnSeulJeu
  BY <1>2, JeuDeFb
<1>6. Reste
  <2>1. /\ det \in [leve: BOOLEAN, toa: Toas]
        /\ cherche \in -1 .. Fenetre - 1 /\ tache = "rien" /\ vu \in [fcch: 0 .. 50, tot: BOOLEAN]
    <3>1. 0 \in Toas
      BY DEF Toas, ToaNul, BitsTrame, Fenetre
    <3> QED BY <3>1 DEF Init, ArmDspInit, Fenetre
  <2>2. AfcRetryMax \in Nat /\ Fb0RetryMax \in Nat
    BY RejeuAssumption
  <2>3. /\ reglage \in Reglages /\ etape = "l1" /\ p51 = 0 /\ fbMode = 0 /\ afcRetries = 0
        /\ fb0Retries = 0 /\ verdict = 0 /\ sbCmd = -1 /\ vise = FALSE
    BY DEF Init
  <2>4. /\ afcRetries \in 0 .. AfcRetryMax /\ fb0Retries \in 0 .. Fb0RetryMax
        /\ p51 \in 0 .. 50 /\ fbMode \in 0 .. 1 /\ verdict \in -1 .. 1 /\ sbCmd \in -1 .. 50
    BY <2>2, <2>3
  <2> QED BY <2>1, <2>3, <2>4 DEF Reste
<1> QED BY <1>1, <1>4, <1>5, <1>6, TypeDecoupe DEF IInv

\* The shape after any step of l1_sync.
LEMMA AppelForme ==
  ASSUME EnL1, NEW i \in DOMAIN sched, Echu(i),
         FbCmd(i) \/ FbMuet(i) \/ FbTrouve(i) \/ SbCmd(i) \/ SbResp(i)
  PROVE  Forme'
BY FbCmdForme, FbMuetForme, FbTrouveForme, SbCmdForme, SbRespForme

LEMMA SuivantIInv ==
  ASSUME IInv, [Next]_vars
  PROVE  IInv'
<1>1. CASE Appeler
  <2>1. EnL1
    BY <1>1 DEF Appeler, EnL1
  <2>2. PICK i \in DOMAIN sched :
          Echu(i) /\ (FbCmd(i) \/ FbMuet(i) \/ FbTrouve(i) \/ SbCmd(i) \/ SbResp(i))
    BY <1>1 DEF Appeler
  <2>3. Reste' /\ Forme'
    BY <2>1, <2>2, ResteAppel, AppelForme
  <2>4. TableTypee' /\ UnSeulJeu'
    <3>1. CASE verdict' # 0
      BY <2>1, <2>2, <3>1, TableAppel
    <3>2. CASE verdict' = 0
      BY <2>3, <3>2, ResteReglage, JeuDeFormeSuivant
    <3> QED BY <3>1, <3>2
  <2>5. etape' = "l1"
    BY <2>1 DEF EnL1
  <2> QED BY <2>3, <2>4, <2>5, TypeDecoupeSuivant DEF IInv
<1>2. CASE FinSync
  <2>1. Forme'
    BY <1>2, FinSyncForme
  <2>2. Reste'
    BY <1>2, TypeDecoupe DEF IInv, Reste, FinSync
  <2>3. TableTypee' /\ UnSeulJeu'
    BY <1>2, TypeDecoupe DEF IInv, TableTypee, UnSeulJeu, FinSync
  <2> QED BY <1>2, <2>1, <2>2, <2>3, TypeDecoupeSuivant DEF IInv, FinSync
<1>3. CASE Trame
  <2>1. Forme'
    BY <1>3, TrameForme
  <2>2. Reste'
    <3>1. Reste
      BY TypeDecoupe DEF IInv
    <3>2. p51' \in 0 .. 50
      BY <1>3, <3>1 DEF Trame, Reste
    <3>3. /\ cherche' \in -1 .. Fenetre - 1 /\ vu' \in [fcch: 0 .. 50, tot: BOOLEAN]
          /\ det' \in [leve: BOOLEAN, toa: Toas]
      <4> DEFINE k == IF tache = "FB" THEN 0 ELSE cherche
      <4> DEFINE Dets == [leve: BOOLEAN, toa: Toas]
      <4> DEFINE Vus == [fcch: 0 .. 50, tot: BOOLEAN]
      <4>1. k \in -1 .. 11 /\ cherche \in -1 .. 11 /\ det \in Dets /\ vu \in Vus /\ p51 \in 0 .. 50
        BY <3>1 DEF Reste, Fenetre
      <4>2. \/ UNCHANGED <<cherche, det, vu>>
            \/ k >= 0 /\ cherche' = (IF k = 11 THEN -1 ELSE k + 1) /\ UNCHANGED <<det, vu>>
            \/ /\ cherche' = -1
               /\ \E j \in 0 .. k, r \in Residus :
                    /\ det' = [leve |-> TRUE, toa |-> Toa(j, r)]
                    /\ vu' = [fcch |-> (p51 - (k - j) + 51) % 51, tot |-> r < 0]
        BY <1>3 DEF Trame, Dsp, Fenetre
      <4> HIDE DEF k
      <4>3. cherche' \in -1 .. 11
        BY <4>1, <4>2
      <4>4. ASSUME NEW j \in 0 .. k, NEW r \in Residus,
                   det' = [leve |-> TRUE, toa |-> Toa(j, r)],
                   vu' = [fcch |-> (p51 - (k - j) + 51) % 51, tot |-> r < 0]
            PROVE  det' \in Dets /\ vu' \in Vus
        <5>1. j \in 0 .. 11 /\ r \in -1250 .. 1249 /\ k - j \in 0 .. 11
          BY <4>1, RejeuAssumption DEF BitsTrame
        <5>2. Toa(j, r) \in Toas
          BY <5>1 DEF Toa, Toas, ToaNul, BitsTrame, Fenetre
        <5>3. (p51 - (k - j) + 51) % 51 \in 0 .. 50
          BY <4>1, <5>1
        <5> QED BY <4>4, <5>2, <5>3
      <4> HIDE DEF Dets, Vus
      <4>5. ASSUME det' = det, vu' = vu PROVE det' \in Dets /\ vu' \in Vus
        BY <4>1, <4>5, Zenon
      <4>6. det' \in Dets /\ vu' \in Vus
        <5>1. \/ det' = det /\ vu' = vu
              \/ \E j \in 0 .. k, r \in Residus :
                   /\ det' = [leve |-> TRUE, toa |-> Toa(j, r)]
                   /\ vu' = [fcch |-> (p51 - (k - j) + 51) % 51, tot |-> r < 0]
          BY <4>2, Zenon
        <5> QED BY <4>4, <4>5, <5>1, Zenon
      <4> QED BY <4>3, <4>6 DEF Fenetre, Dets, Vus
    <3> QED BY <1>3, <3>1, <3>2, <3>3 DEF Trame, Reste
  <2>3. verdict' = 0 /\ etape' = "l1"
    BY <1>3 DEF Trame, IInv
  <2>4. TableTypee' /\ UnSeulJeu'
    BY <2>1, <2>2, <2>3, ResteReglage, JeuDeFormeSuivant
  <2> QED BY <2>1, <2>2, <2>3, <2>4, TypeDecoupeSuivant DEF IInv
<1>4. CASE Conclure \/ UNCHANGED vars
  <2>1. /\ UNCHANGED <<reglage, p51, sched, fbMode, afcRetries, fb0Retries, verdict, tache, cherche,
                       det, sbCmd, vu, vise>>
        /\ (etape' = "fin" /\ verdict # 0) \/ etape' = etape
    BY <1>4 DEF Conclure, vars
  <2>2. Reste'
    BY <2>1, TypeDecoupe DEF IInv, Reste
  <2>3. TableTypee' /\ UnSeulJeu'
    BY <2>1, TypeDecoupe DEF IInv, TableTypee, UnSeulJeu
  <2>4. CASE etape' = etape
    <3>1. ASSUME NEW n \in 0 .. 14, EnFb(n) PROVE EnFb(n)'
      BY <2>1, <2>4, <3>1 DEF EnFb, TableFb, EnCours, RechercheFb, NtdmaVrai, Avance
    <3>2. ASSUME NEW n \in 0 .. 14, NEW d \in 0 .. 10, EnSb(n, d) PROVE EnSb(n, d)'
      BY <2>1, <2>4, <3>2 DEF EnSb, TableSb, EnCours, ViseeSb, TrameSb, Avance, NSb, DuSb
    <3>3. Forme'
      BY <2>1, <3>1, <3>2 DEF IInv, Forme
    <3> QED BY <2>1, <2>2, <2>3, <2>4, <3>3, TypeDecoupeSuivant DEF IInv
  <2>5. CASE etape' = "fin" /\ verdict # 0
    BY <2>1, <2>2, <2>3, <2>5, TypeDecoupeSuivant DEF IInv, Forme
  <2> QED BY <2>1, <2>4, <2>5
<1> QED BY <1>1, <1>2, <1>3, <1>4 DEF Next

\* The state of a replay stays within its types: the table never overflows, nothing waits
\* for more than the fourteen frames of a set, the retries stay within their budgets.
THEOREM TypeCorrecte == Spec => []TypeOK
<1>1. IInv => TypeOK
  BY DEF IInv
<1> QED BY InitIInv, SuivantIInv, <1>1, PTL DEF Spec

\* The replayed ARM never falls silent and no two callbacks are due in the same frame: of
\* the set that is planned, exactly one answers for the next step (rejouer.c: plan_fb_set,
\* plan_sb_set, sbdet_resp).
THEOREM ToujoursUnSeulJeu == Spec => []ToujoursUnJeu
<1>1. IInv => ToujoursUnJeu
  <2> SUFFICES ASSUME IInv PROVE ToujoursUnJeu
    OBVIOUS
  <2>1. CASE verdict = 0
    BY <2>1, ReglageTypee, JeuDeForme DEF IInv, Typee, ToujoursUnJeu
  <2>2. CASE verdict # 0
    BY <2>2 DEF IInv, ToujoursUnJeu, JamaisMuet
  <2> QED BY <2>1, <2>2
<1> QED BY InitIInv, SuivantIInv, <1>1, PTL DEF Spec

\* A response of the FB set that reads a detection counts from the frame of the FCCH, or from
\* the one before it if the TOA was early, for any latency of the DSP.
LEMMA FcchToujoursJuste ==
  ASSUME IInv
  PROVE  FcchJuste
<1> SUFFICES ASSUME NEW i \in Reponse("fbResp"), det.leve
             PROVE  /\ vu.fcch \in TramesFcch
                    /\ (p51 - sched[i].essai - 1 + Ntdma(det.toa) + Avance + 51) % 51 = vu.fcch
  BY DEF FcchJuste, Avance
<1>1. i \in DOMAIN sched /\ Echu(i) /\ sched[i].quoi = "fbResp" /\ etape = "l1" /\ verdict = 0
  BY DEF Reponse
<1>2. PICK n \in 0 .. 14 : EnFb(n)
  <2>1. \A n \in 0 .. 14, d \in 0 .. 10 : ~EnSb(n, d)
    BY DEF EnSb
  <2> QED BY <1>1, <2>1 DEF IInv, Forme
<1>3. i \in 1 .. 13 /\ n = DuFb(i)
  BY <1>1, <1>2, EchuFb DEF EnFb
<1>4. sched[i].essai = n - 2
  BY <1>1, <1>2, <1>3 DEF EnFb, TableFb, DuFb
<1>5. (p51 - n + 1 + NtdmaVrai + 51) % 51 = vu.fcch /\ vu.fcch \in TramesFcch
  BY <1>2 DEF EnFb, RechercheFb
<1>6. p51 \in 0 .. 50 /\ Ntdma(det.toa) \in Int /\ Avance \in {0, 1}
  BY NtdmaEntier DEF IInv, TypeOK, Avance
<1>7. p51 - sched[i].essai - 1 + Ntdma(det.toa) + Avance + 51 = p51 - n + 1 + NtdmaVrai + 51
  BY <1>4, <1>6 DEF NtdmaVrai
<1> QED BY <1>5, <1>7

\* Where two commands fall, eleven frames after an FCCH or one less.
LEMMA Ecarts ==
  ASSUME NEW f \in TramesFcch, NEW a \in {0, 1}
  PROVE  LET t == (f + 11 - a) % 51 IN
         /\ t \in TramesSch <=> f # 40 /\ a = 0
         /\ (t + 1) % 51 \in TramesSch <=> (f = 40 <=> a = 0)
<1> DEFINE Sch == {1, 11, 21, 31, 41}
<1>1. f \in {0, 10, 20, 30, 40}
  BY DEF TramesFcch, TypeBurst
<1>2. \A x \in 0 .. 50 : x \in TramesSch <=> x \in Sch
  BY DEF TramesSch, TypeBurst
<1>3. /\ (f + 11 - a) % 51 \in 0 .. 50
      /\ (((f + 11 - a) % 51) + 1) % 51 \in 0 .. 50
  BY <1>1
<1>4. CASE a = 0
  <2>1. f + 11 - a = f + 11
    BY <1>1, <1>4
  <2>2. (f + 11) % 51 \in Sch <=> f # 40
    BY <1>1
  <2>3. (((f + 11) % 51) + 1) % 51 \in Sch <=> f = 40
    BY <1>1
  <2> HIDE DEF Sch
  <2> QED BY <1>2, <1>3, <1>4, <2>1, <2>2, <2>3, Zenon
<1>5. CASE a = 1
  <2>1. f + 11 - a = f + 10 /\ a # 0
    BY <1>1, <1>5
  <2>2. (f + 10) % 51 \notin Sch
    BY <1>1
  <2>3. (((f + 10) % 51) + 1) % 51 \in Sch <=> f # 40
    BY <1>1
  <2> HIDE DEF Sch
  <2> QED BY <1>2, <1>3, <2>1, <2>2, <2>3, Zenon
<1> QED BY <1>4, <1>5, Zenon

\* By the time a response of an SB set is due, its commands have been run.
LEMMA SchToujoursVise ==
  ASSUME IInv, Latence <= 9
  PROVE  ViseSch
<1> SUFFICES ASSUME NEW i \in Reponse("sbResp")
             PROVE  vise <=> \A e, f \in Ecueils : e = f
  BY DEF ViseSch
<1>1. i \in DOMAIN sched /\ Echu(i) /\ sched[i].quoi = "sbResp" /\ etape = "l1" /\ verdict = 0
  BY DEF Reponse
<1>2. Typee
  BY ReglageTypee DEF IInv
<1>3. PICK n \in 0 .. 14, d \in 0 .. 10 : EnSb(n, d)
  <2>1. ASSUME NEW n \in 0 .. 14, EnFb(n) PROVE FALSE
    <3>1. i \in 1 .. 13
      BY <1>1, <2>1, EchuFb DEF EnFb
    <3> QED BY <1>1, <2>1, <3>1 DEF EnFb, TableFb
  <2> QED BY <1>1, <2>1 DEF IInv, Forme
<1>4. i \in 1 .. NSb /\ n = DuSb(i, d) /\ NSb = (IF reglage.unique THEN 2 ELSE 4)
  BY <1>1, <1>2, <1>3, EchuSb DEF EnSb, NSb, Typee
<1>5. i > NSb \div 2
  BY <1>1, <1>3, <1>4 DEF EnSb, TableSb
<1>6. sched[1].dans = -1 /\ (~reglage.unique => sched[2].dans = -1)
  <2>1. n > DuSb(1, d) /\ (~reglage.unique => n > DuSb(2, d))
    BY <1>4, <1>5 DEF DuSb
  <2>2. EnCours(1, DuSb(1, d), n) /\ EnCours(2, DuSb(2, d), n)
    BY <1>3, <1>4 DEF EnSb, TableSb
  <2> QED BY <2>1, <2>2 DEF EnCours
<1>7. /\ vu.fcch \in TramesFcch /\ Avance \in {0, 1}
      /\ TrameSb(n, d) = (vu.fcch + 11 - Avance) % 51
      /\ vise <=> \/ TrameSb(n, d) \in TramesSch
                  \/ ~reglage.unique /\ (TrameSb(n, d) + 1) % 51 \in TramesSch
  BY <1>3, <1>6 DEF EnSb, ViseeSb, Avance
<1>8. vise <=> \/ vu.fcch # 40 /\ Avance = 0
               \/ ~reglage.unique /\ (vu.fcch = 40 <=> Avance = 0)
  BY <1>7, Ecarts
<1>9. Avance = 0 <=> ~vu.tot
  BY DEF Avance
<1>10. /\ "seule" \in Ecueils <=> reglage.unique
       /\ "tot" \in Ecueils <=> vu.tot
       /\ "dernier" \in Ecueils <=> vu.fcch = 40
       /\ Ecueils \subseteq {"seule", "tot", "dernier"}
  BY DEF Ecueils
<1>11. (\A e, f \in Ecueils : e = f) <=>
         /\ ~("seule" \in Ecueils /\ "tot" \in Ecueils)
         /\ ~("seule" \in Ecueils /\ "dernier" \in Ecueils)
         /\ ~("tot" \in Ecueils /\ "dernier" \in Ecueils)
  BY <1>10
<1>12. /\ "seule" \in Ecueils => reglage.unique
       /\ "seule" \notin Ecueils => ~reglage.unique
       /\ "tot" \in Ecueils => Avance # 0
       /\ "tot" \notin Ecueils => Avance = 0
  BY <1>9, <1>10
<1> QED BY <1>8, <1>10, <1>11, <1>12, Zenon

\* The SCH is looked for where the FCCH was, and an SB set misses it only when two of the
\* three Ecueils meet, as long as the DSP reports an FCCH at most nine frames after it: past
\* that the delay to the SB command may be clamped to zero and the command comes too late
\* (rejouer.c: fbdet_resp, toa, ntdma and delay).
THEOREM SchToujoursAuBonEndroit ==
  ASSUME Latence <= 9
  PROVE  Spec => []SchAuBonEndroit
<1>1. IInv => SchAuBonEndroit
  BY FcchToujoursJuste, SchToujoursVise DEF SchAuBonEndroit
<1> QED BY InitIInv, SuivantIInv, <1>1, PTL DEF Spec
=============================================================================
