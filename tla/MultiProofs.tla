---------------------------- MODULE MultiProofs -----------------------------
(***************************************************************************)
(* Proofs about Multi, for every plan, number of CPUs, set of pids and     *)
(* number of children that are not jobs: the types, what the parent keeps  *)
(* of its jobs, and the pool that Reservoir describes.                     *)
(*                                                                         *)
(* The inductive invariant ties the parent's tables to the kernel's: a     *)
(* process that runs a job holds the pid the parent has written down and   *)
(* the job holds a slot; and, unless SIGCHLD is ignored, the other way     *)
(* round, so that the pid wait() returns names one job or none.            *)
(***************************************************************************)
EXTENDS Multi, FiniteSetTheorems, WellFoundedInduction, TLAPS

-----------------------------------------------------------------------------
(* The invariant.                                                          *)

\* Before the pool is sized nothing has been launched.
Avant ==
  /\ n <= MaxTaches
  /\ pc = "lecture" => n = 0
  /\ pc = "preparation" => n >= 1
  /\ pc \in {"lecture", "preparation"} =>
       /\ prochaine = 1 /\ enCours = 0 /\ finies = 0 /\ echecs = 0 /\ coeurs = 0
  /\ pc # "fin" => code = 0

\* The parent's tables and the kernel's.
Processus ==
  /\ \A p \in Pids : tache[p] # 0 =>
       /\ etat[p] # "libre" /\ pid[tache[p]] = p
       /\ \E s \in Places : occupe[s] = tache[p]
  /\ \A p \in Pids : etat[p] = "zombi" =>
       ~ignore /\ (tache[p] # 0 => reel[tache[p]] = issue[p])
  /\ ~ignore => \A s \in Places : occupe[s] # 0 =>
       pid[occupe[s]] \in Pids /\ tache[pid[occupe[s]]] = occupe[s]
  /\ \A s \in Places : occupe[s] # 0 => cpu[occupe[s]] \in {s, -1}

\* What the report is made of.
Rapport ==
  /\ \A k \in Taches : statut[k] # NonLancee => statut[k] = reel[k]
  /\ echecs = 0 => \A k \in Taches : statut[k] # NonLancee => statut[k] = 0
  /\ pc = "attente" => enCours > 0
  /\ pc = "bilan" /\ ~ignore => Finies = Taches
  /\ pc = "fin" /\ code = 0 /\ ~ignore => Finies = Taches /\ echecs = 0

IInv == TypeOK /\ Avant /\ Comptes /\ Processus /\ Rapport

-----------------------------------------------------------------------------
(* Slots and jobs, counted.                                                *)

\* A set of natural numbers that is finite has a smallest element.
LEMMA PlusPetit ==
  ASSUME NEW E, E \subseteq Nat, E # {}, IsFiniteSet(E)
  PROVE  \E s \in E : \A u \in E : ~(u < s)
<1> DEFINE Sous(s) == {u \in E : u <= s}
           T == {Sous(s) : s \in E}
<1>1. IsWellFoundedOn(StrictSubsetOrdering(E), FiniteSubsetsOf(E))
  BY FS_StrictSubsetOrderingWellFounded
<1>2. T \subseteq FiniteSubsetsOf(E)
  BY FS_Subset DEF FiniteSubsetsOf
<1>3. T # {}
  OBVIOUS
<1>4. PICK x \in T : \A y \in T : ~(<<y, x>> \in StrictSubsetOrdering(E))
  <2> HIDE DEF T
  <2> QED BY <1>1, <1>2, <1>3, WFMin
<1>5. PICK s \in E : x = Sous(s)
  OBVIOUS
<1>6. ASSUME NEW u \in E, u < s PROVE FALSE
  <2>1. Sous(u) \in T
    OBVIOUS
  <2>2. \A v \in E : v <= u => v <= s
    BY <1>6
  <2>3. s <= s /\ ~(s <= u)
    BY <1>6
  <2>4. Sous(u) \subseteq Sous(s) /\ Sous(u) # Sous(s)
    BY <2>2, <2>3
  <2>5. <<Sous(u), x>> \in StrictSubsetOrdering(E)
    BY <1>5, <2>4 DEF StrictSubsetOrdering
  <2> QED BY <1>4, <2>1, <2>5
<1> QED BY <1>6

LEMMA Finitude ==
  ASSUME TypeOK
  PROVE  /\ IsFiniteSet(Places) /\ Cardinality(Places) = coeurs
         /\ IsFiniteSet(Taches) /\ Cardinality(Taches) = n
         /\ IsFiniteSet(Occupees) /\ IsFiniteSet(Finies)
<1>1. n \in Nat /\ coeurs \in 0 .. n
  BY DEF TypeOK
<1>2. /\ IsFiniteSet(Places) /\ Cardinality(Places) = coeurs
      /\ IsFiniteSet(Taches) /\ Cardinality(Taches) = n
  BY <1>1, FS_Interval DEF Places, Taches
<1>3. Occupees \in SUBSET Places /\ Finies \in SUBSET Taches
  BY DEF Occupees, Finies
<1>4. IsFiniteSet(Occupees)
  BY <1>2, <1>3, FS_Subset
<1>5. IsFiniteSet(Finies)
  BY <1>2, <1>3, FS_Subset
<1> QED BY <1>2, <1>4, <1>5

\* The search for a free slot stays inside the array.
LEMMA LibreExiste ==
  ASSUME TypeOK, Comptes, enCours < coeurs
  PROVE  PremiereLibre \in Places /\ occupe[PremiereLibre] = 0
<1> DEFINE L == {s \in Places : occupe[s] = 0}
<1>1. Occupees # Places
  BY Finitude DEF Comptes, TypeOK
<1>2. L # {} /\ L \in SUBSET Places
  BY <1>1 DEF Occupees
<1>3. L \subseteq Nat
  BY DEF Places
<1>4. IsFiniteSet(L)
  BY <1>2, Finitude, FS_Subset
<1>5. PICK s \in L : \A u \in L : ~(u < s)
  <2> HIDE DEF L
  <2> QED BY <1>2, <1>3, <1>4, PlusPetit
<1>6. s \in Places /\ occupe[s] = 0 /\ \A u \in Places : u < s => occupe[u] # 0
  BY <1>5
<1> QED BY <1>6 DEF PremiereLibre

LEMMA Prend ==
  ASSUME TypeOK, NEW s \in Places, occupe[s] = 0, NEW k \in Taches,
         occupe' = [occupe EXCEPT ![s] = k], coeurs' = coeurs
  PROVE  Cardinality(Occupees') = Cardinality(Occupees) + 1
<1>1. Occupees' = Occupees \cup {s} /\ s \notin Occupees
  BY DEF Occupees, TypeOK, Places, Taches
<1> QED BY <1>1, Finitude, FS_AddElement

LEMMA Rend ==
  ASSUME TypeOK, NEW s \in Places, occupe[s] # 0,
         occupe' = [occupe EXCEPT ![s] = 0], coeurs' = coeurs
  PROVE  Cardinality(Occupees') = Cardinality(Occupees) - 1
<1>1. Occupees' = Occupees \ {s} /\ s \in Occupees
  BY DEF Occupees, TypeOK, Places
<1> QED BY <1>1, Finitude, FS_RemoveElement

LEMMA Finit ==
  ASSUME TypeOK, NEW k \in Taches, statut[k] = NonLancee, NEW v \in Issues \cup {Echec},
         statut' = [statut EXCEPT ![k] = v], n' = n
  PROVE  Finies' = Finies \cup {k} /\ Cardinality(Finies') = Cardinality(Finies) + 1
<1>1. v # NonLancee
  BY MultiAssumption DEF NonLancee, Echec
<1>2. Finies' = Finies \cup {k} /\ k \notin Finies
  BY <1>1 DEF Finies, TypeOK, Taches
<1> QED BY <1>2, Finitude, FS_AddElement

LEMMA Compte ==
  ASSUME TypeOK
  PROVE  Cardinality(Occupees) \in Nat /\ Cardinality(Finies) \in Nat
BY Finitude, FS_CardinalityType

-----------------------------------------------------------------------------
(* Every step keeps the invariant.                                         *)

LEMMA InitIInv ==
  ASSUME Init
  PROVE  IInv
<1>1. Taches = {} /\ Places = {} /\ Occupees = {} /\ Finies = {}
  BY DEF Init, Taches, Places, Occupees, Finies
<1>2. Cardinality({}) = 0
  BY FS_EmptySet
<1>3. TypeOK
  <2>1. /\ <<>> \in [Taches -> Statuts] /\ <<>> \in [Taches -> Pids \cup {0}]
        /\ <<>> \in [Taches -> Places \cup {-1}] /\ <<>> \in [Places -> Taches \cup {0}]
    BY <1>1
  <2>2. /\ etat \in [Pids -> {"libre", "vivant", "zombi"}]
        /\ tache \in [Pids -> Taches \cup {0}] /\ issue \in [Pids -> Issues \cup {0}]
    BY DEF Init
  <2>3. /\ statut = <<>> /\ reel = <<>> /\ pid = <<>> /\ cpu = <<>> /\ occupe = <<>>
        /\ pc = "lecture" /\ epingler = FALSE /\ ignore \in BOOLEAN
    BY DEF Init
  <2>4. /\ n \in Nat /\ coeurs \in 0 .. n /\ prochaine \in 1 .. n + 1 /\ enCours \in Nat
        /\ finies \in Nat /\ echecs \in Nat /\ code \in 0 .. 2 /\ etrangers \in Nat
    BY DEF Init
  <2> QED BY <2>1, <2>2, <2>3, <2>4 DEF TypeOK
<1>4. Comptes
  BY <1>1, <1>2 DEF Init, Comptes
<1>5. Avant
  BY MultiAssumption DEF Init, Avant
<1>6. Processus /\ Rapport
  BY <1>1 DEF Init, Processus, Rapport
<1> QED BY <1>3, <1>4, <1>5, <1>6 DEF IInv

LEMMA LirePlanIInv ==
  ASSUME IInv, LirePlan
  PROVE  IInv'
<1>1. /\ prochaine = 1 /\ enCours = 0 /\ finies = 0 /\ echecs = 0 /\ coeurs = 0 /\ n = 0 /\ code = 0
      /\ pc = "lecture"
  BY DEF IInv, Avant, LirePlan
<1>2. UNCHANGED <<coeurs, epingler, occupe, comptes, noyau, etrangers>>
  BY DEF LirePlan
<1>3. CASE pc' = "fin" /\ code' = 2 /\ UNCHANGED <<n, taches, reel>>
  BY <1>1, <1>2, <1>3
     DEF IInv, TypeOK, Avant, Comptes, Processus, Rapport, Taches, Places, Occupees, Finies, taches,
         comptes, noyau
<1>4. ASSUME NEW taille \in 1 .. MaxTaches, n' = taille,
             statut' = [k \in 1 .. taille |-> NonLancee],
             pid' = [k \in 1 .. taille |-> 0], cpu' = [k \in 1 .. taille |-> -1],
             reel' = [k \in 1 .. taille |-> NonLancee], pc' = "preparation", UNCHANGED code
      PROVE  IInv'
  <2>1. Places = {} /\ Places' = {} /\ Taches = {} /\ Taches' = 1 .. taille
    BY <1>1, <1>2, <1>4 DEF Places, Taches
  <2>2. \A p \in Pids : tache[p] = 0
    BY <2>1 DEF IInv, TypeOK
  <2>3. Occupees' = {} /\ Finies' = {}
    BY <1>4, <2>1 DEF Occupees, Finies
  <2>4. Cardinality({}) = 0
    BY FS_EmptySet
  <2>5. TypeOK'
    <3>1. /\ taille \in Nat /\ 0 \in 0 .. taille /\ 1 \in 1 .. taille + 1
      BY MultiAssumption
    <3>2. /\ statut' \in [Taches' -> Statuts] /\ reel' \in [Taches' -> Statuts]
          /\ pid' \in [Taches' -> Pids \cup {0}] /\ cpu' \in [Taches' -> Places' \cup {-1}]
      BY <1>4, <2>1 DEF Statuts
    <3>3. occupe' \in [Places' -> Taches' \cup {0}]
      BY <1>2, <2>1 DEF IInv, TypeOK
    <3>4. tache' \in [Pids -> Taches' \cup {0}]
      BY <1>2, <2>2 DEF IInv, TypeOK, noyau
    <3> QED BY <1>1, <1>2, <1>4, <3>1, <3>2, <3>3, <3>4 DEF IInv, TypeOK, comptes, noyau
  <2>6. Comptes'
    BY <1>1, <1>2, <1>4, <2>1, <2>3, <2>4 DEF Comptes, comptes
  <2>7. Avant'
    BY <1>1, <1>2, <1>4 DEF Avant, comptes
  <2>8. Processus'
    BY <1>2, <2>1, <2>2 DEF IInv, Processus, noyau
  <2>9. Rapport'
    BY <1>4, <2>1 DEF Rapport
  <2> QED BY <2>5, <2>6, <2>7, <2>8, <2>9 DEF IInv
<1> QED BY <1>3, <1>4 DEF LirePlan

LEMMA Largeur ==
  ASSUME n \in Nat, n >= 1, NEW demande \in 0 .. MaxCoeurs, NEW cpus \in 0 .. MaxCoeurs
  PROVE  LargeurVoulue(demande, cpus) \in 1 .. n
BY MultiAssumption DEF LargeurVoulue

LEMMA PreparerIInv ==
  ASSUME IInv, Preparer
  PROVE  IInv'
<1>1. /\ prochaine = 1 /\ enCours = 0 /\ finies = 0 /\ echecs = 0 /\ coeurs = 0 /\ n >= 1 /\ n \in Nat
      /\ code = 0
  BY DEF IInv, TypeOK, Avant, Preparer
<1>2. UNCHANGED <<n, taches, comptes, noyau, reel, etrangers>> /\ epingler' \in BOOLEAN
  BY DEF Preparer
<1>3. (pc' = "tete" /\ code' = 0) \/ (pc' = "fin" /\ code' = 2)
  <2>1. (pc' = "tete" /\ UNCHANGED code) \/ (pc' = "fin" /\ code' = 2)
    BY Zenon DEF Preparer
  <2> QED BY <1>1, <2>1
<1>4. PICK l \in 1 .. n : coeurs' = l /\ occupe' = [s \in 1 .. l |-> 0]
  BY <1>1, Largeur DEF Preparer
<1>5. Places = {} /\ Places' = 1 .. l /\ Taches' = Taches
  BY <1>1, <1>2, <1>4 DEF Places, Taches
<1>6. Finies = {} /\ Finies' = {} /\ Occupees' = {} /\ Cardinality({}) = 0
  <2>1. Cardinality(Finies) = 0
    BY <1>1 DEF IInv, Comptes
  <2>2. Finies = {}
    BY <2>1, Finitude, FS_EmptySet DEF IInv
  <2>3. Finies' = Finies
    BY <1>2, <1>5 DEF Finies, taches
  <2> QED BY <1>4, <1>5, <2>2, <2>3, FS_EmptySet DEF Occupees
<1>7. \A p \in Pids : tache[p] = 0
  BY <1>5 DEF IInv, Processus
<1>8. TypeOK'
  <2>1. cpu' \in [Taches' -> Places' \cup {-1}]
    BY <1>2, <1>5 DEF IInv, TypeOK, taches
  <2>2. occupe' \in [Places' -> Taches' \cup {0}]
    BY <1>4, <1>5
  <2>3. pc' \in {"tete", "fin"} /\ code' \in 0 .. 2 /\ coeurs' \in 0 .. n
    BY <1>3, <1>4
  <2> QED BY <1>2, <1>5, <2>1, <2>2, <2>3 DEF IInv, TypeOK, taches, comptes, noyau
<1>9. Comptes'
  BY <1>1, <1>2, <1>4, <1>5, <1>6 DEF Comptes, comptes, Taches
<1>10. Avant'
  BY <1>2, <1>3 DEF IInv, Avant
<1>11. Processus'
  BY <1>2, <1>4, <1>5, <1>7 DEF IInv, Processus, noyau
<1>12. Rapport'
  BY <1>2, <1>3, <1>5, <1>6 DEF Rapport, Finies, taches
<1> QED BY <1>8, <1>9, <1>10, <1>11, <1>12 DEF IInv

\* A step that only moves the parent.
LEMMA Controle ==
  ASSUME IInv, UNCHANGED <<plan, taches, occupe, comptes, noyau, reel, etrangers>>,
         pc' \in {"tete", "remplir", "attente", "bilan", "fin"}, code' \in 0 .. 2
  PROVE  /\ TypeOK' /\ Comptes' /\ Processus' /\ Taches' = Taches /\ Finies' = Finies
         /\ \A k \in Taches : statut'[k] # NonLancee => statut'[k] = reel'[k]
         /\ echecs' = 0 => \A k \in Taches : statut'[k] # NonLancee => statut'[k] = 0
         /\ n' <= MaxTaches
<1>1. Places' = Places /\ Taches' = Taches
  BY DEF Places, Taches, plan
<1>2. Occupees' = Occupees /\ Finies' = Finies
  BY <1>1 DEF Occupees, Finies, taches
<1>3. TypeOK'
  BY <1>1 DEF IInv, TypeOK, plan, taches, comptes, noyau
<1>4. Comptes'
  BY <1>1, <1>2 DEF IInv, Comptes, comptes
<1>5. Processus'
  BY <1>1 DEF IInv, Processus, taches, noyau
<1> QED BY <1>1, <1>2, <1>3, <1>4, <1>5 DEF IInv, Rapport, Avant, plan, taches, comptes

LEMMA Toutes == TypeOK /\ Comptes /\ finies >= n => Finies = Taches
<1> SUFFICES ASSUME TypeOK, Comptes, finies >= n PROVE Finies = Taches
  OBVIOUS
<1>1. Finies \in SUBSET Taches
  BY DEF Finies
<1>2. Cardinality(Finies) <= n
  BY <1>1, Finitude, FS_Subset
<1>3. Cardinality(Finies) = Cardinality(Taches)
  BY <1>2, Finitude DEF Comptes, TypeOK
<1> QED BY <1>1, <1>3, Finitude, FS_Subset

LEMMA TeteIInv ==
  ASSUME IInv, Tete
  PROVE  IInv'
<1>1. /\ UNCHANGED <<plan, taches, occupe, comptes, noyau, reel, etrangers>>
      /\ pc' \in {"remplir", "bilan"} /\ code' = 0
      /\ pc' = "bilan" => finies >= n
  BY DEF IInv, Avant, TypeOK, Tete
<1>2. pc' = "bilan" => Finies = Taches
  BY <1>1, Toutes DEF IInv
<1> QED BY <1>1, <1>2, Controle DEF IInv, Avant, Rapport

LEMMA RempliIInv ==
  ASSUME IInv, Rempli
  PROVE  IInv'
<1>1. /\ UNCHANGED <<plan, taches, occupe, comptes, noyau, reel, etrangers>>
      /\ pc' \in {"tete", "attente"} /\ code' = 0
      /\ pc' = "attente" => enCours' > 0
  BY DEF IInv, Avant, TypeOK, Rempli, comptes
<1> QED BY <1>1, Controle DEF IInv, Avant, Rapport

LEMMA SansEnfantIInv ==
  ASSUME IInv, SansEnfant
  PROVE  IInv'
<1>1. /\ UNCHANGED <<plan, taches, occupe, comptes, noyau, reel, etrangers>>
      /\ pc' = "bilan" /\ code' = 0 /\ enCours > 0
  BY DEF IInv, Avant, Rapport, SansEnfant
<1>2. PICK s \in Places : occupe[s] # 0
  <2>1. Cardinality(Occupees) # 0
    BY <1>1 DEF IInv, Comptes
  <2>2. Occupees # {}
    BY <2>1, FS_EmptySet
  <2> QED BY <2>2 DEF Occupees
<1>3. ignore
  BY <1>2 DEF IInv, Processus, SansEnfant
<1>4. ignore'
  BY <1>1, <1>3 DEF noyau
<1> QED BY <1>1, <1>4, Controle DEF IInv, Avant, Rapport

LEMMA BilanIInv ==
  ASSUME IInv, Bilan
  PROVE  IInv'
<1>1. /\ UNCHANGED <<plan, taches, occupe, comptes, noyau, reel, etrangers>>
      /\ pc' = "fin" /\ code' \in 0 .. 2 /\ (code' = 0 => echecs' = 0) /\ ignore' = ignore
      /\ ~ignore => Finies = Taches
  BY DEF IInv, Rapport, Bilan, comptes, noyau
<1> QED BY <1>1, Controle DEF IInv, Avant, Rapport

\* fork(): a new process, a slot, and a job that had neither.
LEMMA LancerIInv ==
  ASSUME IInv, Lancer
  PROVE  IInv'
<1> DEFINE k == prochaine
           s == PremiereLibre
<1>1. PICK p \in Pids : /\ etat[p] = "libre" /\ etat' = [etat EXCEPT ![p] = "vivant"]
                        /\ tache' = [tache EXCEPT ![p] = prochaine]
                        /\ pid' = [pid EXCEPT ![prochaine] = p]
  BY DEF Lancer
<1>2. s \in Places /\ occupe[s] = 0
  BY LibreExiste DEF IInv, Lancer, ARemplir
<1>3. /\ cpu' = [cpu EXCEPT ![k] = IF epingler THEN s ELSE -1]
      /\ occupe' = [occupe EXCEPT ![s] = k]
      /\ enCours' = enCours + 1 /\ prochaine' = k + 1
      /\ UNCHANGED <<pc, plan, statut, finies, echecs, code, issue, ignore, reel, etrangers>>
      /\ pc = "remplir"
  BY DEF Lancer
<1>4. k \in Taches /\ k \in Nat \ {0} /\ k <= n
  BY DEF Lancer, ARemplir, IInv, TypeOK, Taches
<1> HIDE DEF k, s
<1>5. Places' = Places /\ Taches' = Taches /\ Finies' = Finies
  BY <1>3 DEF Places, Taches, Finies, plan
<1>6. tache[p] = 0
  BY <1>1 DEF IInv, Processus
<1>7. statut[k] = NonLancee /\ \A u \in Places : occupe[u] # k
  BY <1>4 DEF k, IInv, Comptes, Finies
<1>8. TypeOK'
  <2>1. /\ etat' \in [Pids -> {"libre", "vivant", "zombi"}]
        /\ tache' \in [Pids -> Taches \cup {0}]
        /\ pid' \in [Taches -> Pids \cup {0}]
    BY <1>1, <1>4 DEF k, IInv, TypeOK
  <2>2. cpu' \in [Taches -> Places \cup {-1}] /\ occupe' \in [Places -> Taches \cup {0}]
    BY <1>2, <1>3, <1>4 DEF IInv, TypeOK
  <2>3. prochaine' \in 1 .. n + 1 /\ enCours' \in Nat
    BY <1>3, <1>4 DEF IInv, TypeOK
  <2> QED BY <1>3, <1>5, <2>1, <2>2, <2>3 DEF IInv, TypeOK, plan
<1>9. \A u \in Places : occupe'[u] = IF u = s THEN k ELSE occupe[u]
  BY <1>2, <1>3 DEF IInv, TypeOK
<1>10. Comptes'
  <2>1. Cardinality(Occupees') = Cardinality(Occupees) + 1
    BY <1>2, <1>3, <1>4, Prend DEF IInv, plan
  <2>2. enCours' = Cardinality(Occupees') /\ finies' = Cardinality(Finies')
    BY <1>3, <1>5, <2>1 DEF IInv, Comptes
  <2>3. ASSUME NEW j \in Taches
        PROVE  /\ j < prochaine' <=> j \in Finies' \/ \E u \in Places : occupe'[u] = j
               /\ j \in Finies' => \A u \in Places : occupe'[u] # j
    <3>1. CASE j = k
      BY <1>2, <1>3, <1>4, <1>5, <1>7, <1>9, <3>1 DEF Finies
    <3>2. CASE j # k
      <4>1. j < prochaine' <=> j < prochaine
        BY <1>3, <1>4, <3>2 DEF k, Taches
      <4>2. (\E u \in Places : occupe'[u] = j) <=> (\E u \in Places : occupe[u] = j)
        BY <1>2, <1>9, <3>2 DEF Taches
      <4>3. j \in Finies => \A u \in Places : occupe[u] # j
        BY DEF IInv, Comptes
      <4>4. j < prochaine <=> j \in Finies \/ \E u \in Places : occupe[u] = j
        BY DEF IInv, Comptes
      <4> QED BY <1>5, <4>1, <4>2, <4>3, <4>4
    <3> QED BY <3>1, <3>2
  <2>4. \A u, v \in Occupees' : occupe'[u] = occupe'[v] => u = v
    BY <1>5, <1>7, <1>9 DEF IInv, Comptes, Occupees
  <2> QED BY <1>5, <2>2, <2>3, <2>4 DEF Comptes
<1>11. Processus'
  <2>1. ASSUME NEW q \in Pids, tache'[q] # 0
        PROVE  /\ etat'[q] # "libre" /\ pid'[tache'[q]] = q
               /\ \E u \in Places : occupe'[u] = tache'[q]
    <3>1. CASE q = p
      BY <1>1, <1>2, <1>4, <1>9, <3>1 DEF k, IInv, TypeOK
    <3>2. CASE q # p
      <4>1. tache'[q] = tache[q] /\ etat'[q] = etat[q] /\ tache[q] # 0
        BY <1>1, <2>1, <3>2 DEF IInv, TypeOK
      <4>2. PICK u \in Places : occupe[u] = tache[q]
        BY <4>1 DEF IInv, Processus
      <4>3. tache[q] # k /\ u # s
        BY <1>2, <1>7, <4>1, <4>2
      <4>4. pid'[tache[q]] = pid[tache[q]] /\ occupe'[u] = tache[q]
        BY <1>1, <1>9, <4>1, <4>2, <4>3 DEF k, IInv, TypeOK
      <4> QED BY <4>1, <4>4 DEF IInv, Processus
    <3> QED BY <3>1, <3>2
  <2>2. ASSUME NEW q \in Pids, etat'[q] = "zombi"
        PROVE  ~ignore' /\ (tache'[q] # 0 => reel'[tache'[q]] = issue'[q])
    <3>1. q # p /\ etat[q] = "zombi" /\ tache'[q] = tache[q]
      BY <1>1, <2>2 DEF IInv, TypeOK
    <3> QED BY <1>3, <3>1 DEF IInv, Processus
  <2>3. ASSUME ~ignore', NEW u \in Places, occupe'[u] # 0
        PROVE  pid'[occupe'[u]] \in Pids /\ tache'[pid'[occupe'[u]]] = occupe'[u]
    <3>1. CASE u = s
      BY <1>1, <1>4, <1>9, <3>1 DEF k, IInv, TypeOK
    <3>2. CASE u # s
      <4>1. occupe'[u] = occupe[u] /\ occupe[u] # k /\ occupe[u] # 0
        BY <1>7, <1>9, <2>3, <3>2
      <4>2. pid'[occupe[u]] = pid[occupe[u]]
        BY <1>1, <4>1 DEF k, IInv, TypeOK
      <4>3. pid[occupe[u]] \in Pids /\ tache[pid[occupe[u]]] = occupe[u]
        BY <1>3, <2>3, <4>1 DEF IInv, Processus
      <4>4. pid[occupe[u]] # p
        BY <1>6, <4>1, <4>3
      <4> QED BY <1>1, <4>1, <4>2, <4>3, <4>4 DEF IInv, TypeOK
    <3> QED BY <3>1, <3>2
  <2>4. ASSUME NEW u \in Places, occupe'[u] # 0
        PROVE  cpu'[occupe'[u]] \in {u, -1}
    <3>1. CASE u = s
      BY <1>3, <1>4, <1>9, <3>1 DEF IInv, TypeOK
    <3>2. CASE u # s
      <4>1. occupe'[u] = occupe[u] /\ occupe[u] # k /\ occupe[u] # 0
        BY <1>7, <1>9, <2>4, <3>2
      <4>2. cpu'[occupe[u]] = cpu[occupe[u]]
        BY <1>3, <4>1 DEF IInv, TypeOK
      <4> QED BY <4>1, <4>2 DEF IInv, Processus
    <3> QED BY <3>1, <3>2
  <2> QED BY <1>5, <2>1, <2>2, <2>3, <2>4 DEF Processus
<1>12. Avant' /\ Rapport'
  BY <1>3, <1>5 DEF IInv, Avant, Rapport, plan
<1> QED BY <1>8, <1>10, <1>11, <1>12 DEF IInv

\* fork() fails.
LEMMA LancerEchoueIInv ==
  ASSUME IInv, LancerEchoue
  PROVE  IInv'
<1> DEFINE k == prochaine
<1>1. /\ statut' = [statut EXCEPT ![k] = Echec] /\ reel' = [reel EXCEPT ![k] = Echec]
      /\ finies' = finies + 1 /\ echecs' = echecs + 1 /\ prochaine' = k + 1
      /\ UNCHANGED <<pc, plan, pid, cpu, occupe, enCours, code, noyau, etrangers>>
      /\ pc = "remplir"
  BY DEF LancerEchoue
<1>2. k \in Taches /\ k \in Nat \ {0} /\ k <= n
  BY DEF LancerEchoue, ARemplir, IInv, TypeOK, Taches
<1> HIDE DEF k
<1>3. Places' = Places /\ Taches' = Taches /\ Occupees' = Occupees
  BY <1>1 DEF Places, Taches, Occupees, plan
<1>4. statut[k] = NonLancee /\ \A u \in Places : occupe[u] # k
  BY <1>2 DEF k, IInv, Comptes, Finies
<1>5. Finies' = Finies \cup {k} /\ Cardinality(Finies') = Cardinality(Finies) + 1
  BY <1>1, <1>2, <1>4, Finit DEF IInv, plan
<1>6. TypeOK'
  <2>1. statut' \in [Taches -> Statuts] /\ reel' \in [Taches -> Statuts]
    BY <1>1, <1>2 DEF IInv, TypeOK, Statuts
  <2>2. prochaine' \in 1 .. n + 1 /\ finies' \in Nat /\ echecs' \in Nat
    BY <1>1, <1>2 DEF IInv, TypeOK
  <2> QED BY <1>1, <1>3, <2>1, <2>2 DEF IInv, TypeOK, plan, noyau
<1>7. Comptes'
  <2>1. enCours' = Cardinality(Occupees') /\ finies' = Cardinality(Finies')
    BY <1>1, <1>3, <1>5 DEF IInv, Comptes
  <2>2. ASSUME NEW j \in Taches
        PROVE  /\ j < prochaine' <=> j \in Finies' \/ \E u \in Places : occupe[u] = j
               /\ j \in Finies' => \A u \in Places : occupe[u] # j
    <3>1. j < prochaine' <=> j < prochaine \/ j = k
      BY <1>1, <1>2 DEF k, Taches
    <3>2. /\ j < prochaine <=> j \in Finies \/ \E u \in Places : occupe[u] = j
          /\ j \in Finies => \A u \in Places : occupe[u] # j
      BY DEF IInv, Comptes
    <3> QED BY <1>4, <1>5, <3>1, <3>2
  <2> QED BY <1>1, <1>3, <2>1, <2>2 DEF IInv, Comptes
<1>8. Processus'
  <2>1. \A p \in Pids : tache[p] # 0 => tache[p] # k
    BY <1>4 DEF IInv, Processus
  <2>2. \A p \in Pids : tache[p] # 0 => reel'[tache[p]] = reel[tache[p]]
    BY <1>1, <2>1 DEF IInv, TypeOK
  <2> QED BY <1>1, <1>3, <2>2 DEF IInv, Processus, noyau
<1>9. Avant'
  BY <1>1 DEF IInv, Avant, plan
<1>10. Rapport'
  <2>1. \A j \in Taches : statut'[j] # NonLancee => statut'[j] = reel'[j]
    BY <1>1, <1>2 DEF IInv, TypeOK, Rapport
  <2>2. echecs' # 0
    BY <1>1 DEF IInv, TypeOK
  <2> QED BY <1>1, <1>3, <2>1, <2>2 DEF Rapport
<1> QED BY <1>6, <1>7, <1>8, <1>9, <1>10 DEF IInv

\* The pid wait() returns: the job it runs, and the slot of that job.
LEMMA Charge ==
  ASSUME IInv, NEW p \in Pids, etat[p] = "zombi", NEW s \in Siennes(p)
  PROVE  /\ s \in Places /\ occupe[s] # 0 /\ ~ignore
         /\ tache[p] = occupe[s] /\ reel[occupe[s]] = issue[p]
<1>1. s \in Places /\ occupe[s] # 0 /\ pid[occupe[s]] = p
  BY DEF Siennes
<1>2. ~ignore
  BY DEF IInv, Processus
<1>3. tache[p] = occupe[s]
  BY <1>1, <1>2 DEF IInv, Processus
<1> QED BY <1>1, <1>2, <1>3 DEF IInv, Processus

\* wait() returns one of ours.
LEMMA RecolterIInv ==
  ASSUME IInv, NEW p \in Pids, Recolter(p)
  PROVE  IInv'
<1>1. PICK s \in Siennes(p) : /\ statut' = [statut EXCEPT ![occupe[s]] = issue[p]]
                              /\ occupe' = [occupe EXCEPT ![s] = 0]
  BY DEF Recolter
<1> DEFINE k == occupe[s]
<1>2. /\ pc' = "tete" /\ pc = "attente"
      /\ etat[p] = "zombi" /\ etat' = [etat EXCEPT ![p] = "libre"]
      /\ tache' = [tache EXCEPT ![p] = 0] /\ issue' = [issue EXCEPT ![p] = 0]
      /\ echecs' = IF issue[p] # 0 THEN echecs + 1 ELSE echecs
      /\ enCours' = enCours - 1 /\ finies' = finies + 1
      /\ UNCHANGED <<plan, pid, cpu, prochaine, code, ignore, reel, etrangers>>
  BY DEF Recolter, Rendre
<1>3. /\ s \in Places /\ k # 0 /\ ~ignore /\ tache[p] = k /\ reel[k] = issue[p]
  BY <1>1, <1>2, Charge
<1>4. k \in Taches
  BY <1>3 DEF IInv, TypeOK
<1>5. statut[k] = NonLancee /\ \A u \in Places : occupe[u] = k => u = s
  BY <1>3, <1>4 DEF IInv, Comptes, Finies, Occupees
<1>6. issue[p] \in Issues
  <2>1. issue[p] \in Issues \cup {0} /\ reel[k] \in Statuts
    BY <1>4 DEF IInv, TypeOK
  <2>2. CASE issue[p] = 0 /\ 0 \notin Issues
    BY <1>3, <2>1, <2>2 DEF Statuts, Echec, NonLancee
  <2> QED BY <2>1, <2>2
<1>7. /\ statut' = [statut EXCEPT ![k] = issue[p]]
      /\ \A u \in Places : occupe'[u] = IF u = s THEN 0 ELSE occupe[u]
  BY <1>1, <1>3 DEF IInv, TypeOK
<1>8. occupe' = [occupe EXCEPT ![s] = 0]
  BY <1>1
<1> HIDE DEF k
<1>9. Places' = Places /\ Taches' = Taches
  BY <1>2 DEF Places, Taches, plan
<1>10. Finies' = Finies \cup {k} /\ Cardinality(Finies') = Cardinality(Finies) + 1
  BY <1>2, <1>4, <1>5, <1>6, <1>7, Finit DEF IInv, plan
<1>11. Cardinality(Occupees') = Cardinality(Occupees) - 1
  BY <1>2, <1>3, <1>8, Rend DEF k, IInv, plan
<1>12. TypeOK'
  <2>1. statut' \in [Taches -> Statuts] /\ occupe' \in [Places -> Taches \cup {0}]
    BY <1>3, <1>4, <1>6, <1>7, <1>8 DEF IInv, TypeOK, Statuts
  <2>2. /\ etat' \in [Pids -> {"libre", "vivant", "zombi"}]
        /\ tache' \in [Pids -> Taches \cup {0}] /\ issue' \in [Pids -> Issues \cup {0}]
    BY <1>2 DEF IInv, TypeOK
  <2>3. enCours' \in Nat
    BY <1>2 DEF IInv, TypeOK, Rapport
  <2>4. finies' \in Nat /\ echecs' \in Nat
    BY <1>2 DEF IInv, TypeOK
  <2> QED BY <1>2, <1>9, <2>1, <2>2, <2>3, <2>4 DEF IInv, TypeOK, plan
<1>13. Comptes'
  <2>1. enCours' = Cardinality(Occupees') /\ finies' = Cardinality(Finies')
    BY <1>2, <1>10, <1>11 DEF IInv, Comptes
  <2>2. ASSUME NEW j \in Taches
        PROVE  /\ j < prochaine' <=> j \in Finies' \/ \E u \in Places : occupe'[u] = j
               /\ j \in Finies' => \A u \in Places : occupe'[u] # j
    <3>1. /\ j < prochaine <=> j \in Finies \/ \E u \in Places : occupe[u] = j
          /\ j \in Finies => \A u \in Places : occupe[u] # j
          /\ j # 0 /\ prochaine' = prochaine
      BY <1>2 DEF IInv, Comptes, Taches
    <3>2. CASE j = k
      BY <1>3, <1>5, <1>7, <1>10, <3>1, <3>2 DEF k
    <3>3. CASE j # k
      <4>1. \A u \in Places : occupe'[u] = j <=> occupe[u] = j
        BY <1>7, <3>1, <3>3 DEF k
      <4> QED BY <1>10, <3>1, <3>3, <4>1
    <3> QED BY <3>2, <3>3
  <2>3. \A u, v \in Occupees' : occupe'[u] = occupe'[v] => u = v
    BY <1>7, <1>9 DEF IInv, Comptes, Occupees
  <2> QED BY <1>9, <2>1, <2>2, <2>3 DEF Comptes
<1>14. Processus'
  <2>1. \A q \in Pids : tache'[q] # 0 => q # p /\ tache'[q] = tache[q] /\ etat'[q] = etat[q]
                                        /\ issue'[q] = issue[q]
    BY <1>2 DEF IInv, TypeOK
  <2>2. ASSUME NEW q \in Pids, tache'[q] # 0
        PROVE  /\ etat'[q] # "libre" /\ pid'[tache'[q]] = q
               /\ \E u \in Places : occupe'[u] = tache'[q]
    <3>1. pid[tache[q]] = q /\ pid[k] = p /\ tache[q] # k
      BY <1>3, <2>1, <2>2 DEF IInv, Processus
    <3>2. PICK u \in Places : occupe[u] = tache[q]
      BY <2>1, <2>2 DEF IInv, Processus
    <3>3. u # s
      BY <3>1, <3>2 DEF k
    <3> QED BY <1>2, <1>7, <2>1, <2>2, <3>1, <3>2, <3>3 DEF IInv, Processus
  <2>3. ASSUME NEW q \in Pids, etat'[q] = "zombi"
        PROVE  ~ignore' /\ (tache'[q] # 0 => reel'[tache'[q]] = issue'[q])
    <3>1. etat[q] = "zombi"
      BY <1>2, <2>3 DEF IInv, TypeOK
    <3> QED BY <1>2, <2>1, <3>1 DEF IInv, Processus
  <2>4. ASSUME NEW u \in Places, occupe'[u] # 0
        PROVE  pid'[occupe'[u]] \in Pids /\ tache'[pid'[occupe'[u]]] = occupe'[u]
    <3>1. u # s /\ occupe'[u] = occupe[u]
      BY <1>7, <2>4
    <3>2. pid[occupe[u]] \in Pids /\ tache[pid[occupe[u]]] = occupe[u]
      BY <1>3, <2>4, <3>1 DEF IInv, Processus
    <3>3. pid[occupe[u]] # p
      BY <1>3, <1>5, <3>1, <3>2
    <3> QED BY <1>2, <3>1, <3>2, <3>3 DEF IInv, TypeOK
  <2>5. \A u \in Places : occupe'[u] # 0 => cpu'[occupe'[u]] \in {u, -1}
    BY <1>2, <1>7 DEF IInv, Processus
  <2> QED BY <1>9, <2>2, <2>3, <2>4, <2>5 DEF Processus
<1>15. Avant'
  BY <1>2 DEF IInv, Avant, plan
<1>16. Rapport'
  <2>1. \A j \in Taches : statut'[j] = IF j = k THEN issue[p] ELSE statut[j]
    BY <1>4, <1>7 DEF IInv, TypeOK
  <2>2. \A j \in Taches : statut'[j] # NonLancee => statut'[j] = reel'[j]
    BY <1>2, <1>3, <2>1 DEF IInv, Rapport
  <2>3. echecs' = 0 => issue[p] = 0 /\ echecs = 0
    BY <1>2 DEF IInv, TypeOK
  <2>4. echecs' = 0 => \A j \in Taches : statut'[j] # NonLancee => statut'[j] = 0
    BY <2>1, <2>3 DEF IInv, Rapport
  <2> QED BY <1>2, <1>9, <2>2, <2>4 DEF Rapport
<1> QED BY <1>12, <1>13, <1>14, <1>15, <1>16 DEF IInv

\* wait() returns a child that is not a job.
LEMMA RecolterEtrangerIInv ==
  ASSUME IInv, NEW p \in Pids, RecolterEtranger(p)
  PROVE  IInv'
<1>1. /\ pc' = "tete" /\ pc = "attente" /\ Siennes(p) = {}
      /\ etat[p] = "zombi" /\ etat' = [etat EXCEPT ![p] = "libre"]
      /\ tache' = [tache EXCEPT ![p] = 0] /\ issue' = [issue EXCEPT ![p] = 0]
      /\ UNCHANGED <<plan, taches, occupe, comptes, code, ignore, reel, etrangers>>
  BY DEF RecolterEtranger, Rendre
<1>2. tache[p] = 0 /\ ~ignore
  BY <1>1 DEF IInv, Processus, Siennes
<1>3. tache' = tache
  BY <1>1, <1>2 DEF IInv, TypeOK
<1>4. Places' = Places /\ Taches' = Taches /\ Finies' = Finies /\ Occupees' = Occupees
  BY <1>1 DEF Places, Taches, Finies, Occupees, plan, taches
<1>5. TypeOK'
  BY <1>1, <1>3, <1>4 DEF IInv, TypeOK, plan, taches, comptes
<1>6. Comptes'
  BY <1>1, <1>4 DEF IInv, Comptes, comptes
<1>7. Processus'
  BY <1>1, <1>2, <1>3, <1>4 DEF IInv, Processus, taches, TypeOK
<1>8. Avant' /\ Rapport'
  BY <1>1, <1>4 DEF IInv, Avant, Rapport, plan, taches, comptes
<1> QED BY <1>5, <1>6, <1>7, <1>8 DEF IInv

\* A process ends.
LEMMA MourirIInv ==
  ASSUME IInv, NEW p \in Pids, Mourir(p)
  PROVE  IInv'
<1>1. /\ etat[p] = "vivant"
      /\ UNCHANGED <<pc, plan, taches, occupe, comptes, code, ignore, etrangers>>
  BY DEF Mourir
<1>2. PICK i \in Issues :
        /\ reel' = IF tache[p] = 0 THEN reel ELSE [reel EXCEPT ![tache[p]] = i]
        /\ IF ignore
           THEN /\ etat' = [etat EXCEPT ![p] = "libre"]
                /\ tache' = [tache EXCEPT ![p] = 0]
                /\ UNCHANGED issue
           ELSE /\ etat' = [etat EXCEPT ![p] = "zombi"]
                /\ issue' = [issue EXCEPT ![p] = i]
                /\ UNCHANGED tache
  BY DEF Mourir
<1>3. Places' = Places /\ Taches' = Taches /\ Finies' = Finies /\ Occupees' = Occupees
  BY <1>1 DEF Places, Taches, Finies, Occupees, plan, taches
<1>4. tache[p] \in Taches \cup {0}
  BY DEF IInv, TypeOK
<1>5. \A j \in Taches : j # tache[p] => reel'[j] = reel[j]
  BY <1>2, <1>4 DEF IInv, TypeOK
<1>6. tache[p] # 0 => reel'[tache[p]] = i
  BY <1>2, <1>4 DEF IInv, TypeOK
<1>7. TypeOK'
  <2>1. reel' \in [Taches -> Statuts]
    BY <1>2, <1>4 DEF IInv, TypeOK, Statuts
  <2>2. /\ etat' \in [Pids -> {"libre", "vivant", "zombi"}]
        /\ tache' \in [Pids -> Taches \cup {0}] /\ issue' \in [Pids -> Issues \cup {0}]
    BY <1>2 DEF IInv, TypeOK
  <2> QED BY <1>1, <1>3, <2>1, <2>2 DEF IInv, TypeOK, plan, taches, comptes
<1>8. Comptes'
  BY <1>1, <1>3 DEF IInv, Comptes, comptes
<1>9. Processus'
  <2>1. ASSUME NEW q \in Pids, tache'[q] # 0
        PROVE  /\ etat'[q] # "libre" /\ pid'[tache'[q]] = q
               /\ \E u \in Places : occupe'[u] = tache'[q]
    <3>1. tache'[q] = tache[q] /\ (q = p => ~ignore)
      BY <1>2, <2>1 DEF IInv, TypeOK
    <3>2. etat'[q] = etat[q] \/ etat'[q] = "zombi"
      BY <1>2, <3>1 DEF IInv, TypeOK
    <3> QED BY <1>1, <2>1, <3>1, <3>2 DEF IInv, Processus, taches
  <2>2. ASSUME NEW q \in Pids, etat'[q] = "zombi"
        PROVE  ~ignore' /\ (tache'[q] # 0 => reel'[tache'[q]] = issue'[q])
    <3>1. CASE q = p
      <4>1. ~ignore
        BY <1>2, <2>2, <3>1 DEF IInv, TypeOK
      <4> QED BY <1>1, <1>2, <1>6, <3>1, <4>1 DEF IInv, TypeOK
    <3>2. CASE q # p
      <4>1. etat[q] = "zombi" /\ tache'[q] = tache[q] /\ issue'[q] = issue[q]
        BY <1>2, <2>2, <3>2 DEF IInv, TypeOK
      <4>2. tache[q] # 0 => tache[q] # tache[p] /\ tache[q] \in Taches
        BY <3>2 DEF IInv, Processus, TypeOK
      <4> QED BY <1>1, <1>5, <4>1, <4>2 DEF IInv, Processus
    <3> QED BY <3>1, <3>2
  <2>3. ~ignore' => UNCHANGED tache
    BY <1>1, <1>2
  <2>4. ~ignore' => \A u \in Places : occupe'[u] # 0 =>
          pid'[occupe'[u]] \in Pids /\ tache'[pid'[occupe'[u]]] = occupe'[u]
    BY <1>1, <2>3 DEF IInv, Processus, taches
  <2>5. \A u \in Places : occupe'[u] # 0 => cpu'[occupe'[u]] \in {u, -1}
    BY <1>1 DEF IInv, Processus, taches
  <2> QED BY <1>3, <2>1, <2>2, <2>4, <2>5 DEF Processus
<1>10. Avant'
  BY <1>1 DEF IInv, Avant, plan, comptes
<1>11. Rapport'
  <2>1. tache[p] # 0 => statut[tache[p]] = NonLancee
    BY <1>4 DEF IInv, Processus, Comptes, Finies
  <2>2. \A j \in Taches : statut'[j] # NonLancee => statut'[j] = reel'[j]
    <3>1. \A j \in Taches : j # 0
      BY DEF Taches
    <3> QED BY <1>1, <1>5, <2>1, <3>1 DEF IInv, Rapport, taches
  <2> QED BY <1>1, <1>3, <2>2 DEF IInv, Rapport, taches, comptes
<1> QED BY <1>7, <1>8, <1>9, <1>10, <1>11 DEF IInv

\* A child that is not a job appears.
LEMMA AdopterIInv ==
  ASSUME IInv, NEW p \in Pids, Adopter(p)
  PROVE  IInv'
<1>1. /\ etat[p] = "libre" /\ etat' = [etat EXCEPT ![p] = "vivant"] /\ etrangers' = etrangers + 1
      /\ UNCHANGED <<pc, plan, taches, occupe, comptes, code, tache, issue, ignore, reel>>
  BY DEF Adopter
<1>2. Places' = Places /\ Taches' = Taches /\ Finies' = Finies /\ Occupees' = Occupees
  BY <1>1 DEF Places, Taches, Finies, Occupees, plan, taches
<1>3. TypeOK'
  <2>1. etat' \in [Pids -> {"libre", "vivant", "zombi"}] /\ etrangers' \in Nat
    BY <1>1 DEF IInv, TypeOK
  <2> QED BY <1>1, <1>2, <2>1 DEF IInv, TypeOK, plan, taches, comptes
<1>4. Comptes'
  BY <1>1, <1>2 DEF IInv, Comptes, comptes
<1>5. Processus'
  <2>1. \A q \in Pids : etat'[q] = IF q = p THEN "vivant" ELSE etat[q]
    BY <1>1 DEF IInv, TypeOK
  <2> QED BY <1>1, <1>2, <2>1 DEF IInv, Processus, taches
<1>6. Avant' /\ Rapport'
  BY <1>1, <1>2 DEF IInv, Avant, Rapport, plan, taches, comptes
<1> QED BY <1>3, <1>4, <1>5, <1>6 DEF IInv

LEMMA SuivantIInv == IInv /\ [Next]_vars => IInv'
<1> SUFFICES ASSUME IInv, [Next]_vars PROVE IInv'
  OBVIOUS
<1>1. CASE Parent
  BY <1>1, LirePlanIInv, PreparerIInv, TeteIInv, LancerIInv, LancerEchoueIInv, RempliIInv,
     RecolterIInv, RecolterEtrangerIInv, SansEnfantIInv, BilanIInv DEF Parent
<1>2. CASE Noyau
  BY <1>2, MourirIInv, AdopterIInv DEF Noyau
<1>3. CASE UNCHANGED vars
  <2>1. Places' = Places /\ Taches' = Taches /\ Finies' = Finies /\ Occupees' = Occupees
    BY <1>3 DEF Places, Taches, Finies, Occupees, plan, taches, vars
  <2>2. TypeOK'
    BY <1>3, <2>1 DEF IInv, TypeOK, vars, plan, taches, comptes, noyau
  <2>3. Comptes'
    BY <1>3, <2>1 DEF IInv, Comptes, vars, comptes
  <2>4. Processus'
    BY <1>3, <2>1 DEF IInv, Processus, vars, taches, noyau
  <2>5. Avant' /\ Rapport'
    BY <1>3, <2>1 DEF IInv, Avant, Rapport, vars, plan, taches, comptes, noyau
  <2> QED BY <2>2, <2>3, <2>4, <2>5 DEF IInv
<1> QED BY <1>1, <1>2, <1>3 DEF Next

LEMMA Invariant == Spec => []IInv
<1>1. Init => IInv
  BY InitIInv
<1> QED BY <1>1, SuivantIInv, PTL DEF Spec

-----------------------------------------------------------------------------
(* The theorems.                                                           *)

\* The tables of the parent and of the kernel stay within their types.
THEOREM TypeCorrecte == Spec => []TypeOK
<1>1. IInv => TypeOK
  BY DEF IInv
<1> QED BY <1>1, Invariant, PTL

\* What the parent keeps of its jobs is the truth about the processes: slots, counters and
\* statuses agree, two jobs alive never share a CPU, a status is that of the job's own
\* process, and success means that every job has succeeded (multi.c: multi_executer).
THEOREM BilanToujoursFidele == Spec => []BilanFidele
<1>1. IInv => BilanFidele
  <2> SUFFICES ASSUME IInv PROVE BilanFidele
    OBVIOUS
  <2>1. UnJobParCpu
    <3> SUFFICES ASSUME NEW p \in Pids, NEW q \in Pids, p # q, tache[p] # 0, tache[q] # 0,
                        cpu[tache[p]] # -1, cpu[tache[p]] = cpu[tache[q]]
                 PROVE  FALSE
      BY DEF UnJobParCpu
    <3>1. PICK s \in Places : occupe[s] = tache[p]
      BY DEF IInv, Processus
    <3>2. PICK u \in Places : occupe[u] = tache[q]
      BY DEF IInv, Processus
    <3>3. cpu[tache[p]] = s /\ cpu[tache[q]] = u
      BY <3>1, <3>2 DEF IInv, Processus
    <3>4. tache[p] = tache[q]
      BY <3>1, <3>2, <3>3
    <3>5. pid[tache[p]] = p /\ pid[tache[q]] = q
      BY DEF IInv, Processus
    <3> QED BY <3>4, <3>5
  <2>2. \A k \in Finies : statut[k] = reel[k]
    BY DEF IInv, Rapport, Finies
  <2>3. pc = "fin" /\ code = 0 /\ ~ignore => \A k \in Taches : reel[k] = 0
    BY DEF IInv, Rapport, Finies
  <2> QED BY <2>1, <2>2, <2>3 DEF IInv, BilanFidele, StatutFidele
<1> QED BY <1>1, Invariant, PTL

-----------------------------------------------------------------------------
(* The pool of Reservoir.                                                  *)

\* The cardinality that Reservoir counts with.
LEMMA MemeCardinal == \A S : Pool!Cardinality(S) = Cardinality(S)
BY DEF Pool!Cardinality, Cardinality

\* A job that runs, for the pool, holds a slot: no more of them run than slots are held.
LEMMA EnCoursBorne ==
  ASSUME IInv
  PROVE  Cardinality(Pool!EnCours) \in Nat /\ Cardinality(Pool!EnCours) <= enCours
<1> DEFINE f == [s \in Occupees |-> occupe[s]]
<1>1. ASSUME NEW s \in Occupees PROVE occupe[s] \in Pool!EnCours
  <2>1. s \in Places /\ occupe[s] # 0
    BY DEF Occupees
  <2>2. occupe[s] \in Taches
    BY <2>1 DEF IInv, TypeOK
  <2>3. occupe[s] \notin Finies /\ occupe[s] < prochaine
    BY <2>1, <2>2 DEF IInv, Comptes
  <2>4. occupe[s] \in 1 .. MaxTaches /\ prochaine \in Nat
    BY <2>2, MultiAssumption DEF IInv, Avant, TypeOK, Taches
  <2>5. statut[occupe[s]] = NonLancee /\ ~(occupe[s] >= prochaine)
    BY <2>2, <2>3, <2>4 DEF Finies
  <2> QED BY <2>2, <2>4, <2>5 DEF Pool!EnCours, etatTache
<1>2. ASSUME NEW j \in Pool!EnCours PROVE \E s \in Occupees : f[s] = j
  <2>1. j \in Taches /\ statut[j] = NonLancee /\ ~(j >= prochaine)
    BY DEF Pool!EnCours, etatTache
  <2>2. j < prochaine /\ j # 0
    BY <2>1 DEF IInv, TypeOK, Taches
  <2>3. PICK s \in Places : occupe[s] = j
    BY <2>1, <2>2 DEF IInv, Comptes, Finies
  <2> QED BY <2>2, <2>3 DEF Occupees
<1>3. f \in Surjection(Occupees, Pool!EnCours)
  BY <1>1, <1>2 DEF Surjection
<1>4. IsFiniteSet(Occupees)
  BY Finitude DEF IInv
<1>5. IsFiniteSet(Pool!EnCours) /\ Cardinality(Pool!EnCours) <= Cardinality(Occupees)
  <2> HIDE DEF f
  <2> QED BY <1>3, <1>4, FS_Surjection
<1> QED BY <1>5, FS_CardinalityType DEF IInv, Comptes

\* What the pool sees of a job.
LEMMA Vu ==
  ASSUME NEW k \in 1 .. MaxTaches
  PROVE  etatTache[k] = IF k \notin Taches \/ k >= prochaine THEN "attend"
                        ELSE IF statut[k] # NonLancee THEN "finie" ELSE "tourne"
BY DEF etatTache

\* A step that leaves the jobs alone is a stutter of the pool.
LEMMA PasVu ==
  ASSUME UNCHANGED <<n, coeurs, prochaine, statut>>
  PROVE  UNCHANGED <<etatTache, coeurs>>
BY DEF etatTache, Taches

LEMMA PoolLance ==
  ASSUME IInv, ARemplir, n' = n, coeurs' = coeurs, prochaine' = prochaine + 1,
         \/ statut' = statut /\ statut[prochaine] = NonLancee
         \/ statut' = [statut EXCEPT ![prochaine] = Echec]
  PROVE  Pool!Lancer(prochaine) /\ prochaine \in 1 .. MaxTaches
<1> DEFINE k == prochaine
<1>1. k \in 1 .. MaxTaches /\ k \in Taches /\ n \in Nat /\ n <= MaxTaches /\ MaxTaches \in Nat
  BY MultiAssumption DEF ARemplir, IInv, Avant, TypeOK, Taches
<1>2. etatTache[k] = "attend"
  BY <1>1 DEF etatTache
<1>3. ASSUME NEW j \in 1 .. MaxTaches, j < k PROVE etatTache[j] # "attend"
  BY <1>1, <1>3 DEF etatTache, Taches
<1>4. Cardinality(Pool!EnCours) < coeurs
  BY EnCoursBorne DEF ARemplir, IInv, TypeOK
<1>5. \E e \in {"tourne", "finie"} : etatTache' = [etatTache EXCEPT ![k] = e]
  <2> DEFINE e == IF statut'[k] # NonLancee THEN "finie" ELSE "tourne"
  <2>1. \A j \in Taches : j # k => statut'[j] = statut[j]
    BY DEF IInv, TypeOK
  <2>2. ASSUME NEW j \in 1 .. MaxTaches
        PROVE  etatTache'[j] = IF j = k THEN e ELSE etatTache[j]
    <3>1. etatTache'[j] = IF j \notin Taches \/ j >= k + 1 THEN "attend"
                          ELSE IF statut'[j] # NonLancee THEN "finie" ELSE "tourne"
      BY DEF etatTache, Taches
    <3>2. CASE j = k
      BY <1>1, <3>1, <3>2
    <3>3. CASE j # k
      <4>1. j >= k + 1 <=> j >= k
        BY <1>1, <3>3
      <4> QED BY <2>1, <3>1, <3>3, <4>1 DEF etatTache
    <3> QED BY <3>2, <3>3
  <2>3. etatTache' = [etatTache EXCEPT ![k] = e]
    <3> HIDE DEF e
    <3> QED BY <1>1, <2>2 DEF etatTache
  <2> QED BY <2>3
<1>6. Pool!Cardinality(Pool!EnCours) < coeurs
  BY <1>4, MemeCardinal
<1> HIDE DEF k
<1> QED BY <1>1, <1>2, <1>3, <1>5, <1>6 DEF k, Pool!Lancer

LEMMA PoolFinit ==
  ASSUME IInv, NEW k \in Taches, k < prochaine, statut[k] = NonLancee, NEW v \in Issues,
         statut' = [statut EXCEPT ![k] = v], UNCHANGED <<n, coeurs, prochaine>>
  PROVE  k \in 1 .. MaxTaches /\ Pool!Finir(k)
<1>1. k \in 1 .. MaxTaches /\ ~(k >= prochaine) /\ MaxTaches \in Nat
  BY MultiAssumption DEF IInv, Avant, TypeOK, Taches
<1>2. etatTache[k] = "tourne"
  BY <1>1 DEF etatTache
<1>3. v # NonLancee
  BY MultiAssumption DEF NonLancee
<1>4. \A j \in Taches : statut'[j] = IF j = k THEN v ELSE statut[j]
  BY DEF IInv, TypeOK
<1>5. ASSUME NEW j \in 1 .. MaxTaches
      PROVE  etatTache'[j] = IF j = k THEN "finie" ELSE etatTache[j]
  <2>1. etatTache'[j] = IF j \notin Taches \/ j >= prochaine THEN "attend"
                        ELSE IF statut'[j] # NonLancee THEN "finie" ELSE "tourne"
    BY DEF etatTache, Taches
  <2> QED BY <1>1, <1>3, <1>4, <2>1 DEF etatTache
<1>6. etatTache' = [etatTache EXCEPT ![k] = "finie"]
  BY <1>1, <1>5 DEF etatTache
<1> QED BY <1>1, <1>2, <1>6 DEF Pool!Finir

LEMMA PoolPas ==
  ASSUME IInv, [Next]_vars
  PROVE  [Pool!Next]_<<etatTache, coeurs>>
<1>1. CASE LirePlan
  <2>1. n = 0 /\ prochaine = 1 /\ prochaine' = 1 /\ coeurs' = coeurs
    BY <1>1 DEF IInv, Avant, LirePlan, comptes
  <2>2. \A k \in 1 .. MaxTaches : k >= 1 /\ k >= prochaine
    BY <2>1, MultiAssumption
  <2>3. etatTache = [k \in 1 .. MaxTaches |-> "attend"]
    BY <2>2 DEF etatTache
  <2>4. etatTache' = [k \in 1 .. MaxTaches |-> "attend"]
    BY <2>1, <2>2 DEF etatTache
  <2> QED BY <2>1, <2>3, <2>4
<1>2. CASE Preparer
  <2>1. coeurs = 0 /\ n \in Nat /\ n >= 1
    BY <1>2 DEF IInv, Avant, TypeOK, Preparer
  <2>2. coeurs' \in Nat \ {0}
    BY <1>2, <2>1, Largeur DEF Preparer
  <2>3. etatTache' = etatTache
    BY <1>2 DEF Preparer, etatTache, Taches, taches, comptes
  <2> QED BY <2>1, <2>2, <2>3 DEF Pool!Next, Pool!Dimensionner
<1>3. CASE Lancer
  <2>1. statut[prochaine] = NonLancee
    BY <1>3 DEF Lancer, ARemplir, IInv, TypeOK, Comptes, Finies, Taches
  <2> QED BY <1>3, <2>1, PoolLance DEF Lancer, Pool!Next, plan
<1>4. CASE LancerEchoue
  BY <1>4, PoolLance DEF LancerEchoue, Pool!Next, plan
<1>5. ASSUME NEW p \in Pids, Recolter(p)
      PROVE  [Pool!Next]_<<etatTache, coeurs>>
  <2>1. PICK s \in Siennes(p) : statut' = [statut EXCEPT ![occupe[s]] = issue[p]]
    BY <1>5 DEF Recolter
  <2>2. s \in Places /\ occupe[s] # 0 /\ reel[occupe[s]] = issue[p]
    BY <1>5, Charge DEF Recolter, Rendre
  <2>3. occupe[s] \in Taches
    BY <2>2 DEF IInv, TypeOK
  <2>4. occupe[s] < prochaine /\ statut[occupe[s]] = NonLancee
    BY <2>2, <2>3 DEF IInv, Comptes, Finies
  <2>5. issue[p] \in Issues
    <3>1. issue[p] \in Issues \cup {0} /\ reel[occupe[s]] \in Statuts
      BY <2>3 DEF IInv, TypeOK
    <3>2. CASE issue[p] = 0 /\ 0 \notin Issues
      BY <2>2, <3>1, <3>2 DEF Statuts, Echec, NonLancee
    <3> QED BY <3>1, <3>2
  <2>6. UNCHANGED <<n, coeurs, prochaine>>
    BY <1>5 DEF Recolter, plan
  <2> QED BY <2>1, <2>3, <2>4, <2>5, <2>6, PoolFinit DEF Pool!Next
<1>6. CASE Tete \/ Rempli \/ SansEnfant \/ Bilan \/ UNCHANGED vars
  BY <1>6, PasVu DEF Tete, Rempli, SansEnfant, Bilan, vars, plan, taches, comptes
<1>7. ASSUME NEW p \in Pids, RecolterEtranger(p) \/ Mourir(p) \/ Adopter(p)
      PROVE  [Pool!Next]_<<etatTache, coeurs>>
  BY <1>7, PasVu DEF RecolterEtranger, Mourir, Adopter, plan, taches, comptes
<1> QED BY <1>1, <1>2, <1>3, <1>4, <1>5, <1>6, <1>7 DEF Next, Parent, Noyau

\* The parent, its slots and its processes are the pool of Reservoir: the width is fixed once,
\* the jobs start in the order of the plan, never more than the width together, and a job that
\* is over stays over.
THEOREM PoolImplemente == Spec => ImplementePool
<1>1. Init => Pool!Init
  BY DEF Init, Pool!Init, etatTache, Taches
<1>2. IInv /\ [Next]_vars => [Pool!Next]_<<etatTache, coeurs>>
  BY PoolPas
<1> QED BY <1>1, <1>2, Invariant, PTL DEF Spec, ImplementePool, Pool!Spec
=============================================================================
