-------------------------------- MODULE Multi -------------------------------
(***************************************************************************)
(* multi.c: a plan of jobs run by separate processes, one per slot.  The   *)
(* parent reads the plan, fills the free slots by fork(), sleeps in wait(),*)
(* charges the exit status to the job of the slot whose pid it is, and     *)
(* writes bilan.tsv when it leaves its loop.  The kernel's side - the      *)
(* processes, their pids taken and given back - is part of the model.      *)
(***************************************************************************)
EXTENDS Integers, FiniteSets

CONSTANTS
  MaxTaches,      \* bound: jobs of a plan
  MaxCoeurs,      \* bound: --coeurs, and CPUs of the affinity mask
  Pids,           \* process identifiers
  Issues,         \* how a job may end: its exit status, or 128 + the signal
  MaxEtrangers    \* bound: children the parent did not fork itself (orphans it inherits)

ASSUME MultiAssumption ==
  /\ MaxTaches \in Nat /\ MaxCoeurs \in Nat /\ MaxEtrangers \in Nat
  /\ Issues \subseteq 0 .. 255

Echec == 127        \* fork() failed
NonLancee == -1     \* "-1 = not run"

VARIABLES
  pc,         \* "lecture", "preparation", "tete", "remplir", "attente", "bilan", "fin"
  n,          \* jobs of the plan
  coeurs,     \* slots
  epingler,   \* a job is pinned to the CPU of its slot
  statut,     \* t[k].statut
  pid,        \* t[k].pid, 0 = none
  cpu,        \* t[k].cpu, -1 = not pinned
  occupe,     \* the job of each slot, 0 = free (-1 in the code, whose jobs count from 0)
  enCours, prochaine, finies, echecs,
  code,       \* what multi_executer returns
  etat,       \* kernel: each pid "libre", "vivant" or "zombi"
  tache,      \* kernel: the job each process runs, 0 = none of the plan
  issue,      \* kernel: how each zombie ended
  ignore,     \* kernel: SIGCHLD was inherited ignored, no zombie is kept
  reel,       \* history: how the process of each job ended, Echec when it had none
  etrangers   \* bound: foreign children so far

plan == <<n, coeurs, epingler>>
taches == <<statut, pid, cpu>>
comptes == <<enCours, prochaine, finies, echecs>>
noyau == <<etat, tache, issue, ignore>>
vars == <<pc, plan, taches, occupe, comptes, code, noyau, reel, etrangers>>

Taches == 1 .. n
Places == 1 .. coeurs

Init ==
  /\ pc = "lecture"
  /\ n = 0 /\ coeurs = 0 /\ epingler = FALSE
  /\ statut = <<>> /\ pid = <<>> /\ cpu = <<>> /\ reel = <<>> /\ occupe = <<>>
  /\ enCours = 0 /\ prochaine = 1 /\ finies = 0 /\ echecs = 0
  /\ code = 0
  /\ etat = [p \in Pids |-> "libre"]
  /\ tache = [p \in Pids |-> 0] /\ issue = [p \in Pids |-> 0]
  /\ ignore \in BOOLEAN
  /\ etrangers = 0

-----------------------------------------------------------------------------
(* The parent.                                                             *)

\* lire_plan: the lines that hold a job, or a refusal (no file, a line asking for
\* --arm or --plan, no job at all), before anything is launched.
LirePlan ==
  /\ pc = "lecture"
  /\ \/ \E taille \in 1 .. MaxTaches :
          /\ n' = taille
          /\ statut' = [k \in 1 .. taille |-> NonLancee]
          /\ pid' = [k \in 1 .. taille |-> 0]
          /\ cpu' = [k \in 1 .. taille |-> -1]
          /\ reel' = [k \in 1 .. taille |-> NonLancee]
          /\ pc' = "preparation" /\ UNCHANGED code
     \/ pc' = "fin" /\ code' = 2 /\ UNCHANGED <<n, taches, reel>>
  /\ UNCHANGED <<coeurs, epingler, occupe, comptes, noyau, etrangers>>

\* The width of the pool: --coeurs, or every CPU of the mask, never more than the jobs.
LargeurVoulue(demande, cpus) ==
  LET voulu == IF demande > 0 THEN demande ELSE IF cpus > 0 THEN cpus ELSE 1
  IN  IF voulu > n THEN n ELSE voulu

\* The output directory or the path of the executable may be missing.
Preparer ==
  /\ pc = "preparation"
  /\ \E demande \in 0 .. MaxCoeurs, cpus \in 0 .. MaxCoeurs :
       /\ coeurs' = LargeurVoulue(demande, cpus)
       /\ epingler' = (cpus > 0 /\ LargeurVoulue(demande, cpus) <= cpus)
       /\ occupe' = [s \in 1 .. LargeurVoulue(demande, cpus) |-> 0]
  /\ \/ pc' = "tete" /\ UNCHANGED code
     \/ pc' = "fin" /\ code' = 2
  /\ UNCHANGED <<n, taches, comptes, noyau, reel, etrangers>>

\* while (finies < n)
Tete ==
  /\ pc = "tete"
  /\ pc' = IF finies < n THEN "remplir" ELSE "bilan"
  /\ UNCHANGED <<plan, taches, occupe, comptes, code, noyau, reel, etrangers>>

\* One job past the end of the plan.
ARemplir_Deborde == enCours < coeurs /\ prochaine <= n + 1

ARemplir == enCours < coeurs /\ prochaine <= n

\* The first free slot: `while (occupe[s] >= 0) s++'.
PremiereLibre ==
  CHOOSE s \in Places : occupe[s] = 0 /\ \A u \in Places : u < s => occupe[u] # 0

\* lancer: fork() gives the next job a process of its own, pinned to its slot's CPU.
Lancer ==
  /\ pc = "remplir" /\ ARemplir
  /\ \E p \in Pids :
       /\ etat[p] = "libre"
       /\ etat' = [etat EXCEPT ![p] = "vivant"]
       /\ tache' = [tache EXCEPT ![p] = prochaine]
       /\ pid' = [pid EXCEPT ![prochaine] = p]
  /\ cpu' = [cpu EXCEPT ![prochaine] = IF epingler THEN PremiereLibre ELSE -1]
  /\ occupe' = [occupe EXCEPT ![PremiereLibre] = prochaine]
  /\ enCours' = enCours + 1 /\ prochaine' = prochaine + 1
  /\ UNCHANGED <<pc, plan, statut, finies, echecs, code, issue, ignore, reel, etrangers>>

\* A slip on the failure of fork(): `prochaine' is moved twice.
LancerEchoue_Double ==
  /\ pc = "remplir" /\ ARemplir
  /\ statut' = [statut EXCEPT ![prochaine] = Echec]
  /\ reel' = [reel EXCEPT ![prochaine] = Echec]
  /\ finies' = finies + 1 /\ echecs' = echecs + 1 /\ prochaine' = prochaine + 2
  /\ UNCHANGED <<pc, plan, pid, cpu, occupe, enCours, code, noyau, etrangers>>

\* fork() fails: the job is over without a process.
LancerEchoue ==
  /\ pc = "remplir" /\ ARemplir
  /\ statut' = [statut EXCEPT ![prochaine] = Echec]
  /\ reel' = [reel EXCEPT ![prochaine] = Echec]
  /\ finies' = finies + 1 /\ echecs' = echecs + 1 /\ prochaine' = prochaine + 1
  /\ UNCHANGED <<pc, plan, pid, cpu, occupe, enCours, code, noyau, etrangers>>

\* `if (en_cours == 0) continue', otherwise wait().
Rempli ==
  /\ pc = "remplir" /\ ~ARemplir
  /\ pc' = IF enCours = 0 THEN "tete" ELSE "attente"
  /\ UNCHANGED <<plan, taches, occupe, comptes, code, noyau, reel, etrangers>>

\* wait() returns a child: its pid is free again.
Rendre(p) ==
  /\ etat[p] = "zombi"
  /\ etat' = [etat EXCEPT ![p] = "libre"]
  /\ tache' = [tache EXCEPT ![p] = 0]
  /\ issue' = [issue EXCEPT ![p] = 0]
  /\ UNCHANGED ignore

\* The pid is not compared.
Siennes_SansPid(p) == {s \in Places : occupe[s] # 0}

\* The slots whose job has this pid.
Siennes(p) == {s \in Places : occupe[s] # 0 /\ pid[occupe[s]] = p}

\* One of ours (an interrupted wait is simply begun again, nothing else changes).
Recolter(p) ==
  /\ pc = "attente" /\ Rendre(p)
  /\ \E s \in Siennes(p) :
       /\ \A u \in Siennes(p) : s <= u
       /\ statut' = [statut EXCEPT ![occupe[s]] = issue[p]]
       /\ occupe' = [occupe EXCEPT ![s] = 0]
  /\ echecs' = IF issue[p] # 0 THEN echecs + 1 ELSE echecs
  /\ enCours' = enCours - 1 /\ finies' = finies + 1
  /\ pc' = "tete"
  /\ UNCHANGED <<plan, pid, cpu, prochaine, code, reel, etrangers>>

\* "not one of ours"
RecolterEtranger(p) ==
  /\ pc = "attente" /\ Rendre(p)
  /\ Siennes(p) = {}
  /\ pc' = "tete"
  /\ UNCHANGED <<plan, taches, occupe, comptes, code, reel, etrangers>>

\* ECHILD taken like EINTR.
SansEnfant_Continue ==
  /\ pc = "attente"
  /\ \A p \in Pids : etat[p] = "libre"
  /\ pc' = "tete"
  /\ UNCHANGED <<plan, taches, occupe, comptes, code, noyau, reel, etrangers>>

\* ECHILD: no child is left, the loop is broken.
SansEnfant ==
  /\ pc = "attente"
  /\ \A p \in Pids : etat[p] = "libre"
  /\ pc' = "bilan"
  /\ UNCHANGED <<plan, taches, occupe, comptes, code, noyau, reel, etrangers>>

\* bilan.tsv is written and the parent returns.
Bilan ==
  /\ pc = "bilan"
  /\ pc' = "fin"
  /\ code' = IF echecs # 0 THEN 1 ELSE 0
  /\ UNCHANGED <<plan, taches, occupe, comptes, noyau, reel, etrangers>>

-----------------------------------------------------------------------------
(* The kernel.                                                             *)

\* A process exits, or SIGALRM kills it.  With SIGCHLD ignored no zombie is left.
Mourir(p) ==
  /\ etat[p] = "vivant"
  /\ \E i \in Issues :
       /\ reel' = IF tache[p] = 0 THEN reel ELSE [reel EXCEPT ![tache[p]] = i]
       /\ IF ignore
          THEN /\ etat' = [etat EXCEPT ![p] = "libre"]
               /\ tache' = [tache EXCEPT ![p] = 0]
               /\ UNCHANGED issue
          ELSE /\ etat' = [etat EXCEPT ![p] = "zombi"]
               /\ issue' = [issue EXCEPT ![p] = i]
               /\ UNCHANGED tache
  /\ UNCHANGED <<pc, plan, taches, occupe, comptes, code, ignore, etrangers>>

\* The parent inherits an orphan (it is process 1 of a container), or had a child
\* before it was exec'ed.
Adopter(p) ==
  /\ etrangers < MaxEtrangers /\ etat[p] = "libre" /\ pc # "fin"
  /\ etat' = [etat EXCEPT ![p] = "vivant"]
  /\ etrangers' = etrangers + 1
  /\ UNCHANGED <<pc, plan, taches, occupe, comptes, code, tache, issue, ignore, reel>>

-----------------------------------------------------------------------------
Parent ==
  \/ LirePlan \/ Preparer \/ Tete \/ Lancer \/ LancerEchoue \/ Rempli
  \/ (\E p \in Pids : Recolter(p) \/ RecolterEtranger(p)) \/ SansEnfant \/ Bilan

Noyau == \E p \in Pids : Mourir(p) \/ Adopter(p)

Next == Parent \/ Noyau

Spec == Init /\ [][Next]_vars

\* Fairness: the parent runs, and every process ends (--delai arms an alarm).
Equite == WF_vars(Parent) /\ \A p \in Pids : WF_vars(Mourir(p))

SpecEquitable == Spec /\ Equite

-----------------------------------------------------------------------------
(* Properties.                                                             *)

Statuts == Issues \cup {Echec, NonLancee}

TypeOK ==
  /\ pc \in {"lecture", "preparation", "tete", "remplir", "attente", "bilan", "fin"}
  /\ n \in Nat /\ coeurs \in 0 .. n /\ epingler \in BOOLEAN
  /\ statut \in [Taches -> Statuts] /\ reel \in [Taches -> Statuts]
  /\ pid \in [Taches -> Pids \cup {0}] /\ cpu \in [Taches -> Places \cup {-1}]
  /\ occupe \in [Places -> Taches \cup {0}]
  /\ prochaine \in 1 .. n + 1
  /\ enCours \in Nat /\ finies \in Nat /\ echecs \in Nat /\ code \in 0 .. 2
  /\ etat \in [Pids -> {"libre", "vivant", "zombi"}]
  /\ tache \in [Pids -> Taches \cup {0}] /\ issue \in [Pids -> Issues \cup {0}]
  /\ ignore \in BOOLEAN /\ etrangers \in Nat

\* Slots, counters and statuses tell one story: a job before `prochaine' is over or
\* holds exactly one slot, en_cours counts the held slots (so the search for a free
\* slot stays inside the array) and finies the jobs that are over.
Occupees == {s \in Places : occupe[s] # 0}
Finies == {k \in Taches : statut[k] # NonLancee}
Comptes ==
  /\ enCours = Cardinality(Occupees)
  /\ finies = Cardinality(Finies)
  /\ \A k \in Taches :
       /\ k < prochaine <=> k \in Finies \/ \E s \in Places : occupe[s] = k
       /\ k \in Finies => \A s \in Places : occupe[s] # k
  /\ \A s, u \in Occupees : occupe[s] = occupe[u] => s = u

\* Two jobs alive together are never pinned to the same CPU.
UnJobParCpu ==
  \A p, q \in Pids :
    /\ p # q /\ etat[p] = "vivant" /\ etat[q] = "vivant"
    /\ tache[p] # 0 /\ tache[q] # 0 /\ cpu[tache[p]] # -1
    => cpu[tache[p]] # cpu[tache[q]]

\* The report is true: the status charged to a job is the one its own process ended with,
\* though pids are taken again and children that are not jobs come back from wait() too; and
\* success is returned only when every job of the plan has succeeded, provided wait() can
\* tell how children end (SIGCHLD not ignored).
StatutFidele ==
  /\ \A k \in Finies : statut[k] = reel[k]
  /\ pc = "fin" /\ code = 0 /\ ~ignore => \A k \in Taches : reel[k] = 0

\* The three together: what the parent keeps of its jobs is the truth about the processes.
BilanFidele == Comptes /\ UnJobParCpu /\ StatutFidele

\* Every plan ends.
Termine == <>(pc = "fin")

\* The pool of Reservoir.tla, its width being the one the parent has computed.
etatTache ==
  [k \in 1 .. MaxTaches |->
     IF k \notin Taches \/ k >= prochaine THEN "attend"
     ELSE IF statut[k] # NonLancee THEN "finie" ELSE "tourne"]

Pool == INSTANCE Reservoir WITH
          Taches <- 1 .. MaxTaches, largeur <- coeurs, etat <- etatTache

ImplementePool == Pool!Spec
=============================================================================
