----------------------------- MODULE Reservoir ------------------------------
(***************************************************************************)
(* What a plan run on several cores promises, without processes, slots or  *)
(* counters: the width of the pool is fixed before the first job, the jobs *)
(* start in the order of the plan, never more than the width at a time,    *)
(* and a job that is over stays over.                                      *)
(***************************************************************************)
EXTENDS Integers, FiniteSets

CONSTANT Taches      \* the jobs a plan may hold: 1 .. some number

VARIABLES etat,      \* [Taches -> {"attend", "tourne", "finie"}]
          largeur    \* how many may run together, 0 = not known yet

Init == etat = [k \in Taches |-> "attend"] /\ largeur = 0

Dimensionner ==
  /\ largeur = 0 /\ largeur' \in Nat \ {0}
  /\ UNCHANGED etat

EnCours == {k \in Taches : etat[k] = "tourne"}

\* The next job of the plan starts; it may also be over at once, never started.
Lancer(k) ==
  /\ etat[k] = "attend"
  /\ \A j \in Taches : j < k => etat[j] # "attend"
  /\ Cardinality(EnCours) < largeur
  /\ \E e \in {"tourne", "finie"} : etat' = [etat EXCEPT ![k] = e]
  /\ UNCHANGED largeur

Finir(k) ==
  /\ etat[k] = "tourne"
  /\ etat' = [etat EXCEPT ![k] = "finie"]
  /\ UNCHANGED largeur

Next == Dimensionner \/ (\E k \in Taches : Lancer(k) \/ Finir(k))

Spec == Init /\ [][Next]_<<etat, largeur>>
=============================================================================
