-------------------------------- MODULE Rejeu --------------------------------
(***************************************************************************)
(* rejouer.c: the deterministic replay of an acquisition.  The ARM of the  *)
(* phone is replaced by the scheduler of its layer 1: a table of callbacks *)
(* with the frame they are due in.  A frame is one l1_sync, which runs the *)
(* callbacks that are due, then the DSP.  An acquisition looks for the     *)
(* FCCH coarsely (mode 0), then finely (mode 1), counts the frames to the  *)
(* next SCH from the TOA the DSP reports and posts the SB task there.      *)
(*                                                                         *)
(* The environment is the DSP and the cell: where the DSP sees an FCCH, by *)
(* how many symbols its TOA is off, what frequency error it measures and   *)
(* how an SCH decodes.  Frames are numbered modulo 51, due dates relative  *)
(* to the current frame.  Pages, samples, the AFC, the probes (most of the *)
(* file) and REJEU_SB_FORCE, which aims at the SCH without the TOA, are    *)
(* left out.                                                               *)
(***************************************************************************)
EXTENDS Integers, Sequences, FiniteSets

CONSTANTS
  Reglages,    \* unique: REJEU_SB_UNIQUE, one SB command instead of two; continuer:
               \* REJEU_CONTINUER, a true SB starts a new acquisition
  Fb0RetryMax, \* FB0_RETRY_MAX (3)
  AfcRetryMax, \* AFC_RETRY_MAX (30)
  Latence,     \* frames the DSP may take to report an FCCH
  Residus      \* symbols by which the TOA it reports may be off

Capacite == 32       \* of sched[]
Fenetre == 12        \* frames of an FB search, and responses of a set
BitsTrame == 1250    \* BITS_PER_TDMA
ToaNul == 23         \* the TOA of an FCCH at the start of the frame of the command

ASSUME RejeuAssumption ==
  /\ Reglages \subseteq [unique: BOOLEAN, continuer: BOOLEAN]
  /\ Fb0RetryMax \in Nat /\ AfcRetryMax \in Nat /\ Latence \in Nat
  /\ Residus \subseteq -BitsTrame .. BitsTrame - 1

\* cellule_burst: the FCCH, the SCH, and the rest of the 51-multiframe.
TypeBurst(p) ==
  CASE p % 10 = 0 /\ p <= 40 -> "F"
    [] p % 10 = 1 /\ p <= 41 -> "S"
    [] OTHER -> "N"
TramesFcch == {p \in 0 .. 50 : TypeBurst(p) = "F"}
TramesSch == {p \in 0 .. 50 : TypeBurst(p) = "S"}

VARIABLES
  reglage,    \* the settings of this replay
  etape,      \* "l1" (l1_sync), "dsp", "fin" (rejouer has returned)
  p51,        \* fn_cur % 51
  sched,      \* sched[0 .. n_sched-1]: callback, attempt, frames to go (-1: run or past)
  fbMode, afcRetries, fb0Retries,
  verdict,    \* 0 running, 1 SB found, -1 given up
  tache,      \* d_task_md of the page of this frame
  cherche,    \* DSP: frames since the FB command, -1 when it does not search
  det,        \* d_fb_det, and the symbols counted from the command (a_sync_demod[D_TOA])
  sbCmd,      \* g_sb_cmd_fn % 51, forgotten (-1) when an FB set is planned
  vu,         \* history: the frame of the FCCH reported last, and whether its TOA was early
  vise        \* history: an SB command of this set fell on an SCH

vars == <<reglage, etape, p51, sched, fbMode, afcRetries, fb0Retries, verdict, tache, cherche, det, sbCmd, vu, vise>>

-----------------------------------------------------------------------------
(* The table.                                                              *)

Element(quoi, essai, dans) == [quoi |-> quoi, essai |-> essai, dans |-> dans]

\* plan_fb_set, without its mode: a command, and a response in each of the frames from the
\* second after it on.
JeuFb(delai) ==
  [i \in 1 .. Fenetre + 1 |->
     IF i = 1 THEN Element("fbCmd", 0, delai) ELSE Element("fbResp", i - 1, delai + i)]

\* plan_sb_set.
JeuSb(delai) ==
  IF reglage.unique
  THEN <<Element("sbCmd", 1, delai), Element("sbResp", 1, delai + 3)>>
  ELSE <<Element("sbCmd", 1, delai), Element("sbCmd", 2, delai + 1),
         Element("sbResp", 1, delai + 3), Element("sbResp", 2, delai + 4)>>

\* sb_dernier_essai.
DernierEssai == IF reglage.unique THEN 1 ELSE 2

\* plan, for the elements of a set: what does not fit is dropped.
Plan(table, jeu) ==
  LET t == table \o jeu IN IF Len(t) <= Capacite THEN t ELSE SubSeq(t, 1, Capacite)

\* sched_reset, then a set.
Remplacer(jeu) == sched' = Plan(<<>>, jeu)

Echu(i) == sched[i].dans = 0

\* An element is run once.
Consommer(i) == sched' = [sched EXCEPT ![i].dans = -1]

-----------------------------------------------------------------------------

\* arm_dsp_init: the pages are empty, nothing is searched, nothing is detected.
ArmDspInit == tache = "rien" /\ cherche = -1 /\ det = [leve |-> FALSE, toa |-> 0]

Init ==
  /\ reglage \in Reglages
  /\ etape = "l1" /\ p51 = 0 /\ sched = Plan(<<>>, JeuFb(1))
  /\ fbMode = 0 /\ afcRetries = 0 /\ fb0Retries = 0 /\ verdict = 0
  /\ ArmDspInit /\ sbCmd = -1 /\ vu = [fcch |-> 0, tot |-> FALSE] /\ vise = FALSE

\* plan_fb_set after sched_reset.
Chercher(mode) == Remplacer(JeuFb(1)) /\ fbMode' = mode /\ sbCmd' = -1

Abandonner == verdict' = -1 /\ sched' = <<>> /\ UNCHANGED <<fbMode, sbCmd>>

\* fbdet_cmd.
FbCmd(i) ==
  /\ sched[i].quoi = "fbCmd"
  /\ Consommer(i) /\ tache' = "FB"
  /\ UNCHANGED <<fbMode, afcRetries, fb0Retries, verdict, det, sbCmd, vise>>

\* The retries are not counted.
FbMuet_SansCompte(i) ==
  /\ sched[i].quoi = "fbResp" /\ ~det.leve
  /\ IF sched[i].essai < Fenetre THEN Consommer(i) /\ UNCHANGED <<fbMode, sbCmd, verdict>>
     ELSE Chercher(0) /\ UNCHANGED verdict
  /\ UNCHANGED <<afcRetries, fb0Retries, tache, det, vise>>

\* fbdet_resp, nothing detected: the last response of the set starts another one.
FbMuet(i) ==
  /\ sched[i].quoi = "fbResp" /\ ~det.leve
  /\ IF sched[i].essai < Fenetre
     THEN Consommer(i) /\ UNCHANGED <<fbMode, sbCmd, fb0Retries, verdict>>
     ELSE IF fb0Retries < Fb0RetryMax
     THEN Chercher(0) /\ fb0Retries' = fb0Retries + 1 /\ UNCHANGED verdict
     ELSE Abandonner /\ UNCHANGED fb0Retries
  /\ UNCHANGED <<afcRetries, tache, det, vise>>

\* ntdma, the frames from the command to the FCCH: a whole number, and one frame less as
\* soon as the TOA is before that of the frame.
Ntdma(toa) == IF toa < ToaNul THEN -1 ELSE (toa - ToaNul) \div BitsTrame

\* Frames from the response to the SB command, counted from the response instead of
\* from the command.
Delai_SansEssai(essai) == Ntdma(det.toa) + 10

\* Frames from the response to the SB command: eleven after the FCCH.
Delai(essai) ==
  LET d == Ntdma(det.toa) - essai + 10
  IN  IF d < 0 THEN 0 ELSE IF d > 20 THEN 20 ELSE d

\* The flag of the detection stays up.
Lire_SansBaisse == UNCHANGED det

\* read_fb_result.
Lire == det' = [leve |-> FALSE, toa |-> 0]

\* fbdet_resp, an FCCH detected, with a frequency error that is too large for the fine
\* search ("fort"), for an SB ("moyen"), or small ("faible").
FbTrouve(i) ==
  /\ sched[i].quoi = "fbResp" /\ det.leve
  /\ Lire
  /\ \E ecart \in {"fort", "moyen", "faible"} :
       IF fbMode = 0
       THEN IF ecart # "fort"
            THEN Chercher(1) /\ UNCHANGED <<afcRetries, verdict>>
            ELSE IF afcRetries < AfcRetryMax
            THEN Chercher(0) /\ afcRetries' = afcRetries + 1 /\ UNCHANGED verdict
            ELSE Abandonner /\ UNCHANGED afcRetries
       ELSE /\ IF ecart = "faible"
               THEN Remplacer(JeuSb(Delai(sched[i].essai))) /\ UNCHANGED <<fbMode, sbCmd>>
               ELSE Chercher(1)
            /\ UNCHANGED <<afcRetries, verdict>>
  /\ vise' = FALSE
  /\ UNCHANGED <<fb0Retries, tache>>

\* sbdet_cmd.
SbCmd(i) ==
  /\ sched[i].quoi = "sbCmd"
  /\ Consommer(i) /\ tache' = "SB"
  /\ sbCmd' = p51 /\ vise' = (vise \/ p51 \in TramesSch)
  /\ UNCHANGED <<fbMode, afcRetries, fb0Retries, verdict, det>>

\* A decoded SB word, by what sbdet_resp checks of it: the BSIC is that of the cell, T3'
\* (three bits), T1 and T2 are those of the frame of the last command.
MotsSb == [bsic: BOOLEAN, t3p: 0 .. 7, t1t2: BOOLEAN]

\* bsic_ok, t3_ok and fn_ok.
Vraie(mot) ==
  LET t3 == mot.t3p * 10 + 1
  IN  mot.bsic /\ t3 <= 50 /\ mot.t1t2 /\ t3 % 51 = sbCmd

\* sbdet_resp, the CRC fails: the last attempt starts an acquisition.
SbFaux(i) ==
  IF sched[i].essai = DernierEssai THEN Chercher(0) ELSE Consommer(i) /\ UNCHANGED <<fbMode, sbCmd>>

\* A CRC that passes by chance is left at that.
SbResp_Muette(i) ==
  /\ sched[i].quoi = "sbResp" /\ UNCHANGED verdict
  /\ SbFaux(i) \/ \E mot \in MotsSb : ~Vraie(mot) /\ Consommer(i) /\ UNCHANGED <<fbMode, sbCmd>>
  /\ UNCHANGED <<afcRetries, fb0Retries, tache, det, vise>>

\* sbdet_resp: the CRC fails, or it passes, by chance or on the SCH of the cell.
SbResp(i) ==
  /\ sched[i].quoi = "sbResp"
  /\ \/ SbFaux(i) /\ UNCHANGED verdict
     \/ \E mot \in MotsSb :
          IF Vraie(mot) /\ ~reglage.continuer
          THEN verdict' = 1 /\ Consommer(i) /\ UNCHANGED <<fbMode, sbCmd>>
          ELSE Chercher(0) /\ UNCHANGED verdict
  /\ UNCHANGED <<afcRetries, fb0Retries, tache, det, vise>>

\* l1_sync: what is due, in the order of the table, until nothing is; a set may start
\* in the frame that plans it.
Appeler ==
  /\ etape = "l1" /\ verdict = 0
  /\ \E i \in DOMAIN sched :
       /\ Echu(i) /\ \A j \in 1 .. i - 1 : ~Echu(j)
       /\ FbCmd(i) \/ FbMuet(i) \/ FbTrouve(i) \/ SbCmd(i) \/ SbResp(i)
  /\ UNCHANGED <<reglage, etape, p51, cherche, vu>>

FinSync ==
  /\ etape = "l1" /\ verdict = 0
  /\ \A i \in DOMAIN sched : ~Echu(i)
  /\ etape' = "dsp"
  /\ UNCHANGED <<reglage, p51, sched, fbMode, afcRetries, fb0Retries, verdict, tache, cherche, det, sbCmd, vu, vise>>

\* The TOA of an FCCH j frames after the command, r symbols off.
Toa(j, r) == ToaNul + BitsTrame * j + r

\* The DSP: an FB task starts a search, which may see the FCCH, reports it in the frame
\* or up to Latence frames later, by a TOA that may be a few symbols off, and ends with it or
\* with its window.
Dsp ==
  LET k == IF tache = "FB" THEN 0 ELSE cherche
      vues == {j \in 0 .. k : k - j <= Latence /\ (p51 - (k - j) + 51) % 51 \in TramesFcch}
  IN  \/ k = -1 /\ UNCHANGED <<cherche, det, vu>>
      \/ k >= 0 /\ cherche' = (IF k = Fenetre - 1 THEN -1 ELSE k + 1) /\ UNCHANGED <<det, vu>>
      \/ /\ k >= 0 /\ cherche' = -1
         /\ \E j \in vues, r \in Residus :
              /\ det' = [leve |-> TRUE, toa |-> Toa(j, r)]
              /\ vu' = [fcch |-> (p51 - (k - j) + 51) % 51, tot |-> r < 0]

\* The rest of the loop of rejouer, and the next frame.
Trame ==
  /\ etape = "dsp" /\ etape' = "l1"
  /\ Dsp
  /\ p51' = (p51 + 1) % 51
  /\ sched' = [i \in DOMAIN sched |-> [sched[i] EXCEPT !.dans = IF @ < 0 THEN -1 ELSE @ - 1]]
  /\ tache' = "rien"
  /\ UNCHANGED <<reglage, fbMode, afcRetries, fb0Retries, verdict, sbCmd, vise>>

\* A verdict ends the loop.
Conclure ==
  /\ etape = "l1" /\ verdict # 0 /\ etape' = "fin"
  /\ UNCHANGED <<reglage, p51, sched, fbMode, afcRetries, fb0Retries, verdict, tache, cherche, det, sbCmd, vu, vise>>

Next == Appeler \/ FinSync \/ Trame \/ Conclure

Spec == Init /\ [][Next]_vars

\* The loop of rejouer runs; each frame has an instruction budget.
SpecVive == Spec /\ WF_vars(Next)

-----------------------------------------------------------------------------
(* Properties.                                                             *)

Toas == ToaNul - BitsTrame .. ToaNul + BitsTrame * Fenetre

TypeOK ==
  /\ reglage \in Reglages
  /\ etape \in {"l1", "dsp", "fin"} /\ p51 \in 0 .. 50
  /\ Len(sched) \in 0 .. Capacite
  /\ \A i \in DOMAIN sched :
       sched[i] \in [quoi: {"fbCmd", "fbResp", "sbCmd", "sbResp"}, essai: 0 .. Fenetre,
                     dans: -1 .. Fenetre + 2]
  /\ fbMode \in 0 .. 1 /\ afcRetries \in 0 .. AfcRetryMax /\ fb0Retries \in 0 .. Fb0RetryMax
  /\ verdict \in -1 .. 1 /\ tache \in {"rien", "FB", "SB"} /\ cherche \in -1 .. Fenetre - 1
  /\ det \in [leve: BOOLEAN, toa: Toas]
  /\ sbCmd \in -1 .. 50 /\ vu \in [fcch: 0 .. 50, tot: BOOLEAN] /\ vise \in BOOLEAN

\* The replayed ARM never falls silent: without a verdict, a callback is still to come,
\* whatever the DSP answered (rejouer.c was once silent after a false SB).
JamaisMuet == verdict = 0 => \E i \in DOMAIN sched : sched[i].dans >= 0

\* One set at a time: no two callbacks are due in the same frame, so a response reads
\* what its own command asked for, and the table never fills up.
UnSeulJeu ==
  /\ \A i, j \in DOMAIN sched : sched[i].dans = sched[j].dans /\ sched[i].dans >= 0 => i = j
  /\ Len(sched) <= Fenetre + 1

\* The two together: exactly one callback answers for the next step.
ToujoursUnJeu == JamaisMuet /\ UnSeulJeu

Reponse(quoi) ==
  {i \in DOMAIN sched : Echu(i) /\ sched[i].quoi = quoi /\ etape = "l1" /\ verdict = 0}

\* The frame the ARM counts the SCH from is the frame of the FCCH, or the one before it when
\* the TOA was early, were it by one symbol: the detection it reads answers the command of
\* the same set, never that of the one before.
FcchJuste ==
  \A i \in Reponse("fbResp") :
    det.leve =>
      /\ vu.fcch \in TramesFcch
      /\ (p51 - sched[i].essai - 1 + Ntdma(det.toa) + (IF vu.tot THEN 1 ELSE 0) + 51) % 51 = vu.fcch

\* Why the commands of an SB set could miss the SCH: there is one of them only, the TOA was
\* early and they come a frame too soon, or the FCCH is the last of the 51-multiframe and the
\* next SCH is twelve frames after it, not eleven.
Ecueils ==
  {e \in {"seule", "tot", "dernier"} :
     \/ e = "seule" /\ reglage.unique
     \/ e = "tot" /\ vu.tot
     \/ e = "dernier" /\ vu.fcch = 40}

\* One of these alone is made up for, by the second command or by the eleven frames; two of
\* them together are not: no command is posted in a frame of the SCH.
ViseSch == Reponse("sbResp") # {} => (vise <=> \A e, f \in Ecueils : e = f)

\* The two together: the SCH is looked for where the FCCH was, and missed only when it is
\* known to be.
SchAuBonEndroit == FcchJuste /\ ViseSch

\* A replay whose DSP detects nothing any more gives up.
AbandonneSansFb == (<>[]~det.leve) => <>(verdict # 0)
=============================================================================
