---------------------------- MODULE CanalProofs -----------------------------
(***************************************************************************)
(* Proofs about Canal, for every set of timeslots, every installation and  *)
(* every guard: the types, TS0 given back when it is looked for, and the   *)
(* two action properties.                                                  *)
(*                                                                         *)
(* None is inductive.  dedie_arme is only the truth about the BSP between  *)
(* two records of the tap: Frontiere says what an unread record may have   *)
(* moved behind montant.c's back, according to its kind.  MobileServi      *)
(* rests on Suivi, which says what montant.c knows of the channel in each  *)
(* mode of the firmware, and what is still in the two files.               *)
(***************************************************************************)
EXTENDS Canal, TLAPS

-----------------------------------------------------------------------------
(* Invariants.                                                             *)

\* The channel the firmware is on belongs to the cell.
FwSitue ==
  /\ fw.mode = "sdcch" => fw.tn \in TnSdcch
  /\ fw.mode = "tch" => fw.tn \in TnTch /\ fw.origine \in TnSdcch

\* dedie_arme agrees with the BSP, and a TCH is never played unarmed.
Accord(m) == (m.dedieArme <=> m.bsp # Ts0) /\ (m.surTch => m.dedieArme)

\* What an unread record may hide: PONT_DCCH has moved the BSP or not, and montant.c has
\* not followed; which record it can be in each mode; a block has been read by the
\* firmware only in a frame, which has read both files.
Frontiere ==
  /\ g.surTch => g.dedieArme
  /\ ~dcch.neuf \/ dcch.canal.genre = "TCH" => Accord(g)
  /\ dcch.neuf => dcch.canal # Aucun
  /\ dcch.neuf /\ dcch.canal.genre = "SDCCH" /\ g.surTch => g.bsp # Ts0
  /\ fw.bloc => ~dcch.neuf /\ ~tchCfg.neuf
  /\ fw.mode = "tch" /\ dcch.neuf => dcch.canal.genre = "TCH"
  /\ fw.mode = "sdcch" /\ dcch.neuf => dcch.canal = Sdcch(fw.tn)

InvTs0 == TypeOK /\ FwSitue /\ Frontiere /\ SynchroSurTs0

\* On an SDCCH: the tap has announced it and montant.c remembers it, osmocom-bb's BSP is
\* on it or still on the TCH; the air bridge, if there, has given the TCH up, so the
\* guard of the TI firmware is over when it has sent something.
SuiviSdcch ==
  fw.mode = "sdcch" =>
    /\ ~dcch.neuf => g.sd = Sdcch(fw.tn) /\ (ici.ti \/ g.surTch \/ g.bsp = g.sd)
    /\ tchCfg.neuf => tchCfg.tn = 0 /\ ~tchCfg.clos
    /\ ici.annonce /\ g.surTch => tchCfg.neuf
    /\ ici.annonce /\ fw.montee => g.attente = 0

\* On a TCH: its announcement is in the file or in tch_tn, a BSP on a TCH is on this one,
\* no guard is running, and fait_tch only stands for this TCH.
SuiviTch ==
  fw.mode = "tch" =>
    /\ ~fw.bloc
    /\ syncDl.fait => syncDl.mis
    /\ ici.annonce =>
         /\ \/ tchCfg.neuf /\ ~tchCfg.clos /\ tchCfg.tn = fw.tn
            \/ ~tchCfg.neuf /\ g.tchTn = fw.tn
         /\ g.surTch => g.bsp = Tch(fw.tn)
         /\ g.attente = 0

Suivi ==
  /\ SuiviSdcch /\ SuiviTch
  /\ fw.bloc => ~g.surTch /\ ~syncDl.fait
  /\ tchCfg.neuf /\ ~tchCfg.clos => dcch.neuf
  /\ tchCfg.neuf => ici.annonce

InvServi == InvTs0 /\ Suivi /\ SyncAvantTrafic /\ IntervalleTch

-----------------------------------------------------------------------------
(* The channels.                                                           *)

\* The kind of a channel says which set it belongs to, and only TS0 is TS0.
LEMMA Genres ==
  /\ Ts0 \in BspPossibles /\ Aucun \notin BspPossibles /\ Ts0 \notin SdcchConnus \cup {Aucun}
  /\ \A c \in BspPossibles : c.genre \in {"TS0", "SDCCH", "TCH", "PDCH"}
  /\ \A c \in BspPossibles :
       /\ c.genre = "TS0" <=> c = Ts0
       /\ c.genre = "SDCCH" => c \in SdcchConnus
       /\ c.genre = "TCH" => c.tn \in TnTch /\ c = Tch(c.tn)
  /\ \A c \in SdcchConnus : c \in BspPossibles /\ c.genre = "SDCCH"
  /\ \A tn : /\ Tch(tn).genre = "TCH" /\ Tch(tn).tn = tn
              /\ Sdcch(tn).genre = "SDCCH" /\ Sdcch(tn).tn = tn
              /\ Pdch(tn).genre = "PDCH"
  /\ \A tn \in TnTch : Tch(tn) \in BspPossibles /\ Pdch(tn) \in BspPossibles
  /\ \A tn \in TnSdcch : Sdcch(tn) \in SdcchConnus
  /\ Ts0.genre = "TS0" /\ Aucun.genre = "aucun"
<1> USE CanalAssumption DEF Ts0, Sdcch, Tch, Pdch, Aucun
<1>1. Ts0 \in BspPossibles /\ Aucun \notin BspPossibles /\ Ts0 \notin SdcchConnus \cup {Aucun}
  BY DEF BspPossibles, SdcchConnus
<1>2. ASSUME NEW c \in BspPossibles
      PROVE  /\ c.genre \in {"TS0", "SDCCH", "TCH", "PDCH"}
             /\ c.genre = "TS0" <=> c = Ts0
             /\ c.genre = "SDCCH" => c \in SdcchConnus
             /\ c.genre = "TCH" => c.tn \in TnTch /\ c = Tch(c.tn)
  <2>1. CASE c = Ts0
    BY <2>1
  <2>2. CASE c \in SdcchConnus
    BY <2>2 DEF SdcchConnus
  <2>3. CASE \E tn \in TnTch : c = Tch(tn)
    BY <2>3
  <2>4. CASE \E tn \in TnTch : c = Pdch(tn)
    BY <2>4
  <2> QED BY <2>1, <2>2, <2>3, <2>4 DEF BspPossibles
<1>3. \A c \in SdcchConnus : c \in BspPossibles /\ c.genre = "SDCCH"
  BY DEF BspPossibles, SdcchConnus
<1>4. \A tn : /\ Tch(tn).genre = "TCH" /\ Tch(tn).tn = tn
              /\ Sdcch(tn).genre = "SDCCH" /\ Sdcch(tn).tn = tn
              /\ Pdch(tn).genre = "PDCH"
  OBVIOUS
<1>5. \A tn \in TnTch : Tch(tn) \in BspPossibles /\ Pdch(tn) \in BspPossibles
  BY DEF BspPossibles
<1>6. \A tn \in TnSdcch : Sdcch(tn) \in SdcchConnus
  BY DEF SdcchConnus
<1>7. Ts0.genre = "TS0" /\ Aucun.genre = "aucun"
  OBVIOUS
<1> HIDE DEF Ts0, Sdcch, Tch, Pdch, Aucun
<1> QED BY <1>1, <1>2, <1>3, <1>4, <1>5, <1>6, <1>7

\* A traffic channel has a timeslot other than 0.
LEMMA TchNonNul == 0 \notin TnTch
BY CanalAssumption

-----------------------------------------------------------------------------
(* The handlers of a frame, one lemma each.                                *)

LEMMA VieillirDit ==
  ASSUME NEW m \in Montant
  PROVE  /\ Vieillir(m) \in Montant
         /\ Vieillir(m).attente = 0 <=> m.attente = 0
         /\ Vieillir(m) = [m EXCEPT !.attente = Vieillir(m).attente]
BY CanalAssumption DEF Vieillir, Montant

LEMMA RelacherDit ==
  ASSUME NEW m \in Montant
  PROVE  /\ Relacher(m) \in Montant
         /\ Accord(Relacher(m)) /\ Relacher(m).bsp = Ts0 /\ ~Relacher(m).surTch
         /\ Relacher(m).sd = m.sd /\ Relacher(m).tchTn = m.tchTn
         /\ Relacher(m).attente = m.attente
BY Genres DEF Relacher, Montant, Accord

\* The SDCCH is played again if one is known, TS0 otherwise.
LEMMA RevenirDit ==
  ASSUME NEW m \in Montant
  PROVE  /\ RevenirSdcch(m) \in Montant
         /\ Accord(RevenirSdcch(m)) /\ ~RevenirSdcch(m).surTch
         /\ RevenirSdcch(m).bsp = IF m.sd = Aucun THEN Ts0 ELSE m.sd
         /\ RevenirSdcch(m).sd = m.sd /\ RevenirSdcch(m).tchTn = m.tchTn
         /\ RevenirSdcch(m).attente = m.attente
<1>1. CASE m.sd = Aucun
  BY <1>1, RelacherDit DEF RevenirSdcch
<1>2. CASE m.sd # Aucun
  BY <1>2, Genres DEF RevenirSdcch, Montant, Accord
<1> QED BY <1>1, <1>2

\* A record of the tap gives dedie_arme its truth back.
LEMMA LireDcchDit ==
  ASSUME NEW m \in Montant, NEW c \in BspPossibles,
         m.surTch => m.dedieArme,
         c.genre = "TCH" => Accord(m),
         c.genre = "SDCCH" /\ m.surTch => m.bsp # Ts0
  PROVE  /\ LireDcch(m, c) \in Montant
         /\ Accord(LireDcch(m, c))
         /\ LireDcch(m, c).surTch => m.surTch
         /\ LireDcch(m, c).attente = m.attente
         /\ c.genre = "SDCCH" => /\ LireDcch(m, c).sd = c /\ LireDcch(m, c).surTch = m.surTch
                                 /\ m.surTch \/ LireDcch(m, c).bsp = c
         /\ c.genre = "TCH" => /\ LireDcch(m, c).bsp = m.bsp /\ LireDcch(m, c).surTch = m.surTch
                               /\ m.tchTn # 0 => LireDcch(m, c).tchTn = m.tchTn
<1>1. CASE c.genre = "TS0"
  <2>1. LireDcch(m, c) = [Relacher(m) EXCEPT !.tnTchSb = 0, !.sd = Aucun]
    BY <1>1 DEF LireDcch
  <2> QED BY <1>1, <2>1, RelacherDit DEF Montant, Accord
<1>2. CASE c.genre = "SDCCH"
  BY <1>2, Genres DEF LireDcch, Montant, Accord
<1>3. CASE c.genre = "TCH"
  BY <1>3, Genres DEF LireDcch, Montant, Accord
<1>4. CASE c.genre = "PDCH"
  BY <1>4, Genres DEF LireDcch, Montant, Accord
<1> QED BY <1>1, <1>2, <1>3, <1>4, Genres

\* A record of the air bridge never puts the BSP on a TCH.
LEMMA LireTchDit ==
  ASSUME NEW m \in Montant, Accord(m), NEW r \in [tn: TnTch \cup {0}, clos: BOOLEAN, neuf: BOOLEAN]
  PROVE  /\ LireTch(m, r) \in Montant
         /\ Accord(LireTch(m, r))
         /\ LireTch(m, r).surTch => m.surTch
         /\ LireTch(m, r).attente = m.attente /\ LireTch(m, r).sd = m.sd
         /\ ~m.surTch => LireTch(m, r).bsp = m.bsp
         /\ r.clos /\ m.surTch => LireTch(m, r).bsp = Ts0
         /\ ~r.clos /\ r.tn = 0 /\ m.surTch =>
              LireTch(m, r).bsp = IF m.sd = Aucun THEN Ts0 ELSE m.sd
         /\ r.clos \/ r.tn = 0 => ~LireTch(m, r).surTch
         /\ ~r.clos /\ r.tn # 0 =>
              /\ LireTch(m, r).tchTn = r.tn
              /\ LireTch(m, r).bsp = m.bsp /\ LireTch(m, r).surTch = m.surTch
<1>1. CASE r.clos
  <2>1. CASE m.surTch
    BY <1>1, <2>1, RelacherDit DEF LireTch, Montant, Accord
  <2>2. CASE ~m.surTch
    BY <1>1, <2>2 DEF LireTch, Montant, Accord
  <2> QED BY <2>1, <2>2
<1>2. CASE ~r.clos /\ r.tn = 0
  <2> DEFINE m0 == [m EXCEPT !.tchTn = 0]
  <2>0. m0 \in Montant /\ m0.sd = m.sd /\ m0.attente = m.attente /\ m0.bsp = m.bsp
        /\ m0.surTch = m.surTch /\ m0.dedieArme = m.dedieArme
    BY DEF Montant
  <2>1. CASE m.surTch
    <3>1. LireTch(m, r) = RevenirSdcch(m0)
      BY <1>2, <2>1 DEF LireTch
    <3> HIDE DEF m0
    <3> QED BY <1>2, <2>0, <2>1, <3>1, RevenirDit
  <2>2. CASE ~m.surTch
    BY <1>2, <2>0, <2>2 DEF LireTch, Accord
  <2> QED BY <2>1, <2>2
<1>3. CASE ~r.clos /\ r.tn # 0
  BY <1>3 DEF LireTch, Montant, Accord
<1> QED BY <1>1, <1>2, <1>3

\* What a page may carry.
Pages == [d: {"sans", "rien", "bloc"} \cup TachesTch, u: BOOLEAN, md: BOOLEAN, sync: SUBSET {"ul", "dl"}]

\* The firmware posts a TCH task on a TCH only, sends on a dedicated channel only and
\* searches for sync when it says so; it reads no block on a TCH.
LEMMA PosteesDit ==
  ASSUME NEW t \in Postees,
         fw.mode \in {"veille", "synchro", "sdcch", "tch", "pdch"}
  PROVE  /\ t \in Pages
         /\ t.d \in TachesTch => fw.mode = "tch"
         /\ t.u => fw.mode \in {"sdcch", "tch"}
         /\ fw.mode = "tch" => t.d # "bloc"
         /\ fw.mode = "tch" /\ t.u => t.d \in TachesTch
         /\ t.md => fw.mode = "synchro"
         /\ "dl" \in t.sync => t.sync # {}
         /\ t = SansPage => ~t.u /\ ~t.md /\ t.d = "sans"
<1>0. \/ t = SansPage \/ t = Rien
      \/ fw.mode = "veille" /\ t = Tache("bloc", FALSE, FALSE)
      \/ fw.mode = "synchro" /\ t = Tache("rien", FALSE, TRUE)
      \/ fw.mode = "sdcch" /\ \E d \in {"rien", "bloc"}, u \in BOOLEAN : t = Tache(d, u, FALSE)
      \/ fw.mode = "tch" /\ t \in [d: TachesTch, u: BOOLEAN, md: {FALSE}, sync: Demandees]
  <2>1. CASE fw.mode = "veille"
    <3>1. Postees = {SansPage, Rien} \cup {Tache("bloc", FALSE, FALSE)}
      BY <2>1 DEF Postees, Tache
    <3> QED BY <2>1, <3>1
  <2>2. CASE fw.mode = "synchro"
    <3>1. Postees = {SansPage, Rien} \cup {Tache("rien", FALSE, TRUE)}
      BY <2>2 DEF Postees, Tache
    <3> QED BY <2>2, <3>1
  <2>3. CASE fw.mode = "sdcch"
    <3>1. Postees = {SansPage, Rien} \cup {Tache(d, u, FALSE) : d \in {"rien", "bloc"}, u \in BOOLEAN}
      BY <2>3 DEF Postees
    <3> QED BY <2>3, <3>1 DEF Tache
  <2>4. CASE fw.mode = "tch"
    <3>1. Postees = {SansPage, Rien} \cup [d: TachesTch, u: BOOLEAN, md: {FALSE}, sync: Demandees]
      BY <2>4 DEF Postees
    <3> QED BY <2>4, <3>1
  <2>5. CASE fw.mode = "pdch"
    <3>1. Postees = {SansPage, Rien} \cup {}
      BY <2>5 DEF Postees
    <3> QED BY <3>1
  <2> QED BY <2>1, <2>2, <2>3, <2>4, <2>5
<1> USE DEF Pages, TachesTch
<1>1. CASE t = SansPage
  BY <1>1 DEF SansPage, Tache
<1>6. CASE t = Rien
  BY <1>6 DEF Rien, SansPage, Tache
<1>2. CASE fw.mode = "veille" /\ t = Tache("bloc", FALSE, FALSE)
  BY <1>2 DEF Tache, SansPage
<1>3. CASE fw.mode = "synchro" /\ t = Tache("rien", FALSE, TRUE)
  BY <1>3 DEF Tache, SansPage
<1>4. CASE fw.mode = "sdcch" /\ \E d \in {"rien", "bloc"}, u \in BOOLEAN : t = Tache(d, u, FALSE)
  BY <1>4 DEF Tache, SansPage
<1>5. CASE fw.mode = "tch" /\ t \in [d: TachesTch, u: BOOLEAN, md: {FALSE}, sync: Demandees]
  <2>1. Demandees \subseteq SUBSET {"ul", "dl"}
    BY DEF Demandees
  <2>2. t.d \in TachesTch /\ t.md = FALSE /\ t.sync \in SUBSET {"ul", "dl"} /\ t.u \in BOOLEAN
    BY <1>5, <2>1
  <2>3. t = [d |-> t.d, u |-> t.u, md |-> t.md, sync |-> t.sync]
    BY <1>5
  <2>4. t \in Pages
    BY <2>2, <2>3
  <2>5. t # SansPage
    BY <2>2 DEF SansPage, Tache
  <2> QED BY <1>5, <2>2, <2>4, <2>5
<1> QED BY <1>0, <1>1, <1>2, <1>3, <1>4, <1>5, <1>6

\* How the state n after the switch follows from the state m before and the task t.
Suite(m, t, n) ==
  /\ n.sd = m.sd
  /\ m.tchTn # 0 => n.tchTn = m.tchTn
  /\ t.d \notin TachesTch /\ ~m.surTch => ~n.surTch
  /\ t.d = "bloc" => ~n.surTch
  /\ t.d = "bloc" /\ m.surTch => n.bsp = IF ici.ti \/ m.sd = Aucun THEN Ts0 ELSE m.sd
  /\ t.d \in TachesTch /\ ~m.surTch /\ m.tchTn # 0 => n.bsp = Tch(m.tchTn)
  /\ m.attente = 0 /\ (t.d # "bloc" \/ ~m.surTch) =>
       /\ n.attente = 0
       /\ m.surTch => n.surTch /\ n.bsp = m.bsp
  /\ ~m.surTch /\ t.d \notin TachesTch =>
       /\ ~t.u => n.bsp = m.bsp
       /\ n.bsp \in {m.bsp, IF m.sd = Aucun THEN Ts0 ELSE m.sd}
       /\ t.u => /\ n.attente = 0
                 /\ m.attente > 0 => n.bsp = IF m.sd = Aucun THEN Ts0 ELSE m.sd
  /\ m.surTch /\ ~ici.ti => n.surTch \/ n.bsp = IF m.sd = Aucun THEN Ts0 ELSE m.sd

\* The task of the firmware: to the TCH on its first task there, back on the first block.
LEMMA SuivreTacheDit ==
  ASSUME NEW m \in Montant, Accord(m), NEW t \in Pages, NEW tpu \in TnTch \cup {0}
  PROVE  /\ SuivreTache(m, t, tpu) \in Montant
         /\ Accord(SuivreTache(m, t, tpu))
         /\ Suite(m, t, SuivreTache(m, t, tpu))
<1> DEFINE tn == IF m.tchTn # 0 THEN m.tchTn ELSE tpu
<1> USE DEF TachesTch, Suite
<1>0. tn \in TnTch \cup {0} /\ m.attente \in 0 .. Garde + 2 /\ Garde \in Nat /\ m.tchTn \in TnTch \cup {0}
  BY CanalAssumption DEF Montant
<1>1. CASE t.d \in TachesTch /\ ~m.surTch /\ tn # 0
  <2>1. SuivreTache(m, t, tpu) =
          [m EXCEPT !.tchTn = tn, !.bsp = Tch(tn), !.surTch = TRUE, !.dedieArme = TRUE]
    BY <1>1 DEF SuivreTache
  <2>2. Tch(tn) \in BspPossibles /\ Tch(tn) # Ts0
    BY <1>0, <1>1, Genres
  <2> HIDE DEF tn
  <2>3. /\ SuivreTache(m, t, tpu) \in Montant /\ Accord(SuivreTache(m, t, tpu))
        /\ SuivreTache(m, t, tpu).sd = m.sd /\ SuivreTache(m, t, tpu).tchTn = tn
        /\ SuivreTache(m, t, tpu).attente = m.attente /\ SuivreTache(m, t, tpu).bsp = Tch(tn)
    BY <1>0, <1>1, <2>1, <2>2 DEF Montant, Accord
  <2>4. m.tchTn # 0 => tn = m.tchTn
    BY DEF tn
  <2> QED BY <1>1, <2>3, <2>4
<1>2. CASE t.d \in TachesTch /\ ~m.surTch /\ tn = 0
  <2>1. SuivreTache(m, t, tpu) = m /\ m.tchTn = 0
    BY <1>2, TchNonNul DEF SuivreTache
  <2> QED BY <1>2, <2>1
<1>3. CASE t.d = "bloc" /\ m.surTch /\ ~ici.ti
  <2>1. SuivreTache(m, t, tpu) = RevenirSdcch(m)
    BY <1>3 DEF SuivreTache
  <2> QED BY <1>3, <2>1, RevenirDit
<1>4. CASE t.d = "bloc" /\ m.surTch /\ ici.ti
  <2>1. SuivreTache(m, t, tpu) = [Relacher(m) EXCEPT !.attente = IF m.sd = Aucun THEN 0 ELSE 1]
    BY <1>4 DEF SuivreTache
  <2> QED BY <1>0, <1>4, <2>1, RelacherDit DEF Montant, Accord
<1>5. CASE ~(t.d \in TachesTch /\ ~m.surTch) /\ ~(t.d = "bloc" /\ m.surTch)
  <2>1. CASE m.attente > 0 /\ t.u
    <3> DEFINE m0 == [m EXCEPT !.attente = 0]
    <3>1. SuivreTache(m, t, tpu) = RevenirSdcch(m0)
      BY <1>5, <2>1 DEF SuivreTache
    <3>2. m0 \in Montant /\ m0.sd = m.sd /\ m0.tchTn = m.tchTn /\ m0.attente = 0
      BY <1>0 DEF Montant
    <3> HIDE DEF m0
    <3> QED BY <1>0, <1>5, <2>1, <3>1, <3>2, RevenirDit
  <2>2. CASE ~(m.attente > 0 /\ t.u) /\ m.attente > Garde + 1
    <3>1. SuivreTache(m, t, tpu) = [m EXCEPT !.attente = 0]
      BY <1>5, <2>2 DEF SuivreTache
    <3> QED BY <1>0, <1>5, <2>2, <3>1 DEF Montant, Accord
  <2>3. CASE ~(m.attente > 0 /\ t.u) /\ ~(m.attente > Garde + 1)
    <3>1. SuivreTache(m, t, tpu) = m
      BY <1>5, <2>3 DEF SuivreTache
    <3> QED BY <1>0, <1>5, <2>3, <3>1
  <2> QED BY <2>1, <2>2, <2>3
<1> QED BY <1>1, <1>2, <1>3, <1>4, <1>5

\* The search for sync ends on TS0.
LEMMA ChercherDit ==
  ASSUME NEW m \in Montant, Accord(m), NEW t \in Pages
  PROVE  /\ ChercherSynchro(m, t) \in Montant
         /\ Accord(ChercherSynchro(m, t))
         /\ t.md => ChercherSynchro(m, t).bsp = Ts0
         /\ ChercherSynchro(m, t).bsp \in {m.bsp, Ts0}
         /\ ChercherSynchro(m, t).surTch => m.surTch
         /\ ~t.md => ChercherSynchro(m, t) = m
<1>1. CASE t.md /\ m.dedieArme
  BY <1>1, RelacherDit DEF ChercherSynchro, Montant, Accord
<1>2. CASE ~(t.md /\ m.dedieArme)
  BY <1>2 DEF ChercherSynchro, Accord
<1> QED BY <1>1, <1>2

-----------------------------------------------------------------------------
(* One frame, handler by handler.                                          *)

\* The state of montant.c after each handler of the frame.
ApresDcch == IF dcch.neuf THEN LireDcch(Vieillir(g), dcch.canal) ELSE Vieillir(g)
ApresTch == IF tchCfg.neuf THEN LireTch(ApresDcch, tchCfg) ELSE ApresDcch
ApresTache(t, tpu) == IF t = SansPage THEN ApresTch ELSE SuivreTache(ApresTch, t, tpu)

\* A frame is its handlers, in this order, each on what the one before left.
LEMMA TrameDecrite ==
  ASSUME Trame
  PROVE  \E t \in Postees, tpu \in Tpu :
           /\ g' = ChercherSynchro(ApresTache(t, tpu), t)
           /\ tache' = t
           /\ syncDl' = SyncDl(ApresTache(t, tpu), syncDl, t)
           /\ fw' = [fw EXCEPT !.bloc = @ \/ t.d = "bloc", !.montee = @ \/ t.u]
BY DEF Trame, ApresTache, ApresTch, ApresDcch

LEMMA ApresDcchDit ==
  ASSUME TypeOK, Frontiere
  PROVE  /\ ApresDcch \in Montant /\ Accord(ApresDcch)
         /\ ApresDcch.surTch => g.surTch
         /\ ApresDcch.attente = 0 <=> g.attente = 0
         /\ dcch.neuf /\ dcch.canal.genre = "SDCCH" =>
              /\ ApresDcch.sd = dcch.canal
              /\ ApresDcch.surTch \/ ApresDcch.bsp = dcch.canal
         /\ ~dcch.neuf \/ dcch.canal.genre = "TCH" =>
              /\ ApresDcch.bsp = g.bsp /\ ApresDcch.surTch = g.surTch
              /\ g.tchTn # 0 => ApresDcch.tchTn = g.tchTn
         /\ ~dcch.neuf => ApresDcch.sd = g.sd
<1> DEFINE m == Vieillir(g)
<1>1. /\ m \in Montant
      /\ m.attente = 0 <=> g.attente = 0
      /\ m.bsp = g.bsp /\ m.sd = g.sd /\ m.tchTn = g.tchTn
      /\ m.surTch = g.surTch /\ m.dedieArme = g.dedieArme
  <2>1. g \in Montant
    BY DEF TypeOK
  <2> QED BY <2>1, VieillirDit DEF Montant
<1> HIDE DEF m
<1>2. CASE ~dcch.neuf
  <2>1. ApresDcch = m
    BY <1>2 DEF ApresDcch, m
  <2> QED BY <1>1, <1>2, <2>1 DEF Frontiere, Accord
<1>3. CASE dcch.neuf
  <2>1. ApresDcch = LireDcch(m, dcch.canal) /\ dcch.canal \in BspPossibles
    BY <1>3 DEF ApresDcch, m, TypeOK, Frontiere
  <2>2. /\ m.surTch => m.dedieArme
        /\ dcch.canal.genre = "TCH" => Accord(m)
        /\ dcch.canal.genre = "SDCCH" /\ m.surTch => m.bsp # Ts0
    BY <1>1, <1>3 DEF Frontiere, Accord
  <2> QED BY <1>1, <1>3, <2>1, <2>2, LireDcchDit
<1> QED BY <1>2, <1>3

LEMMA ApresTchDit ==
  ASSUME TypeOK, Frontiere
  PROVE  /\ ApresTch \in Montant /\ Accord(ApresTch)
         /\ ApresTch.surTch => ApresDcch.surTch
         /\ ApresTch.attente = ApresDcch.attente /\ ApresTch.sd = ApresDcch.sd
         /\ ~ApresDcch.surTch => ApresTch.bsp = ApresDcch.bsp
         /\ tchCfg.neuf /\ tchCfg.clos /\ ApresDcch.surTch => ApresTch.bsp = Ts0
         /\ tchCfg.neuf /\ ~tchCfg.clos /\ tchCfg.tn = 0 /\ ApresDcch.surTch =>
              ApresTch.bsp = IF ApresDcch.sd = Aucun THEN Ts0 ELSE ApresDcch.sd
         /\ tchCfg.neuf /\ (tchCfg.clos \/ tchCfg.tn = 0) => ~ApresTch.surTch
         /\ tchCfg.neuf /\ ~tchCfg.clos /\ tchCfg.tn # 0 =>
              /\ ApresTch.tchTn = tchCfg.tn
              /\ ApresTch.bsp = ApresDcch.bsp /\ ApresTch.surTch = ApresDcch.surTch
         /\ ~tchCfg.neuf => ApresTch = ApresDcch
<1>1. ApresDcch \in Montant /\ Accord(ApresDcch)
  BY ApresDcchDit
<1>2. CASE tchCfg.neuf
  BY <1>1, <1>2, LireTchDit DEF ApresTch, TypeOK
<1>3. CASE ~tchCfg.neuf
  BY <1>1, <1>3 DEF ApresTch
<1> QED BY <1>2, <1>3

LEMMA ApresTacheDit ==
  ASSUME TypeOK, FwSitue, Frontiere, NEW t \in Postees, NEW tpu \in Tpu
  PROVE  /\ t \in Pages /\ tpu \in TnTch \cup {0}
         /\ ApresTache(t, tpu) \in Montant /\ Accord(ApresTache(t, tpu))
         /\ Suite(ApresTch, t, ApresTache(t, tpu))
<1>1. ApresTch \in Montant /\ Accord(ApresTch)
  BY ApresTchDit
<1>2. t \in Pages
  BY PosteesDit DEF TypeOK
<1>3. tpu \in TnTch \cup {0}
  BY DEF Tpu, FwSitue
<1>4. CASE t # SansPage
  BY <1>1, <1>2, <1>3, <1>4, SuivreTacheDit DEF ApresTache
<1>5. CASE t = SansPage
  <2>1. ApresTache(t, tpu) = ApresTch /\ t.d = "sans" /\ ~t.u
    BY <1>5 DEF ApresTache, SansPage, Tache
  <2>2. Suite(ApresTch, t, ApresTch)
    BY <2>1 DEF Suite, TachesTch
  <2> QED BY <1>1, <1>2, <1>3, <2>1, <2>2
<1> QED BY <1>4, <1>5

-----------------------------------------------------------------------------
(* The types, and TS0 given back.                                          *)

LEMMA InvTs0Init == Init => InvTs0
<1> SUFFICES ASSUME Init PROVE InvTs0
  OBVIOUS
<1>1. g \in Montant /\ Accord(g) /\ ~g.surTch
  BY CanalAssumption, Genres DEF Init, Montant, Accord
<1>2. TypeOK
  BY <1>1, CanalAssumption DEF Init, TypeOK, SansPage, Tache
<1>3. FwSitue /\ Frontiere
  BY <1>1 DEF Init, FwSitue, Frontiere
<1>4. SynchroSurTs0
  BY DEF Init, SynchroSurTs0
<1> QED BY <1>2, <1>3, <1>4 DEF InvTs0

LEMMA InvTs0Trame == InvTs0 /\ Trame => InvTs0'
<1> SUFFICES ASSUME InvTs0, Trame PROVE InvTs0'
  OBVIOUS
<1>1. PICK t \in Postees, tpu \in Tpu :
        /\ g' = ChercherSynchro(ApresTache(t, tpu), t)
        /\ tache' = t
        /\ syncDl' = SyncDl(ApresTache(t, tpu), syncDl, t)
        /\ fw' = [fw EXCEPT !.bloc = @ \/ t.d = "bloc", !.montee = @ \/ t.u]
  BY TrameDecrite
<1>2. t \in Pages /\ ApresTache(t, tpu) \in Montant /\ Accord(ApresTache(t, tpu))
  BY ApresTacheDit DEF InvTs0
<1>3. g' \in Montant /\ Accord(g') /\ (t.md => g'.bsp = Ts0)
  BY <1>1, <1>2, ChercherDit
<1>4. dcch' = [dcch EXCEPT !.neuf = FALSE] /\ tchCfg' = [tchCfg EXCEPT !.neuf = FALSE]
      /\ ici' = ici /\ appels' = appels
  BY DEF Trame
<1>5. syncDl' \in [fait: BOOLEAN, page: BOOLEAN, mis: BOOLEAN]
  BY <1>1, <1>2 DEF SyncDl, InvTs0, TypeOK, Montant
<1>6. fw' \in [mode: {"veille", "synchro", "sdcch", "tch", "pdch"},
               tn: TnTch \cup TnSdcch \cup {0}, origine: TnSdcch \cup {0},
               bloc: BOOLEAN, montee: BOOLEAN]
  BY <1>1, <1>2 DEF InvTs0, TypeOK, Pages
<1>7. TypeOK'
  BY <1>1, <1>2, <1>3, <1>4, <1>5, <1>6 DEF InvTs0, TypeOK, Pages
<1>8. fw'.mode = fw.mode /\ fw'.tn = fw.tn /\ fw'.origine = fw.origine
  BY <1>1 DEF InvTs0, TypeOK
<1>9. FwSitue'
  BY <1>8 DEF InvTs0, FwSitue
<1>10. ~dcch'.neuf /\ ~tchCfg'.neuf
  BY <1>4 DEF InvTs0, TypeOK
<1>11. Frontiere'
  BY <1>3, <1>10 DEF Frontiere, Accord
<1>12. SynchroSurTs0'
  BY <1>1, <1>3 DEF SynchroSurTs0
<1> QED BY <1>7, <1>9, <1>11, <1>12 DEF InvTs0

\* The facts AllerDit gives, for a move to a known mode.
Arrive(mode, tn) ==
  /\ fw' \in [mode: {"veille", "synchro", "sdcch", "tch", "pdch"},
             tn: TnTch \cup TnSdcch \cup {0}, origine: TnSdcch \cup {0},
             bloc: BOOLEAN, montee: BOOLEAN]
  /\ fw'.mode = mode /\ fw'.tn = tn /\ ~fw'.bloc /\ ~fw'.montee
  /\ fw.mode = "sdcch" => fw'.origine = fw.tn
  /\ tache' \in Pages /\ ~tache'.md /\ ~tache'.u /\ tache'.d = "sans"
  /\ syncDl' \in [fait: BOOLEAN, page: BOOLEAN, mis: BOOLEAN]
  /\ syncDl'.fait = syncDl.fait

LEMMA AllerDit ==
  ASSUME TypeOK, FwSitue, NEW mode \in {"veille", "synchro", "sdcch", "tch", "pdch"},
         NEW tn \in TnTch \cup TnSdcch \cup {0}, Aller(mode, tn)
  PROVE  Arrive(mode, tn)
<1>1. /\ fw' = [mode |-> mode, tn |-> tn, bloc |-> FALSE, montee |-> FALSE,
               origine |-> IF fw.mode = "sdcch" THEN fw.tn ELSE 0]
      /\ tache' = [d |-> "sans", u |-> FALSE, md |-> FALSE, sync |-> {}]
      /\ syncDl' = [syncDl EXCEPT !.page = FALSE, !.mis = FALSE]
  BY DEF Aller, SansPage, Tache
<1>2. syncDl' \in [fait: BOOLEAN, page: BOOLEAN, mis: BOOLEAN] /\ syncDl'.fait = syncDl.fait
  BY <1>1 DEF TypeOK
<1>3. tache' \in Pages /\ ~tache'.md /\ ~tache'.u /\ tache'.d = "sans"
  BY <1>1 DEF Pages
<1>4. fw.mode = "sdcch" => fw.tn \in TnSdcch
  BY DEF FwSitue
<1> QED BY <1>1, <1>2, <1>3, <1>4 DEF Arrive

\* The facts TapDit gives, for a record c: the BSP may have followed, nothing else has.
Annonce(c) ==
  /\ g' \in Montant
  /\ dcch' \in [canal: BspPossibles \cup {Aucun}, neuf: BOOLEAN]
  /\ dcch'.canal = c /\ dcch'.neuf
  /\ g'.surTch = g.surTch /\ g'.dedieArme = g.dedieArme
  /\ g'.tchTn = g.tchTn /\ g'.sd = g.sd /\ g'.attente = g.attente
  /\ c.genre = "TCH" => g'.bsp = g.bsp
  /\ g'.bsp \in {g.bsp, c}

LEMMA TapDit ==
  ASSUME TypeOK, NEW c \in BspPossibles, Tap(c)
  PROVE  Annonce(c)
BY DEF TypeOK, Tap, PontDcch, Montant, Annonce

LEMMA PontDit ==
  ASSUME TypeOK, NEW tn \in TnTch \cup {0}, NEW clos \in BOOLEAN, Pont(tn, clos) \/ UNCHANGED tchCfg
  PROVE  tchCfg' \in [tn: TnTch \cup {0}, clos: BOOLEAN, neuf: BOOLEAN]
<1>1. CASE Pont(tn, clos)
  <2>1. tchCfg' = [tn |-> tn, clos |-> clos, neuf |-> TRUE]
    BY <1>1 DEF Pont
  <2> QED BY <2>1
<1>2. CASE UNCHANGED tchCfg
  BY <1>2 DEF TypeOK
<1> QED BY <1>1, <1>2

LEMMA InvTs0Next == InvTs0 /\ [Next]_vars => InvTs0'
<1> SUFFICES ASSUME InvTs0, [Next]_vars PROVE InvTs0'
  OBVIOUS
<1>0. TypeOK /\ FwSitue /\ Frontiere /\ SynchroSurTs0
  BY DEF InvTs0
<1>1. ASSUME NEW tn \in TnSdcch, EtablirSdcch(tn) PROVE InvTs0'
  <2>1. Arrive("sdcch", tn)
    BY <1>0, <1>1, AllerDit DEF EtablirSdcch
  <2>2. Sdcch(tn) \in BspPossibles /\ Sdcch(tn).genre = "SDCCH" /\ Sdcch(tn) # Ts0 /\ Sdcch(tn) # Aucun
    BY Genres
  <2>3. Annonce(Sdcch(tn))
    BY <1>0, <1>1, <2>2, TapDit DEF EtablirSdcch
  <2>4. ici' = ici /\ tchCfg' = tchCfg /\ appels' \in 0 .. MaxAppels /\ fw.bloc
    BY <1>0, <1>1, CanalAssumption DEF EtablirSdcch, TypeOK
  <2>5. TypeOK'
    BY <1>0, <2>1, <2>3, <2>4 DEF TypeOK, Arrive, Annonce, Pages
  <2>6. FwSitue' /\ SynchroSurTs0'
    BY <2>1 DEF FwSitue, SynchroSurTs0, Arrive
  <2>7. Frontiere'
    BY <1>0, <2>1, <2>2, <2>3, <2>4 DEF Frontiere, Accord, Arrive, Annonce
  <2> QED BY <2>5, <2>6, <2>7 DEF InvTs0
<1>2. ASSUME NEW tn \in TnTch, EtablirPdch(tn) PROVE InvTs0'
  <2>1. Arrive("pdch", tn)
    BY <1>0, <1>2, AllerDit DEF EtablirPdch
  <2>2. Pdch(tn) \in BspPossibles /\ Pdch(tn).genre = "PDCH" /\ Pdch(tn) # Aucun
    BY Genres
  <2>3. Annonce(Pdch(tn))
    BY <1>0, <1>2, <2>2, TapDit DEF EtablirPdch
  <2>4. ici' = ici /\ tchCfg' = tchCfg /\ appels' \in 0 .. MaxAppels
    BY <1>0, <1>2, CanalAssumption DEF EtablirPdch, TypeOK
  <2>5. TypeOK'
    BY <1>0, <2>1, <2>3, <2>4 DEF TypeOK, Arrive, Annonce, Pages
  <2>6. FwSitue' /\ SynchroSurTs0'
    BY <2>1 DEF FwSitue, SynchroSurTs0, Arrive
  <2>7. Frontiere'
    BY <1>0, <2>1, <2>2, <2>3 DEF Frontiere, Accord, Arrive, Annonce
  <2> QED BY <2>5, <2>6, <2>7 DEF InvTs0
<1>3. ASSUME NEW tn \in TnTch, Assigner(tn) PROVE InvTs0'
  <2>1. Arrive("tch", tn)
    BY <1>0, <1>3, AllerDit DEF Assigner
  <2>2. Tch(tn) \in BspPossibles /\ Tch(tn).genre = "TCH" /\ Tch(tn) # Aucun
    BY Genres
  <2>3. Annonce(Tch(tn))
    BY <1>0, <1>3, <2>2, TapDit DEF Assigner
  <2>4. ici' = ici /\ appels' \in 0 .. MaxAppels /\ fw.bloc /\ fw.mode = "sdcch"
    BY <1>0, <1>3, CanalAssumption DEF Assigner, TypeOK
  <2>5. tchCfg' \in [tn: TnTch \cup {0}, clos: BOOLEAN, neuf: BOOLEAN]
    BY <1>0, <1>3, PontDit DEF Assigner
  <2>6. TypeOK'
    BY <1>0, <2>1, <2>3, <2>4, <2>5 DEF TypeOK, Arrive, Annonce, Pages
  <2>7. FwSitue' /\ SynchroSurTs0'
    BY <1>0, <2>1, <2>4 DEF FwSitue, SynchroSurTs0, Arrive
  <2>8. Frontiere'
    BY <1>0, <2>1, <2>2, <2>3, <2>4 DEF Frontiere, Accord, Arrive, Annonce
  <2> QED BY <2>6, <2>7, <2>8 DEF InvTs0
<1>4. ASSUME Echouer PROVE InvTs0'
  <2> DEFINE c == Sdcch(fw.origine)
  <2>1. fw.mode = "tch" /\ fw.origine \in TnSdcch /\ ici' = ici /\ appels' = appels
    BY <1>0, <1>4 DEF Echouer, FwSitue
  <2>2. Arrive("sdcch", fw.origine)
    BY <1>0, <1>4, <2>1, AllerDit DEF Echouer
  <2>3. c \in BspPossibles /\ c.genre = "SDCCH" /\ c # Ts0 /\ c # Aucun
    BY <2>1, Genres
  <2>4. Annonce(c)
    BY <1>0, <1>4, <2>3, TapDit DEF Echouer
  <2>5. tchCfg' \in [tn: TnTch \cup {0}, clos: BOOLEAN, neuf: BOOLEAN]
    BY <1>0, <1>4, PontDit DEF Echouer
  <2>6. TypeOK'
    BY <1>0, <2>1, <2>2, <2>4, <2>5 DEF TypeOK, Arrive, Annonce, Pages
  <2>7. FwSitue' /\ SynchroSurTs0'
    BY <2>1, <2>2 DEF FwSitue, SynchroSurTs0, Arrive
  <2>8. g.surTch => g.bsp # Ts0
    BY <1>0, <2>1 DEF Frontiere, Accord
  <2>9. dcch'.canal = Sdcch(fw'.tn)
    BY <2>2, <2>4 DEF Arrive, Annonce
  <2> HIDE DEF c
  <2>10. Frontiere'
    BY <1>0, <2>1, <2>2, <2>3, <2>4, <2>8, <2>9 DEF Frontiere, Accord, Arrive, Annonce
  <2> QED BY <2>6, <2>7, <2>10 DEF InvTs0
<1>5. ASSUME Liberer PROVE InvTs0'
  <2>1. Arrive("veille", 0) /\ ici' = ici /\ appels' = appels
    BY <1>0, <1>5, AllerDit DEF Liberer
  <2>2. Annonce(Ts0) \/ (dcch' = dcch /\ g' = g)
    BY <1>0, <1>5, TapDit, Genres DEF Liberer
  <2>3. tchCfg' \in [tn: TnTch \cup {0}, clos: BOOLEAN, neuf: BOOLEAN]
    BY <1>0, <1>5, PontDit DEF Liberer
  <2>4. TypeOK'
    BY <1>0, <2>1, <2>2, <2>3 DEF TypeOK, Arrive, Annonce, Pages
  <2>5. FwSitue' /\ SynchroSurTs0'
    BY <2>1 DEF FwSitue, SynchroSurTs0, Arrive
  <2>6. Frontiere'
    BY <1>0, <2>1, <2>2, Genres DEF Frontiere, Accord, Arrive, Annonce
  <2> QED BY <2>4, <2>5, <2>6 DEF InvTs0
<1>6. ASSUME Synchroniser PROVE InvTs0'
  <2>1. Arrive("veille", 0) \/ Arrive("synchro", 0)
    BY <1>0, <1>6, AllerDit DEF Synchroniser
  <2>2. ici' = ici /\ g' = g /\ dcch' = dcch /\ tchCfg' = tchCfg /\ appels' = appels
    BY <1>6 DEF Synchroniser
  <2>3. TypeOK'
    BY <1>0, <2>1, <2>2 DEF TypeOK, Arrive, Pages
  <2>4. FwSitue' /\ SynchroSurTs0'
    BY <2>1 DEF FwSitue, SynchroSurTs0, Arrive
  <2>5. Frontiere'
    BY <1>0, <2>1, <2>2 DEF Frontiere, Accord, Arrive
  <2> QED BY <2>3, <2>4, <2>5 DEF InvTs0
<1>7. CASE Trame
  BY <1>7, InvTs0Trame
<1>8. CASE UNCHANGED vars
  BY <1>8 DEF vars, InvTs0, TypeOK, FwSitue, Frontiere, Accord, SynchroSurTs0
<1> QED BY <1>1, <1>2, <1>3, <1>4, <1>5, <1>6, <1>7, <1>8 DEF Next

LEMMA InvTs0Toujours == Spec => []InvTs0
BY InvTs0Init, InvTs0Next, PTL DEF Spec

\* The types of montant.c's state, of the two files and of the firmware.
THEOREM TypeCorrecte == Spec => []TypeOK
<1>1. InvTs0 => TypeOK
  BY DEF InvTs0
<1> QED BY <1>1, InvTs0Toujours, PTL

\* When the firmware searches for sync the BSP is on TS0, and dedie_arme, from which the
\* release is decided, is the truth about the BSP once the tap's record is read: whatever
\* was assigned, refused, released or missed before (montant.c, the release on FB/SB).
THEOREM Ts0RenduToujours == Spec => []Ts0Rendu
<1>1. InvTs0 => Ts0Rendu
  BY DEF InvTs0, Ts0Rendu, ArmeDitVrai, Frontiere, Accord
<1> QED BY <1>1, InvTs0Toujours, PTL

-----------------------------------------------------------------------------
(* The mobile served.                                                      *)

LEMMA InvServiInit == Init => InvServi
<1> SUFFICES ASSUME Init PROVE InvServi
  OBVIOUS
<1>1. Suivi
  BY DEF Init, Suivi, SuiviSdcch, SuiviTch
<1>2. SyncAvantTrafic /\ IntervalleTch
  BY DEF Init, SyncAvantTrafic, IntervalleTch, SansPage, Tache, TachesTch
<1> QED BY <1>1, <1>2, InvTs0Init DEF InvServi

LEMMA InvServiTrame == InvServi /\ Trame => Suivi' /\ SyncAvantTrafic' /\ IntervalleTch'
<1> SUFFICES ASSUME InvServi, Trame PROVE Suivi' /\ SyncAvantTrafic' /\ IntervalleTch'
  OBVIOUS
<1>0. TypeOK /\ FwSitue /\ Frontiere /\ Suivi
  BY DEF InvServi, InvTs0
<1>1. PICK t \in Postees, tpu \in Tpu :
        /\ g' = ChercherSynchro(ApresTache(t, tpu), t)
        /\ tache' = t
        /\ syncDl' = SyncDl(ApresTache(t, tpu), syncDl, t)
        /\ fw' = [fw EXCEPT !.bloc = @ \/ t.d = "bloc", !.montee = @ \/ t.u]
  BY TrameDecrite
<1> DEFINE m1 == ApresDcch
           m2 == ApresTch
           m3 == ApresTache(t, tpu)
<1>2. /\ m3 \in Montant /\ Accord(m3) /\ Suite(m2, t, m3) /\ t \in Pages
      /\ m1 \in Montant /\ m2 \in Montant /\ g \in Montant
  BY <1>0, ApresDcchDit, ApresTchDit, ApresTacheDit DEF TypeOK
<1>3. /\ fw'.mode = fw.mode /\ fw'.tn = fw.tn
      /\ fw'.bloc <=> fw.bloc \/ t.d = "bloc"
      /\ fw'.montee <=> fw.montee \/ t.u
      /\ ~dcch'.neuf /\ ~tchCfg'.neuf /\ tchCfg'.tn = tchCfg.tn /\ ici' = ici
  <2>1. fw \in [mode: {"veille", "synchro", "sdcch", "tch", "pdch"},
               tn: TnTch \cup TnSdcch \cup {0}, origine: TnSdcch \cup {0},
               bloc: BOOLEAN, montee: BOOLEAN]
    BY <1>0 DEF TypeOK
  <2>2. ~dcch'.neuf /\ ~tchCfg'.neuf /\ tchCfg'.tn = tchCfg.tn /\ ici' = ici
    BY <1>0 DEF TypeOK, Trame
  <2> QED BY <1>1, <2>1, <2>2
<1>4. /\ t.d \in TachesTch => fw.mode = "tch"
      /\ fw.mode = "tch" => t.d # "bloc"
      /\ t.md => fw.mode = "synchro"
      /\ "dl" \in t.sync => t.sync # {}
      /\ t.d = "tcht" => t.d \in TachesTch
      /\ "bloc" \notin TachesTch
  BY <1>0, PosteesDit DEF TypeOK, TachesTch
<1>5. /\ g'.surTch => m3.surTch
      /\ fw.mode \in {"sdcch", "tch"} => g' = m3
  BY <1>1, <1>2, <1>4, ChercherDit
<1>6. /\ m1.surTch => g.surTch
      /\ m1.attente = 0 <=> g.attente = 0
      /\ dcch.neuf /\ dcch.canal.genre = "SDCCH" =>
           m1.sd = dcch.canal /\ (m1.surTch \/ m1.bsp = dcch.canal)
      /\ ~dcch.neuf \/ dcch.canal.genre = "TCH" =>
           /\ m1.bsp = g.bsp /\ m1.surTch = g.surTch
           /\ g.tchTn # 0 => m1.tchTn = g.tchTn
      /\ ~dcch.neuf => m1.sd = g.sd
  BY <1>0, ApresDcchDit
<1>7. /\ m2.surTch => m1.surTch
      /\ m2.attente = m1.attente /\ m2.sd = m1.sd
      /\ ~m1.surTch => m2.bsp = m1.bsp
      /\ tchCfg.neuf /\ ~tchCfg.clos /\ tchCfg.tn = 0 /\ m1.surTch =>
           m2.bsp = IF m1.sd = Aucun THEN Ts0 ELSE m1.sd
      /\ tchCfg.neuf /\ (tchCfg.clos \/ tchCfg.tn = 0) => ~m2.surTch
      /\ tchCfg.neuf /\ ~tchCfg.clos /\ tchCfg.tn # 0 =>
           m2.tchTn = tchCfg.tn /\ m2.bsp = m1.bsp /\ m2.surTch = m1.surTch
      /\ ~tchCfg.neuf => m2 = m1
  BY <1>0, ApresTchDit
<1>8. /\ syncDl'.fait => (syncDl.fait /\ m3.surTch) \/ t.d = "tcht"
      /\ syncDl.mis => syncDl'.mis
      /\ t.d = "tcht" /\ ~syncDl.fait /\ "dl" \notin t.sync => syncDl'.mis
      /\ t.sync # {} => syncDl'.mis
      /\ syncDl'.fait => syncDl.fait \/ (t.d = "tcht" /\ syncDl'.mis)
  BY <1>1 DEF SyncDl
<1> HIDE DEF m1, m2, m3
<1>9. SuiviSdcch'
  <2> SUFFICES ASSUME fw.mode = "sdcch"
               PROVE  /\ g'.sd = Sdcch(fw.tn) /\ (ici.ti \/ g'.surTch \/ g'.bsp = g'.sd)
                      /\ ici.annonce => ~g'.surTch
                      /\ ici.annonce /\ fw'.montee => g'.attente = 0
    BY <1>3 DEF SuiviSdcch
  <2>0. g' = m3 /\ t.d \notin TachesTch
    BY <1>4, <1>5
  <2>1. Sdcch(fw.tn) # Aucun /\ Sdcch(fw.tn).genre = "SDCCH"
    BY <1>0, Genres DEF FwSitue
  <2>2. m1.sd = Sdcch(fw.tn) /\ (ici.ti \/ m1.surTch \/ m1.bsp = m1.sd)
    BY <1>0, <1>6, <2>1 DEF Suivi, SuiviSdcch, Frontiere
  <2>3. m2.sd = Sdcch(fw.tn) /\ (ici.ti \/ m2.surTch \/ m2.bsp = m2.sd)
    BY <1>0, <1>7, <2>1, <2>2 DEF Suivi, SuiviSdcch
  <2>4. m3.sd = Sdcch(fw.tn) /\ (ici.ti \/ m3.surTch \/ m3.bsp = m3.sd)
    BY <1>2, <2>0, <2>1, <2>3 DEF Suite
  <2>5. ici.annonce => ~m2.surTch
    BY <1>0, <1>6, <1>7 DEF Suivi, SuiviSdcch
  <2>6. ici.annonce => ~m3.surTch
    BY <1>2, <2>0, <2>5 DEF Suite
  <2>7. ASSUME ici.annonce, fw'.montee PROVE m3.attente = 0
    <3>1. CASE t.u
      BY <1>2, <2>0, <2>5, <2>7, <3>1 DEF Suite
    <3>2. CASE ~t.u
      <4>1. m2.attente = 0
        BY <1>0, <1>3, <1>6, <1>7, <2>7, <3>2 DEF Suivi, SuiviSdcch
      <4> QED BY <1>2, <2>5, <2>7, <4>1 DEF Suite
    <3> QED BY <3>1, <3>2
  <2> QED BY <2>0, <2>4, <2>6, <2>7
<1>10. ASSUME fw.mode = "tch", ici.annonce
       PROVE  /\ g'.tchTn = fw.tn /\ (g'.surTch => g'.bsp = Tch(fw.tn)) /\ g'.attente = 0
              /\ t.d \in TachesTch => g'.bsp = Tch(fw.tn)
  <2>0. g' = m3 /\ t.d # "bloc" /\ fw.tn # 0 /\ fw.tn \in TnTch
    BY <1>0, <1>4, <1>5, <1>10, TchNonNul DEF FwSitue
  <2>1. /\ \/ tchCfg.neuf /\ ~tchCfg.clos /\ tchCfg.tn = fw.tn
           \/ ~tchCfg.neuf /\ g.tchTn = fw.tn
        /\ g.surTch => g.bsp = Tch(fw.tn)
        /\ g.attente = 0
        /\ ~dcch.neuf \/ dcch.canal.genre = "TCH"
    BY <1>0, <1>10 DEF Suivi, SuiviTch, Frontiere
  <2>2. m1.surTch = g.surTch /\ m1.bsp = g.bsp /\ m1.attente = 0
        /\ (~tchCfg.neuf => m1.tchTn = fw.tn)
    BY <1>6, <2>0, <2>1
  <2>3. m2.surTch = g.surTch /\ m2.bsp = g.bsp /\ m2.attente = 0 /\ m2.tchTn = fw.tn
    BY <1>7, <2>0, <2>1, <2>2
  <2>4. m3.tchTn = fw.tn /\ m3.attente = 0
        /\ (g.surTch => m3.bsp = Tch(fw.tn))
        /\ (~g.surTch /\ t.d \in TachesTch => m3.bsp = Tch(fw.tn))
        /\ (~g.surTch /\ t.d \notin TachesTch => ~m3.surTch)
    BY <1>2, <2>0, <2>1, <2>3 DEF Suite
  <2> QED BY <2>0, <2>4
<1>11. fw.mode = "tch" => ~fw'.bloc /\ (syncDl'.fait => syncDl'.mis)
  BY <1>0, <1>3, <1>4, <1>8 DEF Suivi, SuiviTch
<1>12. SuiviTch'
  BY <1>3, <1>10, <1>11 DEF SuiviTch
<1>13. fw'.bloc => ~g'.surTch /\ ~syncDl'.fait
  <2>1. CASE t.d = "bloc"
    <3>1. ~m3.surTch /\ t.d # "tcht"
      BY <1>2, <2>1 DEF Suite
    <3> QED BY <1>5, <1>8, <3>1
  <2>2. CASE fw.bloc /\ t.d # "bloc"
    <3>1. fw.mode # "tch" /\ ~g.surTch /\ ~syncDl.fait
      BY <1>0, <2>2 DEF Suivi, SuiviTch
    <3>2. ~m2.surTch /\ t.d \notin TachesTch
      BY <1>4, <1>6, <1>7, <3>1
    <3>3. ~m3.surTch
      BY <1>2, <3>2 DEF Suite
    <3> QED BY <1>4, <1>5, <1>8, <3>1, <3>2, <3>3
  <2> QED BY <1>3, <2>1, <2>2
<1>14. Suivi'
  BY <1>3, <1>9, <1>12, <1>13 DEF Suivi
<1>15. SyncAvantTrafic'
  BY <1>0, <1>1, <1>4, <1>8 DEF SyncAvantTrafic, Suivi, SuiviTch
<1>16. IntervalleTch'
  BY <1>1, <1>3, <1>4, <1>10 DEF IntervalleTch
<1> QED BY <1>14, <1>15, <1>16

LEMMA InvServiNext == InvServi /\ [Next]_vars => InvServi'
<1> SUFFICES ASSUME InvServi, [Next]_vars PROVE InvServi'
  OBVIOUS
<1>0. TypeOK /\ FwSitue /\ Frontiere /\ Suivi /\ InvTs0'
  BY InvTs0Next DEF InvServi, InvTs0
<1>00. ASSUME NEW mode, NEW tn, Arrive(mode, tn) PROVE SyncAvantTrafic' /\ IntervalleTch'
  BY <1>00 DEF Arrive, SyncAvantTrafic, IntervalleTch, TachesTch
<1>1. ASSUME NEW tn \in TnSdcch, EtablirSdcch(tn) PROVE InvServi'
  <2>1. Arrive("sdcch", tn)
    BY <1>0, <1>1, AllerDit DEF EtablirSdcch
  <2>2. Annonce(Sdcch(tn))
    BY <1>0, <1>1, TapDit, Genres DEF EtablirSdcch
  <2>3. ici' = ici /\ tchCfg' = tchCfg /\ fw.bloc
    BY <1>1 DEF EtablirSdcch
  <2>4. Suivi'
    BY <1>0, <2>1, <2>2, <2>3 DEF Frontiere, Suivi, SuiviSdcch, SuiviTch, Arrive, Annonce
  <2> QED BY <1>0, <1>00, <2>1, <2>4 DEF InvServi
<1>2. ASSUME NEW tn \in TnTch, EtablirPdch(tn) PROVE InvServi'
  <2>1. Arrive("pdch", tn)
    BY <1>0, <1>2, AllerDit DEF EtablirPdch
  <2>2. ici' = ici /\ tchCfg' = tchCfg /\ fw.bloc
    BY <1>2 DEF EtablirPdch
  <2>3. Suivi'
    BY <1>0, <2>1, <2>2 DEF Frontiere, Suivi, SuiviSdcch, SuiviTch, Arrive
  <2> QED BY <1>0, <1>00, <2>1, <2>3 DEF InvServi
<1>3. ASSUME NEW tn \in TnTch, Assigner(tn) PROVE InvServi'
  <2>1. Arrive("tch", tn)
    BY <1>0, <1>3, AllerDit DEF Assigner
  <2>2. Annonce(Tch(tn))
    BY <1>0, <1>3, TapDit, Genres DEF Assigner
  <2>3. ici' = ici /\ fw.bloc /\ fw.montee /\ fw.mode = "sdcch"
    BY <1>3 DEF Assigner
  <2>4. IF ici.annonce THEN tchCfg'.tn = tn /\ ~tchCfg'.clos /\ tchCfg'.neuf ELSE tchCfg' = tchCfg
    BY <1>3 DEF Assigner, Pont
  <2>5. ~g.surTch /\ ~syncDl.fait /\ ~tchCfg.neuf /\ (ici.annonce => g.attente = 0)
    BY <1>0, <2>3 DEF Suivi, SuiviSdcch, Frontiere
  <2>6. Suivi'
    BY <2>1, <2>2, <2>3, <2>4, <2>5 DEF Suivi, SuiviSdcch, SuiviTch, Arrive, Annonce
  <2> QED BY <1>0, <1>00, <2>1, <2>6 DEF InvServi
<1>4. ASSUME Echouer PROVE InvServi'
  <2>1. Arrive("sdcch", fw.origine)
    BY <1>0, <1>4, AllerDit DEF Echouer, FwSitue
  <2>2. Annonce(Sdcch(fw.origine))
    BY <1>0, <1>4, TapDit, Genres DEF Echouer, FwSitue
  <2>3. ici' = ici /\ fw.mode = "tch"
    BY <1>4 DEF Echouer
  <2>4. IF ici.annonce THEN tchCfg'.tn = 0 /\ ~tchCfg'.clos /\ tchCfg'.neuf ELSE tchCfg' = tchCfg
    BY <1>4 DEF Echouer, Pont
  <2>5. Suivi'
    BY <1>0, <2>1, <2>2, <2>3, <2>4 DEF Suivi, SuiviSdcch, SuiviTch, Arrive, Annonce
  <2> QED BY <1>0, <1>00, <2>1, <2>5 DEF InvServi
<1>5. ASSUME Liberer PROVE InvServi'
  <2>1. Arrive("veille", 0)
    BY <1>0, <1>5, AllerDit DEF Liberer
  <2>2. Annonce(Ts0) \/ (dcch' = dcch /\ g' = g)
    BY <1>0, <1>5, TapDit, Genres DEF Liberer
  <2>3. ici' = ici /\ ((ici.annonce /\ tchCfg'.clos) \/ tchCfg' = tchCfg)
    BY <1>5 DEF Liberer, Pont
  <2>4. Suivi'
    BY <1>0, <2>1, <2>2, <2>3 DEF Suivi, SuiviSdcch, SuiviTch, Arrive, Annonce
  <2> QED BY <1>0, <1>00, <2>1, <2>4 DEF InvServi
<1>6. ASSUME Synchroniser PROVE InvServi'
  <2>1. Arrive("veille", 0) \/ Arrive("synchro", 0)
    BY <1>0, <1>6, AllerDit DEF Synchroniser
  <2>2. ici' = ici /\ g' = g /\ dcch' = dcch /\ tchCfg' = tchCfg
    BY <1>6 DEF Synchroniser
  <2>3. Suivi'
    BY <1>0, <2>1, <2>2 DEF Suivi, SuiviSdcch, SuiviTch, Arrive
  <2> QED BY <1>0, <1>00, <2>1, <2>3 DEF InvServi
<1>7. CASE Trame
  BY <1>0, <1>7, InvServiTrame DEF InvServi
<1>8. CASE UNCHANGED vars
  <2>1. Suivi'
    BY <1>0, <1>8 DEF vars, Suivi, SuiviSdcch, SuiviTch
  <2>2. SyncAvantTrafic' /\ IntervalleTch'
    BY <1>8 DEF vars, InvServi, SyncAvantTrafic, IntervalleTch
  <2> QED BY <1>0, <2>1, <2>2 DEF InvServi
<1> QED BY <1>1, <1>2, <1>3, <1>4, <1>5, <1>6, <1>7, <1>8 DEF Next

LEMMA InvServiToujours == Spec => []InvServi
BY InvServiInit, InvServiNext, PTL DEF Spec

\* On a dedicated channel the DSP is given what the mobile needs (montant.c:
\* suivre_tache_tch, revenir_sdcch, B_SYNC_TCH_DL): the TCH from its first task on where
\* it is announced, never without the downlink sync, and the SDCCH the firmware is on
\* when it sends there - for every installation, and not only those the run takes.
THEOREM MobileToujoursServi == Spec => MobileServi
<1>1. InvServi /\ InvServi' /\ [Next]_vars =>
        [/\ SyncAvantTrafic' /\ IntervalleTch'
         /\ fw.mode = "sdcch" /\ fw.bloc /\ tache'.u /\ (ici.ti => g.attente > 0)
            => g'.bsp = Sdcch(fw.tn)]_vars
  <2> SUFFICES ASSUME InvServi, InvServi', Next, fw.mode = "sdcch", fw.bloc, tache'.u,
                      ici.ti => g.attente > 0
               PROVE  g'.bsp = Sdcch(fw.tn)
    BY DEF InvServi
  <2>0. TypeOK /\ FwSitue /\ Frontiere /\ Suivi
    BY DEF InvServi, InvTs0
  <2>1. Trame
    <3>1. ASSUME NEW mode \in {"veille", "synchro", "sdcch", "tch", "pdch"},
                 NEW tn \in TnTch \cup TnSdcch \cup {0}, Aller(mode, tn)
          PROVE  FALSE
      BY <2>0, <3>1, AllerDit DEF Arrive
    <3>2. ~Echouer /\ ~Synchroniser /\ (\A tn \in TnSdcch : ~EtablirSdcch(tn))
          /\ (\A tn \in TnTch : ~EtablirPdch(tn))
      BY DEF Echouer, Synchroniser, EtablirSdcch, EtablirPdch
    <3>3. ~Liberer
      BY <3>1 DEF Liberer
    <3>4. \A tn \in TnTch : ~Assigner(tn)
      BY <3>1 DEF Assigner
    <3> QED BY <3>2, <3>3, <3>4 DEF Next
  <2>2. PICK t \in Postees, tpu \in Tpu :
          g' = ChercherSynchro(ApresTache(t, tpu), t) /\ tache' = t
    BY <2>1, TrameDecrite
  <2>3. /\ t \in Pages /\ t.u /\ ~t.md /\ t.d \notin TachesTch
        /\ Suite(ApresTch, t, ApresTache(t, tpu))
        /\ ApresTache(t, tpu) \in Montant /\ Accord(ApresTache(t, tpu))
    BY <2>0, <2>2, PosteesDit, ApresTacheDit DEF TypeOK
  <2>4. g' = ApresTache(t, tpu)
    BY <2>2, <2>3, ChercherDit
  <2>5. /\ ~dcch.neuf /\ ~tchCfg.neuf /\ ~g.surTch
        /\ g.sd = Sdcch(fw.tn) /\ (ici.ti \/ g.bsp = g.sd)
    BY <2>0 DEF Frontiere, Suivi, SuiviSdcch
  <2>6. /\ ApresTch.bsp = g.bsp /\ ApresTch.surTch = g.surTch /\ ApresTch.sd = g.sd
        /\ ApresTch \in Montant /\ g \in Montant
    BY <2>0, <2>5, ApresDcchDit, ApresTchDit DEF TypeOK
  <2>7. ApresTch.attente = 0 <=> g.attente = 0
    BY <2>0, <2>5, ApresDcchDit, ApresTchDit
  <2>8. ici.ti => ApresTch.attente > 0
    BY <2>6, <2>7 DEF Montant
  <2>9. Sdcch(fw.tn) # Aucun
    BY <2>0, Genres DEF FwSitue
  <2> QED BY <2>3, <2>4, <2>5, <2>6, <2>8, <2>9 DEF Suite
<1> QED BY <1>1, InvServiToujours, PTL DEF Spec, MobileServi

\* TI firmware, in idle: a block read after a call leads to TS0, where the cell is
\* listened to, and only a new record of the tap leads away from it (suivre_tache_tch).
THEOREM VeilleToujoursSurTs0 == Spec => VeilleSurTs0
<1>1. InvServi /\ [Next]_vars =>
        [/\ ici.ti /\ fw.mode = "veille" /\ fw'.mode = "veille" /\ ~dcch.neuf
         /\ g.bsp = Ts0 \/ (g.surTch /\ tache'.d = "bloc")
         => g'.bsp = Ts0]_vars
  <2> SUFFICES ASSUME InvServi, Next, ici.ti, fw.mode = "veille", fw'.mode = "veille", ~dcch.neuf,
                      g.bsp = Ts0 \/ (g.surTch /\ tache'.d = "bloc")
               PROVE  g'.bsp = Ts0
    OBVIOUS
  <2>0. TypeOK /\ FwSitue /\ Frontiere /\ Suivi
    BY DEF InvServi, InvTs0
  <2>1. Trame
    <3>1. ~Echouer /\ ~Liberer /\ (\A tn \in TnTch : ~Assigner(tn))
      BY DEF Echouer, Liberer, Assigner
    <3>2. ~Synchroniser /\ (\A tn \in TnSdcch : ~EtablirSdcch(tn))
          /\ (\A tn \in TnTch : ~EtablirPdch(tn))
      BY DEF Synchroniser, EtablirSdcch, EtablirPdch, Aller
    <3> QED BY <3>1, <3>2 DEF Next
  <2>2. PICK t \in Postees, tpu \in Tpu :
          g' = ChercherSynchro(ApresTache(t, tpu), t) /\ tache' = t
    BY <2>1, TrameDecrite
  <2>3. /\ t \in Pages /\ ~t.u /\ t.d \notin TachesTch
        /\ Suite(ApresTch, t, ApresTache(t, tpu))
        /\ ApresTache(t, tpu) \in Montant /\ Accord(ApresTache(t, tpu))
    BY <2>0, <2>2, PosteesDit, ApresTacheDit DEF TypeOK
  <2>4. g'.bsp \in {ApresTache(t, tpu).bsp, Ts0}
    BY <2>2, <2>3, ChercherDit
  <2>5. /\ ApresDcch.bsp = g.bsp /\ ApresDcch.surTch = g.surTch
        /\ tchCfg.neuf => tchCfg.clos
    BY <2>0, ApresDcchDit DEF Suivi
  <2>6. CASE g.bsp = Ts0
    <3>1. ~g.surTch
      BY <2>0, <2>6 DEF Frontiere, Accord
    <3>2. ApresTch.bsp = Ts0 /\ ~ApresTch.surTch
      BY <2>0, <2>5, <2>6, <3>1, ApresTchDit
    <3> QED BY <2>3, <2>4, <3>2 DEF Suite
  <2>7. CASE g.surTch /\ t.d = "bloc"
    <3>1. ApresTch.surTch \/ (ApresTch.bsp = Ts0 /\ ~ApresTch.surTch)
      BY <2>0, <2>5, <2>7, ApresTchDit
    <3>2. ApresTache(t, tpu).bsp = Ts0
      BY <2>3, <2>7, <3>1 DEF Suite
    <3> QED BY <2>4, <3>2
  <2> QED BY <2>2, <2>6, <2>7
<1> QED BY <1>1, InvServiToujours, PTL DEF Spec, VeilleSurTs0
=============================================================================
