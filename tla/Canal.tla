-------------------------------- MODULE Canal -------------------------------
(***************************************************************************)
(* montant.c: which timeslot the BSP plays to the DSP.  Once per frame the *)
(* bridge polls two single-slot files - the tap of QEMU on the firmware's  *)
(* channel (calypso_dcch_cfg) and the announcements of the air bridge      *)
(* (calypso_tch_cfg) -, looks at the task the firmware has posted, and     *)
(* moves the BSP between TS0, the SDCCH and the TCH.  A file only holds    *)
(* its last record: what is written twice between two polls is seen once.  *)
(*                                                                         *)
(* The environment is the firmware (what it does and the task it posts),   *)
(* the tap, which may fail to announce a release, and the air bridge,      *)
(* which announces a TCH only when it can read the ASSIGNMENT COMMAND.     *)
(* MONTANT_TCH_TACHE is at its default: the switch follows the tasks.      *)
(***************************************************************************)
EXTENDS Naturals

CONSTANTS
  TnTch,        \* timeslots of the traffic channels
  TnSdcch,      \* timeslots of the SDCCHs
  Installations, \* ti: MS_MAGNETITE, the TI firmware, not osmocom-bb; annonce: the air
                \* bridge reads the ASSIGNMENT COMMAND (no ciphering)
  Garde,        \* frames an uplink task is waited for after the TCH (102)
  MaxAppels     \* bound: channels assigned

ASSUME CanalAssumption ==
  /\ TnTch \subseteq 1 .. 7 /\ TnSdcch \subseteq 0 .. 7
  /\ Installations \subseteq [ti: BOOLEAN, annonce: BOOLEAN]
  /\ Garde \in Nat /\ MaxAppels \in Nat

VARIABLES
  ici,      \* the installation, chosen before the start
  g,        \* the static state of montant.c and the BSP's own
  dcch,     \* calypso_dcch_cfg: the last record, and whether it has been read
  tchCfg,   \* calypso_tch_cfg: the same
  fw,       \* the firmware: its mode and timeslot, the SDCCH it came from, what it
            \* has posted since it is there (a block read, an uplink task)
  tache,    \* what it posted in the last frame polled since its last move
  syncDl,   \* fait_tch; history: since the last move, a page of a TCH has been posted, one
            \* has left with B_SYNC_TCH_DL
  appels    \* bound: channels assigned so far

vars == <<ici, g, dcch, tchCfg, fw, tache, syncDl, appels>>

-----------------------------------------------------------------------------
(* Data.                                                                   *)

Ts0 == [genre |-> "TS0", tn |-> 0]
Sdcch(tn) == [genre |-> "SDCCH", tn |-> tn]
Tch(tn) == [genre |-> "TCH", tn |-> tn]
Pdch(tn) == [genre |-> "PDCH", tn |-> tn]
Aucun == [genre |-> "aucun", tn |-> 0]

SdcchConnus == {Sdcch(tn) : tn \in TnSdcch}
BspPossibles == {Ts0} \cup SdcchConnus \cup {Tch(tn) : tn \in TnTch} \cup {Pdch(tn) : tn \in TnTch}

\* What the firmware posts in a frame: d_task_d ("sans": the page carries no task, its
\* words are not read), d_task_u, an FB or SB task in d_task_md, and the bits 8 (uplink)
\* and 9 (downlink) of d_ctrl_tch, which ask for the sync of a TCH.
Tache(d, u, md) == [d |-> d, u |-> u, md |-> md, sync |-> {}]
\* TCHT; TCHA or TCHD.
TachesTch == {"tcht", "tcha"}
SansPage == Tache("sans", FALSE, FALSE)
Rien == Tache("rien", FALSE, FALSE)

Montant == [
  bsp: BspPossibles,            \* last calypso_bsp_set_dedie
  sd: SdcchConnus \cup {Aucun}, \* sd_tn, sd_genre, sd_ss; Aucun when ~sd_valide
  tchTn: TnTch \cup {0},        \* tch_tn
  surTch: BOOLEAN,              \* sur_tch
  dedieArme: BOOLEAN,           \* dedie_arme
  tnTchSb: TnTch \cup {0},      \* g_tn_tch_sb
  attente: 0 .. Garde + 2]      \* attente_ul: 0, or 1 + its age in frames (capped)

Init ==
  /\ ici \in Installations
  /\ g = [bsp |-> Ts0, sd |-> Aucun, tchTn |-> 0, surTch |-> FALSE, dedieArme |-> FALSE,
          tnTchSb |-> 0, attente |-> 0]
  /\ dcch = [canal |-> Aucun, neuf |-> FALSE]
  /\ tchCfg = [tn |-> 0, clos |-> TRUE, neuf |-> FALSE]
  /\ fw = [mode |-> "veille", tn |-> 0, origine |-> 0, bloc |-> FALSE, montee |-> FALSE]
  /\ tache = SansPage
  /\ syncDl = [fait |-> FALSE, page |-> FALSE, mis |-> FALSE]
  /\ appels = 0

-----------------------------------------------------------------------------
(* The handlers of one frame, in the order montant_scruter calls them.     *)

\* BSP back to TS0, nothing armed.
Relacher(m) == [m EXCEPT !.bsp = Ts0, !.dedieArme = FALSE, !.surTch = FALSE]

\* revenir_sdcch
RevenirSdcch(m) ==
  IF m.sd = Aucun THEN Relacher(m)
  ELSE [m EXCEPT !.surTch = FALSE, !.bsp = m.sd, !.dedieArme = TRUE]

\* A release read like an SDCCH.
LireDcch_SansFF(m, c) ==
  CASE c.genre = "PDCH" -> [m EXCEPT !.bsp = c, !.dedieArme = TRUE]
    [] c.genre = "TCH" ->
         [m EXCEPT !.tnTchSb = c.tn, !.tchTn = IF @ = 0 THEN c.tn ELSE @]
    [] c.genre \in {"TS0", "SDCCH"} ->
         IF m.surTch THEN [m EXCEPT !.tnTchSb = 0, !.sd = c]
         ELSE [m EXCEPT !.tnTchSb = 0, !.sd = c, !.bsp = c, !.dedieArme = TRUE]

\* scruter_dcch, on a record not yet seen: a PDCH is played at once; a TCH is noted,
\* and its timeslot kept if none is known; a release drops everything; an SDCCH is
\* memorised, and played unless the firmware is on the TCH.
LireDcch(m, c) ==
  CASE c.genre = "PDCH" -> [m EXCEPT !.bsp = c, !.dedieArme = TRUE]
    [] c.genre = "TCH" ->
         [m EXCEPT !.tnTchSb = c.tn, !.tchTn = IF @ = 0 THEN c.tn ELSE @]
    [] c.genre = "TS0" -> [Relacher(m) EXCEPT !.tnTchSb = 0, !.sd = Aucun]
    [] c.genre = "SDCCH" ->
         IF m.surTch THEN [m EXCEPT !.tnTchSb = 0, !.sd = c]
         ELSE [m EXCEPT !.tnTchSb = 0, !.sd = c, !.bsp = c, !.dedieArme = TRUE]

\* An announcement only fills an empty place, as the tap's does.
LireTch_Premiere(m, r) ==
  IF r.tn = 0 /\ ~m.surTch THEN m
  ELSE IF r.clos THEN Relacher(m)
  ELSE IF r.tn = 0 THEN RevenirSdcch(m)
  ELSE [m EXCEPT !.tchTn = IF @ = 0 THEN r.tn ELSE @]

\* scruter_tch, on a record not yet seen: seq 0 is the full release, a timeslot out
\* of range the bridge giving the channel up, anything else an announcement.
LireTch(m, r) ==
  IF r.clos THEN IF m.surTch THEN [Relacher(m) EXCEPT !.tchTn = 0] ELSE [m EXCEPT !.tchTn = 0]
  ELSE IF r.tn = 0
       THEN IF m.surTch THEN RevenirSdcch([m EXCEPT !.tchTn = 0]) ELSE [m EXCEPT !.tchTn = 0]
       ELSE [m EXCEPT !.tchTn = r.tn]

\* MONTANT_TI_ALLC_DIRECT for every firmware.
SuivreTache_Direct(m, t, tpu) ==
  LET tn == IF m.tchTn # 0 THEN m.tchTn ELSE tpu
  IN  IF t.d \in TachesTch /\ ~m.surTch
      THEN IF tn = 0 THEN m
           ELSE [m EXCEPT !.tchTn = tn, !.bsp = Tch(tn), !.surTch = TRUE, !.dedieArme = TRUE]
      ELSE IF t.d = "bloc" /\ m.surTch THEN RevenirSdcch(m) ELSE m

\* suivre_tache_tch, on a page that carries tasks.  tpu: the timeslot of the RX
\* window, used when nobody announced one.
SuivreTache(m, t, tpu) ==
  LET tn == IF m.tchTn # 0 THEN m.tchTn ELSE tpu
  IN  IF t.d \in TachesTch /\ ~m.surTch
      THEN IF tn = 0 THEN m
           ELSE [m EXCEPT !.tchTn = tn, !.bsp = Tch(tn), !.surTch = TRUE, !.dedieArme = TRUE]
      ELSE IF t.d = "bloc" /\ m.surTch
      THEN IF ~ici.ti THEN RevenirSdcch(m)
           ELSE [Relacher(m) EXCEPT !.attente = IF m.sd = Aucun THEN 0 ELSE 1]
      ELSE IF m.attente > 0 /\ t.u THEN RevenirSdcch([m EXCEPT !.attente = 0])
      ELSE IF m.attente > Garde + 1 THEN [m EXCEPT !.attente = 0]
      ELSE m

\* Only a TCH is left for the search.
ChercherSynchro_Tch(m, t) ==
  IF t.md /\ m.surTch THEN [Relacher(m) EXCEPT !.sd = Aucun] ELSE m

\* An FB or SB task: the mobile searches for sync on TS0, whatever the tap says.
ChercherSynchro(m, t) ==
  IF t.md /\ m.dedieArme THEN [Relacher(m) EXCEPT !.sd = Aucun] ELSE m

\* fait_tch is never reset.
SyncDl_UneFois(m, s, t) ==
  LET premier == t.d = "tcht" /\ ~s.fait /\ "dl" \notin t.sync
  IN  [s EXCEPT !.fait = @ \/ (premier /\ "ul" \notin t.sync),
                !.page = @ \/ t.d \in TachesTch, !.mis = @ \/ premier \/ t.sync # {}]

\* B_SYNC_TCH_DL, with CALYPSO_TI_SYNC_DL at its default: set on a page that asks for the
\* uplink sync alone, and on the first TCHT page of a TCH without it.
SyncDl(m, s, t) ==
  LET fait == s.fait /\ m.surTch
      premier == t.d = "tcht" /\ ~fait /\ "dl" \notin t.sync
  IN  [fait |-> fait \/ (premier /\ "ul" \notin t.sync),
       page |-> s.page \/ t.d \in TachesTch, mis |-> s.mis \/ premier \/ t.sync # {}]

-----------------------------------------------------------------------------
(* One frame.                                                              *)

\* The syncs the first page of a TCH asks for: both with osmocom-bb; the uplink's, or none,
\* with the TI firmware.
Demandees ==
  IF syncDl.page THEN {{}} ELSE IF ici.ti THEN {{}, {"ul"}} ELSE {{"ul", "dl"}}

\* What the firmware may post in each mode.
Postees ==
  {SansPage, Rien} \cup
  CASE fw.mode = "veille" -> {Tache("bloc", FALSE, FALSE)}
    [] fw.mode = "synchro" -> {Tache("rien", FALSE, TRUE)}
    [] fw.mode = "sdcch" -> {Tache(d, u, FALSE) : d \in {"rien", "bloc"}, u \in BOOLEAN}
    [] fw.mode = "tch" ->
         [d: TachesTch, u: BOOLEAN, md: {FALSE}, sync: Demandees]
    [] fw.mode = "pdch" -> {}

\* attente_fn: the age of the wait, measured against the frame number.
Vieillir(m) ==
  [m EXCEPT !.attente = IF @ = 0 \/ @ = Garde + 2 THEN @ ELSE @ + 1]

Tpu == IF fw.mode = "tch" THEN {0, fw.tn} ELSE {0}

\* montant_scruter
Trame ==
  /\ \E t \in Postees, tpu \in Tpu :
       LET m0 == Vieillir(g)
           m1 == IF dcch.neuf THEN LireDcch(m0, dcch.canal) ELSE m0
           m2 == IF tchCfg.neuf THEN LireTch(m1, tchCfg) ELSE m1
           m3 == IF t = SansPage THEN m2 ELSE SuivreTache(m2, t, tpu)
       IN  /\ g' = ChercherSynchro(m3, t)
           /\ tache' = t
           /\ syncDl' = SyncDl(m3, syncDl, t)
           /\ fw' = [fw EXCEPT !.bloc = @ \/ t.d = "bloc", !.montee = @ \/ t.u]
  /\ dcch' = [dcch EXCEPT !.neuf = FALSE]
  /\ tchCfg' = [tchCfg EXCEPT !.neuf = FALSE]
  /\ UNCHANGED <<ici, appels>>

-----------------------------------------------------------------------------
(* The environment, between two frames.                                    *)

\* case PONT_DCCH: the message that doubles the record of the tap for the kinds the bridge
\* names (an SDCCH, a PDCH, a release) moves the BSP and nothing of montant.c with it; one
\* that arrives during the wait for the GO is dropped.
PontDcch(c) ==
  \/ c.genre # "TCH" /\ g' = [g EXCEPT !.bsp = c]
  \/ UNCHANGED g

Tap(c) == dcch' = [canal |-> c, neuf |-> TRUE] /\ PontDcch(c)
Pont(tn, clos) == tchCfg' = [tn |-> tn, clos |-> clos, neuf |-> TRUE]
Aller(mode, tn) ==
  /\ fw' = [mode |-> mode, tn |-> tn, bloc |-> FALSE, montee |-> FALSE,
            origine |-> IF fw.mode = "sdcch" THEN fw.tn ELSE 0]
  /\ tache' = SansPage
  /\ syncDl' = [syncDl EXCEPT !.page = FALSE, !.mis = FALSE]

\* IMMEDIATE ASSIGNMENT of an SDCCH, or of a PDCH: read in a block of the AGCH.
EtablirSdcch(tn) ==
  /\ fw.mode = "veille" /\ fw.bloc /\ appels < MaxAppels
  /\ Aller("sdcch", tn) /\ Tap(Sdcch(tn))
  /\ appels' = appels + 1
  /\ UNCHANGED <<ici, tchCfg>>

EtablirPdch(tn) ==
  /\ fw.mode = "veille" /\ fw.bloc /\ appels < MaxAppels
  /\ Aller("pdch", tn) /\ Tap(Pdch(tn))
  /\ appels' = appels + 1
  /\ UNCHANGED <<ici, tchCfg>>

\* ASSIGNMENT COMMAND: the SDCCH has been in use both ways, the firmware goes to the TCH; the air
\* bridge has read the command first, or nobody has.
Assigner(tn) ==
  /\ fw.mode = "sdcch" /\ fw.bloc /\ fw.montee /\ appels < MaxAppels
  /\ Aller("tch", tn) /\ Tap(Tch(tn))
  /\ IF ici.annonce THEN Pont(tn, FALSE) ELSE UNCHANGED tchCfg
  /\ appels' = appels + 1
  /\ UNCHANGED ici

\* ASSIGNMENT FAILURE: back to the SDCCH, that the tap announces again.
Echouer ==
  /\ fw.mode = "tch"
  /\ Aller("sdcch", fw.origine) /\ Tap(Sdcch(fw.origine))
  /\ IF ici.annonce THEN Pont(0, FALSE) ELSE UNCHANGED tchCfg
  /\ UNCHANGED <<ici, appels>>

\* CHANNEL RELEASE: the tap may miss it; the air bridge may close its file.
Liberer ==
  /\ fw.mode \in {"sdcch", "tch", "pdch"}
  /\ Aller("veille", 0)
  /\ Tap(Ts0) \/ UNCHANGED <<dcch, g>>
  /\ (ici.annonce /\ Pont(0, TRUE)) \/ UNCHANGED tchCfg
  /\ UNCHANGED <<ici, appels>>

\* The mobile looks for a cell (again), or has found it.
Synchroniser ==
  /\ \/ fw.mode = "veille" /\ Aller("synchro", 0)
     \/ fw.mode = "synchro" /\ Aller("veille", 0)
  /\ UNCHANGED <<ici, g, dcch, tchCfg, appels>>

Next ==
  \/ Trame
  \/ \E tn \in TnSdcch : EtablirSdcch(tn)
  \/ \E tn \in TnTch : EtablirPdch(tn) \/ Assigner(tn)
  \/ Echouer \/ Liberer \/ Synchroniser

Spec == Init /\ [][Next]_vars

-----------------------------------------------------------------------------
(* Properties.                                                             *)

TypeOK ==
  /\ ici \in Installations
  /\ g \in Montant
  /\ dcch \in [canal: BspPossibles \cup {Aucun}, neuf: BOOLEAN]
  /\ tchCfg \in [tn: TnTch \cup {0}, clos: BOOLEAN, neuf: BOOLEAN]
  /\ fw \in [mode: {"veille", "synchro", "sdcch", "tch", "pdch"},
             tn: TnTch \cup TnSdcch \cup {0}, origine: TnSdcch \cup {0},
             bloc: BOOLEAN, montee: BOOLEAN]
  /\ tache \in [d: {"sans", "rien", "bloc"} \cup TachesTch, u: BOOLEAN, md: BOOLEAN,
                sync: SUBSET {"ul", "dl"}]
  /\ syncDl \in [fait: BOOLEAN, page: BOOLEAN, mis: BOOLEAN]
  /\ appels \in 0 .. MaxAppels

\* dedie_arme is the truth about the BSP: the release on an FB or SB task is decided
\* from it alone, so it may never be false while the BSP still replaces TS0.
ArmeDitVrai == ~dcch.neuf => (g.dedieArme <=> g.bsp # Ts0)

\* After a frame in which the firmware searched for sync, the BSP plays TS0, where the
\* FCCH and the SCH are: no announcement, missed or late, keeps it elsewhere.
SynchroSurTs0 == tache.md => g.bsp = Ts0

\* The two together: TS0 is given back when it is looked for.
Ts0Rendu == ArmeDitVrai /\ SynchroSurTs0

\* From the first TCH task on, the DSP receives the timeslot the firmware is on,
\* through failed assignments, missed releases and calls that follow one another,
\* where the air bridge announces it.
IntervalleTch == ici.annonce /\ tache.d \in TachesTch => g.bsp = Tch(fw.tn)

\* Traffic never starts without the downlink sync: each TCH, not only the first of the
\* process, has it at the latest on its first TCHT page, whatever the firmware asks for.
SyncAvantTrafic == tache.d = "tcht" => syncDl.mis

\* On a dedicated channel the DSP is given what the mobile needs: the downlink sync, the TCH
\* from its first TCH task on, and the SDCCH the firmware has fallen back on, or reached
\* after a call, when it sends its first block there (with the TI firmware, if it does so
\* within the guard).
MobileServi ==
  [][/\ SyncAvantTrafic' /\ IntervalleTch'
     /\ fw.mode = "sdcch" /\ fw.bloc /\ tache'.u /\ (ici.ti => g.attente > 0)
        => g'.bsp = Sdcch(fw.tn)]_vars

\* TI firmware, in idle: reading the BCCH or the paging after a call leads to TS0, and
\* nothing but a new announcement of the tap leads away from it.
VeilleSurTs0 ==
  [][/\ ici.ti /\ fw.mode = "veille" /\ fw'.mode = "veille" /\ ~dcch.neuf
     /\ g.bsp = Ts0 \/ (g.surTch /\ tache'.d = "bloc")
     => g'.bsp = Ts0]_vars
=============================================================================
