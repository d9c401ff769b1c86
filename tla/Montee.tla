-------------------------------- MODULE Montee --------------------------------
(***************************************************************************)
(* montant.c: the uplink blocks.  The firmware posts a block in one of     *)
(* three buffers of the API RAM - a_cu (SDCCH, SACCH), a_fu (FACCH), a_du  *)
(* (speech) - and raises its flag; the ROM sends the block and drops the   *)
(* flag.  The process looks twice in a frame: at the GO, before the ROM    *)
(* runs, for a_fu and a_du, and at the end of the frame for the buffer of  *)
(* the posted uplink task.  It has to publish each posting, once, although *)
(* it never touches the flag and often sees the same posting several times *)
(* and the same contents in several postings.  When the flag of a_cu is    *)
(* never seen, the contents of the buffer are published instead.           *)
(*                                                                         *)
(* The environment is the firmware and the ROM.  Settings are at their     *)
(* defaults.  Texts, logs and the conversion of speech are left out.       *)
(***************************************************************************)
EXTENDS Naturals

CONSTANTS
  Blocs,      \* contents of a block
  Vide,       \* an empty frame (UI without data)
  SansBloc,   \* what a buffer holds before its first block
  Seuil,      \* uplink tasks without a flag before the contents are looked at (400)
  Ttl,        \* frames the contents of a_cu are not published again (60)
  MaxPoses    \* bound: blocks posted

ASSUME MonteeAssumption ==
  /\ Vide \in Blocs /\ SansBloc \notin Blocs
  /\ Seuil \in Nat \ {0} /\ Ttl \in Nat \ {0} /\ MaxPoses \in Nat

Tampons == {"cu", "fu", "du"}
Contenus == Blocs \cup {SansBloc}

Installations == [romAvant: BOOLEAN, tacheVue: BOOLEAN]

\* Uplink tasks of a page: an SDCCH burst, a SACCH burst, a TCH burst.
TachesU == {"rien", "DUL", "TCHA", "TCHT"}

VARIABLES
  ici,      \* the installation: the ROM takes a_cu before the process looks (romAvant), the
            \* page shows the uplink task of an SDCCH block (tacheVue), which else comes alone
  etape,    \* of the frame: "sync" (l1_sync), "go", "rom" (phase B), "fin" (montant_scruter)
  canal,    \* the firmware's channel: "sdcch" or "tch"
  tampon,   \* buffers: flag, contents, and whether the buffer is still warm (a_cu: posted
            \* in this frame; a_fu, a_du: flag up at the last l1_sync)
  salve,    \* bursts of the block of a_cu still to come
  tacheU,   \* uplink task of the page the firmware has just posted
  tacheRom, \* uplink task the ROM executes: that of the frame before
  vu,       \* vu[] of prendre_ul
  g,        \* static state: sur_tch, blud_vu, sans_blud, sdcch_a_dernier, _dernier, and
            \* the age of sdcch_trame (capped)
  pub,      \* history: times the posting in each buffer has been published
  repris,   \* history: contents last published from a_cu for an SDCCH, their age since
            \* (capped), whether other contents were posted or a channel released since
  poses     \* bound: blocks posted so far

vars == <<ici, etape, canal, tampon, salve, tacheU, tacheRom, vu, g, pub, repris, poses>>

Init ==
  /\ ici \in Installations
  /\ etape = "sync" /\ canal = "sdcch"
  /\ tampon = [b \in Tampons |-> [blud |-> FALSE, bloc |-> SansBloc, tiede |-> FALSE]]
  /\ salve = 0 /\ tacheU = "rien" /\ tacheRom = "rien"
  /\ vu = [b \in Tampons |-> [publie |-> FALSE, contenu |-> SansBloc]]
  /\ g = [surTch |-> FALSE, bludVu |-> FALSE, sansBlud |-> 0, aDernier |-> FALSE,
          dernier |-> SansBloc, age |-> Ttl]
  /\ pub = [b \in Tampons |-> 0]
  /\ repris = [bloc |-> SansBloc, age |-> Ttl, rompu |-> FALSE]
  /\ poses = 0

-----------------------------------------------------------------------------
(* prendre_ul.                                                             *)

\* The flag alone decides.
ATaire_Jamais(b) == FALSE

\* The posting was published and its flag has not been seen down since.
ATaire(b) == vu[b].publie /\ vu[b].contenu = tampon[b].bloc

Prend(b) == tampon[b].blud /\ ~ATaire(b)

\* The flag seen down is forgotten.
Regarde_SansOubli(b) ==
  IF Prend(b) THEN [publie |-> TRUE, contenu |-> tampon[b].bloc] ELSE vu[b]

\* What prendre_ul remembers of a buffer it has looked at.
Regarde(b) ==
  IF ~tampon[b].blud THEN [vu[b] EXCEPT !.publie = FALSE]
  ELSE [publie |-> TRUE, contenu |-> tampon[b].bloc]

\* publier_l2: the seq of the record is one more, since the posting and capped here.
Publier(seq) == IF seq < 2 THEN seq + 1 ELSE 2

\* Look at the buffers of B.  What is taken from them is published.
Capter(B) ==
  /\ vu' = [b \in Tampons |-> IF b \in B THEN Regarde(b) ELSE vu[b]]
  /\ pub' = [b \in Tampons |-> IF b \in B /\ Prend(b) THEN Publier(pub[b]) ELSE pub[b]]

-----------------------------------------------------------------------------
(* The frame.                                                              *)

Refroidis ==
  [b \in Tampons |-> IF b = "cu" THEN tampon[b] ELSE [tampon[b] EXCEPT !.tiede = tampon[b].blud]]

\* A block is put into a buffer and its flag is raised.
Poser(b, bloc) ==
  /\ poses < MaxPoses
  /\ tampon' = [Refroidis EXCEPT ![b] = [blud |-> TRUE, bloc |-> bloc, tiede |-> TRUE]]
  /\ pub' = [pub EXCEPT ![b] = 0]
  /\ repris' = [repris EXCEPT !.rompu = @ \/ (b = "cu" /\ bloc # repris.bloc)]
  /\ poses' = poses + 1

NePasPoser == tampon' = Refroidis /\ UNCHANGED <<pub, repris, poses>>

\* l1_sync: a block of a_cu is four bursts, each with its task; the next one is only
\* posted after them.  On a TCH, a_fu and a_du are posted when the ROM has taken the
\* block before and a frame has gone by since (a block lasts at least four).
Synchroniser ==
  /\ etape = "sync" /\ etape' = "go"
  /\ tacheRom' = tacheU
  /\ \/ tacheU' = "rien" /\ NePasPoser /\ UNCHANGED salve
     \/ /\ salve = 0 /\ \E bloc \in Blocs : Poser("cu", bloc)
        /\ salve' = 3
        /\ tacheU' = IF canal = "tch" THEN "TCHA" ELSE IF ici.tacheVue THEN "DUL" ELSE "rien"
     \/ /\ salve > 0 /\ salve' = salve - 1
        /\ tacheU' = IF canal = "tch" THEN "TCHA" ELSE IF ici.tacheVue THEN "DUL" ELSE "rien"
        /\ NePasPoser
     \/ /\ canal = "tch" /\ tacheU' = "TCHT"
        /\ \/ NePasPoser
           \/ \E b \in {"fu", "du"}, bloc \in Blocs :
                ~tampon[b].blud /\ ~tampon[b].tiede /\ Poser(b, bloc)
        /\ UNCHANGED salve
  /\ UNCHANGED <<ici, canal, vu, g>>

\* montant_capter_fu, on a TCH.
AuGo ==
  /\ etape = "go" /\ etape' = "rom"
  /\ IF g.surTch THEN Capter({"fu", "du"}) ELSE UNCHANGED <<vu, pub>>
  /\ UNCHANGED <<ici, canal, tampon, salve, tacheU, tacheRom, g, repris, poses>>

\* The ROM executes the task of the frame before: a TCH burst may take a_fu or a_du.
\* a_cu is taken one frame after it is posted, or at once (romAvant).
Rom ==
  /\ etape = "rom" /\ etape' = "fin"
  /\ \E prises \in SUBSET (IF tacheRom = "TCHT" THEN {"fu", "du"} ELSE {}) :
       tampon' = [b \in Tampons |->
         IF b = "cu"
         THEN [tampon[b] EXCEPT !.blud = @ /\ tampon[b].tiede /\ ~ici.romAvant, !.tiede = FALSE]
         ELSE IF b \in prises THEN [tampon[b] EXCEPT !.blud = FALSE] ELSE tampon[b]]
  /\ UNCHANGED <<ici, canal, salve, tacheU, tacheRom, vu, g, pub, repris, poses>>

\* suivre_tache_tch, for what it says of sur_tch.
SurTch == IF tacheU = "TCHT" THEN {TRUE} ELSE IF canal = "sdcch" THEN {FALSE, g.surTch} ELSE {g.surTch}

Vieillir(r) == [r EXCEPT !.age = IF @ < Ttl THEN @ + 1 ELSE @]

\* publier_sdcch drops an empty frame.
Repris(bloc) ==
  repris' = IF bloc = Vide THEN Vieillir(repris)
            ELSE [bloc |-> bloc, age |-> 0, rompu |-> FALSE]

\* capture_sdcch_fenetre remembers what it publishes.
Retenir(m) == [m EXCEPT !.aDernier = TRUE, !.dernier = tampon["cu"].bloc, !.age = 0]

\* capture_sdcch_ul: the flag, or the contents when it has never been seen.
CapterSdcch(m) ==
  LET pris == Prend("cu")
      compte == IF pris \/ m.bludVu \/ m.sansBlud = Seuil THEN m.sansBlud ELSE m.sansBlud + 1
      fenetre == ~pris /\ ~m.bludVu /\ compte = Seuil /\ tampon["cu"].bloc # SansBloc
      nouveau == ~(m.aDernier /\ m.dernier = tampon["cu"].bloc /\ m.age < Ttl)
  IN  /\ Capter({"cu"})
      /\ IF fenetre /\ nouveau
         THEN /\ g' = Retenir([m EXCEPT !.sansBlud = compte])
              /\ Repris(tampon["cu"].bloc)
         ELSE /\ g' = [m EXCEPT !.sansBlud = compte, !.bludVu = @ \/ pris]
              /\ IF pris THEN Repris(tampon["cu"].bloc) ELSE repris' = Vieillir(repris)

\* capture_tch_ul: the buffers of a burst of traffic, or that of a SACCH burst.
CapterTch(m) ==
  /\ \/ tacheU = "TCHT" /\ Capter({"fu", "du"})
     \/ tacheU = "TCHA" /\ Capter({"cu"})
  /\ g' = m /\ repris' = Vieillir(repris)

\* montant_scruter, from suivre_tache_tch on: the buffer of the uplink task, or a_cu
\* when a block waits there without a task.
Scruter ==
  /\ etape = "fin" /\ etape' = "sync"
  /\ \E s \in SurTch :
       LET m == Vieillir([g EXCEPT !.surTch = s])
       IN  CASE tacheU \in {"TCHT", "TCHA"} -> CapterTch(m)
             [] tacheU = "DUL" \/ (tacheU = "rien" /\ tampon["cu"].blud) -> CapterSdcch(m)
             [] OTHER -> g' = m /\ repris' = Vieillir(repris) /\ UNCHANGED <<vu, pub>>
  /\ UNCHANGED <<ici, canal, tampon, salve, tacheU, tacheRom, poses>>

\* The date of the last block is moved back instead.
Oublier_Date == [g EXCEPT !.age = @ + Ttl]

\* montant_canal_libere, and publier_rach: the memory of the contents starts again.
Oublier == [g EXCEPT !.aDernier = FALSE]

\* The firmware changes channel once its blocks are sent; the release is announced.
Changer ==
  /\ etape = "sync" /\ salve = 0 /\ tacheU = "rien"
  /\ \A b \in Tampons : ~tampon[b].blud
  /\ canal' \in {"sdcch", "tch"}
  /\ g' = Oublier
  /\ repris' = [repris EXCEPT !.rompu = TRUE]
  /\ UNCHANGED <<ici, etape, tampon, salve, tacheU, tacheRom, vu, pub, poses>>

Next == Synchroniser \/ AuGo \/ Rom \/ Scruter \/ Changer

Spec == Init /\ [][Next]_vars

-----------------------------------------------------------------------------
(* Properties.                                                             *)

TypeOK ==
  /\ ici \in Installations
  /\ etape \in {"sync", "go", "rom", "fin"} /\ canal \in {"sdcch", "tch"}
  /\ tampon \in [Tampons -> [blud: BOOLEAN, bloc: Contenus, tiede: BOOLEAN]]
  /\ salve \in 0 .. 3 /\ tacheU \in TachesU /\ tacheRom \in TachesU
  /\ vu \in [Tampons -> [publie: BOOLEAN, contenu: Contenus]]
  /\ g \in [surTch: BOOLEAN, bludVu: BOOLEAN, sansBlud: 0 .. Seuil, aDernier: BOOLEAN,
            dernier: Contenus, age: 0 .. Ttl]
  /\ pub \in [Tampons -> 0 .. 2]
  /\ repris \in [bloc: Contenus, age: 0 .. Ttl, rompu: BOOLEAN]
  /\ poses \in 0 .. MaxPoses

\* A posting is published once: the end of the frame does not publish again what the
\* GO has, nor a frame what the one before has, while the ROM keeps the flag up.
UneSeuleFois == \A b \in Tampons : pub[b] <= 1

\* The ROM never takes a block that was not published, with the contents of the last
\* posting or not: no FACCH, no speech and no SACCH is lost on its way to the bridge,
\* where its task is seen and the ROM does not come before any look.
PriseParLaRom(b) == etape = "rom" /\ tampon[b].blud /\ ~tampon'[b].blud
Visible(b) == b # "cu" \/ (ici.tacheVue /\ ~ici.romAvant)
PosePubliee == \A b \in Tampons : PriseParLaRom(b) /\ Visible(b) => pub[b] = 1

Publie(bloc) == etape = "fin" /\ repris'.age = 0 /\ repris'.bloc = bloc

\* When the flag is not seen, the same contents leave once while they stay in the
\* buffer, posted again or not, and leave again after Ttl frames, after other contents
\* or in a new connection.
SansDoublon ==
  ici.romAvant /\ Publie(repris.bloc) /\ ~repris.rompu => repris.age + 1 >= Ttl

\* The two together: every block leaves, and none twice.
ToutUneFois == [][PosePubliee /\ SansDoublon]_vars
=============================================================================
