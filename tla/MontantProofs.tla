--------------------------- MODULE MontantProofs ----------------------------
(***************************************************************************)
(* Proofs about two parts of montant.c that run in the same frame and      *)
(* share nothing: the uplink blocks (Montee), for every set of contents,   *)
(* every threshold and every time to live, and the key of the air bridge   *)
(* (Cle), for every period, every grace and every set of keys.             *)
(*                                                                         *)
(* Montee.  The process sees a flag three or four frames in a block at     *)
(* most: what makes one look enough is where it falls in the frame.  The   *)
(* inductive invariant says, for a_fu and a_du, that the look of the GO    *)
(* comes before the ROM may take a posting (Voie); for a_cu, that the look *)
(* of the end of the first frame comes before the flag falls, and the next *)
(* posting after it was seen down (Rafale); and for a ROM that takes a_cu  *)
(* before any look, that the memory of the contents is that of what left   *)
(* (Oubli).                                                                *)
(*                                                                         *)
(* Cle.  CleAJour is not inductive: that a value which has stood for a     *)
(* period is in the file follows from how long publier_kc may let it wait, *)
(* which one of two counters measures - `clair' while a grace runs, `tick' *)
(* otherwise (Retard).  The grace is only whole if `clair' holds no frame  *)
(* of an earlier gap (Reprise).                                            *)
(***************************************************************************)
EXTENDS Montee, Cle, TLAPS

-----------------------------------------------------------------------------
(* Montee. Invariants.                                                     *)

Publies == [publie: BOOLEAN, contenu: Contenus]
Etats == [surTch: BOOLEAN, bludVu: BOOLEAN, sansBlud: 0 .. Seuil, aDernier: BOOLEAN,
          dernier: Contenus, age: 0 .. Ttl]
Cellules == [blud: BOOLEAN, bloc: Contenus, tiede: BOOLEAN]
Reprises == [bloc: Contenus, age: 0 .. Ttl, rompu: BOOLEAN]

\* A posting is published at most once, and what was published is remembered as long
\* as the flag is up.
Vus == \A b \in Tampons :
         pub[b] <= 1 /\ (pub[b] = 1 /\ tampon[b].blud => ATaire(b))

TamponsTch == {"fu", "du"}

\* a_fu and a_du: nothing in them off a TCH, nothing remembered of them once they are
\* cold, and a posting the ROM may take has been published.
VoieDe(b) ==
  /\ canal = "sdcch" => ~tampon[b].blud
  /\ vu[b].publie => g.surTch
  /\ canal = "sdcch" /\ etape \in {"rom", "fin"} => ~vu[b].publie
  /\ ~tampon[b].tiede /\ etape \in {"rom", "fin", "sync"} => ~vu[b].publie /\ ~tampon[b].blud
  /\ ~tampon[b].tiede /\ etape = "go" => ~tampon[b].blud
  /\ tampon[b].blud /\ pub[b] = 0 => ~vu[b].publie
  /\ etape = "rom" /\ tacheRom = "TCHT" /\ tampon[b].blud => pub[b] = 1

Voie ==
  /\ \A b \in TamponsTch : VoieDe(b)
  /\ etape = "sync" /\ tacheU = "TCHT" => g.surTch
  /\ etape = "go" /\ tacheRom = "TCHT" => g.surTch

\* a_cu, where the page shows the task and the ROM comes after a look: the flag is up
\* from the posting to the phase B of the next frame, the look of the end of the first
\* frame publishes, that of the second sees the flag down, and the other two bursts
\* leave the time for it.
Rafale ==
  LET c == tampon["cu"]
  IN  /\ c.tiede => etape \in {"go", "rom"} /\ c.blud /\ pub["cu"] = 0
      /\ c.blud /\ pub["cu"] = 0 =>
           /\ ~vu["cu"].publie /\ salve = 3 /\ tacheU \in {"DUL", "TCHA"}
           /\ etape # "sync" /\ (c.tiede \/ etape = "fin")
      /\ c.blud /\ pub["cu"] # 0 => vu["cu"].publie /\ etape # "fin"
      /\ vu["cu"].publie =>
           salve = 3 \/ (salve = 2 /\ etape # "sync" /\ tacheU \in {"DUL", "TCHA"})

\* a_cu, where the ROM comes first: no look sees the flag, so only contents are
\* published, and those that left last are the ones remembered until something else
\* is posted or a channel is released.
Oubli ==
  /\ etape \in {"fin", "sync"} => ~tampon["cu"].blud
  /\ ~g.bludVu
  /\ repris.bloc # SansBloc /\ ~repris.rompu =>
       /\ tampon["cu"].bloc = repris.bloc
       /\ g.aDernier /\ g.dernier = repris.bloc /\ g.age = repris.age
  /\ repris.bloc # Vide

IInv ==
  /\ TypeOK /\ Vus /\ Voie
  /\ ici.tacheVue /\ ~ici.romAvant => Rafale
  /\ ici.romAvant => Oubli

-----------------------------------------------------------------------------
(* Montee. What the operators do.                                          *)

LEMMA RegardeType ==
  ASSUME TypeOK, NEW b \in Tampons
  PROVE  Regarde(b) \in Publies
<1>1. tampon[b] \in Cellules /\ vu[b] \in Publies
  BY DEF TypeOK, Cellules, Publies
<1> QED BY <1>1 DEF Regarde, Publies, Cellules

LEMMA CapterDit ==
  ASSUME TypeOK, NEW B \in SUBSET Tampons, Capter(B)
  PROVE  /\ vu' \in [Tampons -> Publies]
         /\ pub' \in [Tampons -> 0 .. 2]
         /\ \A b \in Tampons :
              /\ vu'[b] = IF b \in B THEN Regarde(b) ELSE vu[b]
              /\ pub'[b] = IF b \in B /\ Prend(b) THEN Publier(pub[b]) ELSE pub[b]
<1>1. \A b \in Tampons : Regarde(b) \in Publies /\ vu[b] \in Publies
  BY RegardeType DEF TypeOK, Publies
<1>2. \A b \in Tampons : pub[b] \in 0 .. 2 /\ Publier(pub[b]) \in 0 .. 2
  BY DEF TypeOK, Publier
<1> QED BY <1>1, <1>2 DEF Capter


LEMMA VieillirG ==
  ASSUME NEW r \in Etats
  PROVE  /\ Vieillir(r) \in Etats
         /\ Vieillir(r).surTch = r.surTch /\ Vieillir(r).bludVu = r.bludVu
         /\ Vieillir(r).aDernier = r.aDernier /\ Vieillir(r).dernier = r.dernier
         /\ Vieillir(r).sansBlud = r.sansBlud
         /\ Vieillir(r).age = IF r.age < Ttl THEN r.age + 1 ELSE r.age
BY MonteeAssumption DEF Vieillir, Etats

LEMMA VieillirRepris ==
  ASSUME NEW r \in Reprises
  PROVE  /\ Vieillir(r) \in Reprises
         /\ Vieillir(r).bloc = r.bloc /\ Vieillir(r).rompu = r.rompu
         /\ Vieillir(r).age = IF r.age < Ttl THEN r.age + 1 ELSE r.age
         /\ Vieillir(r).age # 0
BY MonteeAssumption DEF Vieillir, Reprises

LEMMA ReprisDit ==
  ASSUME repris \in Reprises, NEW bloc \in Contenus, Repris(bloc)
  PROVE  /\ repris' \in Reprises
         /\ bloc = Vide => repris' = Vieillir(repris)
         /\ bloc # Vide => repris'.bloc = bloc /\ repris'.age = 0 /\ ~repris'.rompu
<1>1. CASE bloc = Vide
  BY <1>1, VieillirRepris DEF Repris
<1>2. CASE bloc # Vide
  BY <1>2, MonteeAssumption DEF Repris, Reprises
<1> QED BY <1>1, <1>2

\* The buffers after l1_sync, with a posting in one of them and without.
LEMMA PoserDit ==
  ASSUME TypeOK, NEW b \in Tampons, NEW bloc \in Blocs, Poser(b, bloc)
  PROVE  /\ tampon' \in [Tampons -> Cellules]
         /\ tampon'[b] = [blud |-> TRUE, bloc |-> bloc, tiede |-> TRUE]
         /\ \A x \in Tampons \ {b} :
              /\ tampon'[x].blud = tampon[x].blud /\ tampon'[x].bloc = tampon[x].bloc
              /\ tampon'[x].tiede = IF x = "cu" THEN tampon[x].tiede ELSE tampon[x].blud
         /\ pub' \in [Tampons -> 0 .. 2]
         /\ pub'[b] = 0 /\ \A x \in Tampons \ {b} : pub'[x] = pub[x]
         /\ repris' \in Reprises /\ repris'.bloc = repris.bloc /\ repris'.age = repris.age
         /\ repris'.rompu = (repris.rompu \/ (b = "cu" /\ bloc # repris.bloc))
         /\ poses' \in 0 .. MaxPoses
<1>1. \A x \in Tampons : tampon[x] \in Cellules
  BY DEF TypeOK, Cellules
<1>2. Refroidis \in [Tampons -> Cellules]
  BY <1>1 DEF Refroidis, Cellules
<1>3. \A x \in Tampons :
        /\ Refroidis[x].blud = tampon[x].blud /\ Refroidis[x].bloc = tampon[x].bloc
        /\ Refroidis[x].tiede = IF x = "cu" THEN tampon[x].tiede ELSE tampon[x].blud
  BY <1>1 DEF Refroidis, Cellules
<1>4. [blud |-> TRUE, bloc |-> bloc, tiede |-> TRUE] \in Cellules
  BY DEF Cellules, Contenus
<1>5. tampon' = [Refroidis EXCEPT ![b] = [blud |-> TRUE, bloc |-> bloc, tiede |-> TRUE]]
  BY DEF Poser
<1>6. tampon' \in [Tampons -> Cellules]
      /\ tampon'[b] = [blud |-> TRUE, bloc |-> bloc, tiede |-> TRUE]
      /\ \A x \in Tampons \ {b} : tampon'[x] = Refroidis[x]
  BY <1>2, <1>4, <1>5
<1>7. repris \in Reprises /\ repris' = [repris EXCEPT !.rompu = @ \/ (b = "cu" /\ bloc # repris.bloc)]
  BY DEF TypeOK, Poser, Reprises
<1>8. repris' \in Reprises /\ repris'.bloc = repris.bloc /\ repris'.age = repris.age
      /\ repris'.rompu = (repris.rompu \/ (b = "cu" /\ bloc # repris.bloc))
  BY <1>7 DEF Reprises
<1>9. pub' \in [Tampons -> 0 .. 2] /\ pub'[b] = 0 /\ \A x \in Tampons \ {b} : pub'[x] = pub[x]
  BY DEF TypeOK, Poser
<1>10. poses' \in 0 .. MaxPoses
  BY MonteeAssumption DEF TypeOK, Poser
<1> QED BY <1>3, <1>6, <1>8, <1>9, <1>10

LEMMA NePasPoserDit ==
  ASSUME TypeOK, NePasPoser
  PROVE  /\ tampon' \in [Tampons -> Cellules]
         /\ \A x \in Tampons :
              /\ tampon'[x].blud = tampon[x].blud /\ tampon'[x].bloc = tampon[x].bloc
              /\ tampon'[x].tiede = IF x = "cu" THEN tampon[x].tiede ELSE tampon[x].blud
         /\ pub' = pub /\ repris' = repris /\ poses' = poses
<1>1. \A x \in Tampons : tampon[x] \in Cellules
  BY DEF TypeOK, Cellules
<1>2. tampon' = Refroidis /\ pub' = pub /\ repris' = repris /\ poses' = poses
  BY DEF NePasPoser
<1>3. Refroidis \in [Tampons -> Cellules]
  BY <1>1 DEF Refroidis, Cellules
<1>4. \A x \in Tampons :
        /\ Refroidis[x].blud = tampon[x].blud /\ Refroidis[x].bloc = tampon[x].bloc
        /\ Refroidis[x].tiede = IF x = "cu" THEN tampon[x].tiede ELSE tampon[x].blud
  BY <1>1 DEF Refroidis, Cellules
<1> QED BY <1>2, <1>3, <1>4

\* Phase B of the frame.
LEMMA RomDit ==
  ASSUME TypeOK, Rom
  PROVE  /\ etape = "rom" /\ etape' = "fin"
         /\ tampon' \in [Tampons -> Cellules]
         /\ \A x \in Tampons : tampon'[x].bloc = tampon[x].bloc
         /\ tampon'["cu"].blud = (tampon["cu"].blud /\ tampon["cu"].tiede /\ ~ici.romAvant)
         /\ ~tampon'["cu"].tiede
         /\ \A x \in TamponsTch :
              /\ tampon'[x].tiede = tampon[x].tiede
              /\ tampon'[x].blud => tampon[x].blud
              /\ tampon'[x].blud # tampon[x].blud => tacheRom = "TCHT"
         /\ UNCHANGED <<ici, canal, salve, tacheU, tacheRom, vu, g, pub, repris, poses>>
<1>1. \A x \in Tampons : tampon[x] \in Cellules
  BY DEF TypeOK, Cellules
<1>2. PICK prises \in SUBSET (IF tacheRom = "TCHT" THEN {"fu", "du"} ELSE {}) :
        tampon' = [b \in Tampons |->
         IF b = "cu"
         THEN [tampon[b] EXCEPT !.blud = @ /\ tampon[b].tiede /\ ~ici.romAvant, !.tiede = FALSE]
         ELSE IF b \in prises THEN [tampon[b] EXCEPT !.blud = FALSE] ELSE tampon[b]]
  BY DEF Rom
<1>3. ici.romAvant \in BOOLEAN
  BY DEF TypeOK, Installations
<1>4. \A x \in Tampons : tampon'[x] \in Cellules /\ tampon'[x].bloc = tampon[x].bloc
  BY <1>1, <1>2, <1>3 DEF Cellules
<1>5. tampon' \in [Tampons -> Cellules]
  BY <1>2, <1>4
<1>6. tampon'["cu"].blud = (tampon["cu"].blud /\ tampon["cu"].tiede /\ ~ici.romAvant)
      /\ ~tampon'["cu"].tiede
  BY <1>1, <1>2 DEF Tampons, Cellules
<1>7. \A x \in TamponsTch :
              /\ tampon'[x].tiede = tampon[x].tiede
              /\ tampon'[x].blud => tampon[x].blud
              /\ tampon'[x].blud # tampon[x].blud => tacheRom = "TCHT"
  BY <1>1, <1>2 DEF Tampons, TamponsTch, Cellules
<1>8. /\ etape = "rom" /\ etape' = "fin"
      /\ UNCHANGED <<ici, canal, salve, tacheU, tacheRom, vu, g, pub, repris, poses>>
  BY DEF Rom
<1> QED BY <1>4, <1>5, <1>6, <1>7, <1>8

-----------------------------------------------------------------------------
(* Montee. The end of the frame.                                           *)

\* The buffers montant_scruter looks at.
Regardes ==
  IF tacheU = "TCHT" THEN TamponsTch
  ELSE IF tacheU \in {"DUL", "TCHA"} \/ tampon["cu"].blud THEN {"cu"} ELSE {}

\* The clock of the contents, and what suivre_tache_tch says.
Avance(s) == Vieillir([g EXCEPT !.surTch = s])

LEMMA AvanceDit ==
  ASSUME TypeOK, NEW s \in SurTch
  PROVE  /\ s \in BOOLEAN
         /\ Avance(s) \in Etats
         /\ Avance(s).surTch = s /\ Avance(s).bludVu = g.bludVu
         /\ Avance(s).aDernier = g.aDernier /\ Avance(s).dernier = g.dernier
         /\ Avance(s).age = IF g.age < Ttl THEN g.age + 1 ELSE g.age
<1>1. g \in Etats
  BY DEF TypeOK, Etats
<1>2. s \in BOOLEAN
  BY <1>1 DEF SurTch, Etats
<1>3. [g EXCEPT !.surTch = s] \in Etats
  BY <1>1, <1>2 DEF Etats
<1>4. LET r == [g EXCEPT !.surTch = s]
      IN  /\ r.surTch = s /\ r.bludVu = g.bludVu /\ r.aDernier = g.aDernier
          /\ r.dernier = g.dernier /\ r.age = g.age
  BY <1>1, <1>2 DEF Etats
<1> QED BY <1>2, <1>3, <1>4, VieillirG DEF Avance

\* The three ways a frame ends.
Trafic(m) ==
  tacheU \in {"TCHT", "TCHA"} /\ Capter(Regardes) /\ g' = m /\ repris' = Vieillir(repris)
Signalisation(m) ==
  (tacheU = "DUL" \/ (tacheU = "rien" /\ tampon["cu"].blud)) /\ CapterSdcch(m)
Rien(m) ==
  /\ tacheU = "rien" /\ ~tampon["cu"].blud
  /\ g' = m /\ repris' = Vieillir(repris) /\ UNCHANGED <<vu, pub>>

LEMMA ScruterCas ==
  ASSUME TypeOK, Scruter
  PROVE  \E s \in SurTch : Trafic(Avance(s)) \/ Signalisation(Avance(s)) \/ Rien(Avance(s))
<1>1. PICK s \in SurTch :
        CASE tacheU \in {"TCHT", "TCHA"} -> CapterTch(Avance(s))
          [] tacheU = "DUL" \/ (tacheU = "rien" /\ tampon["cu"].blud) -> CapterSdcch(Avance(s))
          [] OTHER -> g' = Avance(s) /\ repris' = Vieillir(repris) /\ UNCHANGED <<vu, pub>>
  BY DEF Scruter, Avance
<1>2. tacheU \in {"rien", "DUL", "TCHA", "TCHT"}
  BY DEF TypeOK, TachesU
<1>3. CASE tacheU \in {"TCHT", "TCHA"}
  <2>1. CapterTch(Avance(s))
    BY <1>1, <1>3
  <2>2. Capter(Regardes) /\ g' = Avance(s) /\ repris' = Vieillir(repris)
    BY <1>3, <2>1 DEF CapterTch, Regardes, TamponsTch
  <2> QED BY <1>3, <2>2 DEF Trafic
<1>4. CASE tacheU = "DUL" \/ (tacheU = "rien" /\ tampon["cu"].blud)
  <2>1. CapterSdcch(Avance(s))
    BY <1>1, <1>4
  <2> QED BY <1>4, <2>1 DEF Signalisation
<1>5. CASE tacheU = "rien" /\ ~tampon["cu"].blud
  <2>1. g' = Avance(s) /\ repris' = Vieillir(repris) /\ UNCHANGED <<vu, pub>>
    BY <1>1, <1>5
  <2> QED BY <1>5, <2>1 DEF Rien
<1> QED BY <1>2, <1>3, <1>4, <1>5

\* capture_sdcch_ul: it has the block and says it saw the flag, or it publishes the
\* contents and remembers them, or it publishes nothing.
LEMMA CapterSdcchDit ==
  ASSUME TypeOK, NEW m \in Etats, CapterSdcch(m)
  PROVE  /\ Capter({"cu"}) /\ g' \in Etats /\ repris' \in Reprises /\ g'.surTch = m.surTch
         /\ \/ Prend("cu")
            \/ /\ ~Prend("cu") /\ g'.bludVu = m.bludVu /\ g'.aDernier = TRUE
               /\ g'.dernier = tampon["cu"].bloc /\ g'.age = 0
               /\ Repris(tampon["cu"].bloc) /\ tampon["cu"].bloc # SansBloc
               /\ ~(m.aDernier /\ m.dernier = tampon["cu"].bloc /\ m.age < Ttl)
            \/ /\ ~Prend("cu") /\ g'.bludVu = m.bludVu /\ g'.aDernier = m.aDernier
               /\ g'.dernier = m.dernier /\ g'.age = m.age
               /\ repris' = Vieillir(repris)
<1> DEFINE pris == Prend("cu")
           compte == IF pris \/ m.bludVu \/ m.sansBlud = Seuil THEN m.sansBlud ELSE m.sansBlud + 1
           bloc == tampon["cu"].bloc
           fenetre == ~pris /\ ~m.bludVu /\ compte = Seuil /\ bloc # SansBloc
           nouveau == ~(m.aDernier /\ m.dernier = bloc /\ m.age < Ttl)
<1>1. tampon["cu"] \in Cellules /\ vu["cu"] \in Publies /\ repris \in Reprises
  BY DEF TypeOK, Cellules, Publies, Reprises, Tampons
<1>2. pris \in BOOLEAN /\ bloc \in Contenus
  BY <1>1 DEF Prend, ATaire, Cellules, Publies
<1>3. compte \in 0 .. Seuil
  BY MonteeAssumption DEF Etats
<1>4. /\ Capter({"cu"})
      /\ IF fenetre /\ nouveau
         THEN /\ g' = Retenir([m EXCEPT !.sansBlud = compte])
              /\ Repris(bloc)
         ELSE /\ g' = [m EXCEPT !.sansBlud = compte, !.bludVu = @ \/ pris]
              /\ IF pris THEN Repris(bloc) ELSE repris' = Vieillir(repris)
  BY DEF CapterSdcch
<1>5. CASE fenetre /\ nouveau
  <2> HIDE DEF pris, compte, bloc
  <2>1. g' = Retenir([m EXCEPT !.sansBlud = compte]) /\ Repris(bloc)
    BY <1>4, <1>5
  <2>2. [m EXCEPT !.sansBlud = compte] \in Etats
        /\ [m EXCEPT !.sansBlud = compte].bludVu = m.bludVu
        /\ [m EXCEPT !.sansBlud = compte].surTch = m.surTch
    BY <1>3 DEF Etats
  <2>3. /\ g' \in Etats /\ g'.surTch = m.surTch /\ g'.bludVu = m.bludVu
        /\ g'.aDernier = TRUE /\ g'.dernier = bloc /\ g'.age = 0
    <3> DEFINE r == [m EXCEPT !.sansBlud = compte]
    <3>1. r \in Etats /\ r.bludVu = m.bludVu /\ r.surTch = m.surTch
      BY <2>2
    <3>2. g' = [r EXCEPT !.aDernier = TRUE, !.dernier = bloc, !.age = 0]
      BY <2>1 DEF Retenir, bloc
    <3>3. 0 \in 0 .. Ttl
      BY MonteeAssumption
    <3> HIDE DEF r
    <3> QED BY <1>2, <3>1, <3>2, <3>3 DEF Etats
  <2>4. repris' \in Reprises
    BY <1>1, <1>2, <2>1, ReprisDit
  <2> QED BY <1>4, <1>5, <2>1, <2>3, <2>4 DEF bloc, pris
<1>6. CASE ~(fenetre /\ nouveau)
  <2> HIDE DEF pris, compte, bloc
  <2>1. /\ g' = [m EXCEPT !.sansBlud = compte, !.bludVu = @ \/ pris]
        /\ IF pris THEN Repris(bloc) ELSE repris' = Vieillir(repris)
    BY <1>4, <1>6
  <2>2. /\ g' \in Etats /\ g'.surTch = m.surTch
        /\ g'.aDernier = m.aDernier /\ g'.dernier = m.dernier /\ g'.age = m.age
        /\ g'.bludVu = (m.bludVu \/ pris)
    BY <1>2, <1>3, <2>1 DEF Etats
  <2>3. repris' \in Reprises
    BY <1>1, <1>2, <2>1, ReprisDit, VieillirRepris
  <2>4. ~pris => g'.bludVu = m.bludVu
    BY <1>2, <2>2 DEF Etats
  <2> QED BY <1>4, <2>1, <2>2, <2>3, <2>4 DEF pris
<1> QED BY <1>5, <1>6

LEMMA ScruterDit ==
  ASSUME TypeOK, Scruter
  PROVE  /\ etape = "fin" /\ etape' = "sync"
         /\ UNCHANGED <<ici, canal, tampon, salve, tacheU, tacheRom, poses>>
         /\ Capter(Regardes) /\ Regardes \in SUBSET Tampons
         /\ g' \in Etats /\ g'.surTch \in SurTch
         /\ repris' \in Reprises
<1>1. PICK s \in SurTch : Trafic(Avance(s)) \/ Signalisation(Avance(s)) \/ Rien(Avance(s))
  BY ScruterCas
<1>2. Avance(s) \in Etats /\ Avance(s).surTch = s
  BY AvanceDit
<1>3. repris \in Reprises /\ vu \in [Tampons -> Publies] /\ pub \in [Tampons -> 0 .. 2]
  BY DEF TypeOK, Reprises, Publies
<1>4. Capter(Regardes) /\ g' \in Etats /\ g'.surTch = s /\ repris' \in Reprises
  <2>1. CASE Trafic(Avance(s))
    BY <1>2, <1>3, <2>1, VieillirRepris DEF Trafic
  <2>2. CASE Signalisation(Avance(s))
    <3>1. Regardes = {"cu"} /\ CapterSdcch(Avance(s))
      BY <2>2 DEF Signalisation, Regardes
    <3> QED BY <1>2, <3>1, CapterSdcchDit
  <2>3. CASE Rien(Avance(s))
    <3>1. Regardes = {} /\ g' = Avance(s) /\ repris' = Vieillir(repris) /\ vu' = vu /\ pub' = pub
      BY <2>3 DEF Rien, Regardes
    <3>2. Capter({})
      BY <1>3, <3>1 DEF Capter
    <3> QED BY <1>2, <1>3, <3>1, <3>2, VieillirRepris
  <2> QED BY <1>1, <2>1, <2>2, <2>3
<1>5. /\ etape = "fin" /\ etape' = "sync"
      /\ UNCHANGED <<ici, canal, tampon, salve, tacheU, tacheRom, poses>>
  BY DEF Scruter
<1>6. Regardes \in SUBSET Tampons
  BY DEF Regardes, TamponsTch, Tampons
<1> QED BY <1>4, <1>5, <1>6

-----------------------------------------------------------------------------
(* Montee. Types.                                                          *)

LEMMA TypeInit == Init => TypeOK
BY MonteeAssumption
   DEF Init, TypeOK, Installations, Tampons, TachesU, Contenus

LEMMA TypeSynchroniser == TypeOK /\ Synchroniser => TypeOK'
<1> SUFFICES ASSUME TypeOK, Synchroniser PROVE TypeOK'
  OBVIOUS
<1>1. etape' = "go" /\ UNCHANGED <<ici, canal, vu, g>> /\ tacheRom' = tacheU
  BY DEF Synchroniser
<1>2. salve' \in 0 .. 3 /\ tacheU' \in TachesU
  BY DEF Synchroniser, TypeOK, TachesU
<1>3. NePasPoser \/ \E b \in Tampons, bloc \in Blocs : Poser(b, bloc)
  BY DEF Synchroniser, Tampons
<1>4. /\ tampon' \in [Tampons -> Cellules] /\ pub' \in [Tampons -> 0 .. 2]
      /\ repris' \in Reprises /\ poses' \in 0 .. MaxPoses
  <2>1. CASE NePasPoser
    BY <2>1, NePasPoserDit DEF TypeOK, Reprises
  <2>2. CASE \E b \in Tampons, bloc \in Blocs : Poser(b, bloc)
    BY <2>2, PoserDit
  <2> QED BY <1>3, <2>1, <2>2
<1> QED BY <1>1, <1>2, <1>4 DEF TypeOK, Cellules, Reprises

LEMMA TypeAuGo == TypeOK /\ AuGo => TypeOK'
<1> SUFFICES ASSUME TypeOK, AuGo PROVE TypeOK'
  OBVIOUS
<1>1. /\ etape' = "rom"
      /\ UNCHANGED <<ici, canal, tampon, salve, tacheU, tacheRom, g, repris, poses>>
      /\ Capter({"fu", "du"}) \/ UNCHANGED <<vu, pub>>
  BY DEF AuGo
<1>2. vu' \in [Tampons -> Publies] /\ pub' \in [Tampons -> 0 .. 2]
  <2>1. {"fu", "du"} \in SUBSET Tampons
    BY DEF Tampons
  <2> QED BY <1>1, <2>1, CapterDit DEF TypeOK, Publies
<1> QED BY <1>1, <1>2 DEF TypeOK, Publies

LEMMA TypeRom == TypeOK /\ Rom => TypeOK'
BY RomDit DEF TypeOK, Cellules

LEMMA TypeScruter == TypeOK /\ Scruter => TypeOK'
<1> SUFFICES ASSUME TypeOK, Scruter PROVE TypeOK'
  OBVIOUS
<1>1. vu' \in [Tampons -> Publies] /\ pub' \in [Tampons -> 0 .. 2]
  BY ScruterDit, CapterDit
<1>2. /\ etape' = "sync" /\ g' \in Etats /\ repris' \in Reprises
      /\ UNCHANGED <<ici, canal, tampon, salve, tacheU, tacheRom, poses>>
  BY ScruterDit
<1> QED BY <1>1, <1>2 DEF TypeOK, Publies, Etats, Reprises

LEMMA TypeChanger == TypeOK /\ Changer => TypeOK'
<1> SUFFICES ASSUME TypeOK, Changer PROVE TypeOK'
  OBVIOUS
<1>1. g \in Etats /\ repris \in Reprises
  BY DEF TypeOK, Etats, Reprises
<1>2. g' = [g EXCEPT !.aDernier = FALSE] /\ repris' = [repris EXCEPT !.rompu = TRUE]
  BY DEF Changer, Oublier
<1>3. g' \in Etats /\ repris' \in Reprises
  BY <1>1, <1>2 DEF Etats, Reprises
<1>4. canal' \in {"sdcch", "tch"}
      /\ UNCHANGED <<ici, etape, tampon, salve, tacheU, tacheRom, vu, pub, poses>>
  BY DEF Changer
<1> QED BY <1>3, <1>4 DEF TypeOK, Etats, Reprises

LEMMA TypeNext == TypeOK /\ [Next]_vars => TypeOK'
<1> SUFFICES ASSUME TypeOK, [Next]_vars PROVE TypeOK'
  OBVIOUS
<1>1. CASE UNCHANGED vars
  BY <1>1 DEF vars, TypeOK
<1> QED
  BY <1>1, TypeSynchroniser, TypeAuGo, TypeRom, TypeScruter, TypeChanger DEF Next

\* Every variable keeps its type: the counter of the tasks without a flag stops at its
\* threshold, the age of the contents at its time to live.
THEOREM TypeCorrecte == Spec => []TypeOK
<1>1. Init => TypeOK
  BY TypeInit
<1>2. TypeOK /\ [Next]_vars => TypeOK'
  BY TypeNext
<1> QED BY <1>1, <1>2, PTL DEF Spec

-----------------------------------------------------------------------------
(* Montee. Once.                                                           *)

\* Looking at buffers, however many times, publishes a posting once.
LEMMA VusCapter ==
  ASSUME TypeOK, Vus, NEW B \in SUBSET Tampons, Capter(B), tampon' = tampon
  PROVE  Vus'
<1> SUFFICES ASSUME NEW b \in Tampons
             PROVE  pub'[b] <= 1 /\ (pub'[b] = 1 /\ tampon'[b].blud => ATaire(b)')
  BY DEF Vus
<1>1. /\ vu'[b] = IF b \in B THEN Regarde(b) ELSE vu[b]
      /\ pub'[b] = IF b \in B /\ Prend(b) THEN Publier(pub[b]) ELSE pub[b]
  BY CapterDit
<1>2. pub[b] \in 0 .. 2 /\ pub[b] <= 1 /\ (pub[b] = 1 /\ tampon[b].blud => ATaire(b))
  BY DEF TypeOK, Vus
<1>3. ATaire(b)' <=> vu'[b].publie /\ vu'[b].contenu = tampon[b].bloc
  BY DEF ATaire
<1>4. CASE b \in B /\ Prend(b)
  <2>1. pub[b] = 0
    BY <1>2, <1>4 DEF Prend
  <2>2. pub'[b] = 1
    BY <1>1, <1>4, <2>1 DEF Publier
  <2>3. vu'[b] = [publie |-> TRUE, contenu |-> tampon[b].bloc]
    BY <1>1, <1>4 DEF Regarde, Prend
  <2> QED BY <1>3, <2>2, <2>3
<1>5. CASE b \in B /\ ~Prend(b)
  <2>1. pub'[b] = pub[b]
    BY <1>1, <1>5
  <2>2. tampon[b].blud => vu'[b] = [publie |-> TRUE, contenu |-> tampon[b].bloc]
    BY <1>1, <1>5 DEF Regarde
  <2> QED BY <1>2, <1>3, <2>1, <2>2
<1>6. CASE b \notin B
  BY <1>1, <1>2, <1>3, <1>6 DEF ATaire
<1> QED BY <1>4, <1>5, <1>6

LEMMA VusSynchroniser == TypeOK /\ Vus /\ Synchroniser => Vus'
<1> SUFFICES ASSUME TypeOK, Vus, Synchroniser, NEW b \in Tampons
             PROVE  pub'[b] <= 1 /\ (pub'[b] = 1 /\ tampon'[b].blud => ATaire(b)')
  BY DEF Vus
<1>1. pub[b] <= 1 /\ (pub[b] = 1 /\ tampon[b].blud => ATaire(b)) /\ vu' = vu
  BY DEF Vus, Synchroniser
<1>2. NePasPoser \/ \E x \in Tampons, bloc \in Blocs : Poser(x, bloc)
  BY DEF Synchroniser, Tampons
<1>3. \/ pub'[b] = 0
      \/ /\ pub'[b] = pub[b] /\ tampon'[b].blud = tampon[b].blud
         /\ tampon'[b].bloc = tampon[b].bloc
  <2>1. CASE NePasPoser
    BY <2>1, NePasPoserDit
  <2>2. ASSUME NEW x \in Tampons, NEW bloc \in Blocs, Poser(x, bloc)
        PROVE  \/ pub'[b] = 0
               \/ /\ pub'[b] = pub[b] /\ tampon'[b].blud = tampon[b].blud
                  /\ tampon'[b].bloc = tampon[b].bloc
    BY <2>2, PoserDit
  <2> QED BY <1>2, <2>1, <2>2
<1> QED BY <1>1, <1>3 DEF ATaire

LEMMA VusRom == TypeOK /\ Vus /\ Rom => Vus'
<1> SUFFICES ASSUME TypeOK, Vus, Rom, NEW b \in Tampons
             PROVE  pub'[b] <= 1 /\ (pub'[b] = 1 /\ tampon'[b].blud => ATaire(b)')
  BY DEF Vus
<1>1. pub[b] <= 1 /\ (pub[b] = 1 /\ tampon[b].blud => ATaire(b))
  BY DEF Vus
<1>2. vu' = vu /\ pub' = pub /\ tampon'[b].bloc = tampon[b].bloc
  BY RomDit
<1>3. tampon'[b].blud => tampon[b].blud
  BY RomDit DEF Tampons, TamponsTch
<1> QED BY <1>1, <1>2, <1>3 DEF ATaire

LEMMA VusNext == TypeOK /\ Vus /\ [Next]_vars => Vus'
<1> SUFFICES ASSUME TypeOK, Vus, [Next]_vars PROVE Vus'
  OBVIOUS
<1>1. CASE Synchroniser
  BY <1>1, VusSynchroniser
<1>2. CASE AuGo
  <2>1. CASE Capter({"fu", "du"})
    <3>1. {"fu", "du"} \in SUBSET Tampons /\ tampon' = tampon
      BY <1>2 DEF AuGo, Tampons
    <3> QED BY <2>1, <3>1, VusCapter
  <2>2. CASE UNCHANGED <<vu, pub>>
    BY <1>2, <2>2 DEF AuGo, Vus, ATaire
  <2> QED BY <1>2, <2>1, <2>2 DEF AuGo
<1>3. CASE Rom
  BY <1>3, VusRom
<1>4. CASE Scruter
  BY <1>4, ScruterDit, VusCapter
<1>5. CASE Changer
  BY <1>5 DEF Changer, Vus, ATaire
<1>6. CASE UNCHANGED vars
  BY <1>6 DEF vars, Vus, ATaire
<1> QED BY <1>1, <1>2, <1>3, <1>4, <1>5, <1>6 DEF Next

-----------------------------------------------------------------------------
(* Montee. a_fu and a_du.                                                  *)

LEMMA VoieSynchroniser == TypeOK /\ Voie /\ Synchroniser => Voie'
<1> SUFFICES ASSUME TypeOK, Voie, Synchroniser PROVE Voie'
  OBVIOUS
<1>1. /\ etape = "sync" /\ etape' = "go" /\ tacheRom' = tacheU
      /\ UNCHANGED <<ici, canal, vu, g>>
  BY DEF Synchroniser
<1>2. ASSUME NEW b \in TamponsTch PROVE VoieDe(b)'
  <2>1. VoieDe(b) /\ b \in Tampons /\ b # "cu"
    BY DEF Voie, TamponsTch, Tampons
  <2> DEFINE Garde == /\ tampon'[b].blud = tampon[b].blud
                      /\ tampon'[b].tiede = tampon[b].blud /\ pub'[b] = pub[b]
             Nouveau == /\ canal = "tch" /\ ~tampon[b].blud /\ ~tampon[b].tiede
                        /\ tampon'[b].blud /\ tampon'[b].tiede /\ pub'[b] = 0
  <2>2. Garde \/ Nouveau
    <3>1. \/ NePasPoser
          \/ \E bloc \in Blocs : Poser("cu", bloc)
          \/ \E x \in TamponsTch, bloc \in Blocs :
               canal = "tch" /\ ~tampon[x].blud /\ ~tampon[x].tiede /\ Poser(x, bloc)
      BY DEF Synchroniser, TamponsTch
    <3>2. CASE NePasPoser
      BY <2>1, <3>2, NePasPoserDit
    <3>3. ASSUME NEW bloc \in Blocs, Poser("cu", bloc) PROVE Garde
      <4>1. "cu" \in Tampons /\ b \in Tampons \ {"cu"}
        BY <2>1 DEF Tampons
      <4> QED BY <2>1, <3>3, <4>1, PoserDit
    <3>4. ASSUME NEW x \in TamponsTch, NEW bloc \in Blocs,
                 canal = "tch", ~tampon[x].blud, ~tampon[x].tiede, Poser(x, bloc)
          PROVE  Garde \/ Nouveau
      <4>1. x \in Tampons
        BY DEF TamponsTch, Tampons
      <4>2. CASE x = b
        <5>1. tampon'[x] = [blud |-> TRUE, bloc |-> bloc, tiede |-> TRUE] /\ pub'[x] = 0
          BY <3>4, <4>1, PoserDit
        <5>2. tampon'[x].blud /\ tampon'[x].tiede
          BY <5>1
        <5> QED BY <3>4, <4>2, <5>1, <5>2, Zenon
      <4>3. CASE x # b
        <5>1. b \in Tampons \ {x}
          BY <2>1, <4>3
        <5> QED BY <2>1, <3>4, <4>1, <5>1, PoserDit
      <4> QED BY <4>2, <4>3
    <3> QED BY <3>1, <3>2, <3>3, <3>4
  <2> QED BY <1>1, <2>1, <2>2 DEF VoieDe
<1> QED BY <1>1, <1>2 DEF Voie

\* A look at a_fu or a_du leaves what it saw: nothing where the flag is down, and a
\* posting that has been published where it is up.
LEMMA RegardeTch ==
  ASSUME TypeOK, Vus, NEW b \in TamponsTch, VoieDe(b),
         NEW B \in SUBSET Tampons, b \in B, Capter(B)
  PROVE  /\ ~tampon[b].blud => ~vu'[b].publie
         /\ tampon[b].blud => pub'[b] = 1
<1>1. b \in Tampons
  BY DEF TamponsTch, Tampons
<1>2. /\ vu'[b] = Regarde(b)
      /\ pub'[b] = IF Prend(b) THEN Publier(pub[b]) ELSE pub[b]
  BY <1>1, CapterDit
<1>3. vu[b] \in Publies
  BY <1>1 DEF TypeOK, Publies
<1>4. ~tampon[b].blud => ~vu'[b].publie
  BY <1>2, <1>3 DEF Regarde, Publies
<1>5. ASSUME tampon[b].blud PROVE pub'[b] = 1
  <2>1. pub[b] \in {0, 1} /\ (pub[b] = 1 => ATaire(b)) /\ (pub[b] = 0 => ~vu[b].publie)
    BY <1>1, <1>5 DEF TypeOK, Vus, VoieDe
  <2>2. CASE pub[b] = 1
    BY <1>2, <2>1, <2>2 DEF Prend
  <2>3. CASE pub[b] = 0
    BY <1>2, <1>5, <2>1, <2>3 DEF Prend, ATaire, Publier
  <2> QED BY <2>1, <2>2, <2>3
<1> QED BY <1>4, <1>5

LEMMA VoieAuGo == TypeOK /\ Vus /\ Voie /\ AuGo => Voie'
<1> SUFFICES ASSUME TypeOK, Vus, Voie, AuGo PROVE Voie'
  OBVIOUS
<1>1. /\ etape = "go" /\ etape' = "rom"
      /\ UNCHANGED <<ici, canal, tampon, salve, tacheU, tacheRom, g, repris, poses>>
      /\ g.surTch => Capter({"fu", "du"})
      /\ ~g.surTch => UNCHANGED <<vu, pub>>
  BY DEF AuGo
<1>2. tacheRom = "TCHT" => g.surTch
  BY <1>1 DEF Voie
<1>3. ASSUME NEW b \in TamponsTch PROVE VoieDe(b)'
  <2>1. VoieDe(b)
    BY DEF Voie
  <2>2. CASE g.surTch
    <3>1. {"fu", "du"} \in SUBSET Tampons /\ b \in {"fu", "du"}
      BY DEF Tampons, TamponsTch
    <3>2. /\ ~tampon[b].blud => ~vu'[b].publie
          /\ tampon[b].blud => pub'[b] = 1
      BY <1>1, <2>1, <2>2, <3>1, RegardeTch
    <3> QED BY <1>1, <2>1, <2>2, <3>2 DEF VoieDe
  <2>3. CASE ~g.surTch
    BY <1>1, <1>2, <2>1, <2>3 DEF VoieDe
  <2> QED BY <2>2, <2>3
<1> QED BY <1>1, <1>3 DEF Voie

LEMMA VoieRom == TypeOK /\ Voie /\ Rom => Voie'
<1> SUFFICES ASSUME TypeOK, Voie, Rom PROVE Voie'
  OBVIOUS
<1>1. /\ etape = "rom" /\ etape' = "fin"
      /\ UNCHANGED <<ici, canal, salve, tacheU, tacheRom, vu, g, pub, repris, poses>>
      /\ \A x \in TamponsTch :
           tampon'[x].tiede = tampon[x].tiede /\ (tampon'[x].blud => tampon[x].blud)
  BY RomDit
<1>2. ASSUME NEW b \in TamponsTch PROVE VoieDe(b)'
  <2>1. VoieDe(b)
    BY DEF Voie
  <2> QED BY <1>1, <2>1 DEF VoieDe
<1> QED BY <1>1, <1>2 DEF Voie

LEMMA VoieScruter == TypeOK /\ Vus /\ Voie /\ Scruter => Voie'
<1> SUFFICES ASSUME TypeOK, Vus, Voie, Scruter PROVE Voie'
  OBVIOUS
<1>1. /\ etape = "fin" /\ etape' = "sync"
      /\ UNCHANGED <<ici, canal, tampon, salve, tacheU, tacheRom, poses>>
      /\ Capter(Regardes) /\ Regardes \in SUBSET Tampons /\ g'.surTch \in SurTch
  BY ScruterDit
<1>2. tacheU = "TCHT" => g'.surTch
  BY <1>1 DEF SurTch
<1>3. canal # "sdcch" /\ g.surTch => g'.surTch
  BY <1>1 DEF SurTch
<1>4. ASSUME NEW b \in TamponsTch PROVE VoieDe(b)'
  <2>1. VoieDe(b) /\ b \in Tampons /\ b # "cu"
    BY DEF Voie, TamponsTch, Tampons
  <2>2. CASE tacheU = "TCHT"
    <3>1. b \in Regardes
      BY <2>2 DEF Regardes
    <3>2. /\ ~tampon[b].blud => ~vu'[b].publie
          /\ tampon[b].blud => pub'[b] = 1
      BY <1>1, <2>1, <3>1, RegardeTch
    <3> QED BY <1>1, <1>2, <2>1, <2>2, <3>2 DEF VoieDe
  <2>3. CASE tacheU # "TCHT"
    <3>1. b \notin Regardes
      BY <2>1, <2>3 DEF Regardes
    <3>2. vu'[b] = vu[b] /\ pub'[b] = pub[b]
      BY <1>1, <2>1, <3>1, CapterDit
    <3> QED BY <1>1, <1>3, <2>1, <3>2 DEF VoieDe
  <2> QED BY <2>2, <2>3
<1> QED BY <1>1, <1>2, <1>4 DEF Voie

LEMMA VoieChanger == TypeOK /\ Voie /\ Changer => Voie'
<1> SUFFICES ASSUME TypeOK, Voie, Changer PROVE Voie'
  OBVIOUS
<1>1. /\ etape = "sync" /\ tacheU = "rien" /\ \A b \in Tampons : ~tampon[b].blud
      /\ g' = [g EXCEPT !.aDernier = FALSE]
      /\ UNCHANGED <<ici, etape, tampon, salve, tacheU, tacheRom, vu, pub, poses>>
  BY DEF Changer, Oublier
<1>2. g'.surTch = g.surTch
  BY <1>1 DEF TypeOK
<1>3. ASSUME NEW b \in TamponsTch PROVE VoieDe(b)'
  <2>1. VoieDe(b) /\ ~tampon[b].blud
    BY <1>1 DEF Voie, TamponsTch, Tampons
  <2> QED BY <1>1, <1>2, <2>1 DEF VoieDe
<1> QED BY <1>1, <1>2, <1>3 DEF Voie

LEMMA VoieNext == TypeOK /\ Vus /\ Voie /\ [Next]_vars => Voie'
<1> SUFFICES ASSUME TypeOK, Vus, Voie, [Next]_vars PROVE Voie'
  OBVIOUS
<1>1. CASE UNCHANGED vars
  BY <1>1 DEF vars, Voie, VoieDe
<1> QED
  BY <1>1, VoieSynchroniser, VoieAuGo, VoieRom, VoieScruter, VoieChanger DEF Next

-----------------------------------------------------------------------------
(* Montee. a_cu, seen.                                                     *)

\* A step that leaves a_cu alone, and what Rafale says of it.
LEMMA RafaleCu ==
  ASSUME Rafale, tampon'["cu"] = tampon["cu"], vu'["cu"] = vu["cu"], pub'["cu"] = pub["cu"],
         salve' = salve, tacheU' = tacheU,
         \/ etape' = etape
         \/ etape = "go" /\ etape' = "rom"
  PROVE  Rafale'
BY DEF Rafale

LEMMA RafaleSynchroniser ==
  ASSUME TypeOK, Rafale, Synchroniser, ici.tacheVue
  PROVE  Rafale'
<1>1. etape = "sync" /\ etape' = "go" /\ vu' = vu
  BY DEF Synchroniser
<1>2. "cu" \in Tampons /\ salve \in 0 .. 3
  BY DEF Tampons, TypeOK
<1>3. /\ ~tampon["cu"].tiede
      /\ tampon["cu"].blud => pub["cu"] # 0 /\ vu["cu"].publie
      /\ vu["cu"].publie => salve = 3
  BY <1>1 DEF Rafale
<1>4. CASE \E bloc \in Blocs : salve = 0 /\ Poser("cu", bloc) /\ salve' = 3
                               /\ tacheU' \in {"DUL", "TCHA"}
  <2>1. PICK bloc \in Blocs : salve = 0 /\ Poser("cu", bloc) /\ salve' = 3
                              /\ tacheU' \in {"DUL", "TCHA"}
    BY <1>4
  <2>2. tampon'["cu"] = [blud |-> TRUE, bloc |-> bloc, tiede |-> TRUE] /\ pub'["cu"] = 0
    BY <1>2, <2>1, PoserDit
  <2>3. tampon'["cu"].blud /\ tampon'["cu"].tiede
    BY <2>2
  <2>4. ~vu'["cu"].publie
    BY <1>1, <1>3, <2>1
  <2> QED BY <1>1, <2>1, <2>2, <2>3, <2>4 DEF Rafale
<1>5. CASE /\ NePasPoser \/ \E x \in TamponsTch, bloc \in Blocs : Poser(x, bloc)
           /\ \/ salve' = salve
              \/ salve > 0 /\ salve' = salve - 1 /\ tacheU' \in {"DUL", "TCHA"}
  <2>1. /\ tampon'["cu"].blud = tampon["cu"].blud /\ tampon'["cu"].tiede = tampon["cu"].tiede
        /\ pub'["cu"] = pub["cu"]
    <3>1. CASE NePasPoser
      BY <1>2, <3>1, NePasPoserDit
    <3>2. ASSUME NEW x \in TamponsTch, NEW bloc \in Blocs, Poser(x, bloc)
          PROVE  <2>1
      <4>1. x \in Tampons /\ "cu" \in Tampons \ {x}
        BY DEF TamponsTch, Tampons
      <4> QED BY <3>2, <4>1, PoserDit
    <3> QED BY <1>5, <3>1, <3>2
  <2>2. vu["cu"].publie => salve' = 3 \/ (salve' = 2 /\ tacheU' \in {"DUL", "TCHA"})
    BY <1>2, <1>3, <1>5
  <2> QED BY <1>1, <1>3, <2>1, <2>2 DEF Rafale
<1>6. \/ \E bloc \in Blocs : salve = 0 /\ Poser("cu", bloc) /\ salve' = 3
                               /\ tacheU' \in {"DUL", "TCHA"}
      \/ /\ NePasPoser \/ \E x \in TamponsTch, bloc \in Blocs : Poser(x, bloc)
         /\ \/ salve' = salve
            \/ salve > 0 /\ salve' = salve - 1 /\ tacheU' \in {"DUL", "TCHA"}
  BY DEF Synchroniser, TamponsTch
<1> QED BY <1>4, <1>5, <1>6

LEMMA RafaleRom ==
  ASSUME TypeOK, Rafale, Rom, ~ici.romAvant
  PROVE  Rafale'
<1>1. /\ etape = "rom" /\ etape' = "fin"
      /\ UNCHANGED <<ici, canal, salve, tacheU, tacheRom, vu, g, pub, repris, poses>>
      /\ tampon'["cu"].blud = (tampon["cu"].blud /\ tampon["cu"].tiede /\ ~ici.romAvant)
      /\ ~tampon'["cu"].tiede
  BY RomDit
<1>2. tampon'["cu"].blud => tampon["cu"].blud /\ pub["cu"] = 0
  BY <1>1 DEF Rafale
<1>3. vu["cu"].publie => salve = 3 \/ (salve = 2 /\ tacheU \in {"DUL", "TCHA"})
  BY DEF Rafale
<1>4. tampon["cu"].blud /\ pub["cu"] = 0 =>
        ~vu["cu"].publie /\ salve = 3 /\ tacheU \in {"DUL", "TCHA"}
  BY DEF Rafale
<1> QED BY <1>1, <1>2, <1>3, <1>4 DEF Rafale

LEMMA RafaleScruter ==
  ASSUME TypeOK, Rafale, Scruter
  PROVE  Rafale'
<1>1. /\ etape = "fin" /\ etape' = "sync"
      /\ UNCHANGED <<ici, canal, tampon, salve, tacheU, tacheRom, poses>>
      /\ Capter(Regardes) /\ Regardes \in SUBSET Tampons
  BY ScruterDit
<1>2. "cu" \in Tampons /\ vu["cu"] \in Publies
  BY DEF Tampons, TypeOK, Publies
<1>3. /\ vu'["cu"] = IF "cu" \in Regardes THEN Regarde("cu") ELSE vu["cu"]
      /\ pub'["cu"] = IF "cu" \in Regardes /\ Prend("cu") THEN Publier(pub["cu"]) ELSE pub["cu"]
  BY <1>1, <1>2, CapterDit
<1>4. ~tampon["cu"].tiede /\ (tampon["cu"].blud => pub["cu"] = 0)
  BY <1>1 DEF Rafale
<1>5. CASE tampon["cu"].blud
  <2>1. ~vu["cu"].publie /\ salve = 3 /\ tacheU \in {"DUL", "TCHA"} /\ pub["cu"] = 0
    BY <1>4, <1>5 DEF Rafale
  <2>2. "cu" \in Regardes /\ Prend("cu")
    BY <1>5, <2>1 DEF Regardes, Prend, ATaire
  <2>3. pub'["cu"] = 1 /\ vu'["cu"] = [publie |-> TRUE, contenu |-> tampon["cu"].bloc]
    BY <1>3, <1>5, <2>1, <2>2 DEF Publier, Regarde
  <2>4. vu'["cu"].publie
    BY <2>3
  <2> QED BY <1>1, <1>4, <1>5, <2>1, <2>3, <2>4 DEF Rafale
<1>6. CASE ~tampon["cu"].blud
  <2>1. vu'["cu"].publie => vu["cu"].publie /\ "cu" \notin Regardes
    BY <1>2, <1>3, <1>6 DEF Regarde, Publies
  <2>2. vu'["cu"].publie => salve = 3
    BY <2>1 DEF Rafale, Regardes
  <2> QED BY <1>1, <1>4, <1>6, <2>2 DEF Rafale
<1> QED BY <1>5, <1>6

LEMMA RafaleNext ==
  TypeOK /\ Rafale /\ ici.tacheVue /\ ~ici.romAvant /\ [Next]_vars => Rafale'
<1> SUFFICES ASSUME TypeOK, Rafale, ici.tacheVue, ~ici.romAvant, [Next]_vars PROVE Rafale'
  OBVIOUS
<1>1. CASE AuGo
  <2>1. /\ etape = "go" /\ etape' = "rom"
        /\ UNCHANGED <<ici, canal, tampon, salve, tacheU, tacheRom, g, repris, poses>>
        /\ Capter({"fu", "du"}) \/ UNCHANGED <<vu, pub>>
    BY <1>1 DEF AuGo
  <2>2. vu'["cu"] = vu["cu"] /\ pub'["cu"] = pub["cu"]
    <3>1. {"fu", "du"} \in SUBSET Tampons /\ "cu" \in Tampons /\ "cu" \notin {"fu", "du"}
      BY DEF Tampons
    <3> QED BY <2>1, <3>1, CapterDit
  <2> QED BY <2>1, <2>2, RafaleCu
<1>2. CASE Changer
  BY <1>2, RafaleCu DEF Changer
<1>3. CASE UNCHANGED vars
  BY <1>3, RafaleCu DEF vars
<1> QED
  BY <1>1, <1>2, <1>3, RafaleSynchroniser, RafaleRom, RafaleScruter DEF Next

-----------------------------------------------------------------------------
(* Montee. a_cu, never seen.                                               *)

LEMMA OubliSynchroniser ==
  ASSUME TypeOK, Oubli, Synchroniser
  PROVE  Oubli'
<1>1. etape' = "go" /\ g' = g
  BY DEF Synchroniser
<1>2. "cu" \in Tampons
  BY DEF Tampons
<1>3. /\ repris'.bloc = repris.bloc /\ repris'.age = repris.age
      /\ \/ tampon'["cu"].bloc = tampon["cu"].bloc /\ (repris.rompu => repris'.rompu)
         \/ ~repris'.rompu => tampon'["cu"].bloc = repris.bloc /\ ~repris.rompu
  <2>1. CASE NePasPoser
    BY <1>2, <2>1, NePasPoserDit
  <2>2. ASSUME NEW bloc \in Blocs, Poser("cu", bloc)
        PROVE  /\ repris'.bloc = repris.bloc /\ repris'.age = repris.age
               /\ ~repris'.rompu => tampon'["cu"].bloc = repris.bloc /\ ~repris.rompu
    <3>1. /\ tampon'["cu"] = [blud |-> TRUE, bloc |-> bloc, tiede |-> TRUE]
          /\ repris'.bloc = repris.bloc /\ repris'.age = repris.age
          /\ repris'.rompu = (repris.rompu \/ ("cu" = "cu" /\ bloc # repris.bloc))
      BY <1>2, <2>2, PoserDit
    <3>2. tampon'["cu"].bloc = bloc
      BY <3>1
    <3> QED BY <3>1, <3>2
  <2>3. ASSUME NEW x \in TamponsTch, NEW bloc \in Blocs, Poser(x, bloc)
        PROVE  /\ repris'.bloc = repris.bloc /\ repris'.age = repris.age
               /\ tampon'["cu"].bloc = tampon["cu"].bloc /\ (repris.rompu => repris'.rompu)
    <3>1. x \in Tampons /\ "cu" \in Tampons \ {x}
      BY DEF TamponsTch, Tampons
    <3> QED BY <2>3, <3>1, PoserDit
  <2>4. \/ NePasPoser \/ \E bloc \in Blocs : Poser("cu", bloc)
        \/ \E x \in TamponsTch, bloc \in Blocs : Poser(x, bloc)
    BY DEF Synchroniser, TamponsTch
  <2> QED BY <2>1, <2>2, <2>3, <2>4
<1> QED BY <1>1, <1>3 DEF Oubli

LEMMA OubliRom ==
  ASSUME TypeOK, Oubli, Rom, ici.romAvant
  PROVE  Oubli'
<1>1. ~tampon'["cu"].blud /\ tampon'["cu"].bloc = tampon["cu"].bloc
  BY RomDit DEF Tampons
<1>2. g' = g /\ repris' = repris
  BY RomDit
<1> QED BY <1>1, <1>2 DEF Oubli

\* The contents and what is remembered of them grow old together, or leave together.
LEMMA OubliScruter ==
  ASSUME TypeOK, Oubli, Scruter
  PROVE  Oubli'
<1>1. etape = "fin" /\ etape' = "sync" /\ tampon' = tampon
  BY ScruterDit
<1>2. ~tampon["cu"].blud /\ ~Prend("cu") /\ ~g.bludVu
  BY <1>1 DEF Oubli, Prend
<1>3. PICK s \in SurTch : Trafic(Avance(s)) \/ Signalisation(Avance(s)) \/ Rien(Avance(s))
  BY ScruterCas
<1> DEFINE m == Avance(s)
<1>4. /\ m \in Etats /\ m.bludVu = g.bludVu
      /\ m.aDernier = g.aDernier /\ m.dernier = g.dernier
      /\ m.age = IF g.age < Ttl THEN g.age + 1 ELSE g.age
  BY AvanceDit
<1>5. repris \in Reprises /\ tampon["cu"].bloc \in Contenus
  BY DEF TypeOK, Reprises, Tampons
<1> HIDE DEF m
<1>6. CASE /\ g'.bludVu = m.bludVu /\ g'.aDernier = m.aDernier
           /\ g'.dernier = m.dernier /\ g'.age = m.age /\ repris' = Vieillir(repris)
  <2>1. /\ repris'.bloc = repris.bloc /\ repris'.rompu = repris.rompu
        /\ repris'.age = IF repris.age < Ttl THEN repris.age + 1 ELSE repris.age
    BY <1>5, <1>6, VieillirRepris
  <2>2. g.age = repris.age => g'.age = repris'.age
    BY <1>4, <1>6, <2>1
  <2> QED BY <1>1, <1>2, <1>4, <1>6, <2>1, <2>2 DEF Oubli
<1>7. CASE /\ g'.bludVu = m.bludVu /\ g'.aDernier = TRUE
           /\ g'.dernier = tampon["cu"].bloc /\ g'.age = 0
           /\ Repris(tampon["cu"].bloc) /\ tampon["cu"].bloc # SansBloc
  <2>1. CASE tampon["cu"].bloc = Vide
    <3>1. repris'.bloc = repris.bloc /\ repris'.rompu = repris.rompu
      BY <1>5, <1>7, <2>1, ReprisDit, VieillirRepris
    <3>2. repris.bloc = SansBloc \/ repris.rompu
      BY <2>1 DEF Oubli
    <3> QED BY <1>1, <1>2, <1>4, <1>7, <3>1, <3>2 DEF Oubli
  <2>2. CASE tampon["cu"].bloc # Vide
    <3>1. repris'.bloc = tampon["cu"].bloc /\ repris'.age = 0
      BY <1>5, <1>7, <2>2, ReprisDit
    <3> QED BY <1>1, <1>2, <1>4, <1>7, <2>2, <3>1 DEF Oubli
  <2> QED BY <2>1, <2>2
<1>8. \/ /\ g'.bludVu = m.bludVu /\ g'.aDernier = m.aDernier
         /\ g'.dernier = m.dernier /\ g'.age = m.age /\ repris' = Vieillir(repris)
      \/ /\ g'.bludVu = m.bludVu /\ g'.aDernier = TRUE
         /\ g'.dernier = tampon["cu"].bloc /\ g'.age = 0
         /\ Repris(tampon["cu"].bloc) /\ tampon["cu"].bloc # SansBloc
  <2>1. CASE Trafic(m) \/ Rien(m)
    BY <2>1 DEF Trafic, Rien
  <2>2. CASE CapterSdcch(m)
    BY <1>2, <1>4, <2>2, CapterSdcchDit
  <2> QED BY <1>3, <2>1, <2>2 DEF Signalisation, m
<1> QED BY <1>6, <1>7, <1>8

LEMMA OubliNext ==
  TypeOK /\ Oubli /\ ici.romAvant /\ [Next]_vars => Oubli'
<1> SUFFICES ASSUME TypeOK, Oubli, ici.romAvant, [Next]_vars PROVE Oubli'
  OBVIOUS
<1>1. CASE AuGo
  BY <1>1 DEF AuGo, Oubli
<1>2. CASE Changer
  <2>1. /\ g' = [g EXCEPT !.aDernier = FALSE] /\ repris' = [repris EXCEPT !.rompu = TRUE]
        /\ etape' = etape /\ tampon' = tampon
    BY <1>2 DEF Changer, Oublier
  <2>2. repris \in Reprises /\ g \in Etats
    BY DEF TypeOK, Reprises, Etats
  <2>3. repris'.rompu /\ repris'.bloc = repris.bloc /\ g'.bludVu = g.bludVu
    BY <2>1, <2>2 DEF Reprises, Etats
  <2> QED BY <2>1, <2>3 DEF Oubli
<1>3. CASE UNCHANGED vars
  BY <1>3 DEF vars, Oubli
<1> QED
  BY <1>1, <1>2, <1>3, OubliSynchroniser, OubliRom, OubliScruter DEF Next

-----------------------------------------------------------------------------
(* Montee. Theorems.                                                       *)

LEMMA IInvInit == Init => IInv
<1> SUFFICES ASSUME Init PROVE IInv
  OBVIOUS
<1>1. /\ tampon = [b \in Tampons |-> [blud |-> FALSE, bloc |-> SansBloc, tiede |-> FALSE]]
      /\ vu = [b \in Tampons |-> [publie |-> FALSE, contenu |-> SansBloc]]
      /\ pub = [b \in Tampons |-> 0] /\ etape = "sync" /\ tacheU = "rien"
      /\ g = [surTch |-> FALSE, bludVu |-> FALSE, sansBlud |-> 0, aDernier |-> FALSE,
              dernier |-> SansBloc, age |-> Ttl]
      /\ repris = [bloc |-> SansBloc, age |-> Ttl, rompu |-> FALSE]
  BY DEF Init
<1>2. \A b \in Tampons : ~tampon[b].blud /\ ~tampon[b].tiede /\ ~vu[b].publie /\ pub[b] = 0
  BY <1>1
<1>3. ~g.bludVu /\ repris.bloc = SansBloc
  BY <1>1
<1>4. Vus
  BY <1>2 DEF Vus
<1>5. Voie
  BY <1>1, <1>2 DEF Voie, VoieDe, TamponsTch, Tampons
<1>6. Rafale /\ Oubli
  BY <1>2, <1>3, MonteeAssumption DEF Rafale, Oubli, Tampons
<1> QED BY <1>4, <1>5, <1>6, TypeInit DEF IInv

LEMMA IInvNext == IInv /\ [Next]_vars => IInv'
<1> SUFFICES ASSUME IInv, [Next]_vars PROVE IInv'
  OBVIOUS
<1>1. ici' = ici
  BY DEF Next, vars, Synchroniser, AuGo, Rom, Scruter, Changer
<1> QED
  BY <1>1, TypeNext, VusNext, VoieNext, RafaleNext, OubliNext DEF IInv

LEMMA Invariance == Spec => []IInv
BY IInvInit, IInvNext, PTL DEF Spec

\* A posting is published once, however many looks see its flag up.
THEOREM UneSeuleFoisToujours == Spec => []UneSeuleFois
<1>1. IInv => UneSeuleFois
  BY DEF IInv, Vus, UneSeuleFois
<1> QED BY <1>1, Invariance, PTL

\* The ROM takes nothing that was not published.
LEMMA PosePublieePas == IInv /\ [Next]_vars => PosePubliee
<1> SUFFICES ASSUME IInv, [Next]_vars, NEW b \in Tampons, PriseParLaRom(b), Visible(b)
             PROVE  pub[b] = 1
  BY DEF PosePubliee
<1>1. etape = "rom" /\ tampon[b].blud /\ ~tampon'[b].blud
  BY DEF PriseParLaRom
<1>2. Rom
  BY <1>1 DEF Next, vars, Synchroniser, AuGo, Scruter, Changer
<1>3. TypeOK /\ pub[b] \in {0, 1}
  BY DEF IInv, TypeOK, Vus
<1>4. CASE b = "cu"
  <2>1. ici.tacheVue /\ ~ici.romAvant /\ Rafale
    BY <1>4 DEF Visible, IInv
  <2>2. ~tampon["cu"].tiede
    BY <1>1, <1>2, <1>3, <1>4, <2>1, RomDit
  <2>3. pub["cu"] # 0
    BY <1>1, <1>4, <2>1, <2>2 DEF Rafale
  <2> QED BY <1>3, <1>4, <2>3
<1>5. CASE b # "cu"
  <2>1. b \in TamponsTch
    BY <1>5 DEF Tampons, TamponsTch
  <2>2. tampon[b].blud \in BOOLEAN /\ tampon'[b].blud # tampon[b].blud
    BY <1>1, <1>3 DEF TypeOK
  <2>3. tacheRom = "TCHT"
    BY <1>2, <1>3, <2>1, <2>2, RomDit
  <2> QED BY <1>1, <2>1, <2>3 DEF IInv, Voie, VoieDe
<1> QED BY <1>4, <1>5

\* The same contents do not leave twice within their time to live.
LEMMA SansDoublonPas == IInv /\ Next => SansDoublon
<1> SUFFICES ASSUME IInv, Next, ici.romAvant, Publie(repris.bloc), ~repris.rompu
             PROVE  repris.age + 1 >= Ttl
  BY DEF SansDoublon
<1>1. TypeOK /\ Oubli
  BY DEF IInv
<1>2. etape = "fin" /\ repris'.age = 0 /\ repris'.bloc = repris.bloc
  BY DEF Publie
<1>3. repris \in Reprises /\ repris.age \in 0 .. Ttl /\ g.age \in 0 .. Ttl
  BY <1>1 DEF TypeOK, Reprises
<1>4. CASE Scruter
  <2>1. PICK s \in SurTch : Trafic(Avance(s)) \/ Signalisation(Avance(s)) \/ Rien(Avance(s))
    BY <1>1, <1>4, ScruterCas
  <2>2. repris' # Vieillir(repris)
    BY <1>2, <1>3, VieillirRepris
  <2>3. CapterSdcch(Avance(s))
    BY <2>1, <2>2 DEF Trafic, Signalisation, Rien
  <2>4. ~Prend("cu")
    BY <1>1, <1>2 DEF Oubli, Prend
  <2>5. /\ Avance(s) \in Etats
        /\ Avance(s).aDernier = g.aDernier /\ Avance(s).dernier = g.dernier
        /\ Avance(s).age = IF g.age < Ttl THEN g.age + 1 ELSE g.age
    BY <1>1, AvanceDit
  <2>6. /\ Repris(tampon["cu"].bloc) /\ tampon["cu"].bloc # SansBloc
        /\ ~(Avance(s).aDernier /\ Avance(s).dernier = tampon["cu"].bloc /\ Avance(s).age < Ttl)
    BY <1>1, <2>2, <2>3, <2>4, <2>5, CapterSdcchDit
  <2>7. repris'.bloc = tampon["cu"].bloc
    <3>1. tampon["cu"].bloc \in Contenus
      BY <1>1 DEF TypeOK, Tampons
    <3> QED BY <1>3, <2>2, <2>6, <3>1, ReprisDit
  <2>8. g.aDernier /\ g.dernier = tampon["cu"].bloc /\ g.age = repris.age
    BY <1>1, <1>2, <2>6, <2>7 DEF Oubli
  <2>9. ~(Avance(s).age < Ttl)
    BY <2>5, <2>6, <2>8
  <2> QED BY <1>3, <2>5, <2>8, <2>9, MonteeAssumption
<1>5. Scruter
  BY <1>2 DEF Next, Synchroniser, AuGo, Rom, Changer
<1> QED BY <1>4, <1>5

\* Every block leaves before the ROM has it, and none twice.
THEOREM ToutUneFoisToujours == Spec => ToutUneFois
<1>1. IInv /\ [Next]_vars => [PosePubliee /\ SansDoublon]_vars
  BY PosePublieePas, SansDoublonPas
<1> QED BY <1>1, Invariance, PTL DEF Spec, ToutUneFois

-----------------------------------------------------------------------------
(* Cle. Invariants.                                                        *)

\* What publier_kc believes it has published is in the file; nothing is there before a
\* first publication, nor before a first key.
Fidele ==
  /\ k.dernier = fichier.rec
  /\ ~k.aDernier \/ cle = SansCle => fichier.rec = Clair

\* The reader still has the key of a ciphering that the firmware has ended.
EnSursis == mode = 0 /\ fichier.rec.algo # 0

\* What the reader does not have yet has been waiting no longer than a counter says.
Retard ==
  k.actif /\ fichier.rec # Lu => h.depuis <= IF EnSursis THEN k.clair ELSE k.tick

\* A release is armed from its announcement to the next look, and no longer.
Armement == k.actif => (k.liberer <=> h.fraiche)

\* Frames counted in an earlier gap are still in `clair' only if the ciphered spell
\* since has been shorter than the periodic poll.
Reprise ==
  k.actif /\ k.clair > h.clairs =>
    h.retour < Periode /\ (h.clairs = 0 => h.retour <= k.tick)

CleIInv == CleTypeOK /\ Fidele /\ Retard /\ Armement /\ Reprise

-----------------------------------------------------------------------------
(* Cle. Records and counters.                                              *)

\* A record is in clear if and only if its algorithm is 0.
LEMMA ClairSeul ==
  /\ Clair \in Enregistrements /\ Clair.algo = 0
  /\ \A r \in Enregistrements : r.algo \in Nat /\ (r.algo = 0 <=> r = Clair)
<1>1. Clair \in Enregistrements /\ Clair.algo = 0
  BY DEF Enregistrements, Clair
<1>2. ASSUME NEW r \in [algo: Algos, cle: Cles \cup {Melange}]
      PROVE  r.algo \in Nat /\ r.algo # 0 /\ r # Clair
  <2>1. r.algo \in 1 .. 3
    BY CleAssumption
  <2>2. Clair.algo = 0
    BY DEF Clair
  <2> QED BY <2>1, <2>2
<1> QED BY <1>1, <1>2 DEF Enregistrements

LEMMA LuDit ==
  ASSUME mode \in Algos \cup {0}, cle \in Cles \cup {Melange, SansCle}
  PROVE  /\ Lu \in Enregistrements
         /\ mode = 0 \/ cle = SansCle => Lu = Clair
         /\ mode # 0 /\ cle # SansCle => Lu.algo = mode
         /\ Lu.algo # 0 => Lu.algo = mode
<1>1. CASE mode # 0 /\ cle # SansCle
  <2>1. Lu = [algo |-> mode, cle |-> cle] /\ mode \in Algos /\ cle \in Cles \cup {Melange}
    BY <1>1 DEF Lu
  <2> QED BY <1>1, <2>1 DEF Enregistrements
<1>2. CASE mode = 0 \/ cle = SansCle
  BY <1>2, ClairSeul DEF Lu
<1> QED BY <1>1, <1>2

LEMMA VersDit ==
  ASSUME NEW n \in Nat, NEW x \in 0 .. n
  PROVE  /\ Vers(x, n) \in 0 .. n
         /\ Vers(x, n) = IF x < n THEN x + 1 ELSE n
BY DEF Vers

\* What a look does to the history.
LEMMA NoterDit ==
  ASSUME CleTypeOK, NEW echec \in BOOLEAN, Noter(echec)
  PROVE  /\ h' \in Historique
         /\ h'.depuis <= h.depuis + 1 /\ (echec => h'.depuis = 0)
         /\ h'.clairs = IF mode # 0 THEN 0 ELSE IF h.clairs < Grace THEN h.clairs + 1 ELSE Grace
         /\ mode = 0 => h'.retour = h.retour
         /\ mode # 0 /\ h.clairs > 0 => h'.retour = 0
         /\ h'.retour <= h.retour + 1
         /\ ~h'.fraiche
<1> USE CleAssumption
<1>1. /\ Periode \in Nat /\ Grace \in Nat /\ h.depuis \in 0 .. Periode /\ h.clairs \in 0 .. Grace
      /\ h.retour \in 0 .. Periode /\ h.finie \in BOOLEAN
  BY DEF CleTypeOK, Historique
<1>2. /\ Vers(h.depuis, Periode) \in 0 .. Periode /\ Vers(h.depuis, Periode) <= h.depuis + 1
      /\ Vers(h.retour, Periode) \in 0 .. Periode /\ Vers(h.retour, Periode) <= h.retour + 1
      /\ Vers(h.clairs, Grace) \in 0 .. Grace
      /\ Vers(h.clairs, Grace) = IF h.clairs < Grace THEN h.clairs + 1 ELSE Grace
  <2>1. ASSUME NEW n \in Nat, NEW x \in 0 .. n
        PROVE  Vers(x, n) \in 0 .. n /\ Vers(x, n) <= x + 1
    BY DEF Vers
  <2> QED BY <1>1, <2>1 DEF Vers
<1>3. h' = [depuis |-> IF echec THEN 0 ELSE Vers(h.depuis, Periode),
            clairs |-> IF mode = 0 THEN Vers(h.clairs, Grace) ELSE 0,
            retour |-> IF mode = 0 THEN h.retour
                       ELSE IF h.clairs > 0 THEN 0 ELSE Vers(h.retour, Periode),
            fraiche |-> FALSE, finie |-> h.finie]
  BY DEF Noter
<1>4. h' \in Historique
  BY <1>1, <1>2, <1>3 DEF Historique
<1>5. h.depuis + 1 \in Nat /\ 0 <= h.depuis + 1 /\ 0 <= h.retour + 1 /\ h.retour <= h.retour + 1
  BY <1>1
<1> QED BY <1>2, <1>3, <1>4, <1>5

-----------------------------------------------------------------------------
(* Cle. The invariant.                                                     *)

LEMMA CleIInvInit == CleInit => CleIInv
<1> SUFFICES ASSUME CleInit PROVE CleIInv
  OBVIOUS
<1> USE CleAssumption, ClairSeul
<1>1. k \in [actif: BOOLEAN, ouvert: BOOLEAN, tick: 0 .. Periode - 1, clair: 0 .. Grace - 1,
             seq: Nat, aDernier: BOOLEAN, dernier: Enregistrements, liberer: BOOLEAN]
  BY DEF CleInit
<1>2. CleTypeOK
  BY <1>1 DEF CleInit, CleTypeOK, Historique
<1>3. Lu = Clair
  BY DEF CleInit, Lu
<1> QED BY <1>2, <1>3 DEF CleInit, CleIInv, Fidele, Retard, Armement, Reprise

\* A frame whose look decides nothing, or nothing yet.
LEMMA IInvPasser == CleIInv /\ Passer => CleIInv'
<1> SUFFICES ASSUME CleIInv, Passer PROVE CleIInv'
  OBVIOUS
<1>0. CleTypeOK /\ Fidele /\ Retard /\ Armement /\ Reprise
  BY DEF CleIInv
<1>1. /\ mode' = mode /\ cle' = cle /\ aEcrire' = aEcrire /\ fichier' = fichier /\ comptes' = comptes
      /\ Noter(FALSE) /\ Lu' = Lu
      /\ k' = IF k.actif THEN [k EXCEPT !.tick = @ + 1] ELSE k
  BY DEF Passer, Lu
<1>2. /\ Periode \in Nat /\ Grace \in Nat /\ k.tick \in 0 .. Periode - 1 /\ k.clair \in 0 .. Grace - 1
      /\ h.depuis \in 0 .. Periode /\ h.clairs \in 0 .. Grace /\ h.retour \in 0 .. Periode
  BY <1>0, CleAssumption DEF CleTypeOK, Historique
<1>3. k.actif => k.tick + 1 < Periode /\ ~Bascule
  BY <1>2 DEF Passer, Regarder
<1>4. /\ k' \in [actif: BOOLEAN, ouvert: BOOLEAN, tick: 0 .. Periode - 1, clair: 0 .. Grace - 1,
               seq: Nat, aDernier: BOOLEAN, dernier: Enregistrements, liberer: BOOLEAN]
      /\ k'.actif = k.actif /\ k'.clair = k.clair /\ k'.liberer = k.liberer
      /\ k'.aDernier = k.aDernier /\ k'.dernier = k.dernier
      /\ k.actif => k'.tick = k.tick + 1
  BY <1>0, <1>1, <1>2, <1>3 DEF CleTypeOK
<1>5. /\ h' \in Historique /\ h'.depuis <= h.depuis + 1
      /\ h'.clairs = IF mode # 0 THEN 0 ELSE IF h.clairs < Grace THEN h.clairs + 1 ELSE Grace
      /\ mode = 0 => h'.retour = h.retour
      /\ mode # 0 /\ h.clairs > 0 => h'.retour = 0
      /\ h'.retour <= h.retour + 1 /\ ~h'.fraiche
  BY <1>0, <1>1, NoterDit
<1>6. h'.depuis \in Nat /\ h'.retour \in Nat
  BY <1>5 DEF Historique
<1>7. CleTypeOK'
  BY <1>0, <1>1, <1>4, <1>5 DEF CleTypeOK
<1>8. Fidele'
  BY <1>0, <1>1, <1>4 DEF Fidele
<1>9. Retard'
  <2>1. k.actif => ~EnSursis
    BY <1>0, <1>3, ClairSeul DEF Fidele, Bascule, EnSursis
  <2> QED BY <1>0, <1>1, <1>2, <1>4, <1>5, <1>6, <2>1 DEF Retard, EnSursis
<1>10. Armement'
  BY <1>0, <1>3, <1>4, <1>5 DEF Armement, Bascule
<1>11. Reprise'
  BY <1>0, <1>2, <1>3, <1>4, <1>5, <1>6 DEF Reprise
<1> QED BY <1>7, <1>8, <1>9, <1>10, <1>11 DEF CleIInv

LEMMA IInvPatienter == CleIInv /\ Patienter => CleIInv'
<1> SUFFICES ASSUME CleIInv, Patienter PROVE CleIInv'
  OBVIOUS
<1>0. CleTypeOK /\ Fidele /\ Retard /\ Armement /\ Reprise
  BY DEF CleIInv
<1>1. /\ mode' = mode /\ cle' = cle /\ aEcrire' = aEcrire /\ fichier' = fichier /\ comptes' = comptes
      /\ Noter(FALSE) /\ Lu' = Lu
      /\ k' = [k EXCEPT !.tick = 0, !.clair = @ + 1]
      /\ k.actif /\ Lu.algo = 0 /\ k.aDernier /\ k.dernier.algo # 0 /\ ~k.liberer
      /\ k.clair + 1 < Grace
  BY DEF Patienter, Lu, Regarder, SousGrace
<1>2. /\ Periode \in Nat \ {0} /\ Grace \in Nat /\ k.tick \in 0 .. Periode - 1 /\ k.clair \in 0 .. Grace - 1
      /\ h.depuis \in 0 .. Periode /\ h.clairs \in 0 .. Grace /\ h.retour \in 0 .. Periode
  BY <1>0, CleAssumption DEF CleTypeOK, Historique
<1>13. 0 \in 0 .. Periode - 1 /\ k.clair + 1 \in 0 .. Grace - 1
  BY <1>1, <1>2
<1>3. /\ k' \in [actif: BOOLEAN, ouvert: BOOLEAN, tick: 0 .. Periode - 1, clair: 0 .. Grace - 1,
               seq: Nat, aDernier: BOOLEAN, dernier: Enregistrements, liberer: BOOLEAN]
      /\ k'.actif /\ k'.clair = k.clair + 1 /\ k'.liberer = k.liberer
      /\ k'.aDernier = k.aDernier /\ k'.dernier = k.dernier /\ k'.tick = 0
  BY <1>0, <1>1, <1>13 DEF CleTypeOK
<1>4. /\ h' \in Historique /\ h'.depuis <= h.depuis + 1
      /\ h'.clairs = IF mode # 0 THEN 0 ELSE IF h.clairs < Grace THEN h.clairs + 1 ELSE Grace
      /\ mode = 0 => h'.retour = h.retour
      /\ ~h'.fraiche
  BY <1>0, <1>1, NoterDit
<1>5. mode = 0 /\ fichier.rec.algo # 0
  <2>1. fichier.rec # Clair /\ cle # SansCle
    BY <1>0, <1>1, ClairSeul DEF Fidele
  <2> QED BY <1>0, <1>1, <2>1, LuDit DEF Fidele, CleTypeOK
<1>6. h'.depuis \in Nat /\ h'.retour \in Nat
  BY <1>4 DEF Historique
<1>7. CleTypeOK'
  BY <1>0, <1>1, <1>3, <1>4 DEF CleTypeOK
<1>8. Fidele'
  BY <1>0, <1>1, <1>3 DEF Fidele
<1>9. Retard'
  <2>1. fichier.rec # Lu
    BY <1>1, <1>5
  <2>2. h.depuis <= k.clair
    BY <1>0, <1>1, <1>5, <2>1 DEF Retard, EnSursis
  <2> QED BY <1>1, <1>2, <1>3, <1>4, <1>5, <1>6, <2>2 DEF Retard, EnSursis
<1>10. Armement'
  BY <1>1, <1>3, <1>4 DEF Armement
<1>11. Reprise'
  BY <1>0, <1>1, <1>2, <1>3, <1>4, <1>5 DEF Reprise
<1> QED BY <1>7, <1>8, <1>9, <1>10, <1>11 DEF CleIInv

\* A look that decides: everything it counted starts again.
LEMMA IInvDecider == CleIInv /\ (Identique \/ PublierCle \/ PublierEchoue) => CleIInv'
<1> SUFFICES ASSUME CleIInv, Identique \/ PublierCle \/ PublierEchoue PROVE CleIInv'
  OBVIOUS
<1>0. CleTypeOK /\ Fidele /\ Retard /\ Armement /\ Reprise
  BY DEF CleIInv
<1>1. /\ mode' = mode /\ cle' = cle /\ aEcrire' = aEcrire
      /\ Lu' = Lu /\ Lu \in Enregistrements
      /\ k.actif /\ k'.tick = 0 /\ k'.clair = 0 /\ ~k'.liberer
  BY <1>0, LuDit DEF Identique, PublierCle, PublierEchoue, Lu, CleTypeOK, APublier, Regarder
<1>2. Periode \in Nat \ {0} /\ Grace \in Nat \ {0}
  BY CleAssumption
<1>3. h' \in Historique /\ ~h'.fraiche /\ (PublierEchoue => h'.depuis = 0)
  BY <1>0, NoterDit DEF Identique, PublierCle, PublierEchoue
<1>4. /\ k' \in [actif: BOOLEAN, ouvert: BOOLEAN, tick: 0 .. Periode - 1, clair: 0 .. Grace - 1,
               seq: Nat, aDernier: BOOLEAN, dernier: Enregistrements, liberer: BOOLEAN]
      /\ fichier' \in [seq: Nat, rec: Enregistrements]
      /\ comptes' \in [gestes: Nat, liberations: Nat, pannes: Nat]
  <2>1. 0 \in 0 .. Periode - 1 /\ 0 \in 0 .. Grace - 1
    BY <1>2
  <2>2. CASE Identique
    BY <1>0, <2>1, <2>2 DEF Identique, CleTypeOK
  <2>3. CASE PublierCle
    <3>1. k' = [k EXCEPT !.tick = 0, !.clair = 0, !.liberer = FALSE, !.ouvert = TRUE,
                           !.seq = @ + 1, !.aDernier = TRUE, !.dernier = Lu]
          /\ fichier' = [seq |-> k.seq + 1, rec |-> Lu] /\ comptes' = comptes
      BY <2>3 DEF PublierCle
    <3>2. k.seq + 1 \in Nat
      BY <1>0 DEF CleTypeOK
    <3> QED BY <1>0, <1>1, <2>1, <3>1, <3>2 DEF CleTypeOK
  <2>4. CASE PublierEchoue
    <3>1. /\ \/ k' = [k EXCEPT !.tick = 0, !.clair = 0, !.liberer = FALSE, !.actif = FALSE]
             \/ k' = [k EXCEPT !.tick = 0, !.clair = 0, !.liberer = FALSE, !.ouvert = FALSE]
          /\ fichier' = fichier
          /\ comptes' = [comptes EXCEPT !.pannes = @ + 1]
      BY <2>4 DEF PublierEchoue
    <3>2. comptes' \in [gestes: Nat, liberations: Nat, pannes: Nat]
      BY <1>0, <3>1 DEF CleTypeOK
    <3> QED BY <1>0, <2>1, <3>1, <3>2 DEF CleTypeOK
  <2> QED BY <2>2, <2>3, <2>4
<1>5. \/ fichier'.rec = Lu /\ k'.dernier = Lu /\ k'.aDernier
      \/ /\ fichier' = fichier /\ k'.dernier = k.dernier /\ k'.aDernier = k.aDernier
         /\ h'.depuis = 0
  <2>1. CASE Identique
    BY <1>0, <2>1 DEF Identique, CleTypeOK, Fidele, Inchange
  <2>2. CASE PublierCle
    BY <1>0, <2>2 DEF PublierCle, CleTypeOK
  <2>3. CASE PublierEchoue
    BY <1>0, <1>3, <2>3 DEF PublierEchoue, CleTypeOK
  <2> QED BY <2>1, <2>2, <2>3
<1>6. CleTypeOK'
  BY <1>0, <1>1, <1>3, <1>4 DEF CleTypeOK
<1>7. Fidele'
  BY <1>0, <1>1, <1>5, LuDit DEF Fidele, CleTypeOK
<1>8. Retard'
  BY <1>1, <1>5 DEF Retard
<1>9. Armement'
  BY <1>1, <1>3 DEF Armement
<1>10. Reprise'
  BY <1>1, <1>3 DEF Reprise, Historique
<1> QED BY <1>6, <1>7, <1>8, <1>9, <1>10 DEF CleIInv

\* The release and the firmware leave the counters of publier_kc alone; whatever changes
\* what a look would read starts the wait again.
LEMMA IInvEnvironnement == CleIInv /\ (Liberer \/ Firmware) => CleIInv'
<1> SUFFICES ASSUME CleIInv, Liberer \/ Firmware PROVE CleIInv'
  OBVIOUS
<1>0. CleTypeOK /\ Fidele /\ Retard /\ Armement /\ Reprise
  BY DEF CleIInv
<1>1. /\ Periode \in Nat /\ Grace \in Nat /\ 0 \in 0 .. Periode /\ 0 \notin Algos
      /\ k.tick \in Nat /\ k.clair \in Nat /\ h \in Historique
  BY <1>0, CleAssumption DEF CleTypeOK
<1>2. CASE Liberer
  <2>1. /\ k' = [k EXCEPT !.liberer = TRUE]
        /\ h' = [h EXCEPT !.fraiche = TRUE, !.finie = TRUE]
        /\ comptes' = [comptes EXCEPT !.liberations = @ + 1]
        /\ mode' = mode /\ cle' = cle /\ aEcrire' = aEcrire /\ fichier' = fichier /\ Lu' = Lu
    BY <1>2 DEF Liberer, Lu
  <2>2. /\ k'.actif = k.actif /\ k'.tick = k.tick /\ k'.clair = k.clair /\ k'.dernier = k.dernier
        /\ k'.aDernier = k.aDernier /\ k'.liberer
        /\ h' \in Historique /\ h'.depuis = h.depuis /\ h'.clairs = h.clairs
        /\ h'.retour = h.retour /\ h'.fraiche
    BY <1>0, <1>1, <2>1 DEF CleTypeOK, Historique
  <2>3. CleTypeOK'
    <3>1. k' \in [actif: BOOLEAN, ouvert: BOOLEAN, tick: 0 .. Periode - 1,
                     clair: 0 .. Grace - 1, seq: Nat, aDernier: BOOLEAN,
                     dernier: Enregistrements, liberer: BOOLEAN]
      BY <1>0, <2>1 DEF CleTypeOK
    <3>2. comptes' \in [gestes: Nat, liberations: Nat, pannes: Nat]
      BY <1>0, <2>1 DEF CleTypeOK
    <3> QED BY <1>0, <2>1, <2>2, <3>1, <3>2 DEF CleTypeOK
  <2>4. Fidele' /\ Retard'
    BY <1>0, <2>1, <2>2 DEF Fidele, Retard, EnSursis
  <2>5. Armement' /\ Reprise'
    BY <1>0, <2>2 DEF Armement, Reprise
  <2> QED BY <2>3, <2>4, <2>5 DEF CleIInv
<1>3. CASE Firmware
  <2>1. /\ k' = k /\ fichier' = fichier
        /\ h' \in Historique /\ h'.depuis = 0 /\ h'.clairs = h.clairs /\ h'.retour = h.retour
        /\ h'.fraiche = h.fraiche
    <3>1. CASE \E a \in Algos, c \in Cles : Chiffrer(a, c)
      BY <1>1, <3>1 DEF Chiffrer, Historique
    <3>2. CASE EcrireCle
      BY <1>1, <3>2 DEF EcrireCle, Bouger, Historique
    <3>3. CASE Effacer
      BY <1>1, <3>3 DEF Effacer, Bouger, Historique
    <3> QED BY <1>3, <3>1, <3>2, <3>3 DEF Firmware
  <2>2. /\ mode' \in Algos \cup {0} /\ cle' \in Cles \cup {Melange, SansCle}
        /\ aEcrire' \in Cles \cup {SansCle}
        /\ comptes' \in [gestes: Nat, liberations: Nat, pannes: Nat]
        /\ cle' = SansCle => cle = SansCle
    <3>1. CASE \E a \in Algos, c \in Cles : Chiffrer(a, c)
      BY <1>0, <3>1 DEF Chiffrer, CleTypeOK
    <3>2. CASE EcrireCle
      BY <1>0, <3>2, CleAssumption DEF EcrireCle, CleTypeOK
    <3>3. CASE Effacer
      BY <1>0, <3>3 DEF Effacer, CleTypeOK
    <3> QED BY <1>3, <3>1, <3>2, <3>3 DEF Firmware
  <2>3. CleTypeOK'
    BY <1>0, <2>1, <2>2 DEF CleTypeOK
  <2>4. Fidele' /\ Retard'
    BY <1>0, <1>1, <2>1, <2>2 DEF Fidele, Retard, EnSursis
  <2>5. Armement' /\ Reprise'
    BY <1>0, <2>1 DEF Armement, Reprise
  <2> QED BY <2>3, <2>4, <2>5 DEF CleIInv
<1> QED BY <1>2, <1>3

LEMMA IInvToujours == CleSpec => []CleIInv
<1>1. CleIInv /\ [CleNext]_cleVars => CleIInv'
  <2> SUFFICES ASSUME CleIInv, [CleNext]_cleVars PROVE CleIInv'
    OBVIOUS
  <2>1. CASE UNCHANGED cleVars
    BY <2>1 DEF cleVars, CleIInv, CleTypeOK, Fidele, Retard, EnSursis, Lu, Armement, Reprise
  <2> QED BY <2>1, IInvPasser, IInvPatienter, IInvDecider, IInvEnvironnement DEF CleNext, PublierKc
<1> QED BY <1>1, CleIInvInit, PTL DEF CleSpec

-----------------------------------------------------------------------------
(* Cle. Theorems.                                                          *)

\* The types: publier_kc's counters stay below the poll and the grace.
THEOREM CleTypeCorrecte == CleSpec => []CleTypeOK
<1>1. CleIInv => CleTypeOK
  BY DEF CleIInv
<1> QED BY <1>1, IInvToujours, PTL

\* The reader's file holds what has stood in the API RAM for a period (publier_kc): the
\* poll, the grace, a failed write and a half-written key delay it no longer.
THEOREM CleToujoursAJour == CleSpec => []CleAJour
<1>1. CleIInv => CleAJour
  <2> SUFFICES ASSUME CleIInv, k.actif, h.depuis = Periode, fichier.rec # Lu PROVE FALSE
    BY DEF CleAJour
  <2>1. h.depuis <= k.clair \/ h.depuis <= k.tick
    BY DEF CleIInv, Retard
  <2>2. /\ Periode \in Nat /\ Grace \in Nat /\ Grace <= Periode
        /\ k.tick \in 0 .. Periode - 1 /\ k.clair \in 0 .. Grace - 1
    BY CleAssumption DEF CleIInv, CleTypeOK
  <2> QED BY <2>1, <2>2
<1> QED BY <1>1, IInvToujours, PTL

\* A ciphered mode and its key are published by the first look that sees them.
LEMMA PremierBloc == CleIInv /\ PublierKc => PremierBlocChiffre
<1> SUFFICES ASSUME CleIInv, PublierKc, k.actif, k.aDernier, fichier.rec.algo # mode, Lu.algo # 0
             PROVE  fichier'.rec = Lu \/ comptes' # comptes
  BY DEF PremierBlocChiffre
<1>1. CleTypeOK /\ Fidele
  BY DEF CleIInv
<1>2. Regarder /\ ~Inchange /\ ~SousGrace
  <2>1. Lu.algo = mode /\ k.dernier = fichier.rec
    BY <1>1, LuDit DEF CleTypeOK, Fidele
  <2> QED BY <2>1 DEF Regarder, Bascule, Inchange, SousGrace
<1>3. CASE PublierCle
  BY <1>3 DEF PublierCle
<1>4. CASE PublierEchoue
  BY <1>1, <1>4 DEF PublierEchoue, CleTypeOK
<1> QED BY <1>2, <1>3, <1>4 DEF PublierKc, Passer, Identique, Patienter

\* A release announced in clear is published by the look that follows.
LEMMA Liberation == CleIInv /\ PublierKc => LiberationImmediate
<1> SUFFICES ASSUME CleIInv, PublierKc, k.actif, h.fraiche, mode = 0
             PROVE  fichier'.rec = Clair \/ comptes' # comptes
  BY DEF LiberationImmediate
<1>1. CleTypeOK /\ Fidele /\ k.liberer
  BY DEF CleIInv, Armement
<1>2. Lu = Clair /\ Regarder /\ ~SousGrace
  BY <1>1, LuDit DEF CleTypeOK, Regarder, Bascule, SousGrace
<1>3. CASE PublierCle
  BY <1>2, <1>3 DEF PublierCle
<1>4. CASE PublierEchoue
  BY <1>1, <1>4 DEF PublierEchoue, CleTypeOK
<1>5. CASE Identique
  BY <1>1, <1>2, <1>5 DEF Identique, Inchange, Fidele
<1> QED BY <1>2, <1>3, <1>4, <1>5 DEF PublierKc, Passer, Patienter

\* Without a release, the key leaves the file after a whole grace.
LEMMA GraceEntiere == CleIInv /\ [CleNext]_cleVars => GraceIsolee
<1> SUFFICES ASSUME CleIInv, [CleNext]_cleVars, fichier.rec # Clair, fichier'.rec = Clair, ~h.fraiche,
                    h.retour = Periode
             PROVE  h'.clairs = Grace
  BY DEF GraceIsolee
<1>1. CleTypeOK /\ Fidele /\ Armement /\ Reprise
  BY DEF CleIInv
<1>2. PublierCle
  <2>1. fichier' # fichier
    OBVIOUS
  <2> QED BY <2>1 DEF CleNext, PublierKc, Firmware, Passer, Identique, Patienter, PublierEchoue,
                     Liberer, Chiffrer, EcrireCle, Effacer, cleVars
<1>3. /\ k.actif /\ ~SousGrace /\ Lu = Clair /\ k.dernier = fichier.rec /\ Noter(FALSE)
      /\ k.aDernier /\ cle # SansCle /\ ~k.liberer
  BY <1>1, <1>2 DEF PublierCle, APublier, Regarder, Fidele, Armement
<1>4. mode = 0 /\ k.dernier.algo # 0
  BY <1>1, <1>3, LuDit, ClairSeul DEF CleTypeOK
<1>5. /\ Periode \in Nat /\ Grace \in Nat /\ k.clair \in 0 .. Grace - 1 /\ h.clairs \in 0 .. Grace
  BY <1>1, CleAssumption DEF CleTypeOK, Historique
<1>6. k.clair + 1 >= Grace
  BY <1>3, <1>4, <1>5, ClairSeul DEF SousGrace
<1>7. k.clair <= h.clairs
  BY <1>1, <1>3, <1>5 DEF Reprise
<1>8. h'.clairs = IF h.clairs < Grace THEN h.clairs + 1 ELSE Grace
  BY <1>1, <1>3, <1>4, NoterDit
<1> QED BY <1>5, <1>6, <1>7, <1>8

\* A change is published when it must be and no sooner (publier_kc): a ciphered mode and a
\* release by the look that follows them, a clear mode alone after its whole grace.
THEOREM BasculesToujoursJustes == CleSpec => BasculesJustes
<1>1. CleIInv /\ [CleNext]_cleVars => [PremierBlocChiffre /\ LiberationImmediate /\ GraceIsolee]_cleVars
  BY PremierBloc, Liberation, GraceEntiere DEF PremierBlocChiffre, LiberationImmediate
<1> QED BY <1>1, IInvToujours, PTL DEF CleSpec, BasculesJustes
=============================================================================
