-------------------------------- MODULE Enreg -------------------------------
(***************************************************************************)
(* The recorder of a dedicated channel (enreg_tick and the like in pont.c) *)
(* and its two readers, rejeu_banc.c and layer1_tester.c.  The bridge      *)
(* writes the state it starts from ('S' API RAM, 'D' data memory, 'P'      *)
(* program memory), then for each TICK a 'T' and what the ARM has changed  *)
(* in the API RAM before the TICK and before the GO ('A', by difference    *)
(* with a snapshot taken when the DSP hands over).  The readers play the   *)
(* ticks again on the same ROM.                                            *)
(*                                                                         *)
(* The ROM is a function of the API RAM: it answers, in one word, what it  *)
(* reads in the other.  The bridge writes the API RAM too.  What it writes *)
(* after a snapshot and before the next difference (apm_jamais_nul, the    *)
(* RESET) is recorded, and replayed, as the ARM's writes are: it is the    *)
(* same action here.  What it writes before phase B (montant_capter_fu)    *)
(* and before the snapshot of the end of a frame (the canned results,      *)
(* montant_scruter, tx_inject_apres) is in no difference: the bridge may   *)
(* leave anything there.  The I/Q deliveries ('B') are left out, and every *)
(* TICK carries the frame interrupt.                                       *)
(***************************************************************************)
EXTENDS Integers, Sequences, FiniteSets

CONSTANTS
  Commande, Reponse,  \* two words of the API RAM
  Valeurs,            \* what a word may hold
  DoneTot,            \* PONT_DONE_TOT, the values a frame may be played with
  Table,              \* ticks a reader keeps (40000 in rejeu_banc, 200000 in layer1_tester)
  NVal,               \* values layer1_tester counts for a word
  MaxTicks,           \* bound: TICKs
  MaxEcrits,          \* bound: writes of the ARM, and frames, or halves of one, where the bridge
                      \* writes without a record
  MaxTch              \* bound: openings and closings of a traffic channel

ASSUME EnregAssumption ==
  /\ Commande # Reponse /\ 0 \in Valeurs
  /\ DoneTot \subseteq BOOLEAN
  /\ {Table, NVal} \subseteq Nat \ {0} /\ {MaxTicks, MaxEcrits, MaxTch} \subseteq Nat

VARIABLES
  api,      \* the API RAM
  snap,     \* g_enreg_api, SansCliche when ~g_enreg_api_ok
  actif,    \* calypso_bsp_enreg_fichier() is not NULL: a TCH is active
  base,     \* base of enreg_tick
  fichier,  \* the records written
  pc,       \* where the bridge is in its frame
  tick,     \* TICKs so far
  vecu,     \* history: the API RAM at the start of each DSP phase since the base
  trou,     \* history: a window has not been recorded since the base
  derive,   \* history: the words that hold, or have held since the base, what no record gives:
            \* the bridge has written them after a difference or before a snapshot, or the ARM
            \* while the DSP finished a frame
  compte    \* bounds: writes of the ARM and of the bridge, openings and closings so far

vars == <<api, snap, actif, base, fichier, pc, tick, vecu, trou, derive, compte>>

Mots == {Commande, Reponse}
Ram == [Mots -> Valeurs]
SansCliche == <<>>

\* The ROM, in one phase of a frame.
Rom(a) == [a EXCEPT ![Reponse] = a[Commande]]

Enr(k, t, fenetre, maj) == [k |-> k, tick |-> t, fenetre |-> fenetre, maj |-> maj]

Init ==
  /\ api = [m \in Mots |-> 0] /\ snap = SansCliche
  /\ actif = FALSE /\ base = FALSE /\ fichier = <<>>
  /\ pc = "entre" /\ tick = 0
  /\ vecu = <<>> /\ trou = FALSE /\ derive = {}
  /\ compte = [ecrits |-> 0, tch |-> 0]

-----------------------------------------------------------------------------
(* The bridge.                                                             *)

\* enreg_api_diff: the words changed since the snapshot, in one record, even an empty one.
Differences(fenetre, t) ==
  IF actif /\ snap # SansCliche
  THEN <<Enr("A", t, fenetre, [m \in {x \in Mots : api[x] # snap[x]} |-> api[m]])>>
  ELSE <<>>

\* enreg_base: the starting state is the snapshot, what the ARM has written since follows
\* as differences; without a snapshot it is the API RAM as it is.
Base(t) ==
  <<Enr("S", t, 0, IF snap = SansCliche THEN api ELSE snap),
    Enr("D", t, 0, <<>>), Enr("P", t, 0, <<>>)>>

\* The base is not remembered.
EnregTick_Base(t) == IF ~actif THEN <<>> ELSE Base(t) \o <<Enr("T", t, 0, <<>>)>>

\* enreg_tick
EnregTick(t) ==
  IF ~actif THEN <<>>
  ELSE (IF base THEN <<>> ELSE Base(t)) \o <<Enr("T", t, 0, <<>>)>>

\* A window is closed: it is recorded, or it is a hole.
Fermer == trou' = (trou \/ (base /\ ~actif))

\* The phases lived, and the words written without a record, since the base.
Vivre(phases) == vecu' = IF base' THEN vecu \o phases ELSE vecu
Deriver(mots) == derive' = IF base' THEN derive \cup mots ELSE derive

\* The words that differ.
Ecartes(a, b) == {m \in Mots : a[m] # b[m]}

\* The bridge writes these words, with no difference to come.
PontEcrit(mots) ==
  /\ Deriver(mots)
  /\ IF mots = {} THEN UNCHANGED compte
     ELSE compte.ecrits < MaxEcrits /\ compte' = [compte EXCEPT !.ecrits = @ + 1]

\* case PONT_TICK with one phase: the record of the tick, the window before it, the whole
\* frame, what the bridge leaves before phase B and at the end, and the snapshot.
TickUnePhase ==
  /\ pc' = "entre"
  /\ \E milieu, fin \in Ram :
       /\ PontEcrit(Ecartes(milieu, Rom(api)) \cup Ecartes(fin, Rom(milieu)))
       /\ Vivre(<<api, milieu>>)
       /\ api' = fin /\ snap' = fin

\* With two phases: phase A, and the snapshot when the DSP hands over.
TickDeuxPhases ==
  /\ pc' = "l1sync"
  /\ Vivre(<<api>>)
  /\ api' = Rom(api) /\ snap' = api'
  /\ UNCHANGED <<derive, compte>>

TickRecu(deux) ==
  /\ pc = "entre" /\ tick < MaxTicks
  /\ tick' = tick + 1
  /\ fichier' = fichier \o EnregTick(tick + 1) \o Differences(0, tick + 1)
  /\ base' = (base \/ actif)
  /\ Fermer
  /\ IF deux THEN TickDeuxPhases ELSE TickUnePhase
  /\ UNCHANGED actif

\* The GO: the window of l1_sync, what the bridge leaves before phase B, then phase B and
\* the end of the frame before the DONE, or after it.
GoRecu ==
  /\ pc = "l1sync"
  /\ UNCHANGED <<actif, base, tick>>
  /\ fichier' = fichier \o Differences(1, tick)
  /\ Fermer
  /\ \E milieu, fin \in Ram :
       /\ Vivre(<<milieu>>)
       /\ \/ /\ FALSE \in DoneTot /\ pc' = "entre"
             /\ PontEcrit(Ecartes(milieu, api) \cup Ecartes(fin, Rom(milieu)))
             /\ api' = fin /\ snap' = fin
          \/ /\ TRUE \in DoneTot /\ pc' = "reste"
             /\ PontEcrit(Ecartes(milieu, api))
             /\ api' = milieu /\ UNCHANGED snap

\* The rest of the frame is played while QEMU runs the ARM, then what the bridge leaves at
\* the end of it is in the snapshot.
Reste ==
  \/ /\ pc = "reste" /\ pc' = "suite"
     /\ api' = Rom(api)
     /\ UNCHANGED <<snap, actif, base, fichier, tick, vecu, trou, derive, compte>>
  \/ /\ pc = "suite" /\ pc' = "entre"
     /\ UNCHANGED <<actif, base, fichier, tick, vecu, trou>>
     /\ \E fin \in Ram : PontEcrit(Ecartes(fin, api)) /\ api' = fin /\ snap' = fin

\* The ARM writes a word whenever it runs: between two frames, in l1_sync, and during the
\* rest of a frame whose DONE has left early.
ArmEcrire(m, v) ==
  /\ api[m] # v /\ compte.ecrits < MaxEcrits
  /\ compte' = [compte EXCEPT !.ecrits = @ + 1]
  /\ api' = [api EXCEPT ![m] = v]
  /\ UNCHANGED <<snap, actif, base, fichier, pc, tick, vecu, trou>>
  /\ Deriver(IF pc \in {"reste", "suite"} THEN {m} ELSE {})

\* A traffic channel opens or closes.
Tch ==
  /\ compte.tch < MaxTch
  /\ actif' = ~actif
  /\ compte' = [compte EXCEPT !.tch = @ + 1]
  /\ UNCHANGED <<api, snap, base, fichier, pc, tick, vecu, trou, derive>>

Next ==
  \/ \E deux \in BOOLEAN : TickRecu(deux)
  \/ GoRecu \/ Reste \/ Tch
  \/ \E m \in Mots, v \in Valeurs : ArmEcrire(m, v)

Spec == Init /\ [][Next]_vars

-----------------------------------------------------------------------------
(* The readers.  What they are given is a prefix of the records: the copy  *)
(* of a file still being written, or what the last flush has left of it; a *)
(* record cut short ends the reading.                                      *)

Connus(lecteur) == {"S", "D", "T", "A"} \cup IF lecteur = "banc" THEN {"P"} ELSE {}

\* First pass: the reading stops at the first record the reader does not know.
Lisible(lecteur, f) ==
  LET inconnus == {i \in DOMAIN f : f[i].k \notin Connus(lecteur)}
  IN  IF inconnus = {} THEN f
      ELSE SubSeq(f, 1, (CHOOSE i \in inconnus : \A j \in inconnus : i <= j) - 1)

\* The records of a kind, the last of some ranks, and the i-th of them.
Rangs(f, k) == {i \in DOMAIN f : f[i].k = k}
Dernier(rangs) == CHOOSE r \in rangs : \A q \in rangs : q <= r
Rang(rangs, i) == CHOOSE r \in rangs : Cardinality({q \in rangs : q <= r}) = i

\* Each tick keeps what follows its 'T' up to the next one; the last of the table keeps
\* all that follows.
Ticks(f) ==
  LET tous == Rangs(f, "T")
      n == IF Cardinality(tous) < Table THEN Cardinality(tous) ELSE Table
  IN  [i \in 1 .. n |-> SubSeq(f, Rang(tous, i), IF i = n THEN Len(f) ELSE Rang(tous, i + 1) - 1)]

\* The starting state: the last 'S', which 'D' does not touch; else that of the local boot.
Depart(f) ==
  LET etats == Rangs(f, "S")
  IN  IF etats = {} THEN [m \in Mots |-> 0] ELSE f[Dernier(etats)].maj

\* What the records of some ranks leave in each word: the last that gives it, or what it held.
Poser(a, records, rangs) ==
  [m \in Mots |->
     LET donnent == {i \in rangs : m \in DOMAIN records[i].maj}
     IN  IF donnent = {} THEN a[m] ELSE records[Dernier(donnent)].maj[m]]

\* The windows are not told apart.
Appliquer_Toutes(a, records, fenetre) == Poser(a, records, Rangs(records, "A"))

\* The ARM's writes of one window of a tick.
Appliquer(a, records, fenetre) ==
  Poser(a, records, {i \in Rangs(records, "A") : records[i].fenetre = fenetre})

\* One tick: window 0, phase A, window 1, phase B.
JouerTick(etat, records) ==
  LET a == Appliquer(etat.api, records, 0)
      b == Appliquer(Rom(a), records, 1)
  IN  [api |-> Rom(b), phases |-> etat.phases \o <<a, b>>]

\* tools/rejeu_banc.c: the API RAM at the start of each phase it plays.
Rejeu(f) ==
  LET l == Lisible("banc", f)
      ticks == Ticks(l)
      etat[i \in 0 .. Len(ticks)] ==
        IF i = 0 THEN [api |-> Depart(l), phases |-> <<>>] ELSE JouerTick(etat[i - 1], ticks[i])
  IN  etat[Len(ticks)].phases

-----------------------------------------------------------------------------
(* tools/layer1_tester.c: the same replay, which counts who reads and who  *)
(* writes each word.                                                       *)

\* Valeurs: a table of at most NVal values and their counts, v[x] = 0 for a value absent.
SansValeur == [compte |-> [x \in Valeurs |-> 0], plus |-> FALSE]

Presentes(t) == {x \in Valeurs : t.compte[x] > 0}

\* When the table is full, the newcomer takes the place of the others.
Valeur_Remplace(t, x) ==
  IF x \in Presentes(t) \/ Cardinality(Presentes(t)) < NVal
  THEN [t EXCEPT !.compte[x] = @ + 1]
  ELSE [compte |-> [y \in Valeurs |-> IF y = x THEN 1 ELSE 0], plus |-> TRUE]

\* valeur: a value of the table or a free place is counted; a full table loses one of each.
Valeur(t, x) ==
  IF x \in Presentes(t) \/ Cardinality(Presentes(t)) < NVal
  THEN [t EXCEPT !.compte[x] = @ + 1]
  ELSE [compte |-> [y \in Valeurs |-> IF t.compte[y] > 0 THEN t.compte[y] - 1 ELSE 0],
        plus |-> TRUE]

\* The account of a word: modifications by the ARM and their values, one pending and since
\* when, consumed by a read of the ROM and after how long, overwritten before one.
SansCompte == [arm |-> 0, val |-> SansValeur, vues |-> <<>>,
               pend |-> FALSE, depuis |-> 0, conso |-> 0, latence |-> 0, ecrase |-> 0]

\* ecrire_arm
EcrireArm(c, v, t) ==
  [c EXCEPT !.arm = @ + 1, !.val = Valeur(@, v), !.vues = Append(@, v),
            !.ecrase = IF c.pend THEN @ + 1 ELSE @, !.pend = TRUE, !.depuis = t]

\* calypso_mbx_evt, a read by an instruction of the ROM
LireRom(c, t) ==
  IF ~c.pend THEN c
  ELSE [c EXCEPT !.pend = FALSE, !.conso = @ + 1, !.latence = @ + t - c.depuis]

\* What a record writes in a word, and in both.
CompterMot(c, m, r, t) == IF m \in DOMAIN r.maj THEN EcrireArm(c, r.maj[m], t) ELSE c

Compter(comptes, r, fenetre, t) ==
  IF r.k # "A" \/ r.fenetre # fenetre THEN comptes
  ELSE [comptes EXCEPT ![Commande] = CompterMot(@, Commande, r, t), ![Reponse] = CompterMot(@, Reponse, r, t)]

\* The writes of a window, then the phase, which reads the command word.
CompterPhase(comptes, records, fenetre, t) ==
  LET ecrits[i \in 0 .. Len(records)] ==
        IF i = 0 THEN comptes ELSE Compter(ecrits[i - 1], records[i], fenetre, t)
  IN  [ecrits[Len(records)] EXCEPT ![Commande] = LireRom(@, t)]

CompterTick(comptes, records) ==
  LET t == records[1].tick
  IN  CompterPhase(CompterPhase(comptes, records, 0, t), records, 1, t)

Comptes(f) ==
  LET ticks == Ticks(Lisible("testeur", f))
      bilan[i \in 0 .. Len(ticks)] ==
        IF i = 0 THEN [m \in Mots |-> SansCompte] ELSE CompterTick(bilan[i - 1], ticks[i])
  IN  bilan[Len(ticks)]

-----------------------------------------------------------------------------
(* Properties.                                                             *)

Enregistrements(f) == {f[i] : i \in 1 .. Len(f)}

TypeOK ==
  /\ api \in Ram /\ (snap = SansCliche \/ snap \in Ram)
  /\ actif \in BOOLEAN /\ base \in BOOLEAN /\ trou \in BOOLEAN /\ derive \subseteq Mots
  /\ pc \in {"entre", "l1sync", "reste", "suite"} /\ tick \in 0 .. MaxTicks
  /\ vecu \in Seq(Ram) /\ compte \in [ecrits: 0 .. MaxEcrits, tch: 0 .. MaxTch]
  /\ \A r \in Enregistrements(fichier) :
       /\ r.k \in {"S", "D", "P", "T", "A"} /\ r.tick \in 1 .. MaxTicks
       /\ r.fenetre \in {0, 1} /\ DOMAIN r.maj \subseteq Mots
  /\ Cardinality({i \in DOMAIN fichier : fichier[i].k = "S"}) = IF base THEN 1 ELSE 0

\* The words that no write without a record has reached, by itself or through the ROM.
Surs == {m \in Mots : {m, Commande} \cap derive = {}}

\* As long as no window is missing, the replay plays the ROM on the API RAM the bridge has
\* played it on, phase for phase, in every word but those that a write without a record has
\* reached; so what the bridge writes in the ROM's answers, for the ARM to read, leaves what
\* the ROM is given as it was.  From a file cut anywhere it only plays its last tick
\* otherwise, and from one longer than its table, the last tick it keeps.
RejeuFidele ==
  ~trou =>
    /\ \A n \in 0 .. Len(fichier) :
         LET phases == Rejeu(SubSeq(fichier, 1, n))
         IN  \A i \in 1 .. Len(phases) - 2, m \in Surs : phases[i][m] = vecu[i][m]
    /\ pc = "entre" /\ Len(vecu) <= 2 * Table =>
         LET phases == Rejeu(fichier)
         IN  /\ Len(phases) = Len(vecu)
             /\ \A i \in 1 .. Len(vecu), m \in Surs : phases[i][m] = vecu[i][m]

\* A file in the format that the header of layer1_tester gives: without its 'P'.
SansP(f) ==
  IF Rangs(f, "P") = {} THEN f
  ELSE LET p == Dernier(Rangs(f, "P")) IN  SubSeq(f, 1, p - 1) \o SubSeq(f, p + 1, Len(f))

\* The account of a word: each modification is somewhere.
Conserves(c) == c.arm = c.conso + c.ecrase + (IF c.pend THEN 1 ELSE 0)

Occurrences(c, x) == Cardinality({i \in DOMAIN c.vues : c.vues[i] = x})

\* The table of its values.
TableJuste(c) ==
  \A x \in Valeurs :
    /\ c.val.compte[x] <= Occurrences(c, x)
    /\ ~c.val.plus => c.val.compte[x] = Occurrences(c, x)
    /\ Occurrences(c, x) * (NVal + 1) > c.arm => x \in Presentes(c.val)

\* The account of layer1_tester, on a file of the format its header gives, is even: each
\* modification of the ARM was read, overwritten or is pending; a value it gave in more
\* than one write out of NVal + 1 is in the table, and the table is exact until it
\* overflows.
BilanJuste ==
  LET comptes == Comptes(SansP(fichier))
  IN  \A m \in Mots : Conserves(comptes[m]) /\ TableJuste(comptes[m])

\* "Replays a dedicated-channel recording (/dev/shm/calypso_rejeu_tch.bin [...])" as
\* rejeu_banc does: the same ticks.
TesteurJoue == Len(Ticks(Lisible("testeur", fichier))) = Len(Ticks(Lisible("banc", fichier)))
=============================================================================
