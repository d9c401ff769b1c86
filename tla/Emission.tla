------------------------------- MODULE Emission -------------------------------
(***************************************************************************)
(* What the ROM transmits, on its way to the air (pont.c: tx_rom_publier,  *)
(* tx_tsp_publier, rach_pend_*, tx_rach_vers_air; tsp_tx.c; montant.c: the *)
(* detection of access bursts).  At the end of each frame the process sees *)
(* the page the firmware has posted and what the ROM has left behind, and  *)
(* tells from them that an access burst or a block of four bursts left.    *)
(*                                                                         *)
(* An access burst is detected in the page, the frame it is posted or      *)
(* later, and waits for its transmission, by which it is dated.  A block   *)
(* is collected burst by burst from the pointer of the ROM's buffer.       *)
(*                                                                         *)
(* The environment is the firmware and the ROM.  The bench is that of the  *)
(* TI firmware, CALYPSO_RACH_VERS_AIR=1: the access burst is coded by the  *)
(* process, the capture of the ROM's script only says when it left, and    *)
(* what the capture itself adds to the ring, under its own type, is left   *)
(* out.  Other settings are at their defaults, save                        *)
(* MONTANT_EFFACE_TASK_RA and MONTANT_RACH_DIFFERE.                        *)
(***************************************************************************)
EXTENDS Integers, Sequences

CONSTANTS
  Ras,          \* values of d_rach
  Residu,       \* what the ROM leaves in that word before the first access
  GardeTrames,  \* RACH_GARDE_TRAMES (4)
  Ecart,        \* frames between two accesses, at least
  MaxAcces,     \* bound: accesses
  MaxBlocs      \* bound: blocks

ASSUME EmissionAssumption ==
  /\ Residu \notin Ras \cup {0} /\ 0 \notin Ras
  /\ GardeTrames \in Nat /\ Ecart \in Nat /\ Ecart >= GardeTrames /\ Ecart > 3
  /\ MaxAcces \in Nat /\ MaxBlocs \in Nat

\* MONTANT_EFFACE_TASK_RA is unset, "1" (the process clears the task) or "0" (the ROM
\* keeps it, and only its edge counts).  A firmware that writes the value a frame
\* after the task goes with MONTANT_RACH_DIFFERE=1.
Installations ==
  {i \in [efface: {"defaut", "oui", "non"}, tardif: BOOLEAN, differe: 0 .. 1] :
     i.tardif <=> i.differe = 1}

Retard == 3         \* ticks a burst waits for its transmission
Hors == 4           \* a pointer outside of the buffer
Tour == {0, 1, 2, 3}
RienEmis == <<"rien", 0, 0>>

VARIABLES
  ici,      \* the installation
  etape,    \* "l1" (the firmware), "fin" (the end of the frame)
  page,     \* the page in force carries the RACH task
  dRach,    \* the word d_rach: 0, Residu or a value
  aEcrire,  \* the value the firmware is about to write there, 0 = none
  depuis,   \* frames since the last access was posted (capped)
  aLire,    \* the access posted that the ROM has not transmitted, 0 = none
  m,        \* montant.c: base_rach, prev_rach, tache_avant, rach_vu, the age of fn_rach
            \* (capped), rach_attente, the age of fn_attente, and whose access it is
  p,        \* pont.c: g_rach_pend (age of its tick, the access and the value it holds, its
            \* tick counted from the posting), the age of g_rom_emis_tick (capped), and the
            \* words tsp_tx_lire remembers
  cu,       \* the block posted in a_cu: number, flag, posted in this frame
  rom,      \* the ROM: pointer in its buffer, the block it sends, bursts still to come
  u,        \* tx_rom_publier: pointer before, mask, bursts collected, L2, L2 last posted
  acces,    \* history: each access, see AccesType
  blocs     \* history: each block: bursts sent, times published whole, damaged

vars == <<ici, etape, page, dRach, aEcrire, depuis, aLire, m, p, cu, rom, u, acces, blocs>>

\* emis, date: tick of its transmission, and the one it is published with, counted from its
\* posting (-1 = none); ra: its value; pub: times published; juste: with its own value;
\* pareil: its burst is that of the one before; long: its page stays as long as the guard.
AccesType == [ra: Ras, emis: -1 .. 1, date: -1 .. Ecart + Retard, pub: 0 .. 2, juste: BOOLEAN,
              pareil: BOOLEAN, long: BOOLEAN]
BlocType == [emis: 0 .. 4, pub: 0 .. 2, abime: BOOLEAN]

Init ==
  /\ ici \in Installations /\ etape = "l1"
  /\ page = FALSE /\ dRach = Residu /\ aEcrire = 0 /\ depuis = Ecart /\ aLire = 0
  /\ m = [base |-> FALSE, prev |-> 0, avant |-> FALSE, vu |-> FALSE, age |-> GardeTrames,
          attente |-> FALSE, ageAttente |-> 0, id |-> 0]
  /\ p = [actif |-> FALSE, age |-> 0, id |-> 0, ra |-> 0, pose |-> 0, emis |-> 2, prec |-> RienEmis]
  /\ cu = [bloc |-> 0, blud |-> FALSE, neuf |-> FALSE]
  /\ rom = [ptr |-> Hors, bloc |-> 0, reste |-> 0]
  /\ u = [prev |-> Hors, masque |-> {}, bits |-> [b \in Tour |-> 0], l2 |-> 0, pose |-> 0]
  /\ acces = <<>> /\ blocs = <<>>

-----------------------------------------------------------------------------
(* The firmware, in l1_sync.                                               *)

Plafond(x, max) == IF x < max THEN x + 1 ELSE max

\* The value is written a frame after the task, where it is late.
EcrireTard == IF aEcrire = 0 THEN dRach ELSE aEcrire

\* A page with the RACH task.
PoserAcces(ra) ==
  /\ depuis = Ecart /\ Len(acces) < MaxAcces /\ rom.reste = 0 /\ aEcrire = 0 /\ ~page
  /\ page' = TRUE /\ depuis' = 0 /\ aLire' = Len(acces) + 1
  /\ IF ici.tardif THEN aEcrire' = ra /\ UNCHANGED dRach ELSE dRach' = ra /\ UNCHANGED aEcrire
  /\ acces' = Append(acces, [ra |-> ra, emis |-> -1, date |-> -1, pub |-> 0, juste |-> TRUE,
                             pareil |-> FALSE, long |-> FALSE])
  /\ UNCHANGED <<cu, rom, blocs>>

\* No page, or one without the RACH task.
PasDAcces ==
  /\ page' \in {page, FALSE}
  /\ depuis' = Plafond(depuis, Ecart)
  /\ dRach' = EcrireTard /\ aEcrire' = 0
  /\ acces' = IF page' /\ depuis' >= GardeTrames
              THEN [acces EXCEPT ![Len(acces)].long = TRUE] ELSE acces
  /\ UNCHANGED aLire

\* A block in a_cu, when the one before has been sent or given up.
PoserBloc ==
  /\ rom.reste = 0 /\ aLire = 0 /\ Len(blocs) < MaxBlocs
  /\ cu' = [bloc |-> Len(blocs) + 1, blud |-> TRUE, neuf |-> TRUE]
  /\ rom' = [rom EXCEPT !.reste = 4]
  /\ blocs' = Append(blocs, [emis |-> 0, pub |-> 0, abime |-> FALSE])

\* The channel is left while a block is sent: its last bursts never come.  The block that
\* follows the first burst alone finds the pointer where it was.
Quitter ==
  /\ rom.reste \in 1 .. 3
  /\ rom' \in [ptr: {rom.ptr, Hors}, bloc: {rom.bloc}, reste: {0}]
  /\ UNCHANGED <<cu, blocs>>

L1Sync ==
  /\ etape = "l1" /\ etape' = "fin"
  /\ \/ \E ra \in Ras : PoserAcces(ra)
     \/ PasDAcces /\ (PoserBloc \/ Quitter \/ UNCHANGED <<cu, rom, blocs>>)
  /\ UNCHANGED <<ici, m, p, u>>

-----------------------------------------------------------------------------
(* Access bursts.                                                          *)

\* ring_publier, of the burst that waits, dated with a tick counted from its posting.
Publie(hist, q, date) ==
  [hist EXCEPT ![q.id].pub = IF @ < 2 THEN @ + 1 ELSE 2, ![q.id].date = date,
               ![q.id].juste = @ /\ q.ra = hist[q.id].ra]

\* rach_pend_publier, on a pair <<state of pont.c, history>>.
RachPendPublier(s, date) ==
  IF s[1].actif THEN <<[s[1] EXCEPT !.actif = FALSE], Publie(s[2], s[1], date)>> ELSE s

\* rach_pend_echeance
Echeance(s) ==
  IF s[1].actif /\ s[1].age >= Retard THEN RachPendPublier(s, s[1].pose + 1) ELSE s

\* "remplace"
Remplacer(s) == RachPendPublier(s, s[1].pose + 1)

\* A slip: a transmission already seen does not date the burst.
DejaEmis_Jamais(s, age) == s

\* "emission ROM, meme tick"
DejaEmis(s, age) == IF s[1].emis = age THEN RachPendPublier(s, s[1].pose) ELSE s

\* publier_rach and tx_rach_vers_air: an access whose task was seen `age' ticks ago.
PublierRach(s, id, ra, age) ==
  LET t == Remplacer(s)
      pose == IF depuis >= age THEN depuis - age ELSE 0
  IN  DejaEmis(<<[t[1] EXCEPT !.actif = TRUE, !.age = age, !.id = id, !.ra = ra, !.pose = pose],
                 t[2]>>, age)

\* tsp_tx_lire, tx_tsp_publier: a script that has not changed says nothing; a new access
\* burst dates the one that waits.
Capturer(s, script) ==
  IF script \in {RienEmis, s[1].prec} THEN s
  ELSE LET t == <<[s[1] EXCEPT !.prec = script, !.emis = IF script[1] = "AB" THEN 0 ELSE @], s[2]>>
       IN  IF script[1] = "AB" /\ t[1].age < Retard
           THEN RachPendPublier(t, t[1].pose + t[1].age) ELSE t

\* front_seul
FrontSeul == ici.efface = "non"

\* montant_scruter, the RACH part, on a pair as above and the state of montant.c: the
\* deferred publication, then the detection.
Scruter(s) ==
  LET front == m.base /\ dRach # m.prev /\ dRach # 0
      nouveau == ~FrontSeul \/ ~m.avant \/ front
      du == m.attente /\ m.ageAttente >= ici.differe
      s1 == IF du /\ dRach # 0 THEN PublierRach(s, m.id, dRach, m.ageAttente) ELSE s
      vient == dRach # 0 /\ page /\ nouveau /\ (~m.vu \/ m.age >= GardeTrames)
  IN  [pont |-> IF vient /\ ici.differe = 0 THEN PublierRach(s1, Len(acces), dRach, 0) ELSE s1,
       vient |-> vient,
       montant |-> [base |-> TRUE, prev |-> dRach, avant |-> page, vu |-> m.vu \/ vient,
                    age |-> IF vient THEN 0 ELSE m.age,
                    attente |-> IF vient THEN ici.differe > 0 ELSE m.attente /\ ~du,
                    ageAttente |-> IF vient THEN 0 ELSE m.ageAttente,
                    id |-> IF vient THEN Len(acces) ELSE m.id]]

-----------------------------------------------------------------------------
(* Blocks.                                                                 *)

\* A slip: an empty mask, and not the number of the burst, starts a block.
DebutBloc_Masque(b) == u.masque = {}

DebutBloc(b) == b = 0

Masque(b) == IF DebutBloc(b) THEN {b} ELSE u.masque \cup {b}

\* The number of the burst the pointer has just left, and a slip in it (no "& 3").
NumeroBurst_SansTour(ptr) == ptr + 3

NumeroBurst(ptr) == (ptr + 3) % 4

\* tx_rom_publier: the pointer has moved, a burst has left.
Collecter(ptr, bloc) ==
  IF ptr = u.prev THEN u
  ELSE IF ptr = Hors THEN [u EXCEPT !.prev = ptr, !.masque = {}]
  ELSE LET b == NumeroBurst(ptr)
       IN  [u EXCEPT !.prev = ptr, !.bits[b] = bloc,
                     !.l2 = IF DebutBloc(b) THEN u.pose ELSE @,
                     !.masque = IF b = 3 THEN {} ELSE Masque(b)]

Part(ptr) == ptr # u.prev /\ ptr = 0 /\ Masque(3) = Tour

\* The history of a publication: the block of the last burst, whole and with its L2, or damaged.
BlocPublie(hist, apres) ==
  LET bloc == apres.bits[3]
  IN  IF apres.l2 = bloc /\ \A b \in Tour : apres.bits[b] = bloc
      THEN [hist EXCEPT ![bloc].pub = IF @ < 2 THEN @ + 1 ELSE 2]
      ELSE [hist EXCEPT ![bloc].abime = TRUE]

\* tx_rom_pose: the L2 of a block whose flag is up.
Pose(v, blud) == IF blud THEN [v EXCEPT !.pose = cu.bloc] ELSE v

-----------------------------------------------------------------------------
(* A frame: the DSP, then the end of the frame.                            *)

\* What the ROM does in a frame: the block posted is coded with its first burst; an access
\* leaves in the frame it is posted or in the next one.
RomAcces == aLire # 0
RomBurst == aLire = 0 /\ rom.reste > 0 /\ ~cu.neuf
RomRien  == (aLire # 0 => depuis = 0) /\ (rom.reste > 0 => cu.neuf)

ScriptAcces(id) == <<"AB", acces[id].ra, 0>>
ScriptBurst(bloc, b) == <<"NB", bloc, b>>

\* The end of a frame in which the ROM has left `script' and `ptr', with the histories after it:
\* tx_tsp_dater if the frame interrupt was raised, then tx_rom_publier, tx_tsp_publier,
\* montant_scruter, tx_rom_pose.
Fin(it, script, ptr, bloc, emise, envoyes, blud, enCours) ==
  LET s0 == IF it THEN Echeance(<<p, emise>>) ELSE <<p, emise>>
      s1 == Capturer(s0, script)
      r == Scruter(s1)
      efface == r.vient /\ ici.efface = "oui"
      u1 == Collecter(ptr, bloc)
  IN  /\ u' = Pose(u1, blud)
      /\ blocs' = IF Part(ptr) THEN BlocPublie(envoyes, u1) ELSE envoyes
      /\ acces' = r.pont[2]
      /\ p' = [r.pont[1] EXCEPT !.age = Plafond(@, Retard), !.emis = Plafond(@, 2)]
      /\ m' = [r.montant EXCEPT !.age = Plafond(@, GardeTrames), !.ageAttente = Plafond(@, 1)]
      /\ page' = (page /\ ~efface)
      /\ aLire' = IF efface THEN 0 ELSE enCours

Trame ==
  /\ etape = "fin" /\ etape' = "l1"
  /\ \/ /\ RomAcces
        /\ LET emise == [acces EXCEPT ![aLire].emis = depuis,
                                      ![aLire].pareil = ScriptAcces(aLire) = p.prec]
           IN  Fin(TRUE, ScriptAcces(aLire), rom.ptr, rom.bloc, emise, blocs, cu.blud, 0)
        /\ cu' = [cu EXCEPT !.neuf = FALSE] /\ UNCHANGED rom
     \/ /\ RomBurst
        /\ LET b == 4 - rom.reste
               ptr == (b + 1) % 4
           IN  /\ rom' = [ptr |-> ptr, bloc |-> cu.bloc, reste |-> rom.reste - 1]
               /\ cu' = [cu EXCEPT !.blud = FALSE]
               /\ \E it \in BOOLEAN :
                    Fin(it, ScriptBurst(cu.bloc, b), ptr, cu.bloc, acces,
                        [blocs EXCEPT ![cu.bloc].emis = b + 1], FALSE, 0)
     \/ /\ RomRien
        /\ \E it \in BOOLEAN : Fin(it, p.prec, rom.ptr, rom.bloc, acces, blocs, cu.blud, aLire)
        /\ cu' = [cu EXCEPT !.neuf = FALSE] /\ UNCHANGED rom
  /\ UNCHANGED <<ici, dRach, aEcrire, depuis>>

Next == L1Sync \/ Trame

Spec == Init /\ [][Next]_vars

-----------------------------------------------------------------------------
(* Properties.                                                             *)

TypeOK ==
  /\ ici \in Installations /\ etape \in {"l1", "fin"} /\ page \in BOOLEAN
  /\ dRach \in Ras \cup {Residu} /\ aEcrire \in Ras \cup {0} /\ depuis \in 0 .. Ecart
  /\ aLire \in 0 .. Len(acces)
  /\ m \in [base: BOOLEAN, prev: Ras \cup {0, Residu}, avant: BOOLEAN, vu: BOOLEAN,
            age: 0 .. GardeTrames, attente: BOOLEAN, ageAttente: 0 .. 1, id: 0 .. Len(acces)]
  /\ p \in [actif: BOOLEAN, age: 0 .. Retard, id: 0 .. Len(acces), ra: Ras \cup {0, Residu},
            pose: 0 .. Ecart, emis: 0 .. 2,
            prec: {RienEmis} \cup ({"AB"} \X Ras \X {0}) \cup ({"NB"} \X (1 .. Len(blocs)) \X Tour)]
  /\ cu \in [bloc: 0 .. Len(blocs), blud: BOOLEAN, neuf: BOOLEAN]
  /\ rom \in [ptr: 0 .. Hors, bloc: 0 .. Len(blocs), reste: 0 .. 4]
  /\ u \in [prev: 0 .. Hors, masque: SUBSET Tour, bits: [Tour -> 0 .. Len(blocs)],
            l2: 0 .. Len(blocs), pose: 0 .. Len(blocs)]
  /\ acces \in Seq(AccesType) /\ Len(acces) <= MaxAcces
  /\ blocs \in Seq(BlocType) /\ Len(blocs) <= MaxBlocs

\* With the default setting neither the process nor the edge filter makes the task go away
\* (the filter asks for MONTANT_EFFACE_TASK_RA=0 in so many words): a task that stands as long
\* as the guard is taken again every GardeTrames frames, up to the frame before access i.
Repris(i) == ici.efface = "defaut" /\ \E j \in 1 .. i : acces[j].long

\* An access goes to the air with its own value, once, and dated with the frame the ROM
\* transmitted it in, however the posting, the value, the transmission and the interrupt fall.
\* Two exceptions, which are the code's: a task that stands, as above, and a burst equal to
\* the one before, which is not seen leaving (tsp_tx.c compares the scripts) and is dated
\* one frame late when it left at once.
AccesFidele ==
  \A i \in DOMAIN acces :
    LET a == acces[i] IN
    /\ a.juste
    /\ a.pub <= 1 \/ Repris(i)
    /\ a.pub = 1 /\ a.emis >= 0 /\ ~Repris(i) => a.date = IF a.pareil THEN 1 ELSE a.emis

\* Nothing is lost on the way: an access whose frames are past has gone to the air, unless it
\* was posted in the guard of one that stood, and a block whose four bursts have left has
\* been published whole, unless the block before it was given up after its first burst.
RienPerdu ==
  /\ depuis > Retard + 1 /\ etape = "l1" /\ ~p.actif
       => \A i \in DOMAIN acces : acces[i].pub >= 1 \/ Repris(i - 1)
  /\ \A i \in DOMAIN blocs :
       etape = "l1" /\ blocs[i].emis = 4 /\ (i > 1 => blocs[i - 1].emis # 1) => blocs[i].pub = 1

\* A block published is one block: its four bursts and the L2 beside them were posted
\* together.  Again except after a block given up at its first burst, since the first burst
\* of the next one leaves the pointer where it was (pont.c:1264).
BlocEntier ==
  \A i \in DOMAIN blocs :
    blocs[i].abime => (i > 1 /\ blocs[i - 1].emis = 1)

\* The two together: everything posted goes to the air, and goes whole.
EmissionEntiere == RienPerdu /\ BlocEntier
=============================================================================
