------------------------------ MODULE Descente -------------------------------
(***************************************************************************)
(* montant.c: the downlink prostheses.  Once per frame, after the ROM has  *)
(* played it, the bridge decodes by itself the block that ends at the last *)
(* burst the BSP has delivered, and posts it in the word of the API RAM    *)
(* the firmware reads: FACCH and speech of a TCH/F (a_fd, a_dd), FACCH/H   *)
(* and SACCH/TH of a TCH/H (a_fd, a_cd).                                   *)
(*                                                                         *)
(* A burst is its frame, its channel and its key.  libosmocoding answers   *)
(* the block when it is given all its bursts in order and deciphered,      *)
(* nothing otherwise; the 3 bits of parity of full-rate speech let noise   *)
(* through.  The bursts of an earlier channel stay in the BSP.  The BTS    *)
(* follows the tables of 45.002 (clause 7), written below as tables.       *)
(***************************************************************************)
EXTENDS Integers, Sequences, FiniteSets

CONSTANTS
  Cas,        \* where a run starts: frame number, timeslot of the TCH/H
  Hyper,      \* hyperframe (2715648), a multiple of 104
  Profondeur, \* frames the BSP keeps
  Garde,      \* frames an uplink task is waited for (102)
  Moments,    \* bound: frames of the run where the ARM or the network may act
  Pertes,     \* bound: frames of the run where a burst may be lost
  Duree       \* bound: frames of a run

ASSUME DescenteAssumption ==
  /\ Hyper \in Nat \ {0} /\ Hyper % 104 = 0
  /\ Cas \subseteq [debut: 0 .. Hyper - 1, tn: 1 .. 7]
  /\ {Profondeur, Garde, Duree} \subseteq Nat
  /\ Moments \subseteq Nat /\ Pertes \subseteq Nat

VARIABLES
  cas,     \* chosen before the start
  pc,      \* who runs: the ARM, the DSP, the bridge
  n,       \* frames since the start
  canal,   \* the channel announced: g.tch_demi, g.tch_demi_ss; id tells two of them apart
  reseau,  \* what the BTS ciphers with
  a5,      \* d_a5mode and a_kc, as the firmware has set them
  cle,     \* g_cle_tchh, g_cle_tchh_algo
  bsp,     \* the channel it plays, the bursts delivered, by frame number, the last one,
           \* and the block it ends
  deja,    \* the static frame number of each prosthesis
  mots,    \* a_fd, a_dd, a_cd
  dedie,   \* g_ti_dedie, and the frames since the last uplink task
  fini,    \* the block that has ended in this frame
  sue,     \* history: the last key the firmware has set on this TCH/H
  lus      \* history: the words in which the firmware has read the block of the last burst

vars == <<cas, pc, n, canal, reseau, a5, cle, bsp, deja, mots, dedie, fini, sue, lus>>

Clair == "clair"
Kc == "kc"
Aucun == -1

fn == (cas.debut + n) % Hyper

\* A block, and a word of the API RAM: a block present or not, judged bad or not.
Bloc(genre, fin) == [genre |-> genre, fin |-> fin]
Rien == Bloc("rien", Aucun)
Bruit == Bloc("bruit", Aucun)
Vide == [blud |-> FALSE, ko |-> FALSE, bloc |-> Rien]
Bon(b) == [blud |-> TRUE, ko |-> FALSE, bloc |-> b]
Mauvais == [blud |-> TRUE, ko |-> TRUE, bloc |-> Bruit]

Repos == [genre |-> "sdcch", ss |-> 0, id |-> 0]

Init ==
  /\ cas \in Cas /\ pc = "arm" /\ n = 0
  /\ canal = Repos /\ reseau = Clair /\ a5 = Clair /\ cle = Clair
  /\ bsp = [joue |-> Repos, recus |-> <<>>, dernier |-> Aucun, fini |-> Rien]
  /\ deja = [facch |-> Aucun, facchh |-> Aucun, sacch |-> Aucun]
  /\ mots = [fd |-> Vide, dd |-> Vide, cd |-> Vide]
  /\ dedie = [ti |-> FALSE, depuis |-> Garde] /\ fini = Rien
  /\ sue = Clair /\ lus = {}

-----------------------------------------------------------------------------
(* The BTS: the frames of each block, by multiframe of 26 or 104.          *)

TableTchF ==
  {<<0, 1, 2, 3, 4, 5, 6, 7>>, <<4, 5, 6, 7, 8, 9, 10, 11>>, <<8, 9, 10, 11, 13, 14, 15, 16>>,
   <<13, 14, 15, 16, 17, 18, 19, 20>>, <<17, 18, 19, 20, 21, 22, 23, 24>>,
   <<21, 22, 23, 24, 26, 27, 28, 29>>}

TableFacchH == << {<<4, 6, 8, 10, 13, 15>>, <<13, 15, 17, 19, 21, 23>>, <<21, 23, 26, 28, 30, 32>>},
                  {<<5, 7, 9, 11, 14, 16>>, <<14, 16, 18, 20, 22, 24>>, <<22, 24, 27, 29, 31, 33>>} >>

TableSacchH(tn) == CASE tn \in {0, 1} -> <<{<<12, 38, 64, 90>>}, {<<25, 51, 77, 103>>}>>
                     [] tn \in {2, 3} -> <<{<<38, 64, 90, 116>>}, {<<51, 77, 103, 129>>}>>
                     [] tn \in {4, 5} -> <<{<<64, 90, 116, 142>>}, {<<77, 103, 129, 155>>}>>
                     [] tn \in {6, 7} -> <<{<<90, 116, 142, 168>>}, {<<103, 129, 155, 181>>}>>

\* The frames of the block of a table that ends at frame e, the last first difference to it.
Trames(table, periode, e) ==
  {[i \in DOMAIN r |-> e - r[Len(r)] + r[i]] : r \in {x \in table : (e - x[Len(x)]) % periode = 0}}

BlocTchF(e) == Trames(TableTchF, 26, e)
BlocFacchH(e, ss) == Trames(TableFacchH[ss + 1], 26, e)
BlocSacchH(e, ss) == Trames(TableSacchH(cas.tn)[ss + 1], 104, e)

\* The blocks that may end at frame fn on the channel the BSP plays.
Finissants ==
  LET sur(genre) == bsp.joue.genre = genre
      de(table, genres) == IF table = {} THEN {} ELSE genres
      blocs == IF sur("tchf") THEN de(BlocTchF(fn), {"facch", "parole"})
               ELSE IF sur("tchh") THEN de(BlocSacchH(fn, bsp.joue.ss), {"sacch"})
                                        \cup de(BlocFacchH(fn, bsp.joue.ss), {"facch", "rien"})
               ELSE {}
  IN  IF blocs = {} THEN {Rien} ELSE {IF x = "rien" THEN Rien ELSE Bloc(x, n) : x \in blocs}

-----------------------------------------------------------------------------
(* libosmocoding: what a sequence of bursts of the BSP decodes to.         *)

Recu(f) == f \in DOMAIN bsp.recus

\* All the bursts of a block of the channel they were sent on, with this key.
Entier(seq, trames, genre, k) ==
  /\ seq \in trames
  /\ \A i \in DOMAIN seq :
       /\ Recu(seq[i]) /\ bsp.recus[seq[i]].canal.genre = genre
       /\ bsp.recus[seq[i]].canal = bsp.recus[seq[1]].canal /\ bsp.recus[seq[i]].cle = k

\* gsm0503_tch_fr_decode, the bursts taken as they are.
DecoderTchF(seq) ==
  IF Entier(seq, BlocTchF(seq[8]), "tchf", Clair) THEN {bsp.fini} ELSE {Rien, Bruit}

\* gsm0503_tch_hr_decode2, the bursts deciphered with k; a speech block is not taken.
DecoderFacchH(seq, k) ==
  LET ss == bsp.recus[bsp.dernier].canal.ss
  IN  IF Entier(seq, BlocFacchH(seq[6], ss), "tchh", k) THEN bsp.fini ELSE Rien

\* gsm0503_xcch_decode
DecoderSacchH(seq, k) ==
  LET ss == bsp.recus[bsp.dernier].canal.ss
  IN  IF Entier(seq, BlocSacchH(seq[4], ss), "tchh", k) THEN bsp.fini ELSE Rien

-----------------------------------------------------------------------------
(* The prostheses.  Each gives the set of what the words may become.       *)

Libre(f) == f % 26 \notin {12, 25}

\* The p last frames of a set that ends at e, oldest first: f-- from e.
Remonter(bons, p) ==
  [i \in 1 .. p |-> CHOOSE f \in bons : Cardinality({x \in bons : x >= f}) = p + 1 - i]

HuitDerniers(e) == Remonter({f \in e - 30 .. e : Libre(f)}, 8)

\* The parity of the frame, which changes at the idle frame 12, for that of the subchannel.
SixDerniers_Parite(e, ss) == Remonter({f \in e - 30 .. e : Libre(f) /\ f % 2 = ss}, 6)

Rang(f) == IF f % 26 < 12 THEN f % 26 ELSE (f % 26) - 13

SixDerniers(e, ss) == Remonter({f \in e - 30 .. e : Libre(f) /\ Rang(f) % 2 = ss}, 6)

QuatreDerniers(e) == <<e - 78, e - 52, e - 26, e>>

DejaBon(mot) == mot.blud /\ ~mot.ko

\* Speech posted in the word of the FACCH.
ProtheseParole_Fd(m, bloc) == IF DejaBon(m.dd) THEN m ELSE [m EXCEPT !.fd = Bon(bloc)]

\* prothese_parole_dl, mode 1: only replaces what the ROM judged bad.
ProtheseParole(m, bloc) == IF DejaBon(m.dd) THEN m ELSE [m EXCEPT !.dd = Bon(bloc)]

Nouveau(d) == bsp.dernier # Aucun /\ bsp.dernier # d

Present(seq) == \A i \in DOMAIN seq : Recu(seq[i])

ProtheseFacch(m) ==
  LET e == bsp.dernier
      seq == HuitDerniers(e)
      utile == /\ dedie.ti /\ Nouveau(deja.facch)
               /\ Libre(e) /\ (e % 13) % 4 = 3 /\ Present(seq)
      poser(b) == CASE b.genre = "facch" -> [m EXCEPT !.fd = Bon(b)]
                    [] b.genre \in {"parole", "bruit"} -> ProtheseParole(m, b)
                    [] OTHER -> m
  IN  IF utile THEN {poser(b) : b \in DecoderTchF(seq)} ELSE {m}

\* Forgotten outside a TCH/H, and kept on it when the firmware clears d_a5mode.
SuivreCle == IF canal.genre # "tchh" THEN Clair ELSE IF a5 = Clair THEN cle ELSE a5

ProtheseFacchH(m) ==
  LET e == bsp.dernier
      seq == SixDerniers(e, canal.ss)
      utile == /\ canal.genre = "tchh" /\ Nouveau(deja.facchh)
               /\ Libre(e) /\ (e - canal.ss) % 26 \in {15, 23, 6} /\ Present(seq)
      chiffre == DecoderFacchH(seq, cle')
      b == IF chiffre # Rien THEN chiffre ELSE DecoderFacchH(seq, Clair)
  IN  IF utile /\ b # Rien /\ ~DejaBon(m.fd) THEN [m EXCEPT !.fd = Bon(b)] ELSE m

\* No second try in clear here.
ProtheseSacchH(m) ==
  LET e == bsp.dernier
      base == (12 + 26 * (cas.tn \div 2) + 13 * canal.ss) % 104
      utile == /\ canal.genre = "tchh" /\ Nouveau(deja.sacch)
               /\ e % 104 = (base + 78) % 104 /\ Present(QuatreDerniers(e))
      b == DecoderSacchH(QuatreDerniers(e), cle')
  IN  IF utile /\ b # Rien /\ ~DejaBon(m.cd) THEN [m EXCEPT !.cd = Bon(b)] ELSE m

\* No note of the frame number.
Noter_Oubli == deja

\* The frame number is noted by each prosthesis that is on, before it looks at its position.
Noter == [facch |-> IF dedie.ti /\ Nouveau(deja.facch) THEN bsp.dernier ELSE deja.facch,
          facchh |-> IF canal.genre = "tchh" /\ Nouveau(deja.facchh) THEN bsp.dernier ELSE deja.facchh,
          sacch |-> IF canal.genre = "tchh" /\ Nouveau(deja.sacch) THEN bsp.dernier ELSE deja.sacch]

\* The firmware has posted an uplink task in the last Garde frames.
DedieTi == dedie.depuis < Garde

\* The part of montant_scruter that follows the downlink; the switch of the BSP is Canal's.
Scruter ==
  /\ pc = "pont" /\ pc' = "arm" /\ n' = n + 1
  /\ cle' = SuivreCle
  /\ \E m \in ProtheseFacch(mots) : mots' = ProtheseSacchH(ProtheseFacchH(m))
  /\ deja' = Noter
  /\ dedie' = [dedie EXCEPT !.ti = DedieTi]
  /\ bsp' = [bsp EXCEPT !.joue = canal]
  /\ UNCHANGED <<cas, canal, reseau, a5, fini, sue, lus>>

-----------------------------------------------------------------------------
(* The environment.                                                        *)

\* The firmware reads a word that holds a block, and clears it.
Lue(mot) == DejaBon(mot) /\ mot.bloc # Bruit

\* What the firmware or the network does between two frames: nothing, cipher, set the key,
\* clear it (DM_REL_REQ), open a TCH, give it back.
Arm ==
  /\ pc = "arm" /\ n < Duree /\ pc' = "dsp"
  /\ lus' = lus \cup {w \in DOMAIN mots : Lue(mots[w])}
  /\ mots' = [w \in DOMAIN mots |-> Vide]
  /\ \/ UNCHANGED <<canal, reseau, a5, sue>>
     \/ /\ n \in Moments /\ reseau' = Kc /\ UNCHANGED <<canal, a5, sue>>
     \/ /\ n \in Moments /\ reseau = Kc /\ a5' = Kc
        /\ sue' = IF canal.genre = "tchh" THEN Kc ELSE sue
        /\ UNCHANGED <<canal, reseau>>
     \/ n \in Moments /\ a5' = Clair /\ UNCHANGED <<canal, reseau, sue>>
     \/ /\ n \in Moments /\ a5' = Clair /\ sue' = Clair /\ UNCHANGED reseau
        /\ \E genre \in {"tchf", "tchh"}, ss \in {0, 1} :
             canal' = [genre |-> genre, ss |-> IF genre = "tchf" THEN 0 ELSE ss, id |-> canal.id + 1]
     \/ /\ n \in Moments /\ canal.genre # "sdcch" /\ canal' = [Repos EXCEPT !.id = canal.id]
        /\ reseau' = Clair /\ a5' = Clair /\ sue' = Clair
  /\ UNCHANGED <<cas, n, cle, bsp, deja, dedie, fini>>

\* What the ROM makes of the block: nothing, or a bad one, or the block when it is whole,
\* its last burst delivered in this frame.
Rom(b, livree) ==
  LET mot == CASE b.genre = "facch" -> "fd" [] b.genre = "parole" -> "dd" [] b.genre = "sacch" -> "cd"
                [] OTHER -> "aucun"
  IN  IF mot = "aucun" THEN {mots}
      ELSE {mots, [mots EXCEPT ![mot] = Mauvais]}
           \cup IF a5 = reseau /\ livree THEN {[mots EXCEPT ![mot] = Bon(b)]} ELSE {}

\* The frame: the BSP delivers the burst of the channel it has been put on at the end of the
\* frame before, or it is lost; the ROM plays.
Dsp ==
  /\ pc = "dsp" /\ pc' = "pont"
  /\ fini' \in Finissants
  /\ LET gardes == {f \in DOMAIN bsp.recus : (fn - f) % Hyper <= Profondeur}
         burst == [canal |-> bsp.joue, cle |-> reseau]
         livre == [f \in gardes \cup {fn} |-> IF f = fn THEN burst ELSE bsp.recus[f]]
     IN  \/ /\ bsp.joue.genre # "sdcch" /\ lus' = {} /\ mots' \in Rom(fini', TRUE)
            /\ bsp' = [bsp EXCEPT !.recus = livre, !.dernier = fn, !.fini = fini']
         \/ /\ bsp.joue.genre = "sdcch" \/ n \in Pertes
            /\ mots' \in Rom(fini', FALSE) /\ UNCHANGED <<bsp, lus>>
  /\ dedie' = [dedie EXCEPT !.depuis = IF canal.genre # "sdcch" THEN 0
                                       ELSE IF @ < Garde THEN @ + 1 ELSE @]
  /\ UNCHANGED <<cas, n, canal, reseau, a5, cle, deja, sue>>

Next == Arm \/ Dsp \/ Scruter

Spec == Init /\ [][Next]_vars
-----------------------------------------------------------------------------
(* Properties.                                                             *)

Genres == [fd |-> {"rien", "bruit", "facch"}, dd |-> {"rien", "bruit", "parole"},
           cd |-> {"rien", "bruit", "sacch"}]

\* The types; noise only passes for speech.
TypeOK ==
  /\ cas \in Cas /\ pc \in {"arm", "dsp", "pont"} /\ n \in 0 .. Duree
  /\ canal.genre \in {"sdcch", "tchf", "tchh"} /\ canal.ss \in {0, 1} /\ canal.id \in Nat
  /\ {reseau, a5, cle, sue} \subseteq {Clair, Kc}
  /\ DOMAIN bsp.recus \subseteq 0 .. Hyper - 1 /\ bsp.dernier \in DOMAIN bsp.recus \cup {Aucun}
  /\ \A p \in DOMAIN deja : deja[p] \in 0 .. Hyper - 1 \cup {Aucun}
  /\ dedie.ti \in BOOLEAN /\ dedie.depuis \in 0 .. Garde
  /\ \A w \in DOMAIN mots :
       /\ mots[w].blud \in BOOLEAN /\ mots[w].bloc.genre \in Genres[w]
       /\ DejaBon(mots[w]) /\ mots[w].bloc = Bruit => w = "dd"

\* When the BSP has delivered every burst of a block, the firmware finds it good in its
\* word: in clear on a TCH/F, in clear or ciphered with a key it has set on this channel
\* for a FACCH/H, as ciphered as it has set it for a SACCH/TH.
Complet(trames, genre, k) ==
  \E seq \in trames : Entier(seq, trames, genre, k) /\ bsp.recus[seq[1]].canal = canal

BlocRendu ==
  LET e == (fn - 1) % Hyper
      rendu == [facch |-> "fd", parole |-> "dd", sacch |-> "cd"]
      du(genre) == canal.genre = "tchh" /\ fini.genre = genre
      lisible == \/ Complet(BlocTchF(e), "tchf", Clair)
                 \/ du("facch") /\ \E k \in {Clair, sue} : Complet(BlocFacchH(e, canal.ss), "tchh", k)
                 \/ du("sacch") /\ Complet(BlocSacchH(e, canal.ss), "tchh", sue)
  IN  pc = "arm" /\ fini # Rien /\ lisible => mots[rendu[fini.genre]] = Bon(fini)

\* The firmware is given no block twice on a channel: not when bursts are lost and the last
\* one stays the same, not when the ROM has posted it already.  From a channel to the next,
\* it may be: a prosthesis that is off does not note the last burst, see the README.
JamaisDeuxFois ==
  pc = "arm" => \A w \in DOMAIN mots :
    Lue(mots[w]) => /\ mots[w].bloc = bsp.fini
                    /\ bsp.recus[bsp.dernier].canal = canal => w \notin lus
=============================================================================
