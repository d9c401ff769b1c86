---------------------------------- MODULE Cle ---------------------------------
(***************************************************************************)
(* montant.c: publier_kc.  The air bridge ciphers and deciphers with the   *)
(* key it reads in a file.  Once per frame the DSP process looks at the    *)
(* mode and the key the firmware has left in the API RAM and decides       *)
(* whether to publish them: at once when the mode changes, at the periodic *)
(* poll otherwise, with a grace when a ciphered mode becomes clear (the    *)
(* firmware clears it at every assignment) that the release of the channel *)
(* cuts short.  The file may refuse to be opened or written.               *)
(*                                                                         *)
(* The environment is the firmware, which writes the mode before the key   *)
(* while the DSP process may be looking, and the announcements of the      *)
(* release, which may come before or after the firmware clears the mode.   *)
(***************************************************************************)
EXTENDS Naturals

CONSTANTS
  Algos,        \* A5/1 .. A5/3
  Cles,         \* keys
  Melange,      \* a key of which some words are written and others are not
  SansCle,      \* the four words at zero
  Periode,      \* KC_PUBLIER_TOUTES: frames between two polls (22)
  Grace,        \* KC_GRACE_CLAIR: polls a clear mode waits (5)
  MaxGestes,    \* bound: changes of mode by the firmware
  MaxLiberations, \* bound: releases announced
  MaxPannes     \* bound: writes that fail

ASSUME CleAssumption ==
  /\ Algos \subseteq 1 .. 3
  /\ Melange \notin Cles /\ SansCle \notin Cles \cup {Melange}
  /\ Periode \in Nat /\ Grace \in Nat /\ 1 <= Grace /\ Grace <= Periode
  /\ MaxGestes \in Nat /\ MaxLiberations \in Nat /\ MaxPannes \in Nat

VARIABLES
  mode,       \* d_a5mode, 0 = clear
  cle,        \* a_kc
  aEcrire,    \* the key the firmware is about to write, SansCle = none
  k,          \* the static state of publier_kc
  fichier,    \* calypso_kc_l1, as its reader finds it
  comptes,    \* bound: changes of mode, releases, failures
  h           \* history, see Historique

cleVars == <<mode, cle, aEcrire, k, fichier, comptes, h>>

Clair == [algo |-> 0, cle |-> SansCle]
Enregistrements ==
  {Clair} \cup [algo: Algos, cle: Cles \cup {Melange}]

Historique == [
  depuis: 0 .. Periode,  \* polls since mode, key or file last changed or failed (capped)
  clairs: 0 .. Grace,    \* polls in clear since the last ciphered one (capped)
  retour: 0 .. Periode,  \* polls the last ciphered mode lasted after its first one (capped)
  fraiche: BOOLEAN,      \* a release was announced since the last poll
  finie: BOOLEAN]        \* a release was announced since the last ciphering began

CleInit ==
  /\ mode = 0 /\ cle = SansCle /\ aEcrire = SansCle
  /\ k = [actif |-> TRUE, ouvert |-> FALSE, tick |-> 0, clair |-> 0, seq |-> 0,
          aDernier |-> FALSE, dernier |-> Clair, liberer |-> FALSE]
  /\ fichier = [seq |-> 0, rec |-> Clair]
  /\ comptes = [gestes |-> 0, liberations |-> 0, pannes |-> 0]
  /\ h = [depuis |-> 0, clairs |-> 0, retour |-> Periode, fraiche |-> FALSE, finie |-> FALSE]

-----------------------------------------------------------------------------
(* publier_kc, once per frame.                                             *)

Vers(x, plafond) == IF x < plafond THEN x + 1 ELSE x

\* A change of mode, or a release, does not wait for the periodic poll.
Bascule == (k.aDernier /\ mode # k.dernier.algo) \/ k.liberer

\* A mode without a key is published as clear.
Lu == IF mode # 0 /\ cle # SansCle THEN [algo |-> mode, cle |-> cle] ELSE Clair

Regarder == k.actif /\ (Bascule \/ k.tick + 1 >= Periode)

\* What a poll tells the history.
Noter(echec) ==
  h' = [depuis |-> IF echec THEN 0 ELSE Vers(h.depuis, Periode),
        clairs |-> IF mode = 0 THEN Vers(h.clairs, Grace) ELSE 0,
        retour |-> IF mode = 0 THEN h.retour
                   ELSE IF h.clairs > 0 THEN 0 ELSE Vers(h.retour, Periode),
        fraiche |-> FALSE, finie |-> h.finie]

\* Nothing to look at in this frame (and nothing ever, once the file could not be opened).
Passer ==
  /\ ~Regarder
  /\ k' = IF k.actif THEN [k EXCEPT !.tick = @ + 1] ELSE k
  /\ Noter(FALSE)
  /\ UNCHANGED <<mode, cle, aEcrire, fichier, comptes>>

\* memcmp with the last record published, its number apart.
Inchange == k.aDernier /\ k.dernier = Lu

\* The release stays armed.
Identique_Arme ==
  /\ Regarder /\ Inchange
  /\ k' = [k EXCEPT !.tick = 0, !.clair = 0]
  /\ Noter(FALSE)
  /\ UNCHANGED <<mode, cle, aEcrire, fichier, comptes>>

\* What was last published is still true; the release is consumed all the same.
Identique ==
  /\ Regarder /\ Inchange
  /\ k' = [k EXCEPT !.tick = 0, !.clair = 0, !.liberer = FALSE]
  /\ Noter(FALSE)
  /\ UNCHANGED <<mode, cle, aEcrire, fichier, comptes>>

\* The grace lasts one poll more.
SousGrace_UnDePlus ==
  Lu.algo = 0 /\ k.aDernier /\ k.dernier.algo # 0 /\ ~k.liberer /\ k.clair < Grace

\* Ciphered, then clear: wait, the key may come back.
SousGrace ==
  Lu.algo = 0 /\ k.aDernier /\ k.dernier.algo # 0 /\ ~k.liberer /\ k.clair + 1 < Grace

Patienter ==
  /\ Regarder /\ ~Inchange /\ SousGrace
  /\ k' = [k EXCEPT !.tick = 0, !.clair = @ + 1]
  /\ Noter(FALSE)
  /\ UNCHANGED <<mode, cle, aEcrire, fichier, comptes>>

APublier == Regarder /\ ~Inchange /\ ~SousGrace

PublierCle ==
  /\ APublier
  /\ k' = [k EXCEPT !.tick = 0, !.clair = 0, !.liberer = FALSE, !.ouvert = TRUE,
                    !.seq = @ + 1, !.aDernier = TRUE, !.dernier = Lu]
  /\ fichier' = [seq |-> k.seq + 1, rec |-> Lu]
  /\ Noter(FALSE)
  /\ UNCHANGED <<mode, cle, aEcrire, comptes>>

\* `dernier' is set before the write is known to have succeeded.
PublierEchoue_Retenu ==
  /\ APublier /\ comptes.pannes < MaxPannes
  /\ \/ ~k.ouvert /\ k' = [k EXCEPT !.tick = 0, !.clair = 0, !.liberer = FALSE, !.actif = FALSE]
     \/ k' = [k EXCEPT !.tick = 0, !.clair = 0, !.liberer = FALSE, !.ouvert = FALSE,
                       !.aDernier = TRUE, !.dernier = Lu]
  /\ comptes' = [comptes EXCEPT !.pannes = @ + 1]
  /\ Noter(TRUE)
  /\ UNCHANGED <<mode, cle, aEcrire, fichier>>

\* The file does not open (publication ends), or is not written (it is tried again).
PublierEchoue ==
  /\ APublier /\ comptes.pannes < MaxPannes
  /\ \/ ~k.ouvert /\ k' = [k EXCEPT !.tick = 0, !.clair = 0, !.liberer = FALSE, !.actif = FALSE]
     \/ k' = [k EXCEPT !.tick = 0, !.clair = 0, !.liberer = FALSE, !.ouvert = FALSE]
  /\ comptes' = [comptes EXCEPT !.pannes = @ + 1]
  /\ Noter(TRUE)
  /\ UNCHANGED <<mode, cle, aEcrire, fichier>>

\* montant_canal_libere
Liberer ==
  /\ comptes.liberations < MaxLiberations
  /\ k' = [k EXCEPT !.liberer = TRUE]
  /\ h' = [h EXCEPT !.fraiche = TRUE, !.finie = TRUE]
  /\ comptes' = [comptes EXCEPT !.liberations = @ + 1]
  /\ UNCHANGED <<mode, cle, aEcrire, fichier>>

PublierKc == Passer \/ Identique \/ Patienter \/ PublierCle \/ PublierEchoue

-----------------------------------------------------------------------------
(* The firmware.                                                           *)

Bouger == h' = [h EXCEPT !.depuis = 0]

\* Ciphering starts, with a new key or with the one already there (assignment).
Chiffrer(a, c) ==
  /\ mode = 0 /\ aEcrire = SansCle /\ comptes.gestes < MaxGestes
  /\ mode' = a
  /\ aEcrire' = IF c = cle THEN SansCle ELSE c
  /\ h' = [h EXCEPT !.depuis = 0, !.finie = FALSE]
  /\ comptes' = [comptes EXCEPT !.gestes = @ + 1]
  /\ UNCHANGED <<cle, k, fichier>>

\* The words of the key follow the mode.
EcrireCle ==
  /\ aEcrire # SansCle
  /\ \/ cle # Melange /\ cle' = Melange /\ UNCHANGED aEcrire
     \/ cle' = aEcrire /\ aEcrire' = SansCle
  /\ Bouger
  /\ UNCHANGED <<mode, k, fichier, comptes>>

\* DM_REL_REQ, of a release or of an assignment.
Effacer ==
  /\ mode # 0 /\ aEcrire = SansCle
  /\ mode' = 0
  /\ Bouger
  /\ UNCHANGED <<cle, aEcrire, k, fichier, comptes>>

Firmware == (\E a \in Algos, c \in Cles : Chiffrer(a, c)) \/ EcrireCle \/ Effacer

CleNext == PublierKc \/ Liberer \/ Firmware

CleSpec == CleInit /\ [][CleNext]_cleVars

-----------------------------------------------------------------------------
(* Properties.                                                             *)

CleTypeOK ==
  /\ mode \in Algos \cup {0} /\ cle \in Cles \cup {Melange, SansCle}
  /\ aEcrire \in Cles \cup {SansCle}
  /\ k \in [actif: BOOLEAN, ouvert: BOOLEAN, tick: 0 .. Periode - 1, clair: 0 .. Grace - 1,
            seq: Nat, aDernier: BOOLEAN, dernier: Enregistrements, liberer: BOOLEAN]
  /\ fichier \in [seq: Nat, rec: Enregistrements]
  /\ comptes \in [gestes: Nat, liberations: Nat, pannes: Nat]
  /\ h \in Historique

\* What has been there for a period is what the reader reads: no failed write, no
\* key seen half written and no release leaves the file wrong for longer.
CleAJour == k.actif /\ h.depuis = Periode => fichier.rec = Lu

\* The first ciphered block must not leave in clear: the poll that first sees the
\* mode with its key publishes both, unless the file itself fails.
PremierBlocChiffre ==
  PublierKc /\ k.actif /\ k.aDernier /\ fichier.rec.algo # mode /\ Lu.algo # 0
    => fichier'.rec = Lu \/ comptes' # comptes

\* A release announced after the firmware has cleared the mode is published at the
\* poll that follows: the next connection does not find the key of this one.
LiberationImmediate ==
  PublierKc /\ k.actif /\ h.fraiche /\ mode = 0 => fichier'.rec = Clair \/ comptes' # comptes

\* Without a release the reader keeps the key for the whole grace, if the mode was ciphered
\* for a period before: neither an earlier gap nor the release of an earlier connection
\* cuts it short.
GraceIsolee ==
  fichier.rec # Clair /\ fichier'.rec = Clair /\ ~h.fraiche /\ h.retour = Periode
    => h'.clairs = Grace

\* The three together: a change of mode is published when it must be, no sooner.
BasculesJustes == [][PremierBlocChiffre /\ LiberationImmediate /\ GraceIsolee]_cleVars
=============================================================================
