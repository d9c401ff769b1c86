--------------------------- MODULE PontBancProofs ---------------------------
(***************************************************************************)
(* Proofs about the two places where an ARM and a DSP go frame by frame,   *)
(* for every value of the constants.  The two parts share nothing but the  *)
(* theorems of the library.                                                *)
(*                                                                         *)
(* Pont (the bridge of QEMU): the types, the exclusion of l1_sync and the  *)
(* DSP, the pause on a frame boundary, and the refinement of Alternance.   *)
(* Exclusion and pause are not inductive.  What is: while a connection is  *)
(* open, the position of the ARM in its frame determines where the server  *)
(* may be and where the one message that hands over the turn is - in the   *)
(* socket to the server, in the server's hands, or in the socket back.     *)
(*                                                                         *)
(* Banc (the bench of the ROM): the types, the ring of the TDMA scheduler  *)
(* as its calendar, the FCCH a test deduces, and the page each response    *)
(* accepts.  None is inductive: what a callback does depends on the items  *)
(* left in the ring, and those on what the test has put there.  What is:   *)
(* the ring is what is left of ONE set, begun in a known frame, and which  *)
(* one, and how much of it is left, follows from where the test is         *)
(* (BancInv).  For the pages of a block, each R page is of this block or   *)
(* of an older one, and how old it may be is paid in missed interrupts     *)
(* (SienInv).                                                              *)
(***************************************************************************)
EXTENDS Pont, Banc, FiniteSetTheorems, SequenceTheorems, TLAPS

-----------------------------------------------------------------------------
(* Tokens in the socket.                                                   *)

\* No message of q hands the turn over.
SansJeton(q) == \A i \in 1 .. Len(q) : q[i].type \notin Jetons

\* Exactly one does, and it belongs to S.
UnJeton(q, S) ==
  \E i \in 1 .. Len(q) :
    /\ q[i] \in S
    /\ \A j \in 1 .. Len(q) : j # i => q[j].type \notin Jetons

Bonjours == {m \in Msgs : m.type \in {"HELLO", "FAUX"}}
TicksA == {m \in Msgs : m.type = "TICK" /\ m.deux}
TicksF == {m \in Msgs : m.type = "TICK" /\ ~m.deux}
Gos == {m \in Msgs : m.type = "GO"}

\* An empty socket holds no token, and a message that is none adds none.
LEMMA SansJetonAjout ==
  ASSUME NEW q \in Seq(Msgs), NEW m \in Msgs, SansJeton(q), m.type \notin Jetons
  PROVE  SansJeton(Append(q, m))
BY DEF SansJeton

\* A token put in a socket that held none is the only one.
LEMMA UnJetonPose ==
  ASSUME NEW q \in Seq(Msgs), NEW m \in Msgs, NEW S, SansJeton(q), m \in S
  PROVE  UnJeton(Append(q, m), S)
<1>1. Append(q, m)[Len(q) + 1] = m /\ Len(Append(q, m)) = Len(q) + 1
  OBVIOUS
<1>2. \A j \in 1 .. Len(q) : Append(q, m)[j] = q[j]
  OBVIOUS
<1> QED BY <1>1, <1>2 DEF SansJeton, UnJeton

\* A message that is no token leaves the only one alone.
LEMMA UnJetonAjout ==
  ASSUME NEW q \in Seq(Msgs), NEW m \in Msgs, NEW S, UnJeton(q, S), m.type \notin Jetons
  PROVE  UnJeton(Append(q, m), S)
<1>1. Append(q, m)[Len(q) + 1] = m /\ Len(Append(q, m)) = Len(q) + 1
  OBVIOUS
<1>2. \A j \in 1 .. Len(q) : Append(q, m)[j] = q[j]
  OBVIOUS
<1> QED BY <1>1, <1>2 DEF UnJeton

\* Reading a socket without token.
LEMMA SansJetonLecture ==
  ASSUME NEW q \in Seq(Msgs), q # <<>>, SansJeton(q)
  PROVE  Head(q).type \notin Jetons /\ SansJeton(Tail(q))
BY DEF SansJeton

\* Reading a socket with one token: it is read, or it is still there.
LEMMA UnJetonLecture ==
  ASSUME NEW q \in Seq(Msgs), q # <<>>, NEW S, UnJeton(q, S)
  PROVE  \/ Head(q) \in S /\ SansJeton(Tail(q))
         \/ Head(q).type \notin Jetons /\ UnJeton(Tail(q), S)
<1>1. Head(q) = q[1] /\ Len(Tail(q)) = Len(q) - 1 /\ Len(q) \in Nat \ {0}
  OBVIOUS
<1>2. \A j \in 1 .. Len(q) - 1 : Tail(q)[j] = q[j + 1]
  OBVIOUS
<1>3. PICK i \in 1 .. Len(q) : q[i] \in S /\ \A j \in 1 .. Len(q) : j # i => q[j].type \notin Jetons
  BY DEF UnJeton
<1>4. CASE i = 1
  BY <1>1, <1>2, <1>3, <1>4 DEF SansJeton
<1>5. CASE i # 1
  <2>1. i - 1 \in 1 .. Len(Tail(q)) /\ Tail(q)[i - 1] \in S
    BY <1>1, <1>2, <1>3, <1>5
  <2>2. \A j \in 1 .. Len(Tail(q)) : j # i - 1 => Tail(q)[j].type \notin Jetons
    BY <1>1, <1>2, <1>3
  <2>3. Head(q).type \notin Jetons
    BY <1>1, <1>3, <1>5
  <2> QED BY <2>1, <2>2, <2>3 DEF UnJeton
<1> QED BY <1>4, <1>5

-----------------------------------------------------------------------------
(* The inductive invariant.                                                *)

\* The connection is open exactly while servir runs.
OuverteEnSession == ouverte <=> pc \in EnSession

\* The server is at its loop: no frame is being played.
Libre == {"boucle", "reception", "pause"}

\* One answer is on its way to the ARM.
UneReponse == versArm # <<>> /\ Len(versArm) = 1

\* Where the turn is, from where the ARM is in its frame.
PositionArm ==
  /\ arm = "connecte" => pc = "poignee" /\ SansJeton(versPont) /\ versArm = <<>>
  /\ arm = "bonjour" =>
       \/ pc = "poignee" /\ UnJeton(versPont, Bonjours) /\ versArm = <<>>
       \/ pc \in Libre /\ SansJeton(versPont) /\ UneReponse
  /\ arm = "pret" => pc \in Libre \cup {"reste"} /\ SansJeton(versPont) /\ versArm = <<>>
  /\ arm = "attendA" =>
       \/ pc \in Libre \cup {"reste"} /\ UnJeton(versPont, TicksA) /\ versArm = <<>>
       \/ pc = "phaseA" /\ SansJeton(versPont) /\ versArm = <<>>
       \/ pc = "go" /\ SansJeton(versPont) /\ UneReponse
  /\ arm = "l1sync" => pc = "go" /\ SansJeton(versPont) /\ versArm = <<>>
  /\ arm = "attendB" =>
       \/ pc = "go" /\ UnJeton(versPont, Gos) /\ versArm = <<>>
       \/ pc = "phaseB" /\ SansJeton(versPont) /\ versArm = <<>>
       \/ /\ pc \in Libre \cup {"reste"} /\ SansJeton(versPont)
          /\ UneReponse
  /\ arm = "attendF" =>
       \/ pc \in Libre \cup {"reste"} /\ UnJeton(versPont, TicksF) /\ versArm = <<>>
       \/ pc = "trame" /\ SansJeton(versPont) /\ versArm = <<>>
       \/ pc \in Libre /\ SansJeton(versPont) /\ UneReponse
  /\ arm = "l1syncF" => pc \in Libre /\ SansJeton(versPont) /\ versArm = <<>>

\* It is only known while servir runs; without a peer, nothing is left in the socket back.
Position ==
  /\ ouverte /\ pc # "adieu" => PositionArm
  /\ arm = "absent" => versArm = <<>>

IInv == TypeOK /\ OuverteEnSession /\ Position

-----------------------------------------------------------------------------
(* Types.                                                                  *)

\* The messages the ARM sends, and those a server reads, are messages.
LEMMA TypeMsg ==
  /\ \A t \in Types : Msg(t) \in Msgs
  /\ \A deux \in BOOLEAN, ep \in Nat : Tick(deux, ep) \in Msgs
  /\ \A ep \in Nat : Reset(ep) \in Msgs
  /\ \A tn \in Tn \cup {0} : Dcch(tn) \in Msgs
BY PontAssumption DEF Msg, Tick, Reset, Dcch, Msgs, Types

\* What is left to read after a message has been read.
LEMMA TypeLecture ==
  ASSUME NEW S, NEW q \in Seq(S), q # <<>>
  PROVE  Head(q) \in S /\ Tail(q) \in Seq(S)
OBVIOUS

\* What the server uses of a message.
LEMMA TypeChamps ==
  ASSUME NEW m \in Msgs
  PROVE  m.type \in Types /\ m.deux \in BOOLEAN /\ m.ep \in Nat /\ m.tn \in Tn \cup {0}
BY DEF Msgs

\* What has been sent back is an answer.
LEMMA TypeReponse ==
  ASSUME NEW r \in Reponses, TypeLiaison, Repondre(r)
  PROVE  versArm' \in Seq(Reponses)
BY DEF Repondre, TypeLiaison

\* The bursts listed are records of the two kinds.
LEMMA TypeAFroid ==
  ASSUME NEW quoi \in SUBSET {"udp", "iq"}, NEW boote, NEW deux \in BOOLEAN
  PROVE  AFroid(quoi, boote, deux) \subseteq [quoi: {"udp", "iq"}, deux: BOOLEAN]
BY DEF AFroid

\* The flags stay Booleans.
LEMMA TypeDrapeauxInductif == TypeOK /\ [Next]_vars => TypeDrapeaux'
<1> USE DEF TypeDrapeaux
<1>1. TypeDrapeaux /\ Signal => TypeDrapeaux'
  BY DEF Signal, SigTerm, SigPause, SigReprise, serveur, liaison
<1>2. TypeDrapeaux /\ Arm => TypeDrapeaux'
  BY DEF Arm, ArmBonjour, ArmTick, ArmFinL1Sync, ArmReset, ArmDcch, ArmRecevoir, ArmPartir,
         ArmConstater, Envoyer, serveur, signaux, liaison
<1>3. TypeOK /\ Serveur => TypeDrapeaux'
  <2>1. TypeDrapeaux /\ Accepter => TypeDrapeaux'
    BY DEF Accepter, signaux, liaison
  <2>2. TypeDrapeaux /\ Terminer => TypeDrapeaux'
    BY DEF Terminer, signaux, liaison
  <2>3. TypeDrapeaux /\ Poignee => TypeDrapeaux'
    BY DEF Poignee, Repondre, signaux, liaison
  <2>4. TypeDrapeaux /\ Raccrocher => TypeDrapeaux'
    BY DEF Raccrocher, signaux, liaison
  <2>5. TypeDrapeaux /\ Sommet => TypeDrapeaux'
    BY DEF Sommet, signaux, liaison
  <2>6. TypeDrapeaux /\ FinPause => TypeDrapeaux'
    BY DEF FinPause, signaux, liaison
  <2>7. TypeDrapeaux /\ RienRecu => TypeDrapeaux'
    BY DEF RienRecu, signaux, liaison
  <2>8. TypeDrapeaux /\ ResetRecu => TypeDrapeaux'
    BY DEF ResetRecu, TraiterReset, signaux, liaison
  <2>9. TypeDrapeaux /\ ResetGarde => TypeDrapeaux'
    BY DEF ResetGarde, TraiterReset, signaux, liaison
  <2>10. TypeOK /\ TickRecu => TypeDrapeaux'
    <3> SUFFICES ASSUME TypeOK, TickRecu
                 PROVE  TypeDrapeaux'
      OBVIOUS
    <3>1. Head(versPont).deux \in BOOLEAN
      BY TypeLecture, TypeChamps DEF TickRecu, TypeOK, TypeLiaison
    <3>2. PICK rx \in RxMode, iq \in Injecte :
            /\ inj' = [udp |-> rx = "milieu" /\ initDone, iq |-> rx = "milieu" /\ iq,
                       apres |-> rx = "apres" /\ iq]
            /\ froid' = AFroid({q \in {"udp", "iq"} :
                                 /\ initDone
                                 /\ IF q = "udp" THEN rx # "milieu" ELSE rx = "avant" /\ iq},
                               running /\ initDone, Head(versPont).deux)
      BY DEF TickRecu
    <3>3. inj' \in [udp: BOOLEAN, iq: BOOLEAN, apres: BOOLEAN]
      BY <3>2, PontAssumption, Zenon
    <3>4. froid' \subseteq [quoi: {"udp", "iq"}, deux: BOOLEAN]
      BY <3>1, <3>2, TypeAFroid
    <3> QED BY <3>3, <3>4 DEF TickRecu, TypeOK, signaux
  <2>11. TypeDrapeaux /\ DcchRecu => TypeDrapeaux'
    BY DEF DcchRecu, signaux, liaison
  <2>12. TypeDrapeaux /\ AutreRecu => TypeDrapeaux'
    BY DEF AutreRecu, signaux, liaison
  <2>13. TypeDrapeaux /\ FinPhaseA => TypeDrapeaux'
    BY DEF FinPhaseA, Repondre, Demarrer, signaux, liaison
  <2>14. TypeDrapeaux /\ AttendreGo => TypeDrapeaux'
    BY DEF AttendreGo, signaux, liaison
  <2>15. TypeDrapeaux /\ AbandonnerTrame => TypeDrapeaux'
    BY DEF AbandonnerTrame, signaux, liaison
  <2>16. TypeOK /\ LivrerBurst => TypeDrapeaux'
    <3>1. MilieuDeTrame \in SUBSET {"udp", "iq"}
      BY DEF MilieuDeTrame
    <3>2. TypeOK => AFroid(MilieuDeTrame, running /\ initDone, trame.deux)
                      \subseteq [quoi: {"udp", "iq"}, deux: BOOLEAN]
      BY <3>1, TypeAFroid, TypeChamps DEF TypeOK, TypeServeur
    <3> QED BY <3>2 DEF LivrerBurst, TypeOK, signaux
  <2>17. TypeOK /\ FinTrame => TypeDrapeaux'
    <3>1. FinDeTrame \in SUBSET {"udp", "iq"}
      BY DEF FinDeTrame, MilieuDeTrame
    <3>2. TypeOK => AFroid(FinDeTrame, running /\ initDone', trame.deux)
                      \subseteq [quoi: {"udp", "iq"}, deux: BOOLEAN]
      BY <3>1, TypeAFroid, TypeChamps DEF TypeOK, TypeServeur
    <3>3. TypeOK /\ FinTrame => initDone' \in BOOLEAN
      BY DEF FinTrame, Demarrer, TypeOK
    <3>4. RienALivrer \in [udp: BOOLEAN, iq: BOOLEAN, apres: BOOLEAN]
      BY Zenon DEF RienALivrer
    <3>5. TypeOK /\ FinTrame =>
            /\ inj' \in [udp: BOOLEAN, iq: BOOLEAN, apres: BOOLEAN]
            /\ froid' \subseteq [quoi: {"udp", "iq"}, deux: BOOLEAN]
      BY <3>2, <3>4 DEF FinTrame, Clore, TypeOK
    <3>6. FinTrame => UNCHANGED <<running, signaux, ouverte>>
      BY DEF FinTrame, Clore
    <3> QED BY <3>3, <3>5, <3>6 DEF TypeOK, signaux
  <2> HIDE DEF TypeDrapeaux
  <2> QED BY <2>1, <2>2, <2>3, <2>4, <2>5, <2>6, <2>7, <2>8, <2>9, <2>10,
             <2>11, <2>12, <2>13, <2>14, <2>15, <2>16, <2>17 DEF Serveur, TypeOK
<1>4. TypeDrapeaux /\ UNCHANGED vars => TypeDrapeaux'
  BY DEF vars
<1> HIDE DEF TypeDrapeaux
<1> QED BY <1>1, <1>2, <1>3, <1>4 DEF Next, TypeOK

\* The counts stay natural numbers.
LEMMA TypeCompteInductif == TypeCompte /\ [Next]_vars => TypeCompte'
<1> USE DEF TypeCompte
<1>1. TypeCompte /\ Signal => TypeCompte'
  BY DEF Signal, SigTerm, SigPause, SigReprise, serveur, liaison
<1>2. TypeCompte /\ Arm => TypeCompte'
  BY SMTT(30) DEF Arm, ArmBonjour, ArmTick, ArmFinL1Sync, ArmReset, ArmDcch, ArmRecevoir, ArmPartir,
         ArmConstater, Envoyer, serveur, signaux, liaison
<1>3. TypeCompte /\ Serveur => TypeCompte'
  <2>1. TypeCompte /\ Accepter => TypeCompte'
    BY DEF Accepter
  <2>2. Serveur /\ ~Accepter => UNCHANGED compte
    BY DEF Serveur, Terminer, Poignee, Raccrocher, Sommet, FinPause, RienRecu, ResetRecu,
           ResetGarde, TraiterReset, TickRecu, DcchRecu, AutreRecu, FinPhaseA,
           AttendreGo, AbandonnerTrame, LivrerBurst, FinTrame, Clore
  <2> QED BY <2>1, <2>2
<1>4. TypeCompte /\ UNCHANGED vars => TypeCompte'
  BY DEF vars
<1> QED BY <1>1, <1>2, <1>3, <1>4 DEF Next

\* The ARM stays in its states and the socket holds messages.
LEMMA TypeLiaisonInductif == TypeOK /\ [Next]_vars => TypeLiaison'
<1> USE DEF TypeOK, TypeLiaison, ArmPc, Reponses
<1>1. TypeOK /\ Signal => TypeLiaison'
  BY DEF Signal, SigTerm, SigPause, SigReprise, serveur, liaison
<1>2. TypeOK /\ Arm => TypeLiaison'
  <2>1. TypeOK /\ ArmBonjour => TypeLiaison'
    <3>1. \A t \in {"HELLO", "FAUX"} : Msg(t) \in Msgs
      BY PontAssumption, TypeMsg DEF Types
    <3> QED BY <3>1 DEF ArmBonjour, Envoyer
  <2>2. ASSUME NEW deux \in BOOLEAN PROVE TypeOK /\ ArmTick(deux) => TypeLiaison'
    <3>1. TypeOK => Tick(deux, compte.resets) \in Msgs
      BY PontAssumption, TypeMsg DEF TypeCompte
    <3> QED BY <3>1 DEF ArmTick, Envoyer
  <2>3. TypeOK /\ ArmFinL1Sync => TypeLiaison'
    <3>1. Msg("GO") \in Msgs
      BY PontAssumption, TypeMsg DEF Types
    <3> QED BY <3>1 DEF ArmFinL1Sync, Envoyer, liaison
  <2>4. TypeOK /\ ArmReset => TypeLiaison'
    <3>1. TypeOK => Reset(compte.resets + 1) \in Msgs
      BY PontAssumption, TypeMsg DEF TypeCompte
    <3> QED BY <3>1 DEF ArmReset, Envoyer
  <2>5. ASSUME NEW tn \in Tn \cup {0} PROVE TypeOK /\ ArmDcch(tn) => TypeLiaison'
    <3>1. Dcch(tn) \in Msgs
      BY <2>5, TypeMsg
    <3> QED BY <3>1 DEF ArmDcch, Envoyer
  <2>6. TypeOK /\ ArmRecevoir => TypeLiaison'
    BY TypeLecture DEF ArmRecevoir
  <2>7. TypeOK /\ ArmPartir => TypeLiaison'
    <3>1. Msg("BYE") \in Msgs
      BY PontAssumption, TypeMsg DEF Types
    <3> QED BY <3>1 DEF ArmPartir
  <2>8. TypeOK /\ ArmConstater => TypeLiaison'
    BY DEF ArmConstater, liaison
  <2> QED BY <2>1, <2>2, <2>3, <2>4, <2>5, <2>6, <2>7, <2>8 DEF Arm
<1>3. TypeOK /\ Serveur => TypeLiaison'
  <2>1. TypeOK /\ Accepter => TypeLiaison'
    BY DEF Accepter, signaux, liaison
  <2>2. TypeOK /\ Terminer => TypeLiaison'
    BY DEF Terminer, signaux, liaison
  <2>3. TypeOK /\ Poignee => TypeLiaison'
    BY TypeLecture, TypeReponse DEF Poignee, liaison
  <2>4. TypeOK /\ Raccrocher => TypeLiaison'
    BY DEF Raccrocher, signaux, liaison
  <2>5. TypeOK /\ Sommet => TypeLiaison'
    BY DEF Sommet, signaux, liaison
  <2>6. TypeOK /\ FinPause => TypeLiaison'
    BY DEF FinPause, signaux, liaison
  <2>7. TypeOK /\ RienRecu => TypeLiaison'
    BY TypeLecture DEF RienRecu, signaux, liaison
  <2>8. TypeOK /\ ResetRecu => TypeLiaison'
    BY TypeLecture DEF ResetRecu, TraiterReset, signaux, liaison
  <2>9. TypeOK /\ ResetGarde => TypeLiaison'
    BY DEF ResetGarde, TraiterReset, signaux, liaison
  <2>10. TypeOK /\ TickRecu => TypeLiaison'
    BY TypeLecture DEF TickRecu, signaux, liaison
  <2>11. TypeOK /\ DcchRecu => TypeLiaison'
    BY TypeLecture DEF DcchRecu, signaux, liaison
  <2>12. TypeOK /\ AutreRecu => TypeLiaison'
    BY TypeLecture DEF AutreRecu, signaux, liaison
  <2>13. TypeOK /\ FinPhaseA => TypeLiaison'
    BY DEF FinPhaseA, Repondre, Demarrer, signaux, liaison
  <2>14. TypeOK /\ AttendreGo => TypeLiaison'
    BY TypeLecture DEF AttendreGo, signaux, liaison
  <2>15. TypeOK /\ AbandonnerTrame => TypeLiaison'
    BY DEF AbandonnerTrame, signaux, liaison
  <2>16. TypeOK /\ LivrerBurst => TypeLiaison'
    BY DEF LivrerBurst, Repondre, signaux, liaison
  <2>17. TypeOK /\ FinTrame => TypeLiaison'
    BY TypeReponse DEF FinTrame, Clore, liaison
  <2> QED BY <2>1, <2>2, <2>3, <2>4, <2>5, <2>6, <2>7, <2>8, <2>9, <2>10,
             <2>11, <2>12, <2>13, <2>14, <2>15, <2>16, <2>17 DEF Serveur
<1>4. TypeOK /\ UNCHANGED vars => TypeLiaison'
  BY DEF vars
<1> QED BY <1>1, <1>2, <1>3, <1>4 DEF Next

\* The server stays in its states.
LEMMA TypeServeurInductif == TypeOK /\ [Next]_vars => TypeServeur'
<1> USE DEF TypeOK, TypeServeur, TypeLiaison, PontPc
<1>1. TypeOK /\ Signal => TypeServeur'
  BY DEF Signal, SigTerm, SigPause, SigReprise, serveur, liaison
<1>2. TypeOK /\ Arm => TypeServeur'
  BY DEF Arm, ArmBonjour, ArmTick, ArmFinL1Sync, ArmReset, ArmDcch, ArmRecevoir, ArmPartir,
         ArmConstater, Envoyer, serveur, signaux, liaison
<1>3. TypeOK /\ Serveur => TypeServeur'
  <2>1. TypeOK /\ Accepter => TypeServeur'
    BY DEF Accepter, signaux, liaison
  <2>2. TypeOK /\ Terminer => TypeServeur'
    BY DEF Terminer, signaux, liaison
  <2>3. TypeOK /\ Poignee => TypeServeur'
    BY DEF Poignee, Repondre, signaux, liaison
  <2>4. TypeOK /\ Raccrocher => TypeServeur'
    BY DEF Raccrocher, signaux, liaison
  <2>5. TypeOK /\ Sommet => TypeServeur'
    BY DEF Sommet, signaux, liaison
  <2>6. TypeOK /\ FinPause => TypeServeur'
    BY DEF FinPause, signaux, liaison
  <2>7. TypeOK /\ RienRecu => TypeServeur'
    BY DEF RienRecu, signaux, liaison
  <2>8. TypeOK /\ ResetRecu => TypeServeur'
    BY TypeLecture, TypeChamps DEF ResetRecu, TraiterReset, signaux, liaison
  <2>9. TypeOK /\ ResetGarde => TypeServeur'
    BY DEF ResetGarde, TraiterReset, signaux, liaison
  <2>10. TypeOK /\ TickRecu => TypeServeur'
    BY TypeLecture DEF TickRecu, signaux, liaison
  <2>11. TypeOK /\ DcchRecu => TypeServeur'
    BY TypeLecture, TypeChamps DEF DcchRecu, signaux, liaison
  <2>12. TypeOK /\ AutreRecu => TypeServeur'
    BY DEF AutreRecu, signaux, liaison
  <2>13. TypeOK /\ FinPhaseA => TypeServeur'
    BY DEF FinPhaseA, Repondre, Demarrer, signaux, liaison
  <2>14. TypeOK /\ AttendreGo => TypeServeur'
    BY TypeLecture, TypeChamps DEF AttendreGo, signaux, liaison
  <2>15. TypeOK /\ AbandonnerTrame => TypeServeur'
    BY DEF AbandonnerTrame, signaux, liaison
  <2>16. TypeOK /\ LivrerBurst => TypeServeur'
    BY DEF LivrerBurst, Repondre, signaux, liaison
  <2>17. TypeOK /\ FinTrame => TypeServeur'
    BY DEF FinTrame, Clore, Repondre, Demarrer, signaux, liaison
  <2> QED BY <2>1, <2>2, <2>3, <2>4, <2>5, <2>6, <2>7, <2>8, <2>9, <2>10,
             <2>11, <2>12, <2>13, <2>14, <2>15, <2>16, <2>17 DEF Serveur
<1>4. TypeOK /\ UNCHANGED vars => TypeServeur'
  BY DEF vars
<1> QED BY <1>1, <1>2, <1>3, <1>4 DEF Next

\* TypeOK is inductive by itself.
LEMMA TypeInductif == TypeOK /\ [Next]_vars => TypeOK'
BY TypeServeurInductif, TypeDrapeauxInductif, TypeLiaisonInductif, TypeCompteInductif
   DEF TypeOK

\* The initial state is of its type.
LEMMA TypeInitial == Init => TypeOK
<1>1. Msg("TICK") \in Msgs
  BY PontAssumption, TypeMsg DEF Types
<1> USE DEF Init
<1>2. Init => TypeServeur
  BY <1>1 DEF TypeServeur, PontPc
<1>3. Init => TypeDrapeaux
  <2>1. RienALivrer \in [udp: BOOLEAN, iq: BOOLEAN, apres: BOOLEAN]
    BY Zenon DEF RienALivrer
  <2> QED BY <2>1 DEF TypeDrapeaux
<1>4. Init => TypeLiaison
  BY DEF TypeLiaison, ArmPc
<1>5. Init => TypeCompte
  BY DEF TypeCompte
<1> QED BY <1>2, <1>3, <1>4, <1>5 DEF TypeOK

\* The server, the ARM and the socket are always of their types.
THEOREM TypeCorrecte == Spec => []TypeOK
BY TypeInitial, TypeInductif, PTL DEF Spec

-----------------------------------------------------------------------------
(* The position invariant.                                                 *)

\* Sending a message that is no token leaves the tokens where they are.
LEMMA EnvoiOrdinaire ==
  ASSUME TypeOK, NEW m \in Msgs, m.type \notin Jetons, versPont' = Append(versPont, m)
  PROVE  /\ SansJeton(versPont) => SansJeton(versPont')
         /\ \A S \in {Bonjours, TicksA, TicksF, Gos} :
              UnJeton(versPont, S) => UnJeton(versPont', S)
BY SansJetonAjout, UnJetonAjout DEF TypeOK, TypeLiaison

\* Reading a message, with and without a token in the socket.
LEMMA Lecture ==
  ASSUME TypeOK, versPont # <<>>, versPont' = Tail(versPont)
  PROVE  /\ SansJeton(versPont) =>
              Head(versPont).type \notin Jetons /\ SansJeton(versPont')
         /\ \A S \in {Bonjours, TicksA, TicksF, Gos} : UnJeton(versPont, S) =>
              \/ Head(versPont) \in S /\ SansJeton(versPont')
              \/ Head(versPont).type \notin Jetons /\ UnJeton(versPont', S)
BY SansJetonLecture, UnJetonLecture DEF TypeOK, TypeLiaison

\* An empty socket.
LEMMA SocketVide ==
  SansJeton(<<>>) /\ \A S : ~UnJeton(<<>>, S)
BY DEF SansJeton, UnJeton

\* Answering a peer that is there and has no other answer to read.
LEMMA ReponseUnique ==
  ASSUME TypeOK, NEW r \in Reponses, Repondre(r), arm # "absent", versArm = <<>>
  PROVE  UneReponse'
BY DEF Repondre, UneReponse, Reponses

\* The connection is open exactly while servir runs, whatever happens next.
LEMMA SessionInductive == OuverteEnSession /\ [Next]_vars => OuverteEnSession'
<1> USE DEF OuverteEnSession, EnSession, PontPc
<1>1. OuverteEnSession /\ Signal => OuverteEnSession'
  BY DEF Signal, SigTerm, SigPause, SigReprise, serveur, liaison
<1>2. OuverteEnSession /\ Arm => OuverteEnSession'
  BY DEF Arm, ArmBonjour, ArmTick, ArmFinL1Sync, ArmReset, ArmDcch, ArmRecevoir, ArmPartir,
         ArmConstater, Envoyer, serveur, signaux, liaison
<1>3. OuverteEnSession /\ Serveur => OuverteEnSession'
  <2>1. OuverteEnSession /\ LivrerBurst => OuverteEnSession'
    BY DEF LivrerBurst
  <2>2. OuverteEnSession /\ FinTrame => OuverteEnSession'
    <3>1. FinTrame => pc \in {"trame", "phaseB", "reste"}
      BY DEF FinTrame, Clore
    <3>2. FinTrame => pc' = "boucle" /\ ouverte' = ouverte
      BY DEF FinTrame, Clore
    <3> QED BY <3>1, <3>2
  <2> QED BY <2>1, <2>2
       DEF Serveur, Accepter, Terminer, Poignee, Raccrocher, Sommet, FinPause, RienRecu,
           ResetRecu, ResetGarde, TraiterReset, TickRecu, DcchRecu, AutreRecu, FinPhaseA,
           AttendreGo, AbandonnerTrame, liaison
<1>4. OuverteEnSession /\ UNCHANGED vars => OuverteEnSession'
  BY DEF vars
<1> QED BY <1>1, <1>2, <1>3, <1>4 DEF Next

\* The ARM's steps keep the position.
LEMMA PositionPasArm == IInv /\ Arm => Position'
<1> USE DEF IInv, Position, PositionArm, Libre, UneReponse
<1>1. IInv /\ ArmBonjour => Position'
  <2> SUFFICES ASSUME IInv, ArmBonjour PROVE Position'
    OBVIOUS
  <2>1. PICK t \in {"HELLO", "FAUX"} : Envoyer(Msg(t))
    BY DEF ArmBonjour
  <2>2. Msg(t) \in Bonjours
    BY PontAssumption, TypeMsg DEF Bonjours, Msg, Types
  <2>3. SansJeton(versPont) => UnJeton(versPont', Bonjours)
    BY <2>1, <2>2, UnJetonPose DEF Envoyer, Bonjours, TypeOK, TypeLiaison
  <2> QED BY <2>1, <2>3 DEF ArmBonjour, Envoyer, serveur
<1>2. ASSUME NEW deux \in BOOLEAN PROVE IInv /\ ArmTick(deux) => Position'
  <2> SUFFICES ASSUME IInv, ArmTick(deux) PROVE Position'
    OBVIOUS
  <2> DEFINE m == Tick(deux, compte.resets)
  <2>1. m \in IF deux THEN TicksA ELSE TicksF
    BY TypeMsg DEF TicksA, TicksF, Tick, Msg, TypeOK, TypeCompte
  <2>2. SansJeton(versPont) => UnJeton(versPont', IF deux THEN TicksA ELSE TicksF)
    BY <2>1, UnJetonPose DEF ArmTick, Envoyer, TicksA, TicksF, TypeOK, TypeLiaison
  <2> QED BY <2>2 DEF ArmTick, Envoyer, serveur
<1>3. IInv /\ ArmFinL1Sync => Position'
  <2> SUFFICES ASSUME IInv, ArmFinL1Sync PROVE Position'
    OBVIOUS
  <2>1. Msg("GO") \in Gos
    BY PontAssumption, TypeMsg DEF Gos, Msg, Types
  <2>2. CASE arm = "l1sync"
    <3>1. SansJeton(versPont) => UnJeton(versPont', Gos)
      BY <2>1, <2>2, UnJetonPose DEF ArmFinL1Sync, Envoyer, Gos, TypeOK, TypeLiaison
    <3> QED BY <2>2, <3>1 DEF ArmFinL1Sync, Envoyer, serveur
  <2>3. CASE arm = "l1syncF"
    BY <2>3 DEF ArmFinL1Sync, serveur, liaison
  <2> QED BY <2>2, <2>3 DEF ArmFinL1Sync
<1>4. IInv /\ ArmReset => Position'
  <2> SUFFICES ASSUME IInv, ArmReset PROVE Position'
    OBVIOUS
  <2> DEFINE m == Reset(compte.resets + 1)
  <2>1. m \in Msgs /\ m.type \notin Jetons
    BY PontAssumption, TypeMsg DEF Reset, Msg, Jetons, TypeOK, TypeCompte
  <2> QED BY <2>1, EnvoiOrdinaire DEF ArmReset, Envoyer, serveur
<1>5. ASSUME NEW tn \in Tn \cup {0} PROVE IInv /\ ArmDcch(tn) => Position'
  <2> SUFFICES ASSUME IInv, ArmDcch(tn) PROVE Position'
    OBVIOUS
  <2>1. Dcch(tn) \in Msgs /\ Dcch(tn).type \notin Jetons
    BY PontAssumption, TypeMsg DEF Dcch, Msg, Jetons
  <2> QED BY <2>1, EnvoiOrdinaire DEF ArmDcch, Envoyer, serveur
<1>6. IInv /\ ArmRecevoir => Position'
  <2> SUFFICES ASSUME IInv, ArmRecevoir PROVE Position'
    OBVIOUS
  <2>1. Len(versArm) = 1 => versArm' = <<>>
    BY DEF ArmRecevoir, TypeOK, TypeLiaison, Reponses
  <2> QED BY <2>1 DEF ArmRecevoir, serveur
<1>7. IInv /\ ArmPartir => Position'
  BY DEF ArmPartir
<1>8. IInv /\ ArmConstater => Position'
  BY DEF ArmConstater, liaison
<1> QED BY <1>1, <1>2, <1>3, <1>4, <1>5, <1>6, <1>7, <1>8 DEF Arm

\* The server's steps keep the position.
LEMMA PositionPasServeur == IInv /\ Serveur => Position'
<1> USE DEF IInv, OuverteEnSession, EnSession, PontPc, Position, PositionArm, Libre
<1>1. IInv /\ Accepter => Position'
  BY SocketVide DEF Accepter
<1>2. IInv /\ Terminer => Position'
  BY DEF Terminer, UneReponse, liaison
<1>3. IInv /\ Poignee => Position'
  <2> SUFFICES ASSUME IInv, Poignee PROVE Position'
    OBVIOUS
  <2>1. CASE arm = "absent"
    BY <2>1 DEF Poignee, Repondre
  <2>2. CASE arm # "absent" /\ pc' # "adieu"
    <3>1. versPont # <<>> /\ versPont' = Tail(versPont) /\ Repondre("HELLO_OK")
          /\ Head(versPont).type = "HELLO" /\ pc' = "boucle" /\ UNCHANGED <<arm, ouverte>>
      BY <2>2 DEF Poignee
    <3>2. arm = "bonjour" /\ versArm = <<>> /\ SansJeton(versPont')
      BY <3>1, <2>2, Lecture DEF Poignee, Jetons, Bonjours, TypeOK, TypeLiaison, ArmPc
    <3>3. UneReponse'
      BY <3>1, <3>2, ReponseUnique DEF Reponses
    <3> QED BY <3>1, <3>2, <3>3
  <2>3. CASE arm # "absent" /\ pc' = "adieu"
    BY <2>3 DEF Poignee, Repondre
  <2> QED BY <2>1, <2>2, <2>3
<1>4. IInv /\ Raccrocher => Position'
  BY DEF Raccrocher
<1>5. IInv /\ Sommet => Position'
  BY DEF Sommet, UneReponse, liaison
<1>6. IInv /\ FinPause => Position'
  BY DEF FinPause, UneReponse, liaison
<1>7. IInv /\ RienRecu => Position'
  BY DEF RienRecu, UneReponse, liaison
<1>8. IInv /\ ResetRecu => Position'
  <2> SUFFICES ASSUME IInv, ResetRecu PROVE Position'
    OBVIOUS
  <2> QED BY Lecture DEF ResetRecu, TraiterReset, UneReponse, Jetons, Bonjours,
                       TicksA, TicksF, Gos
<1>9. IInv /\ ResetGarde => Position'
  BY DEF ResetGarde, TraiterReset, UneReponse
<1>10. IInv /\ TickRecu => Position'
  <2> SUFFICES ASSUME IInv, TickRecu PROVE Position'
    OBVIOUS
  <2> QED BY Lecture DEF TickRecu, Jetons, Bonjours, TicksA, TicksF, Gos
<1>11. IInv /\ DcchRecu => Position'
  <2> SUFFICES ASSUME IInv, DcchRecu PROVE Position'
    OBVIOUS
  <2> QED BY Lecture DEF DcchRecu, UneReponse, Jetons, Bonjours, TicksA, TicksF, Gos
<1>12. IInv /\ AutreRecu => Position'
  <2> SUFFICES ASSUME IInv, AutreRecu PROVE Position'
    OBVIOUS
  <2> QED BY Lecture DEF AutreRecu, Jetons, Bonjours, TicksA, TicksF, Gos
<1>13. IInv /\ FinPhaseA => Position'
  <2> SUFFICES ASSUME IInv, FinPhaseA PROVE Position'
    OBVIOUS
  <2>1. CASE arm = "absent"
    BY <2>1 DEF FinPhaseA, Repondre
  <2>2. CASE arm # "absent"
    BY <2>2, ReponseUnique DEF FinPhaseA, Reponses
  <2> QED BY <2>1, <2>2
<1>14. IInv /\ AttendreGo => Position'
  <2> SUFFICES ASSUME IInv, AttendreGo PROVE Position'
    OBVIOUS
  <2> QED BY Lecture DEF AttendreGo, UneReponse, Jetons, Bonjours, TicksA, TicksF, Gos
<1>15. IInv /\ AbandonnerTrame => Position'
  BY DEF AbandonnerTrame, liaison
<1>16. IInv /\ LivrerBurst => Position'
  <2> SUFFICES ASSUME IInv, LivrerBurst PROVE Position'
    OBVIOUS
  <2>1. CASE arm = "absent"
    BY <2>1 DEF LivrerBurst, Repondre
  <2>2. CASE arm # "absent"
    BY <2>2, ReponseUnique DEF LivrerBurst, Reponses
  <2> QED BY <2>1, <2>2
<1>17. IInv /\ FinTrame => Position'
  <2> SUFFICES ASSUME IInv, FinTrame PROVE Position'
    OBVIOUS
  <2>1. CASE arm = "absent"
    BY <2>1 DEF FinTrame, Clore, Repondre
  <2>2. CASE arm # "absent" /\ pc # "reste"
    BY <2>2, ReponseUnique DEF FinTrame, Clore, Reponses
  <2>3. CASE arm # "absent" /\ pc = "reste"
    BY <2>3 DEF FinTrame, Clore, UneReponse
  <2> QED BY <2>1, <2>2, <2>3
<1> QED BY <1>1, <1>2, <1>3, <1>4, <1>5, <1>6, <1>7, <1>8, <1>9, <1>10, <1>11, <1>12,
           <1>13, <1>14, <1>15, <1>16, <1>17 DEF Serveur

\* The inductive invariant holds in every reachable state.
LEMMA Invariant == Spec => []IInv
<1>1. Init => IInv
  <2>1. Init => Position /\ OuverteEnSession
    BY DEF Init, Position, OuverteEnSession, EnSession, PontPc
  <2> QED BY <2>1, TypeInitial DEF IInv
<1>2. IInv /\ [Next]_vars => IInv'
  <2>1. IInv /\ Signal => Position'
    BY DEF IInv, Position, PositionArm, UneReponse, Signal, SigTerm, SigPause, SigReprise,
           serveur, liaison
  <2>2. IInv /\ UNCHANGED vars => Position'
    BY DEF IInv, Position, PositionArm, UneReponse, vars
  <2>3. IInv /\ [Next]_vars => Position'
    BY <2>1, <2>2, PositionPasArm, PositionPasServeur DEF Next
  <2> QED BY <2>3, TypeInductif, SessionInductive DEF IInv
<1> QED BY <1>1, <1>2, PTL DEF Spec

\* The position of the ARM keeps l1_sync out of the server's frames.
LEMMA Exclut == IInv => L1SyncExclusif
BY DEF IInv, TypeOK, TypeServeur, OuverteEnSession, EnSession, PontPc, Position,
       PositionArm, Libre, L1SyncExclusif, Execute

\* l1_sync on the ARM and the DSP's frame exclude each other, for any number of
\* frames, RESETs, DCCH messages, connections, signals and disconnections.
THEOREM Exclusion == Spec => []L1SyncExclusif
BY Exclut, Invariant, PTL

\* The DSP is only paused when it owes the ARM no answer.
THEOREM PauseSurFrontiere == Spec => []PauseHorsTrame
<1>1. IInv => PauseHorsTrame
  <2> SUFFICES ASSUME IInv, pc = "pause" PROVE PauseHorsTrame
    BY DEF PauseHorsTrame
  <2>1. PositionArm
    BY DEF IInv, OuverteEnSession, EnSession, PontPc, Position
  <2>2. \A S \in {TicksA, TicksF} : UnJeton(versPont, S) =>
          \E i \in 1 .. Len(versPont) : versPont[i].type = "TICK"
    BY DEF UnJeton, TicksA, TicksF
  <2> QED BY <2>1, <2>2 DEF PositionArm, UneReponse, PauseHorsTrame
<1> QED BY <1>1, Invariant, PTL

-----------------------------------------------------------------------------
(* RESETs and frames.  The RESET that reaches the DSP when message i + 1 of *)
(* the socket is read is the last one before it: in the socket, or kept     *)
(* during the wait for the GO, or already applied.                          *)

\* The RESET in force once the first n messages of q are read, starting from c, is e.
EnVigueur(q, n, c, e) ==
  \/ e = c /\ \A j \in 1 .. n : q[j].type # "RESET"
  \/ \E j \in 1 .. n :
       /\ q[j].type = "RESET" /\ q[j].ep = e
       /\ \A k \in j + 1 .. n : q[k].type # "RESET"

\* The last RESET the server has read, applied or kept.
Lu == IF resetDiffere = 1 THEN resetEp ELSE vu

\* Every TICK in the socket meets the RESET it was sent after, and so will the next.
FileOrdonnee ==
  /\ EnVigueur(versPont, Len(versPont), Lu, compte.resets)
  /\ \A i \in 1 .. Len(versPont) :
       versPont[i].type = "TICK" => EnVigueur(versPont, i - 1, Lu, versPont[i].ep)

ResetOrdonne == (pc \in EnSession \ {"adieu"} => FileOrdonnee) /\ ResetEntreTrames

\* The DSP that has booted runs; the frame that delivers a burst of the socket is one it
\* booted before; from the first phase on, a frame of two phases is one.
BurstFonde ==
  /\ initDone => running
  /\ pc \in {"trame", "phaseA", "go", "phaseB", "reste"} => (inj.udp => initDone)
  /\ pc \in {"phaseA", "go", "phaseB", "reste"} => trame.deux
  /\ BurstApresDemarrage

\* What is in force after n messages does not depend on what is sent behind them.
LEMMA EnVigueurDerriere ==
  ASSUME NEW q \in Seq(Msgs), NEW m \in Msgs, NEW n \in 0 .. Len(q), NEW c, NEW e,
         EnVigueur(q, n, c, e)
  PROVE  EnVigueur(Append(q, m), n, c, e)
<1>1. \A j \in 1 .. n : Append(q, m)[j] = q[j]
  OBVIOUS
<1> QED BY <1>1 DEF EnVigueur

\* A message that is no RESET changes nothing, a RESET puts itself in force.
LEMMA EnVigueurAjout ==
  ASSUME NEW q \in Seq(Msgs), NEW m \in Msgs, NEW c, NEW e, EnVigueur(q, Len(q), c, e)
  PROVE  EnVigueur(Append(q, m), Len(q) + 1, c, IF m.type = "RESET" THEN m.ep ELSE e)
<1>1. Append(q, m)[Len(q) + 1] = m /\ \A j \in 1 .. Len(q) : Append(q, m)[j] = q[j]
  OBVIOUS
<1>2. Len(q) \in Nat
  OBVIOUS
<1>3. CASE m.type = "RESET"
  BY <1>1, <1>2, <1>3 DEF EnVigueur
<1>4. CASE m.type # "RESET" /\ e = c /\ \A j \in 1 .. Len(q) : q[j].type # "RESET"
  BY <1>1, <1>2, <1>4 DEF EnVigueur
<1>5. ASSUME m.type # "RESET", NEW j \in 1 .. Len(q), q[j].type = "RESET", q[j].ep = e,
             \A k \in j + 1 .. Len(q) : q[k].type # "RESET"
      PROVE  EnVigueur(Append(q, m), Len(q) + 1, c, e)
  <2>1. \A k \in j + 1 .. Len(q) + 1 : Append(q, m)[k].type # "RESET"
    BY <1>1, <1>2, <1>5
  <2> QED BY <1>1, <1>2, <1>5, <2>1 DEF EnVigueur
<1> QED BY <1>3, <1>4, <1>5 DEF EnVigueur

\* Reading the first message: if it is a RESET, it is the one we start from now.
LEMMA EnVigueurLecture ==
  ASSUME NEW q \in Seq(Msgs), q # <<>>, NEW n \in 1 .. Len(q), NEW c, NEW e,
         EnVigueur(q, n, c, e)
  PROVE  EnVigueur(Tail(q), n - 1, IF Head(q).type = "RESET" THEN Head(q).ep ELSE c, e)
<1>1. Head(q) = q[1] /\ Len(q) \in Nat \ {0} /\ n \in Nat \ {0} /\ n <= Len(q)
  OBVIOUS
<1>2. \A j \in 1 .. n - 1 : Tail(q)[j] = q[j + 1]
  OBVIOUS
<1>3. CASE e = c /\ \A j \in 1 .. n : q[j].type # "RESET"
  BY <1>1, <1>2, <1>3 DEF EnVigueur
<1>4. ASSUME NEW j \in 1 .. n, q[j].type = "RESET", q[j].ep = e,
             \A k \in j + 1 .. n : q[k].type # "RESET"
      PROVE  EnVigueur(Tail(q), n - 1, IF Head(q).type = "RESET" THEN Head(q).ep ELSE c, e)
  <2>1. CASE j = 1
    <3>1. \A k \in 1 .. n - 1 : Tail(q)[k].type # "RESET"
      BY <1>1, <1>2, <1>4, <2>1
    <3> QED BY <1>1, <1>4, <2>1, <3>1 DEF EnVigueur
  <2>2. CASE j # 1
    <3>1. j - 1 \in 1 .. n - 1 /\ Tail(q)[j - 1] = q[j]
      BY <1>1, <1>2, <2>2
    <3>2. \A k \in (j - 1) + 1 .. n - 1 : Tail(q)[k].type # "RESET"
      BY <1>1, <1>2, <1>4, <2>2
    <3> QED BY <1>4, <3>1, <3>2 DEF EnVigueur
  <2> QED BY <2>1, <2>2
<1> QED BY <1>3, <1>4 DEF EnVigueur

\* Sending keeps the order, for a RESET that is the next one, a TICK that says which
\* one it follows, and any other message.
LEMMA FileEnvoi ==
  ASSUME TypeOK, FileOrdonnee, UNCHANGED <<resetDiffere, resetEp, vu>>,
         NEW m \in Msgs, versPont' = Append(versPont, m),
         m.type = "TICK" => m.ep = compte.resets,
         compte'.resets = IF m.type = "RESET" THEN m.ep ELSE compte.resets
  PROVE  FileOrdonnee'
<1> DEFINE q == versPont
<1>1. q \in Seq(Msgs) /\ Len(q) \in Nat /\ Len(q') = Len(q) + 1 /\ Lu' = Lu
  BY DEF TypeOK, TypeLiaison, Lu
<1>2. EnVigueur(q', Len(q'), Lu', compte'.resets)
  BY <1>1, EnVigueurAjout DEF FileOrdonnee
<1>3. ASSUME NEW i \in 1 .. Len(q'), q'[i].type = "TICK"
      PROVE  EnVigueur(q', i - 1, Lu', q'[i].ep)
  <2>1. CASE i = Len(q) + 1
    <3>1. EnVigueur(q, Len(q), Lu, compte.resets)
      BY DEF FileOrdonnee
    <3>2. q'[i] = m /\ i - 1 = Len(q)
      BY <1>1, <2>1
    <3> QED BY <1>1, <1>3, <3>1, <3>2, EnVigueurDerriere
  <2>2. CASE i \in 1 .. Len(q)
    <3>1. q'[i] = q[i] /\ i - 1 \in 0 .. Len(q)
      BY <1>1, <2>2
    <3>2. EnVigueur(q, i - 1, Lu, q[i].ep)
      BY <1>3, <2>2, <3>1 DEF FileOrdonnee
    <3> QED BY <1>1, <3>1, <3>2, EnVigueurDerriere
  <2> QED BY <1>1, <2>1, <2>2
<1> QED BY <1>2, <1>3 DEF FileOrdonnee

\* So does reading, when a RESET that is read is kept or applied at once.
LEMMA FileLecture ==
  ASSUME TypeOK, FileOrdonnee, versPont # <<>>, versPont' = Tail(versPont), UNCHANGED compte,
         Lu' = IF Head(versPont).type = "RESET" THEN Head(versPont).ep ELSE Lu
  PROVE  FileOrdonnee'
<1> DEFINE q == versPont
<1>1. q \in Seq(Msgs) /\ Len(q) \in Nat \ {0} /\ Len(q') = Len(q) - 1
      /\ \A j \in 1 .. Len(q') : q'[j] = q[j + 1]
  BY DEF TypeOK, TypeLiaison
<1>2. EnVigueur(q', Len(q'), Lu', compte'.resets)
  <2>1. EnVigueur(q, Len(q), Lu, compte.resets)
    BY DEF FileOrdonnee
  <2> QED BY <1>1, <2>1, EnVigueurLecture
<1>3. ASSUME NEW i \in 1 .. Len(q'), q'[i].type = "TICK"
      PROVE  EnVigueur(q', i - 1, Lu', q'[i].ep)
  <2>1. i + 1 \in 1 .. Len(q) /\ q'[i] = q[i + 1] /\ i \in 1 .. Len(q)
    BY <1>1
  <2>2. EnVigueur(q, i, Lu, q[i + 1].ep)
    BY <1>3, <2>1 DEF FileOrdonnee
  <2> QED BY <1>1, <2>1, <2>2, EnVigueurLecture
<1> QED BY <1>2, <1>3 DEF FileOrdonnee

\* A step that leaves the socket, the RESETs and the frame alone keeps their order.
LEMMA FileImmobile ==
  ASSUME ResetOrdonne, UNCHANGED <<resetDiffere, resetEp, vu, trame, versPont, compte>>,
         pc' \in EnSession \ {"adieu"} => pc \in EnSession \ {"adieu"},
         pc' \in Execute \cup {"go"} => pc \in Execute \cup {"go"}
  PROVE  ResetOrdonne'
BY DEF ResetOrdonne, FileOrdonnee, EnVigueur, Lu, ResetEntreTrames

\* The ARM's steps keep the order of RESETs and frames.
LEMMA ResetPasArm == TypeOK /\ ResetOrdonne /\ Arm => ResetOrdonne'
<1> DEFINE Envoi(m) ==
      /\ m \in Msgs /\ versPont' = Append(versPont, m)
      /\ UNCHANGED <<resetDiffere, resetEp, vu, trame, pc>>
      /\ m.type = "TICK" => m.ep = compte.resets
      /\ compte'.resets = IF m.type = "RESET" THEN m.ep ELSE compte.resets
<1>1. ASSUME TypeOK, ResetOrdonne, NEW m, Envoi(m) PROVE ResetOrdonne'
  BY <1>1, FileEnvoi DEF ResetOrdonne, ResetEntreTrames
<1>2. TypeOK /\ ResetOrdonne /\ ArmBonjour => ResetOrdonne'
  <2>1. \A t \in {"HELLO", "FAUX"} : Msg(t) \in Msgs /\ Msg(t).type = t
    BY PontAssumption, TypeMsg DEF Types, Msg
  <2>2. ArmBonjour => \E t \in {"HELLO", "FAUX"} : Envoi(Msg(t))
    BY <2>1 DEF ArmBonjour, Envoyer, serveur
  <2> QED BY <1>1, <2>2
<1>3. ASSUME NEW deux \in BOOLEAN PROVE TypeOK /\ ResetOrdonne /\ ArmTick(deux) => ResetOrdonne'
  <2> DEFINE m == Tick(deux, compte.resets)
  <2>1. TypeOK => m \in Msgs /\ m.type = "TICK" /\ m.ep = compte.resets
    BY PontAssumption, TypeMsg DEF Tick, Msg, TypeOK, TypeCompte
  <2>2. TypeOK /\ ArmTick(deux) => compte'.resets = compte.resets
    BY DEF ArmTick, TypeOK, TypeCompte
  <2>3. TypeOK /\ ArmTick(deux) => Envoi(m)
    BY <2>1, <2>2 DEF ArmTick, Envoyer, serveur
  <2> QED BY <1>1, <2>3
<1>4. TypeOK /\ ResetOrdonne /\ ArmFinL1Sync => ResetOrdonne'
  <2>1. Msg("GO") \in Msgs /\ Msg("GO").type = "GO"
    BY PontAssumption, TypeMsg DEF Types, Msg
  <2>2. ArmFinL1Sync => Envoi(Msg("GO")) \/ UNCHANGED <<serveur, ouverte, versPont, compte>>
    BY <2>1 DEF ArmFinL1Sync, Envoyer, serveur, liaison
  <2> QED BY <1>1, <2>2, FileImmobile DEF serveur
<1>5. TypeOK /\ ResetOrdonne /\ ArmReset => ResetOrdonne'
  <2> DEFINE m == Reset(compte.resets + 1)
  <2>1. TypeOK => m \in Msgs /\ m.type = "RESET" /\ m.ep = compte.resets + 1
    BY PontAssumption, TypeMsg DEF Reset, Msg, TypeOK, TypeCompte
  <2>2. TypeOK /\ ArmReset => compte'.resets = compte.resets + 1
    BY DEF ArmReset, TypeOK, TypeCompte
  <2>3. TypeOK /\ ArmReset => Envoi(m)
    BY <2>1, <2>2 DEF ArmReset, Envoyer, serveur
  <2> QED BY <1>1, <2>3
<1>6. ASSUME NEW tn \in Tn \cup {0} PROVE TypeOK /\ ResetOrdonne /\ ArmDcch(tn) => ResetOrdonne'
  <2>1. Dcch(tn) \in Msgs /\ Dcch(tn).type = "DCCH"
    BY PontAssumption, TypeMsg DEF Dcch, Msg
  <2>2. TypeOK /\ ArmDcch(tn) => compte'.resets = compte.resets
    BY DEF ArmDcch, TypeOK, TypeCompte
  <2>3. TypeOK /\ ArmDcch(tn) => Envoi(Dcch(tn))
    BY <2>1, <2>2 DEF ArmDcch, Envoyer, serveur
  <2> QED BY <1>1, <2>3
<1>7. TypeOK /\ ResetOrdonne /\ ArmRecevoir => ResetOrdonne'
  BY FileImmobile DEF ArmRecevoir, serveur
<1>8. TypeOK /\ ResetOrdonne /\ ArmPartir => ResetOrdonne'
  <2>1. Msg("BYE") \in Msgs /\ Msg("BYE").type = "BYE"
    BY PontAssumption, TypeMsg DEF Types, Msg
  <2>2. ArmPartir => Envoi(Msg("BYE")) \/ UNCHANGED <<serveur, ouverte, versPont, compte>>
    BY <2>1 DEF ArmPartir, serveur
  <2> QED BY <1>1, <2>2, FileImmobile DEF serveur
<1>9. TypeOK /\ ResetOrdonne /\ ArmConstater => ResetOrdonne'
  BY FileImmobile DEF ArmConstater, serveur, liaison
<1> QED BY <1>2, <1>3, <1>4, <1>5, <1>6, <1>7, <1>8, <1>9 DEF Arm

\* And the server's: it applies a RESET between frames only, and keeps the last one.
LEMMA ResetPasServeur == IInv /\ ResetOrdonne /\ Serveur => ResetOrdonne'
<1> USE DEF IInv, OuverteEnSession, EnSession, PontPc, Execute
<1>1. IInv /\ ResetOrdonne /\ Accepter => ResetOrdonne'
  BY DEF Accepter, ResetOrdonne, FileOrdonnee, EnVigueur, Lu, ResetEntreTrames
<1>2. IInv /\ ResetOrdonne /\ (Terminer \/ Sommet \/ FinPause \/ RienRecu) => ResetOrdonne'
  BY FileImmobile DEF Terminer, Sommet, FinPause, RienRecu, liaison
<1>3. IInv /\ ResetOrdonne /\ (AbandonnerTrame \/ FinPhaseA \/ LivrerBurst \/ FinTrame)
        => ResetOrdonne'
  BY FileImmobile DEF AbandonnerTrame, FinPhaseA, LivrerBurst, FinTrame, Clore, liaison
<1>4. IInv /\ ResetOrdonne /\ Raccrocher => ResetOrdonne'
  BY DEF Raccrocher, ResetOrdonne, ResetEntreTrames
<1>5. IInv /\ ResetOrdonne /\ Poignee => ResetOrdonne'
  <2>1. Poignee /\ pc' # "adieu" =>
          /\ versPont # <<>> /\ versPont' = Tail(versPont)
          /\ Head(versPont).type = "HELLO" /\ Lu' = Lu
    BY DEF Poignee, Lu
  <2> QED BY <2>1, FileLecture DEF Poignee, ResetOrdonne, ResetEntreTrames
<1>6. IInv /\ ResetOrdonne /\ ResetRecu => ResetOrdonne'
  BY FileLecture DEF ResetRecu, TraiterReset, Lu, ResetOrdonne, ResetEntreTrames
<1>7. IInv /\ ResetOrdonne /\ ResetGarde => ResetOrdonne'
  <2> SUFFICES ASSUME IInv, ResetOrdonne, ResetGarde PROVE ResetOrdonne'
    OBVIOUS
  <2>1. Lu' = Lu
    BY DEF ResetGarde, TraiterReset, Lu, TypeOK, TypeServeur
  <2> QED BY <2>1 DEF ResetGarde, TraiterReset, ResetOrdonne, FileOrdonnee, EnVigueur,
                      ResetEntreTrames
<1>8. IInv /\ ResetOrdonne /\ TickRecu => ResetOrdonne'
  <2> SUFFICES ASSUME IInv, ResetOrdonne, TickRecu PROVE ResetOrdonne'
    OBVIOUS
  <2>1. Lu = vu /\ Lu' = Lu
    BY DEF TickRecu, Lu
  <2>2. FileOrdonnee'
    BY <2>1, FileLecture DEF TickRecu, ResetOrdonne
  <2>3. EnVigueur(versPont, 0, Lu, versPont[1].ep) /\ Head(versPont) = versPont[1]
    BY DEF TickRecu, ResetOrdonne, FileOrdonnee, TypeOK, TypeLiaison
  <2> QED BY <2>1, <2>2, <2>3 DEF TickRecu, ResetOrdonne, ResetEntreTrames, EnVigueur
<1>9. IInv /\ ResetOrdonne /\ (DcchRecu \/ AutreRecu) => ResetOrdonne'
  BY FileLecture DEF DcchRecu, AutreRecu, Lu, ResetOrdonne, ResetEntreTrames
<1>10. IInv /\ ResetOrdonne /\ AttendreGo => ResetOrdonne'
  BY FileLecture DEF AttendreGo, Lu, ResetOrdonne, ResetEntreTrames
<1> QED BY <1>1, <1>2, <1>3, <1>4, <1>5, <1>6, <1>7, <1>8, <1>9, <1>10 DEF Serveur

\* Every frame is played by a DSP restarted by the last RESET sent before its TICK: the
\* RESET that crosses the wait for the GO is neither lost nor applied inside the frame.
THEOREM ResetsOrdonnes == Spec => []ResetEntreTrames
<1>1. Init => ResetOrdonne
  BY DEF Init, ResetOrdonne, ResetEntreTrames, EnSession, Execute
<1>2. IInv /\ ResetOrdonne /\ [Next]_vars => ResetOrdonne'
  <2>1. Signal \/ UNCHANGED vars =>
          UNCHANGED <<pc, resetDiffere, resetEp, vu, trame, versPont>>
    BY DEF Signal, SigTerm, SigPause, SigReprise, serveur, liaison, vars
  <2>2. TypeCompte /\ (Signal \/ UNCHANGED vars) => compte'.resets = compte.resets
    BY DEF TypeCompte, Signal, SigTerm, SigPause, SigReprise, vars
  <2>3. TypeCompte /\ ResetOrdonne /\ (Signal \/ UNCHANGED vars) => ResetOrdonne'
    BY <2>1, <2>2 DEF ResetOrdonne, FileOrdonnee, EnVigueur, Lu, ResetEntreTrames
  <2> QED BY <2>3, ResetPasArm, ResetPasServeur DEF Next, IInv, TypeOK
<1>3. ResetOrdonne => ResetEntreTrames
  BY DEF ResetOrdonne
<1> QED BY <1>1, <1>2, <1>3, Invariant, PTL DEF Spec

\* What is added to the list was handed to a DSP that has not booted.
LEMMA FroidAjout ==
  ASSUME NEW quoi, NEW boote \in BOOLEAN, NEW deux, NEW b \in AFroid(quoi, boote, deux)
  PROVE  ~boote /\ b.quoi \in quoi /\ b.deux = deux
BY DEF AFroid

\* The bursts of the socket are only handed to a DSP that has booted since its last restart,
\* in any order of the two; so is the synthetic one, but in phase B of a two-phase frame.
\* The boot seen when the TICK was read still holds when the burst is delivered.
THEOREM BurstsFondes == Spec => []BurstApresDemarrage
<1>1. Init => BurstFonde
  BY DEF Init, BurstFonde, BurstApresDemarrage
<1>2. BurstFonde /\ [Next]_vars => BurstFonde'
  <2> USE DEF BurstFonde
  <2>1. BurstFonde /\ Signal => BurstFonde'
    BY DEF Signal, SigTerm, SigPause, SigReprise, serveur, BurstApresDemarrage
  <2>2. BurstFonde /\ Arm => BurstFonde'
    BY DEF Arm, ArmBonjour, ArmTick, ArmFinL1Sync, ArmReset, ArmDcch, ArmRecevoir, ArmPartir,
           ArmConstater, Envoyer, serveur, BurstApresDemarrage
  <2>3. BurstFonde /\ TickRecu => BurstFonde'
    <3> SUFFICES ASSUME BurstFonde, TickRecu
                 PROVE  BurstFonde'
      OBVIOUS
    <3>1. PICK rx \in RxMode, iq \in Injecte :
            /\ inj' = [udp |-> rx = "milieu" /\ initDone, iq |-> rx = "milieu" /\ iq,
                       apres |-> rx = "apres" /\ iq]
            /\ froid' = AFroid({q \in {"udp", "iq"} :
                                 /\ initDone
                                 /\ IF q = "udp" THEN rx # "milieu" ELSE rx = "avant" /\ iq},
                               running /\ initDone, Head(versPont).deux)
      BY DEF TickRecu
    <3>2. inj'.udp => initDone
      BY <3>1, Zenon
    <3>3. froid' = {}
      BY <3>1 DEF AFroid
    <3>4. pc' = (IF Head(versPont).deux THEN "phaseA" ELSE "trame") /\ trame' = Head(versPont)
      BY DEF TickRecu
    <3>5. UNCHANGED <<initDone, running>>
      BY DEF TickRecu
    <3> QED BY <3>2, <3>3, <3>4, <3>5 DEF BurstApresDemarrage
  <2>4. BurstFonde /\ Demarrer => (initDone => initDone') /\ (initDone' => running)
    BY DEF Demarrer
  <2>5. BurstFonde /\ (FinPhaseA \/ AttendreGo) => BurstFonde'
    BY <2>4 DEF FinPhaseA, AttendreGo, BurstApresDemarrage
  <2>6. BurstFonde /\ LivrerBurst => BurstFonde'
    <3> SUFFICES ASSUME BurstFonde, LivrerBurst
                 PROVE  BurstFonde'
      OBVIOUS
    <3>1. /\ pc = "phaseB" /\ UNCHANGED <<initDone, running, inj, trame>>
          /\ froid' = froid \cup AFroid(MilieuDeTrame, running /\ initDone, trame.deux)
      BY DEF LivrerBurst
    <3>2. (running /\ initDone) \/ MilieuDeTrame \subseteq {"iq"}
      BY <3>1 DEF MilieuDeTrame
    <3>3. ASSUME NEW b \in AFroid(MilieuDeTrame, running /\ initDone, trame.deux)
          PROVE  b.quoi = "iq" /\ b.deux
      BY <3>1, <3>2, FroidAjout
    <3>4. BurstApresDemarrage'
      BY <3>1, <3>3 DEF BurstApresDemarrage
    <3> QED BY <3>1, <3>4
  <2>7. BurstFonde /\ FinTrame => BurstFonde'
    <3> SUFFICES ASSUME BurstFonde, FinTrame
                 PROVE  BurstFonde'
      OBVIOUS
    <3>1. \/ pc = "trame" /\ (initDone => initDone') /\ (initDone' => running)
          \/ pc = "phaseB" /\ initDone' = initDone
          \/ pc = "reste" /\ initDone' = initDone
      BY <2>4 DEF FinTrame, Clore
    <3>2. /\ pc' = "boucle" /\ running' = running
          /\ froid' = froid \cup AFroid(FinDeTrame, running /\ initDone', trame.deux)
      BY DEF FinTrame, Clore
    <3>3. (running /\ initDone') \/ FinDeTrame = {} \/ pc = "phaseB"
      BY <3>1 DEF FinDeTrame
    <3>4. pc = "phaseB" =>
            (running /\ initDone') \/ (FinDeTrame \subseteq {"iq"} /\ trame.deux)
      BY <3>1 DEF FinDeTrame, MilieuDeTrame
    <3>5. ASSUME NEW b \in AFroid(FinDeTrame, running /\ initDone', trame.deux)
          PROVE  b.quoi = "iq" /\ b.deux
      BY <3>2, <3>3, <3>4, FroidAjout
    <3>6. BurstApresDemarrage'
      BY <3>2, <3>5 DEF BurstApresDemarrage
    <3> QED BY <3>1, <3>2, <3>6
  <2>8. BurstFonde /\ (ResetRecu \/ ResetGarde \/ Accepter) => BurstFonde'
    BY DEF ResetRecu, ResetGarde, TraiterReset, Accepter, BurstApresDemarrage
  <2>9. BurstFonde /\ (Terminer \/ Poignee \/ Raccrocher \/ Sommet \/ FinPause \/ RienRecu)
          => BurstFonde'
    BY DEF Terminer, Poignee, Raccrocher, Sommet, FinPause, RienRecu, BurstApresDemarrage
  <2>10. BurstFonde /\ (DcchRecu \/ AutreRecu \/ AbandonnerTrame) => BurstFonde'
    BY DEF DcchRecu, AutreRecu, AbandonnerTrame, BurstApresDemarrage
  <2>11. BurstFonde /\ UNCHANGED vars => BurstFonde'
    BY DEF vars, BurstApresDemarrage
  <2> QED BY <2>1, <2>2, <2>3, <2>5, <2>6, <2>7, <2>8, <2>9, <2>10, <2>11 DEF Next, Serveur
<1>3. BurstFonde => BurstApresDemarrage
  BY DEF BurstFonde
<1> QED BY <1>1, <1>2, <1>3, PTL DEF Spec

-----------------------------------------------------------------------------
(* The bridge implements Alternance.  A frame's stage passes from the      *)
(* server to the ARM and back with the messages: it is read off the server *)
(* while the DSP executes, off the ARM and the socket otherwise.           *)

\* What a step of Alternance does to its stage, or leaves of it.
Permis(a, b) ==
  \/ b = a \/ b = "repos"
  \/ a = "repos" /\ b = "dsp"
  \/ a = "dsp" /\ b = "sync"
  \/ a = "sync" /\ b = "suite"

\* A permitted change of stage is a step of Alternance.
LEMMA EtapePermise == Permis(etapeTrame, etapeTrame') => [Alternee!Next]_etapeTrame
BY DEF Permis, Alternee!Next, Alternee!Ouvrir, Alternee!Synchroniser, Alternee!Poursuivre,
       Alternee!Clore

\* The GO in the socket: what sending and reading do to it.
LEMMA GoEnvoi ==
  ASSUME TypeOK, NEW m \in Msgs, m.type # "GO", versPont' = Append(versPont, m)
  PROVE  GoEnRoute' <=> GoEnRoute
<1>1. Len(versPont') = Len(versPont) + 1 /\ Len(versPont) \in Nat
      /\ versPont'[Len(versPont) + 1] = m
      /\ \A j \in 1 .. Len(versPont) : versPont'[j] = versPont[j]
  BY DEF TypeOK, TypeLiaison
<1> QED BY <1>1 DEF GoEnRoute

\* Reading takes the GO out of it only if the GO is what is read.
LEMMA GoLecture ==
  ASSUME TypeOK, versPont # <<>>, versPont' = Tail(versPont)
  PROVE  GoEnRoute <=> (Head(versPont).type = "GO" \/ GoEnRoute')
<1>1. Len(versPont') = Len(versPont) - 1 /\ Len(versPont) \in Nat \ {0}
      /\ Head(versPont) = versPont[1]
      /\ \A j \in 1 .. Len(versPont') : versPont'[j] = versPont[j + 1]
  BY DEF TypeOK, TypeLiaison
<1>2. GoEnRoute' => GoEnRoute
  BY <1>1 DEF GoEnRoute
<1>3. ASSUME NEW i \in 1 .. Len(versPont), versPont[i].type = "GO", Head(versPont).type # "GO"
      PROVE  GoEnRoute'
  <2>1. i - 1 \in 1 .. Len(versPont') /\ versPont'[i - 1] = versPont[i]
    BY <1>1, <1>3
  <2> QED BY <1>3, <2>1 DEF GoEnRoute
<1>4. Head(versPont).type = "GO" => GoEnRoute
  BY <1>1 DEF GoEnRoute
<1> QED BY <1>2, <1>3, <1>4 DEF GoEnRoute

\* A socket without token holds no GO; one that holds a GO as its token holds one.
LEMMA GoJeton ==
  /\ SansJeton(versPont) => ~GoEnRoute
  /\ UnJeton(versPont, Gos) => GoEnRoute
BY DEF SansJeton, UnJeton, GoEnRoute, Jetons, Gos

\* The ARM's steps, seen from Alternance.
LEMMA EtapePasArm == IInv /\ Arm => Permis(etapeTrame, etapeTrame')
<1> USE DEF Permis, etapeTrame
<1>1. \A t \in {"HELLO", "FAUX", "GO", "BYE"} : Msg(t) \in Msgs /\ Msg(t).type = t
  BY PontAssumption, TypeMsg DEF Types, Msg
<1>2. IInv /\ ArmBonjour => Permis(etapeTrame, etapeTrame')
  <2> SUFFICES ASSUME IInv, ArmBonjour PROVE Permis(etapeTrame, etapeTrame')
    OBVIOUS
  <2>1. GoEnRoute' <=> GoEnRoute
    BY <1>1, GoEnvoi DEF ArmBonjour, Envoyer, IInv
  <2> QED BY <2>1 DEF ArmBonjour, Envoyer, serveur
<1>3. ASSUME NEW deux \in BOOLEAN
      PROVE  IInv /\ ArmTick(deux) => Permis(etapeTrame, etapeTrame')
  <2> SUFFICES ASSUME IInv, ArmTick(deux) PROVE Permis(etapeTrame, etapeTrame')
    OBVIOUS
  <2> DEFINE m == Tick(deux, compte.resets)
  <2>1. m \in Msgs /\ m.type = "TICK"
    BY PontAssumption, TypeMsg DEF Tick, Msg, IInv, TypeOK, TypeCompte
  <2>2. GoEnRoute' <=> GoEnRoute
    BY <2>1, GoEnvoi DEF ArmTick, Envoyer, IInv
  <2> QED BY <2>2 DEF ArmTick, Envoyer, serveur
<1>4. IInv /\ ArmFinL1Sync => Permis(etapeTrame, etapeTrame')
  <2> SUFFICES ASSUME IInv, ArmFinL1Sync PROVE Permis(etapeTrame, etapeTrame')
    OBVIOUS
  <2>1. pc \notin Execute
    BY Exclut DEF L1SyncExclusif, ArmFinL1Sync
  <2> QED BY <2>1 DEF ArmFinL1Sync, Envoyer, serveur, Execute
<1>5. IInv /\ ArmReset => Permis(etapeTrame, etapeTrame')
  <2> SUFFICES ASSUME IInv, ArmReset PROVE Permis(etapeTrame, etapeTrame')
    OBVIOUS
  <2> DEFINE m == Reset(compte.resets + 1)
  <2>1. m \in Msgs /\ m.type = "RESET"
    BY PontAssumption, TypeMsg DEF Reset, Msg, IInv, TypeOK, TypeCompte
  <2>2. GoEnRoute' <=> GoEnRoute
    BY <2>1, GoEnvoi DEF ArmReset, Envoyer, IInv
  <2> QED BY <2>2 DEF ArmReset, Envoyer, serveur
<1>6. ASSUME NEW tn \in Tn \cup {0}
      PROVE  IInv /\ ArmDcch(tn) => Permis(etapeTrame, etapeTrame')
  <2> SUFFICES ASSUME IInv, ArmDcch(tn) PROVE Permis(etapeTrame, etapeTrame')
    OBVIOUS
  <2>1. Dcch(tn) \in Msgs /\ Dcch(tn).type = "DCCH"
    BY PontAssumption, TypeMsg DEF Dcch, Msg
  <2>2. GoEnRoute' <=> GoEnRoute
    BY <2>1, GoEnvoi DEF ArmDcch, Envoyer, IInv
  <2> QED BY <2>2 DEF ArmDcch, Envoyer, serveur
<1>7. IInv /\ ArmRecevoir => Permis(etapeTrame, etapeTrame')
  <2> SUFFICES ASSUME IInv, ArmRecevoir PROVE Permis(etapeTrame, etapeTrame')
    OBVIOUS
  <2>1. GoEnRoute' <=> GoEnRoute
    BY DEF ArmRecevoir, GoEnRoute
  <2>2. arm \in {"attendA", "attendF"} =>
          pc \notin Execute /\ (pc = "go" => ~GoEnRoute)
    BY GoJeton DEF ArmRecevoir, IInv, OuverteEnSession, EnSession, PontPc, Position,
                   PositionArm, Libre, Execute, TypeOK, TypeServeur
  <2> QED BY <2>1, <2>2 DEF ArmRecevoir, serveur, Execute
<1>8. IInv /\ ArmPartir => Permis(etapeTrame, etapeTrame')
  <2> SUFFICES ASSUME IInv, ArmPartir PROVE Permis(etapeTrame, etapeTrame')
    OBVIOUS
  <2>1. GoEnRoute' <=> GoEnRoute
    <3>1. CASE versPont' = versPont
      BY <3>1 DEF GoEnRoute
    <3>2. CASE versPont' = Append(versPont, Msg("BYE"))
      BY <3>2, <1>1, GoEnvoi DEF IInv
    <3> QED BY <3>1, <3>2 DEF ArmPartir
  <2> QED BY <2>1 DEF ArmPartir, serveur
<1>9. IInv /\ ArmConstater => Permis(etapeTrame, etapeTrame')
  BY DEF ArmConstater, GoEnRoute, serveur, liaison
<1> QED BY <1>2, <1>3, <1>4, <1>5, <1>6, <1>7, <1>8, <1>9 DEF Arm

\* While servir runs, the position of the ARM is known.
LEMMA PositionConnue ==
  IInv /\ pc \notin {"attente", "adieu", "fin"} => PositionArm /\ arm \in ArmPc
BY DEF IInv, OuverteEnSession, EnSession, PontPc, Position, TypeOK, TypeServeur, TypeLiaison

\* The server's steps, seen from Alternance.
LEMMA EtapePasServeur == IInv /\ Serveur => Permis(etapeTrame, etapeTrame')
<1> USE DEF Permis, etapeTrame
<1>1. Accepter => Permis(etapeTrame, etapeTrame')
  BY DEF Accepter
<1>2. Terminer \/ Raccrocher \/ Sommet \/ FinPause \/ RienRecu
        => Permis(etapeTrame, etapeTrame')
  BY DEF Terminer, Raccrocher, Sommet, FinPause, RienRecu, liaison
<1>3. IInv /\ Poignee => Permis(etapeTrame, etapeTrame')
  <2>1. IInv /\ Poignee => arm \in {"absent", "connecte", "bonjour"}
    BY PositionConnue DEF Poignee, PositionArm, Libre, ArmPc
  <2> QED BY <2>1 DEF Poignee
<1>4. ResetRecu \/ ResetGarde \/ DcchRecu \/ AutreRecu => Permis(etapeTrame, etapeTrame')
  BY DEF ResetRecu, ResetGarde, TraiterReset, DcchRecu, AutreRecu
<1>5. IInv /\ TickRecu => Permis(etapeTrame, etapeTrame')
  <2> SUFFICES ASSUME IInv, TickRecu PROVE Permis(etapeTrame, etapeTrame')
    OBVIOUS
  <2>1. SansJeton(versPont) => FALSE
    BY Lecture DEF TickRecu, Jetons, IInv
  <2>2. arm \notin {"l1sync", "l1syncF"}
    BY <2>1, PositionConnue DEF TickRecu, PositionArm
  <2>3. arm \in {"attendA", "attendF"} => versArm = <<>>
    BY <2>1, PositionConnue DEF TickRecu, PositionArm
  <2> QED BY <2>2, <2>3 DEF TickRecu
<1>6. IInv /\ FinPhaseA => Permis(etapeTrame, etapeTrame')
  <2> SUFFICES ASSUME IInv, FinPhaseA PROVE Permis(etapeTrame, etapeTrame')
    OBVIOUS
  <2>1. arm \in {"absent", "attendA"}
    BY PositionConnue DEF FinPhaseA, PositionArm, Libre, ArmPc
  <2>2. arm = "attendA" => UneReponse' /\ ~GoEnRoute /\ UNCHANGED versPont
    BY PositionConnue, ReponseUnique, GoJeton DEF FinPhaseA, PositionArm, Libre, Reponses, IInv
  <2>3. UNCHANGED arm /\ pc' = "go"
    BY DEF FinPhaseA
  <2> QED BY <2>1, <2>2, <2>3 DEF FinPhaseA, UneReponse, GoEnRoute
<1>7. IInv /\ AttendreGo => Permis(etapeTrame, etapeTrame')
  <2> SUFFICES ASSUME IInv, AttendreGo PROVE Permis(etapeTrame, etapeTrame')
    OBVIOUS
  <2>1. GoEnRoute <=> (Head(versPont).type = "GO" \/ GoEnRoute')
    BY GoLecture DEF AttendreGo, IInv
  <2> QED BY <2>1 DEF AttendreGo
<1>8. IInv /\ AbandonnerTrame => Permis(etapeTrame, etapeTrame')
  <2> SUFFICES ASSUME IInv, AbandonnerTrame PROVE Permis(etapeTrame, etapeTrame')
    OBVIOUS
  <2>1. arm \in {"attendA", "attendF"} => ~GoEnRoute
    BY PositionConnue, GoJeton DEF AbandonnerTrame, PositionArm, Libre
  <2> QED BY <2>1 DEF AbandonnerTrame, liaison
<1>9. LivrerBurst => Permis(etapeTrame, etapeTrame')
  BY DEF LivrerBurst
<1>10. IInv /\ FinTrame => Permis(etapeTrame, etapeTrame')
  <2> SUFFICES ASSUME IInv, FinTrame PROVE Permis(etapeTrame, etapeTrame')
    OBVIOUS
  <2>1. arm \notin {"l1sync", "l1syncF"} /\ (arm \in {"attendA", "attendF"} =>
          pc = "trame" \/ (pc = "reste" /\ versArm' = <<>>))
    BY PositionConnue DEF FinTrame, Clore, PositionArm, Libre
  <2> QED BY <2>1 DEF FinTrame, Clore
<1> QED BY <1>1, <1>2, <1>3, <1>4, <1>5, <1>6, <1>7, <1>8, <1>9, <1>10 DEF Serveur

\* The bridge, its server, its socket and its peer implement the alternation of the
\* two processors: in every frame the DSP opens, l1_sync runs, the DSP resumes.
THEOREM AlternanceImplementee == Spec => ImplementeAlternance
<1>1. Init => Alternee!Init
  BY DEF Init, Alternee!Init, etapeTrame
<1>2. IInv /\ [Next]_vars => [Alternee!Next]_etapeTrame
  <2>1. Signal \/ UNCHANGED vars => Permis(etapeTrame, etapeTrame')
    BY DEF Permis, etapeTrame, GoEnRoute, Signal, SigTerm, SigPause, SigReprise, serveur,
           liaison, vars
  <2> QED BY <2>1, EtapePasArm, EtapePasServeur, EtapePermise DEF Next
<1> QED BY <1>1, <1>2, Invariant, PTL DEF Spec, ImplementeAlternance, Alternee!Spec

-----------------------------------------------------------------------------
(* Banc.  Arithmetic modulo a number of buckets.                           *)

LEMMA ModUnique ==
  ASSUME NEW S \in Nat \ {0}, NEW x \in Int, NEW q \in Int, NEW r \in 0 .. S - 1, x = S * q + r
  PROVE  x % S = r
<1> DEFINE m == x % S
           k == x \div S
<1>1. m \in 0 .. S - 1 /\ k \in Int /\ x = S * k + m
  OBVIOUS
<1> HIDE DEF m, k
<1>2. S * (k - q) = r - m
  BY <1>1
<1>3. CASE k - q >= 1
  <2>1. S * (k - q) >= S
    BY <1>1, <1>3
  <2> QED BY <2>1, <1>2, <1>1
<1>4. CASE k - q <= -1
  <2>1. S * (k - q) <= -S
    BY <1>1, <1>4
  <2> QED BY <2>1, <1>2, <1>1
<1>5. CASE k - q = 0
  BY <1>1, <1>2, <1>5
<1> QED BY <1>1, <1>3, <1>4, <1>5 DEF m

LEMMA ModPetit ==
  ASSUME NEW S \in Nat \ {0}, NEW x \in Int
  PROVE  /\ x \in 0 .. S - 1 => x % S = x
         /\ x \in S .. 2 * S - 1 => x % S = x - S
         /\ x \in -S .. -1 => x % S = x + S
         /\ x \in -2 * S .. -S - 1 => x % S = x + 2 * S
<1>1. x \in 0 .. S - 1 => x % S = x
  <2>1. x = S * 0 + x
    OBVIOUS
  <2> QED BY <2>1, ModUnique
<1>2. x \in S .. 2 * S - 1 => x % S = x - S
  <2>1. x = S * 1 + (x - S)
    OBVIOUS
  <2>2. x \in S .. 2 * S - 1 => x - S \in 0 .. S - 1
    OBVIOUS
  <2> QED BY <2>1, <2>2, ModUnique
<1>3. x \in -S .. -1 => x % S = x + S
  <2>1. x = S * (-1) + (x + S)
    OBVIOUS
  <2>2. x \in -S .. -1 => x + S \in 0 .. S - 1
    OBVIOUS
  <2> QED BY <2>1, <2>2, ModUnique
<1>4. x \in -2 * S .. -S - 1 => x % S = x + 2 * S
  <2>1. x = S * (-2) + (x + 2 * S)
    OBVIOUS
  <2>2. x \in -2 * S .. -S - 1 => x + 2 * S \in 0 .. S - 1
    OBVIOUS
  <2> QED BY <2>1, <2>2, ModUnique
<1> QED BY <1>1, <1>2, <1>3, <1>4

Cbs == {"fb_cmd", "fb_resp", "sb_cmd", "sb_resp", "nb_cmd", "nb_resp", "tx_cmd", "tx_resp", "rach_cmd", "rach_resp", "chk_cmd"}
Items == [cb : Cbs, id : 0 .. 12, prio : -4 .. 3, flags : BOOLEAN]

Jeux == {<<>>, FbSet, SbSet, NbSet, NbSetUl, RachSet, ChkSet}

\* At most two items in a bucket, in the order of their priorities.
Bref(b) == b \in Seq(Items) /\ Len(b) <= 2 /\ (Len(b) = 2 => b[1].prio < b[2].prio)

LEMMA BrefUn == ASSUME NEW i \in Items PROVE Bref(<<i>>)
BY DEF Bref

LEMMA BrefDeux == ASSUME NEW i \in Items, NEW j \in Items, i.prio < j.prio PROVE Bref(<<i, j>>)
BY DEF Bref

LEMMA BrefVide == Bref(<<>>)
BY DEF Bref

LEMMA ItemsFaits ==
  /\ \A k \in 0 .. 12 : \A cb \in Cbs : Cmd(cb, k) \in Items /\ CmdUl(cb, k) \in Items /\ Resp(cb, k) \in Items
  /\ \A k, cb : /\ Cmd(cb, k).prio = 0 /\ CmdUl(cb, k).prio = 3 /\ Resp(cb, k).prio = -4
                /\ Cmd(cb, k).cb = cb /\ CmdUl(cb, k).cb = cb /\ Resp(cb, k).cb = cb
                /\ Cmd(cb, k).id = k /\ CmdUl(cb, k).id = k /\ Resp(cb, k).id = k
                /\ Cmd(cb, k).flags = TRUE /\ CmdUl(cb, k).flags = TRUE /\ Resp(cb, k).flags = FALSE
BY DEF Cmd, CmdUl, Resp, Item, Items

LEMMA FbFaits ==
  /\ Len(FbSet) = 14 /\ DOMAIN FbSet = 1 .. 14
  /\ FbSet[1] = <<Cmd("fb_cmd", 0)>> /\ FbSet[2] = <<>>
  /\ \A k \in 3 .. 14 : FbSet[k] = <<Resp("fb_resp", k - 2)>>
<1> DEFINE a == <<<<Cmd("fb_cmd", 0)>>, <<>>>>
           b == [k \in 1 .. 12 |-> <<Resp("fb_resp", k)>>]
           X == {<<Cmd("fb_cmd", 0)>>, <<>>} \cup {<<Resp("fb_resp", k)>> : k \in 1 .. 12}
<1>1. a \in Seq(X) /\ Len(a) = 2 /\ a[1] = <<Cmd("fb_cmd", 0)>> /\ a[2] = <<>>
  OBVIOUS
<1>2. b \in Seq(X) /\ Len(b) = 12 /\ \A k \in 1 .. 12 : b[k] = <<Resp("fb_resp", k)>>
  OBVIOUS
<1>3. FbSet = a \o b
  BY DEF FbSet
<1> HIDE DEF a, b, X
<1>c. /\ a \o b \in Seq(X) /\ Len(a \o b) = Len(a) + Len(b)
      /\ \A i \in 1 .. Len(a) + Len(b) : (a \o b)[i] = IF i <= Len(a) THEN a[i] ELSE b[i - Len(a)]
  BY <1>1, <1>2, ConcatProperties
<1>d. Len(a) = 2 /\ Len(b) = 12
  BY <1>1, <1>2
<1>4. FbSet \in Seq(X) /\ Len(FbSet) = 14
  BY <1>3, <1>c, <1>d
<1>5. FbSet[1] = a[1] /\ FbSet[2] = a[2]
  <2>1. \A i \in 1 .. 2 : (a \o b)[i] = a[i]
    BY <1>c, <1>d
  <2>2. 1 \in 1 .. 2 /\ 2 \in 1 .. 2
    OBVIOUS
  <2> QED BY <1>3, <2>1, <2>2, Zenon
<1>6. ASSUME NEW k \in 3 .. 14 PROVE FbSet[k] = b[k - 2]
  <2>1. k \in 1 .. (Len(a) + Len(b)) /\ ~(k <= Len(a))
    BY <1>1, <1>2
  <2>2. (a \o b)[k] = b[k - Len(a)]
    BY <1>c, <2>1
  <2> QED BY <1>1, <1>3, <2>2
<1>7. ASSUME NEW k \in 3 .. 14 PROVE FbSet[k] = <<Resp("fb_resp", k - 2)>>
  <2>1. k - 2 \in 1 .. 12
    OBVIOUS
  <2> QED BY <1>2, <1>6, <2>1
<1> QED BY <1>1, <1>4, <1>5, <1>7

LEMMA SbFaits ==
  /\ Len(SbSet) = 5 /\ DOMAIN SbSet = 1 .. 5
  /\ SbSet[1] = <<Cmd("sb_cmd", 1)>> /\ SbSet[2] = <<Cmd("sb_cmd", 2)>> /\ SbSet[3] = <<>>
  /\ SbSet[4] = <<Resp("sb_resp", 1)>> /\ SbSet[5] = <<Resp("sb_resp", 2)>>
BY DEF SbSet

LEMMA NbFaits ==
  /\ Len(NbSet) = 6 /\ DOMAIN NbSet = 1 .. 6
  /\ NbSet[1] = <<Cmd("nb_cmd", 0)>> /\ NbSet[2] = <<Cmd("nb_cmd", 1)>>
  /\ NbSet[3] = <<Resp("nb_resp", 0), Cmd("nb_cmd", 2)>> /\ NbSet[4] = <<Resp("nb_resp", 1), Cmd("nb_cmd", 3)>>
  /\ NbSet[5] = <<Resp("nb_resp", 2)>> /\ NbSet[6] = <<Resp("nb_resp", 3)>>
BY DEF NbSet, BlocSet

LEMMA NbUlFaits ==
  /\ Len(NbSetUl) = 6 /\ DOMAIN NbSetUl = 1 .. 6
  /\ NbSetUl[1] = <<CmdUl("tx_cmd", 0)>> /\ NbSetUl[2] = <<CmdUl("tx_cmd", 1)>>
  /\ NbSetUl[3] = <<Resp("tx_resp", 0), CmdUl("tx_cmd", 2)>> /\ NbSetUl[4] = <<Resp("tx_resp", 1), CmdUl("tx_cmd", 3)>>
  /\ NbSetUl[5] = <<Resp("tx_resp", 2)>> /\ NbSetUl[6] = <<Resp("tx_resp", 3)>>
BY DEF NbSetUl, BlocSet

LEMMA RachFaits ==
  /\ Len(RachSet) = 3 /\ DOMAIN RachSet = 1 .. 3
  /\ RachSet[1] = <<CmdUl("rach_cmd", 0)>> /\ RachSet[2] = <<>> /\ RachSet[3] = <<Resp("rach_resp", 0)>>
BY DEF RachSet

LEMMA ChkFaits == Len(ChkSet) = 1 /\ DOMAIN ChkSet = 1 .. 1 /\ ChkSet[1] = <<Cmd("chk_cmd", 0)>>
BY DEF ChkSet

LEMMA JeuxFaits ==
  ASSUME NEW s \in Jeux
  PROVE  Len(s) \in 0 .. 14 /\ DOMAIN s = 1 .. Len(s) /\ \A j \in 1 .. Len(s) : Bref(s[j])
<1>1. CASE s = <<>>
  BY <1>1
<1>2. CASE s = FbSet
  <2>0. "fb_resp" \in Cbs /\ "fb_cmd" \in Cbs
    BY DEF Cbs
  <2>1. \A k \in 1 .. 12 : Resp("fb_resp", k) \in Items
    BY <2>0, ItemsFaits
  <2>2. Cmd("fb_cmd", 0) \in Items
    BY <2>0, ItemsFaits
  <2>3. ASSUME NEW k \in 3 .. 14 PROVE Bref(s[k])
    <3>1. k - 2 \in 1 .. 12
      OBVIOUS
    <3>2. s[k] = <<Resp("fb_resp", k - 2)>>
      BY <1>2, FbFaits
    <3> QED BY <3>1, <3>2, <2>1, BrefUn
  <2>4. Bref(s[1]) /\ Bref(s[2])
    BY <1>2, <2>2, FbFaits, BrefUn, BrefVide
  <2> QED BY <1>2, <2>3, <2>4, FbFaits
<1>3. CASE s = SbSet
  <2>1. {Cmd("sb_cmd", 1), Cmd("sb_cmd", 2), Resp("sb_resp", 1), Resp("sb_resp", 2)} \subseteq Items
    BY ItemsFaits DEF Cbs
  <2>2. Bref(s[1]) /\ Bref(s[2]) /\ Bref(s[3]) /\ Bref(s[4]) /\ Bref(s[5])
    BY <2>1, <1>3, SbFaits, BrefUn, BrefVide
  <2> QED BY <1>3, <2>2, SbFaits
<1>4. CASE s = NbSet
  <2>1. /\ {Cmd("nb_cmd", 0), Cmd("nb_cmd", 1), Cmd("nb_cmd", 2), Cmd("nb_cmd", 3)} \subseteq Items
        /\ {Resp("nb_resp", 0), Resp("nb_resp", 1), Resp("nb_resp", 2), Resp("nb_resp", 3)} \subseteq Items
    BY ItemsFaits DEF Cbs
  <2>2. \A k, l : Resp("nb_resp", k).prio < Cmd("nb_cmd", l).prio
    BY ItemsFaits
  <2>3. Bref(s[1]) /\ Bref(s[2]) /\ Bref(s[5]) /\ Bref(s[6])
    BY <2>1, <1>4, NbFaits, BrefUn
  <2>4. Bref(s[3]) /\ Bref(s[4])
    BY <2>1, <2>2, <1>4, NbFaits, BrefDeux
  <2> QED BY <1>4, <2>3, <2>4, NbFaits
<1>5. CASE s = NbSetUl
  <2>1. /\ {CmdUl("tx_cmd", 0), CmdUl("tx_cmd", 1), CmdUl("tx_cmd", 2), CmdUl("tx_cmd", 3)} \subseteq Items
        /\ {Resp("tx_resp", 0), Resp("tx_resp", 1), Resp("tx_resp", 2), Resp("tx_resp", 3)} \subseteq Items
    BY ItemsFaits DEF Cbs
  <2>2. \A k, l : Resp("tx_resp", k).prio < CmdUl("tx_cmd", l).prio
    BY ItemsFaits
  <2>3. Bref(s[1]) /\ Bref(s[2]) /\ Bref(s[5]) /\ Bref(s[6])
    BY <2>1, <1>5, NbUlFaits, BrefUn
  <2>4. Bref(s[3]) /\ Bref(s[4])
    BY <2>1, <2>2, <1>5, NbUlFaits, BrefDeux
  <2> QED BY <1>5, <2>3, <2>4, NbUlFaits
<1>6. CASE s = RachSet
  <2>1. {CmdUl("rach_cmd", 0), Resp("rach_resp", 0)} \subseteq Items
    BY ItemsFaits DEF Cbs
  <2>2. Bref(s[1]) /\ Bref(s[2]) /\ Bref(s[3])
    BY <2>1, <1>6, RachFaits, BrefUn, BrefVide
  <2> QED BY <1>6, <2>2, RachFaits
<1>7. CASE s = ChkSet
  <2>1. Cmd("chk_cmd", 0) \in Items
    BY ItemsFaits DEF Cbs
  <2> QED BY <1>7, <2>1, ChkFaits, BrefUn
<1> QED BY <1>1, <1>2, <1>3, <1>4, <1>5, <1>6, <1>7 DEF Jeux

\* A bucket of two items in order is run in that order.
LEMMA OrdreBref ==
  ASSUME NEW b, Bref(b)
  PROVE  Ordre(b) = b
<1>0. b \in Seq(Items) /\ Len(b) <= 2
  BY DEF Bref
<1>a. Len(b) \in Nat /\ b \in [1 .. Len(b) -> Items]
  BY <1>0, LenProperties
<1>1. Len(b) \in 0 .. 2 /\ DOMAIN b = 1 .. Len(b) /\ \A i \in 1 .. Len(b) : b[i].prio \in Int
  BY <1>0, <1>a DEF Items
<1> DEFINE D == DOMAIN b
           Trie(p) == \A i, j \in D : i < j => p[i] # p[j] /\ b[p[i]].prio <= b[p[j]].prio
           q == CHOOSE p \in [D -> D] : Trie(p)
           id == [i \in D |-> i]
<1>2. id \in [D -> D] /\ Trie(id)
  <2>1. \A i, j \in D : i < j => i = 1 /\ j = 2 /\ Len(b) = 2
    BY <1>1
  <2>2. \A i, j \in D : i < j => b[i].prio <= b[j].prio
    <3>1. Len(b) = 2 => b[1].prio < b[2].prio
      BY DEF Bref
    <3> QED BY <2>1, <3>1, <1>1
  <2> QED BY <2>1, <2>2
<1>3. q \in [D -> D] /\ Trie(q)
  BY <1>2
<1>4. \A i \in D : q[i] = i
  <2>1. CASE Len(b) < 2
    <3>1. \A i \in D : i = 1
      BY <1>1, <2>1
    <3> HIDE DEF q, D
    <3> QED BY <1>3, <3>1
  <2>2. CASE Len(b) = 2
    <3>0. D = {1, 2}
      BY <1>1, <2>2
    <3> HIDE DEF q, D, Trie
    <3>1. q[1] \in {1, 2} /\ q[2] \in {1, 2}
      BY <1>3, <3>0
    <3>2. q[1] # q[2] /\ b[q[1]].prio <= b[q[2]].prio
      BY <1>3, <3>0 DEF Trie
    <3>3. b[1].prio < b[2].prio /\ b[1].prio \in Int /\ b[2].prio \in Int
      BY <2>2, <1>1 DEF Bref
    <3>4. q[1] = 1 /\ q[2] = 2
      BY <3>1, <3>2, <3>3
    <3> QED BY <3>0, <3>4
  <2> QED BY <1>1, <2>1, <2>2
<1>5. Ordre(b) = [i \in D |-> b[q[i]]]
  BY DEF Ordre
<1> HIDE DEF q
<1>6. Ordre(b) = [i \in D |-> b[i]]
  BY <1>4, <1>5
<1> QED BY <1>1, <1>a, <1>6

TdmaT == [cur : 0 .. Seaux - 1, seau : [0 .. Seaux - 1 -> Seq(Items)], mf : [set : Jeux, frame : 0 .. 50]]

\* What a set that begins in frame d has for frame x.
Contenu(d, s, x) == IF x - d + 1 \in 1 .. Len(s) THEN s[x - d + 1] ELSE <<>>

\* The ring t and the calendar g of frame f are what is left of the set s from frame d on.
Anneau(t, g, f, d, s) ==
  /\ d \in Nat /\ s \in Jeux /\ d + Len(s) <= f + Seaux
  /\ \A o \in 0 .. Seaux - 1 : t.seau[Seau(t, o)] = Contenu(d, s, f + o)
  /\ g = {x \in Dates(d, s) : x.date >= f}

Passe(f, d, s) == d + Len(s) <= f

LEMMA ContenuBref ==
  ASSUME NEW d \in Nat, NEW s \in Jeux, NEW x \in Int
  PROVE  Bref(Contenu(d, s, x))
BY JeuxFaits, BrefVide DEF Contenu

LEMMA ContenuHors ==
  ASSUME NEW d \in Int, NEW s, Len(s) \in Nat, NEW x \in Int, ~(x - d + 1 \in 1 .. Len(s))
  PROVE  Contenu(d, s, x) = <<>>
BY DEF Contenu

LEMMA ContenuDans ==
  ASSUME NEW d \in Int, NEW s, Len(s) \in Nat, NEW x \in Int, x - d + 1 \in 1 .. Len(s)
  PROVE  Contenu(d, s, x) = s[x - d + 1]
BY DEF Contenu

LEMMA SeauxNat == Seaux \in Nat \ {0} /\ Seaux >= 14 /\ Places \in Nat /\ Places >= 2
BY BancAssumption

\* The offset of a bucket from the current one.
Ecart(t, k) == (k - t.cur) % Seaux

LEMMA ModSeaux ==
  ASSUME NEW x \in Int
  PROVE  /\ x \in 0 .. Seaux - 1 => x % Seaux = x
         /\ x \in Seaux .. 2 * Seaux - 1 => x % Seaux = x - Seaux
         /\ x \in -Seaux .. -1 => x % Seaux = x + Seaux
         /\ x \in -2 * Seaux .. -Seaux - 1 => x % Seaux = x + 2 * Seaux
BY SeauxNat, ModPetit, Zenon

LEMMA SeauType ==
  ASSUME NEW t \in TdmaT, NEW o \in 0 .. Seaux - 1
  PROVE  /\ Seau(t, o) \in 0 .. Seaux - 1
         /\ Seau(t, o) = IF t.cur + o < Seaux THEN t.cur + o ELSE t.cur + o - Seaux
<1>1. t.cur \in 0 .. Seaux - 1
  BY DEF TdmaT
<1>2. t.cur + o \in 0 .. 2 * Seaux - 1
  BY <1>1, SeauxNat
<1>3. (t.cur + o) % Seaux = IF t.cur + o < Seaux THEN t.cur + o ELSE t.cur + o - Seaux
  <2> DEFINE x == t.cur + o
  <2>1. x \in Int /\ x \in 0 .. 2 * Seaux - 1
    BY <1>2
  <2> HIDE DEF x
  <2>2. /\ x \in 0 .. Seaux - 1 => x % Seaux = x
        /\ x \in Seaux .. 2 * Seaux - 1 => x % Seaux = x - Seaux
    BY <2>1, ModSeaux, Zenon
  <2>3. x % Seaux = IF x < Seaux THEN x ELSE x - Seaux
    BY <2>1, <2>2, SeauxNat
  <2> QED BY <1>1, <1>2, <2>3, SeauxNat DEF x
<1> QED BY <1>1, <1>2, <1>3, SeauxNat DEF Seau

LEMMA SeauEcart ==
  ASSUME NEW t \in TdmaT, NEW k \in 0 .. Seaux - 1
  PROVE  Ecart(t, k) \in 0 .. Seaux - 1 /\ Seau(t, Ecart(t, k)) = k
<1>1. t.cur \in 0 .. Seaux - 1
  BY DEF TdmaT
<1>2. k - t.cur \in Int /\ (k - t.cur \in 0 .. Seaux - 1 \/ k - t.cur \in -Seaux .. -1)
  BY <1>1, SeauxNat
<1>3. Ecart(t, k) = IF k >= t.cur THEN k - t.cur ELSE k - t.cur + Seaux
  <2> DEFINE x == k - t.cur
  <2>1. x \in Int /\ (x \in 0 .. Seaux - 1 \/ x \in -Seaux .. -1) /\ (x >= 0 <=> k >= t.cur)
    BY <1>1, <1>2
  <2> HIDE DEF x
  <2>2. /\ x \in 0 .. Seaux - 1 => x % Seaux = x
        /\ x \in -Seaux .. -1 => x % Seaux = x + Seaux
    BY <2>1, ModSeaux, Zenon
  <2>3. x % Seaux = IF x >= 0 THEN x ELSE x + Seaux
    BY <2>1, <2>2, SeauxNat
  <2> QED BY <2>1, <2>3 DEF x, Ecart
<1>4. Ecart(t, k) \in 0 .. Seaux - 1
  BY <1>1, <1>3, SeauxNat
<1> QED BY <1>1, <1>3, <1>4, SeauType, SeauxNat

LEMMA EcartSeau ==
  ASSUME NEW t \in TdmaT, NEW o \in 0 .. Seaux - 1
  PROVE  Ecart(t, Seau(t, o)) = o
<1>1. t.cur \in 0 .. Seaux - 1 /\ Seau(t, o) \in 0 .. Seaux - 1
  BY SeauType DEF TdmaT
<1>2. Seau(t, o) - t.cur \in Int /\ (Seau(t, o) - t.cur \in 0 .. Seaux - 1 \/ Seau(t, o) - t.cur \in -Seaux .. -1)
  BY <1>1, SeauxNat
<1>3. Ecart(t, Seau(t, o)) = IF Seau(t, o) >= t.cur THEN Seau(t, o) - t.cur ELSE Seau(t, o) - t.cur + Seaux
  <2> DEFINE x == Seau(t, o) - t.cur
  <2>1. x \in Int /\ (x \in 0 .. Seaux - 1 \/ x \in -Seaux .. -1) /\ (x >= 0 <=> Seau(t, o) >= t.cur)
    BY <1>1, <1>2
  <2> HIDE DEF x
  <2>2. /\ x \in 0 .. Seaux - 1 => x % Seaux = x
        /\ x \in -Seaux .. -1 => x % Seaux = x + Seaux
    BY <2>1, ModSeaux, Zenon
  <2>3. x % Seaux = IF x >= 0 THEN x ELSE x + Seaux
    BY <2>1, <2>2, SeauxNat
  <2> QED BY <2>1, <2>3 DEF x, Ecart
<1> QED BY <1>1, <1>3, SeauType, SeauxNat

\* Bucket by bucket.
LEMMA AnneauSeau ==
  ASSUME NEW t \in TdmaT, NEW g, NEW f \in Nat, NEW d, NEW s, Anneau(t, g, f, d, s), NEW k \in 0 .. Seaux - 1
  PROVE  t.seau[k] = Contenu(d, s, f + Ecart(t, k))
BY SeauEcart DEF Anneau

LEMMA AnneauVideSeau ==
  ASSUME NEW t \in TdmaT, NEW g, NEW f \in Nat, NEW d, NEW s, Anneau(t, g, f, d, s), Passe(f, d, s), NEW k \in 0 .. Seaux - 1
  PROVE  t.seau[k] = <<>>
<1>1. Ecart(t, k) \in 0 .. Seaux - 1 /\ Ecart(t, k) \in Nat
  BY SeauEcart, SeauxNat
<1>2. d \in Nat /\ Len(s) \in Nat
  BY JeuxFaits DEF Anneau
<1>3. ~(f + Ecart(t, k) - d + 1 \in 1 .. Len(s))
  BY <1>1, <1>2 DEF Passe
<1>4. t.seau[k] = Contenu(d, s, f + Ecart(t, k))
  BY AnneauSeau, Zenon
<1>5. Contenu(d, s, f + Ecart(t, k)) = <<>>
  <2>1. f + Ecart(t, k) \in Int /\ d \in Int
    BY <1>1, <1>2
  <2> QED BY <1>1, <1>2, <1>3, <2>1, ContenuHors
<1> QED BY <1>4, <1>5

LEMMA DatesFaits ==
  ASSUME NEW d \in Nat, NEW s \in Jeux
  PROVE  /\ \A x \in Dates(d, s) : x.date \in d .. d + Len(s) - 1 /\ x = [date |-> x.date, item |-> x.item]
         /\ \A x \in Dates(d, s) : x.item \in Items
         /\ \A y \in Int : {x.item : x \in {z \in Dates(d, s) : z.date = y}} = {Contenu(d, s, y)[i] : i \in DOMAIN Contenu(d, s, y)}
<1>1. Len(s) \in Nat /\ DOMAIN s = 1 .. Len(s) /\ \A j \in 1 .. Len(s) : Bref(s[j])
  BY JeuxFaits
<1>2. ASSUME NEW x \in Dates(d, s)
      PROVE  \E j \in 1 .. Len(s) : \E i \in DOMAIN s[j] : x = [date |-> d + j - 1, item |-> s[j][i]]
  BY <1>1 DEF Dates
<1>3. \A j \in 1 .. Len(s) : \A i \in DOMAIN s[j] : [date |-> d + j - 1, item |-> s[j][i]] \in Dates(d, s)
  BY <1>1 DEF Dates
<1>4. \A j \in 1 .. Len(s) : \A i \in DOMAIN s[j] : s[j][i] \in Items
  <2>1. ASSUME NEW j \in 1 .. Len(s), NEW i \in DOMAIN s[j] PROVE s[j][i] \in Items
    <3>1. s[j] \in Seq(Items)
      BY <1>1 DEF Bref
    <3> QED BY <3>1, LenProperties
  <2> QED BY <2>1
<1>5. ASSUME NEW x \in Dates(d, s)
      PROVE  x.date \in d .. d + Len(s) - 1 /\ x = [date |-> x.date, item |-> x.item] /\ x.item \in Items
  <2>1. PICK j \in 1 .. Len(s) : \E i \in DOMAIN s[j] : x = [date |-> d + j - 1, item |-> s[j][i]]
    BY <1>2
  <2>2. PICK i \in DOMAIN s[j] : x = [date |-> d + j - 1, item |-> s[j][i]]
    BY <2>1
  <2>3. x.date = d + j - 1 /\ x.item = s[j][i]
    BY <2>2
  <2> QED BY <1>1, <1>4, <2>2, <2>3
<1>6. ASSUME NEW y \in Int
      PROVE  {x.item : x \in {z \in Dates(d, s) : z.date = y}} = {Contenu(d, s, y)[i] : i \in DOMAIN Contenu(d, s, y)}
  <2>1. ASSUME NEW x \in Dates(d, s), x.date = y
        PROVE  x.item \in {Contenu(d, s, y)[i] : i \in DOMAIN Contenu(d, s, y)}
    <3>1. PICK j \in 1 .. Len(s) : \E i \in DOMAIN s[j] : x = [date |-> d + j - 1, item |-> s[j][i]]
      BY <1>2
    <3>2. PICK i \in DOMAIN s[j] : x = [date |-> d + j - 1, item |-> s[j][i]]
      BY <3>1
    <3>3. x.date = d + j - 1 /\ x.item = s[j][i]
      BY <3>2
    <3>4. y - d + 1 = j
      BY <1>1, <3>3, <2>1
    <3>5. Contenu(d, s, y) = s[j]
      BY <3>4 DEF Contenu
    <3> QED BY <3>3, <3>5
  <2>2. ASSUME NEW i \in DOMAIN Contenu(d, s, y)
        PROVE  \E x \in Dates(d, s) : x.date = y /\ x.item = Contenu(d, s, y)[i]
    <3>1. CASE y - d + 1 \in 1 .. Len(s)
      <4> DEFINE j == y - d + 1
      <4>1. Contenu(d, s, y) = s[j] /\ j \in 1 .. Len(s) /\ d + j - 1 = y
        BY <3>1 DEF Contenu
      <4>2. [date |-> d + j - 1, item |-> s[j][i]] \in Dates(d, s)
        BY <4>1, <1>3, <2>2
      <4> HIDE DEF j
      <4> QED BY <4>1, <4>2
    <3>2. CASE ~(y - d + 1 \in 1 .. Len(s))
      BY <3>2, <2>2 DEF Contenu
    <3> QED BY <3>1, <3>2
  <2> QED BY <2>1, <2>2
<1> QED BY <1>5, <1>6

\* What AgendaTenu says of a ring and a calendar.
\* The ring t is the calendar g of frame f.
Tient(t, g, f) ==
  /\ \A x \in g : x.date \in f .. f + Seaux - 1
  /\ \A o \in 0 .. Seaux - 1 :
       LET seau == t.seau[Seau(t, o)]
           prevus == {x.item : x \in {y \in g : y.date = f + o}}
       IN  {seau[i] : i \in DOMAIN seau} = prevus /\ Len(seau) = Cardinality(prevus)
LEMMA AnneauTient ==
  ASSUME NEW t \in TdmaT, NEW g, NEW f \in Nat, NEW d, NEW s, Anneau(t, g, f, d, s)
  PROVE  Tient(t, g, f)
<1> SUFFICES /\ \A x \in g : x.date \in f .. f + Seaux - 1
             /\ \A o \in 0 .. Seaux - 1 :
                  LET seau == t.seau[Seau(t, o)]
                      prevus == {x.item : x \in {y \in g : y.date = f + o}}
                  IN  {seau[i] : i \in DOMAIN seau} = prevus /\ Len(seau) = Cardinality(prevus)
  BY Zenon DEF Tient
<1>1. d \in Nat /\ s \in Jeux /\ d + Len(s) <= f + Seaux /\ g = {x \in Dates(d, s) : x.date >= f} /\ Len(s) \in Nat
  BY JeuxFaits DEF Anneau
<1>2. ASSUME NEW x \in g PROVE x.date \in f .. f + Seaux - 1
  <2>1. x \in Dates(d, s) /\ x.date >= f
    BY <1>1
  <2>2. x.date \in d .. d + Len(s) - 1
    BY <1>1, <2>1, DatesFaits
  <2> QED BY <1>1, <2>1, <2>2, SeauxNat
<1>3. ASSUME NEW o \in 0 .. Seaux - 1
      PROVE  LET seau == t.seau[Seau(t, o)]
                 prevus == {x.item : x \in {y \in g : y.date = f + o}}
             IN  {seau[i] : i \in DOMAIN seau} = prevus /\ Len(seau) = Cardinality(prevus)
  <2> DEFINE seau == t.seau[Seau(t, o)]
             prevus == {x.item : x \in {y \in g : y.date = f + o}}
  <2>1. seau = Contenu(d, s, f + o) /\ f + o \in Int /\ f + o >= f
    BY SeauxNat DEF Anneau
  <2>2. {y \in g : y.date = f + o} = {y \in Dates(d, s) : y.date = f + o}
    BY <1>1, <2>1
  <2>3. {seau[i] : i \in DOMAIN seau} = prevus
    <3>1. prevus = {x.item : x \in {y \in Dates(d, s) : y.date = f + o}}
      BY <2>2
    <3>2. {x.item : x \in {y \in Dates(d, s) : y.date = f + o}} = {Contenu(d, s, f + o)[i] : i \in DOMAIN Contenu(d, s, f + o)}
      BY <1>1, <2>1, DatesFaits, Zenon
    <3> HIDE DEF prevus
    <3> QED BY <2>1, <3>1, <3>2
  <2>4. Bref(seau)
    BY <1>1, <2>1, ContenuBref
  <2> HIDE DEF seau, prevus
  <2>5. seau \in Seq(Items) /\ Len(seau) \in 0 .. 2 /\ DOMAIN seau = 1 .. Len(seau)
    <3>1. seau \in Seq(Items) /\ Len(seau) <= 2
      BY <2>4 DEF Bref
    <3>2. Len(seau) \in Nat /\ DOMAIN seau = 1 .. Len(seau)
      BY <3>1, LenProperties
    <3> QED BY <3>1, <3>2
  <2>6. Len(seau) = Cardinality(prevus)
    <3>1. CASE Len(seau) = 0
      <4>1. prevus = {}
        BY <3>1, <2>3, <2>5
      <4> QED BY <4>1, <3>1, FS_EmptySet
    <3>2. CASE Len(seau) = 1
      <4>1. DOMAIN seau = {1}
        BY <3>2, <2>5
      <4>2. prevus = {seau[1]}
        BY <4>1, <2>3
      <4> QED BY <4>2, <3>2, FS_Singleton
    <3>3. CASE Len(seau) = 2
      <4>1. DOMAIN seau = {1, 2}
        BY <3>3, <2>5
      <4>2. prevus = {seau[1], seau[2]}
        BY <4>1, <2>3
      <4>3. seau[1] # seau[2]
        <5>1. seau[1] \in Items /\ seau[2] \in Items /\ seau[1].prio < seau[2].prio
          BY <2>4, <2>5, <3>3 DEF Bref
        <5> QED BY <5>1 DEF Items
      <4>4. IsFiniteSet({seau[1]}) /\ Cardinality({seau[1]}) = 1 /\ seau[2] \notin {seau[1]}
        BY <4>3, FS_Singleton
      <4>5. Cardinality({seau[1]} \cup {seau[2]}) = Cardinality({seau[1]}) + 1
        BY <4>4, FS_AddElement
      <4>6. prevus = {seau[1]} \cup {seau[2]}
        BY <4>2
      <4> QED BY <4>4, <4>5, <4>6, <3>3
    <3> QED BY <2>5, <3>1, <3>2, <3>3
  <2> QED BY <2>3, <2>6 DEF seau, prevus
<1> QED BY <1>2, <1>3

LEMMA IntervalleFini ==
  ASSUME NEW n \in Nat
  PROVE  IsFiniteSet(1 .. n) /\ Cardinality(1 .. n) = n
<1>1. 1 \in Int /\ n \in Int
  OBVIOUS
<1>2. IsFiniteSet(1 .. n) /\ Cardinality(1 .. n) = IF 1 > n THEN 0 ELSE n - 1 + 1
  BY <1>1, FS_Interval
<1>3. (IF 1 > n THEN 0 ELSE n - 1 + 1) = n
  OBVIOUS
<1> QED BY <1>2, <1>3

\* The rank in a set of the bucket k, for a set scheduled off frames ahead.
LEMMA RangSeau ==
  ASSUME NEW t \in TdmaT, NEW off \in Nat, NEW n \in Nat, off + n <= Seaux, NEW k \in 0 .. Seaux - 1
  PROVE  LET j == ((k - t.cur - off) % Seaux) + 1
             r == Ecart(t, k) - off + 1
         IN  /\ j \in Nat \ {0} /\ (j > n <=> ~(r \in 1 .. n)) /\ (r \in 1 .. n => j = r)
<1> DEFINE x == k - t.cur - off
           y == k - t.cur
           e == Ecart(t, k)
<1>1. t.cur \in 0 .. Seaux - 1
  BY DEF TdmaT
<1>2. y \in Int /\ y \in -Seaux .. Seaux - 1 /\ x = y - off /\ x \in Int /\ x \in -2 * Seaux .. Seaux - 1
  BY <1>1, SeauxNat
<1>3. e = y % Seaux
  BY DEF Ecart
<1> HIDE DEF x, y, e
<1>4. e = IF y >= 0 THEN y ELSE y + Seaux
  <2>1. /\ y \in 0 .. Seaux - 1 => y % Seaux = y
        /\ y \in -Seaux .. -1 => y % Seaux = y + Seaux
    BY <1>2, ModSeaux, Zenon
  <2> QED BY <1>2, <1>3, <2>1, SeauxNat
<1>5. x % Seaux = IF x >= 0 THEN x ELSE IF x >= -Seaux THEN x + Seaux ELSE x + 2 * Seaux
  <2>1. /\ x \in 0 .. Seaux - 1 => x % Seaux = x
        /\ x \in -Seaux .. -1 => x % Seaux = x + Seaux
        /\ x \in -2 * Seaux .. -Seaux - 1 => x % Seaux = x + 2 * Seaux
    BY <1>2, ModSeaux, Zenon
  <2> QED BY <1>2, <2>1, SeauxNat
<1>6. /\ (x % Seaux) + 1 \in Nat \ {0} /\ ((x % Seaux) + 1 > n <=> ~(e - off + 1 \in 1 .. n))
      /\ (e - off + 1 \in 1 .. n => (x % Seaux) + 1 = e - off + 1)
  BY <1>2, <1>4, <1>5, SeauxNat
<1> QED BY <1>6 DEF x, e

\* A set scheduled in an empty ring.
LEMMA PoseLibre ==
  ASSUME NEW t \in TdmaT, NEW off \in Nat, NEW set \in Jeux, off + Len(set) <= Seaux,
         \A k \in 0 .. Seaux - 1 : t.seau[k] = <<>>
  PROVE  TdmaScheduleSet(t, off, set) =
           [cur |-> t.cur, seau |-> [k \in 0 .. Seaux - 1 |-> Contenu(off, set, Ecart(t, k))], mf |-> t.mf]
<1> DEFINE places == {p \in (1 .. Len(set)) \X (1 .. Places) : p[2] <= Len(set[p[1]])}
           b(j) == Seau(t, off + j - 1)
           refus == {p \in places : Len(t.seau[b(p[1])]) + p[2] > Places}
           avant(j) == {i \in DOMAIN set[j] : \A p \in refus : j < p[1] \/ (j = p[1] /\ i < p[2])}
           F == [k \in 0 .. Seaux - 1 |->
                   LET j == ((k - t.cur - off) % Seaux) + 1
                   IN  IF j > Len(set) THEN t.seau[k] ELSE t.seau[k] \o SubSeq(set[j], 1, Cardinality(avant(j)))]
<1>0. t.cur \in 0 .. Seaux - 1 /\ t = [cur |-> t.cur, seau |-> t.seau, mf |-> t.mf]
  BY DEF TdmaT
<1>1. Len(set) \in 0 .. 14 /\ DOMAIN set = 1 .. Len(set) /\ \A j \in 1 .. Len(set) : Bref(set[j])
  BY JeuxFaits
<1>2. \A x \in Int : Seau(t, x) \in 0 .. Seaux - 1
  BY <1>0, SeauxNat DEF Seau
<1>3. refus = {}
  <2> SUFFICES ASSUME NEW p \in refus PROVE FALSE
    OBVIOUS
  <2>1. p[1] \in 1 .. Len(set) /\ p[2] \in 1 .. Places /\ p[2] <= Len(set[p[1]]) /\ Len(t.seau[b(p[1])]) + p[2] > Places
    OBVIOUS
  <2>2. b(p[1]) \in 0 .. Seaux - 1
    <3>1. off + p[1] - 1 \in Int
      BY <1>1, <2>1
    <3> QED BY <1>2, <3>1
  <2>3. Len(t.seau[b(p[1])]) = 0
    BY <2>2
  <2>4. Len(set[p[1]]) <= 2
    BY <1>1, <2>1 DEF Bref
  <2>5. Len(set[p[1]]) \in Nat
    BY <1>1, <2>1, LenProperties DEF Bref
  <2> HIDE DEF refus, b
  <2> QED BY <2>1, <2>3, <2>4, <2>5, SeauxNat
<1>4. ASSUME NEW j \in 1 .. Len(set), NEW k \in 0 .. Seaux - 1
      PROVE  t.seau[k] \o SubSeq(set[j], 1, Cardinality(avant(j))) = set[j]
  <2>1. set[j] \in Seq(Items)
    BY <1>1 DEF Bref
  <2>2. Len(set[j]) \in Nat /\ DOMAIN set[j] = 1 .. Len(set[j])
    BY <2>1, LenProperties
  <2>3. avant(j) = 1 .. Len(set[j])
    BY <1>3, <2>2
  <2>4. Cardinality(avant(j)) = Len(set[j])
    BY <2>2, <2>3, IntervalleFini
  <2>5. SubSeq(set[j], 1, Len(set[j])) = set[j]
    BY <2>1, SubSeqFull
  <2>6. t.seau[k] = <<>>
    BY <1>4
  <2>7. <<>> \o set[j] = set[j]
    BY <2>1, ConcatEmptySeq
  <2> HIDE DEF avant
  <2> QED BY <2>4, <2>5, <2>6, <2>7
<1>5. TdmaScheduleSet(t, off, set) = [t EXCEPT !.seau = F]
  BY DEF TdmaScheduleSet
<1>6. ASSUME NEW k \in 0 .. Seaux - 1 PROVE F[k] = Contenu(off, set, Ecart(t, k))
  <2> DEFINE j == ((k - t.cur - off) % Seaux) + 1
             r == Ecart(t, k) - off + 1
  <2>1. F[k] = IF j > Len(set) THEN t.seau[k] ELSE t.seau[k] \o SubSeq(set[j], 1, Cardinality(avant(j)))
    OBVIOUS
  <2>2. j \in Nat \ {0} /\ (j > Len(set) <=> ~(r \in 1 .. Len(set))) /\ (r \in 1 .. Len(set) => j = r)
    <3>1. Len(set) \in Nat
      BY <1>1
    <3> QED BY <3>1, RangSeau, Zenon
  <2>3. Contenu(off, set, Ecart(t, k)) = IF r \in 1 .. Len(set) THEN set[r] ELSE <<>>
    BY DEF Contenu
  <2> HIDE DEF j, r, F, avant
  <2>4. CASE j > Len(set)
    BY <2>1, <2>2, <2>3, <2>4
  <2>5. CASE ~(j > Len(set))
    <3>1. j \in 1 .. Len(set) /\ j = r
      BY <1>1, <2>2, <2>5
    <3>2. t.seau[k] \o SubSeq(set[j], 1, Cardinality(avant(j))) = set[j]
      BY <3>1, <1>4
    <3> QED BY <2>1, <2>2, <2>3, <2>5, <3>1, <3>2
  <2> QED BY <2>4, <2>5
<1>7. F = [k \in 0 .. Seaux - 1 |-> Contenu(off, set, Ecart(t, k))]
  <2>1. F = [k \in 0 .. Seaux - 1 |-> F[k]]
    OBVIOUS
  <2> HIDE DEF F
  <2> QED BY <1>6, <2>1
<1> HIDE DEF F
<1> QED BY <1>0, <1>5, <1>7

LEMMA AnneauPose ==
  ASSUME NEW t \in TdmaT, NEW g, NEW f \in Nat, NEW d, NEW s, Anneau(t, g, f, d, s), Passe(f, d, s),
         NEW off \in Nat, NEW set \in Jeux, off + Len(set) <= Seaux
  PROVE  LET u == TdmaScheduleSet(t, off, set)
         IN  /\ u \in TdmaT /\ u.cur = t.cur /\ u.mf = t.mf
             /\ Anneau(u, g \cup Dates(f + off, set), f, f + off, set)
<1> DEFINE S == [k \in 0 .. Seaux - 1 |-> Contenu(off, set, Ecart(t, k))]
           u == [cur |-> t.cur, seau |-> S, mf |-> t.mf]
<1>1. d \in Nat /\ s \in Jeux /\ Len(s) \in Nat /\ d + Len(s) <= f /\ g = {x \in Dates(d, s) : x.date >= f} /\ Len(set) \in Nat
  BY JeuxFaits DEF Anneau, Passe
<1>2. TdmaScheduleSet(t, off, set) = u
  <2>1. \A k \in 0 .. Seaux - 1 : t.seau[k] = <<>>
    BY AnneauVideSeau
  <2> QED BY <2>1, PoseLibre
<1>3. u \in TdmaT
  <2>1. t.cur \in 0 .. Seaux - 1 /\ t.mf \in [set : Jeux, frame : 0 .. 50]
    BY DEF TdmaT
  <2>2. ASSUME NEW k \in 0 .. Seaux - 1 PROVE Contenu(off, set, Ecart(t, k)) \in Seq(Items)
    <3>1. Ecart(t, k) \in Int
      BY SeauEcart
    <3> QED BY <3>1, ContenuBref DEF Bref
  <2>3. S \in [0 .. Seaux - 1 -> Seq(Items)]
    BY <2>2
  <2> HIDE DEF S
  <2> QED BY <2>1, <2>3 DEF TdmaT
<1>4. g = {}
  <2> SUFFICES ASSUME NEW x \in g PROVE FALSE
    OBVIOUS
  <2>1. x \in Dates(d, s) /\ x.date >= f
    BY <1>1
  <2>2. x.date \in d .. d + Len(s) - 1
    BY <1>1, <2>1, DatesFaits
  <2> QED BY <1>1, <2>1, <2>2
<1>5. g \cup Dates(f + off, set) = {x \in Dates(f + off, set) : x.date >= f}
  <2>1. f + off \in Nat
    OBVIOUS
  <2>2. ASSUME NEW x \in Dates(f + off, set) PROVE x.date >= f
    <3>1. x.date \in f + off .. f + off + Len(set) - 1
      BY <2>1, <2>2, DatesFaits
    <3> QED BY <1>1, <3>1
  <2> QED BY <1>4, <2>2
<1>6. ASSUME NEW o \in 0 .. Seaux - 1 PROVE u.seau[Seau(u, o)] = Contenu(f + off, set, f + o)
  <2>1. Seau(u, o) = Seau(t, o) /\ Seau(t, o) \in 0 .. Seaux - 1
    BY SeauType DEF Seau
  <2>2. u.seau[Seau(t, o)] = Contenu(off, set, Ecart(t, Seau(t, o)))
    BY <2>1
  <2>3. Contenu(off, set, o) = Contenu(f + off, set, f + o)
    <3>1. o \in Int /\ o - off + 1 = f + o - (f + off) + 1
      OBVIOUS
    <3> QED BY <3>1 DEF Contenu
  <2>4. Ecart(t, Seau(t, o)) = o
    BY EcartSeau
  <2> HIDE DEF u, S
  <2> QED BY <2>1, <2>2, <2>3, <2>4
<1>7. f + off \in Nat /\ f + off + Len(set) <= f + Seaux
  BY <1>1, SeauxNat
<1>8. Anneau(u, g \cup Dates(f + off, set), f, f + off, set)
  BY <1>5, <1>6, <1>7 DEF Anneau
<1> HIDE DEF S
<1> QED BY <1>2, <1>3, <1>8

LEMMA TdmaSeau ==
  ASSUME NEW t \in TdmaT, NEW F
  PROVE  [t EXCEPT !.seau = F] = [cur |-> t.cur, seau |-> F, mf |-> t.mf]
<1>1. t = [cur |-> t.cur, seau |-> t.seau, mf |-> t.mf]
  BY DEF TdmaT
<1> QED BY <1>1

LEMMA ViderFaits ==
  ASSUME NEW t \in TdmaT
  PROVE  /\ Vider(t) \in TdmaT
         /\ Vider(t).cur = t.cur /\ Vider(t).mf = t.mf
         /\ Vider(t).seau = [b \in 0 .. Seaux - 1 |-> IF b = t.cur THEN <<>> ELSE t.seau[b]]
<1> DEFINE F == [b \in 0 .. Seaux - 1 |-> IF b = t.cur THEN <<>> ELSE t.seau[b]]
<1>1. t.cur \in 0 .. Seaux - 1 /\ t.seau \in [0 .. Seaux - 1 -> Seq(Items)] /\ t.mf \in [set : Jeux, frame : 0 .. 50]
  BY DEF TdmaT
<1>2. <<>> \in Seq(Items)
  OBVIOUS
<1>3. F \in [0 .. Seaux - 1 -> Seq(Items)]
  BY <1>1, <1>2
<1>4. Vider(t) = [t EXCEPT !.seau = F]
  BY DEF Vider
<1> HIDE DEF F
<1>5. Vider(t) = [cur |-> t.cur, seau |-> F, mf |-> t.mf]
  BY <1>4, TdmaSeau
<1>6. Vider(t) \in TdmaT /\ Vider(t).cur = t.cur /\ Vider(t).mf = t.mf /\ Vider(t).seau = F
  BY <1>1, <1>3, <1>5 DEF TdmaT
<1> QED BY <1>6 DEF F

LEMMA ResetFaits ==
  ASSUME NEW t \in TdmaT
  PROVE  /\ TdmaSchedReset(t) \in TdmaT
         /\ TdmaSchedReset(t).cur = t.cur /\ TdmaSchedReset(t).mf = t.mf
         /\ TdmaSchedReset(t).seau = [b \in 0 .. Seaux - 1 |-> IF b = t.cur THEN t.seau[b] ELSE <<>>]
<1> DEFINE F == [b \in 0 .. Seaux - 1 |-> IF b = t.cur THEN t.seau[b] ELSE <<>>]
<1>1. t.cur \in 0 .. Seaux - 1 /\ t.seau \in [0 .. Seaux - 1 -> Seq(Items)] /\ t.mf \in [set : Jeux, frame : 0 .. 50]
  BY DEF TdmaT
<1>2. <<>> \in Seq(Items)
  OBVIOUS
<1>3. F \in [0 .. Seaux - 1 -> Seq(Items)]
  BY <1>1, <1>2
<1>4. TdmaSchedReset(t) = [t EXCEPT !.seau = F]
  BY DEF TdmaSchedReset
<1> HIDE DEF F
<1>5. TdmaSchedReset(t) = [cur |-> t.cur, seau |-> F, mf |-> t.mf]
  BY <1>4, TdmaSeau
<1>6. TdmaSchedReset(t) \in TdmaT /\ TdmaSchedReset(t).cur = t.cur /\ TdmaSchedReset(t).mf = t.mf /\ TdmaSchedReset(t).seau = F
  BY <1>1, <1>3, <1>5 DEF TdmaT
<1> QED BY <1>6 DEF F

LEMMA AvancerFaits ==
  ASSUME NEW t \in TdmaT
  PROVE  /\ Avancer(t) \in TdmaT
         /\ Avancer(t).cur = Seau(t, 1) /\ Avancer(t).mf = t.mf /\ Avancer(t).seau = t.seau
         /\ \A o \in 0 .. Seaux - 1 : Seau(Avancer(t), o) = IF o = Seaux - 1 THEN t.cur ELSE Seau(t, o + 1)
<1>1. /\ t = [cur |-> t.cur, seau |-> t.seau, mf |-> t.mf] /\ t.cur \in 0 .. Seaux - 1
      /\ t.seau \in [0 .. Seaux - 1 -> Seq(Items)] /\ t.mf \in [set : Jeux, frame : 0 .. 50]
  BY DEF TdmaT
<1>2. 1 \in 0 .. Seaux - 1 /\ Seau(t, 1) \in 0 .. Seaux - 1 /\ Seau(t, 1) = IF t.cur + 1 < Seaux THEN t.cur + 1 ELSE t.cur + 1 - Seaux
  BY SeauType, SeauxNat
<1>3. Avancer(t) = [cur |-> Seau(t, 1), seau |-> t.seau, mf |-> t.mf]
  BY <1>1 DEF Avancer
<1>4. Avancer(t) \in TdmaT
  BY <1>1, <1>2, <1>3 DEF TdmaT
<1>5. Avancer(t).cur = Seau(t, 1) /\ Avancer(t).mf = t.mf /\ Avancer(t).seau = t.seau
  BY <1>3
<1>9. ASSUME NEW o \in 0 .. Seaux - 1 PROVE Seau(Avancer(t), o) = IF o = Seaux - 1 THEN t.cur ELSE Seau(t, o + 1)
  <2>1. Seau(Avancer(t), o) = IF Avancer(t).cur + o < Seaux THEN Avancer(t).cur + o ELSE Avancer(t).cur + o - Seaux
    BY <1>4, SeauType
  <2>a. Seau(Avancer(t), o) = IF Seau(t, 1) + o < Seaux THEN Seau(t, 1) + o ELSE Seau(t, 1) + o - Seaux
    BY <1>5, <2>1
  <2>2. CASE o # Seaux - 1
    <3>1. o + 1 \in 0 .. Seaux - 1
      BY <2>2, SeauxNat
    <3>2. Seau(t, o + 1) = IF t.cur + (o + 1) < Seaux THEN t.cur + (o + 1) ELSE t.cur + (o + 1) - Seaux
      BY <3>1, SeauType
    <3>3. CASE t.cur + 1 < Seaux
      <4>1. Seau(t, 1) = t.cur + 1 /\ t.cur \in Int
        BY <1>1, <1>2, <3>3
      <4>2. Seau(Avancer(t), o) = IF t.cur + 1 + o < Seaux THEN t.cur + 1 + o ELSE t.cur + 1 + o - Seaux
        BY <2>a, <4>1
      <4> QED BY <2>2, <3>2, <4>1, <4>2, SeauxNat
    <3>4. CASE ~(t.cur + 1 < Seaux)
      <4>1. Seau(t, 1) = 0 /\ t.cur = Seaux - 1
        BY <1>1, <1>2, <3>4, SeauxNat
      <4>2. Seau(Avancer(t), o) = o
        BY <2>a, <4>1, SeauxNat
      <4>3. Seau(t, o + 1) = o
        BY <3>2, <4>1, SeauxNat
      <4> QED BY <2>2, <4>2, <4>3
    <3> QED BY <3>3, <3>4
  <2>3. CASE o = Seaux - 1
    <3>1. CASE t.cur + 1 < Seaux
      <4>1. Seau(t, 1) = t.cur + 1 /\ t.cur \in Nat
        BY <1>1, <1>2, <3>1
      <4> QED BY <4>1, <2>a, <2>3, SeauxNat
    <3>2. CASE ~(t.cur + 1 < Seaux)
      <4>1. Seau(t, 1) = 0 /\ t.cur = Seaux - 1
        BY <1>1, <1>2, <3>2, SeauxNat
      <4> QED BY <4>1, <2>a, <2>3, SeauxNat
    <3> QED BY <3>1, <3>2
  <2> QED BY <2>2, <2>3
<1> QED BY <1>4, <1>5, <1>9

LEMMA AnneauAvance ==
  ASSUME NEW t \in TdmaT, NEW g, NEW f \in Nat, NEW d, NEW s, Anneau(t, g, f, d, s)
  PROVE  Anneau(Avancer(Vider(t)), {x \in g : x.date > f}, f + 1, d, s)
<1> DEFINE v == Vider(t)
           u == Avancer(v)
<1>1. d \in Nat /\ s \in Jeux /\ Len(s) \in Nat /\ d + Len(s) <= f + Seaux /\ g = {x \in Dates(d, s) : x.date >= f}
  BY JeuxFaits DEF Anneau
<1>2. v \in TdmaT /\ v.cur = t.cur /\ v.seau = [b \in 0 .. Seaux - 1 |-> IF b = t.cur THEN <<>> ELSE t.seau[b]]
  BY ViderFaits
<1>3. u \in TdmaT /\ u.seau = v.seau /\ \A o \in 0 .. Seaux - 1 : Seau(u, o) = IF o = Seaux - 1 THEN v.cur ELSE Seau(v, o + 1)
  BY <1>2, AvancerFaits
<1> HIDE DEF u, v
<1>4. t.cur \in 0 .. Seaux - 1
  BY DEF TdmaT
<1>5. ASSUME NEW o \in 0 .. Seaux - 1 PROVE u.seau[Seau(u, o)] = Contenu(d, s, f + 1 + o)
  <2>1. CASE o = Seaux - 1
    <3>1. u.seau[Seau(u, o)] = <<>>
      BY <1>2, <1>3, <1>4, <2>1
    <3>2. f + 1 + o \in Int /\ d \in Int /\ ~(f + 1 + o - d + 1 \in 1 .. Len(s))
      BY <1>1, <2>1, SeauxNat
    <3>3. Contenu(d, s, f + 1 + o) = <<>>
      BY <1>1, <3>2, ContenuHors
    <3> QED BY <3>1, <3>3
  <2>2. CASE o # Seaux - 1
    <3>1. o + 1 \in 0 .. Seaux - 1 /\ o + 1 # 0 /\ f + (o + 1) = f + 1 + o
      BY <2>2, SeauxNat
    <3>2. Seau(u, o) = Seau(t, o + 1)
      BY <1>2, <1>3, <2>2 DEF Seau
    <3>3. Seau(t, o + 1) \in 0 .. Seaux - 1 /\ Seau(t, o + 1) # t.cur
      BY <1>4, <3>1, SeauType, SeauxNat
    <3>4. u.seau[Seau(u, o)] = t.seau[Seau(t, o + 1)]
      BY <1>2, <1>3, <3>2, <3>3
    <3>5. t.seau[Seau(t, o + 1)] = Contenu(d, s, f + (o + 1))
      BY <3>1 DEF Anneau
    <3> QED BY <3>1, <3>4, <3>5
  <2> QED BY <2>1, <2>2
<1>6. {x \in g : x.date > f} = {x \in Dates(d, s) : x.date >= f + 1}
  <2>1. \A x \in Dates(d, s) : x.date \in Int
    BY <1>1, DatesFaits
  <2> QED BY <1>1, <2>1
<1>7. d + Len(s) <= f + 1 + Seaux
  BY <1>1, SeauxNat
<1>8. Anneau(u, {x \in g : x.date > f}, f + 1, d, s)
  BY <1>1, <1>5, <1>6, <1>7 DEF Anneau
<1> QED BY <1>8 DEF u, v

LEMMA ViderVide ==
  ASSUME NEW t \in TdmaT, t.seau[t.cur] = <<>>
  PROVE  Vider(t) = t
<1>1. t = [cur |-> t.cur, seau |-> t.seau, mf |-> t.mf] /\ t.seau = [b \in 0 .. Seaux - 1 |-> t.seau[b]]
  BY DEF TdmaT
<1>2. [b \in 0 .. Seaux - 1 |-> IF b = t.cur THEN <<>> ELSE t.seau[b]] = [b \in 0 .. Seaux - 1 |-> t.seau[b]]
  OBVIOUS
<1>3. Vider(t) \in TdmaT /\ Vider(t) = [cur |-> Vider(t).cur, seau |-> Vider(t).seau, mf |-> Vider(t).mf]
  BY ViderFaits DEF TdmaT
<1> QED BY <1>1, <1>2, <1>3, ViderFaits

LEMMA AnneauVide ==
  ASSUME NEW t \in TdmaT, NEW f \in Nat, \A k \in 0 .. Seaux - 1 : t.seau[k] = <<>>
  PROVE  Anneau(t, {}, f, 0, <<>>)
<1>1. <<>> \in Jeux /\ Len(<<>>) = 0 /\ 0 \in Nat
  BY DEF Jeux
<1>2. \A o \in 0 .. Seaux - 1 : t.seau[Seau(t, o)] = <<>>
  BY SeauType
<1>3. \A o \in 0 .. Seaux - 1 : Contenu(0, <<>>, f + o) = <<>>
  BY DEF Contenu
<1>4. {} = {x \in Dates(0, <<>>) : x.date >= f}
  BY DEF Dates
<1>5. 0 + 0 <= f + Seaux
  BY SeauxNat
<1> QED BY <1>1, <1>2, <1>3, <1>4, <1>5 DEF Anneau

\* tdma_sched_reset, then the end of the frame.
LEMMA AnneauAnnule ==
  ASSUME NEW t \in TdmaT, NEW f \in Nat
  PROVE  Anneau(Avancer(Vider(TdmaSchedReset(t))), {}, f, 0, <<>>)
<1> DEFINE r == TdmaSchedReset(t)
<1>1. r \in TdmaT /\ r.cur = t.cur /\ r.seau = [b \in 0 .. Seaux - 1 |-> IF b = t.cur THEN t.seau[b] ELSE <<>>]
  BY ResetFaits
<1> HIDE DEF r
<1>2. Vider(r) \in TdmaT /\ Vider(r).seau = [b \in 0 .. Seaux - 1 |-> IF b = r.cur THEN <<>> ELSE r.seau[b]]
  BY <1>1, ViderFaits
<1>3. Avancer(Vider(r)) \in TdmaT /\ Avancer(Vider(r)).seau = Vider(r).seau
  BY <1>2, AvancerFaits
<1>4. \A k \in 0 .. Seaux - 1 : Avancer(Vider(r)).seau[k] = <<>>
  BY <1>1, <1>2, <1>3
<1>5. Anneau(Avancer(Vider(r)), {}, f, 0, <<>>)
  BY <1>3, <1>4, AnneauVide
<1> QED BY <1>5 DEF r

LEMMA ExecuterVide == ASSUME NEW e PROVE Executer(e, <<>>) = e
<1> DEFINE f == [i \in 0 .. 0 |-> e]
           G(g) == [i \in 0 .. Len(<<>>) |-> IF i = 0 THEN e ELSE Appeler(g[i - 1], <<>>[i])]
<1>1. f = G(f)
  OBVIOUS
<1> DEFINE c == CHOOSE g : g = G(g)
<1>2. c = G(c)
  BY <1>1
<1>3. Executer(e, <<>>) = c[Len(<<>>)]
  BY DEF Executer
<1> HIDE DEF c
<1> QED BY <1>2, <1>3

LEMMA ExecuterUn == ASSUME NEW e, NEW a PROVE Executer(e, <<a>>) = Appeler(e, a)
<1> DEFINE s == <<a>>
           f == [i \in 0 .. 1 |-> IF i = 0 THEN e ELSE Appeler(e, a)]
           G(g) == [i \in 0 .. Len(s) |-> IF i = 0 THEN e ELSE Appeler(g[i - 1], s[i])]
<1>0. Len(s) = 1 /\ s[1] = a
  OBVIOUS
<1> HIDE DEF s
<1>1. f = G(f)
  <2>1. \A i \in 0 .. 1 : (IF i = 0 THEN e ELSE Appeler(f[i - 1], s[i])) = f[i]
    BY <1>0
  <2> QED BY <1>0, <2>1
<1> DEFINE c == CHOOSE g : g = G(g)
<1>2. c = G(c)
  BY <1>1
<1>3. Executer(e, s) = c[Len(s)]
  BY DEF Executer
<1> HIDE DEF c
<1>4. c[0] = e
  BY <1>0, <1>2
<1>5. c[1] = Appeler(c[0], a)
  BY <1>0, <1>2
<1> QED BY <1>0, <1>3, <1>4, <1>5 DEF s

LEMMA ExecuterDeux == ASSUME NEW e, NEW a, NEW b PROVE Executer(e, <<a, b>>) = Appeler(Appeler(e, a), b)
<1> DEFINE s == <<a, b>>
           f == [i \in 0 .. 2 |-> IF i = 0 THEN e ELSE IF i = 1 THEN Appeler(e, a) ELSE Appeler(Appeler(e, a), b)]
           G(g) == [i \in 0 .. Len(s) |-> IF i = 0 THEN e ELSE Appeler(g[i - 1], s[i])]
<1>0. Len(s) = 2 /\ s[1] = a /\ s[2] = b
  OBVIOUS
<1> HIDE DEF s
<1>1. f = G(f)
  <2>1. \A i \in 0 .. 2 : (IF i = 0 THEN e ELSE Appeler(f[i - 1], s[i])) = f[i]
    <3>1. f[0] = e /\ f[1] = Appeler(e, a) /\ f[2] = Appeler(Appeler(e, a), b)
      OBVIOUS
    <3> HIDE DEF f
    <3> QED BY <1>0, <3>1
  <2> QED BY <1>0, <2>1
<1> DEFINE c == CHOOSE g : g = G(g)
<1>2. c = G(c)
  BY <1>1
<1>3. Executer(e, s) = c[Len(s)]
  BY DEF Executer
<1> HIDE DEF c
<1>4. c[0] = e
  BY <1>0, <1>2
<1>5. c[1] = Appeler(c[0], a)
  BY <1>0, <1>2
<1>6. c[2] = Appeler(c[1], b)
  BY <1>0, <1>2
<1> QED BY <1>0, <1>3, <1>4, <1>5, <1>6 DEF s

-----------------------------------------------------------------------------
(* Types.                                                                  *)

Pas == {"debut", "attend", "joue", "vide", "fini"}
Verdicts == {"aucun", "PASS", "FAIL", "arret"}
PagesW == [tache : Taches, id : 0 .. 3, date : Trames]
PagesR == [tache : Taches, id : 0 .. 3, date : Trames, sb : Trames]
ApiT == [w : 0 .. 1, r : 0 .. 1, used : BOOLEAN, page : 0 .. 1, irq : BOOLEAN, W : [0 .. 1 -> PagesW], R : [0 .. 1 -> PagesR]]
RomT == [det : BOOLEAN, toa : Int, debut : Trames, rx : [0 .. 3 -> Trames], acd : [0 .. 3 -> Trames]]
SchT == [fn : Nat, valide : BOOLEAN, livre : BOOLEAN]
Emissions == [id : 0 .. 3, fn : Nat]
TestT == [nom : Tests, pas : Pas, essai : Nat, reste : Nat, det : -1 .. 1, debut : Int, toa : Int, vise : Int,
          deduit : Int, sb : [1 .. 2 -> Trames], blocs : Nat, justes : Nat, faux : Nat, fnCmd : SUBSET Emissions,
          verdict : Verdicts]
HistT == [agenda : SUBSET [date : Nat, item : Items], fenetres : SUBSET [sch : Nat, le : Nat], fcch : Trames,
          emis : SUBSET Emissions, accepte : [resp : Nat, cmd : Trames], perdus : Nat, its : Nat, rates : Nat]

TypesBanc ==
  fn \in Nat /\ api \in ApiT /\ tdma \in TdmaT /\ rom \in RomT /\ sch \in SchT /\ test \in TestT /\ hist \in HistT

-----------------------------------------------------------------------------
(* A frame of l1_sync.                                                     *)

Etat(A, T, R, S, H) == [api |-> A, tdma |-> T, rom |-> R, test |-> S, hist |-> H]

\* The API in l1_sync: an R page has been used or not, and P is in the W page.
ApiPose(u, P) ==
  [w |-> api.w, r |-> api.r, used |-> u, page |-> api.page, irq |-> FALSE, W |-> [api.W EXCEPT ![api.w] = P], R |-> api.R]

\* fbdet_resp has reset it.
ApiRemise(u, P) ==
  [w |-> 0, r |-> 0, used |-> FALSE, page |-> 0, irq |-> FALSE, W |-> [api.W EXCEPT ![api.w] = P], R |-> api.R]

\* The API at the end of l1_sync.
ApiFin(A, dr) ==
  [w |-> IF dr THEN 1 - A.w ELSE A.w, r |-> IF A.used THEN 1 - A.r ELSE A.r, used |-> A.used,
   page |-> IF dr THEN A.w ELSE A.page, irq |-> A.irq \/ dr, W |-> A.W,
   R |-> IF A.used THEN [A.R EXCEPT ![A.r] = VideR] ELSE A.R]

\* The multiframe scheduler has a set for this frame.
MfDu(t) == t.mf.set # <<>> /\ (fn + 2) % 51 = t.mf.frame
TdmaFin(t) == Avancer(IF MfDu(t) THEN TdmaScheduleSet(Vider(t), 1, t.mf.set) ELSE Vider(t))
AgendaFin(t, g) == {x \in IF MfDu(t) THEN g \cup Dates(fn + 1, t.mf.set) ELSE g : x.date > fn}

LEMMA EtatChamps ==
  ASSUME NEW A, NEW T, NEW R, NEW S, NEW H
  PROVE  /\ Etat(A, T, R, S, H).api = A /\ Etat(A, T, R, S, H).tdma = T /\ Etat(A, T, R, S, H).rom = R
         /\ Etat(A, T, R, S, H).test = S /\ Etat(A, T, R, S, H).hist = H
BY DEF Etat

\* The steps of l1_sync before and after the items.
EDebut(e) == [e EXCEPT !.api.used = FALSE, !.api.W[e.api.w] = VideW]
Fin2(e) == IF e.api.used THEN [e EXCEPT !.api.R[e.api.r] = VideR, !.api.r = 1 - e.api.r] ELSE e
Fin3(e, dr) == [e EXCEPT !.api = IF dr THEN DspEndScenario(@) ELSE @, !.tdma = Vider(@)]
Fin5(e) == [e EXCEPT !.tdma = Avancer(@), !.hist.agenda = {x \in @ : x.date > fn}]

HFin(H, T) == [H EXCEPT !.agenda = AgendaFin(T, @)]
Drapeaux(e) == (\E i \in DOMAIN e.tdma.seau[e.tdma.cur] : e.tdma.seau[e.tdma.cur][i].flags) \/ e.test.nom = "idle"

LEMMA L1SyncFaits ==
  ASSUME NEW A \in ApiT, NEW T \in TdmaT, NEW R, NEW S, NEW H \in HistT, NEW dr \in BOOLEAN,
         NEW e0,
         Executer(EDebut(e0), Ordre(e0.tdma.seau[e0.tdma.cur])) = Etat(A, T, R, S, H),
         dr = Drapeaux(e0)
  PROVE  L1Sync(e0) = Etat(ApiFin(A, dr), TdmaFin(T), R, S, HFin(H, T))
<1> DEFINE X == Executer(EDebut(e0), Ordre(e0.tdma.seau[e0.tdma.cur]))
           d == (\E i \in DOMAIN e0.tdma.seau[e0.tdma.cur] : e0.tdma.seau[e0.tdma.cur][i].flags) \/ e0.test.nom = "idle"
           A2 == IF A.used THEN [A EXCEPT !.R[A.r] = VideR, !.r = 1 - A.r] ELSE A
           A3 == IF dr THEN DspEndScenario(A2) ELSE A2
           T4 == IF MfDu(T) THEN TdmaScheduleSet(Vider(T), 1, T.mf.set) ELSE Vider(T)
           H4 == IF MfDu(T) THEN [H EXCEPT !.agenda = @ \cup Dates(fn + 1, T.mf.set)] ELSE H
<1>1. L1Sync(e0) = Fin5(MframeSchedule(Fin3(Fin2(X), d)))
  BY DEF L1Sync, EDebut, Fin2, Fin3, Fin5
<1>2. X = Etat(A, T, R, S, H) /\ d = dr
  BY DEF Drapeaux
<1> HIDE DEF X, d, A2, A3, T4, H4
<1>3. L1Sync(e0) = Fin5(MframeSchedule(Fin3(Fin2(Etat(A, T, R, S, H)), dr)))
  BY <1>1, <1>2
<1>4. Fin2(Etat(A, T, R, S, H)) = Etat(A2, T, R, S, H)
  BY DEF Fin2, Etat, A2
<1>5. Fin3(Etat(A2, T, R, S, H), dr) = Etat(A3, Vider(T), R, S, H)
  <2>1. Etat(A2, T, R, S, H).api = A2 /\ Etat(A2, T, R, S, H).tdma = T
    BY DEF Etat
  <2>2. Fin3(Etat(A2, T, R, S, H), dr) = [Etat(A2, T, R, S, H) EXCEPT !.api = A3, !.tdma = Vider(T)]
    <3> DEFINE e == Etat(A2, T, R, S, H)
    <3>1. Fin3(e, dr) = [e EXCEPT !.api = IF dr THEN DspEndScenario(e.api) ELSE e.api, !.tdma = Vider(e.tdma)]
      BY DEF Fin3
    <3> HIDE DEF e
    <3>2. (IF dr THEN DspEndScenario(e.api) ELSE e.api) = A3 /\ Vider(e.tdma) = Vider(T)
      BY <2>1 DEF A3, e
    <3>3. Fin3(e, dr) = [e EXCEPT !.api = A3, !.tdma = Vider(T)]
      BY <3>1, <3>2
    <3> QED BY <3>3 DEF e
  <2>3. [Etat(A2, T, R, S, H) EXCEPT !.api = A3] = Etat(A3, T, R, S, H)
    BY DEF Etat
  <2>4. [Etat(A3, T, R, S, H) EXCEPT !.tdma = Vider(T)] = Etat(A3, Vider(T), R, S, H)
    BY DEF Etat
  <2>6. [Etat(A2, T, R, S, H) EXCEPT !.api = A3, !.tdma = Vider(T)] = [[Etat(A2, T, R, S, H) EXCEPT !.api = A3] EXCEPT !.tdma = Vider(T)]
    OBVIOUS
  <2> QED BY <2>2, <2>3, <2>4, <2>6
<1>6. MframeSchedule(Etat(A3, Vider(T), R, S, H)) = Etat(A3, T4, R, S, H4)
  <2>1. Vider(T).mf = T.mf
    BY ViderFaits
  <2>2. CASE MfDu(T)
    <3>1. MframeSchedule(Etat(A3, Vider(T), R, S, H)) = Programmer(Etat(A3, Vider(T), R, S, H), fn, 1, T.mf.set)
      BY <2>1, <2>2 DEF MframeSchedule, MfDu, Etat
    <3> QED BY <2>2, <3>1 DEF Programmer, Etat, T4, H4
  <2>3. CASE ~MfDu(T)
    <3>1. MframeSchedule(Etat(A3, Vider(T), R, S, H)) = Etat(A3, Vider(T), R, S, H)
      BY <2>1, <2>3 DEF MframeSchedule, MfDu, Etat
    <3> QED BY <2>3, <3>1 DEF T4, H4
  <2> QED BY <2>2, <2>3
<1>7. Fin5(Etat(A3, T4, R, S, H4)) = Etat(A3, Avancer(T4), R, S, [H4 EXCEPT !.agenda = {x \in @ : x.date > fn}])
  <2> DEFINE h == [H4 EXCEPT !.agenda = {x \in @ : x.date > fn}]
  <2>1. Etat(A3, T4, R, S, H4).tdma = T4 /\ Etat(A3, T4, R, S, H4).hist = H4
    BY DEF Etat
  <2>2. Fin5(Etat(A3, T4, R, S, H4)) = [Etat(A3, T4, R, S, H4) EXCEPT !.tdma = Avancer(T4), !.hist = h]
    BY <2>1 DEF Fin5
  <2> HIDE DEF h
  <2>3. [Etat(A3, T4, R, S, H4) EXCEPT !.tdma = Avancer(T4), !.hist = h] = Etat(A3, Avancer(T4), R, S, h)
    <3>1. [Etat(A3, T4, R, S, H4) EXCEPT !.tdma = Avancer(T4)] = Etat(A3, Avancer(T4), R, S, H4)
      BY DEF Etat
    <3>2. [Etat(A3, Avancer(T4), R, S, H4) EXCEPT !.hist = h] = Etat(A3, Avancer(T4), R, S, h)
      BY DEF Etat
    <3>3. [Etat(A3, T4, R, S, H4) EXCEPT !.tdma = Avancer(T4), !.hist = h] = [[Etat(A3, T4, R, S, H4) EXCEPT !.tdma = Avancer(T4)] EXCEPT !.hist = h]
      OBVIOUS
    <3> QED BY <3>1, <3>2, <3>3
  <2>4. Fin5(Etat(A3, T4, R, S, H4)) = Etat(A3, Avancer(T4), R, S, h)
    BY <2>2, <2>3
  <2> QED BY <2>4 DEF h
<1>8. A3 = ApiFin(A, dr)
  <2>1. A = [w |-> A.w, r |-> A.r, used |-> A.used, page |-> A.page, irq |-> A.irq, W |-> A.W, R |-> A.R]
    BY DEF ApiT
  <2>2. A.irq \in BOOLEAN /\ A.used \in BOOLEAN
    BY DEF ApiT
  <2> QED BY <2>1, <2>2 DEF DspEndScenario, ApiFin, A3, A2
<1>9. [H4 EXCEPT !.agenda = {x \in @ : x.date > fn}] = HFin(H, T)
  BY DEF AgendaFin, HistT, H4, HFin
<1>10. Avancer(T4) = TdmaFin(T)
  BY DEF TdmaFin, T4
<1> QED BY <1>3, <1>4, <1>5, <1>6, <1>7, <1>8, <1>9, <1>10

\* The Booleans, as values the provers treat like any other.
Oui == TRUE
Non == FALSE

Pose(u, P, T, R, S, H) == Etat(ApiPose(u, P), T, R, S, H)

LEMMA ApiChamps ==
  ASSUME api \in ApiT
  PROVE  /\ api = [w |-> api.w, r |-> api.r, used |-> api.used, page |-> api.page, irq |-> api.irq, W |-> api.W, R |-> api.R]
         /\ api.w \in 0 .. 1 /\ api.r \in 0 .. 1 /\ api.page \in 0 .. 1 /\ api.irq \in BOOLEAN /\ api.used \in BOOLEAN
         /\ api.W \in [0 .. 1 -> PagesW] /\ api.R \in [0 .. 1 -> PagesR]
BY DEF ApiT

ApiRec(w, r, u, p, q, W, R) == [w |-> w, r |-> r, used |-> u, page |-> p, irq |-> q, W |-> W, R |-> R]

LEMMA PoseRec ==
  ASSUME NEW u, NEW P
  PROVE  ApiPose(u, P) = ApiRec(api.w, api.r, u, api.page, Non, [api.W EXCEPT ![api.w] = P], api.R)
BY DEF ApiPose, ApiRec, Non

\* The updates of l1_sync and of its callbacks, one field at a time.
MajIrq(A, x) == [A EXCEPT !.irq = x]
MajUsed(A, x) == [A EXCEPT !.used = x]
MajW(A, i, x) == [A EXCEPT !.W[i] = x]

LEMMA PoseW ==
  ASSUME NEW u, NEW P, NEW Q, api \in ApiT
  PROVE  MajW(ApiPose(u, P), api.w, Q) = ApiPose(u, Q)
<1> DEFINE V == [api.W EXCEPT ![api.w] = P]
<1>1. [V EXCEPT ![api.w] = Q] = [api.W EXCEPT ![api.w] = Q]
  BY ApiChamps
<1> HIDE DEF V
<1>2. MajW(ApiRec(api.w, api.r, u, api.page, Non, V, api.R), api.w, Q)
        = ApiRec(api.w, api.r, u, api.page, Non, [V EXCEPT ![api.w] = Q], api.R)
  BY DEF MajW, ApiRec
<1> QED BY <1>1, <1>2, PoseRec DEF V

LEMMA PoseUsed ==
  ASSUME NEW u, NEW P, NEW x
  PROVE  MajUsed(ApiPose(u, P), x) = ApiPose(x, P)
<1>1. MajUsed(ApiRec(api.w, api.r, u, api.page, Non, [api.W EXCEPT ![api.w] = P], api.R), x)
        = ApiRec(api.w, api.r, x, api.page, Non, [api.W EXCEPT ![api.w] = P], api.R)
  <2> DEFINE V == [api.W EXCEPT ![api.w] = P]
  <2> HIDE DEF V
  <2>1. MajUsed(ApiRec(api.w, api.r, u, api.page, Non, V, api.R), x) = ApiRec(api.w, api.r, x, api.page, Non, V, api.R)
    BY DEF MajUsed, ApiRec
  <2> QED BY <2>1 DEF V
<1> QED BY <1>1, PoseRec

\* The same in the state the callbacks run on.
LEMMA MajEtat ==
  ASSUME NEW A, NEW T, NEW R, NEW S, NEW H, NEW x, NEW i
  PROVE  /\ [Etat(A, T, R, S, H) EXCEPT !.api.used = x] = Etat(MajUsed(A, x), T, R, S, H)
         /\ [Etat(A, T, R, S, H) EXCEPT !.api.W[i] = x] = Etat(MajW(A, i, x), T, R, S, H)
<1>1. [Etat(A, T, R, S, H) EXCEPT !.api.used = x] = Etat(MajUsed(A, x), T, R, S, H)
  BY DEF Etat, MajUsed
<1>2. [Etat(A, T, R, S, H) EXCEPT !.api.W[i] = x] = Etat(MajW(A, i, x), T, R, S, H)
  BY DEF Etat, MajW
<1> QED BY <1>1, <1>2

ERendre(e, x) == [e EXCEPT !.api.used = x]
EPoster(e, i, x) == [e EXCEPT !.api.W[i] = x]

LEMMA MajEtatOp ==
  ASSUME NEW A, NEW T, NEW R, NEW S, NEW H, NEW x, NEW i
  PROVE  /\ ERendre(Etat(A, T, R, S, H), x) = Etat(MajUsed(A, x), T, R, S, H)
         /\ EPoster(Etat(A, T, R, S, H), i, x) = Etat(MajW(A, i, x), T, R, S, H)
BY MajEtat DEF ERendre, EPoster

\* The state l1_sync starts from, and its first step.
ApiDebut == [api EXCEPT !.irq = FALSE]

LEMMA Debut ==
  ASSUME api \in ApiT, NEW T, NEW R, NEW S, NEW H, NEW e, e = Etat(ApiDebut, T, R, S, H)
  PROVE  EDebut(e) = Pose(Non, VideW, T, R, S, H)
<1>1. api = ApiRec(api.w, api.r, api.used, api.page, api.irq, api.W, api.R)
  BY ApiChamps DEF ApiRec
<1>2. ApiDebut = MajIrq(api, Non)
  BY DEF MajIrq, Non, ApiDebut
<1>3. MajIrq(api, Non) = ApiRec(api.w, api.r, api.used, api.page, Non, api.W, api.R)
  BY <1>1 DEF MajIrq, ApiRec
<1> DEFINE A == ApiRec(api.w, api.r, api.used, api.page, Non, api.W, api.R)
<1>4. e = Etat(A, T, R, S, H)
  BY <1>2, <1>3
<1>5. e.api.w = api.w
  BY <1>4 DEF Etat, ApiRec
<1>6. EDebut(e) = EPoster(ERendre(e, Non), e.api.w, VideW)
  BY DEF EDebut, ERendre, EPoster, Non
<1>7. MajW(MajUsed(A, Non), api.w, VideW) = ApiPose(Non, VideW)
  <2>1. MajUsed(A, Non) = ApiRec(api.w, api.r, Non, api.page, Non, api.W, api.R)
    BY DEF MajUsed, ApiRec
  <2>2. MajW(ApiRec(api.w, api.r, Non, api.page, Non, api.W, api.R), api.w, VideW)
          = ApiRec(api.w, api.r, Non, api.page, Non, [api.W EXCEPT ![api.w] = VideW], api.R)
    BY DEF MajW, ApiRec
  <2>3. ApiPose(Non, VideW) = ApiRec(api.w, api.r, Non, api.page, Non, [api.W EXCEPT ![api.w] = VideW], api.R)
    BY PoseRec, Zenon
  <2> HIDE DEF A
  <2> QED BY <2>1, <2>2, <2>3
<1> HIDE DEF A
<1>8. EPoster(ERendre(e, Non), api.w, VideW) = Etat(MajW(MajUsed(A, Non), api.w, VideW), T, R, S, H)
  <2>1. ERendre(e, Non) = Etat(MajUsed(A, Non), T, R, S, H)
    BY <1>4 DEF ERendre, Etat, MajUsed
  <2> DEFINE B == MajUsed(A, Non)
  <2> HIDE DEF B
  <2>2. EPoster(Etat(B, T, R, S, H), api.w, VideW) = Etat(MajW(B, api.w, VideW), T, R, S, H)
    BY DEF EPoster, Etat, MajW
  <2> QED BY <2>1, <2>2 DEF B
<1> QED BY <1>5, <1>6, <1>7, <1>8 DEF Pose

LEMMA PosePoster ==
  ASSUME NEW u, NEW P, NEW T, NEW R, NEW S, NEW H, NEW tache, NEW id, api \in ApiT
  PROVE  Poster(Pose(u, P, T, R, S, H), tache, id) = Pose(u, PageW(tache, id, fn), T, R, S, H)
<1> DEFINE e == Pose(u, P, T, R, S, H)
<1>1. e.api.w = api.w
  BY DEF Pose, Etat, ApiPose
<1>2. Poster(e, tache, id) = EPoster(e, e.api.w, PageW(tache, id, fn))
  BY DEF Poster, EPoster
<1>3. EPoster(e, api.w, PageW(tache, id, fn)) = Etat(MajW(ApiPose(u, P), api.w, PageW(tache, id, fn)), T, R, S, H)
  BY MajEtatOp DEF Pose
<1>4. MajW(ApiPose(u, P), api.w, PageW(tache, id, fn)) = ApiPose(u, PageW(tache, id, fn))
  BY PoseW
<1> QED BY <1>1, <1>2, <1>3, <1>4 DEF Pose

LEMMA PoseRendre ==
  ASSUME NEW u, NEW P, NEW T, NEW R, NEW S, NEW H
  PROVE  Rendre(Pose(u, P, T, R, S, H)) = Pose(Oui, P, T, R, S, H)
<1> DEFINE e == Pose(u, P, T, R, S, H)
<1>1. Rendre(e) = ERendre(e, Oui)
  BY DEF Rendre, ERendre, Oui
<1>2. ERendre(e, Oui) = Etat(MajUsed(ApiPose(u, P), Oui), T, R, S, H)
  BY MajEtatOp DEF Pose
<1>3. MajUsed(ApiPose(u, P), Oui) = ApiPose(Oui, P)
  BY PoseUsed
<1> QED BY <1>1, <1>2, <1>3 DEF Pose

LEMMA PoseChamps ==
  ASSUME NEW u, NEW P, NEW T, NEW R, NEW S, NEW H
  PROVE  LET e == Pose(u, P, T, R, S, H)
         IN  /\ e.api = ApiPose(u, P) /\ e.tdma = T /\ e.rom = R /\ e.test = S /\ e.hist = H
             /\ e.api.w = api.w /\ e.api.r = api.r /\ e.api.R = api.R
BY DEF Pose, Etat, ApiPose

LEMMA PoseSbdet ==
  ASSUME NEW u, NEW P, NEW T, NEW R, NEW S, NEW H, NEW k
  PROVE  SbdetResp(Pose(u, P, T, R, S, H), k) = Pose(Oui, P, T, R, [S EXCEPT !.sb[k] = api.R[api.r].sb], H)
<1> DEFINE e == Pose(u, P, T, R, S, H)
           e1 == Pose(Oui, P, T, R, S, H)
           x == api.R[api.r].sb
           A == ApiPose(Oui, P)
<1>1. Rendre(e) = e1
  BY PoseRendre
<1>2. e.api.R[e.api.r].sb = x
  BY PoseChamps
<1>3. [e1 EXCEPT !.test.sb[k] = x] = Pose(Oui, P, T, R, [S EXCEPT !.sb[k] = x], H)
  <2> HIDE DEF A, x
  <2>1. [Etat(A, T, R, S, H) EXCEPT !.test.sb[k] = x] = Etat(A, T, R, [S EXCEPT !.sb[k] = x], H)
    BY DEF Etat
  <2> QED BY <2>1 DEF Pose, A
<1> HIDE DEF e, e1, x
<1>4. SbdetResp(e, k) = [e1 EXCEPT !.test.sb[k] = x]
  BY <1>1, <1>2 DEF SbdetResp
<1>5. SbdetResp(e, k) = Pose(Oui, P, T, R, [S EXCEPT !.sb[k] = x], H)
  BY <1>3, <1>4
<1> QED BY <1>5 DEF e, x

TxNote(S, id) ==
  [S EXCEPT !.fnCmd = @ \cup {[id |-> id, fn |-> fn + 1]}, !.blocs = IF id = 0 THEN @ + 1 ELSE @]

LEMMA PoseTxCmd ==
  ASSUME NEW u, NEW P, NEW T, NEW R, NEW S \in TestT, NEW H, NEW id, api \in ApiT
  PROVE  TxCmd(Pose(u, P, T, R, S, H), id) =
           Pose(u, PageW("tx", id, fn), T, R, TxNote(S, id), H)
<1> DEFINE e0 == Pose(u, P, T, R, S, H)
           e == Pose(u, PageW("tx", id, fn), T, R, S, H)
           A == ApiPose(u, PageW("tx", id, fn))
           x == S.fnCmd \cup {[id |-> id, fn |-> fn + 1]}
           y == IF id = 0 THEN S.blocs + 1 ELSE S.blocs
           S2 == [S EXCEPT !.fnCmd = x, !.blocs = y]
<1>1. Poster(e0, "tx", id) = e
  BY PosePoster
<1>2. e.test = S
  BY PoseChamps
<1>3. [e EXCEPT !.test.fnCmd = x, !.test.blocs = y] = [e EXCEPT !.test = [e.test EXCEPT !.fnCmd = x, !.blocs = y]]
  <2> HIDE DEF e, x, y
  <2> QED OBVIOUS
<1>4. [e EXCEPT !.test = S2] = Pose(u, PageW("tx", id, fn), T, R, S2, H)
  <2> HIDE DEF A, S2
  <2>1. [Etat(A, T, R, S, H) EXCEPT !.test = S2] = Etat(A, T, R, S2, H)
    BY DEF Etat
  <2> QED BY <2>1 DEF Pose, A
<1> HIDE DEF e0, e
<1>5. TxCmd(e0, id) = [e EXCEPT !.test.fnCmd = e.test.fnCmd \cup {[id |-> id, fn |-> fn + 1]}, !.test.blocs = IF id = 0 THEN e.test.blocs + 1 ELSE e.test.blocs]
  BY <1>1 DEF TxCmd
<1>6. TxCmd(e0, id) = [e EXCEPT !.test.fnCmd = x, !.test.blocs = y]
  BY <1>2, <1>5
<1>7. TxCmd(e0, id) = Pose(u, PageW("tx", id, fn), T, R, S2, H)
  BY <1>2, <1>3, <1>4, <1>6
<1>8. S2 = TxNote(S, id)
  BY DEF TxNote
<1> QED BY <1>7, <1>8 DEF e0

\* What nb_resp looks at.
Lit(id) == api.R[api.r].tache = "nb" /\ api.R[api.r].id = id
Egal(R) == \A i \in 0 .. 3 : R.acd[i] = fn - 5 + i
Accepte(H) == [H EXCEPT !.accepte = [resp |-> fn, cmd |-> api.R[api.r].date]]
NbNote(R, S) == [S EXCEPT !.blocs = @ + 1, !.justes = IF Egal(R) THEN @ + 1 ELSE @]
SbNote(S, k) == [S EXCEPT !.sb[k] = api.R[api.r].sb]
DetNote(S, k) == IF S.det # 0 THEN S ELSE [S EXCEPT !.det = IF k = 12 THEN -1 ELSE 0]
DetTrouve(R, S, k) == [S EXCEPT !.det = 1, !.debut = fn - k, !.toa = R.toa]

EHist(e, H) == [e EXCEPT !.hist = H]
ETest(e, S) == [e EXCEPT !.test = S]

LEMMA PoseHist ==
  ASSUME NEW u, NEW P, NEW T, NEW R, NEW S, NEW H, NEW K
  PROVE  EHist(Pose(u, P, T, R, S, H), K) = Pose(u, P, T, R, S, K)
<1> DEFINE A == ApiPose(u, P)
<1> HIDE DEF A
<1>1. [Etat(A, T, R, S, H) EXCEPT !.hist = K] = Etat(A, T, R, S, K)
  BY DEF Etat
<1> QED BY <1>1 DEF Pose, A, EHist

LEMMA PoseTest ==
  ASSUME NEW u, NEW P, NEW T, NEW R, NEW S, NEW H, NEW K
  PROVE  ETest(Pose(u, P, T, R, S, H), K) = Pose(u, P, T, R, K, H)
<1> DEFINE A == ApiPose(u, P)
<1> HIDE DEF A
<1>1. [Etat(A, T, R, S, H) EXCEPT !.test = K] = Etat(A, T, R, K, H)
  BY DEF Etat
<1> QED BY <1>1 DEF Pose, A, ETest

LEMMA PoseEPoster ==
  ASSUME NEW u, NEW P, NEW T, NEW R, NEW S, NEW H, NEW Q, api \in ApiT
  PROVE  EPoster(Pose(u, P, T, R, S, H), api.w, Q) = Pose(u, Q, T, R, S, H)
<1> DEFINE A == ApiPose(u, P)
<1>1. MajW(A, api.w, Q) = ApiPose(u, Q)
  BY PoseW
<1> HIDE DEF A
<1>2. [Etat(A, T, R, S, H) EXCEPT !.api.W[api.w] = Q] = Etat(MajW(A, api.w, Q), T, R, S, H)
  BY DEF Etat, MajW
<1> QED BY <1>1, <1>2 DEF Pose, A, EPoster

LEMMA PoseNbNon ==
  ASSUME NEW u, NEW P, NEW T, NEW R, NEW S, NEW H, NEW id, ~Lit(id)
  PROVE  NbResp(Pose(u, P, T, R, S, H), id) = Pose(u, P, T, R, S, H)
<1> DEFINE e == Pose(u, P, T, R, S, H)
<1>1. e.api.R[e.api.r] = api.R[api.r]
  BY PoseChamps
<1> HIDE DEF e
<1>2. NbResp(e, id) = e
  BY <1>1 DEF NbResp, Lit
<1> QED BY <1>2 DEF e

LEMMA PoseNbLit ==
  ASSUME NEW u, NEW P, NEW T, NEW R, NEW S, NEW H \in HistT, NEW id \in 0 .. 2, Lit(id)
  PROVE  NbResp(Pose(u, P, T, R, S, H), id) = Pose(Oui, P, T, R, S, Accepte(H))
<1> DEFINE e == Pose(u, P, T, R, S, H)
           e1 == Pose(Oui, P, T, R, S, H)
           x == [resp |-> fn, cmd |-> api.R[api.r].date]
<1>1. e.api.R[e.api.r] = api.R[api.r] /\ Rendre(e) = e1 /\ e1.hist = H
  BY PoseChamps, PoseRendre
<1>2. EHist(e1, Accepte(H)) = Pose(Oui, P, T, R, S, Accepte(H))
  BY PoseHist
<1> HIDE DEF e, e1, x
<1>3. NbResp(e, id) = [e1 EXCEPT !.hist.accepte = x]
  BY <1>1 DEF NbResp, Lit, x
<1>4. [e1 EXCEPT !.hist.accepte = x] = [e1 EXCEPT !.hist = [e1.hist EXCEPT !.accepte = x]]
  OBVIOUS
<1>5. [e1.hist EXCEPT !.accepte = x] = Accepte(H)
  BY <1>1 DEF Accepte, x
<1>6. NbResp(e, id) = EHist(e1, Accepte(H))
  BY <1>3, <1>4, <1>5 DEF EHist
<1> QED BY <1>2, <1>6 DEF e

LEMMA PoseNbFin ==
  ASSUME NEW u, NEW P, NEW T, NEW R, NEW S \in TestT, NEW H \in HistT, Lit(3), api \in ApiT
  PROVE  NbResp(Pose(u, P, T, R, S, H), 3) = Pose(Oui, VideW, T, R, NbNote(R, S), Accepte(H))
<1> DEFINE e == Pose(u, P, T, R, S, H)
           e1 == Pose(Oui, P, T, R, S, H)
           e2 == Pose(Oui, P, T, R, S, Accepte(H))
           e3 == Pose(Oui, P, T, R, NbNote(R, S), Accepte(H))
           x == [resp |-> fn, cmd |-> api.R[api.r].date]
           eg == Egal(R)
<1>1. e.api.R[e.api.r] = api.R[api.r] /\ Rendre(e) = e1 /\ e1.hist = H /\ e.rom = R
  BY PoseChamps, PoseRendre
<1>2. EHist(e1, Accepte(H)) = e2 /\ e2.test = S /\ ETest(e2, NbNote(R, S)) = e3 /\ e.api.w = api.w
  BY PoseHist, PoseTest, PoseChamps
<1>3. EPoster(e3, api.w, VideW) = Pose(Oui, VideW, T, R, NbNote(R, S), Accepte(H))
  BY PoseEPoster
<1>4. eg = (\A i \in 0 .. 3 : e.rom.acd[i] = fn - 5 + i)
  BY <1>1 DEF Egal
<1>a. e2.api = ApiPose(Oui, P) /\ e3.api = ApiPose(Oui, P)
  BY PoseChamps
<1> HIDE DEF e, e1, e2, e3, x, eg
<1>5. [e1 EXCEPT !.hist.accepte = x] = EHist(e1, Accepte(H))
  <2>1. [e1 EXCEPT !.hist.accepte = x] = [e1 EXCEPT !.hist = [e1.hist EXCEPT !.accepte = x]]
    OBVIOUS
  <2>2. [e1.hist EXCEPT !.accepte = x] = Accepte(H)
    BY <1>1 DEF Accepte, x
  <2> QED BY <2>1, <2>2 DEF EHist
<1>6. NbResp(e, 3) = [e2 EXCEPT !.test.blocs = @ + 1, !.test.justes = IF eg THEN @ + 1 ELSE @, !.api.W[e.api.w] = VideW]
  <2> DEFINE l == [Rendre(e) EXCEPT !.hist.accepte = x]
             g == \A i \in 0 .. 3 : e.rom.acd[i] = fn - 5 + i
  <2>1. NbResp(e, 3) = [l EXCEPT !.test.blocs = @ + 1, !.test.justes = IF g THEN @ + 1 ELSE @, !.api.W[e.api.w] = VideW]
    BY <1>1 DEF NbResp, Lit, x
  <2>2. l = e2 /\ g = eg
    BY <1>1, <1>2, <1>4, <1>5
  <2> HIDE DEF l, g
  <2> QED BY <2>1, <2>2
<1>7. [e2 EXCEPT !.test.blocs = @ + 1, !.test.justes = IF eg THEN @ + 1 ELSE @, !.api.W[e.api.w] = VideW]
        = EPoster(ETest(e2, [e2.test EXCEPT !.blocs = @ + 1, !.justes = IF eg THEN @ + 1 ELSE @]), e.api.w, VideW)
  BY DEF EPoster, ETest
<1>8. [e2.test EXCEPT !.blocs = @ + 1, !.justes = IF eg THEN @ + 1 ELSE @] = NbNote(R, S)
  BY <1>2 DEF NbNote, eg
<1> QED BY <1>2, <1>3, <1>6, <1>7, <1>8 DEF e

LEMMA PoseFbRien ==
  ASSUME NEW u, NEW P, NEW T, NEW R \in RomT, NEW S \in TestT, NEW H, NEW k, ~(S.det = 0 /\ R.det)
  PROVE  FbdetResp(Pose(u, P, T, R, S, H), k) = Pose(u, P, T, R, DetNote(S, k), H)
<1> DEFINE e == Pose(u, P, T, R, S, H)
<1>1. e.test = S /\ e.rom = R
  BY PoseChamps
<1>2. ETest(e, [S EXCEPT !.det = IF k = 12 THEN -1 ELSE 0]) = Pose(u, P, T, R, [S EXCEPT !.det = IF k = 12 THEN -1 ELSE 0], H)
  BY PoseTest
<1> HIDE DEF e
<1>3. CASE S.det # 0
  <2>1. FbdetResp(e, k) = e
    BY <1>1, <1>3 DEF FbdetResp
  <2> QED BY <1>3, <2>1 DEF e, DetNote
<1>4. CASE S.det = 0
  <2>1. ~R.det
    BY <1>4
  <2>2. FbdetResp(e, k) = [e EXCEPT !.test.det = IF k = 12 THEN -1 ELSE 0]
    BY <1>1, <1>4, <2>1 DEF FbdetResp
  <2>3. [e EXCEPT !.test.det = IF k = 12 THEN -1 ELSE 0] = ETest(e, [e.test EXCEPT !.det = IF k = 12 THEN -1 ELSE 0])
    BY DEF ETest
  <2> QED BY <1>1, <1>2, <1>4, <2>2, <2>3 DEF e, DetNote
<1> QED BY <1>3, <1>4

LEMMA RemiseHw ==
  ASSUME NEW u, NEW P
  PROVE  ResetHw(ApiPose(u, P)) = ApiRemise(u, P)
<1> DEFINE V == [api.W EXCEPT ![api.w] = P]
           A == ApiRec(api.w, api.r, u, api.page, Non, V, api.R)
<1>1. ApiPose(u, P) = A
  BY PoseRec
<1> HIDE DEF V
<1>2. [A EXCEPT !.w = 0] = ApiRec(0, api.r, u, api.page, Non, V, api.R)
  BY DEF ApiRec
<1>3. [ApiRec(0, api.r, u, api.page, Non, V, api.R) EXCEPT !.r = 0] = ApiRec(0, 0, u, api.page, Non, V, api.R)
  BY DEF ApiRec
<1>4. [ApiRec(0, 0, u, api.page, Non, V, api.R) EXCEPT !.used = Non] = ApiRec(0, 0, Non, api.page, Non, V, api.R)
  BY DEF ApiRec
<1>5. [ApiRec(0, 0, Non, api.page, Non, V, api.R) EXCEPT !.page = 0] = ApiRec(0, 0, Non, 0, Non, V, api.R)
  BY DEF ApiRec
<1>6. ResetHw(ApiPose(u, P)) = [[[[A EXCEPT !.w = 0] EXCEPT !.r = 0] EXCEPT !.used = Non] EXCEPT !.page = 0]
  <2> HIDE DEF A
  <2>1. ResetHw(A) = [[[[A EXCEPT !.w = 0] EXCEPT !.r = 0] EXCEPT !.used = Non] EXCEPT !.page = 0]
    BY DEF ResetHw, Non
  <2> QED BY <1>1, <2>1
<1> QED BY <1>2, <1>3, <1>4, <1>5, <1>6 DEF V, ApiRec, ApiRemise, Non

LEMMA PoseFbTrouve ==
  ASSUME NEW u, NEW P, NEW T, NEW R \in RomT, NEW S \in TestT, NEW H \in HistT, NEW k, S.det = 0, R.det
  PROVE  FbdetResp(Pose(u, P, T, R, S, H), k) =
           Etat(ApiRemise(u, P), TdmaSchedReset(T), [R EXCEPT !.det = FALSE], DetTrouve(R, S, k),
                [H EXCEPT !.agenda = {x \in @ : x.date = fn}])
<1> DEFINE A == ApiPose(u, P)
           e == Etat(A, T, R, S, H)
           T2 == TdmaSchedReset(T)
           A2 == ResetHw(A)
           ag == {x \in H.agenda : x.date = fn}
           d2 == fn - k
<1>1. e.test = S /\ e.rom = R /\ e.api = A /\ e.tdma = T /\ e.hist = H
  BY DEF Etat
<1>2. A2 = ApiRemise(u, P)
  BY RemiseHw
<1> HIDE DEF e, A, A2, T2, ag, d2
<1>3. FbdetResp(e, k) = [e EXCEPT !.api = A2, !.tdma = T2, !.rom.det = Non, !.hist.agenda = ag,
                                  !.test.det = 1, !.test.debut = d2, !.test.toa = R.toa]
  <2>1. FbdetResp(e, k) = [e EXCEPT !.api = ResetHw(e.api), !.tdma = TdmaSchedReset(e.tdma), !.rom.det = Non,
                                    !.hist.agenda = {x \in e.hist.agenda : x.date = fn},
                                    !.test.det = 1, !.test.debut = fn - k, !.test.toa = e.rom.toa]
    BY <1>1 DEF FbdetResp, Non
  <2> QED BY <1>1, <2>1 DEF A2, T2, ag, d2
<1> DEFINE R3 == [R EXCEPT !.det = Non]
           H3 == [H EXCEPT !.agenda = ag]
           S3 == [S EXCEPT !.det = 1, !.debut = d2, !.toa = R.toa]
<1>4. FbdetResp(e, k) = [[[[[e EXCEPT !.api = A2] EXCEPT !.tdma = T2] EXCEPT !.rom = R3] EXCEPT !.hist = H3] EXCEPT !.test = S3]
  BY <1>1, <1>3, ZenonT(20)
<1> HIDE DEF R3, H3, S3
<1>5. [e EXCEPT !.api = A2] = Etat(A2, T, R, S, H)
  BY DEF Etat, e
<1>6. [Etat(A2, T, R, S, H) EXCEPT !.tdma = T2] = Etat(A2, T2, R, S, H)
  BY DEF Etat
<1>7. [Etat(A2, T2, R, S, H) EXCEPT !.rom = R3] = Etat(A2, T2, R3, S, H)
  BY DEF Etat
<1>8. [Etat(A2, T2, R3, S, H) EXCEPT !.hist = H3] = Etat(A2, T2, R3, S, H3)
  BY DEF Etat
<1>9. [Etat(A2, T2, R3, S, H3) EXCEPT !.test = S3] = Etat(A2, T2, R3, S3, H3)
  BY DEF Etat
<1>10. FbdetResp(e, k) = Etat(A2, T2, R3, S3, H3)
  <2>1. [[e EXCEPT !.api = A2] EXCEPT !.tdma = T2] = Etat(A2, T2, R, S, H)
    BY <1>5, <1>6
  <2>2. [[[e EXCEPT !.api = A2] EXCEPT !.tdma = T2] EXCEPT !.rom = R3] = Etat(A2, T2, R3, S, H)
    BY <2>1, <1>7
  <2>3. [[[[e EXCEPT !.api = A2] EXCEPT !.tdma = T2] EXCEPT !.rom = R3] EXCEPT !.hist = H3] = Etat(A2, T2, R3, S, H3)
    BY <2>2, <1>8
  <2> QED BY <2>3, <1>4, <1>9
<1> QED BY <1>2, <1>10 DEF e, A, T2, R3, S3, H3, ag, d2, DetTrouve, Pose, Non

Drap(c) == \E i \in DOMAIN c : c[i].flags

\* What the items of frame fn do, when they are those of the set s begun in frame d:
\* the flags q, the R page used u, the W page P, the test S and the history K.
EVide(c, H, q, u, P, S, K) == c = <<>> /\ q = Non /\ u = Non /\ P = VideW /\ S = test /\ K = H
ECmd(d, s, H, q, u, P, S, K) ==
  /\ q = Oui /\ u = Non /\ S = test /\ K = H
  /\ \/ s = FbSet /\ fn = d /\ P = PageW("fb", 0, fn)
     \/ s = SbSet /\ \E k \in 1 .. 2 : fn = d + k - 1 /\ P = PageW("sb", k, fn)
     \/ s = NbSet /\ \E k \in 0 .. 1 : fn = d + k /\ P = PageW("nb", k, fn)
     \/ s = RachSet /\ fn = d /\ P = PageW("rach", 0, fn)
     \/ s = ChkSet /\ fn = d /\ P = PageW("chk", 0, fn)
ETx(d, s, H, q, u, P, S, K) ==
  s = NbSetUl /\ \E k \in 0 .. 3 :
    fn = d + k /\ q = Oui /\ u = (IF k >= 2 THEN Oui ELSE Non) /\ P = PageW("tx", k, fn) /\ S = TxNote(test, k) /\ K = H
ERien(d, s, H, q, u, P, S, K) ==
  /\ q = Non /\ u = Oui /\ P = VideW /\ S = test /\ K = H
  /\ (s = NbSetUl /\ fn \in d + 4 .. d + 5) \/ (s = RachSet /\ fn = d + 2)
ESb(d, s, H, q, u, P, S, K) ==
  s = SbSet /\ \E k \in 1 .. 2 : fn = d + k + 2 /\ q = Non /\ u = Oui /\ P = VideW /\ S = SbNote(test, k) /\ K = H
EFb(d, s, R, H, q, u, P, S, K) ==
  s = FbSet /\ \E k \in 1 .. 12 :
    fn = d + k + 1 /\ q = Non /\ u = Non /\ P = VideW /\ S = DetNote(test, k) /\ K = H /\ ~(test.det = 0 /\ R.det)
ENb(d, s, R, H, q, u, P, S, K) ==
  s = NbSet /\ \E k \in 0 .. 3 :
    /\ fn = d + k + 2
    /\ IF k <= 1 THEN q = Oui /\ P = PageW("nb", k + 2, fn) ELSE q = Non /\ P = VideW
    /\ IF Lit(k) THEN u = Oui /\ K = Accepte(H) /\ S = (IF k = 3 THEN NbNote(R, test) ELSE test)
       ELSE u = Non /\ K = H /\ S = test

Effet(c, d, s, R, H, q, u, P, S, K) ==
  \/ EVide(c, H, q, u, P, S, K)
  \/ ECmd(d, s, H, q, u, P, S, K)
  \/ ETx(d, s, H, q, u, P, S, K)
  \/ ERien(d, s, H, q, u, P, S, K)
  \/ ESb(d, s, H, q, u, P, S, K)
  \/ EFb(d, s, R, H, q, u, P, S, K)
  \/ ENb(d, s, R, H, q, u, P, S, K)

\* The frame finds the FB.
Trouve(d, s, R, k) == s = FbSet /\ k \in 1 .. 12 /\ fn = d + k + 1 /\ test.det = 0 /\ R.det

LEMMA DrapUn == ASSUME NEW i \in Items, i.flags = Oui PROVE Drap(<<i>>) = Oui
BY DEF Drap, Oui
LEMMA DrapUnNon == ASSUME NEW i \in Items, i.flags = Non PROVE Drap(<<i>>) = Non
BY DEF Drap, Non
LEMMA DrapDeux == ASSUME NEW i \in Items, NEW j \in Items, j.flags = Oui PROVE Drap(<<i, j>>) = Oui
BY DEF Drap, Oui
LEMMA DrapVide == Drap(<<>>) = Non
BY DEF Drap, Non

LEMMA ItemCmd ==
  ASSUME NEW cb \in Cbs, NEW k \in 0 .. 12
  PROVE  Cmd(cb, k) \in Items /\ Cmd(cb, k).flags = Oui /\ Cmd(cb, k).cb = cb /\ Cmd(cb, k).id = k
BY DEF Cmd, Item, Items, Oui
LEMMA ItemCmdUl ==
  ASSUME NEW cb \in Cbs, NEW k \in 0 .. 12
  PROVE  CmdUl(cb, k) \in Items /\ CmdUl(cb, k).flags = Oui /\ CmdUl(cb, k).cb = cb /\ CmdUl(cb, k).id = k
BY DEF CmdUl, Item, Items, Oui
LEMMA ItemResp ==
  ASSUME NEW cb \in Cbs, NEW k \in 0 .. 12
  PROVE  Resp(cb, k) \in Items /\ Resp(cb, k).flags = Non /\ Resp(cb, k).cb = cb /\ Resp(cb, k).id = k
BY DEF Resp, Item, Items, Non

LEMMA AppelerCas ==
  ASSUME NEW e, NEW it
  PROVE  /\ it.cb = "fb_cmd" => Appeler(e, it) = Poster(e, "fb", 0)
         /\ it.cb = "fb_resp" => Appeler(e, it) = FbdetResp(e, it.id)
         /\ it.cb = "sb_cmd" => Appeler(e, it) = Poster(e, "sb", it.id)
         /\ it.cb = "sb_resp" => Appeler(e, it) = SbdetResp(e, it.id)
         /\ it.cb = "nb_cmd" => Appeler(e, it) = Poster(e, "nb", it.id)
         /\ it.cb = "nb_resp" => Appeler(e, it) = NbResp(e, it.id)
         /\ it.cb = "tx_cmd" => Appeler(e, it) = TxCmd(e, it.id)
         /\ it.cb = "rach_cmd" => Appeler(e, it) = Poster(e, "rach", 0)
         /\ it.cb = "chk_cmd" => Appeler(e, it) = Poster(e, "chk", 0)
         /\ it.cb \in {"tx_resp", "rach_resp"} => Appeler(e, it) = Rendre(e)
BY Zenon DEF Appeler

\* What the bucket of frame x holds.
LEMMA ContenuCas ==
  ASSUME NEW d \in Nat, NEW s \in Jeux, NEW x \in Nat, NEW c, c = Contenu(d, s, x)
  PROVE  \/ c = <<>>
         \/ s = FbSet /\ x = d /\ c = <<Cmd("fb_cmd", 0)>>
         \/ s = FbSet /\ \E k \in 1 .. 12 : x = d + k + 1 /\ c = <<Resp("fb_resp", k)>>
         \/ s = SbSet /\ \E k \in 1 .. 2 : x = d + k - 1 /\ c = <<Cmd("sb_cmd", k)>>
         \/ s = SbSet /\ \E k \in 1 .. 2 : x = d + k + 2 /\ c = <<Resp("sb_resp", k)>>
         \/ s = NbSet /\ \E k \in 0 .. 1 : x = d + k /\ c = <<Cmd("nb_cmd", k)>>
         \/ s = NbSet /\ \E k \in 0 .. 1 : x = d + k + 2 /\ c = <<Resp("nb_resp", k), Cmd("nb_cmd", k + 2)>>
         \/ s = NbSet /\ \E k \in 2 .. 3 : x = d + k + 2 /\ c = <<Resp("nb_resp", k)>>
         \/ s = NbSetUl /\ \E k \in 0 .. 1 : x = d + k /\ c = <<CmdUl("tx_cmd", k)>>
         \/ s = NbSetUl /\ \E k \in 0 .. 1 : x = d + k + 2 /\ c = <<Resp("tx_resp", k), CmdUl("tx_cmd", k + 2)>>
         \/ s = NbSetUl /\ \E k \in 2 .. 3 : x = d + k + 2 /\ c = <<Resp("tx_resp", k)>>
         \/ s = RachSet /\ x = d /\ c = <<CmdUl("rach_cmd", 0)>>
         \/ s = RachSet /\ x = d + 2 /\ c = <<Resp("rach_resp", 0)>>
         \/ s = ChkSet /\ x = d /\ c = <<Cmd("chk_cmd", 0)>>
<1> DEFINE j == x - d + 1
<1>0. Len(s) \in Nat /\ (j \in 1 .. Len(s) => c = s[j]) /\ (j \notin 1 .. Len(s) => c = <<>>)
  BY JeuxFaits DEF Contenu
<1>a. j \in Int /\ x = d + j - 1 /\ x \in Int /\ d \in Int
  OBVIOUS
<1> HIDE DEF j
<1>1. CASE j \notin 1 .. Len(s)
  BY <1>0, <1>1
<1>2. CASE j \in 1 .. Len(s) /\ s = FbSet
  <2>1. c = s[j] /\ j \in 1 .. 14
    BY <1>0, <1>2, FbFaits
  <2>2. CASE j >= 3
    <3>0. j \in 3 .. 14
      BY <2>1, <2>2
    <3>1. c = <<Resp("fb_resp", j - 2)>>
      BY <1>2, <2>1, <3>0, FbFaits, Zenon
    <3>2. j - 2 \in 1 .. 12 /\ x = d + (j - 2) + 1
      BY <3>0, <1>a
    <3> QED BY <1>2, <3>1, <3>2, Zenon
  <2>3. CASE j < 3
    <3>1. (j = 1 /\ x = d /\ c = <<Cmd("fb_cmd", 0)>>) \/ c = <<>>
      <4>1. j = 1 \/ j = 2
        BY <2>1, <2>3
      <4>2. (j = 1 => c = <<Cmd("fb_cmd", 0)>>) /\ (j = 2 => c = <<>>)
        BY <1>2, <2>1, FbFaits, Zenon
      <4>3. j = 1 => x = d
        BY <1>a
      <4> QED BY <4>1, <4>2, <4>3
    <3> QED BY <1>2, <3>1, Zenon
  <2>4. j < 3 \/ j >= 3
    BY <1>a
  <2> QED BY <2>2, <2>3, <2>4
<1>3. CASE j \in 1 .. Len(s) /\ s = SbSet
  <2>1. c = s[j] /\ j \in 1 .. 5
    BY <1>0, <1>3, SbFaits
  <2>2. \/ x = d + 1 - 1 /\ c = <<Cmd("sb_cmd", 1)>>
        \/ x = d + 2 - 1 /\ c = <<Cmd("sb_cmd", 2)>>
        \/ c = <<>>
        \/ x = d + 1 + 2 /\ c = <<Resp("sb_resp", 1)>>
        \/ x = d + 2 + 2 /\ c = <<Resp("sb_resp", 2)>>
    <3>1. j = 1 \/ j = 2 \/ j = 3 \/ j = 4 \/ j = 5
      BY <2>1, <1>a
    <3>2. (j = 1 => c = <<Cmd("sb_cmd", 1)>>) /\ (j = 2 => c = <<Cmd("sb_cmd", 2)>>) /\ (j = 3 => c = <<>>)
          /\ (j = 4 => c = <<Resp("sb_resp", 1)>>) /\ (j = 5 => c = <<Resp("sb_resp", 2)>>)
      BY <1>3, <2>1, SbFaits, Zenon
    <3>3. (j = 1 => x = d + 1 - 1) /\ (j = 2 => x = d + 2 - 1) /\ (j = 4 => x = d + 1 + 2) /\ (j = 5 => x = d + 2 + 2)
      BY <1>a
    <3> QED BY <3>1, <3>2, <3>3, Zenon
  <2>3. 1 \in 1 .. 2 /\ 2 \in 1 .. 2
    OBVIOUS
  <2> QED BY <1>3, <2>2, <2>3, Zenon
<1>4. CASE j \in 1 .. Len(s) /\ s = NbSet
  <2>1. c = s[j] /\ j \in 1 .. 6
    BY <1>0, <1>4, NbFaits
  <2>2. \/ x = d + 0 /\ c = <<Cmd("nb_cmd", 0)>>
        \/ x = d + 1 /\ c = <<Cmd("nb_cmd", 1)>>
        \/ x = d + 0 + 2 /\ c = <<Resp("nb_resp", 0), Cmd("nb_cmd", 2)>>
        \/ x = d + 1 + 2 /\ c = <<Resp("nb_resp", 1), Cmd("nb_cmd", 3)>>
        \/ x = d + 2 + 2 /\ c = <<Resp("nb_resp", 2)>>
        \/ x = d + 3 + 2 /\ c = <<Resp("nb_resp", 3)>>
    <3>1. j = 1 \/ j = 2 \/ j = 3 \/ j = 4 \/ j = 5 \/ j = 6
      BY <2>1, <1>a
    <3>2. /\ (j = 1 => c = <<Cmd("nb_cmd", 0)>>) /\ (j = 2 => c = <<Cmd("nb_cmd", 1)>>)
          /\ (j = 3 => c = <<Resp("nb_resp", 0), Cmd("nb_cmd", 2)>>) /\ (j = 4 => c = <<Resp("nb_resp", 1), Cmd("nb_cmd", 3)>>)
          /\ (j = 5 => c = <<Resp("nb_resp", 2)>>) /\ (j = 6 => c = <<Resp("nb_resp", 3)>>)
      BY <1>4, <2>1, NbFaits, Zenon
    <3>3. /\ (j = 1 => x = d + 0) /\ (j = 2 => x = d + 1) /\ (j = 3 => x = d + 0 + 2) /\ (j = 4 => x = d + 1 + 2)
          /\ (j = 5 => x = d + 2 + 2) /\ (j = 6 => x = d + 3 + 2)
      BY <1>a
    <3> QED BY <3>1, <3>2, <3>3, Zenon
  <2>3. 0 \in 0 .. 1 /\ 1 \in 0 .. 1 /\ 2 \in 2 .. 3 /\ 3 \in 2 .. 3 /\ 0 + 2 = 2 /\ 1 + 2 = 3
    OBVIOUS
  <2> QED BY <1>4, <2>2, <2>3, Zenon
<1>5. CASE j \in 1 .. Len(s) /\ s = NbSetUl
  <2>1. c = s[j] /\ j \in 1 .. 6
    BY <1>0, <1>5, NbUlFaits
  <2>2. \/ x = d + 0 /\ c = <<CmdUl("tx_cmd", 0)>>
        \/ x = d + 1 /\ c = <<CmdUl("tx_cmd", 1)>>
        \/ x = d + 0 + 2 /\ c = <<Resp("tx_resp", 0), CmdUl("tx_cmd", 2)>>
        \/ x = d + 1 + 2 /\ c = <<Resp("tx_resp", 1), CmdUl("tx_cmd", 3)>>
        \/ x = d + 2 + 2 /\ c = <<Resp("tx_resp", 2)>>
        \/ x = d + 3 + 2 /\ c = <<Resp("tx_resp", 3)>>
    <3>1. j = 1 \/ j = 2 \/ j = 3 \/ j = 4 \/ j = 5 \/ j = 6
      BY <2>1, <1>a
    <3>2. /\ (j = 1 => c = <<CmdUl("tx_cmd", 0)>>) /\ (j = 2 => c = <<CmdUl("tx_cmd", 1)>>)
          /\ (j = 3 => c = <<Resp("tx_resp", 0), CmdUl("tx_cmd", 2)>>) /\ (j = 4 => c = <<Resp("tx_resp", 1), CmdUl("tx_cmd", 3)>>)
          /\ (j = 5 => c = <<Resp("tx_resp", 2)>>) /\ (j = 6 => c = <<Resp("tx_resp", 3)>>)
      BY <1>5, <2>1, NbUlFaits, Zenon
    <3>3. /\ (j = 1 => x = d + 0) /\ (j = 2 => x = d + 1) /\ (j = 3 => x = d + 0 + 2) /\ (j = 4 => x = d + 1 + 2)
          /\ (j = 5 => x = d + 2 + 2) /\ (j = 6 => x = d + 3 + 2)
      BY <1>a
    <3> QED BY <3>1, <3>2, <3>3, Zenon
  <2>3. 0 \in 0 .. 1 /\ 1 \in 0 .. 1 /\ 2 \in 2 .. 3 /\ 3 \in 2 .. 3 /\ 0 + 2 = 2 /\ 1 + 2 = 3
    OBVIOUS
  <2> QED BY <1>5, <2>2, <2>3, Zenon
<1>6. CASE j \in 1 .. Len(s) /\ s = RachSet
  <2>1. c = s[j] /\ j \in {1, 2, 3}
    <3>1. c = s[j] /\ j \in 1 .. 3
      BY <1>0, <1>6, RachFaits, Zenon
    <3> QED BY <3>1, <1>a
  <2>2. (j = 1 => c = <<CmdUl("rach_cmd", 0)>>) /\ (j = 2 => c = <<>>) /\ (j = 3 => c = <<Resp("rach_resp", 0)>>)
    BY <1>6, <2>1, RachFaits, Zenon
  <2>3. (j = 1 => x = d) /\ (j = 3 => x = d + 2)
    BY <1>a
  <2> QED BY <1>6, <2>1, <2>2, <2>3, Zenon
<1>7. CASE j \in 1 .. Len(s) /\ s = ChkSet
  <2>1. c = s[j] /\ j = 1
    <3>1. c = s[j] /\ j \in 1 .. 1
      BY <1>0, <1>7, ChkFaits, Zenon
    <3> QED BY <3>1, <1>a
  <2>2. c = <<Cmd("chk_cmd", 0)>> /\ x = d
    BY <1>a, <1>7, <2>1, ChkFaits
  <2> QED BY <1>7, <2>2, Zenon
<1>8. s = <<>> => j \notin 1 .. Len(s)
  OBVIOUS
<1> QED BY <1>1, <1>2, <1>3, <1>4, <1>5, <1>6, <1>7, <1>8 DEF Jeux

Joue(c, T, R, H) == Executer(Pose(Non, VideW, T, R, test, H), c)
Calme(c, d, s, T, R, H) ==
  \E u, P, S, K : Joue(c, T, R, H) = Pose(u, P, T, R, S, K) /\ Effet(c, d, s, R, H, Drap(c), u, P, S, K)
Detecte(c, d, s, T, R, H) ==
  \E k : /\ Trouve(d, s, R, k) /\ Drap(c) = Non
         /\ Joue(c, T, R, H) = Etat(ApiRemise(Non, VideW), TdmaSchedReset(T), [R EXCEPT !.det = FALSE],
                                    DetTrouve(R, test, k), [H EXCEPT !.agenda = {x \in @ : x.date = fn}])

LEMMA CbsFaits ==
  /\ "fb_cmd" \in Cbs /\ "fb_resp" \in Cbs /\ "sb_cmd" \in Cbs /\ "sb_resp" \in Cbs /\ "nb_cmd" \in Cbs /\ "nb_resp" \in Cbs
  /\ "tx_cmd" \in Cbs /\ "tx_resp" \in Cbs /\ "rach_cmd" \in Cbs /\ "rach_resp" \in Cbs /\ "chk_cmd" \in Cbs
BY DEF Cbs

\* One item.
LEMMA JoueUn ==
  ASSUME NEW T, NEW R, NEW H, NEW a, NEW c, c = <<a>>
  PROVE  Joue(c, T, R, H) = Appeler(Pose(Non, VideW, T, R, test, H), a)
BY ExecuterUn DEF Joue

LEMMA JoueDeux ==
  ASSUME NEW T, NEW R, NEW H, NEW a, NEW b, NEW c, c = <<a, b>>
  PROVE  Joue(c, T, R, H) = Appeler(Appeler(Pose(Non, VideW, T, R, test, H), a), b)
BY ExecuterDeux DEF Joue

LEMMA JoueVide ==
  ASSUME NEW T, NEW R, NEW H, NEW d, NEW s, NEW c, c = <<>>
  PROVE  Calme(c, d, s, T, R, H)
<1>1. Joue(c, T, R, H) = Pose(Non, VideW, T, R, test, H)
  BY ExecuterVide DEF Joue
<1>2. Drap(c) = Non
  BY DrapVide
<1>3. Effet(c, d, s, R, H, Drap(c), Non, VideW, test, H)
  BY <1>2, Zenon DEF Effet, EVide
<1> QED BY <1>1, <1>3, Zenon DEF Calme

LEMMA JoueFbCmd ==
  ASSUME api \in ApiT, fn \in Nat, NEW T, NEW R, NEW H, NEW d \in Nat, NEW s, s = FbSet, fn = d,
         NEW c, c = <<Cmd("fb_cmd", 0)>>
  PROVE  Calme(c, d, s, T, R, H)
<1> DEFINE i == Cmd("fb_cmd", 0)
<1>1. 0 \in 0 .. 12
  OBVIOUS
<1>2. i \in Items /\ i.flags = Oui /\ i.cb = "fb_cmd" /\ i.id = 0
  BY <1>1, CbsFaits, ItemCmd, Zenon
<1> HIDE DEF i
<1>3. c = <<i>>
  BY DEF i
<1>4. Joue(c, T, R, H) = Pose(Non, PageW("fb", 0, fn), T, R, test, H)
  <2> DEFINE e == Pose(Non, VideW, T, R, test, H)
  <2>1. Joue(c, T, R, H) = Appeler(e, i)
    BY <1>3, JoueUn
  <2>2. Poster(e, "fb", 0) = Pose(Non, PageW("fb", 0, fn), T, R, test, H)
    BY PosePoster
  <2> HIDE DEF e
  <2>3. Appeler(e, i) = Poster(e, "fb", 0)
    BY <1>2, AppelerCas, Zenon
  <2> QED BY <2>1, <2>2, <2>3
<1>5. Drap(c) = Oui
  BY <1>2, <1>3, DrapUn
<1>6. ECmd(d, s, H, Drap(c), Non, PageW("fb", 0, fn), test, H)
  BY <1>5, Zenon DEF ECmd
<1> QED BY <1>4, <1>6, Zenon DEF Calme, Effet

LEMMA JoueSbCmd ==
  ASSUME api \in ApiT, fn \in Nat, NEW T, NEW R, NEW H, NEW d \in Nat, NEW s, NEW k \in 1 .. 2, s = SbSet, fn = d + k - 1,
         NEW c, c = <<Cmd("sb_cmd", k)>>
  PROVE  Calme(c, d, s, T, R, H)
<1> DEFINE i == Cmd("sb_cmd", k)
<1>1. k \in 0 .. 12
  OBVIOUS
<1>2. i \in Items /\ i.flags = Oui /\ i.cb = "sb_cmd" /\ i.id = k
  BY <1>1, CbsFaits, ItemCmd, Zenon
<1> HIDE DEF i
<1>3. c = <<i>>
  BY DEF i
<1>4. Joue(c, T, R, H) = Pose(Non, PageW("sb", k, fn), T, R, test, H)
  <2> DEFINE e == Pose(Non, VideW, T, R, test, H)
  <2>1. Joue(c, T, R, H) = Appeler(e, i)
    BY <1>3, JoueUn
  <2>2. Poster(e, "sb", k) = Pose(Non, PageW("sb", k, fn), T, R, test, H)
    BY PosePoster
  <2> HIDE DEF e
  <2>3. Appeler(e, i) = Poster(e, "sb", k)
    BY <1>2, AppelerCas, Zenon
  <2> QED BY <2>1, <2>2, <2>3
<1>5. Drap(c) = Oui
  BY <1>2, <1>3, DrapUn
<1>6. ECmd(d, s, H, Drap(c), Non, PageW("sb", k, fn), test, H)
  BY <1>5, Zenon DEF ECmd
<1> QED BY <1>4, <1>6, Zenon DEF Calme, Effet

LEMMA JoueNbCmd ==
  ASSUME api \in ApiT, fn \in Nat, NEW T, NEW R, NEW H, NEW d \in Nat, NEW s, NEW k \in 0 .. 1, s = NbSet, fn = d + k,
         NEW c, c = <<Cmd("nb_cmd", k)>>
  PROVE  Calme(c, d, s, T, R, H)
<1> DEFINE i == Cmd("nb_cmd", k)
<1>1. k \in 0 .. 12
  OBVIOUS
<1>2. i \in Items /\ i.flags = Oui /\ i.cb = "nb_cmd" /\ i.id = k
  BY <1>1, CbsFaits, ItemCmd, Zenon
<1> HIDE DEF i
<1>3. c = <<i>>
  BY DEF i
<1>4. Joue(c, T, R, H) = Pose(Non, PageW("nb", k, fn), T, R, test, H)
  <2> DEFINE e == Pose(Non, VideW, T, R, test, H)
  <2>1. Joue(c, T, R, H) = Appeler(e, i)
    BY <1>3, JoueUn
  <2>2. Poster(e, "nb", k) = Pose(Non, PageW("nb", k, fn), T, R, test, H)
    BY PosePoster
  <2> HIDE DEF e
  <2>3. Appeler(e, i) = Poster(e, "nb", k)
    BY <1>2, AppelerCas, Zenon
  <2> QED BY <2>1, <2>2, <2>3
<1>5. Drap(c) = Oui
  BY <1>2, <1>3, DrapUn
<1>6. ECmd(d, s, H, Drap(c), Non, PageW("nb", k, fn), test, H)
  BY <1>5, Zenon DEF ECmd
<1> QED BY <1>4, <1>6, Zenon DEF Calme, Effet

LEMMA JoueRachCmd ==
  ASSUME api \in ApiT, fn \in Nat, NEW T, NEW R, NEW H, NEW d \in Nat, NEW s, s = RachSet, fn = d,
         NEW c, c = <<CmdUl("rach_cmd", 0)>>
  PROVE  Calme(c, d, s, T, R, H)
<1> DEFINE i == CmdUl("rach_cmd", 0)
<1>1. 0 \in 0 .. 12
  OBVIOUS
<1>2. i \in Items /\ i.flags = Oui /\ i.cb = "rach_cmd" /\ i.id = 0
  BY <1>1, CbsFaits, ItemCmdUl, Zenon
<1> HIDE DEF i
<1>3. c = <<i>>
  BY DEF i
<1>4. Joue(c, T, R, H) = Pose(Non, PageW("rach", 0, fn), T, R, test, H)
  <2> DEFINE e == Pose(Non, VideW, T, R, test, H)
  <2>1. Joue(c, T, R, H) = Appeler(e, i)
    BY <1>3, JoueUn
  <2>2. Poster(e, "rach", 0) = Pose(Non, PageW("rach", 0, fn), T, R, test, H)
    BY PosePoster
  <2> HIDE DEF e
  <2>3. Appeler(e, i) = Poster(e, "rach", 0)
    BY <1>2, AppelerCas, Zenon
  <2> QED BY <2>1, <2>2, <2>3
<1>5. Drap(c) = Oui
  BY <1>2, <1>3, DrapUn
<1>6. ECmd(d, s, H, Drap(c), Non, PageW("rach", 0, fn), test, H)
  BY <1>5, Zenon DEF ECmd
<1> QED BY <1>4, <1>6, Zenon DEF Calme, Effet

LEMMA JoueChkCmd ==
  ASSUME api \in ApiT, fn \in Nat, NEW T, NEW R, NEW H, NEW d \in Nat, NEW s, s = ChkSet, fn = d,
         NEW c, c = <<Cmd("chk_cmd", 0)>>
  PROVE  Calme(c, d, s, T, R, H)
<1> DEFINE i == Cmd("chk_cmd", 0)
<1>1. 0 \in 0 .. 12
  OBVIOUS
<1>2. i \in Items /\ i.flags = Oui /\ i.cb = "chk_cmd" /\ i.id = 0
  BY <1>1, CbsFaits, ItemCmd, Zenon
<1> HIDE DEF i
<1>3. c = <<i>>
  BY DEF i
<1>4. Joue(c, T, R, H) = Pose(Non, PageW("chk", 0, fn), T, R, test, H)
  <2> DEFINE e == Pose(Non, VideW, T, R, test, H)
  <2>1. Joue(c, T, R, H) = Appeler(e, i)
    BY <1>3, JoueUn
  <2>2. Poster(e, "chk", 0) = Pose(Non, PageW("chk", 0, fn), T, R, test, H)
    BY PosePoster
  <2> HIDE DEF e
  <2>3. Appeler(e, i) = Poster(e, "chk", 0)
    BY <1>2, AppelerCas, Zenon
  <2> QED BY <2>1, <2>2, <2>3
<1>5. Drap(c) = Oui
  BY <1>2, <1>3, DrapUn
<1>6. ECmd(d, s, H, Drap(c), Non, PageW("chk", 0, fn), test, H)
  BY <1>5, Zenon DEF ECmd
<1> QED BY <1>4, <1>6, Zenon DEF Calme, Effet

LEMMA JoueTxCmd ==
  ASSUME api \in ApiT, test \in TestT, fn \in Nat, NEW T, NEW R, NEW H, NEW d \in Nat, NEW s, NEW k \in 0 .. 1,
         s = NbSetUl, fn = d + k, NEW c, c = <<CmdUl("tx_cmd", k)>>
  PROVE  Calme(c, d, s, T, R, H)
<1> DEFINE i == CmdUl("tx_cmd", k)
<1>1. k \in 0 .. 12 /\ k \in 0 .. 3 /\ ~(k >= 2)
  OBVIOUS
<1>2. i \in Items /\ i.flags = Oui /\ i.cb = "tx_cmd" /\ i.id = k
  BY <1>1, CbsFaits, ItemCmdUl, Zenon
<1> HIDE DEF i
<1>3. c = <<i>>
  BY DEF i
<1>4. Joue(c, T, R, H) = Pose(Non, PageW("tx", k, fn), T, R, TxNote(test, k), H)
  <2> DEFINE e == Pose(Non, VideW, T, R, test, H)
  <2>1. Joue(c, T, R, H) = Appeler(e, i)
    BY <1>3, JoueUn
  <2>2. TxCmd(e, k) = Pose(Non, PageW("tx", k, fn), T, R, TxNote(test, k), H)
    BY PoseTxCmd
  <2> HIDE DEF e
  <2>3. Appeler(e, i) = TxCmd(e, k)
    BY <1>2, AppelerCas, Zenon
  <2> QED BY <2>1, <2>2, <2>3
<1>5. Drap(c) = Oui
  BY <1>2, <1>3, DrapUn
<1>6. ETx(d, s, H, Drap(c), Non, PageW("tx", k, fn), TxNote(test, k), H)
  <2>1. Non = (IF k >= 2 THEN Oui ELSE Non)
    BY <1>1
  <2> QED BY <1>1, <1>5, <2>1, Zenon DEF ETx
<1> QED BY <1>4, <1>6, Zenon DEF Calme, Effet

LEMMA JoueTxRespCmd ==
  ASSUME api \in ApiT, test \in TestT, fn \in Nat, NEW T, NEW R, NEW H, NEW d \in Nat, NEW s, NEW k \in 0 .. 1,
         s = NbSetUl, fn = d + k + 2, NEW c, c = <<Resp("tx_resp", k), CmdUl("tx_cmd", k + 2)>>
  PROVE  Calme(c, d, s, T, R, H)
<1> DEFINE i == Resp("tx_resp", k)
           l == k + 2
           j == CmdUl("tx_cmd", l)
<1>1. k \in 0 .. 12 /\ l \in 0 .. 12 /\ l \in 0 .. 3 /\ l >= 2 /\ fn = d + l
  OBVIOUS
<1> HIDE DEF l
<1>a. i \in Items /\ i.flags = Non /\ i.cb = "tx_resp"
  BY <1>1, CbsFaits, ItemResp
<1>b. j \in Items /\ j.flags = Oui /\ j.cb = "tx_cmd" /\ j.id = l
  BY <1>1, CbsFaits, ItemCmdUl, Zenon
<1>2. i \in Items /\ i.flags = Non /\ i.cb = "tx_resp" /\ j \in Items /\ j.flags = Oui /\ j.cb = "tx_cmd" /\ j.id = l
  BY <1>a, <1>b
<1> HIDE DEF i, j
<1>3. c = <<i, j>>
  BY DEF i, j, l
<1>4. Joue(c, T, R, H) = Pose(Oui, PageW("tx", l, fn), T, R, TxNote(test, l), H)
  <2> DEFINE e == Pose(Non, VideW, T, R, test, H)
             e1 == Pose(Oui, VideW, T, R, test, H)
  <2>1. Joue(c, T, R, H) = Appeler(Appeler(e, i), j)
    BY <1>3, JoueDeux
  <2>2. Rendre(e) = e1
    BY PoseRendre
  <2>3. TxCmd(e1, l) = Pose(Oui, PageW("tx", l, fn), T, R, TxNote(test, l), H)
    BY PoseTxCmd
  <2> HIDE DEF e, e1
  <2>4. Appeler(e, i) = Rendre(e)
    <3>1. i.cb \in {"tx_resp", "rach_resp"}
      BY <1>2
    <3> QED BY <3>1, AppelerCas, Zenon
  <2>5. Appeler(e1, j) = TxCmd(e1, l)
    BY <1>2, AppelerCas, Zenon
  <2> QED BY <2>1, <2>2, <2>3, <2>4, <2>5
<1>5. Drap(c) = Oui
  BY <1>2, <1>3, DrapDeux
<1>6. ETx(d, s, H, Drap(c), Oui, PageW("tx", l, fn), TxNote(test, l), H)
  <2>1. Oui = (IF l >= 2 THEN Oui ELSE Non)
    BY <1>1
  <2> QED BY <1>1, <1>5, <2>1, Zenon DEF ETx
<1> QED BY <1>4, <1>6, Zenon DEF Calme, Effet

\* A response that only gives the R page back.
LEMMA JoueRien ==
  ASSUME NEW T, NEW R, NEW H, NEW d, NEW s, NEW cb \in {"tx_resp", "rach_resp"}, NEW k \in 0 .. 12,
         (s = NbSetUl /\ fn \in d + 4 .. d + 5) \/ (s = RachSet /\ fn = d + 2), NEW c, c = <<Resp(cb, k)>>
  PROVE  Calme(c, d, s, T, R, H)
<1> DEFINE i == Resp(cb, k)
<1>0. cb \in Cbs
  BY CbsFaits
<1>2. i \in Items /\ i.flags = Non /\ i.cb = cb
  BY <1>0, ItemResp, Zenon
<1> HIDE DEF i
<1>3. c = <<i>>
  BY DEF i
<1>4. Joue(c, T, R, H) = Pose(Oui, VideW, T, R, test, H)
  <2> DEFINE e == Pose(Non, VideW, T, R, test, H)
  <2>1. Joue(c, T, R, H) = Appeler(e, i)
    BY <1>3, JoueUn
  <2>2. Rendre(e) = Pose(Oui, VideW, T, R, test, H)
    BY PoseRendre
  <2> HIDE DEF e
  <2>3. Appeler(e, i) = Rendre(e)
    BY <1>2, AppelerCas, Zenon
  <2> QED BY <2>1, <2>2, <2>3
<1>5. Drap(c) = Non
  BY <1>2, <1>3, DrapUnNon
<1>6. ERien(d, s, H, Drap(c), Oui, VideW, test, H)
  BY <1>5, Zenon DEF ERien
<1> QED BY <1>4, <1>6, Zenon DEF Calme, Effet

LEMMA JoueSbResp ==
  ASSUME NEW T, NEW R, NEW H, NEW d \in Nat, NEW s, NEW k \in 1 .. 2, s = SbSet, fn = d + k + 2, NEW c, c = <<Resp("sb_resp", k)>>
  PROVE  Calme(c, d, s, T, R, H)
<1> DEFINE i == Resp("sb_resp", k)
<1>1. k \in 0 .. 12
  OBVIOUS
<1>2. i \in Items /\ i.flags = Non /\ i.cb = "sb_resp" /\ i.id = k
  BY <1>1, CbsFaits, ItemResp
<1> HIDE DEF i
<1>3. c = <<i>>
  BY DEF i
<1>4. Joue(c, T, R, H) = Pose(Oui, VideW, T, R, SbNote(test, k), H)
  <2> DEFINE e == Pose(Non, VideW, T, R, test, H)
  <2>1. Joue(c, T, R, H) = Appeler(e, i)
    BY <1>3, JoueUn
  <2>2. SbdetResp(e, k) = Pose(Oui, VideW, T, R, SbNote(test, k), H)
    BY PoseSbdet DEF SbNote
  <2> HIDE DEF e
  <2>3. Appeler(e, i) = SbdetResp(e, k)
    BY <1>2, AppelerCas, Zenon
  <2> QED BY <2>1, <2>2, <2>3
<1>5. Drap(c) = Non
  BY <1>2, <1>3, DrapUnNon
<1>6. ESb(d, s, H, Drap(c), Oui, VideW, SbNote(test, k), H)
  BY <1>5, Zenon DEF ESb
<1> QED BY <1>4, <1>6, Zenon DEF Calme, Effet

LEMMA JoueFbResp ==
  ASSUME api \in ApiT, test \in TestT, NEW T, NEW R \in RomT, NEW H \in HistT, NEW d \in Nat, NEW s, NEW k \in 1 .. 12,
         s = FbSet, fn = d + k + 1, NEW c, c = <<Resp("fb_resp", k)>>
  PROVE  Calme(c, d, s, T, R, H) \/ Detecte(c, d, s, T, R, H)
<1> DEFINE i == Resp("fb_resp", k)
           e == Pose(Non, VideW, T, R, test, H)
<1>1. k \in 0 .. 12
  OBVIOUS
<1>2. i \in Items /\ i.flags = Non /\ i.cb = "fb_resp" /\ i.id = k
  BY <1>1, CbsFaits, ItemResp
<1> HIDE DEF i
<1>3. c = <<i>>
  BY DEF i
<1>5. Drap(c) = Non
  BY <1>2, <1>3, DrapUnNon
<1>6. Joue(c, T, R, H) = FbdetResp(e, k)
  <2>1. Joue(c, T, R, H) = Appeler(e, i)
    BY <1>3, JoueUn
  <2> HIDE DEF e
  <2>3. Appeler(e, i) = FbdetResp(e, k)
    BY <1>2, AppelerCas, Zenon
  <2> QED BY <2>1, <2>3
<1>7. CASE ~(test.det = 0 /\ R.det)
  <2>1. FbdetResp(e, k) = Pose(Non, VideW, T, R, DetNote(test, k), H)
    BY <1>7, PoseFbRien
  <2>2. EFb(d, s, R, H, Drap(c), Non, VideW, DetNote(test, k), H)
    BY <1>5, <1>7, Zenon DEF EFb
  <2>3. Joue(c, T, R, H) = Pose(Non, VideW, T, R, DetNote(test, k), H)
    BY <1>6, <2>1
  <2> QED BY <2>2, <2>3, Zenon DEF Calme, Effet
<1>8. CASE test.det = 0 /\ R.det
  <2>1. FbdetResp(e, k) = Etat(ApiRemise(Non, VideW), TdmaSchedReset(T), [R EXCEPT !.det = FALSE],
                                    DetTrouve(R, test, k), [H EXCEPT !.agenda = {x \in @ : x.date = fn}])
    BY <1>8, PoseFbTrouve
  <2>2. Trouve(d, s, R, k)
    BY <1>8 DEF Trouve
  <2> HIDE DEF e
  <2> QED BY <1>5, <1>6, <2>1, <2>2, Zenon DEF Detecte
<1> QED BY <1>7, <1>8

LitNote(k, R, S) == IF k = 3 THEN NbNote(R, S) ELSE S

\* nb_resp, whatever the R page says.
LEMMA NbRespPose ==
  ASSUME api \in ApiT, test \in TestT, NEW T, NEW R, NEW H \in HistT, NEW k \in 0 .. 3
  PROVE  LET e == Pose(Non, VideW, T, R, test, H)
         IN  NbResp(e, k) = IF Lit(k) THEN Pose(Oui, VideW, T, R, LitNote(k, R, test), Accepte(H)) ELSE e
<1>1. CASE ~Lit(k)
  BY <1>1, PoseNbNon
<1>2. CASE Lit(k) /\ k # 3
  <2>1. k \in 0 .. 2
    BY <1>2
  <2>2. NbResp(Pose(Non, VideW, T, R, test, H), k) = Pose(Oui, VideW, T, R, test, Accepte(H))
    BY <1>2, <2>1, PoseNbLit
  <2> QED BY <1>2, <2>2 DEF LitNote
<1>3. CASE Lit(k) /\ k = 3
  <2>2. NbResp(Pose(Non, VideW, T, R, test, H), 3) = Pose(Oui, VideW, T, R, NbNote(R, test), Accepte(H))
    BY <1>3, PoseNbFin
  <2> QED BY <1>3, <2>2 DEF LitNote
<1> QED BY <1>1, <1>2, <1>3

LEMMA ENbDeux ==
  ASSUME NEW d \in Nat, NEW s, NEW k \in 0 .. 3, s = NbSet, fn = d + k + 2, NEW R, NEW H, NEW q, NEW P,
         IF k <= 1 THEN q = Oui /\ P = PageW("nb", k + 2, fn) ELSE q = Non /\ P = VideW
  PROVE  IF Lit(k) THEN ENb(d, s, R, H, q, Oui, P, LitNote(k, R, test), Accepte(H)) ELSE ENb(d, s, R, H, q, Non, P, test, H)
BY Zenon DEF ENb, LitNote

LEMMA JoueNbResp ==
  ASSUME api \in ApiT, test \in TestT, NEW T, NEW R, NEW H \in HistT, NEW d \in Nat, NEW s, NEW k \in 2 .. 3,
         s = NbSet, fn = d + k + 2, NEW c, c = <<Resp("nb_resp", k)>>
  PROVE  Calme(c, d, s, T, R, H)
<1> DEFINE i == Resp("nb_resp", k)
           e == Pose(Non, VideW, T, R, test, H)
           f == Pose(Oui, VideW, T, R, LitNote(k, R, test), Accepte(H))
<1>1. k \in 0 .. 12 /\ k \in 0 .. 3 /\ ~(k <= 1)
  OBVIOUS
<1>2. i \in Items /\ i.flags = Non /\ i.cb = "nb_resp" /\ i.id = k
  BY <1>1, CbsFaits, ItemResp
<1> HIDE DEF i
<1>3. c = <<i>>
  BY DEF i
<1>4. Joue(c, T, R, H) = IF Lit(k) THEN f ELSE e
  <2>1. Joue(c, T, R, H) = Appeler(e, i)
    BY <1>3, JoueUn
  <2>2. NbResp(e, k) = IF Lit(k) THEN f ELSE e
    BY <1>1, NbRespPose
  <2> HIDE DEF e, f
  <2>3. Appeler(e, i) = NbResp(e, k)
    BY <1>2, AppelerCas, Zenon
  <2> QED BY <2>1, <2>2, <2>3
<1>5. Drap(c) = Non
  BY <1>2, <1>3, DrapUnNon
<1>6. IF Lit(k) THEN ENb(d, s, R, H, Drap(c), Oui, VideW, LitNote(k, R, test), Accepte(H)) ELSE ENb(d, s, R, H, Drap(c), Non, VideW, test, H)
  <2>1. IF k <= 1 THEN Drap(c) = Oui /\ VideW = PageW("nb", k + 2, fn) ELSE Drap(c) = Non /\ VideW = VideW
    BY <1>1, <1>5
  <2> QED BY <1>1, <2>1, ENbDeux
<1>7. CASE Lit(k)
  BY <1>4, <1>6, <1>7, Zenon DEF Calme, Effet
<1>8. CASE ~Lit(k)
  BY <1>4, <1>6, <1>8, Zenon DEF Calme, Effet
<1> QED BY <1>7, <1>8

LEMMA JoueNbRespCmd ==
  ASSUME api \in ApiT, test \in TestT, NEW T, NEW R, NEW H \in HistT, NEW d \in Nat, NEW s, NEW k \in 0 .. 1,
         s = NbSet, fn = d + k + 2, NEW c, c = <<Resp("nb_resp", k), Cmd("nb_cmd", k + 2)>>
  PROVE  Calme(c, d, s, T, R, H)
<1> DEFINE i == Resp("nb_resp", k)
           l == k + 2
           j == Cmd("nb_cmd", l)
           Q == PageW("nb", l, fn)
           e == Pose(Non, VideW, T, R, test, H)
           f == Pose(Oui, VideW, T, R, LitNote(k, R, test), Accepte(H))
           e2 == Pose(Non, Q, T, R, test, H)
           f2 == Pose(Oui, Q, T, R, LitNote(k, R, test), Accepte(H))
<1>1. k \in 0 .. 12 /\ k \in 0 .. 3 /\ k <= 1 /\ l \in 0 .. 12
  OBVIOUS
<1>a. PageW("nb", k + 2, fn) = Q
  OBVIOUS
<1> HIDE DEF l
<1>2. i \in Items /\ i.flags = Non /\ i.cb = "nb_resp" /\ i.id = k
  BY <1>1, CbsFaits, ItemResp
<1>b. j \in Items /\ j.flags = Oui /\ j.cb = "nb_cmd" /\ j.id = l
  BY <1>1, CbsFaits, ItemCmd
<1> HIDE DEF i, j
<1>3. c = <<i, j>>
  BY DEF i, j, l
<1>4. Joue(c, T, R, H) = IF Lit(k) THEN f2 ELSE e2
  <2>1. Joue(c, T, R, H) = Appeler(Appeler(e, i), j)
    BY <1>3, JoueDeux
  <2>2. NbResp(e, k) = IF Lit(k) THEN f ELSE e
    BY <1>1, NbRespPose
  <2>4. Poster(e, "nb", l) = e2 /\ Poster(f, "nb", l) = f2
    BY PosePoster
  <2> HIDE DEF e, f, e2, f2
  <2>3. Appeler(e, i) = NbResp(e, k)
    BY <1>2, AppelerCas, Zenon
  <2>5. Appeler(e, j) = Poster(e, "nb", l) /\ Appeler(f, j) = Poster(f, "nb", l)
    BY <1>b, AppelerCas, Zenon
  <2> QED BY <2>1, <2>2, <2>3, <2>4, <2>5
<1>5. Drap(c) = Oui
  BY <1>2, <1>b, <1>3, DrapDeux
<1>6. IF Lit(k) THEN ENb(d, s, R, H, Drap(c), Oui, Q, LitNote(k, R, test), Accepte(H)) ELSE ENb(d, s, R, H, Drap(c), Non, Q, test, H)
  <2>1. IF k <= 1 THEN Drap(c) = Oui /\ Q = PageW("nb", k + 2, fn) ELSE Drap(c) = Non /\ Q = VideW
    BY <1>1, <1>5, <1>a
  <2> HIDE DEF Q
  <2> QED BY <1>1, <2>1, ENbDeux
<1>7. CASE Lit(k)
  BY <1>4, <1>6, <1>7, Zenon DEF Calme, Effet
<1>8. CASE ~Lit(k)
  BY <1>4, <1>6, <1>8, Zenon DEF Calme, Effet
<1> QED BY <1>7, <1>8

\* The items of a frame: the FB is found, or they do what Effet says.
LEMMA SeauJoue ==
  ASSUME api \in ApiT, test \in TestT, fn \in Nat, NEW T, NEW R \in RomT, NEW H \in HistT, NEW d \in Nat, NEW s \in Jeux,
         NEW c, c = Contenu(d, s, fn)
  PROVE  Calme(c, d, s, T, R, H) \/ Detecte(c, d, s, T, R, H)
<1>1. CASE c = <<>>
  BY <1>1, JoueVide
<1>2. CASE s = FbSet /\ fn = d /\ c = <<Cmd("fb_cmd", 0)>>
  BY <1>2, JoueFbCmd
<1>3. CASE s = FbSet /\ \E k \in 1 .. 12 : fn = d + k + 1 /\ c = <<Resp("fb_resp", k)>>
  BY <1>3, JoueFbResp
<1>4. CASE s = SbSet /\ \E k \in 1 .. 2 : fn = d + k - 1 /\ c = <<Cmd("sb_cmd", k)>>
  BY <1>4, JoueSbCmd
<1>5. CASE s = SbSet /\ \E k \in 1 .. 2 : fn = d + k + 2 /\ c = <<Resp("sb_resp", k)>>
  BY <1>5, JoueSbResp
<1>6. CASE s = NbSet /\ \E k \in 0 .. 1 : fn = d + k /\ c = <<Cmd("nb_cmd", k)>>
  BY <1>6, JoueNbCmd
<1>7. CASE s = NbSet /\ \E k \in 0 .. 1 : fn = d + k + 2 /\ c = <<Resp("nb_resp", k), Cmd("nb_cmd", k + 2)>>
  BY <1>7, JoueNbRespCmd
<1>8. CASE s = NbSet /\ \E k \in 2 .. 3 : fn = d + k + 2 /\ c = <<Resp("nb_resp", k)>>
  BY <1>8, JoueNbResp
<1>9. CASE s = NbSetUl /\ \E k \in 0 .. 1 : fn = d + k /\ c = <<CmdUl("tx_cmd", k)>>
  BY <1>9, JoueTxCmd
<1>10. CASE s = NbSetUl /\ \E k \in 0 .. 1 : fn = d + k + 2 /\ c = <<Resp("tx_resp", k), CmdUl("tx_cmd", k + 2)>>
  BY <1>10, JoueTxRespCmd
<1>11. CASE s = NbSetUl /\ \E k \in 2 .. 3 : fn = d + k + 2 /\ c = <<Resp("tx_resp", k)>>
  <2>1. PICK k \in 2 .. 3 : fn = d + k + 2 /\ c = <<Resp("tx_resp", k)>>
    BY <1>11
  <2>2. fn \in d + 4 .. d + 5 /\ k \in 0 .. 12
    BY <2>1
  <2>3. "tx_resp" \in {"tx_resp", "rach_resp"}
    OBVIOUS
  <2> QED BY <1>11, <2>1, <2>2, <2>3, JoueRien
<1>12. CASE s = RachSet /\ fn = d /\ c = <<CmdUl("rach_cmd", 0)>>
  BY <1>12, JoueRachCmd
<1>13. CASE s = RachSet /\ fn = d + 2 /\ c = <<Resp("rach_resp", 0)>>
  <2>1. 0 \in 0 .. 12 /\ "rach_resp" \in {"tx_resp", "rach_resp"}
    OBVIOUS
  <2> QED BY <1>13, <2>1, JoueRien
<1>14. CASE s = ChkSet /\ fn = d /\ c = <<Cmd("chk_cmd", 0)>>
  BY <1>14, JoueChkCmd
<1> QED BY <1>1, <1>2, <1>3, <1>4, <1>5, <1>6, <1>7, <1>8, <1>9, <1>10, <1>11, <1>12, <1>13, <1>14, ContenuCas

\* What a callback leaves of the test and of the history.
MemeTest(S) ==
  /\ S.nom = test.nom /\ S.pas = test.pas /\ S.essai = test.essai /\ S.reste = test.reste /\ S.vise = test.vise
  /\ S.deduit = test.deduit /\ S.faux = test.faux /\ S.verdict = test.verdict
MemeDet(S) == S.det = test.det /\ S.debut = test.debut /\ S.toa = test.toa
MemeBlocs(S) == S.blocs = test.blocs /\ S.justes = test.justes /\ S.fnCmd = test.fnCmd
MemeHist(K, H) ==
  /\ K.agenda = H.agenda /\ K.fenetres = H.fenetres /\ K.fcch = H.fcch /\ K.emis = H.emis
  /\ K.perdus = H.perdus /\ K.its = H.its /\ K.rates = H.rates

LEMMA TestChamps ==
  ASSUME NEW S \in TestT
  PROVE  /\ S.nom \in Tests /\ S.pas \in Pas /\ S.essai \in Nat /\ S.reste \in Nat /\ S.det \in -1 .. 1 /\ S.debut \in Int
         /\ S.toa \in Int /\ S.vise \in Int /\ S.deduit \in Int /\ S.sb \in [1 .. 2 -> Trames] /\ S.blocs \in Nat
         /\ S.justes \in Nat /\ S.faux \in Nat /\ S.fnCmd \in SUBSET Emissions /\ S.verdict \in Verdicts
BY DEF TestT

LEMMA TxNoteType ==
  ASSUME test \in TestT, fn \in Nat, NEW k \in 0 .. 3
  PROVE  LET S == TxNote(test, k)
         IN  /\ S \in TestT /\ MemeTest(S) /\ MemeDet(S) /\ S.sb = test.sb /\ S.justes = test.justes
             /\ S.blocs = (IF k = 0 THEN test.blocs + 1 ELSE test.blocs)
             /\ S.fnCmd = test.fnCmd \cup {[id |-> k, fn |-> fn + 1]}
<1> DEFINE x == test.fnCmd \cup {[id |-> k, fn |-> fn + 1]}
           y == IF k = 0 THEN test.blocs + 1 ELSE test.blocs
           S == [test EXCEPT !.fnCmd = x, !.blocs = y]
<1>1. x \in SUBSET Emissions /\ y \in Nat
  <2>1. [id |-> k, fn |-> fn + 1] \in Emissions
    BY DEF Emissions
  <2> QED BY <2>1, TestChamps
<1>2. TxNote(test, k) = S
  BY DEF TxNote
<1> HIDE DEF x, y
<1>3. S \in TestT /\ S.fnCmd = x /\ S.blocs = y /\ S.sb = test.sb /\ S.justes = test.justes
  BY <1>1 DEF TestT
<1>4. MemeTest(S) /\ MemeDet(S)
  BY DEF TestT, MemeTest, MemeDet
<1> QED BY <1>2, <1>3, <1>4 DEF x, y

LEMMA NbNoteType ==
  ASSUME test \in TestT, NEW R
  PROVE  LET S == NbNote(R, test)
         IN  /\ S \in TestT /\ MemeTest(S) /\ MemeDet(S) /\ S.sb = test.sb
             /\ S.blocs = test.blocs + 1 /\ S.fnCmd = test.fnCmd
<1> DEFINE x == test.blocs + 1
           y == IF Egal(R) THEN test.justes + 1 ELSE test.justes
           S == [test EXCEPT !.blocs = x, !.justes = y]
<1>1. x \in Nat /\ y \in Nat
  BY TestChamps
<1>2. NbNote(R, test) = S
  BY DEF NbNote
<1> HIDE DEF x, y
<1>3. S \in TestT /\ S.fnCmd = test.fnCmd /\ S.blocs = x /\ S.sb = test.sb
  BY <1>1 DEF TestT
<1>4. MemeTest(S) /\ MemeDet(S)
  BY DEF TestT, MemeTest, MemeDet
<1> QED BY <1>2, <1>3, <1>4 DEF x, y

LEMMA SbNoteType ==
  ASSUME test \in TestT, api \in ApiT, NEW k \in 1 .. 2
  PROVE  LET S == SbNote(test, k)
         IN  /\ S \in TestT /\ MemeTest(S) /\ MemeDet(S) /\ MemeBlocs(S) /\ S.sb = [test.sb EXCEPT ![k] = api.R[api.r].sb]
<1> DEFINE x == [test.sb EXCEPT ![k] = api.R[api.r].sb]
           S == [test EXCEPT !.sb = x]
<1>1. x \in [1 .. 2 -> Trames]
  <2>1. api.R[api.r].sb \in Trames
    BY ApiChamps DEF PagesR
  <2> QED BY <2>1, TestChamps
<1>2. SbNote(test, k) = S
  BY DEF SbNote
<1> HIDE DEF x
<1>3. S \in TestT /\ S.sb = x
  BY <1>1 DEF TestT
<1>4. MemeTest(S) /\ MemeDet(S) /\ MemeBlocs(S)
  BY DEF TestT, MemeTest, MemeDet, MemeBlocs
<1> QED BY <1>2, <1>3, <1>4 DEF x

LEMMA DetNoteType ==
  ASSUME test \in TestT, NEW k \in 1 .. 12
  PROVE  LET S == DetNote(test, k)
         IN  /\ S \in TestT /\ MemeTest(S) /\ MemeBlocs(S) /\ S.sb = test.sb /\ S.debut = test.debut /\ S.toa = test.toa
             /\ S.det = (IF test.det # 0 THEN test.det ELSE IF k = 12 THEN -1 ELSE 0)
<1> DEFINE x == IF test.det # 0 THEN test.det ELSE IF k = 12 THEN -1 ELSE 0
           S == [test EXCEPT !.det = x]
<1>1. x \in -1 .. 1
  BY TestChamps
<1>2. DetNote(test, k) = S
  BY DEF DetNote, TestT
<1> HIDE DEF x
<1>3. S \in TestT /\ S.det = x /\ S.sb = test.sb /\ S.debut = test.debut /\ S.toa = test.toa
  BY <1>1 DEF TestT
<1>4. MemeTest(S) /\ MemeBlocs(S)
  BY DEF TestT, MemeTest, MemeBlocs
<1> QED BY <1>2, <1>3, <1>4 DEF x

LEMMA DetTrouveType ==
  ASSUME test \in TestT, fn \in Nat, NEW R \in RomT, NEW k \in 1 .. 12
  PROVE  LET S == DetTrouve(R, test, k)
         IN  /\ S \in TestT /\ MemeTest(S) /\ MemeBlocs(S) /\ S.sb = test.sb
             /\ S.det = 1 /\ S.debut = fn - k /\ S.toa = R.toa
<1> DEFINE x == fn - k
           y == R.toa
           S == [test EXCEPT !.det = 1, !.debut = x, !.toa = y]
<1>1. x \in Int /\ y \in Int /\ 1 \in -1 .. 1
  BY DEF RomT
<1>2. DetTrouve(R, test, k) = S
  BY DEF DetTrouve
<1> HIDE DEF x, y
<1>3. S \in TestT /\ S.det = 1 /\ S.sb = test.sb /\ S.debut = x /\ S.toa = y
  BY <1>1 DEF TestT
<1>4. MemeTest(S) /\ MemeBlocs(S)
  BY DEF TestT, MemeTest, MemeBlocs
<1> QED BY <1>2, <1>3, <1>4 DEF x, y

LEMMA AccepteType ==
  ASSUME fn \in Nat, api \in ApiT, NEW H \in HistT
  PROVE  Accepte(H) \in HistT /\ MemeHist(Accepte(H), H) /\ Accepte(H).accepte = [resp |-> fn, cmd |-> api.R[api.r].date]
<1> DEFINE x == [resp |-> fn, cmd |-> api.R[api.r].date]
<1>1. x \in [resp : Nat, cmd : Trames]
  BY ApiChamps DEF PagesR
<1> HIDE DEF x
<1>2. [H EXCEPT !.accepte = x] \in HistT /\ MemeHist([H EXCEPT !.accepte = x], H) /\ [H EXCEPT !.accepte = x].accepte = x
  BY <1>1 DEF HistT, MemeHist
<1> QED BY <1>2 DEF Accepte, x

LEMMA MemeSoi ==
  ASSUME NEW H
  PROVE  MemeTest(test) /\ MemeDet(test) /\ MemeBlocs(test) /\ MemeHist(H, H)
BY DEF MemeTest, MemeDet, MemeBlocs, MemeHist

LEMMA PageWType ==
  /\ VideW \in PagesW
  /\ \A ta \in Taches, k \in 0 .. 3, x \in Nat : PageW(ta, k, x) \in PagesW
BY DEF VideW, PageW, PagesW, Taches, Trames, Aucun

\* What a frame notes that the invariants tell apart.
DetSuit(d, s, R, S) ==
  \/ S.det = test.det /\ ~(s = FbSet /\ fn \in d + 2 .. d + 13 /\ test.det = 0)
  \/ /\ s = FbSet /\ fn \in d + 2 .. d + 13 /\ test.det = 0 /\ ~R.det
     /\ S.det = (IF fn = d + 13 THEN -1 ELSE 0)
BlocsSuit(d, s, S) ==
  \/ S.blocs = test.blocs
  \/ S.blocs = test.blocs + 1 /\ ((s = NbSet /\ fn = d + 5) \/ (s = NbSetUl /\ fn = d))
PageSuit(d, s, P) ==
  \/ P = VideW
  \/ s = FbSet /\ fn = d /\ P = PageW("fb", 0, fn)
  \/ s = SbSet /\ \E k \in 1 .. 2 : fn = d + k - 1 /\ P = PageW("sb", k, fn)
  \/ s = NbSet /\ \E k \in 0 .. 3 : fn = d + k /\ P = PageW("nb", k, fn)
  \/ s = NbSetUl /\ \E k \in 0 .. 3 : fn = d + k /\ P = PageW("tx", k, fn)
  \/ s = RachSet /\ fn = d /\ P = PageW("rach", 0, fn)
  \/ s = ChkSet /\ fn = d /\ P = PageW("chk", 0, fn)

Suit(d, s, R, H, q, u, P, S, K) ==
  /\ q \in BOOLEAN /\ u \in BOOLEAN /\ P \in PagesW /\ S \in TestT /\ K \in HistT
  /\ MemeTest(S) /\ S.debut = test.debut /\ S.toa = test.toa /\ MemeHist(K, H)
  /\ DetSuit(d, s, R, S) /\ BlocsSuit(d, s, S) /\ PageSuit(d, s, P)

LEMMA OuiNon == Oui \in BOOLEAN /\ Non \in BOOLEAN /\ Oui /\ ~Non
BY DEF Oui, Non

\* The sets are told apart by their lengths and their first items.
LEMMA JeuxDistincts ==
  /\ FbSet # <<>> /\ SbSet # <<>> /\ NbSet # <<>> /\ NbSetUl # <<>> /\ RachSet # <<>> /\ ChkSet # <<>>
  /\ FbSet # SbSet /\ FbSet # NbSet /\ FbSet # NbSetUl /\ FbSet # RachSet /\ FbSet # ChkSet
  /\ SbSet # NbSet /\ SbSet # NbSetUl /\ SbSet # RachSet /\ SbSet # ChkSet
  /\ NbSet # RachSet /\ NbSet # ChkSet /\ NbSetUl # RachSet /\ NbSetUl # ChkSet /\ RachSet # ChkSet
<1>1. /\ Len(FbSet) = 14 /\ Len(SbSet) = 5 /\ Len(NbSet) = 6 /\ Len(NbSetUl) = 6 /\ Len(RachSet) = 3 /\ Len(ChkSet) = 1
      /\ Len(<<>>) = 0
  <2>1. Len(<<>>) = 0
    OBVIOUS
  <2> QED BY <2>1, FbFaits, SbFaits, NbFaits, NbUlFaits, RachFaits, ChkFaits, Zenon
<1>2. /\ Len(FbSet) # Len(<<>>) /\ Len(SbSet) # Len(<<>>) /\ Len(NbSet) # Len(<<>>) /\ Len(NbSetUl) # Len(<<>>)
      /\ Len(RachSet) # Len(<<>>) /\ Len(ChkSet) # Len(<<>>)
      /\ Len(FbSet) # Len(SbSet) /\ Len(FbSet) # Len(NbSet) /\ Len(FbSet) # Len(NbSetUl) /\ Len(FbSet) # Len(RachSet)
      /\ Len(FbSet) # Len(ChkSet) /\ Len(SbSet) # Len(NbSet) /\ Len(SbSet) # Len(NbSetUl) /\ Len(SbSet) # Len(RachSet)
      /\ Len(SbSet) # Len(ChkSet) /\ Len(NbSet) # Len(RachSet) /\ Len(NbSet) # Len(ChkSet) /\ Len(NbSetUl) # Len(RachSet)
      /\ Len(NbSetUl) # Len(ChkSet) /\ Len(RachSet) # Len(ChkSet)
  BY <1>1
<1> QED BY <1>2, Zenon

LEMMA BlocsDistincts == NbSet # NbSetUl
<1>1. NbSet[1] = <<Cmd("nb_cmd", 0)>> /\ NbSetUl[1] = <<CmdUl("tx_cmd", 0)>>
  BY NbFaits, NbUlFaits, Zenon
<1>2. Cmd("nb_cmd", 0).cb = "nb_cmd" /\ CmdUl("tx_cmd", 0).cb = "tx_cmd"
  <2>1. 0 \in 0 .. 12
    OBVIOUS
  <2> QED BY <2>1, CbsFaits, ItemCmd, ItemCmdUl
<1> DEFINE a == Cmd("nb_cmd", 0)
           b == CmdUl("tx_cmd", 0)
<1>3. a # b
  BY <1>2
<1> HIDE DEF a, b
<1>4. <<a>> # <<b>>
  BY <1>3
<1> QED BY <1>1, <1>4 DEF a, b

LEMMA EffetSuit ==
  ASSUME TypesBanc, NEW d \in Nat, NEW s, NEW c, c = Contenu(d, s, fn), s \in Jeux,
         NEW R \in RomT, NEW H \in HistT, NEW q, NEW u, NEW P, NEW S, NEW K, Effet(c, d, s, R, H, q, u, P, S, K)
  PROVE  Suit(d, s, R, H, q, u, P, S, K)
<1>0. fn \in Nat /\ api \in ApiT /\ test \in TestT /\ fn \in Int /\ d \in Int
  BY DEF TypesBanc
<1>a. "fb" \in Taches /\ "sb" \in Taches /\ "nb" \in Taches /\ "tx" \in Taches /\ "rach" \in Taches /\ "chk" \in Taches
  BY DEF Taches
<1>b. test.det \in -1 .. 1 /\ test.blocs \in Nat
  BY <1>0, TestChamps
<1>1. CASE EVide(c, H, q, u, P, S, K)
  <2>1. c = <<>> /\ q = Non /\ u = Non /\ P = VideW /\ S = test /\ K = H
    BY <1>1 DEF EVide
  <2>2. ~(s = FbSet /\ fn \in d + 2 .. d + 13)
    <3> SUFFICES ASSUME s = FbSet, fn \in d + 2 .. d + 13 PROVE FALSE
      OBVIOUS
    <3>1. fn - d + 1 \in 3 .. 14 /\ fn - d + 1 \in 1 .. 14
      BY <1>0
    <3>2. c = <<Resp("fb_resp", fn - d + 1 - 2)>>
      <4> DEFINE j == fn - d + 1
      <4>1. j \in 1 .. Len(FbSet) /\ j \in 3 .. 14
        BY <3>1, FbFaits
      <4>2. c = IF j \in 1 .. Len(FbSet) THEN FbSet[j] ELSE <<>>
        BY DEF Contenu
      <4> HIDE DEF j
      <4>3. c = <<Resp("fb_resp", j - 2)>>
        BY <4>1, <4>2, FbFaits, Zenon
      <4> QED BY <4>3 DEF j
    <3> DEFINE z == Resp("fb_resp", fn - d + 1 - 2)
    <3> HIDE DEF z
    <3>3. <<z>> # <<>>
      OBVIOUS
    <3> QED BY <2>1, <3>2, <3>3 DEF z
  <2>3. DetSuit(d, s, R, S)
    BY <2>1, <2>2, Zenon DEF DetSuit
  <2>4. MemeTest(S) /\ S.debut = test.debut /\ S.toa = test.toa /\ MemeHist(K, H)
    BY <2>1, MemeSoi DEF MemeDet
  <2> QED BY <1>0, <2>1, <2>3, <2>4, OuiNon, PageWType, Zenon DEF Suit, BlocsSuit, PageSuit
<1>2. CASE ECmd(d, s, H, q, u, P, S, K)
  <2>1. q = Oui /\ u = Non /\ S = test /\ K = H
    BY <1>2 DEF ECmd
  <2>2. PageSuit(d, s, P) /\ P \in PagesW
    <3>1. \A k \in 1 .. 2 : k \in 0 .. 3
      OBVIOUS
    <3>2. \A k \in 0 .. 1 : k \in 0 .. 3
      OBVIOUS
    <3>3. 0 \in 0 .. 3
      OBVIOUS
    <3>4. PageSuit(d, s, P)
      BY <1>2, <3>2, Zenon DEF ECmd, PageSuit
    <3>5. \A k \in 0 .. 3 : /\ PageW("fb", k, fn) \in PagesW /\ PageW("sb", k, fn) \in PagesW /\ PageW("nb", k, fn) \in PagesW
                            /\ PageW("rach", k, fn) \in PagesW /\ PageW("chk", k, fn) \in PagesW
      BY <1>0, <1>a, PageWType, Zenon
    <3>6. P \in PagesW
      BY <1>2, <3>1, <3>2, <3>3, <3>5, Zenon DEF ECmd
    <3> QED BY <3>4, <3>6
  <2>3. DetSuit(d, s, R, S)
    <3>1. s = FbSet => fn = d
      BY <1>2, JeuxDistincts, Zenon DEF ECmd
    <3>2. fn = d => ~(fn \in d + 2 .. d + 13)
      BY <1>0
    <3> QED BY <2>1, <3>1, <3>2, Zenon DEF DetSuit
  <2>4. MemeTest(S) /\ S.debut = test.debut /\ S.toa = test.toa /\ MemeHist(K, H)
    BY <2>1, MemeSoi DEF MemeDet
  <2> QED BY <1>0, <2>1, <2>2, <2>3, <2>4, OuiNon, Zenon DEF Suit, BlocsSuit
<1>3. CASE ETx(d, s, H, q, u, P, S, K)
  <2>1. PICK k \in 0 .. 3 : /\ fn = d + k /\ q = Oui /\ u = (IF k >= 2 THEN Oui ELSE Non) /\ P = PageW("tx", k, fn)
                            /\ S = TxNote(test, k) /\ K = H
    BY <1>3, Zenon DEF ETx
  <2>a. s = NbSetUl /\ s # FbSet
    BY <1>3, JeuxDistincts DEF ETx
  <2>2. /\ S \in TestT /\ MemeTest(S) /\ MemeDet(S) /\ S.blocs = (IF k = 0 THEN test.blocs + 1 ELSE test.blocs)
    BY <1>0, <2>1, TxNoteType
  <2>3. DetSuit(d, s, R, S)
    BY <2>a, <2>2, Zenon DEF DetSuit, MemeDet
  <2>4. BlocsSuit(d, s, S)
    BY <1>0, <2>1, <2>a, <2>2 DEF BlocsSuit
  <2>5. PageSuit(d, s, P)
    BY <2>1, <2>a, Zenon DEF PageSuit
  <2>6. P \in PagesW
    BY <1>0, <1>a, <2>1, PageWType, Zenon
  <2>7. u \in BOOLEAN /\ q \in BOOLEAN
    BY <2>1, OuiNon
  <2>8. S.debut = test.debut /\ S.toa = test.toa /\ MemeHist(K, H)
    BY <2>1, <2>2, MemeSoi DEF MemeDet
  <2>9. K \in HistT
    BY <2>1
  <2> QED BY <2>2, <2>3, <2>4, <2>5, <2>6, <2>7, <2>8, <2>9, Zenon DEF Suit
<1>4. CASE ERien(d, s, H, q, u, P, S, K)
  <2>1. q = Non /\ u = Oui /\ P = VideW /\ S = test /\ K = H /\ (s = NbSetUl \/ s = RachSet)
    BY <1>4, Zenon DEF ERien
  <2>a. s # FbSet
    BY <2>1, JeuxDistincts, Zenon
  <2>3. DetSuit(d, s, R, S)
    BY <2>1, <2>a, Zenon DEF DetSuit
  <2>4. MemeTest(S) /\ S.debut = test.debut /\ S.toa = test.toa /\ MemeHist(K, H)
    BY <2>1, MemeSoi DEF MemeDet
  <2> QED BY <1>0, <2>1, <2>3, <2>4, OuiNon, PageWType, Zenon DEF Suit, BlocsSuit, PageSuit
<1>5. CASE ESb(d, s, H, q, u, P, S, K)
  <2>1. PICK k \in 1 .. 2 : fn = d + k + 2 /\ q = Non /\ u = Oui /\ P = VideW /\ S = SbNote(test, k) /\ K = H
    BY <1>5, Zenon DEF ESb
  <2>a. s = SbSet /\ s # FbSet
    BY <1>5, JeuxDistincts DEF ESb
  <2>2. /\ S \in TestT /\ MemeTest(S) /\ MemeDet(S) /\ MemeBlocs(S)
    BY <1>0, <2>1, SbNoteType
  <2>3. DetSuit(d, s, R, S)
    BY <2>a, <2>2, Zenon DEF DetSuit, MemeDet
  <2>4. BlocsSuit(d, s, S)
    BY <2>2 DEF BlocsSuit, MemeBlocs
  <2>8. S.debut = test.debut /\ S.toa = test.toa /\ MemeHist(K, H)
    BY <2>1, <2>2, MemeSoi DEF MemeDet
  <2> QED BY <2>1, <2>2, <2>3, <2>4, <2>8, OuiNon, PageWType, Zenon DEF Suit, PageSuit
<1>6. CASE EFb(d, s, R, H, q, u, P, S, K)
  <2>1. PICK k \in 1 .. 12 : /\ fn = d + k + 1 /\ q = Non /\ u = Non /\ P = VideW /\ S = DetNote(test, k) /\ K = H
                             /\ ~(test.det = 0 /\ R.det)
    BY <1>6, Zenon DEF EFb
  <2>a. s = FbSet
    BY <1>6 DEF EFb
  <2>2. /\ S \in TestT /\ MemeTest(S) /\ MemeBlocs(S) /\ S.debut = test.debut /\ S.toa = test.toa
        /\ S.det = (IF test.det # 0 THEN test.det ELSE IF k = 12 THEN -1 ELSE 0)
    BY <1>0, <2>1, DetNoteType
  <2>b. fn \in d + 2 .. d + 13 /\ (k = 12 <=> fn = d + 13)
    BY <1>0, <2>1
  <2>3. DetSuit(d, s, R, S)
    <3>1. CASE test.det # 0
      BY <2>2, <3>1 DEF DetSuit
    <3>2. CASE test.det = 0
      <4>1. ~R.det
        BY <2>1, <3>2
      <4>2. S.det = (IF fn = d + 13 THEN -1 ELSE 0)
        BY <2>2, <2>b, <3>2
      <4> QED BY <2>a, <2>b, <3>2, <4>1, <4>2, Zenon DEF DetSuit
    <3> QED BY <3>1, <3>2
  <2>4. BlocsSuit(d, s, S)
    BY <2>2 DEF BlocsSuit, MemeBlocs
  <2>8. MemeHist(K, H) /\ K \in HistT
    BY <2>1, MemeSoi
  <2> QED BY <2>1, <2>2, <2>3, <2>4, <2>8, OuiNon, PageWType, Zenon DEF Suit, PageSuit
<1>7. CASE ENb(d, s, R, H, q, u, P, S, K)
  <2>1. PICK k \in 0 .. 3 :
        /\ fn = d + k + 2
        /\ IF k <= 1 THEN q = Oui /\ P = PageW("nb", k + 2, fn) ELSE q = Non /\ P = VideW
        /\ IF Lit(k) THEN u = Oui /\ K = Accepte(H) /\ S = (IF k = 3 THEN NbNote(R, test) ELSE test)
           ELSE u = Non /\ K = H /\ S = test
    BY <1>7, Zenon DEF ENb
  <2>a. s = NbSet /\ s # FbSet
    BY <1>7, JeuxDistincts DEF ENb
  <2>2. /\ S \in TestT /\ MemeTest(S) /\ MemeDet(S)
        /\ S.blocs = test.blocs \/ (k = 3 /\ S.blocs = test.blocs + 1)
    <3>1. CASE S = test
      BY <1>0, <3>1, MemeSoi
    <3>2. CASE S = NbNote(R, test) /\ k = 3
      BY <1>0, <3>2, NbNoteType
    <3> QED BY <2>1, <3>1, <3>2
  <2>3. DetSuit(d, s, R, S)
    BY <2>a, <2>2, Zenon DEF DetSuit, MemeDet
  <2>4. BlocsSuit(d, s, S)
    <3>1. k = 3 => fn = d + 5
      BY <1>0, <2>1
    <3> QED BY <2>a, <2>2, <3>1, Zenon DEF BlocsSuit
  <2>5. q \in BOOLEAN /\ u \in BOOLEAN
    BY <2>1, OuiNon
  <2>6. PageSuit(d, s, P) /\ P \in PagesW
    <3>1. CASE k <= 1
      <4> DEFINE l == k + 2
      <4>1. l \in 0 .. 3 /\ fn = d + l
        BY <1>0, <2>1, <3>1
      <4>2. P = PageW("nb", l, fn)
        BY <2>1, <3>1
      <4> HIDE DEF l
      <4>3. P \in PagesW
        BY <1>0, <1>a, <4>1, <4>2, PageWType, Zenon
      <4> QED BY <2>a, <4>1, <4>2, <4>3, Zenon DEF PageSuit
    <3>2. CASE ~(k <= 1)
      BY <2>1, <3>2, PageWType DEF PageSuit
    <3> QED BY <3>1, <3>2
  <2>7. K \in HistT /\ MemeHist(K, H)
    <3>1. CASE Lit(k)
      BY <1>0, <2>1, <3>1, AccepteType
    <3>2. CASE ~Lit(k)
      BY <2>1, <3>2, MemeSoi
    <3> QED BY <3>1, <3>2
  <2> QED BY <2>2, <2>3, <2>4, <2>5, <2>6, <2>7, Zenon DEF Suit, MemeDet
<1> QED BY <1>1, <1>2, <1>3, <1>4, <1>5, <1>6, <1>7, Zenon DEF Effet

\* A frame, in the terms of its W page: what the ROM has got, and the state before l1_sync.
Recue(pris) == IF api.irq /\ pris THEN api.W[api.page] ELSE VideW
RomA(cmd) == [rom EXCEPT !.debut = IF cmd.tache = "fb" THEN fn ELSE @]
HistA(pris) == [hist EXCEPT !.perdus = IF api.irq /\ ~pris THEN @ + 1 ELSE @,
                            !.its = IF api.irq /\ pris THEN @ + 1 ELSE @]
AvantL1(pris) == Etat(ApiDebut, tdma, RomA(Recue(pris)), test, HistA(pris))
Rate(cmd, fen, fcch) ==
  IF (RomA(cmd).debut # Aucun /\ Type(fn) = "F" /\ ~fcch) \/ (cmd.tache = "sb" /\ cmd.id = 1 /\ fen # "tot") THEN 1 ELSE 0
Recu(cmd, fen) == DansFenetre(Deposer(cmd, fen), cmd, fen)

ApresL1(b, pris, cmd, fen, fcch, residu) ==
  LET c == Rom(b, cmd, api.page, Recu(cmd, fen), fcch, residu)
  IN  /\ sch' = SchApres(Deposer(cmd, fen), cmd, fen)
      /\ api' = c.api /\ tdma' = c.tdma /\ rom' = c.rom
      /\ hist' = [BancUlCapturer(c.hist, cmd) EXCEPT !.rates = @ + Rate(cmd, fen, fcch)]
      /\ test' = [c.test EXCEPT !.reste = IF Arret(c.test) THEN 0 ELSE @ - 1]

ApresBrut(b, r, cmd, fen, fcch, residu) ==
  LET c == Rom(b, cmd, api.page, Recu(cmd, fen), fcch, residu)
  IN  /\ sch' = SchApres(Deposer(cmd, fen), cmd, fen)
      /\ api' = c.api /\ tdma' = c.tdma /\ rom' = c.rom
      /\ hist' = [BancUlCapturer(c.hist, cmd) EXCEPT !.rates = @ + IF (r.debut # Aucun /\ Type(fn) = "F" /\ ~fcch)
                                                                 \/ (cmd.tache = "sb" /\ cmd.id = 1 /\ fen # "tot") THEN 1 ELSE 0]
      /\ test' = [c.test EXCEPT !.reste = IF Arret(c.test) THEN 0 ELSE @ - 1]

LEMMA TrameForme ==
  ASSUME Trame
  PROVE  /\ test.reste > 0 /\ fn' = fn + 1
         /\ \E pris \in BOOLEAN :
              /\ ~pris => api.irq /\ hist.perdus < MaxPerdus
              /\ \E fen \in Fenetres(Recue(pris)), fcch \in {FALSE, RomA(Recue(pris)).debut # Aucun /\ Type(fn) = "F"}, residu \in Residus :
                   ApresL1(L1Sync(AvantL1(pris)), pris, Recue(pris), fen, fcch, residu)
<1>1. test.reste > 0 /\ fn' = fn + 1
  BY DEF Trame
<1>2. \E pris \in BOOLEAN :
        /\ ~pris => api.irq /\ hist.perdus < MaxPerdus
        /\ \E fen \in Fenetres(Recue(pris)), fcch \in {FALSE, AvantL1(pris).rom.debut # Aucun /\ Type(fn) = "F"}, residu \in Residus :
             ApresBrut(L1Sync(AvantL1(pris)), AvantL1(pris).rom, Recue(pris), fen, fcch, residu)
  BY Zenon DEF Trame, ApresBrut, Recue, AvantL1, ApiDebut, Etat, RomA, HistA, Recu
<1>3. PICK pris \in BOOLEAN :
        /\ ~pris => api.irq /\ hist.perdus < MaxPerdus
        /\ \E fen \in Fenetres(Recue(pris)), fcch \in {FALSE, AvantL1(pris).rom.debut # Aucun /\ Type(fn) = "F"}, residu \in Residus :
             ApresBrut(L1Sync(AvantL1(pris)), AvantL1(pris).rom, Recue(pris), fen, fcch, residu)
  BY <1>2, Zenon
<1>4. AvantL1(pris).rom = RomA(Recue(pris))
  BY DEF AvantL1, Etat
<1>5. PICK fen \in Fenetres(Recue(pris)), fcch \in {FALSE, RomA(Recue(pris)).debut # Aucun /\ Type(fn) = "F"}, residu \in Residus :
        ApresBrut(L1Sync(AvantL1(pris)), RomA(Recue(pris)), Recue(pris), fen, fcch, residu)
  BY <1>3, <1>4, Zenon
<1>6. ApresL1(L1Sync(AvantL1(pris)), pris, Recue(pris), fen, fcch, residu)
  BY <1>5, Zenon DEF ApresBrut, ApresL1, Rate
<1> QED BY <1>1, <1>3, <1>5, <1>6, Zenon

\* The ROM when the frame is over.
RomFin(R, cmd, fcch, residu) ==
  [det |-> R.det \/ fcch,
   toa |-> IF fcch THEN 23 + 1250 * (fn - R.debut) + residu ELSE R.toa,
   debut |-> IF R.debut # Aucun /\ (fcch \/ fn - R.debut >= 11) THEN Aucun ELSE R.debut,
   rx |-> IF cmd.tache = "nb" THEN [R.rx EXCEPT ![cmd.id] = fn] ELSE R.rx,
   acd |-> IF cmd.tache = "nb" /\ cmd.id = 3 THEN (IF cmd.tache = "nb" THEN [R.rx EXCEPT ![cmd.id] = fn] ELSE R.rx) ELSE R.acd]
Rep(cmd, recu) == PageR(cmd.tache, cmd.id, cmd.date, IF recu = Aucun THEN Aucun ELSE SbInfo(recu, Bsic))
Repond(cmd) == cmd.tache \in {"sb", "nb", "tx", "rach", "chk"}
RepR(X, cmd, recu) == IF Repond(cmd) THEN [X EXCEPT ![api.page] = Rep(cmd, recu)] ELSE X
FenFin(F, recu) == IF recu = Aucun THEN F ELSE F \cup {[sch |-> recu, le |-> fn]}
HistR(H, recu, fcch) == [H EXCEPT !.fenetres = FenFin(@, recu), !.fcch = IF fcch THEN fn ELSE @]

LEMMA RomForme ==
  ASSUME NEW A, NEW T, NEW R, NEW S, NEW H, NEW cmd, NEW recu, NEW fcch, NEW residu
  PROVE  Rom(Etat(A, T, R, S, H), cmd, api.page, recu, fcch, residu)
           = Etat([A EXCEPT !.R = RepR(@, cmd, recu)], T, RomFin(R, cmd, fcch, residu), S, HistR(H, recu, fcch))
<1> DEFINE e == Etat(A, T, R, S, H)
           R2 == RomFin(R, cmd, fcch, residu)
           X == RepR(A.R, cmd, recu)
           F == FenFin(H.fenetres, recu)
           g == IF fcch THEN fn ELSE H.fcch
<1>1. e.rom = R /\ e.api = A /\ e.hist = H
  BY DEF Etat
<1>2. Rom(e, cmd, api.page, recu, fcch, residu) = [e EXCEPT !.rom = R2, !.api.R = X, !.hist.fenetres = F, !.hist.fcch = g]
  <2> HIDE DEF e
  <2> QED BY <1>1 DEF Rom, RomFin, RepR, FenFin, Repond, Rep
<1> HIDE DEF e, R2, X, F, g
<1>3. [e EXCEPT !.rom = R2, !.api.R = X, !.hist.fenetres = F, !.hist.fcch = g]
        = [[[e EXCEPT !.rom = R2] EXCEPT !.api = [A EXCEPT !.R = X]] EXCEPT !.hist = [H EXCEPT !.fenetres = F, !.fcch = g]]
  BY <1>1
<1> DEFINE A2 == [A EXCEPT !.R = X]
           H2 == [H EXCEPT !.fenetres = F, !.fcch = g]
<1> HIDE DEF A2, H2
<1>4. [e EXCEPT !.rom = R2] = Etat(A, T, R2, S, H)
  BY DEF Etat, e
<1>5. [Etat(A, T, R2, S, H) EXCEPT !.api = A2] = Etat(A2, T, R2, S, H)
  BY DEF Etat
<1>6. [Etat(A2, T, R2, S, H) EXCEPT !.hist = H2] = Etat(A2, T, R2, S, H2)
  BY DEF Etat
<1>7. Rom(e, cmd, api.page, recu, fcch, residu) = Etat(A2, T, R2, S, H2)
  <2>1. [[e EXCEPT !.rom = R2] EXCEPT !.api = A2] = Etat(A2, T, R2, S, H)
    BY <1>4, <1>5
  <2>2. [[[e EXCEPT !.rom = R2] EXCEPT !.api = A2] EXCEPT !.hist = H2] = Etat(A2, T, R2, S, H2)
    BY <2>1, <1>6
  <2> QED BY <1>2, <1>3, <2>2 DEF A2, H2
<1>8. A2 = [A EXCEPT !.R = RepR(@, cmd, recu)] /\ H2 = HistR(H, recu, fcch)
  BY DEF A2, X, H2, F, g, HistR
<1> QED BY <1>7, <1>8 DEF e, R2

\* What l1_sync makes of the frame.

LEMMA AvantFaits ==
  ASSUME TypesBanc, NEW pris \in BOOLEAN
  PROVE  /\ Recue(pris) \in PagesW
         /\ RomA(Recue(pris)) \in RomT /\ RomA(Recue(pris)).det = rom.det /\ RomA(Recue(pris)).toa = rom.toa
         /\ RomA(Recue(pris)).debut = (IF Recue(pris).tache = "fb" THEN fn ELSE rom.debut)
         /\ RomA(Recue(pris)).rx = rom.rx /\ RomA(Recue(pris)).acd = rom.acd
         /\ HistA(pris) \in HistT
         /\ HistA(pris).agenda = hist.agenda /\ HistA(pris).fenetres = hist.fenetres /\ HistA(pris).fcch = hist.fcch
         /\ HistA(pris).emis = hist.emis /\ HistA(pris).accepte = hist.accepte /\ HistA(pris).rates = hist.rates
         /\ HistA(pris).perdus = (IF api.irq /\ ~pris THEN hist.perdus + 1 ELSE hist.perdus)
         /\ HistA(pris).its = (IF api.irq /\ pris THEN hist.its + 1 ELSE hist.its)
<1>1. Recue(pris) \in PagesW
  BY ApiChamps, PageWType DEF TypesBanc, Recue
<1>2. /\ RomA(Recue(pris)) \in RomT /\ RomA(Recue(pris)).det = rom.det /\ RomA(Recue(pris)).toa = rom.toa
      /\ RomA(Recue(pris)).debut = (IF Recue(pris).tache = "fb" THEN fn ELSE rom.debut)
      /\ RomA(Recue(pris)).rx = rom.rx /\ RomA(Recue(pris)).acd = rom.acd
  <2> DEFINE x == IF Recue(pris).tache = "fb" THEN fn ELSE rom.debut
  <2>1. x \in Trames
    BY DEF TypesBanc, RomT, Trames
  <2>2. RomA(Recue(pris)) = [rom EXCEPT !.debut = x]
    BY DEF RomA
  <2> HIDE DEF x
  <2>3. rom \in RomT
    BY DEF TypesBanc
  <2>4. /\ [rom EXCEPT !.debut = x] \in RomT /\ [rom EXCEPT !.debut = x].det = rom.det /\ [rom EXCEPT !.debut = x].toa = rom.toa
        /\ [rom EXCEPT !.debut = x].debut = x /\ [rom EXCEPT !.debut = x].rx = rom.rx /\ [rom EXCEPT !.debut = x].acd = rom.acd
    BY <2>1, <2>3 DEF RomT
  <2> QED BY <2>2, <2>4 DEF x
<1>3. /\ HistA(pris) \in HistT
      /\ HistA(pris).agenda = hist.agenda /\ HistA(pris).fenetres = hist.fenetres /\ HistA(pris).fcch = hist.fcch
      /\ HistA(pris).emis = hist.emis /\ HistA(pris).accepte = hist.accepte /\ HistA(pris).rates = hist.rates
      /\ HistA(pris).perdus = (IF api.irq /\ ~pris THEN hist.perdus + 1 ELSE hist.perdus)
      /\ HistA(pris).its = (IF api.irq /\ pris THEN hist.its + 1 ELSE hist.its)
  <2> DEFINE x == IF api.irq /\ ~pris THEN hist.perdus + 1 ELSE hist.perdus
             y == IF api.irq /\ pris THEN hist.its + 1 ELSE hist.its
  <2>1. x \in Nat /\ y \in Nat
    BY DEF TypesBanc, HistT
  <2>2. HistA(pris) = [hist EXCEPT !.perdus = x, !.its = y]
    BY DEF HistA
  <2> HIDE DEF x, y
  <2>3. hist \in HistT
    BY DEF TypesBanc
  <2>4. LET h == [hist EXCEPT !.perdus = x, !.its = y]
        IN  h \in HistT /\ h.agenda = hist.agenda /\ h.fenetres = hist.fenetres /\ h.fcch = hist.fcch /\ h.emis = hist.emis
            /\ h.accepte = hist.accepte /\ h.rates = hist.rates /\ h.perdus = x /\ h.its = y
    BY <2>1, <2>3 DEF HistT
  <2> QED BY <2>2, <2>4 DEF x, y
<1> QED BY <1>1, <1>2, <1>3

LEMMA ApiPoseType ==
  ASSUME api \in ApiT, NEW u \in BOOLEAN, NEW P \in PagesW
  PROVE  ApiPose(u, P) \in ApiT /\ ApiRemise(u, P) \in ApiT
<1> DEFINE V == [api.W EXCEPT ![api.w] = P]
<1>1. V \in [0 .. 1 -> PagesW]
  BY ApiChamps
<1> HIDE DEF V
<1>2. ApiPose(u, P) = ApiRec(api.w, api.r, u, api.page, Non, V, api.R) /\ ApiRemise(u, P) = ApiRec(0, 0, Non, 0, Non, V, api.R)
  BY DEF ApiPose, ApiRemise, ApiRec, Non, V
<1>3. ApiRec(api.w, api.r, u, api.page, Non, V, api.R) \in ApiT /\ ApiRec(0, 0, Non, 0, Non, V, api.R) \in ApiT
  BY <1>1, ApiChamps, OuiNon DEF ApiRec, ApiT
<1> QED BY <1>2, <1>3

\* l1_sync: the FB is found, or the items do what Effet says.
L1Forme(b, dr, A, T, R, S, K) ==
  b = Etat(ApiFin(A, dr), TdmaFin(T), R, S, HFin(K, T))
L1Calme(d, s, pris, dr, q, u, P, A, T, R, S, K) ==
  /\ A = ApiPose(u, P) /\ T = tdma /\ R = RomA(Recue(pris)) /\ dr = (q \/ test.nom = "idle")
  /\ Effet(Contenu(d, s, fn), d, s, R, HistA(pris), q, u, P, S, K)
L1Detecte(d, s, pris, dr, A, T, R, S, K) ==
  \E k : /\ Trouve(d, s, RomA(Recue(pris)), k) /\ dr = (test.nom = "idle")
         /\ A = ApiRemise(Non, VideW) /\ T = TdmaSchedReset(tdma) /\ R = [RomA(Recue(pris)) EXCEPT !.det = FALSE]
         /\ S = DetTrouve(RomA(Recue(pris)), test, k) /\ K = [HistA(pris) EXCEPT !.agenda = {x \in @ : x.date = fn}]

LEMMA L1Avant ==
  ASSUME TypesBanc, NEW d, NEW s, Anneau(tdma, hist.agenda, fn, d, s), NEW pris \in BOOLEAN
  PROVE  LET e0 == AvantL1(pris)
             c == Contenu(d, s, fn)
         IN  /\ e0.tdma.seau[e0.tdma.cur] = c /\ Ordre(c) = c /\ e0.test = test
             /\ EDebut(e0) = Pose(Non, VideW, tdma, RomA(Recue(pris)), test, HistA(pris))
<1> DEFINE e0 == AvantL1(pris)
           c == Contenu(d, s, fn)
           R == RomA(Recue(pris))
           H == HistA(pris)
<1>1. e0.tdma = tdma /\ e0.test = test
  BY DEF AvantL1, Etat
<1>2. tdma \in TdmaT /\ fn \in Nat /\ d \in Nat /\ s \in Jeux /\ api \in ApiT
  BY DEF TypesBanc, Anneau
<1>3. tdma.seau[tdma.cur] = c
  <2>1. 0 \in 0 .. Seaux - 1
    BY SeauxNat
  <2>2. Seau(tdma, 0) = tdma.cur
    <3>1. tdma.cur \in 0 .. Seaux - 1 /\ tdma.cur \in Int
      BY <1>2 DEF TdmaT
    <3>2. Seau(tdma, 0) = IF tdma.cur + 0 < Seaux THEN tdma.cur + 0 ELSE tdma.cur + 0 - Seaux
      BY <1>2, <2>1, SeauType
    <3> QED BY <3>1, <3>2, SeauxNat
  <2>3. tdma.seau[Seau(tdma, 0)] = Contenu(d, s, fn + 0)
    BY <2>1 DEF Anneau
  <2>4. fn + 0 = fn
    BY <1>2
  <2> QED BY <2>2, <2>3, <2>4
<1>4. Ordre(c) = c
  <2>1. fn \in Int
    BY <1>2
  <2> QED BY <1>2, <2>1, ContenuBref, OrdreBref
<1>5. EDebut(e0) = Pose(Non, VideW, tdma, R, test, H)
  <2>1. e0 = Etat(ApiDebut, tdma, R, test, H)
    BY DEF AvantL1
  <2> HIDE DEF e0, R, H
  <2> QED BY <1>2, <2>1, Debut
<1> QED BY <1>1, <1>3, <1>4, <1>5

LEMMA TrameL1 ==
  ASSUME TypesBanc, NEW d, NEW s, Anneau(tdma, hist.agenda, fn, d, s), NEW pris \in BOOLEAN
  PROVE  \E dr \in BOOLEAN, A \in ApiT, T \in TdmaT, R \in RomT, S \in TestT, K \in HistT :
           /\ L1Forme(L1Sync(AvantL1(pris)), dr, A, T, R, S, K)
           /\ \/ \E q, u, P : L1Calme(d, s, pris, dr, q, u, P, A, T, R, S, K)
              \/ L1Detecte(d, s, pris, dr, A, T, R, S, K)
<1> DEFINE e0 == AvantL1(pris)
           c == Contenu(d, s, fn)
           R0 == RomA(Recue(pris))
           H0 == HistA(pris)
<1>1. fn \in Nat /\ api \in ApiT /\ tdma \in TdmaT /\ test \in TestT /\ d \in Nat /\ s \in Jeux /\ R0 \in RomT /\ H0 \in HistT
  BY AvantFaits DEF TypesBanc, Anneau
<1>2. e0.tdma.seau[e0.tdma.cur] = c /\ Ordre(c) = c /\ e0.test = test /\ EDebut(e0) = Pose(Non, VideW, tdma, R0, test, H0)
  BY L1Avant
<1>3. Executer(EDebut(e0), Ordre(e0.tdma.seau[e0.tdma.cur])) = Joue(c, tdma, R0, H0)
  <2> HIDE DEF e0, c, R0, H0
  <2> QED BY <1>2 DEF Joue
<1>4. Drapeaux(e0) = (Drap(c) \/ test.nom = "idle")
  <2> HIDE DEF e0, c
  <2> QED BY <1>2 DEF Drap, Drapeaux
<1>5. Calme(c, d, s, tdma, R0, H0) \/ Detecte(c, d, s, tdma, R0, H0)
  <2> HIDE DEF R0, H0
  <2> QED BY <1>1, SeauJoue
<1>6. CASE Calme(c, d, s, tdma, R0, H0)
  <2>1. PICK u, P, S, K : Joue(c, tdma, R0, H0) = Pose(u, P, tdma, R0, S, K) /\ Effet(c, d, s, R0, H0, Drap(c), u, P, S, K)
    BY <1>6, Zenon DEF Calme
  <2>2. Suit(d, s, R0, H0, Drap(c), u, P, S, K)
    <3> HIDE DEF R0, H0
    <3> QED BY <1>1, <2>1, EffetSuit
  <2>3. Drap(c) \in BOOLEAN /\ u \in BOOLEAN /\ P \in PagesW /\ S \in TestT /\ K \in HistT
    BY <2>2, Zenon DEF Suit
  <2> DEFINE A == ApiPose(u, P)
             dr == Drap(c) \/ test.nom = "idle"
  <2>4. A \in ApiT /\ dr \in BOOLEAN
    BY <1>1, <2>3, ApiPoseType
  <2>5. Joue(c, tdma, R0, H0) = Etat(A, tdma, R0, S, K)
    BY <2>1 DEF Pose
  <2>6. L1Calme(d, s, pris, dr, Drap(c), u, P, A, tdma, R0, S, K)
    BY <2>1, Zenon DEF L1Calme
  <2>7. L1Sync(e0) = Etat(ApiFin(A, dr), TdmaFin(tdma), R0, S, HFin(K, tdma))
    <3>1. dr = Drapeaux(e0)
      BY <1>4
    <3> HIDE DEF e0, c, R0, H0, A, dr
    <3>2. Executer(EDebut(e0), Ordre(e0.tdma.seau[e0.tdma.cur])) = Etat(A, tdma, R0, S, K)
      BY <1>3, <2>5
    <3> QED BY <1>1, <2>3, <2>4, <3>1, <3>2, L1SyncFaits
  <2>8. L1Forme(L1Sync(AvantL1(pris)), dr, A, tdma, R0, S, K)
    BY <2>7 DEF L1Forme
  <2> HIDE DEF A, dr, R0
  <2> QED BY <1>1, <2>3, <2>4, <2>6, <2>8, Zenon
<1>7. CASE Detecte(c, d, s, tdma, R0, H0)
  <2>1. PICK k : /\ Trouve(d, s, R0, k) /\ Drap(c) = Non
                 /\ Joue(c, tdma, R0, H0) = Etat(ApiRemise(Non, VideW), TdmaSchedReset(tdma), [R0 EXCEPT !.det = FALSE],
                                    DetTrouve(R0, test, k), [H0 EXCEPT !.agenda = {x \in @ : x.date = fn}])
    BY <1>7, Zenon DEF Detecte
  <2> DEFINE A == ApiRemise(Non, VideW)
             T == TdmaSchedReset(tdma)
             R == [R0 EXCEPT !.det = FALSE]
             S == DetTrouve(R0, test, k)
             K == [H0 EXCEPT !.agenda = {x \in @ : x.date = fn}]
             dr == test.nom = "idle"
  <2>2. A \in ApiT /\ dr \in BOOLEAN
    BY <1>1, OuiNon, PageWType, ApiPoseType
  <2>3. T \in TdmaT
    BY <1>1, ResetFaits
  <2>4. R \in RomT
    <3> HIDE DEF R0
    <3> QED BY <1>1 DEF RomT
  <2>5. S \in TestT
    <3>1. k \in 1 .. 12
      BY <2>1, Zenon DEF Trouve
    <3> HIDE DEF R0
    <3> QED BY <1>1, <3>1, DetTrouveType
  <2>6. K \in HistT
    <3> HIDE DEF H0
    <3> DEFINE g == {x \in H0.agenda : x.date = fn}
    <3>1. g \in SUBSET [date : Nat, item : Items]
      BY <1>1 DEF HistT
    <3> HIDE DEF g
    <3>2. [H0 EXCEPT !.agenda = g] \in HistT
      BY <1>1, <3>1 DEF HistT
    <3> QED BY <3>2 DEF g
  <2>7. L1Detecte(d, s, pris, dr, A, T, R, S, K)
    BY <2>1, Zenon DEF L1Detecte
  <2>8. dr = Drapeaux(e0)
    BY <1>4, <2>1, OuiNon
  <2>9. Executer(EDebut(e0), Ordre(e0.tdma.seau[e0.tdma.cur])) = Etat(A, T, R, S, K)
    BY <1>3, <2>1
  <2> HIDE DEF e0, A, T, R, S, K, dr
  <2>10. L1Sync(e0) = Etat(ApiFin(A, dr), TdmaFin(T), R, S, HFin(K, T))
    BY <2>2, <2>3, <2>6, <2>8, <2>9, L1SyncFaits
  <2>11. L1Forme(L1Sync(AvantL1(pris)), dr, A, T, R, S, K)
    BY <2>10 DEF L1Forme, e0
  <2> QED BY <2>2, <2>3, <2>4, <2>5, <2>6, <2>7, <2>11, Zenon
<1> QED BY <1>5, <1>6, <1>7

ApiApres(A, dr, cmd, fen) == [ApiFin(A, dr) EXCEPT !.R = RepR(@, cmd, Recu(cmd, fen))]
TestApres(S) == [S EXCEPT !.reste = IF Arret(S) THEN 0 ELSE @ - 1]
HistApres(K, T, cmd, fen, fcch) ==
  [BancUlCapturer(HistR(HFin(K, T), Recu(cmd, fen), fcch), cmd) EXCEPT !.rates = @ + Rate(cmd, fen, fcch)]

Finit(cmd, fen, fcch, residu, dr, A, T, R, S, K) ==
  /\ sch' = SchApres(Deposer(cmd, fen), cmd, fen)
  /\ api' = ApiApres(A, dr, cmd, fen) /\ tdma' = TdmaFin(T) /\ rom' = RomFin(R, cmd, fcch, residu)
  /\ test' = TestApres(S) /\ hist' = HistApres(K, T, cmd, fen, fcch)

LEMMA ApresForme ==
  ASSUME NEW dr, NEW A, NEW T, NEW R, NEW S, NEW K, NEW b, L1Forme(b, dr, A, T, R, S, K),
         NEW pris, NEW cmd, NEW fen, NEW fcch, NEW residu, ApresL1(b, pris, cmd, fen, fcch, residu)
  PROVE  Finit(cmd, fen, fcch, residu, dr, A, T, R, S, K)
<1> DEFINE c == Rom(b, cmd, api.page, Recu(cmd, fen), fcch, residu)
           A2 == ApiFin(A, dr)
           T2 == TdmaFin(T)
           H2 == HFin(K, T)
<1>1. c = Etat([A2 EXCEPT !.R = RepR(@, cmd, Recu(cmd, fen))], T2, RomFin(R, cmd, fcch, residu), S, HistR(H2, Recu(cmd, fen), fcch))
  BY RomForme DEF L1Forme
<1> DEFINE A3 == [A2 EXCEPT !.R = RepR(@, cmd, Recu(cmd, fen))]
           R3 == RomFin(R, cmd, fcch, residu)
           H3 == HistR(H2, Recu(cmd, fen), fcch)
<1>2. c = Etat(A3, T2, R3, S, H3)
  BY <1>1
<1>3. /\ sch' = SchApres(Deposer(cmd, fen), cmd, fen)
      /\ api' = c.api /\ tdma' = c.tdma /\ rom' = c.rom
      /\ hist' = [BancUlCapturer(c.hist, cmd) EXCEPT !.rates = @ + Rate(cmd, fen, fcch)]
      /\ test' = [c.test EXCEPT !.reste = IF Arret(c.test) THEN 0 ELSE @ - 1]
  BY Zenon DEF ApresL1
<1> HIDE DEF c, A2, T2, H2, A3, R3, H3
<1>4. c.api = A3 /\ c.tdma = T2 /\ c.rom = R3 /\ c.test = S /\ c.hist = H3
  BY <1>2 DEF Etat
<1>5. /\ sch' = SchApres(Deposer(cmd, fen), cmd, fen)
      /\ api' = A3 /\ tdma' = T2 /\ rom' = R3
      /\ hist' = [BancUlCapturer(H3, cmd) EXCEPT !.rates = @ + Rate(cmd, fen, fcch)]
      /\ test' = [S EXCEPT !.reste = IF Arret(S) THEN 0 ELSE @ - 1]
  BY <1>3, <1>4
<1> QED BY <1>5, Zenon DEF Finit, ApiApres, TestApres, HistApres, A2, T2, H2, A3, R3, H3

\* A frame, whole.
CasTrame(d, s) ==
  \E pris \in BOOLEAN, dr \in BOOLEAN, fcch \in BOOLEAN, residu \in Residus, A \in ApiT, T \in TdmaT, R \in RomT,
     S \in TestT, K \in HistT : \E fen \in Fenetres(Recue(pris)) :
    /\ ~pris => api.irq /\ hist.perdus < MaxPerdus
    /\ fcch => RomA(Recue(pris)).debut # Aucun /\ Type(fn) = "F"
    /\ \/ \E q, u, P : L1Calme(d, s, pris, dr, q, u, P, A, T, R, S, K)
       \/ L1Detecte(d, s, pris, dr, A, T, R, S, K)
    /\ Finit(Recue(pris), fen, fcch, residu, dr, A, T, R, S, K)

LEMMA TrameFaits ==
  ASSUME TypesBanc, NEW d, NEW s, Anneau(tdma, hist.agenda, fn, d, s), Trame
  PROVE  test.reste > 0 /\ fn' = fn + 1 /\ CasTrame(d, s)
<1>1. test.reste > 0 /\ fn' = fn + 1
  BY TrameForme
<1>2. PICK pris \in BOOLEAN :
              /\ ~pris => api.irq /\ hist.perdus < MaxPerdus
              /\ \E fen \in Fenetres(Recue(pris)), fcch \in {FALSE, RomA(Recue(pris)).debut # Aucun /\ Type(fn) = "F"}, residu \in Residus :
                   ApresL1(L1Sync(AvantL1(pris)), pris, Recue(pris), fen, fcch, residu)
  BY TrameForme
<1>3. PICK fen \in Fenetres(Recue(pris)), fcch \in {FALSE, RomA(Recue(pris)).debut # Aucun /\ Type(fn) = "F"}, residu \in Residus :
        ApresL1(L1Sync(AvantL1(pris)), pris, Recue(pris), fen, fcch, residu)
  BY <1>2, Zenon
<1>4. fcch \in BOOLEAN /\ (fcch => RomA(Recue(pris)).debut # Aucun /\ Type(fn) = "F")
  BY <1>3
<1>5. PICK dr \in BOOLEAN, A \in ApiT, T \in TdmaT, R \in RomT, S \in TestT, K \in HistT :
           /\ L1Forme(L1Sync(AvantL1(pris)), dr, A, T, R, S, K)
           /\ \/ \E q, u, P : L1Calme(d, s, pris, dr, q, u, P, A, T, R, S, K)
              \/ L1Detecte(d, s, pris, dr, A, T, R, S, K)
  BY TrameL1, Zenon
<1>6. Finit(Recue(pris), fen, fcch, residu, dr, A, T, R, S, K)
  BY <1>3, <1>5, ApresForme, Zenon
<1>7. CasTrame(d, s)
  BY <1>2, <1>4, <1>5, <1>6, Zenon DEF CasTrame
<1> QED BY <1>1, <1>7

-----------------------------------------------------------------------------
(* Types of the next state.                                                *)

LEMMA SbInfoNat ==
  ASSUME NEW f \in Nat
  PROVE  SbInfo(f, Bsic) \in Nat
<1> DEFINE t1 == f \div 1326
           t2 == f % 26
           t3 == f % 51
           t3p == IF t3 = 0 THEN 0 ELSE (t3 - 1) \div 10
           o0 == Bsic * 4 + ((t1 \div 512) % 4)
           o1 == (t1 \div 2) % 256
           o2 == (t1 % 2) * 128 + t2 * 4 + (t3p \div 2)
           o3 == t3p % 2
<1>1. t1 \in Nat /\ t2 \in Nat /\ t3 \in Nat /\ Bsic \in Nat
  BY BancAssumption
<1> HIDE DEF t1, t2, t3
<1>2. t3p \in Nat
  BY <1>1
<1> HIDE DEF t3p
<1>3. (t1 \div 512) % 4 \in Nat /\ o1 \in Nat /\ t1 % 2 \in Nat /\ t3p \div 2 \in Nat /\ o3 \in Nat
  BY <1>1, <1>2
<1>4. o0 \in Nat /\ o2 \in Nat
  BY <1>1, <1>3
<1> HIDE DEF o0, o1, o2, o3
<1>5. o0 + 256 * o1 + 65536 * o2 + 16777216 * o3 \in Nat
  BY <1>3, <1>4
<1> QED BY <1>5 DEF SbInfo, o0, o1, o2, o3, t1, t2, t3, t3p

LEMMA RecuType ==
  ASSUME TypesBanc, NEW cmd, NEW fen
  PROVE  /\ Recu(cmd, fen) \in Trames /\ (Recu(cmd, fen) # Aucun => Recu(cmd, fen) \in Nat)
         /\ Deposer(cmd, fen) \in SchT /\ SchApres(Deposer(cmd, fen), cmd, fen) \in SchT
<1> DEFINE s == Deposer(cmd, fen)
           l == cmd.tache = "sb" /\ fen = "tot"
<1>1. fn \in Nat /\ sch \in SchT /\ l \in BOOLEAN
  BY DEF TypesBanc
<1>2. s \in SchT
  <2> HIDE DEF l
  <2>1. [fn |-> fn, valide |-> Oui, livre |-> l] \in SchT
    BY <1>1, OuiNon DEF SchT
  <2>2. s = IF Type(fn) # "S" THEN sch ELSE [fn |-> fn, valide |-> Oui, livre |-> l]
    BY DEF Deposer, l, Oui
  <2> QED BY <1>1, <2>1, <2>2
<1>3. Recu(cmd, fen) = DansFenetre(s, cmd, fen)
  BY DEF Recu
<1> HIDE DEF s
<1>4. s.fn \in Nat
  BY <1>2 DEF SchT
<1>5. DansFenetre(s, cmd, fen) \in {s.fn, fn, Aucun}
  BY DEF DansFenetre
<1>6. SchApres(s, cmd, fen) \in SchT
  <2>1. SchApres(s, cmd, fen) \in {[s EXCEPT !.valide = FALSE], [s EXCEPT !.livre = TRUE], s}
    BY DEF SchApres
  <2>2. [s EXCEPT !.valide = FALSE] \in SchT /\ [s EXCEPT !.livre = TRUE] \in SchT
    BY <1>2 DEF SchT
  <2> QED BY <1>2, <2>1, <2>2
<1>7. -1 \notin Nat
  OBVIOUS
<1> QED BY <1>1, <1>2, <1>3, <1>4, <1>5, <1>6, <1>7 DEF Trames, Aucun, s

EmisFin(E, cmd) == IF cmd.tache \in {"tx", "rach"} THEN E \cup {[id |-> cmd.id, fn |-> fn]} ELSE E

RVide(A) == IF A.used THEN [A.R EXCEPT ![A.r] = VideR] ELSE A.R

RFin(A, cmd, recu) == RepR(RVide(A), cmd, recu)

LEMMA ApiFinType ==
  ASSUME NEW A \in ApiT, NEW dr \in BOOLEAN
  PROVE  LET F == ApiFin(A, dr)
         IN  /\ F \in ApiT /\ F.w = (IF dr THEN 1 - A.w ELSE A.w) /\ F.r = (IF A.used THEN 1 - A.r ELSE A.r)
             /\ F.used = A.used /\ F.page = (IF dr THEN A.w ELSE A.page) /\ F.irq = (A.irq \/ dr) /\ F.W = A.W
             /\ F.R = RVide(A)
<1>1. /\ A.w \in 0 .. 1 /\ A.r \in 0 .. 1 /\ A.page \in 0 .. 1 /\ A.irq \in BOOLEAN /\ A.used \in BOOLEAN
      /\ A.W \in [0 .. 1 -> PagesW] /\ A.R \in [0 .. 1 -> PagesR]
  BY DEF ApiT
<1>2. VideR \in PagesR
  BY DEF VideR, PageR, PagesR, Taches, Trames, Aucun
<1> DEFINE w == IF dr THEN 1 - A.w ELSE A.w
           r == IF A.used THEN 1 - A.r ELSE A.r
           p == IF dr THEN A.w ELSE A.page
           q == A.irq \/ dr
           X == IF A.used THEN [A.R EXCEPT ![A.r] = VideR] ELSE A.R
           F == ApiRec(w, r, A.used, p, q, A.W, X)
<1>3. w \in 0 .. 1 /\ r \in 0 .. 1 /\ p \in 0 .. 1 /\ q \in BOOLEAN
  BY <1>1
<1>4. X \in [0 .. 1 -> PagesR]
  BY <1>1, <1>2
<1>5. ApiFin(A, dr) = F
  BY DEF ApiFin, ApiRec
<1> HIDE DEF w, r, p, q, X
<1>6. F \in ApiT /\ F.w = w /\ F.r = r /\ F.used = A.used /\ F.page = p /\ F.irq = q /\ F.W = A.W /\ F.R = X
  BY <1>1, <1>3, <1>4 DEF ApiRec, ApiT
<1> QED BY <1>5, <1>6 DEF w, r, p, q, X, RVide

\* What a frame makes of the pages, and of the history.
ApiEst(B, A, dr, R) ==
  /\ B \in ApiT /\ B.w = (IF dr THEN 1 - A.w ELSE A.w) /\ B.r = (IF A.used THEN 1 - A.r ELSE A.r)
  /\ B.used = A.used /\ B.page = (IF dr THEN A.w ELSE A.page) /\ B.irq = (A.irq \/ dr) /\ B.W = A.W /\ B.R = R
HistEst(h, K, agenda, recu, cmd, fen, fcch) ==
  /\ h \in HistT /\ h.agenda = agenda /\ h.fenetres = FenFin(K.fenetres, recu)
  /\ h.fcch = (IF fcch THEN fn ELSE K.fcch) /\ h.emis = EmisFin(K.emis, cmd) /\ h.accepte = K.accepte
  /\ h.perdus = K.perdus /\ h.its = K.its /\ h.rates = K.rates + Rate(cmd, fen, fcch)

LEMMA FinApi ==
  ASSUME TypesBanc, NEW cmd \in PagesW, NEW fen, NEW dr \in BOOLEAN, NEW A \in ApiT
  PROVE  ApiEst(ApiApres(A, dr, cmd, fen), A, dr, RFin(A, cmd, Recu(cmd, fen)))
<1> DEFINE F == ApiFin(A, dr)
           recu == Recu(cmd, fen)
           X == RepR(F.R, cmd, recu)
<1>1. ApiApres(A, dr, cmd, fen) = [F EXCEPT !.R = X]
  BY DEF ApiApres
<1>2. /\ F \in ApiT /\ F.w = (IF dr THEN 1 - A.w ELSE A.w) /\ F.r = (IF A.used THEN 1 - A.r ELSE A.r)
      /\ F.used = A.used /\ F.page = (IF dr THEN A.w ELSE A.page) /\ F.irq = (A.irq \/ dr) /\ F.W = A.W
      /\ F.R = RVide(A)
  BY ApiFinType
<1>3. recu \in Trames /\ (recu # Aucun => recu \in Nat)
  BY RecuType
<1>4. X = RFin(A, cmd, recu)
  <2> HIDE DEF F, recu
  <2> QED BY <1>2 DEF RFin
<1>5. X \in [0 .. 1 -> PagesR]
  <2>1. Rep(cmd, recu) \in PagesR
    <3> DEFINE x == IF recu = Aucun THEN Aucun ELSE SbInfo(recu, Bsic)
    <3>1. x \in Trames
      <4> HIDE DEF recu
      <4> QED BY <1>3, SbInfoNat DEF Trames
    <3>2. cmd.tache \in Taches /\ cmd.id \in 0 .. 3 /\ cmd.date \in Trames
      BY DEF PagesW
    <3>3. Rep(cmd, recu) = [tache |-> cmd.tache, id |-> cmd.id, date |-> cmd.date, sb |-> x]
      BY DEF Rep, PageR
    <3> HIDE DEF x, recu
    <3> QED BY <3>1, <3>2, <3>3 DEF PagesR
  <2>2. F.R \in [0 .. 1 -> PagesR]
    <3> HIDE DEF F
    <3> QED BY <1>2 DEF ApiT
  <2> HIDE DEF F, recu
  <2> QED BY <2>1, <2>2 DEF RepR
<1> HIDE DEF F, X
<1>6. LET B == [F EXCEPT !.R = X]
      IN  B \in ApiT /\ B.w = F.w /\ B.r = F.r /\ B.used = F.used /\ B.page = F.page /\ B.irq = F.irq /\ B.W = F.W /\ B.R = X
  BY <1>2, <1>5 DEF ApiT
<1> QED BY <1>1, <1>2, <1>4, <1>6 DEF ApiEst

RxFin(R, cmd) == IF cmd.tache = "nb" THEN [R.rx EXCEPT ![cmd.id] = fn] ELSE R.rx

LEMMA ResidusEntiers == Residus \subseteq Int
BY BancAssumption

LEMMA FinRom ==
  ASSUME fn \in Nat, NEW cmd \in PagesW, NEW fcch \in BOOLEAN, NEW residu \in Residus, NEW R \in RomT
  PROVE  LET F == RomFin(R, cmd, fcch, residu)
         IN  /\ F \in RomT /\ F.det = (R.det \/ fcch)
             /\ F.toa = (IF fcch THEN 23 + 1250 * (fn - R.debut) + residu ELSE R.toa)
             /\ F.debut = (IF R.debut # Aucun /\ (fcch \/ fn - R.debut >= 11) THEN Aucun ELSE R.debut)
             /\ F.acd = (IF cmd.tache = "nb" /\ cmd.id = 3 THEN F.rx ELSE R.acd)
             /\ F.rx = RxFin(R, cmd)
<1>1. R.det \in BOOLEAN /\ R.toa \in Int /\ R.debut \in Trames /\ R.rx \in [0 .. 3 -> Trames] /\ R.acd \in [0 .. 3 -> Trames]
  BY DEF RomT
<1>2. R.debut \in Int /\ fn \in Nat /\ residu \in Int
  BY <1>1, ResidusEntiers DEF Trames, Aucun
<1> DEFINE det == R.det \/ fcch
           toa == IF fcch THEN 23 + 1250 * (fn - R.debut) + residu ELSE R.toa
           deb == IF R.debut # Aucun /\ (fcch \/ fn - R.debut >= 11) THEN Aucun ELSE R.debut
           rx == IF cmd.tache = "nb" THEN [R.rx EXCEPT ![cmd.id] = fn] ELSE R.rx
           acd == IF cmd.tache = "nb" /\ cmd.id = 3 THEN rx ELSE R.acd
<1>3. det \in BOOLEAN /\ toa \in Int /\ deb \in Trames
  BY <1>1, <1>2 DEF Trames
<1>4. rx \in [0 .. 3 -> Trames]
  BY <1>1, <1>2 DEF Trames
<1>5. acd \in [0 .. 3 -> Trames]
  <2> HIDE DEF rx
  <2> QED BY <1>1, <1>4
<1>6. RomFin(R, cmd, fcch, residu) = [det |-> det, toa |-> toa, debut |-> deb, rx |-> rx, acd |-> acd]
  BY DEF RomFin
<1> HIDE DEF det, toa, deb, rx, acd
<1>7. LET F == RomFin(R, cmd, fcch, residu) IN F \in RomT /\ F.det = det /\ F.toa = toa /\ F.debut = deb /\ F.rx = rx /\ F.acd = acd
  BY <1>3, <1>4, <1>5, <1>6 DEF RomT
<1>8. RxFin(R, cmd) = rx
  BY DEF RxFin, rx
<1> QED BY <1>7, <1>8 DEF det, toa, deb, acd, RxFin, rx

LEMMA FinTest ==
  ASSUME NEW S \in TestT, S.reste > 0
  PROVE  LET t == TestApres(S)
         IN  /\ t \in TestT /\ t.reste = (IF Arret(S) THEN 0 ELSE S.reste - 1)
             /\ t.nom = S.nom /\ t.pas = S.pas /\ t.essai = S.essai /\ t.det = S.det /\ t.debut = S.debut
             /\ t.toa = S.toa /\ t.vise = S.vise /\ t.deduit = S.deduit /\ t.sb = S.sb /\ t.blocs = S.blocs
             /\ t.justes = S.justes /\ t.faux = S.faux /\ t.fnCmd = S.fnCmd /\ t.verdict = S.verdict
<1> DEFINE x == IF Arret(S) THEN 0 ELSE S.reste - 1
<1>1. x \in Nat
  BY TestChamps
<1>2. TestApres(S) = [S EXCEPT !.reste = x]
  BY DEF TestApres
<1> HIDE DEF x
<1>3. LET t == [S EXCEPT !.reste = x]
      IN /\ t \in TestT /\ t.reste = x
         /\ t.nom = S.nom /\ t.pas = S.pas /\ t.essai = S.essai /\ t.det = S.det /\ t.debut = S.debut
         /\ t.toa = S.toa /\ t.vise = S.vise /\ t.deduit = S.deduit /\ t.sb = S.sb /\ t.blocs = S.blocs
         /\ t.justes = S.justes /\ t.faux = S.faux /\ t.fnCmd = S.fnCmd /\ t.verdict = S.verdict
  BY <1>1 DEF TestT
<1> QED BY <1>2, <1>3 DEF x

LEMMA FinHist ==
  ASSUME TypesBanc, NEW cmd \in PagesW, NEW fen, NEW fcch \in BOOLEAN, NEW T, NEW K \in HistT,
         AgendaFin(T, K.agenda) \in SUBSET [date : Nat, item : Items]
  PROVE  HistEst(HistApres(K, T, cmd, fen, fcch), K, AgendaFin(T, K.agenda), Recu(cmd, fen), cmd, fen, fcch)
<1> DEFINE ag == AgendaFin(T, K.agenda)
           fe == FenFin(K.fenetres, Recu(cmd, fen))
           fc == IF fcch THEN fn ELSE K.fcch
           em == EmisFin(K.emis, cmd)
           ra == K.rates + Rate(cmd, fen, fcch)
           recu == Recu(cmd, fen)
<1>1. /\ K.fenetres \in SUBSET [sch : Nat, le : Nat] /\ K.fcch \in Trames /\ K.emis \in SUBSET Emissions /\ K.rates \in Nat
  BY DEF HistT
<1>2. fn \in Nat
  BY DEF TypesBanc
<1>3. fe \in SUBSET [sch : Nat, le : Nat]
  <2>1. recu # Aucun => recu \in Nat
    BY RecuType
  <2> HIDE DEF recu
  <2>2. FenFin(K.fenetres, recu) \in SUBSET [sch : Nat, le : Nat]
    BY <1>1, <1>2, <2>1 DEF FenFin
  <2> QED BY <2>2 DEF recu
<1>4. fc \in Trames
  BY <1>1, <1>2 DEF Trames
<1>5. em \in SUBSET Emissions
  <2>1. [id |-> cmd.id, fn |-> fn] \in Emissions
    BY <1>2 DEF Emissions, PagesW
  <2> QED BY <1>1, <2>1 DEF EmisFin
<1>6. ra \in Nat
  <2>1. Rate(cmd, fen, fcch) \in {0, 1}
    BY DEF Rate
  <2> HIDE DEF recu
  <2> QED BY <1>1, <2>1
<1> DEFINE h1 == HFin(K, T)
           h2 == HistR(h1, recu, fcch)
           h3 == BancUlCapturer(h2, cmd)
<1>7. HistApres(K, T, cmd, fen, fcch) = [h3 EXCEPT !.rates = @ + Rate(cmd, fen, fcch)]
  BY DEF HistApres
<1>8. h1 = [K EXCEPT !.agenda = ag]
  BY DEF HFin
<1>9. h2 = [h1 EXCEPT !.fenetres = fe, !.fcch = fc]
  <2>1. h1.fenetres = K.fenetres /\ h1.fcch = K.fcch
    <3> HIDE DEF h1, ag
    <3> QED BY <1>8 DEF HistT
  <2> HIDE DEF h1, recu
  <2> QED BY <2>1 DEF HistR, recu
<1>10. h3 = [h2 EXCEPT !.emis = em]
  <2>1. h2.emis = K.emis /\ h2 = [h2 EXCEPT !.emis = K.emis]
    <3> HIDE DEF h1, ag, h2, fe, fc
    <3> QED BY <1>8, <1>9 DEF HistT
  <2> HIDE DEF h2
  <2> QED BY <2>1 DEF BancUlCapturer, EmisFin
<1>11. h3.rates = K.rates
  <2> HIDE DEF h1, h2, h3, ag, fe, fc, em, recu
  <2> QED BY <1>8, <1>9, <1>10 DEF HistT
<1>12. HistApres(K, T, cmd, fen, fcch) = [h3 EXCEPT !.rates = ra]
  BY <1>7, <1>11
<1> DEFINE k == [K EXCEPT !.agenda = ag, !.fenetres = fe, !.fcch = fc, !.emis = em, !.rates = ra]
<1>13. HistApres(K, T, cmd, fen, fcch) = k
  <2> HIDE DEF h1, h2, h3, ag, fe, fc, em, ra, recu
  <2> QED BY <1>8, <1>9, <1>10, <1>12 DEF HistT
<1>14. ag \in SUBSET [date : Nat, item : Items]
  OBVIOUS
<1> HIDE DEF ag, fe, fc, em, ra
<1>15. /\ k \in HistT /\ k.agenda = ag /\ k.fenetres = fe /\ k.fcch = fc /\ k.emis = em /\ k.accepte = K.accepte
       /\ k.perdus = K.perdus /\ k.its = K.its /\ k.rates = ra
  BY <1>3, <1>4, <1>5, <1>6, <1>14 DEF HistT
<1>16. HistEst(k, K, ag, recu, cmd, fen, fcch)
  BY <1>15 DEF HistEst, fe, fc, em, ra, recu
<1> QED BY <1>13, <1>16 DEF ag, recu

\* The calendar of a ring, and the ring at the end of a frame.
LEMMA AgendaType ==
  ASSUME NEW t, NEW g, NEW f \in Nat, NEW d, NEW s, Anneau(t, g, f, d, s)
  PROVE  g \in SUBSET [date : Nat, item : Items]
<1>1. d \in Nat /\ s \in Jeux /\ Len(s) \in Nat /\ g = {x \in Dates(d, s) : x.date >= f}
  BY JeuxFaits DEF Anneau
<1>2. ASSUME NEW x \in Dates(d, s) PROVE x \in [date : Nat, item : Items]
  <2>1. x.date \in d .. d + Len(s) - 1 /\ x = [date |-> x.date, item |-> x.item] /\ x.item \in Items
    BY <1>1, DatesFaits
  <2>2. x.date \in Nat
    BY <1>1, <2>1
  <2> QED BY <2>1, <2>2
<1> QED BY <1>1, <1>2

LEMMA FinSansBloc ==
  ASSUME fn \in Nat, NEW t \in TdmaT, NEW g, NEW d, NEW s, Anneau(t, g, fn, d, s), ~MfDu(t)
  PROVE  TdmaFin(t) \in TdmaT /\ TdmaFin(t).mf = t.mf /\ Anneau(TdmaFin(t), AgendaFin(t, g), fn + 1, d, s)
<1>1. TdmaFin(t) = Avancer(Vider(t)) /\ AgendaFin(t, g) = {x \in g : x.date > fn}
  BY DEF TdmaFin, AgendaFin
<1>2. Vider(t) \in TdmaT /\ Vider(t).mf = t.mf
  BY ViderFaits
<1>3. Avancer(Vider(t)) \in TdmaT /\ Avancer(Vider(t)).mf = t.mf
  BY <1>2, AvancerFaits
<1>4. Anneau(Avancer(Vider(t)), {x \in g : x.date > fn}, fn + 1, d, s)
  BY AnneauAvance
<1> QED BY <1>1, <1>3, <1>4

LEMMA FinAvecBloc ==
  ASSUME fn \in Nat, NEW t \in TdmaT, NEW g, NEW d, NEW s, Anneau(t, g, fn, d, s), Passe(fn, d, s), MfDu(t), Len(t.mf.set) <= 13
  PROVE  TdmaFin(t) \in TdmaT /\ TdmaFin(t).mf = t.mf /\ Anneau(TdmaFin(t), AgendaFin(t, g), fn + 1, fn + 1, t.mf.set)
<1> DEFINE u == TdmaScheduleSet(t, 1, t.mf.set)
           h == g \cup Dates(fn + 1, t.mf.set)
<1>0. t.cur \in 0 .. Seaux - 1 /\ t.mf.set \in Jeux /\ Len(t.mf.set) \in Nat
  BY JeuxFaits DEF TdmaT
<1>1. t.seau[t.cur] = <<>>
  BY <1>0, AnneauVideSeau
<1>2. TdmaFin(t) = Avancer(u) /\ AgendaFin(t, g) = {x \in h : x.date > fn}
  BY <1>1, ViderVide DEF TdmaFin, AgendaFin
<1>3. 1 \in Nat /\ 1 + Len(t.mf.set) <= Seaux
  BY <1>0, SeauxNat
<1>4. u \in TdmaT /\ u.cur = t.cur /\ u.mf = t.mf /\ Anneau(u, h, fn, fn + 1, t.mf.set)
  BY <1>0, <1>3, AnneauPose
<1> HIDE DEF u, h
<1>5. u.seau[u.cur] = <<>>
  <2>1. 0 \in 0 .. Seaux - 1 /\ u.cur \in 0 .. Seaux - 1 /\ u.cur \in Int
    BY <1>0, <1>4, SeauxNat
  <2>2. Seau(u, 0) = u.cur
    <3>1. Seau(u, 0) = IF u.cur + 0 < Seaux THEN u.cur + 0 ELSE u.cur + 0 - Seaux
      BY <1>4, <2>1, SeauType
    <3> QED BY <2>1, <3>1, SeauxNat
  <2>3. u.seau[Seau(u, 0)] = Contenu(fn + 1, t.mf.set, fn + 0)
    BY <1>4, <2>1 DEF Anneau
  <2>4. fn + 0 \in Int /\ fn + 1 \in Int /\ ~(fn + 0 - (fn + 1) + 1 \in 1 .. Len(t.mf.set))
    BY <1>0
  <2>5. Contenu(fn + 1, t.mf.set, fn + 0) = <<>>
    BY <1>0, <2>4, ContenuHors
  <2> QED BY <2>2, <2>3, <2>5
<1>6. Vider(u) = u
  BY <1>4, <1>5, ViderVide
<1>7. Anneau(Avancer(Vider(u)), {x \in h : x.date > fn}, fn + 1, fn + 1, t.mf.set)
  BY <1>4, AnneauAvance
<1>8. Avancer(u) \in TdmaT /\ Avancer(u).mf = t.mf
  BY <1>4, AvancerFaits
<1> QED BY <1>2, <1>6, <1>7, <1>8

LEMMA FinAnnule ==
  ASSUME fn \in Nat, NEW t \in TdmaT, NEW g, \A x \in g : x.date \in Int, t.mf.set = <<>>
  PROVE  LET r == TdmaSchedReset(t)
         IN  /\ TdmaFin(r) \in TdmaT /\ TdmaFin(r).mf = t.mf
             /\ AgendaFin(r, {x \in g : x.date = fn}) = {} /\ Anneau(TdmaFin(r), {}, fn + 1, 0, <<>>)
<1> DEFINE r == TdmaSchedReset(t)
<1>1. r \in TdmaT /\ r.mf = t.mf
  BY ResetFaits
<1>2. TdmaFin(r) = Avancer(Vider(r)) /\ AgendaFin(r, {x \in g : x.date = fn}) = {x \in {x \in g : x.date = fn} : x.date > fn}
  BY <1>1 DEF TdmaFin, AgendaFin, MfDu
<1>3. Anneau(Avancer(Vider(TdmaSchedReset(t))), {}, fn + 1, 0, <<>>)
  BY AnneauAnnule
<1>4. {x \in {x \in g : x.date = fn} : x.date > fn} = {}
  OBVIOUS
<1> HIDE DEF r
<1>5. Vider(r) \in TdmaT /\ Vider(r).mf = t.mf
  BY <1>1, ViderFaits
<1>6. Avancer(Vider(r)) \in TdmaT /\ Avancer(Vider(r)).mf = t.mf
  BY <1>5, AvancerFaits
<1> QED BY <1>2, <1>3, <1>4, <1>6 DEF r

LEMMA AnneauMf ==
  ASSUME NEW t \in TdmaT, NEW g, NEW f, NEW d, NEW s, Anneau(t, g, f, d, s), NEW set \in Jeux, NEW x \in 0 .. 50
  PROVE  LET u == [t EXCEPT !.mf = [set |-> set, frame |-> x]]
         IN  u \in TdmaT /\ u.mf.set = set /\ u.mf.frame = x /\ Anneau(u, g, f, d, s)
<1> DEFINE m == [set |-> set, frame |-> x]
           u == [t EXCEPT !.mf = m]
<1>1. m \in [set : Jeux, frame : 0 .. 50] /\ m.set = set /\ m.frame = x
  OBVIOUS
<1> HIDE DEF m
<1>2. u \in TdmaT /\ u.cur = t.cur /\ u.seau = t.seau /\ u.mf = m
  BY <1>1 DEF TdmaT
<1> HIDE DEF u
<1>3. \A o \in 0 .. Seaux - 1 : Seau(u, o) = Seau(t, o)
  BY <1>2 DEF Seau
<1>4. Anneau(u, g, f, d, s)
  BY <1>2, <1>3 DEF Anneau
<1> QED BY <1>1, <1>2, <1>4 DEF u, m

-----------------------------------------------------------------------------
(* A frame, in the terms of the invariant.                                 *)

\* The frame the search of the ROM began in, once the W page has been read.
Ouvert(b) == b = rom.debut \/ (b = fn /\ api.irq /\ api.W[api.page].tache = "fb")

RomSuit(b, e, fcch, residu) ==
  /\ fcch => b # Aucun
  /\ rom'.det = (e \/ fcch)
  /\ rom'.toa = (IF fcch THEN 23 + 1250 * (fn - b) + residu ELSE rom.toa)
  /\ rom'.debut = (IF b # Aucun /\ (fcch \/ fn - b >= 11) THEN Aucun ELSE b)
  /\ hist'.fcch = (IF fcch THEN fn ELSE hist.fcch)

Tranquille(d, s, b, fcch, residu) ==
  /\ RomSuit(b, rom.det, fcch, residu)
  /\ test'.debut = test.debut /\ test'.toa = test.toa
  /\ DetSuit(d, s, rom, test') /\ BlocsSuit(d, s, test')
  /\ api'.irq /\ api'.W[api'.page].tache = "fb" => s = FbSet /\ fn = d
  /\ ~MfDu(tdma) => Anneau(tdma', hist'.agenda, fn', d, s)
  /\ MfDu(tdma) => Anneau(tdma', hist'.agenda, fn', fn + 1, tdma.mf.set)

Detectee(d, s, b, fcch, residu) ==
  /\ RomSuit(b, Non, fcch, residu)
  /\ s = FbSet /\ fn \in d + 2 .. d + 13 /\ test.det = 0 /\ rom.det
  /\ test'.det = 1 /\ test'.debut = d + 1 /\ test'.toa = rom.toa /\ test'.blocs = test.blocs
  /\ api'.irq => test.nom = "idle"
  /\ Anneau(tdma', hist'.agenda, fn', 0, <<>>)

Poursuit ==
  /\ test'.nom = test.nom /\ test'.pas = test.pas /\ test'.essai = test.essai /\ test'.deduit = test.deduit
  /\ test'.reste = (IF Arret(test') THEN 0 ELSE test.reste - 1)
  /\ tdma'.mf = tdma.mf

LEMMA RomSuite ==
  ASSUME TypesBanc, NEW pris \in BOOLEAN, NEW fcch \in BOOLEAN, NEW residu \in Residus, NEW R \in RomT,
         rom' = RomFin(R, Recue(pris), fcch, residu),
         R.toa = rom.toa, R.debut = RomA(Recue(pris)).debut, hist'.fcch = (IF fcch THEN fn ELSE hist.fcch),
         fcch => RomA(Recue(pris)).debut # Aucun
  PROVE  rom' \in RomT /\ R.debut \in Trames /\ Ouvert(R.debut) /\ RomSuit(R.debut, R.det, fcch, residu)
<1> DEFINE c == Recue(pris)
<1>1. c \in PagesW /\ fn \in Nat
  BY AvantFaits DEF TypesBanc
<1>2. RomA(c).debut = (IF c.tache = "fb" THEN fn ELSE rom.debut)
  BY AvantFaits
<1>3. c.tache = "fb" => api.irq /\ api.W[api.page].tache = "fb"
  <2>1. VideW.tache # "fb"
    BY DEF VideW, PageW
  <2> QED BY <2>1 DEF Recue
<1> HIDE DEF c
<1>4. LET F == RomFin(R, c, fcch, residu)
      IN  /\ F \in RomT /\ F.det = (R.det \/ fcch)
          /\ F.toa = (IF fcch THEN 23 + 1250 * (fn - R.debut) + residu ELSE R.toa)
          /\ F.debut = (IF R.debut # Aucun /\ (fcch \/ fn - R.debut >= 11) THEN Aucun ELSE R.debut)
  BY <1>1, FinRom
<1>5. R.debut \in Trames
  BY DEF RomT
<1>6. R.debut = RomA(c).debut /\ (fcch => RomA(c).debut # Aucun) /\ rom' = RomFin(R, c, fcch, residu)
  BY DEF c
<1>7. Ouvert(R.debut)
  BY <1>2, <1>3, <1>6 DEF Ouvert
<1>8. RomSuit(R.debut, R.det, fcch, residu)
  BY <1>4, <1>6 DEF RomSuit
<1> QED BY <1>4, <1>5, <1>6, <1>7, <1>8

LEMMA PageFb ==
  ASSUME NEW d, NEW s, NEW P, PageSuit(d, s, P), P.tache = "fb"
  PROVE  s = FbSet /\ fn = d
<1>1. /\ VideW.tache # "fb"
      /\ \A k : /\ PageW("sb", k, fn).tache # "fb" /\ PageW("nb", k, fn).tache # "fb" /\ PageW("tx", k, fn).tache # "fb"
                /\ PageW("rach", k, fn).tache # "fb" /\ PageW("chk", k, fn).tache # "fb"
  BY DEF VideW, PageW
<1> QED BY <1>1, Zenon DEF PageSuit

\* The W page that has been armed is the one the items have filled.
LEMMA PageArmee ==
  ASSUME TypesBanc, NEW u, NEW P, NEW A, A = ApiPose(u, P), NEW dr \in BOOLEAN,
         api'.irq = (A.irq \/ dr), api'.page = (IF dr THEN A.w ELSE A.page), api'.W = A.W, api'.irq
  PROVE  api'.W[api'.page] = P
<1>1. api.w \in 0 .. 1 /\ api.W \in [0 .. 1 -> PagesW]
  BY ApiChamps DEF TypesBanc
<1>2. A.irq = Non /\ A.w = api.w /\ A.W = [api.W EXCEPT ![api.w] = P]
  BY DEF ApiPose, Non
<1>3. dr
  BY <1>2 DEF Non
<1> QED BY <1>1, <1>2, <1>3

\* What the invariant says of the ring before a frame.
Prete(d, s) ==
  /\ MfDu(tdma) => Passe(fn, d, s) /\ Len(tdma.mf.set) <= 13
  /\ s = FbSet /\ fn \in d + 2 .. d + 13 => tdma.mf.set = <<>>

LEMMA ArretMeme ==
  ASSUME NEW S, NEW t, t.nom = S.nom, t.pas = S.pas, t.essai = S.essai, t.det = S.det, t.blocs = S.blocs
  PROVE  Arret(t) = Arret(S)
BY DEF Arret, CherchentFb

\* The test at the end of a frame.
LEMMA TestSuite ==
  ASSUME test \in TestT, test.reste > 0, NEW S \in TestT, MemeTest(S), test' = TestApres(S)
  PROVE  /\ test' \in TestT /\ test'.nom = test.nom /\ test'.pas = test.pas /\ test'.essai = test.essai
         /\ test'.deduit = test.deduit /\ test'.reste = (IF Arret(test') THEN 0 ELSE test.reste - 1)
         /\ test'.det = S.det /\ test'.debut = S.debut /\ test'.toa = S.toa /\ test'.blocs = S.blocs
<1> DEFINE t == TestApres(S)
<1>1. S.reste > 0
  BY DEF MemeTest
<1>2. /\ t \in TestT /\ t.reste = (IF Arret(S) THEN 0 ELSE S.reste - 1)
      /\ t.nom = S.nom /\ t.pas = S.pas /\ t.essai = S.essai /\ t.det = S.det /\ t.debut = S.debut
      /\ t.toa = S.toa /\ t.deduit = S.deduit /\ t.blocs = S.blocs
  BY <1>1, FinTest
<1> HIDE DEF t
<1>3. Arret(t) = Arret(S)
  BY <1>2, ArretMeme
<1>4. test' = t
  BY DEF t
<1>5. Arret(test') = Arret(t)
  BY <1>4
<1> QED BY <1>2, <1>3, <1>4, <1>5 DEF MemeTest

TypesSuite ==
  api' \in ApiT /\ tdma' \in TdmaT /\ rom' \in RomT /\ sch' \in SchT /\ test' \in TestT /\ hist' \in HistT

LEMMA AnneauTypes ==
  ASSUME NEW t, NEW g, NEW f, NEW d, NEW s, Anneau(t, g, f, d, s)
  PROVE  d \in Nat /\ s \in Jeux
BY DEF Anneau

LEMMA CalmeCas ==
  ASSUME TypesBanc, NEW d, NEW s, Anneau(tdma, hist.agenda, fn, d, s), Prete(d, s), fn' = fn + 1, test.reste > 0,
         NEW pris \in BOOLEAN, NEW dr \in BOOLEAN, NEW fcch \in BOOLEAN, NEW residu \in Residus, NEW A \in ApiT, NEW T \in TdmaT,
         NEW R \in RomT, NEW S \in TestT, NEW K \in HistT, NEW fen, NEW q, NEW u, NEW P,
         fcch => RomA(Recue(pris)).debut # Aucun,
         L1Calme(d, s, pris, dr, q, u, P, A, T, R, S, K),
         Finit(Recue(pris), fen, fcch, residu, dr, A, T, R, S, K)
  PROVE  TypesSuite /\ Poursuit /\ \E b \in Trames : Ouvert(b) /\ Tranquille(d, s, b, fcch, residu)
<1> DEFINE c == Recue(pris)
           H == HistA(pris)
<1>1. /\ fn \in Nat /\ tdma \in TdmaT /\ test \in TestT /\ c \in PagesW /\ H \in HistT /\ H.agenda = hist.agenda
      /\ H.fcch = hist.fcch /\ R.det = rom.det /\ R.toa = rom.toa /\ R.debut = RomA(c).debut
  BY AvantFaits DEF TypesBanc, L1Calme
<1>2. d \in Nat /\ s \in Jeux
  BY AnneauTypes
<1>3. Suit(d, s, R, H, q, u, P, S, K)
  <2>1. Effet(Contenu(d, s, fn), d, s, R, H, q, u, P, S, K)
    BY DEF L1Calme
  <2> DEFINE x == Contenu(d, s, fn)
  <2>2. x = Contenu(d, s, fn) /\ Effet(x, d, s, R, H, q, u, P, S, K)
    BY <2>1
  <2> HIDE DEF x, H
  <2> QED BY <1>1, <1>2, <2>2, EffetSuit
<1> HIDE DEF c, H
<1>4. /\ A = ApiPose(u, P) /\ T = tdma /\ MemeTest(S) /\ S.debut = test.debut /\ S.toa = test.toa /\ MemeHist(K, H)
      /\ DetSuit(d, s, R, S) /\ BlocsSuit(d, s, S) /\ PageSuit(d, s, P)
  BY <1>3, Zenon DEF Suit, L1Calme
<1>5. /\ sch' = SchApres(Deposer(c, fen), c, fen) /\ api' = ApiApres(A, dr, c, fen) /\ tdma' = TdmaFin(tdma)
      /\ rom' = RomFin(R, c, fcch, residu) /\ test' = TestApres(S) /\ hist' = HistApres(K, tdma, c, fen, fcch)
  BY <1>4, Zenon DEF Finit, c
<1>6. /\ test' \in TestT /\ test'.nom = test.nom /\ test'.pas = test.pas /\ test'.essai = test.essai
      /\ test'.deduit = test.deduit /\ test'.reste = (IF Arret(test') THEN 0 ELSE test.reste - 1)
      /\ test'.det = S.det /\ test'.debut = S.debut /\ test'.toa = S.toa /\ test'.blocs = S.blocs
  BY <1>1, <1>4, <1>5, TestSuite
<1>7. K.agenda = hist.agenda /\ K.fcch = hist.fcch
  BY <1>1, <1>4 DEF MemeHist
<1>8. /\ tdma' \in TdmaT /\ tdma'.mf = tdma.mf
      /\ ~MfDu(tdma) => Anneau(tdma', AgendaFin(tdma, hist.agenda), fn + 1, d, s)
      /\ MfDu(tdma) => Anneau(tdma', AgendaFin(tdma, hist.agenda), fn + 1, fn + 1, tdma.mf.set)
  <2> DEFINE g == hist.agenda
             t == tdma
  <2>1. Anneau(t, g, fn, d, s) /\ t \in TdmaT /\ tdma' = TdmaFin(t) /\ (MfDu(t) => Passe(fn, d, s) /\ Len(t.mf.set) <= 13)
    BY <1>1, <1>5 DEF Prete
  <2> HIDE DEF g, t
  <2>2. CASE ~MfDu(t)
    <3>1. TdmaFin(t) \in TdmaT /\ TdmaFin(t).mf = t.mf /\ Anneau(TdmaFin(t), AgendaFin(t, g), fn + 1, d, s)
      BY <1>1, <2>1, <2>2, FinSansBloc
    <3> QED BY <2>1, <2>2, <3>1 DEF t, g
  <2>3. CASE MfDu(t)
    <3>1. TdmaFin(t) \in TdmaT /\ TdmaFin(t).mf = t.mf /\ Anneau(TdmaFin(t), AgendaFin(t, g), fn + 1, fn + 1, t.mf.set)
      BY <1>1, <2>1, <2>3, FinAvecBloc
    <3> QED BY <2>1, <2>3, <3>1 DEF t, g
  <2> QED BY <2>2, <2>3 DEF t
<1>9. AgendaFin(tdma, hist.agenda) \in SUBSET [date : Nat, item : Items]
  <2> DEFINE x == AgendaFin(tdma, hist.agenda)
             y == tdma'
             f == fn + 1
  <2>1. f \in Nat /\ (Anneau(y, x, f, d, s) \/ Anneau(y, x, f, f, tdma.mf.set))
    BY <1>1, <1>8
  <2> HIDE DEF x, y, f
  <2>2. x \in SUBSET [date : Nat, item : Items]
    BY <2>1, AgendaType
  <2> QED BY <2>2 DEF x
<1>10. hist' \in HistT /\ hist'.agenda = AgendaFin(tdma, hist.agenda) /\ hist'.fcch = (IF fcch THEN fn ELSE hist.fcch)
  <2>1. AgendaFin(tdma, K.agenda) \in SUBSET [date : Nat, item : Items]
    BY <1>7, <1>9
  <2>2. HistEst(hist', K, AgendaFin(tdma, K.agenda), Recu(c, fen), c, fen, fcch)
    BY <1>1, <1>5, <2>1, FinHist
  <2> QED BY <1>7, <2>2 DEF HistEst
<1>11. sch' \in SchT
  BY <1>5, RecuType
<1>12. /\ api' \in ApiT /\ api'.page = (IF dr THEN A.w ELSE A.page) /\ api'.irq = (A.irq \/ dr) /\ api'.W = A.W
  <2>1. ApiEst(api', A, dr, RFin(A, c, Recu(c, fen)))
    BY <1>1, <1>5, FinApi
  <2> QED BY <2>1 DEF ApiEst
<1>13. api'.irq /\ api'.W[api'.page].tache = "fb" => s = FbSet /\ fn = d
  BY <1>4, <1>12, PageArmee, PageFb
<1>14. rom' \in RomT /\ R.debut \in Trames /\ Ouvert(R.debut) /\ RomSuit(R.debut, R.det, fcch, residu)
  <2>1. rom' = RomFin(R, Recue(pris), fcch, residu) /\ R.debut = RomA(Recue(pris)).debut
    BY <1>1, <1>5 DEF c
  <2> QED BY <1>1, <1>10, <2>1, RomSuite
<1>15. RomSuit(R.debut, rom.det, fcch, residu)
  BY <1>1, <1>14
<1>16. DetSuit(d, s, rom, test') /\ BlocsSuit(d, s, test')
  BY <1>1, <1>4, <1>6 DEF DetSuit, BlocsSuit
<1>17. /\ ~MfDu(tdma) => Anneau(tdma', hist'.agenda, fn', d, s)
       /\ MfDu(tdma) => Anneau(tdma', hist'.agenda, fn', fn + 1, tdma.mf.set)
  BY <1>8, <1>10
<1>18. Tranquille(d, s, R.debut, fcch, residu)
  BY <1>4, <1>6, <1>13, <1>15, <1>16, <1>17, Zenon DEF Tranquille
<1>19. TypesSuite
  BY <1>6, <1>8, <1>10, <1>11, <1>12, <1>14 DEF TypesSuite
<1>20. Poursuit
  BY <1>6, <1>8 DEF Poursuit
<1> QED BY <1>14, <1>18, <1>19, <1>20

LEMMA DetecteCas ==
  ASSUME TypesBanc, NEW d, NEW s, Anneau(tdma, hist.agenda, fn, d, s), Prete(d, s), fn' = fn + 1, test.reste > 0,
         NEW pris \in BOOLEAN, NEW dr \in BOOLEAN, NEW fcch \in BOOLEAN, NEW residu \in Residus, NEW A \in ApiT, NEW T \in TdmaT,
         NEW R \in RomT, NEW S \in TestT, NEW K \in HistT, NEW fen,
         fcch => RomA(Recue(pris)).debut # Aucun,
         L1Detecte(d, s, pris, dr, A, T, R, S, K),
         Finit(Recue(pris), fen, fcch, residu, dr, A, T, R, S, K)
  PROVE  TypesSuite /\ Poursuit /\ \E b \in Trames : Ouvert(b) /\ Detectee(d, s, b, fcch, residu)
<1> DEFINE c == Recue(pris)
           H == HistA(pris)
           R0 == RomA(Recue(pris))
<1>1. /\ fn \in Nat /\ tdma \in TdmaT /\ test \in TestT /\ c \in PagesW /\ H \in HistT /\ H.agenda = hist.agenda
      /\ H.fcch = hist.fcch /\ R0 \in RomT /\ R0.det = rom.det /\ R0.toa = rom.toa
  BY AvantFaits DEF TypesBanc
<1>2. d \in Nat /\ s \in Jeux
  BY AnneauTypes
<1>3. PICK k : /\ Trouve(d, s, R0, k) /\ dr = (test.nom = "idle")
               /\ A = ApiRemise(Non, VideW) /\ T = TdmaSchedReset(tdma) /\ R = [R0 EXCEPT !.det = FALSE]
               /\ S = DetTrouve(R0, test, k) /\ K = [H EXCEPT !.agenda = {x \in @ : x.date = fn}]
  BY Zenon DEF L1Detecte
<1>4. R.det = Non /\ R.toa = rom.toa /\ R.debut = R0.debut
  BY <1>1, <1>3 DEF RomT, Non
<1>5. K.agenda = {x \in hist.agenda : x.date = fn} /\ K.fcch = hist.fcch
  BY <1>1, <1>3 DEF HistT
<1> HIDE DEF c, H, R0
<1>6. s = FbSet /\ k \in 1 .. 12 /\ fn = d + k + 1 /\ test.det = 0 /\ rom.det
  BY <1>1, <1>3 DEF Trouve
<1>7. fn \in d + 2 .. d + 13 /\ fn - k = d + 1
  BY <1>1, <1>2, <1>6
<1>8. S \in TestT /\ MemeTest(S) /\ S.det = 1 /\ S.debut = d + 1 /\ S.toa = rom.toa /\ S.blocs = test.blocs
  <2>1. S \in TestT /\ MemeTest(S) /\ MemeBlocs(S) /\ S.det = 1 /\ S.debut = fn - k /\ S.toa = R0.toa
    BY <1>1, <1>3, <1>6, DetTrouveType
  <2> QED BY <1>1, <1>7, <2>1 DEF MemeBlocs
<1>9. /\ sch' = SchApres(Deposer(c, fen), c, fen) /\ api' = ApiApres(A, dr, c, fen) /\ tdma' = TdmaFin(T)
      /\ rom' = RomFin(R, c, fcch, residu) /\ test' = TestApres(S) /\ hist' = HistApres(K, T, c, fen, fcch)
  BY Zenon DEF Finit, c
<1>10. /\ test' \in TestT /\ test'.nom = test.nom /\ test'.pas = test.pas /\ test'.essai = test.essai
       /\ test'.deduit = test.deduit /\ test'.reste = (IF Arret(test') THEN 0 ELSE test.reste - 1)
       /\ test'.det = S.det /\ test'.debut = S.debut /\ test'.toa = S.toa /\ test'.blocs = S.blocs
  BY <1>1, <1>8, <1>9, TestSuite
<1>11. /\ tdma' \in TdmaT /\ tdma'.mf = tdma.mf /\ AgendaFin(T, K.agenda) = {} /\ Anneau(tdma', {}, fn + 1, 0, <<>>)
  <2> DEFINE g == hist.agenda
             t == tdma
  <2>1. \A x \in g : x.date \in Int
    <3>1. g \in SUBSET [date : Nat, item : Items]
      BY DEF TypesBanc, HistT
    <3> QED BY <3>1
  <2>2. t.mf.set = <<>> /\ t \in TdmaT
    BY <1>1, <1>6, <1>7 DEF Prete
  <2>3. T = TdmaSchedReset(t) /\ K.agenda = {x \in g : x.date = fn} /\ tdma' = TdmaFin(T)
    BY <1>3, <1>5, <1>9
  <2> HIDE DEF g, t
  <2>4. LET r == TdmaSchedReset(t)
        IN  /\ TdmaFin(r) \in TdmaT /\ TdmaFin(r).mf = t.mf
            /\ AgendaFin(r, {x \in g : x.date = fn}) = {} /\ Anneau(TdmaFin(r), {}, fn + 1, 0, <<>>)
    BY <1>1, <2>1, <2>2, FinAnnule
  <2> QED BY <2>3, <2>4 DEF t
<1>12. hist' \in HistT /\ hist'.agenda = {} /\ hist'.fcch = (IF fcch THEN fn ELSE hist.fcch)
  <2>1. AgendaFin(T, K.agenda) \in SUBSET [date : Nat, item : Items]
    BY <1>11
  <2>2. HistEst(hist', K, AgendaFin(T, K.agenda), Recu(c, fen), c, fen, fcch)
    BY <1>1, <1>9, <2>1, FinHist
  <2> QED BY <1>5, <1>11, <2>2 DEF HistEst
<1>13. sch' \in SchT
  BY <1>9, RecuType
<1>14. api' \in ApiT /\ (api'.irq => test.nom = "idle")
  <2>1. ApiEst(api', A, dr, RFin(A, c, Recu(c, fen)))
    BY <1>1, <1>9, FinApi
  <2>2. A.irq = Non
    BY <1>3 DEF ApiRemise, Non
  <2> QED BY <1>3, <2>1, <2>2 DEF ApiEst, Non
<1>15. rom' \in RomT /\ R.debut \in Trames /\ Ouvert(R.debut) /\ RomSuit(R.debut, R.det, fcch, residu)
  <2>1. rom' = RomFin(R, Recue(pris), fcch, residu) /\ R.debut = RomA(Recue(pris)).debut
    BY <1>4, <1>9 DEF c, R0
  <2> QED BY <1>4, <1>12, <2>1, RomSuite
<1>16. RomSuit(R.debut, Non, fcch, residu)
  BY <1>4, <1>15
<1>17. Anneau(tdma', hist'.agenda, fn', 0, <<>>)
  BY <1>11, <1>12
<1>18. Detectee(d, s, R.debut, fcch, residu)
  BY <1>6, <1>7, <1>8, <1>10, <1>14, <1>16, <1>17 DEF Detectee
<1>19. TypesSuite
  BY <1>10, <1>11, <1>12, <1>13, <1>14, <1>15 DEF TypesSuite
<1>20. Poursuit
  BY <1>10, <1>11 DEF Poursuit
<1> QED BY <1>15, <1>18, <1>19, <1>20

\* A frame, whole, in the terms of the invariant.
LEMMA TrameCas ==
  ASSUME TypesBanc, NEW d, NEW s, Anneau(tdma, hist.agenda, fn, d, s), Prete(d, s), Trame
  PROVE  /\ test.reste > 0 /\ fn' = fn + 1 /\ TypesSuite /\ Poursuit
         /\ \E b \in Trames, fcch \in BOOLEAN, residu \in Residus :
              Ouvert(b) /\ (Tranquille(d, s, b, fcch, residu) \/ Detectee(d, s, b, fcch, residu))
<1>1. test.reste > 0 /\ fn' = fn + 1 /\ CasTrame(d, s)
  BY TrameFaits
<1>3. PICK pris \in BOOLEAN, dr \in BOOLEAN, fcch \in BOOLEAN, residu \in Residus, A \in ApiT, T \in TdmaT, R \in RomT,
         S \in TestT, K \in HistT : \E fen \in Fenetres(Recue(pris)) :
        /\ ~pris => api.irq /\ hist.perdus < MaxPerdus
        /\ fcch => RomA(Recue(pris)).debut # Aucun /\ Type(fn) = "F"
        /\ \/ \E q, u, P : L1Calme(d, s, pris, dr, q, u, P, A, T, R, S, K)
           \/ L1Detecte(d, s, pris, dr, A, T, R, S, K)
        /\ Finit(Recue(pris), fen, fcch, residu, dr, A, T, R, S, K)
  BY <1>1, Zenon DEF CasTrame
<1>4. PICK fen : /\ fcch => RomA(Recue(pris)).debut # Aucun
                 /\ \/ \E q, u, P : L1Calme(d, s, pris, dr, q, u, P, A, T, R, S, K)
                    \/ L1Detecte(d, s, pris, dr, A, T, R, S, K)
                 /\ Finit(Recue(pris), fen, fcch, residu, dr, A, T, R, S, K)
  BY <1>3, Zenon
<1>5. CASE \E q, u, P : L1Calme(d, s, pris, dr, q, u, P, A, T, R, S, K)
  <2>1. PICK q, u, P : L1Calme(d, s, pris, dr, q, u, P, A, T, R, S, K)
    BY <1>5, Zenon
  <2>2. TypesSuite /\ Poursuit /\ \E b \in Trames : Ouvert(b) /\ Tranquille(d, s, b, fcch, residu)
    BY <1>1, <1>4, <2>1, CalmeCas
  <2> QED BY <1>1, <2>2, Zenon
<1>6. CASE L1Detecte(d, s, pris, dr, A, T, R, S, K)
  <2>1. TypesSuite /\ Poursuit /\ \E b \in Trames : Ouvert(b) /\ Detectee(d, s, b, fcch, residu)
    BY <1>1, <1>4, <1>6, DetecteCas
  <2> QED BY <1>1, <2>1, Zenon
<1> QED BY <1>4, <1>5, <1>6

-----------------------------------------------------------------------------
(* The invariant.  The ring t holds what is left of one set: the set s,    *)
(* from frame d on.  Phase says which set that is in each test, and how    *)
(* far it has come; m is the multiframe item, f the frame.                 *)

Joueur(t, n) == t.pas = "joue" /\ t.nom = n
Cherche(t) == t.pas = "joue" /\ CherchentFb(t) /\ t.det = 0
Bloc(t) == IF t.nom = "nb" THEN NbSet ELSE NbSetUl
Trame0(t) == IF t.nom = "nb" THEN 2 ELSE 37

\* Between two tries the ring is over, and a test has not counted a block.
PhAttend(t, m, f, d, s) ==
  /\ t.pas \in {"debut", "attend"} /\ Passe(f, d, s) /\ m.set = <<>>
  /\ t.nom \in {"nb", "tx"} => t.blocs = 0
  /\ t.pas = "debut" => t.reste = 0
PhCherche(t, m, f, d, s) ==
  Cherche(t) /\ m.set = <<>> /\ s = FbSet /\ f + t.reste = d + 15 /\ f \in d .. d + 13
PhTrouve(t, m, f, d, s) ==
  t.pas = "joue" /\ CherchentFb(t) /\ t.det # 0 /\ m.set = <<>> /\ Passe(f, d, s) /\ t.reste = 0
PhSb(t, m, f, d, s) ==
  /\ m.set = <<>> /\ s = SbSet
  /\ \/ Joueur(t, "sb") /\ f + t.reste = d + 5
     \/ Joueur(t, "fbsb") /\ ~CherchentFb(t) /\ f + t.reste = d + 7
PhAcces(t, m, f, d, s) ==
  /\ m.set = <<>>
  /\ \/ Joueur(t, "rach") /\ s = RachSet /\ f + t.reste = d + 6
     \/ Joueur(t, "chk") /\ s = ChkSet /\ f + t.reste = d + 5
     \/ Joueur(t, "idle") /\ Passe(f, d, s)
\* The last block ends the loop; the next one has begun before it is counted.
PhBlocs(t, m, f, d, s) ==
  /\ t.pas = "joue" /\ t.nom \in {"nb", "tx"} /\ m.set = Bloc(t) /\ m.frame = Trame0(t)
  /\ \/ Passe(f, d, s)
     \/ s = Bloc(t) /\ d <= f /\ (d + 1) % 51 = Trame0(t)
  /\ t.blocs = Essais => t.reste = 0 /\ (s = NbSetUl => d < f)
PhVide(t, m, f, d, s) ==
  /\ t.pas = "vide" /\ t.nom = "tx" /\ m.set = <<>>
  /\ Passe(f, d, s) \/ (s = NbSetUl /\ d <= f)
  /\ t.blocs = Essais /\ s = NbSetUl => d < f
PhFini(t) == t.pas = "fini" /\ t.reste = 0

Phase(t, m, f, d, s) ==
  \/ PhAttend(t, m, f, d, s)
  \/ PhCherche(t, m, f, d, s)
  \/ PhTrouve(t, m, f, d, s)
  \/ PhSb(t, m, f, d, s)
  \/ PhAcces(t, m, f, d, s)
  \/ PhBlocs(t, m, f, d, s)
  \/ PhVide(t, m, f, d, s)
  \/ PhFini(t)

\* Where the ROM is in a search, and what une_fb makes of its answer.
Place(b, toa, f) == b <= f /\ \E r \in Residus : toa = 23 + 1250 * (f - b) + r
Tenu(t) == (t.pas = "joue" /\ CherchentFb(t)) \/ (t.nom = "fbsb" /\ t.essai = 2 /\ t.pas \in {"debut", "attend"})
Due(a) == a.irq /\ a.W[a.page].tache = "fb"

Recherche(t, r, fcch, due, f, d) ==
  t.pas # "fini" =>
    /\ r.debut # Aucun => Cherche(t) /\ r.debut = d + 1 /\ f \in d + 2 .. d + 12
    /\ r.det => Cherche(t) /\ f \in d + 2 .. d + 13 /\ fcch = f - 1 /\ r.debut = Aucun /\ Place(d + 1, r.toa, f - 1)
    /\ due => Cherche(t) /\ f = d + 1
Reponse(t, fcch, f) ==
  t.pas # "fini" =>
    /\ t.det = 1 /\ Tenu(t) => fcch = f - 2 /\ Place(t.debut, t.toa, fcch)
    /\ t.nom = "fbsb" /\ t.essai = 2 /\ t.pas \in {"debut", "attend"} => t.det = 1 /\ t.reste = 0
Deduite(t, fcch) == t.deduit # Aucun => t.deduit = fcch /\ ~(t.pas = "joue" /\ CherchentFb(t))
Compte(t) == t.blocs <= Essais /\ (t.nom = "fbsb" => t.essai <= 2)

Suivi(d, s) ==
  /\ Anneau(tdma, hist.agenda, fn, d, s)
  /\ Phase(test, tdma.mf, fn, d, s)
  /\ Recherche(test, rom, hist.fcch, Due(api), fn, d)

BancInv ==
  /\ TypesBanc /\ Compte(test) /\ Reponse(test, hist.fcch, fn) /\ Deduite(test, hist.fcch)
  /\ \E d \in 0 .. fn + Seaux, s \in Jeux : Suivi(d, s)

Noms == {"fb", "fbpos", "sb", "fbsb", "nb", "tx", "rach", "chk", "idle"}

LEMMA TestsNoms ==
  ASSUME NEW n \in Tests
  PROVE  n \in Noms
BY BancAssumption DEF Noms

LEMMA Longueurs ==
  /\ Len(FbSet) = 14 /\ Len(SbSet) = 5 /\ Len(NbSet) = 6 /\ Len(NbSetUl) = 6 /\ Len(RachSet) = 3 /\ Len(ChkSet) = 1
  /\ Len(<<>>) = 0
<1>1. Len(<<>>) = 0
  OBVIOUS
<1> QED BY <1>1, FbFaits, SbFaits, NbFaits, NbUlFaits, RachFaits, ChkFaits, Zenon

\* What a frame leaves of the test, and what it notes.
Garde(t, u) ==
  /\ u.nom = t.nom /\ u.pas = t.pas /\ u.essai = t.essai /\ u.deduit = t.deduit
  /\ u.reste = (IF Arret(u) THEN 0 ELSE t.reste - 1)
NoteDet(t, u, f, d, s, e) ==
  \/ u.det = t.det /\ ~(s = FbSet /\ f \in d + 2 .. d + 13 /\ t.det = 0)
  \/ /\ s = FbSet /\ f \in d + 2 .. d + 13 /\ t.det = 0 /\ ~e
     /\ u.det = (IF f = d + 13 THEN -1 ELSE 0)
NoteBlocs(t, u, f, d, s) ==
  \/ u.blocs = t.blocs
  \/ u.blocs = t.blocs + 1 /\ ((s = NbSet /\ f = d + 5) \/ (s = NbSetUl /\ f = d))

\* The loops that end before their last frame.
LEMMA ArretFaits ==
  ASSUME NEW u
  PROVE  /\ Arret(u) => u.pas = "joue" /\ ((CherchentFb(u) /\ u.det # 0) \/ (u.nom \in {"nb", "tx"} /\ u.blocs >= Essais))
         /\ u.pas = "joue" /\ CherchentFb(u) /\ u.det # 0 => Arret(u)
         /\ u.pas = "joue" /\ u.nom \in {"nb", "tx"} /\ u.blocs >= Essais => Arret(u)
BY DEF Arret, CherchentFb

LEMMA CherchentMeme ==
  ASSUME NEW t, NEW u, u.nom = t.nom, u.essai = t.essai
  PROVE  CherchentFb(u) = CherchentFb(t)
BY DEF CherchentFb

\* A frame without a block of the multiframe scheduler, and without an FB found.
LEMMA PhaseCalme ==
  ASSUME NEW t \in TestT, NEW u \in TestT, NEW m, NEW f \in Nat, NEW d \in Nat, NEW s \in Jeux, NEW e,
         Phase(t, m, f, d, s), t.reste > 0, Garde(t, u), NoteDet(t, u, f, d, s, e), NoteBlocs(t, u, f, d, s), Compte(t)
  PROVE  Phase(u, m, f + 1, d, s) /\ Compte(u)
<1>1. /\ t.reste \in Nat /\ t.det \in -1 .. 1 /\ u.det \in -1 .. 1 /\ t.blocs \in Nat /\ u.blocs \in Nat /\ u.reste \in Nat
      /\ Essais \in Nat \ {0} /\ Len(s) \in Nat
  BY TestChamps, JeuxFaits, BancAssumption
<1>2. CherchentFb(u) = CherchentFb(t) /\ u.nom = t.nom /\ u.pas = t.pas /\ u.essai = t.essai
  BY CherchentMeme DEF Garde
<1>3. Passe(f, d, s) => Passe(f + 1, d, s) /\ u.blocs = t.blocs
  <2>1. Passe(f, d, s) => Passe(f + 1, d, s)
    BY <1>1 DEF Passe
  <2>2. s = NbSet \/ s = NbSetUl => Len(s) = 6
    BY Longueurs
  <2>3. Passe(f, d, s) => ~(s = NbSet /\ f = d + 5) /\ ~(s = NbSetUl /\ f = d)
    <3> DEFINE l == Len(s)
    <3>1. l \in Nat /\ (s = NbSet \/ s = NbSetUl => l = 6) /\ (Passe(f, d, s) <=> d + l <= f)
      BY <1>1, <2>2 DEF Passe
    <3> HIDE DEF l
    <3>2. d + l <= f /\ l = 6 => f # d + 5 /\ f # d
      BY <3>1
    <3> QED BY <3>1, <3>2, Zenon
  <2> QED BY <2>1, <2>3 DEF NoteBlocs
<1>4. ~Arret(u) => u.reste = t.reste - 1
  BY DEF Garde
<1>5. Arret(u) => u.reste = 0
  BY DEF Garde
<1>6. CASE PhAttend(t, m, f, d, s)
  BY <1>1, <1>2, <1>3, <1>6 DEF PhAttend, Phase, Compte
<1>7. CASE PhCherche(t, m, f, d, s)
  <2>1. /\ t.pas = "joue" /\ CherchentFb(t) /\ t.det = 0 /\ m.set = <<>> /\ s = FbSet /\ f + t.reste = d + 15
        /\ f \in d .. d + 13
    BY <1>7 DEF PhCherche, Cherche
  <2>2. u.blocs = t.blocs
    BY <2>1, JeuxDistincts DEF NoteBlocs
  <2>3. CASE f = d + 13
    <3>1. u.det = -1
      BY <1>1, <2>1, <2>3 DEF NoteDet
    <3>2. Arret(u)
      <4>1. u.pas = "joue" /\ CherchentFb(u) /\ u.det # 0
        BY <1>2, <2>1, <3>1
      <4> QED BY <4>1, ArretFaits
    <3>3. Passe(f + 1, d, s)
      BY <2>1, <2>3, Longueurs DEF Passe
    <3>4. PhTrouve(u, m, f + 1, d, s)
      BY <1>2, <1>5, <2>1, <3>1, <3>2, <3>3 DEF PhTrouve
    <3> QED BY <1>2, <2>2, <3>4 DEF Phase, Compte
  <2>4. CASE f # d + 13
    <3>1. u.det = 0 /\ f + 1 \in d .. d + 13
      BY <1>1, <2>1, <2>4 DEF NoteDet
    <3>2. u.nom \notin {"nb", "tx"}
      BY <1>2, <2>1 DEF CherchentFb
    <3>3. ~Arret(u)
      BY <3>1, <3>2, ArretFaits
    <3>4. f + 1 + u.reste = d + 15
      BY <1>1, <1>4, <2>1, <3>3
    <3>5. PhCherche(u, m, f + 1, d, s)
      BY <1>2, <2>1, <3>1, <3>4 DEF PhCherche, Cherche
    <3> QED BY <1>2, <2>2, <3>5 DEF Phase, Compte
  <2> QED BY <2>3, <2>4
<1>8. CASE PhTrouve(t, m, f, d, s)
  BY <1>1, <1>8 DEF PhTrouve
<1>9. CASE PhSb(t, m, f, d, s)
  <2>1. t.pas = "joue" /\ ~CherchentFb(t) /\ t.nom \in {"sb", "fbsb"}
    BY <1>9 DEF PhSb, Joueur, CherchentFb
  <2>2. ~Arret(u)
    BY <1>2, <2>1, ArretFaits
  <2>3. u.blocs = t.blocs
    BY <1>9, JeuxDistincts DEF NoteBlocs, PhSb
  <2>4. PhSb(u, m, f + 1, d, s)
    <3>1. u.reste = t.reste - 1
      BY <2>2 DEF Garde
    <3>2. /\ m.set = <<>> /\ s = SbSet
          /\ \/ Joueur(t, "sb") /\ f + t.reste = d + 5
             \/ Joueur(t, "fbsb") /\ ~CherchentFb(t) /\ f + t.reste = d + 7
      BY <1>9 DEF PhSb
    <3>3. f + 1 + u.reste = f + t.reste
      BY <1>1, <3>1
    <3> QED BY <1>2, <3>2, <3>3, Zenon DEF PhSb, Joueur
  <2> QED BY <1>2, <2>3, <2>4 DEF Phase, Compte
<1>10. CASE PhAcces(t, m, f, d, s)
  <2>1. t.pas = "joue" /\ ~CherchentFb(t) /\ t.nom \in {"rach", "chk", "idle"}
    BY <1>10 DEF PhAcces, Joueur, CherchentFb
  <2>2. ~Arret(u)
    BY <1>2, <2>1, ArretFaits
  <2>3. u.blocs = t.blocs
    BY <1>3, <1>10, JeuxDistincts DEF NoteBlocs, PhAcces
  <2>4. PhAcces(u, m, f + 1, d, s)
    BY <1>1, <1>2, <1>3, <1>4, <1>10, <2>2 DEF PhAcces, Joueur
  <2> QED BY <1>2, <2>3, <2>4 DEF Phase, Compte
<1>11. CASE PhBlocs(t, m, f, d, s)
  <2>1. t.blocs # Essais /\ t.blocs < Essais
    BY <1>1, <1>11 DEF PhBlocs, Compte
  <2>2. u.blocs <= Essais
    BY <1>1, <2>1 DEF NoteBlocs
  <2>3. u.blocs = Essais => Arret(u)
    BY <1>1, <1>2, <1>11, ArretFaits DEF PhBlocs
  <2>4. s = NbSetUl => d < f + 1
    BY <1>1, <1>11, Longueurs DEF PhBlocs, Passe
  <2>5. Bloc(u) = Bloc(t) /\ Trame0(u) = Trame0(t)
    BY <1>2 DEF Bloc, Trame0
  <2>6. Passe(f, d, s) \/ (s = Bloc(t) /\ d <= f /\ (d + 1) % 51 = Trame0(t))
    BY <1>11 DEF PhBlocs
  <2>7. Passe(f + 1, d, s) \/ (s = Bloc(t) /\ d <= f + 1 /\ (d + 1) % 51 = Trame0(t))
    BY <1>3, <2>6
  <2>8. PhBlocs(u, m, f + 1, d, s)
    BY <1>2, <1>5, <1>11, <2>3, <2>4, <2>5, <2>7 DEF PhBlocs
  <2> QED BY <1>2, <1>11, <2>2, <2>8 DEF Phase, Compte, PhBlocs
<1>12. CASE PhVide(t, m, f, d, s)
  <2>1. Passe(f, d, s) \/ (s = NbSetUl /\ d <= f)
    BY <1>12 DEF PhVide
  <2>2. s = NbSetUl => d < f + 1
    BY <1>1, <2>1, Longueurs DEF Passe
  <2>3. u.blocs <= Essais
    <3>1. CASE u.blocs = t.blocs
      BY <3>1 DEF Compte
    <3>2. CASE u.blocs # t.blocs
      <4>1. s = NbSetUl /\ f = d /\ u.blocs = t.blocs + 1
        BY <1>3, <2>1, <3>2, BlocsDistincts DEF NoteBlocs
      <4>2. t.blocs # Essais
        BY <1>1, <1>12, <4>1 DEF PhVide
      <4> QED BY <1>1, <4>1, <4>2 DEF Compte
    <3> QED BY <3>1, <3>2
  <2>4. PhVide(u, m, f + 1, d, s)
    BY <1>1, <1>2, <1>3, <1>12, <2>1, <2>2 DEF PhVide
  <2> QED BY <1>2, <1>12, <2>3, <2>4 DEF Phase, Compte, PhVide
<1>13. CASE PhFini(t)
  BY <1>1, <1>13 DEF PhFini
<1> QED BY <1>6, <1>7, <1>8, <1>9, <1>10, <1>11, <1>12, <1>13 DEF Phase

LEMMA Congrus ==
  ASSUME NEW x \in Int, NEW y \in Int, x % 51 = y % 51, x < y
  PROVE  x + 51 <= y
OBVIOUS

\* The multiframe scheduler has a set for the next frame: the ring is free.
LEMMA BlocLibre ==
  ASSUME NEW t \in TestT, NEW m, NEW f \in Nat, NEW d \in Nat, NEW s \in Jeux,
         Phase(t, m, f, d, s), t.reste > 0, m.set # <<>>, (f + 2) % 51 = m.frame
  PROVE  PhBlocs(t, m, f, d, s) /\ Passe(f, d, s) /\ Len(m.set) = 6
<1>1. PhBlocs(t, m, f, d, s)
  <2>1. ~PhFini(t)
    <3>1. t.reste \in Nat
      BY TestChamps
    <3> QED BY <3>1 DEF PhFini
  <2> QED BY <2>1, Zenon DEF Phase, PhAttend, PhCherche, PhTrouve, PhSb, PhAcces, PhVide
<1>2. m.set = Bloc(t) /\ (m.set = NbSet \/ m.set = NbSetUl) /\ m.frame = Trame0(t)
  BY <1>1 DEF PhBlocs, Bloc
<1>3. Len(m.set) = 6
  BY <1>2, Longueurs
<1>4. CASE s = Bloc(t) /\ d <= f /\ (d + 1) % 51 = Trame0(t)
  <2>1. (d + 1) % 51 = (f + 2) % 51
    BY <1>2, <1>4
  <2>2. d + 6 <= f
    <3>1. d + 1 \in Int /\ f + 2 \in Int /\ d + 1 < f + 2
      BY <1>4
    <3>2. d + 1 + 51 <= f + 2
      BY <2>1, <3>1, Congrus
    <3> QED BY <3>2
  <2>3. Len(s) = 6
    BY <1>2, <1>3, <1>4
  <2> QED BY <1>1, <1>3, <2>2, <2>3 DEF Passe
<1> QED BY <1>1, <1>3, <1>4 DEF PhBlocs

LEMMA PhaseBloc ==
  ASSUME NEW t \in TestT, NEW u \in TestT, NEW m, NEW f \in Nat, NEW d \in Nat, NEW s \in Jeux,
         Phase(t, m, f, d, s), t.reste > 0, m.set # <<>>, (f + 2) % 51 = m.frame,
         Garde(t, u), NoteBlocs(t, u, f, d, s), Compte(t)
  PROVE  Phase(u, m, f + 1, f + 1, m.set) /\ Compte(u)
<1>1. PhBlocs(t, m, f, d, s) /\ Passe(f, d, s)
  BY BlocLibre
<1>2. t.blocs \in Nat /\ t.reste \in Nat /\ Essais \in Nat
  BY TestChamps, BancAssumption
<1>3. u.blocs = t.blocs
  <2>1. s = NbSet \/ s = NbSetUl => Len(s) = 6
    BY Longueurs
  <2> DEFINE l == Len(s)
  <2>2. l \in Nat /\ (s = NbSet \/ s = NbSetUl => l = 6) /\ d + l <= f
    BY <1>1, <2>1, JeuxFaits DEF Passe
  <2> HIDE DEF l
  <2>3. d + l <= f /\ l = 6 => f # d + 5 /\ f # d
    BY <2>2
  <2> QED BY <2>2, <2>3 DEF NoteBlocs
<1>4. u.blocs # Essais
  BY <1>1, <1>2, <1>3 DEF PhBlocs
<1>5. u.nom = t.nom /\ u.pas = t.pas /\ u.essai = t.essai /\ Bloc(u) = Bloc(t) /\ Trame0(u) = Trame0(t)
  BY DEF Garde, Bloc, Trame0
<1>6. f + 1 + 1 = f + 2
  OBVIOUS
<1>7. PhBlocs(u, m, f + 1, f + 1, m.set)
  BY <1>1, <1>4, <1>5, <1>6 DEF PhBlocs
<1> QED BY <1>3, <1>5, <1>7 DEF Phase, Compte

\* Only a search leaves its set in the ring with the answer still to come.
LEMMA JeuFb ==
  ASSUME NEW t \in TestT, NEW m, NEW f \in Nat, NEW d \in Nat, NEW s \in Jeux,
         Phase(t, m, f, d, s), t.reste > 0, s = FbSet, f \in d .. d + 13
  PROVE  PhCherche(t, m, f, d, s)
<1>1. ~Passe(f, d, s)
  BY Longueurs DEF Passe
<1>2. ~PhFini(t)
  <2>1. t.reste \in Nat
    BY TestChamps
  <2> QED BY <2>1 DEF PhFini
<1>3. s # SbSet /\ s # RachSet /\ s # ChkSet /\ s # NbSet /\ s # NbSetUl
  BY JeuxDistincts
<1>4. s # Bloc(t)
  BY <1>3 DEF Bloc
<1> QED BY <1>1, <1>2, <1>3, <1>4, Zenon DEF Phase, PhAttend, PhTrouve, PhSb, PhAcces, PhBlocs, PhVide

LEMMA PhaseDetecte ==
  ASSUME NEW t \in TestT, NEW u \in TestT, NEW m, NEW f \in Nat, NEW d \in Nat,
         PhCherche(t, m, f, d, FbSet), Garde(t, u), u.det = 1, u.blocs = t.blocs, Compte(t)
  PROVE  Phase(u, m, f + 1, 0, <<>>) /\ Compte(u)
<1>1. u.pas = "joue" /\ CherchentFb(u) /\ u.nom = t.nom /\ u.essai = t.essai /\ u.det # 0
  BY CherchentMeme DEF PhCherche, Garde, Cherche
<1>2. u.reste = 0
  BY <1>1, ArretFaits DEF Garde
<1>3. Passe(f + 1, 0, <<>>)
  BY Longueurs DEF Passe
<1>4. PhTrouve(u, m, f + 1, 0, <<>>)
  BY <1>1, <1>2, <1>3 DEF PhTrouve, PhCherche
<1> QED BY <1>1, <1>4 DEF Phase, Compte

RomPas(r, r2, b, e, fcch, residu, f, h, h2) ==
  /\ fcch => b # Aucun
  /\ r2.det = (e \/ fcch)
  /\ r2.toa = (IF fcch THEN 23 + 1250 * (f - b) + residu ELSE r.toa)
  /\ r2.debut = (IF b # Aucun /\ (fcch \/ f - b >= 11) THEN Aucun ELSE b)
  /\ h2 = (IF fcch THEN f ELSE h)

\* A search that is open is that of the try, from the frame after its command on.
LEMMA OuvertFaits ==
  ASSUME NEW t, NEW r, NEW h, NEW due, NEW f \in Nat, NEW d \in Nat, NEW b,
         t.pas # "fini", Recherche(t, r, h, due, f, d), b = r.debut \/ (b = f /\ due), b # Aucun
  PROVE  Cherche(t) /\ b = d + 1 /\ f \in d + 1 .. d + 12
<1>1. CASE b = r.debut
  <2>1. Cherche(t) /\ r.debut = d + 1 /\ f \in d + 2 .. d + 12
    BY <1>1 DEF Recherche
  <2> QED BY <1>1, <2>1
<1>2. CASE b = f /\ due
  <2>1. Cherche(t) /\ f = d + 1
    BY <1>2 DEF Recherche
  <2> QED BY <1>2, <2>1
<1> QED BY <1>1, <1>2

\* Nothing goes on in the ROM while no try is searching.
LEMMA RomOisive ==
  ASSUME NEW t, NEW r \in RomT, NEW h, NEW due \in BOOLEAN, NEW f \in Nat, NEW d \in Nat,
         t.pas # "fini", Recherche(t, r, h, due, f, d), ~Cherche(t)
  PROVE  r.debut = Aucun /\ r.det = Non /\ due = Non
<1>1. r.det \in BOOLEAN
  BY DEF RomT
<1> QED BY <1>1 DEF Recherche, Non

LEMMA RechercheOisive ==
  ASSUME NEW t, NEW r \in RomT, r.debut = Aucun, r.det = Non, NEW h, NEW f, NEW d
  PROVE  Recherche(t, r, h, Non, f, d)
BY DEF Recherche, Non

\* The ROM in a search, in a frame where the answer is not taken.
LEMMA RechercheCalme ==
  ASSUME NEW t \in TestT, NEW u \in TestT, NEW m, NEW f \in Nat, NEW d \in Nat, NEW s \in Jeux, Phase(t, m, f, d, s), t.reste > 0,
         NEW r \in RomT, NEW r2 \in RomT, NEW h, NEW h2, NEW due \in BOOLEAN, NEW due2 \in BOOLEAN,
         Recherche(t, r, h, due, f, d), NEW b \in Trames, b = r.debut \/ (b = f /\ due),
         NEW fcch \in BOOLEAN, NEW residu \in Residus, RomPas(r, r2, b, r.det, fcch, residu, f, h, h2),
         Garde(t, u), NoteDet(t, u, f, d, s, r.det), due2 => s = FbSet /\ f = d
  PROVE  Recherche(u, r2, h2, due2, f + 1, d)
<1>1. t.pas # "fini" /\ t.reste \in Nat
  <2>1. t.reste \in Nat
    BY TestChamps
  <2> QED BY <2>1 DEF Phase, PhAttend, PhCherche, PhTrouve, PhSb, PhAcces, PhBlocs, PhVide, PhFini, Cherche, Joueur
<1>2. CherchentFb(u) = CherchentFb(t) /\ u.nom = t.nom /\ u.pas = t.pas
  BY CherchentMeme DEF Garde
<1>3. ASSUME Cherche(t) PROVE s = FbSet /\ f \in d .. d + 13 /\ t.det = 0 /\ (f # d + 13 => Cherche(u))
  <2>1. PhCherche(t, m, f, d, s)
    BY <1>3 DEF Phase, PhAttend, PhCherche, PhTrouve, PhSb, PhAcces, PhBlocs, PhVide, PhFini, Cherche, Joueur, CherchentFb
  <2>2. f # d + 13 => u.det = 0
    BY <1>3, <2>1 DEF NoteDet, PhCherche, Cherche
  <2> QED BY <1>2, <1>3, <2>1, <2>2 DEF PhCherche, Cherche
<1>4. b # Aucun => Cherche(t) /\ b = d + 1 /\ f \in d + 1 .. d + 12
  BY <1>1, OuvertFaits
<1>5. ~r.det
  <2> SUFFICES ASSUME r.det PROVE FALSE
    OBVIOUS
  <2>1. Cherche(t) /\ f \in d + 2 .. d + 13
    BY <1>1 DEF Recherche
  <2> QED BY <1>3, <2>1 DEF NoteDet
<1>6. r2.debut # Aucun => Cherche(u) /\ r2.debut = d + 1 /\ f + 1 \in d + 2 .. d + 12
  <2> SUFFICES ASSUME r2.debut # Aucun PROVE Cherche(u) /\ r2.debut = d + 1 /\ f + 1 \in d + 2 .. d + 12
    OBVIOUS
  <2>1. b # Aucun /\ r2.debut = b /\ ~(f - b >= 11)
    BY DEF RomPas
  <2>2. Cherche(t) /\ b = d + 1 /\ f \in d + 1 .. d + 12
    BY <1>4, <2>1
  <2>3. f \in d + 1 .. d + 11 /\ f # d + 13
    BY <2>1, <2>2
  <2> QED BY <1>3, <2>1, <2>2, <2>3
<1>7. r2.det => Cherche(u) /\ f + 1 \in d + 2 .. d + 13 /\ h2 = f + 1 - 1 /\ r2.debut = Aucun /\ Place(d + 1, r2.toa, f + 1 - 1)
  <2> SUFFICES ASSUME r2.det
               PROVE  Cherche(u) /\ f + 1 \in d + 2 .. d + 13 /\ h2 = f + 1 - 1 /\ r2.debut = Aucun /\ Place(d + 1, r2.toa, f + 1 - 1)
    OBVIOUS
  <2>1. fcch /\ b # Aucun
    BY <1>5 DEF RomPas
  <2>2. Cherche(t) /\ b = d + 1 /\ f \in d + 1 .. d + 12
    BY <1>4, <2>1
  <2>3. f + 1 \in d + 2 .. d + 13 /\ f # d + 13 /\ f + 1 - 1 = f /\ d + 1 <= f
    BY <2>2
  <2>4. h2 = f /\ r2.debut = Aucun /\ r2.toa = 23 + 1250 * (f - (d + 1)) + residu
    BY <2>1, <2>2 DEF RomPas
  <2>5. Place(d + 1, r2.toa, f)
    BY <2>3, <2>4 DEF Place
  <2> QED BY <1>3, <2>2, <2>3, <2>4, <2>5
<1>8. due2 => Cherche(u) /\ f + 1 = d + 1
  <2> SUFFICES ASSUME due2 PROVE Cherche(u) /\ f + 1 = d + 1
    OBVIOUS
  <2>1. s = FbSet /\ f = d /\ f \in d .. d + 13 /\ f # d + 13
    OBVIOUS
  <2>2. PhCherche(t, m, f, d, s)
    BY <2>1, JeuFb
  <2> QED BY <1>3, <2>1, <2>2 DEF PhCherche
<1> QED BY <1>6, <1>7, <1>8 DEF Recherche

LEMMA ReponseCalme ==
  ASSUME NEW t \in TestT, NEW u \in TestT, NEW m, NEW f \in Nat, NEW d \in Nat, NEW s \in Jeux, Phase(t, m, f, d, s), t.reste > 0,
         NEW h, NEW h2, NEW e, Garde(t, u), NoteDet(t, u, f, d, s, e), Reponse(t, h, f)
  PROVE  Reponse(u, h2, f + 1)
<1>1. t.pas # "fini" /\ t.reste \in Nat
  <2>1. t.reste \in Nat
    BY TestChamps
  <2> QED BY <2>1 DEF Phase, PhAttend, PhCherche, PhTrouve, PhSb, PhAcces, PhBlocs, PhVide, PhFini, Cherche, Joueur
<1>2. CherchentFb(u) = CherchentFb(t) /\ u.nom = t.nom /\ u.pas = t.pas /\ u.essai = t.essai
  BY CherchentMeme DEF Garde
<1>3. ~(t.nom = "fbsb" /\ t.essai = 2 /\ t.pas \in {"debut", "attend"})
  BY <1>1 DEF Reponse
<1>4. ~(u.det = 1 /\ Tenu(u))
  <2> SUFFICES ASSUME u.det = 1, Tenu(u) PROVE FALSE
    OBVIOUS
  <2>1. t.pas = "joue" /\ CherchentFb(t)
    BY <1>2, <1>3 DEF Tenu
  <2>2. t.det = 1
    BY DEF NoteDet
  <2>3. t.reste = 0
    BY <2>1, <2>2 DEF Phase, PhAttend, PhCherche, PhTrouve, PhSb, PhAcces, PhBlocs, PhVide, PhFini, Cherche, Joueur, CherchentFb
  <2> QED BY <2>3
<1> QED BY <1>2, <1>3, <1>4 DEF Reponse

LEMMA DeduiteSuit ==
  ASSUME NEW t, NEW u, NEW r, NEW r2, NEW h, NEW h2, NEW due, NEW f \in Nat, NEW d \in Nat, NEW b, NEW fcch \in BOOLEAN, NEW residu, NEW e,
         t.pas # "fini", Recherche(t, r, h, due, f, d), b = r.debut \/ (b = f /\ due),
         RomPas(r, r2, b, e, fcch, residu, f, h, h2), Garde(t, u), Deduite(t, h)
  PROVE  Deduite(u, h2)
<1>1. CherchentFb(u) = CherchentFb(t) /\ u.pas = t.pas /\ u.deduit = t.deduit
  BY CherchentMeme DEF Garde
<1>2. fcch => Cherche(t)
  <2>1. fcch => b # Aucun
    BY DEF RomPas
  <2>2. b # Aucun => Cherche(t)
    BY OuvertFaits
  <2> QED BY <2>1, <2>2
<1>3. fcch => t.deduit = Aucun
  BY <1>2 DEF Deduite, Cherche
<1>4. ~fcch => h2 = h
  BY DEF RomPas
<1> QED BY <1>1, <1>3, <1>4 DEF Deduite

\* The frame in which une_fb takes the answer.
LEMMA DetecteSuit ==
  ASSUME NEW t \in TestT, NEW u \in TestT, NEW m, NEW f \in Nat, NEW d \in Nat, PhCherche(t, m, f, d, FbSet), f \in d + 2 .. d + 13,
         NEW r \in RomT, r.det, NEW r2 \in RomT, NEW h, NEW h2, NEW due \in BOOLEAN, NEW due2 \in BOOLEAN,
         Recherche(t, r, h, due, f, d), NEW b \in Trames, b = r.debut \/ (b = f /\ due),
         NEW fcch \in BOOLEAN, NEW residu \in Residus, RomPas(r, r2, b, Non, fcch, residu, f, h, h2),
         Garde(t, u), u.det = 1, u.debut = d + 1, u.toa = r.toa, due2 => t.nom = "idle"
  PROVE  Recherche(u, r2, h2, due2, f + 1, 0) /\ Reponse(u, h2, f + 1)
<1>1. t.pas = "joue" /\ CherchentFb(t) /\ t.nom # "idle" /\ t.pas # "fini"
  BY DEF PhCherche, Cherche, CherchentFb
<1>2. h = f - 1 /\ r.debut = Aucun /\ Place(d + 1, r.toa, f - 1)
  BY <1>1 DEF Recherche
<1>3. b = Aucun
  <2> SUFFICES ASSUME b # Aucun PROVE FALSE
    OBVIOUS
  <2>1. b = f /\ due
    BY <1>2
  <2>2. f = d + 1
    BY <1>1, <2>1 DEF Recherche
  <2> QED BY <2>2
<1>4. ~fcch /\ r2.det = Non /\ r2.debut = Aucun /\ h2 = h
  BY <1>3, OuiNon DEF RomPas
<1>5. due2 = Non
  BY <1>1 DEF Non
<1>6. Recherche(u, r2, h2, due2, f + 1, 0)
  BY <1>4, <1>5, RechercheOisive
<1>7. f + 1 - 2 = f - 1
  OBVIOUS
<1>8. u.pas = "joue"
  BY <1>1 DEF Garde
<1>9. Reponse(u, h2, f + 1)
  BY <1>2, <1>4, <1>7, <1>8 DEF Reponse
<1> QED BY <1>6, <1>9

\* The facts of a frame, as the lemmas on the phases take them.
LEMMA MfDuFaits ==
  ASSUME NEW t
  PROVE  MfDu(t) <=> t.mf.set # <<>> /\ (fn + 2) % 51 = t.mf.frame
BY DEF MfDu

LEMMA PreteFaits ==
  ASSUME TypesBanc, NEW d \in Nat, NEW s \in Jeux, Phase(test, tdma.mf, fn, d, s), test.reste > 0
  PROVE  Prete(d, s)
<1>1. test \in TestT /\ fn \in Nat
  BY DEF TypesBanc
<1>2. MfDu(tdma) => Passe(fn, d, s) /\ Len(tdma.mf.set) <= 13
  <2> DEFINE m == tdma.mf
  <2>1. Phase(test, m, fn, d, s) /\ (MfDu(tdma) <=> m.set # <<>> /\ (fn + 2) % 51 = m.frame)
    BY MfDuFaits
  <2> HIDE DEF m
  <2>2. MfDu(tdma) => Passe(fn, d, s) /\ Len(m.set) = 6
    <3> SUFFICES ASSUME MfDu(tdma) PROVE Passe(fn, d, s) /\ Len(m.set) = 6
      OBVIOUS
    <3>1. m.set # <<>> /\ (fn + 2) % 51 = m.frame
      BY <2>1
    <3> DEFINE f == fn
               t == test
    <3>2. /\ f \in Nat /\ t \in TestT /\ Phase(t, m, f, d, s) /\ t.reste > 0 /\ m.set # <<>> /\ (f + 2) % 51 = m.frame
      BY <1>1, <2>1, <3>1
    <3> HIDE DEF f, t
    <3>3. Passe(f, d, s) /\ Len(m.set) = 6
      BY <3>2, BlocLibre
    <3> QED BY <3>3 DEF f
  <2>3. MfDu(tdma) => Passe(fn, d, s) /\ Len(m.set) <= 13
    <3> DEFINE l == Len(m.set)
    <3>1. l = 6 => l <= 13
      OBVIOUS
    <3> HIDE DEF l
    <3> QED BY <2>2, <3>1, Zenon DEF l
  <2> QED BY <2>3, Zenon DEF m
<1>3. s = FbSet /\ fn \in d + 2 .. d + 13 => tdma.mf.set = <<>>
  <2> DEFINE m == tdma.mf
  <2>1. Phase(test, m, fn, d, s)
    OBVIOUS
  <2> HIDE DEF m
  <2>2. fn \in d + 2 .. d + 13 => fn \in d .. d + 13
    BY <1>1
  <2>3. s = FbSet /\ fn \in d + 2 .. d + 13 => PhCherche(test, m, fn, d, s)
    BY <1>1, <2>1, <2>2, JeuFb
  <2> QED BY <2>3 DEF m, PhCherche
<1> QED BY <1>2, <1>3 DEF Prete

LEMMA PoursuitFaits ==
  ASSUME Poursuit
  PROVE  Garde(test, test')
BY Zenon DEF Poursuit, Garde

LEMMA TranquilleFaits ==
  ASSUME NEW d, NEW s, NEW b, NEW fcch, NEW residu, Tranquille(d, s, b, fcch, residu)
  PROVE  /\ RomPas(rom, rom', b, rom.det, fcch, residu, fn, hist.fcch, hist'.fcch)
         /\ NoteDet(test, test', fn, d, s, rom.det) /\ NoteBlocs(test, test', fn, d, s)
         /\ Due(api') => s = FbSet /\ fn = d
<1>1. RomPas(rom, rom', b, rom.det, fcch, residu, fn, hist.fcch, hist'.fcch)
  BY Zenon DEF Tranquille, RomSuit, RomPas
<1>2. NoteDet(test, test', fn, d, s, rom.det)
  BY Zenon DEF Tranquille, DetSuit, NoteDet
<1>3. NoteBlocs(test, test', fn, d, s)
  BY Zenon DEF Tranquille, BlocsSuit, NoteBlocs
<1>4. Due(api') => s = FbSet /\ fn = d
  BY Zenon DEF Tranquille, Due
<1> QED BY <1>1, <1>2, <1>3, <1>4

LEMMA DetecteeFaits ==
  ASSUME NEW d, NEW s, NEW b, NEW fcch, NEW residu, Detectee(d, s, b, fcch, residu)
  PROVE  /\ RomPas(rom, rom', b, Non, fcch, residu, fn, hist.fcch, hist'.fcch)
         /\ s = FbSet /\ fn \in d + 2 .. d + 13 /\ rom.det
         /\ test'.det = 1 /\ test'.debut = d + 1 /\ test'.toa = rom.toa /\ test'.blocs = test.blocs
         /\ Due(api') => test.nom = "idle"
         /\ Anneau(tdma', hist'.agenda, fn', 0, <<>>)
<1>1. RomPas(rom, rom', b, Non, fcch, residu, fn, hist.fcch, hist'.fcch)
  BY Zenon DEF Detectee, RomSuit, RomPas
<1>2. Due(api') => test.nom = "idle"
  BY Zenon DEF Detectee, Due
<1> QED BY <1>1, <1>2 DEF Detectee

LEMMA OuvertPas ==
  ASSUME NEW b, Ouvert(b)
  PROVE  b = rom.debut \/ (b = fn /\ Due(api))
BY DEF Ouvert, Due

LEMMA DueType == ASSUME NEW a \in ApiT PROVE Due(a) \in BOOLEAN
BY DEF Due

\* A set that follows is one of the witnesses of the invariant.
LEMMA SuiviPrime ==
  ASSUME fn' \in Nat, TypesSuite, Compte(test'), Reponse(test', hist'.fcch, fn'), Deduite(test', hist'.fcch), NEW d, NEW s,
         Anneau(tdma', hist'.agenda, fn', d, s), Phase(test', tdma'.mf, fn', d, s),
         Recherche(test', rom', hist'.fcch, Due(api'), fn', d)
  PROVE  BancInv'
<1>1. d \in Nat /\ s \in Jeux
  BY AnneauTypes
<1>2. d + Len(s) <= fn' + Seaux
  BY DEF Anneau
<1>3. d \in 0 .. fn' + Seaux
  <2> DEFINE f == fn'
             l == Len(s)
  <2>1. l \in Nat /\ f \in Nat /\ d + l <= f + Seaux
    BY <1>1, <1>2, JeuxFaits
  <2> HIDE DEF f, l
  <2>2. d \in 0 .. f + Seaux
    BY <1>1, <2>1, SeauxNat
  <2> QED BY <2>2 DEF f
<1>4. TypesBanc'
  BY DEF TypesBanc, TypesSuite
<1>5. Suivi(d, s)'
  BY DEF Suivi
<1> QED BY <1>1, <1>3, <1>4, <1>5 DEF BancInv

LEMMA SuiviEst ==
  ASSUME TypesBanc, Compte(test), Reponse(test, hist.fcch, fn), Deduite(test, hist.fcch), NEW d, NEW s,
         Anneau(tdma, hist.agenda, fn, d, s), Phase(test, tdma.mf, fn, d, s),
         Recherche(test, rom, hist.fcch, Due(api), fn, d)
  PROVE  BancInv
<1>1. d \in Nat /\ s \in Jeux
  BY AnneauTypes
<1>2. d + Len(s) <= fn + Seaux
  BY DEF Anneau
<1>3. d \in 0 .. fn + Seaux
  <2>1. Len(s) \in Nat
    BY <1>1, JeuxFaits
  <2> QED BY <1>1, <1>2, <2>1, SeauxNat DEF TypesBanc
<1>4. Suivi(d, s)
  BY DEF Suivi
<1> QED BY <1>1, <1>3, <1>4 DEF BancInv

LEMMA BancDepart ==
  ASSUME BancInit
  PROVE  BancInv
<1>1. TypesBanc
  <2>1. fn \in Nat /\ sch \in SchT
    BY DEF BancInit, SchT
  <2>2. api \in ApiT
    <3>1. VideW \in PagesW /\ ZeroR \in PagesR
      BY DEF VideW, ZeroR, PageW, PageR, PagesW, PagesR, Taches, Trames, Aucun
    <3> QED BY <3>1 DEF BancInit, ApiT
  <2>3. tdma \in TdmaT
    <3>1. <<>> \in Seq(Items) /\ <<>> \in Jeux
      BY DEF Jeux
    <3>2. [b \in 0 .. Seaux - 1 |-> <<>>] \in [0 .. Seaux - 1 -> Seq(Items)] /\ 0 \in 0 .. Seaux - 1
      BY <3>1, SeauxNat
    <3> QED BY <3>1, <3>2 DEF BancInit, TdmaT
  <2>4. rom \in RomT
    BY DEF BancInit, RomT, Trames, Aucun
  <2>5. test \in TestT
    BY DEF BancInit, TestT, Pas, Verdicts, Trames, Aucun
  <2>6. hist \in HistT
    BY DEF BancInit, HistT, Trames, Aucun
  <2> QED BY <2>1, <2>2, <2>3, <2>4, <2>5, <2>6 DEF TypesBanc
<1>2. Anneau(tdma, {}, fn, 0, <<>>)
  <2>1. tdma \in TdmaT /\ fn \in Nat
    BY <1>1 DEF TypesBanc
  <2>2. \A k \in 0 .. Seaux - 1 : tdma.seau[k] = <<>>
    BY DEF BancInit
  <2> QED BY <2>1, <2>2, AnneauVide
<1>3. Phase(test, tdma.mf, fn, 0, <<>>)
  <2>1. Passe(fn, 0, <<>>)
    BY Longueurs DEF BancInit, Passe
  <2>2. PhAttend(test, tdma.mf, fn, 0, <<>>)
    BY <2>1 DEF BancInit, PhAttend
  <2> QED BY <2>2 DEF Phase
<1>4. Recherche(test, rom, hist.fcch, Due(api), fn, 0)
  BY DEF BancInit, Recherche, Due
<1>5. Compte(test) /\ Reponse(test, hist.fcch, fn) /\ Deduite(test, hist.fcch)
  <2>1. test.blocs = 0 /\ test.det = 0 /\ test.essai = 0 /\ test.deduit = Aucun
    BY DEF BancInit
  <2> QED BY <2>1, BancAssumption DEF Compte, Reponse, Deduite
<1>6. hist.agenda = {}
  BY DEF BancInit
<1> QED BY <1>1, <1>2, <1>3, <1>4, <1>5, <1>6, SuiviEst

LEMMA PasFini ==
  ASSUME NEW t \in TestT, NEW m, NEW f, NEW d, NEW s, Phase(t, m, f, d, s), t.reste > 0
  PROVE  t.pas # "fini"
<1>1. ~PhFini(t)
  <2>1. t.reste \in Nat
    BY TestChamps
  <2> QED BY <2>1 DEF PhFini
<1>2. PhAttend(t, m, f, d, s) => t.pas # "fini"
  BY DEF PhAttend
<1>3. PhCherche(t, m, f, d, s) \/ PhTrouve(t, m, f, d, s) \/ PhSb(t, m, f, d, s) \/ PhAcces(t, m, f, d, s) => t.pas # "fini"
  BY DEF PhCherche, PhTrouve, PhSb, PhAcces, Cherche, Joueur
<1>4. PhBlocs(t, m, f, d, s) \/ PhVide(t, m, f, d, s) => t.pas # "fini"
  BY DEF PhBlocs, PhVide
<1> QED BY <1>1, <1>2, <1>3, <1>4, Zenon DEF Phase

\* What a frame starts from, and what it leaves.
Encours(t, u, m, f, d, s, r, h, due) ==
  /\ Phase(t, m, f, d, s) /\ t.reste > 0 /\ Recherche(t, r, h, due, f, d) /\ Garde(t, u)
  /\ Compte(t) /\ Reponse(t, h, f) /\ Deduite(t, h)
Suivante(u, m, f, d, s, r2, h2, due2) ==
  /\ Phase(u, m, f + 1, d, s) /\ Compte(u) /\ Recherche(u, r2, h2, due2, f + 1, d)
  /\ Reponse(u, h2, f + 1) /\ Deduite(u, h2)

\* A frame in which nothing is found and no block begins.
LEMMA PasCalme ==
  ASSUME NEW t \in TestT, NEW u \in TestT, NEW m, NEW f \in Nat, NEW d \in Nat, NEW s \in Jeux,
         NEW r \in RomT, NEW r2 \in RomT, NEW h, NEW h2, NEW due \in BOOLEAN, NEW due2 \in BOOLEAN,
         Encours(t, u, m, f, d, s, r, h, due), NEW b \in Trames, b = r.debut \/ (b = f /\ due),
         NEW fcch \in BOOLEAN, NEW residu \in Residus, RomPas(r, r2, b, r.det, fcch, residu, f, h, h2),
         NoteDet(t, u, f, d, s, r.det), NoteBlocs(t, u, f, d, s), due2 => s = FbSet /\ f = d
  PROVE  Suivante(u, m, f, d, s, r2, h2, due2)
<1> /\ Phase(t, m, f, d, s) /\ t.reste > 0 /\ Recherche(t, r, h, due, f, d) /\ Garde(t, u)
    /\ Compte(t) /\ Reponse(t, h, f) /\ Deduite(t, h)
  BY DEF Encours
<1>1. Phase(u, m, f + 1, d, s) /\ Compte(u)
  BY PhaseCalme
<1>2. Recherche(u, r2, h2, due2, f + 1, d)
  BY RechercheCalme
<1>3. Reponse(u, h2, f + 1)
  BY ReponseCalme
<1>4. Deduite(u, h2)
  BY PasFini, DeduiteSuit
<1> QED BY <1>1, <1>2, <1>3, <1>4, Zenon DEF Suivante

\* A frame in which a block begins.
Echoit(m, f) == m.set # <<>> /\ (f + 2) % 51 = m.frame
SuivanteBloc(u, m, f, r2, h2, due2) == Suivante(u, m, f, f + 1, m.set, r2, h2, due2)
LEMMA PasBloc ==
  ASSUME NEW t \in TestT, NEW u \in TestT, NEW m, NEW f \in Nat, NEW d \in Nat, NEW s \in Jeux,
         Echoit(m, f),
         NEW r \in RomT, NEW r2 \in RomT, NEW h, NEW h2, NEW due \in BOOLEAN, NEW due2 \in BOOLEAN,
         Encours(t, u, m, f, d, s, r, h, due), NEW b \in Trames, b = r.debut \/ (b = f /\ due),
         NEW fcch \in BOOLEAN, NEW residu \in Residus, RomPas(r, r2, b, r.det, fcch, residu, f, h, h2),
         NoteDet(t, u, f, d, s, r.det), NoteBlocs(t, u, f, d, s), due2 => s = FbSet /\ f = d
  PROVE  SuivanteBloc(u, m, f, r2, h2, due2)
<1> /\ Phase(t, m, f, d, s) /\ t.reste > 0 /\ Recherche(t, r, h, due, f, d) /\ Garde(t, u)
    /\ Compte(t) /\ Reponse(t, h, f) /\ Deduite(t, h)
  BY DEF Encours
<1> m.set # <<>> /\ (f + 2) % 51 = m.frame
  BY DEF Echoit
<1>1. Phase(u, m, f + 1, f + 1, m.set) /\ Compte(u)
  BY PhaseBloc
<1>2. PhBlocs(t, m, f, d, s) /\ Passe(f, d, s)
  BY BlocLibre
<1>3. t.pas = "joue" /\ t.nom \in {"nb", "tx"} /\ ~Cherche(t) /\ t.pas # "fini"
  BY <1>2 DEF PhBlocs, Cherche, CherchentFb
<1>4. r.debut = Aucun /\ r.det = Non /\ due = Non
  BY <1>3, RomOisive
<1>5. r2.debut = Aucun /\ r2.det = Non
  <2>1. b = Aucun /\ ~fcch
    BY <1>4 DEF RomPas, Non
  <2> QED BY <1>4, <2>1 DEF RomPas, Non
<1>6. due2 = Non
  <2>1. s = FbSet => ~(f = d)
    <3> DEFINE l == Len(s)
    <3>1. (s = FbSet => l = 14) /\ d + l <= f
      BY <1>2, Longueurs DEF Passe
    <3> HIDE DEF l
    <3> QED BY <3>1
  <2>2. ~due2
    BY <2>1, Zenon
  <2> QED BY <2>2 DEF Non
<1>7. Recherche(u, r2, h2, due2, f + 1, f + 1)
  BY <1>5, <1>6, RechercheOisive
<1>8. Reponse(u, h2, f + 1)
  BY ReponseCalme
<1>9. Deduite(u, h2)
  BY <1>3, DeduiteSuit
<1> QED BY <1>1, <1>7, <1>8, <1>9, Zenon DEF SuivanteBloc, Suivante

\* The frame in which une_fb takes the answer.
Repondue(t, u, r, f, d, s, due2) ==
  /\ s = FbSet /\ f \in d + 2 .. d + 13 /\ r.det
  /\ u.det = 1 /\ u.debut = d + 1 /\ u.toa = r.toa /\ u.blocs = t.blocs
  /\ due2 => t.nom = "idle"
LEMMA PasDetecte ==
  ASSUME NEW t \in TestT, NEW u \in TestT, NEW m, NEW f \in Nat, NEW d \in Nat, NEW s \in Jeux,
         NEW r \in RomT, NEW r2 \in RomT, NEW h, NEW h2, NEW due \in BOOLEAN, NEW due2 \in BOOLEAN,
         Encours(t, u, m, f, d, s, r, h, due), NEW b \in Trames, b = r.debut \/ (b = f /\ due),
         NEW fcch \in BOOLEAN, NEW residu \in Residus, RomPas(r, r2, b, Non, fcch, residu, f, h, h2),
         Repondue(t, u, r, f, d, s, due2)
  PROVE  Suivante(u, m, f, 0, <<>>, r2, h2, due2)
<1> /\ Phase(t, m, f, d, s) /\ t.reste > 0 /\ Recherche(t, r, h, due, f, d) /\ Garde(t, u)
    /\ Compte(t) /\ Reponse(t, h, f) /\ Deduite(t, h)
  BY DEF Encours
<1>a. s = FbSet
  BY DEF Repondue
<1>b. /\ f \in d + 2 .. d + 13 /\ r.det
      /\ u.det = 1 /\ u.debut = d + 1 /\ u.toa = r.toa /\ u.blocs = t.blocs
      /\ due2 => t.nom = "idle"
  BY DEF Repondue
<1>1. PhCherche(t, m, f, d, s)
  <2>1. f \in d .. d + 13
    BY <1>b
  <2> QED BY <1>a, <2>1, JeuFb
<1>2. PhCherche(t, m, f, d, FbSet)
  BY <1>a, <1>1
<1>3. Phase(u, m, f + 1, 0, <<>>) /\ Compte(u)
  BY <1>2, <1>b, PhaseDetecte
<1>4. Recherche(u, r2, h2, due2, f + 1, 0) /\ Reponse(u, h2, f + 1)
  BY <1>2, <1>b, DetecteSuit
<1>5. Deduite(u, h2)
  BY PasFini, DeduiteSuit
<1> QED BY <1>3, <1>4, <1>5, Zenon DEF Suivante

LEMMA TrameInv ==
  ASSUME BancInv, Trame
  PROVE  BancInv'
<1>1. TypesBanc /\ Compte(test) /\ Reponse(test, hist.fcch, fn) /\ Deduite(test, hist.fcch)
  BY DEF BancInv
<1>2. PICK d \in 0 .. fn + Seaux, s \in Jeux : Suivi(d, s)
  BY DEF BancInv
<1>3. Anneau(tdma, hist.agenda, fn, d, s) /\ Phase(test, tdma.mf, fn, d, s) /\ Recherche(test, rom, hist.fcch, Due(api), fn, d)
  BY <1>2 DEF Suivi
<1>4. d \in Nat /\ s \in Jeux /\ fn \in Nat /\ test \in TestT /\ rom \in RomT /\ api \in ApiT /\ hist.fcch \in Trames
  BY <1>1, <1>3, AnneauTypes DEF TypesBanc, HistT
<1>5. test.reste > 0 /\ fn' = fn + 1
  BY DEF Trame
<1>6. Prete(d, s)
  BY <1>1, <1>3, <1>4, <1>5, PreteFaits
<1>7. /\ TypesSuite /\ Poursuit
      /\ \E b \in Trames, fcch \in BOOLEAN, residu \in Residus :
           Ouvert(b) /\ (Tranquille(d, s, b, fcch, residu) \/ Detectee(d, s, b, fcch, residu))
  BY <1>1, <1>3, <1>6, TrameCas
<1>8. PICK b \in Trames, fcch \in BOOLEAN, residu \in Residus :
        Ouvert(b) /\ (Tranquille(d, s, b, fcch, residu) \/ Detectee(d, s, b, fcch, residu))
  BY <1>7
<1>9. Garde(test, test') /\ tdma'.mf = tdma.mf
  BY <1>7, PoursuitFaits DEF Poursuit
<1>10. b = rom.debut \/ (b = fn /\ Due(api))
  BY <1>8, OuvertPas
<1>11. rom' \in RomT /\ test' \in TestT /\ Due(api) \in BOOLEAN /\ Due(api') \in BOOLEAN
  BY <1>4, <1>7, DueType DEF TypesSuite
<1>12. fn' \in Nat
  BY <1>4, <1>5
<1> DEFINE f == fn
           t == test
           u == test'
           m == tdma.mf
           r == rom
           r2 == rom'
           h == hist.fcch
           h2 == hist'.fcch
           due == Due(api)
           due2 == Due(api')
<1>13. /\ t \in TestT /\ u \in TestT /\ f \in Nat /\ r \in RomT /\ r2 \in RomT /\ due \in BOOLEAN /\ due2 \in BOOLEAN
       /\ Encours(t, u, m, f, d, s, r, h, due) /\ (b = r.debut \/ (b = f /\ due))
  BY <1>1, <1>3, <1>4, <1>5, <1>9, <1>10, <1>11 DEF Encours
<1>14. CASE Tranquille(d, s, b, fcch, residu)
  <2>1. /\ RomPas(rom, rom', b, rom.det, fcch, residu, fn, hist.fcch, hist'.fcch)
        /\ NoteDet(test, test', fn, d, s, rom.det) /\ NoteBlocs(test, test', fn, d, s)
        /\ Due(api') => s = FbSet /\ fn = d
    BY <1>14, TranquilleFaits
  <2>2. /\ RomPas(r, r2, b, r.det, fcch, residu, f, h, h2)
        /\ NoteDet(t, u, f, d, s, r.det) /\ NoteBlocs(t, u, f, d, s)
        /\ due2 => s = FbSet /\ f = d
    BY <2>1
  <2>3. CASE ~MfDu(tdma)
    <3> HIDE DEF f, t, u, m, r, r2, h, h2, due, due2
    <3>1. Suivante(u, m, f, d, s, r2, h2, due2)
      BY <1>4, <1>8, <1>13, <2>2, PasCalme
    <3> USE DEF f, t, u, m, r, r2, h, h2, due, due2
    <3>2. Anneau(tdma', hist'.agenda, fn', d, s)
      BY <1>14, <2>3 DEF Tranquille
    <3>3. /\ Phase(test', tdma'.mf, fn', d, s) /\ Compte(test') /\ Recherche(test', rom', hist'.fcch, Due(api'), fn', d)
          /\ Reponse(test', hist'.fcch, fn') /\ Deduite(test', hist'.fcch)
      BY <3>1, <1>5, <1>9 DEF Suivante
    <3> HIDE DEF f, t, u, m, r, r2, h, h2, due, due2
    <3> QED BY <1>7, <1>12, <3>2, <3>3, SuiviPrime
  <2>4. CASE MfDu(tdma)
    <3>1. Echoit(m, f)
      BY <2>4, MfDuFaits DEF Echoit
    <3> HIDE DEF f, t, u, m, r, r2, h, h2, due, due2
    <3>2. SuivanteBloc(u, m, f, r2, h2, due2)
      BY <1>4, <1>8, <1>13, <2>2, <3>1, PasBloc
    <3> USE DEF f, t, u, m, r, r2, h, h2, due, due2
    <3>3. Anneau(tdma', hist'.agenda, fn', fn + 1, tdma.mf.set)
      BY <1>14, <2>4 DEF Tranquille
    <3>4. /\ Phase(test', tdma'.mf, fn', fn + 1, tdma.mf.set) /\ Compte(test')
          /\ Recherche(test', rom', hist'.fcch, Due(api'), fn', fn + 1)
          /\ Reponse(test', hist'.fcch, fn') /\ Deduite(test', hist'.fcch)
      BY <3>2, <1>5, <1>9 DEF SuivanteBloc, Suivante
    <3> HIDE DEF f, t, u, m, r, r2, h, h2, due, due2
    <3> QED BY <1>7, <1>12, <3>3, <3>4, SuiviPrime
  <2> QED BY <2>3, <2>4
<1>15. CASE Detectee(d, s, b, fcch, residu)
  <2>1. /\ RomPas(rom, rom', b, Non, fcch, residu, fn, hist.fcch, hist'.fcch)
        /\ s = FbSet /\ fn \in d + 2 .. d + 13 /\ rom.det
        /\ test'.det = 1 /\ test'.debut = d + 1 /\ test'.toa = rom.toa /\ test'.blocs = test.blocs
        /\ Due(api') => test.nom = "idle"
        /\ Anneau(tdma', hist'.agenda, fn', 0, <<>>)
    BY <1>15, DetecteeFaits
  <2>2. RomPas(r, r2, b, Non, fcch, residu, f, h, h2) /\ Repondue(t, u, r, f, d, s, due2)
    BY <2>1 DEF Repondue
  <2> HIDE DEF f, t, u, m, r, r2, h, h2, due, due2
  <2>3. Suivante(u, m, f, 0, <<>>, r2, h2, due2)
    BY <1>4, <1>8, <1>13, <2>2, PasDetecte
  <2> USE DEF f, t, u, m, r, r2, h, h2, due, due2
  <2>4. /\ Phase(test', tdma'.mf, fn', 0, <<>>) /\ Compte(test') /\ Recherche(test', rom', hist'.fcch, Due(api'), fn', 0)
        /\ Reponse(test', hist'.fcch, fn') /\ Deduite(test', hist'.fcch)
    BY <2>3, <1>5, <1>9 DEF Suivante
  <2> HIDE DEF f, t, u, m, r, r2, h, h2, due, due2
  <2> QED BY <1>7, <1>12, <2>1, <2>4, SuiviPrime
<1> QED BY <1>8, <1>14, <1>15

-----------------------------------------------------------------------------
(* What a test does between two frames.                                    *)

LEMMA PhaseAttente ==
  ASSUME NEW t \in TestT, NEW m, NEW f, NEW d, NEW s, Phase(t, m, f, d, s), t.pas \in {"debut", "attend"}
  PROVE  PhAttend(t, m, f, d, s)
<1>1. ~PhCherche(t, m, f, d, s) /\ ~PhTrouve(t, m, f, d, s) /\ ~PhSb(t, m, f, d, s)
  BY DEF PhCherche, PhTrouve, PhSb, Cherche, Joueur
<1>2. ~PhAcces(t, m, f, d, s) /\ ~PhBlocs(t, m, f, d, s) /\ ~PhVide(t, m, f, d, s) /\ ~PhFini(t)
  BY DEF PhAcces, PhBlocs, PhVide, PhFini, Joueur
<1> QED BY <1>1, <1>2, Zenon DEF Phase

\* Eleven frames after a frame at the latest, an SCH.
LEMMA SchProche ==
  ASSUME NEW f \in Nat
  PROVE  \E s \in f .. f + 11 : Type(s) = "S" /\ \A x \in f .. s - 1 : Type(x) # "S"
<1> DEFINE p == f % 51
           q == f \div 51
           n == IF p <= 1 THEN 1 - p ELSE IF p <= 11 THEN 11 - p ELSE IF p <= 21 THEN 21 - p
                ELSE IF p <= 31 THEN 31 - p ELSE IF p <= 41 THEN 41 - p ELSE 52 - p
<1>1. f = 51 * q + p /\ p \in 0 .. 50 /\ q \in Nat
  OBVIOUS
<1> HIDE DEF p, q
<1>2. n \in 0 .. 11
  BY <1>1
<1>3. \A i \in 0 .. 11 : (f + i) % 51 = IF p + i <= 50 THEN p + i ELSE p + i - 51
  BY <1>1
<1>4. Type(f + n) = "S"
  <2>1. (f + n) % 51 = IF p + n <= 50 THEN p + n ELSE p + n - 51
    BY <1>2, <1>3
  <2> DEFINE y == (f + n) % 51
  <2>2. y \in {1, 11, 21, 31, 41}
    BY <1>1, <2>1
  <2> HIDE DEF y, n
  <2>3. y % 10 = 1 /\ y <= 41
    BY <2>2
  <2> QED BY <2>3 DEF Type, y
<1>5. \A i \in 0 .. n - 1 : Type(f + i) # "S"
  <2> TAKE i \in 0 .. n - 1
  <2> DEFINE y == (f + i) % 51
  <2>1. y = IF p + i <= 50 THEN p + i ELSE p + i - 51
    BY <1>2, <1>3
  <2>2. ~(y % 10 = 1 /\ y <= 41)
    <3>1. i \in 0 .. 10
      BY <1>2
    <3> HIDE DEF y
    <3>2. y \in 0 .. 50 /\ y \notin {1, 11, 21, 31, 41}
      BY <1>1, <2>1, <3>1
    <3> QED BY <3>2
  <2> HIDE DEF y, n
  <2> QED BY <2>2 DEF Type, y
<1> HIDE DEF n
<1>6. \A x \in f .. f + n - 1 : Type(x) # "S"
  <2> TAKE x \in f .. f + n - 1
  <2>1. x - f \in 0 .. n - 1 /\ f + (x - f) = x
    BY <1>2
  <2> QED BY <1>5, <2>1
<1>7. f + n \in f .. f + 11
  BY <1>2
<1> QED BY <1>4, <1>6, <1>7

LEMMA ProchainFaits ==
  ASSUME fn \in Nat
  PROVE  ProchainSch \in fn + 2 .. fn + 13
<1> DEFINE f == fn + 2
<1>1. f \in Nat /\ fn + 13 = f + 11
  OBVIOUS
<1> HIDE DEF f
<1>2. \E s \in f .. f + 11 : Type(s) = "S" /\ \A x \in f .. s - 1 : Type(x) # "S"
  BY <1>1, SchProche
<1>3. \E s \in fn + 2 .. fn + 13 : Type(s) = "S" /\ \A x \in fn + 2 .. s - 1 : Type(x) # "S"
  BY <1>1, <1>2 DEF f
<1> QED BY <1>3, Zenon DEF ProchainSch

LEMMA AvantType ==
  ASSUME fn \in Nat, test \in TestT
  PROVE  Avant \in Nat /\ (test.nom = "fbsb" /\ test.essai = 2 => Avant = 0)
<1>1. ProchainSch - 2 - fn \in Nat /\ test.essai \in Nat
  BY ProchainFaits, TestChamps
<1>2. (fn \div 51 + 2) * 51 + 9 - fn \in Nat
  <2> DEFINE q == fn \div 51
  <2>1. q \in Nat /\ fn <= 51 * q + 50
    OBVIOUS
  <2> HIDE DEF q
  <2>2. (q + 2) * 51 + 9 - fn \in Nat
    BY <2>1
  <2> QED BY <2>2 DEF q
<1> DEFINE a == ProchainSch - 2 - fn
           b == (fn \div 51 + 2) * 51 + 9 - fn
           e == test.essai
<1>3. a \in Nat /\ b \in Nat /\ e \in Nat
  BY <1>1, <1>2
<1>4. Avant = CASE test.nom = "fb" -> 3 + 7 * e
                [] test.nom = "fbpos" -> b
                [] test.nom = "fbsb" /\ e = 0 -> 7
                [] test.nom = "sb" -> a
                [] test.nom = "rach" -> 4
                [] OTHER -> 0
  BY Zenon DEF Avant
<1> HIDE DEF a, b, e
<1>5. 3 + 7 * e \in Nat /\ 7 \in Nat /\ 4 \in Nat /\ 0 \in Nat
  BY <1>3
<1>6. Avant \in Nat
  BY <1>3, <1>4, <1>5
<1>7. test.nom = "fbsb" /\ e = 2 => Avant = 0
  BY <1>4
<1> QED BY <1>6, <1>7 DEF e

\* A step outside of a frame keeps fn, the API, the ROM and the SCH.
HorsTrame == UNCHANGED <<fn, api, rom, sch>>
LEMMA HorsTramePrime ==
  ASSUME TypesBanc, HorsTrame, tdma' \in TdmaT, test' \in TestT, hist' \in HistT, hist'.fcch = hist.fcch,
         Compte(test'), Reponse(test', hist.fcch, fn), Deduite(test', hist.fcch), NEW d, NEW s,
         Anneau(tdma', hist'.agenda, fn, d, s), Phase(test', tdma'.mf, fn, d, s),
         Recherche(test', rom, hist.fcch, Due(api), fn, d)
  PROVE  BancInv'
<1>1. fn' = fn /\ api' = api /\ rom' = rom /\ sch' = sch
  BY DEF HorsTrame
<1>2. fn' \in Nat /\ TypesSuite
  BY <1>1 DEF TypesBanc, TypesSuite
<1> DEFINE due == Due(api)
           due2 == Due(api')
<1>3. due2 = due
  BY <1>1
<1> HIDE DEF due, due2
<1>4. Recherche(test', rom, hist.fcch, due, fn, d)
  BY DEF due
<1>5. /\ Compte(test') /\ Reponse(test', hist'.fcch, fn') /\ Deduite(test', hist'.fcch)
      /\ Anneau(tdma', hist'.agenda, fn', d, s) /\ Phase(test', tdma'.mf, fn', d, s)
      /\ Recherche(test', rom', hist'.fcch, due2, fn', d)
  BY <1>1, <1>3, <1>4
<1>6. Recherche(test', rom', hist'.fcch, Due(api'), fn', d)
  BY <1>5 DEF due2
<1> QED BY <1>2, <1>5, <1>6, SuiviPrime

\* The invariant, taken apart.
Apart(d, s) ==
  /\ TypesBanc /\ Compte(test) /\ Reponse(test, hist.fcch, fn) /\ Deduite(test, hist.fcch)
  /\ d \in Nat /\ s \in Jeux /\ Anneau(tdma, hist.agenda, fn, d, s) /\ Phase(test, tdma.mf, fn, d, s)
  /\ Recherche(test, rom, hist.fcch, Due(api), fn, d)
LEMMA BancApart ==
  ASSUME BancInv
  PROVE  \E d, s : Apart(d, s)
<1>1. PICK d \in 0 .. fn + Seaux, s \in Jeux : Suivi(d, s)
  BY DEF BancInv
<1>2. Anneau(tdma, hist.agenda, fn, d, s)
  BY <1>1 DEF Suivi
<1>3. d \in Nat /\ s \in Jeux
  BY <1>2, AnneauTypes
<1>4. Apart(d, s)
  BY <1>1, <1>3 DEF Apart, BancInv, Suivi
<1> QED BY <1>4

\* Without a search under way, the ROM is idle and stays so.
LEMMA RomLibre ==
  ASSUME NEW d, NEW s, Apart(d, s), test.pas # "fini", ~Cherche(test), NEW u, NEW d2
  PROVE  Recherche(u, rom, hist.fcch, Due(api), fn, d2)
<1> DEFINE h == hist.fcch
           due == Due(api)
<1>1. rom \in RomT /\ fn \in Nat /\ d \in Nat /\ due \in BOOLEAN /\ Recherche(test, rom, h, due, fn, d)
  BY DueType DEF Apart, TypesBanc
<1> HIDE DEF h, due
<1>2. rom.debut = Aucun /\ rom.det = Non /\ due = Non
  BY <1>1, RomOisive
<1>3. Recherche(u, rom, h, due, fn, d2)
  BY <1>1, <1>2, RechercheOisive
<1> QED BY <1>3 DEF h, due

LEMMA AttendreInv ==
  ASSUME BancInv, Attendre
  PROVE  BancInv'
<1>1. PICK d, s : Apart(d, s)
  BY BancApart
<1>2. test \in TestT /\ fn \in Nat /\ TypesBanc /\ tdma \in TdmaT /\ hist \in HistT
  BY <1>1 DEF Apart, TypesBanc
<1>3. test.pas = "debut" /\ tdma' = tdma /\ hist' = hist /\ HorsTrame
  BY DEF Attendre, HorsTrame
<1> DEFINE n == Avant
           v == IF test.nom = "sb" THEN ProchainSch ELSE test.vise
<1>4. n \in Nat /\ (test.nom = "fbsb" /\ test.essai = 2 => n = 0) /\ v \in Int
  BY <1>2, AvantType, ProchainFaits, TestChamps
<1>5. test' = [test EXCEPT !.pas = "attend", !.reste = n, !.vise = v]
  BY DEF Attendre
<1> HIDE DEF n, v
<1>6. /\ test' \in TestT /\ test'.pas = "attend" /\ test'.reste = n
      /\ test'.nom = test.nom /\ test'.essai = test.essai /\ test'.det = test.det /\ test'.debut = test.debut
      /\ test'.toa = test.toa /\ test'.deduit = test.deduit /\ test'.blocs = test.blocs
  BY <1>2, <1>4, <1>5 DEF TestT, Pas
<1> DEFINE t == test
           u == test'
           m == tdma.mf
           h == hist.fcch
<1>7. /\ u \in TestT /\ u.pas = "attend" /\ u.reste = n
      /\ u.nom = t.nom /\ u.essai = t.essai /\ u.det = t.det /\ u.debut = t.debut
      /\ u.toa = t.toa /\ u.deduit = t.deduit /\ u.blocs = t.blocs
      /\ t \in TestT /\ t.pas = "debut" /\ (t.nom = "fbsb" /\ t.essai = 2 => n = 0)
  BY <1>2, <1>3, <1>4, <1>6
<1>8. Compte(t) /\ Reponse(t, h, fn) /\ Deduite(t, h) /\ Phase(t, m, fn, d, s)
  BY <1>1 DEF Apart
<1> HIDE DEF t, u, m, h
<1>9. PhAttend(t, m, fn, d, s)
  BY <1>7, <1>8, PhaseAttente
<1>10. PhAttend(u, m, fn, d, s)
  BY <1>7, <1>9 DEF PhAttend
<1>11. Phase(u, m, fn, d, s)
  BY <1>10 DEF Phase
<1>12. Compte(u) /\ Deduite(u, h)
  BY <1>7, <1>8 DEF Compte, Deduite
<1>13. Tenu(u) = Tenu(t)
  BY <1>7 DEF Tenu
<1>14. Reponse(u, h, fn)
  BY <1>7, <1>8, <1>13 DEF Reponse
<1>15. ~Cherche(test) /\ test.pas # "fini"
  BY <1>3 DEF Cherche
<1>16. Recherche(test', rom, hist.fcch, Due(api), fn, d)
  BY <1>1, <1>15, RomLibre
<1>17. Anneau(tdma', hist'.agenda, fn, d, s) /\ hist'.fcch = hist.fcch
  BY <1>1, <1>3 DEF Apart
<1>18. Phase(test', tdma'.mf, fn, d, s) /\ Compte(test') /\ Reponse(test', hist.fcch, fn) /\ Deduite(test', hist.fcch)
  BY <1>3, <1>11, <1>12, <1>14 DEF t, u, m, h
<1> QED BY <1>2, <1>3, <1>6, <1>16, <1>17, <1>18, HorsTramePrime

LEMMA PlanterInv ==
  ASSUME BancInv, Planter
  PROVE  BancInv'
<1>1. PICK d, s : Apart(d, s)
  BY BancApart
<1>2. test \in TestT /\ fn \in Nat /\ TypesBanc /\ tdma \in TdmaT /\ hist \in HistT
  BY <1>1 DEF Apart, TypesBanc
<1>3. tdma' = tdma /\ hist' = hist /\ HorsTrame
  BY DEF Planter, HorsTrame
<1>4. test' = [test EXCEPT !.pas = "fini", !.reste = 0, !.verdict = "arret"]
  BY DEF Planter
<1>5. /\ test' \in TestT /\ test'.pas = "fini" /\ test'.reste = 0
      /\ test'.nom = test.nom /\ test'.essai = test.essai /\ test'.deduit = test.deduit /\ test'.blocs = test.blocs
  BY <1>2, <1>4 DEF TestT, Pas, Verdicts
<1>6. Phase(test', tdma'.mf, fn, d, s)
  BY <1>5 DEF Phase, PhFini
<1>7. Recherche(test', rom, hist.fcch, Due(api), fn, d) /\ Reponse(test', hist.fcch, fn)
  BY <1>5 DEF Recherche, Reponse
<1>8. Compte(test') /\ Deduite(test', hist.fcch)
  BY <1>1, <1>5 DEF Apart, Compte, Deduite
<1>9. Anneau(tdma', hist'.agenda, fn, d, s) /\ hist'.fcch = hist.fcch
  BY <1>1, <1>3 DEF Apart
<1> QED BY <1>2, <1>3, <1>5, <1>6, <1>7, <1>8, <1>9, HorsTramePrime

\* A set put in the ring outside of a frame.
Posee(off, set) ==
  LET e == Programmer([tdma |-> tdma, hist |-> hist], fn, off, set)
  IN  tdma' = e.tdma /\ hist' = e.hist
LEMMA PoseeFaits ==
  ASSUME NEW d, NEW s, Apart(d, s), Passe(fn, d, s), NEW off \in Nat, NEW set \in Jeux, off + Len(set) <= 14, Posee(off, set)
  PROVE  /\ tdma' \in TdmaT /\ tdma'.mf = tdma.mf /\ hist' \in HistT /\ hist'.fcch = hist.fcch
         /\ Anneau(tdma', hist'.agenda, fn, fn + off, set)
<1>1. tdma \in TdmaT /\ fn \in Nat /\ hist \in HistT /\ Anneau(tdma, hist.agenda, fn, d, s)
  BY DEF Apart, TypesBanc
<1> DEFINE T == TdmaScheduleSet(tdma, off, set)
           D == Dates(fn + off, set)
           g == hist.agenda
           G == g \cup D
           f == fn
           t == tdma
<1>2. off + Len(set) <= Seaux
  <2> DEFINE l == Len(set)
  <2>1. l \in Nat /\ off + l <= 14
    BY JeuxFaits
  <2> HIDE DEF l
  <2>2. off + l <= Seaux
    BY <2>1, SeauxNat
  <2> QED BY <2>2 DEF l
<1>3. tdma' = T /\ hist' = [hist EXCEPT !.agenda = @ \cup D]
  <2> DEFINE e == [tdma |-> tdma, hist |-> hist]
  <2> DEFINE e2 == [e EXCEPT !.tdma = TdmaScheduleSet(@, off, set), !.hist.agenda = @ \cup D]
  <2>1. tdma' = e2.tdma /\ hist' = e2.hist
    BY DEF Posee, Programmer
  <2> HIDE DEF D
  <2>2. e2.tdma = TdmaScheduleSet(e.tdma, off, set) /\ e2.hist = [e.hist EXCEPT !.agenda = @ \cup D]
    OBVIOUS
  <2>3. e.tdma = tdma /\ e.hist = hist
    OBVIOUS
  <2> HIDE DEF e, e2
  <2> QED BY <2>1, <2>2, <2>3
<1>4. T \in TdmaT /\ T.mf = tdma.mf /\ Anneau(T, g \cup Dates(f + off, set), f, f + off, set)
  <2>1. t \in TdmaT /\ f \in Nat /\ Anneau(t, g, f, d, s) /\ Passe(f, d, s)
    BY <1>1
  <2> HIDE DEF t, f, g
  <2>2. LET u == TdmaScheduleSet(t, off, set)
        IN  /\ u \in TdmaT /\ u.cur = t.cur /\ u.mf = t.mf
            /\ Anneau(u, g \cup Dates(f + off, set), f, f + off, set)
    BY <1>2, <2>1, AnneauPose
  <2> QED BY <2>2 DEF t, f, g
<1>5. Anneau(T, G, f, f + off, set)
  BY <1>4
<1> HIDE DEF T, D, g, G
<1>6. f \in Nat
  BY <1>1
<1>7. G \in SUBSET [date : Nat, item : Items]
  BY <1>5, <1>6, AgendaType
<1>8. hist' = [hist EXCEPT !.agenda = G]
  BY <1>3 DEF G, g
<1>9. hist' \in HistT /\ hist'.fcch = hist.fcch /\ hist'.agenda = G
  BY <1>1, <1>7, <1>8 DEF HistT
<1> QED BY <1>3, <1>4, <1>5, <1>9 DEF f

LEMMA JouerFaits ==
  ASSUME test \in TestT, NEW off, NEW set, NEW n \in Nat, Jouer(off, set, n)
  PROVE  /\ Posee(off, set)
         /\ test' \in TestT /\ test'.pas = "joue" /\ test'.reste = n /\ test'.det = 0 /\ test'.deduit = Aucun
         /\ test'.nom = test.nom /\ test'.essai = test.essai /\ test'.blocs = test.blocs
<1>1. Posee(off, set) /\ test' = [test EXCEPT !.pas = "joue", !.reste = n, !.det = 0, !.deduit = Aucun, !.sb = <<Aucun, Aucun>>]
  BY Zenon DEF Jouer, Posee
<1> DEFINE b == <<Aucun, Aucun>>
           a == Aucun
<1>2. b \in [1 .. 2 -> Trames] /\ a \in Int
  BY DEF Trames, Aucun
<1>3. test' = [test EXCEPT !.pas = "joue", !.reste = n, !.det = 0, !.deduit = a, !.sb = b]
  BY <1>1
<1> HIDE DEF a, b
<1> DEFINE x == [test EXCEPT !.pas = "joue", !.reste = n, !.det = 0]
<1>5. test' = [x EXCEPT !.deduit = a, !.sb = b]
  BY <1>3
<1>6. /\ x \in TestT /\ x.pas = "joue" /\ x.reste = n /\ x.det = 0
      /\ x.nom = test.nom /\ x.essai = test.essai /\ x.blocs = test.blocs
  <2> DEFINE z == 0
             p == "joue"
  <2>1. z \in -1 .. 1 /\ p \in Pas
    BY DEF Pas
  <2>2. x = [test EXCEPT !.pas = p, !.reste = n, !.det = z]
    BY DEF x
  <2> HIDE DEF z, p, x
  <2>3. /\ x \in TestT /\ x.pas = p /\ x.reste = n /\ x.det = z
        /\ x.nom = test.nom /\ x.essai = test.essai /\ x.blocs = test.blocs
    BY <2>1, <2>2 DEF TestT
  <2> QED BY <2>3 DEF z, p
<1> HIDE DEF x
<1>7. /\ test' \in TestT /\ test'.deduit = a /\ test'.pas = x.pas /\ test'.reste = x.reste /\ test'.det = x.det
      /\ test'.nom = x.nom /\ test'.essai = x.essai /\ test'.blocs = x.blocs
  BY <1>2, <1>5, <1>6 DEF TestT
<1>4. /\ test' \in TestT /\ test'.pas = "joue" /\ test'.reste = n /\ test'.det = 0 /\ test'.deduit = a
      /\ test'.nom = test.nom /\ test'.essai = test.essai /\ test'.blocs = test.blocs
  BY <1>6, <1>7
<1> QED BY <1>1, <1>4 DEF a

\* A try that plays a set.
Jouable(off, set, n) ==
  \A u \in TestT : \A m : u.pas = "joue" /\ u.det = 0 /\ u.nom = test.nom /\ u.essai = test.essai /\ u.reste = n /\ m.set = <<>>
                         => Phase(u, m, fn, fn + off, set)
LEMMA JouerInv ==
  ASSUME NEW d, NEW s, Apart(d, s), HorsTrame, test.pas = "attend", PhAttend(test, tdma.mf, fn, d, s),
         NEW off \in Nat, NEW set \in Jeux, off + Len(set) <= 14, NEW n \in Nat, Jouer(off, set, n),
         Jouable(off, set, n)
  PROVE  BancInv'
<1>1. test \in TestT /\ TypesBanc
  BY DEF Apart, TypesBanc
<1>2. /\ Posee(off, set)
      /\ test' \in TestT /\ test'.pas = "joue" /\ test'.reste = n /\ test'.det = 0 /\ test'.deduit = Aucun
      /\ test'.nom = test.nom /\ test'.essai = test.essai /\ test'.blocs = test.blocs
  BY <1>1, JouerFaits
<1>3. Passe(fn, d, s) /\ tdma.mf.set = <<>>
  BY DEF PhAttend
<1>4. /\ tdma' \in TdmaT /\ tdma'.mf = tdma.mf /\ hist' \in HistT /\ hist'.fcch = hist.fcch
      /\ Anneau(tdma', hist'.agenda, fn, fn + off, set)
  BY <1>2, <1>3, PoseeFaits
<1>5. Phase(test', tdma'.mf, fn, fn + off, set)
  BY <1>2, <1>3, <1>4 DEF Jouable
<1> DEFINE u == test'
           h == hist.fcch
<1>6. /\ u.pas = "joue" /\ u.det = 0 /\ u.deduit = Aucun
      /\ u.nom = test.nom /\ u.essai = test.essai /\ u.blocs = test.blocs
  BY <1>2
<1> HIDE DEF u, h
<1>7. Compte(u)
  BY <1>6 DEF Apart, Compte
<1>8. Reponse(u, h, fn) /\ Deduite(u, h)
  BY <1>6 DEF Reponse, Deduite
<1>9. ~Cherche(test) /\ test.pas # "fini"
  BY DEF Cherche
<1>10. Recherche(test', rom, hist.fcch, Due(api), fn, fn + off)
  BY <1>9, RomLibre
<1>11. Compte(test') /\ Reponse(test', hist.fcch, fn) /\ Deduite(test', hist.fcch)
  BY <1>7, <1>8 DEF u, h
<1> QED BY <1>1, <1>2, <1>4, <1>5, <1>10, <1>11, HorsTramePrime

\* The six sets that are played at once.
LEMMA JouableFb ==
  ASSUME fn \in Nat, CherchentFb(test)
  PROVE  Jouable(0, FbSet, 15)
<1> SUFFICES ASSUME NEW u \in TestT, NEW m, u.pas = "joue", u.det = 0, u.nom = test.nom, u.essai = test.essai, u.reste = 15,
                    m.set = <<>>
             PROVE  Phase(u, m, fn, fn + 0, FbSet)
  BY DEF Jouable
<1>1. Cherche(u)
  BY DEF Cherche, CherchentFb
<1>2. fn + 15 = fn + 0 + 15 /\ fn \in fn + 0 .. fn + 0 + 13
  OBVIOUS
<1>3. PhCherche(u, m, fn, fn + 0, FbSet)
  BY <1>1, <1>2 DEF PhCherche
<1> QED BY <1>3 DEF Phase

LEMMA JouableSb ==
  ASSUME fn \in Nat, test.nom = "sb"
  PROVE  Jouable(1, SbSet, 6)
<1> SUFFICES ASSUME NEW u \in TestT, NEW m, u.pas = "joue", u.nom = test.nom, u.reste = 6, m.set = <<>>
             PROVE  Phase(u, m, fn, fn + 1, SbSet)
  BY DEF Jouable
<1>1. fn + 6 = fn + 1 + 5
  OBVIOUS
<1>2. PhSb(u, m, fn, fn + 1, SbSet)
  BY <1>1 DEF PhSb, Joueur
<1> QED BY <1>2 DEF Phase

LEMMA JouableRach ==
  ASSUME fn \in Nat, test.nom = "rach"
  PROVE  Jouable(0, RachSet, 6)
<1> SUFFICES ASSUME NEW u \in TestT, NEW m, u.pas = "joue", u.nom = test.nom, u.reste = 6, m.set = <<>>
             PROVE  Phase(u, m, fn, fn + 0, RachSet)
  BY DEF Jouable
<1>1. fn + 6 = fn + 0 + 6
  OBVIOUS
<1>2. PhAcces(u, m, fn, fn + 0, RachSet)
  BY <1>1 DEF PhAcces, Joueur
<1> QED BY <1>2 DEF Phase

LEMMA JouableChk ==
  ASSUME fn \in Nat, test.nom = "chk"
  PROVE  Jouable(1, ChkSet, 6)
<1> SUFFICES ASSUME NEW u \in TestT, NEW m, u.pas = "joue", u.nom = test.nom, u.reste = 6, m.set = <<>>
             PROVE  Phase(u, m, fn, fn + 1, ChkSet)
  BY DEF Jouable
<1>1. fn + 6 = fn + 1 + 5
  OBVIOUS
<1>2. PhAcces(u, m, fn, fn + 1, ChkSet)
  BY <1>1 DEF PhAcces, Joueur
<1> QED BY <1>2 DEF Phase

LEMMA JouableIdle ==
  ASSUME fn \in Nat, test.nom = "idle"
  PROVE  Jouable(0, <<>>, 100)
<1> SUFFICES ASSUME NEW u \in TestT, NEW m, u.pas = "joue", u.nom = test.nom, m.set = <<>>
             PROVE  Phase(u, m, fn, fn + 0, <<>>)
  BY DEF Jouable
<1>1. Passe(fn, fn + 0, <<>>)
  BY Longueurs DEF Passe
<1>2. PhAcces(u, m, fn, fn + 0, <<>>)
  BY <1>1 DEF PhAcces, Joueur
<1> QED BY <1>2 DEF Phase

\* The answer of a search, two frames after the FCCH: where fbsb aims at.
LEMMA FnOffsetFaits ==
  ASSUME NEW f \in Nat, NEW b \in Int, NEW toa \in Int, Place(b, toa, f - 2), NEW o,
         o = b + (IF toa < 23 THEN -1 ELSE (toa - 23) \div 1250)
  PROVE  o \in f - 3 .. f - 2
<1>1. PICK r \in Residus : toa = 23 + 1250 * (f - 2 - b) + r
  BY DEF Place
<1>2. r \in -64 .. 64 /\ b <= f - 2
  BY <1>1, BancAssumption DEF Place
<1> DEFINE k == f - 2 - b
<1>3. k \in Nat /\ f - 2 = b + k
  BY <1>2
<1> HIDE DEF k
<1>4. toa = 23 + 1250 * k + r
  BY <1>1 DEF k
<1>5. toa < 23 => k = 0
  BY <1>2, <1>3, <1>4
<1>6. toa >= 23 => (toa - 23) \div 1250 \in k - 1 .. k
  BY <1>2, <1>3, <1>4
<1>7. CASE toa < 23
  <2>1. o = b - 1
    BY <1>7
  <2> QED BY <1>3, <1>5, <1>7, <2>1
<1>8. CASE toa >= 23
  <2> DEFINE q == (toa - 23) \div 1250
  <2>1. q \in k - 1 .. k /\ o = b + q
    BY <1>6, <1>8
  <2> HIDE DEF q
  <2> QED BY <1>3, <2>1
<1> QED BY <1>7, <1>8

LEMMA FcchFaits ==
  ASSUME NEW f \in Int, NEW b \in Int, NEW toa \in Int, Place(b, toa, f)
  PROVE  b + (toa - 23 + 625) \div 1250 = f
<1>1. PICK r \in Residus : toa = 23 + 1250 * (f - b) + r
  BY DEF Place
<1>2. r \in -64 .. 64
  BY <1>1, BancAssumption
<1> DEFINE k == f - b
<1>3. k \in Int /\ f = b + k
  OBVIOUS
<1> HIDE DEF k
<1>4. toa - 23 + 625 = 1250 * k + (r + 625) /\ r + 625 \in 0 .. 1249
  BY <1>1, <1>2, <1>3 DEF k
<1>5. (toa - 23 + 625) \div 1250 = k
  BY <1>3, <1>4
<1> QED BY <1>3, <1>5

LEMMA JouerSbInv ==
  ASSUME NEW d, NEW s, Apart(d, s), HorsTrame, test.pas = "attend", PhAttend(test, tdma.mf, fn, d, s),
         test.nom = "fbsb", test.essai = 2, JouerSb
  PROVE  BancInv'
<1>1. test \in TestT /\ TypesBanc /\ fn \in Nat /\ hist.fcch \in Trames
  BY DEF Apart, TypesBanc, HistT
<1>2. hist.fcch = fn - 2 /\ Place(test.debut, test.toa, fn - 2)
  <2>1. test.det = 1 /\ Tenu(test)
    BY DEF Apart, Reponse, Tenu
  <2> QED BY <2>1 DEF Apart, Reponse
<1> DEFINE o == FnOffset
           dl == IF o + 11 - fn - 1 < 0 THEN 0 ELSE o + 11 - fn - 1
           v == o + 11
           n == dl + 8
           off == dl + 1
<1>3. o \in fn - 3 .. fn - 2
  <2> DEFINE f == fn
             b == test.debut
             toa == test.toa
  <2>1. f \in Nat /\ b \in Int /\ toa \in Int /\ Place(b, toa, f - 2)
    BY <1>1, <1>2, TestChamps
  <2>2. o = b + (IF toa < 23 THEN -1 ELSE (toa - 23) \div 1250)
    BY DEF FnOffset
  <2> HIDE DEF f, b, toa, o
  <2>3. o \in f - 3 .. f - 2
    BY <2>1, <2>2, FnOffsetFaits
  <2> QED BY <2>3 DEF f
<1>4. Posee(off, SbSet) /\ test' = [test EXCEPT !.pas = "joue", !.reste = n, !.vise = v]
  BY Zenon DEF JouerSb, Posee
<1> HIDE DEF o
<1>5. off \in 8 .. 9 /\ n = off + 7 /\ v \in Int
  BY <1>1, <1>3
<1> HIDE DEF dl, v, n, off
<1>6. n \in Nat /\ off \in Nat /\ off + 5 <= 14
  BY <1>5
<1>7. /\ test' \in TestT /\ test'.pas = "joue" /\ test'.reste = n
      /\ test'.nom = test.nom /\ test'.essai = test.essai /\ test'.blocs = test.blocs /\ test'.deduit = test.deduit
  BY <1>1, <1>4, <1>5, <1>6 DEF TestT, Pas
<1>8. Passe(fn, d, s) /\ tdma.mf.set = <<>>
  BY DEF PhAttend
<1>9. SbSet \in Jeux /\ off + Len(SbSet) <= 14
  BY <1>6, Longueurs DEF Jeux
<1>10. /\ tdma' \in TdmaT /\ tdma'.mf = tdma.mf /\ hist' \in HistT /\ hist'.fcch = hist.fcch
       /\ Anneau(tdma', hist'.agenda, fn, fn + off, SbSet)
  BY <1>4, <1>6, <1>8, <1>9, PoseeFaits
<1> DEFINE u == test'
           m == tdma'.mf
           h == hist.fcch
<1>11. /\ u.pas = "joue" /\ u.reste = n /\ m.set = <<>>
       /\ u.nom = "fbsb" /\ u.essai = 2 /\ u.blocs = test.blocs /\ u.deduit = test.deduit
  BY <1>7, <1>8, <1>10
<1> HIDE DEF u, m, h
<1>12. fn + n = fn + off + 7
  BY <1>1, <1>5, <1>6
<1>13. ~CherchentFb(u)
  BY <1>11 DEF CherchentFb
<1>14. PhSb(u, m, fn, fn + off, SbSet)
  BY <1>11, <1>12, <1>13 DEF PhSb, Joueur
<1>15. Phase(u, m, fn, fn + off, SbSet)
  BY <1>14 DEF Phase
<1>16. Compte(u)
  BY <1>11 DEF Apart, Compte
<1>17. Reponse(u, h, fn)
  BY <1>11, <1>13 DEF Reponse, Tenu
<1>18. Deduite(u, h)
  <2>1. Deduite(test, h)
    BY DEF Apart, h
  <2> QED BY <1>11, <1>13, <2>1 DEF Deduite
<1>19. ~Cherche(test) /\ test.pas # "fini"
  BY DEF Cherche
<1>20. Recherche(test', rom, hist.fcch, Due(api), fn, fn + off)
  BY <1>19, RomLibre
<1>21. Compte(test') /\ Reponse(test', hist.fcch, fn) /\ Deduite(test', hist.fcch) /\ Phase(test', tdma'.mf, fn, fn + off, SbSet)
  BY <1>15, <1>16, <1>17, <1>18 DEF u, m, h
<1> QED BY <1>1, <1>7, <1>10, <1>20, <1>21, HorsTramePrime

LEMMA JouerBlocsInv ==
  ASSUME NEW d, NEW s, Apart(d, s), HorsTrame, test.pas = "attend", PhAttend(test, tdma.mf, fn, d, s),
         test.nom \in {"nb", "tx"}, JouerBlocs(Bloc(test), Trame0(test))
  PROVE  BancInv'
<1>1. /\ test \in TestT /\ TypesBanc /\ fn \in Nat /\ tdma \in TdmaT /\ hist \in HistT
      /\ d \in Nat /\ s \in Jeux /\ Anneau(tdma, hist.agenda, fn, d, s)
  BY DEF Apart, TypesBanc
<1> DEFINE set == Bloc(test)
           x == Trame0(test)
           n == 51 * (Essais + 1) + 10
<1>2. set \in Jeux /\ x \in 0 .. 50
  BY DEF Bloc, Trame0, Jeux
<1>3. n \in Nat
  BY BancAssumption
<1>4. /\ tdma' = [tdma EXCEPT !.mf = [set |-> set, frame |-> x]] /\ hist' = hist
      /\ test' = [test EXCEPT !.pas = "joue", !.reste = n]
  BY DEF JouerBlocs
<1> HIDE DEF set, x, n
<1>5. tdma' \in TdmaT /\ tdma'.mf.set = set /\ tdma'.mf.frame = x /\ Anneau(tdma', hist'.agenda, fn, d, s)
  <2> DEFINE t == tdma
             g == hist.agenda
             f == fn
             w == [t EXCEPT !.mf = [set |-> set, frame |-> x]]
  <2>1. t \in TdmaT /\ Anneau(t, g, f, d, s)
    BY <1>1
  <2>2. tdma' = w /\ hist'.agenda = g
    BY <1>4
  <2> HIDE DEF t, g, f
  <2>3. w \in TdmaT /\ w.mf.set = set /\ w.mf.frame = x /\ Anneau(w, g, f, d, s)
    BY <1>2, <2>1, AnneauMf
  <2> HIDE DEF w
  <2>4. tdma' \in TdmaT /\ tdma'.mf.set = set /\ tdma'.mf.frame = x /\ Anneau(tdma', hist'.agenda, f, d, s)
    BY <2>2, <2>3
  <2> QED BY <2>4 DEF f
<1>6. /\ test' \in TestT /\ test'.pas = "joue" /\ test'.reste = n
      /\ test'.nom = test.nom /\ test'.essai = test.essai /\ test'.blocs = test.blocs /\ test'.deduit = test.deduit
  BY <1>1, <1>3, <1>4 DEF TestT, Pas
<1>7. Passe(fn, d, s) /\ test.blocs = 0
  BY DEF PhAttend
<1> DEFINE u == test'
           m == tdma'.mf
           h == hist.fcch
<1>8. /\ u.pas = "joue" /\ u.reste = n /\ m.set = set /\ m.frame = x
      /\ u.nom = test.nom /\ u.nom \in {"nb", "tx"} /\ u.blocs = 0 /\ u.deduit = test.deduit
  BY <1>5, <1>6, <1>7
<1> HIDE DEF u, m, h
<1>9. m.set = Bloc(u) /\ m.frame = Trame0(u)
  BY <1>8 DEF Bloc, Trame0, set, x
<1>10. u.blocs # Essais /\ u.blocs <= Essais
  BY <1>8, BancAssumption
<1>11. PhBlocs(u, m, fn, d, s)
  BY <1>7, <1>8, <1>9, <1>10 DEF PhBlocs
<1>12. Phase(u, m, fn, d, s)
  BY <1>11 DEF Phase
<1>13. ~CherchentFb(u) /\ u.nom # "fbsb"
  BY <1>8 DEF CherchentFb
<1>14. Compte(u) /\ Reponse(u, h, fn)
  BY <1>8, <1>10, <1>13 DEF Compte, Reponse, Tenu
<1>15. Deduite(u, h)
  <2>1. Deduite(test, h)
    BY DEF Apart, h
  <2> QED BY <1>8, <1>13, <2>1 DEF Deduite
<1>16. ~Cherche(test) /\ test.pas # "fini"
  BY DEF Cherche
<1>17. Recherche(test', rom, hist.fcch, Due(api), fn, d)
  BY <1>16, RomLibre
<1>18. Compte(test') /\ Reponse(test', hist.fcch, fn) /\ Deduite(test', hist.fcch) /\ Phase(test', tdma'.mf, fn, d, s)
  BY <1>12, <1>14, <1>15 DEF u, m, h
<1>19. hist' \in HistT /\ hist'.fcch = hist.fcch
  BY <1>1, <1>4
<1> QED BY <1>1, <1>5, <1>6, <1>17, <1>18, <1>19, HorsTramePrime

LEMMA LancerInv ==
  ASSUME BancInv, Lancer
  PROVE  BancInv'
<1>1. PICK d, s : Apart(d, s)
  BY BancApart
<1>2. test \in TestT /\ fn \in Nat /\ test.nom \in Noms /\ Compte(test) /\ Phase(test, tdma.mf, fn, d, s) /\ test.essai \in Nat
  <2>1. test \in TestT /\ fn \in Nat /\ Compte(test) /\ Phase(test, tdma.mf, fn, d, s)
    BY <1>1 DEF Apart, TypesBanc
  <2>2. test.nom \in Tests /\ test.essai \in Nat
    BY <2>1, TestChamps
  <2>4. test.nom \in Noms
    BY <2>2, TestsNoms
  <2> QED BY <2>1, <2>2, <2>4
<1>3. test.pas = "attend" /\ HorsTrame
  BY DEF Lancer, HorsTrame
<1>4. PhAttend(test, tdma.mf, fn, d, s)
  BY <1>2, <1>3, PhaseAttente
<1>5. /\ FbSet \in Jeux /\ SbSet \in Jeux /\ RachSet \in Jeux /\ ChkSet \in Jeux /\ <<>> \in Jeux
      /\ 0 + Len(FbSet) <= 14 /\ 1 + Len(SbSet) <= 14 /\ 0 + Len(RachSet) <= 14 /\ 1 + Len(ChkSet) <= 14 /\ 0 + Len(<<>>) <= 14
  BY Longueurs DEF Jeux
<1>6. CASE CherchentFb(test)
  <2>1. Jouer(0, FbSet, 15)
    <3>1. test.nom # "sb" /\ ~(test.nom = "fbsb" /\ test.essai = 2) /\ test.nom \notin {"nb", "tx", "rach", "chk", "idle"}
      BY <1>6 DEF CherchentFb
    <3> QED BY <1>6, <3>1 DEF Lancer
  <2>2. Jouable(0, FbSet, 15)
    BY <1>2, <1>6, JouableFb
  <2> QED BY <1>1, <1>3, <1>4, <1>5, <2>1, <2>2, JouerInv
<1>7. CASE test.nom = "sb"
  <2>1. Jouer(1, SbSet, 6)
    BY <1>7 DEF Lancer, CherchentFb
  <2>2. Jouable(1, SbSet, 6)
    BY <1>2, <1>7, JouableSb
  <2> QED BY <1>1, <1>3, <1>4, <1>5, <2>1, <2>2, JouerInv
<1>8. CASE test.nom = "fbsb" /\ test.essai = 2
  <2>1. JouerSb
    BY <1>8 DEF Lancer, CherchentFb
  <2> QED BY <1>1, <1>3, <1>4, <1>8, <2>1, JouerSbInv
<1>9. CASE test.nom = "nb" \/ test.nom = "tx"
  <2>1. JouerBlocs(Bloc(test), Trame0(test))
    <3>1. CASE test.nom = "nb"
      <4>1. JouerBlocs(NbSet, 2)
        BY <3>1 DEF Lancer, CherchentFb
      <4>2. Bloc(test) = NbSet /\ Trame0(test) = 2
        BY <3>1 DEF Bloc, Trame0
      <4> QED BY <4>1, <4>2
    <3>2. CASE test.nom = "tx"
      <4>1. JouerBlocs(NbSetUl, 22 + 15)
        BY <3>2 DEF Lancer, CherchentFb
      <4>2. Bloc(test) = NbSetUl /\ Trame0(test) = 22 + 15
        BY <3>2 DEF Bloc, Trame0
      <4> QED BY <4>1, <4>2
    <3> QED BY <1>9, <3>1, <3>2
  <2>2. test.nom \in {"nb", "tx"}
    BY <1>9
  <2> QED BY <1>1, <1>3, <1>4, <2>1, <2>2, JouerBlocsInv
<1>10. CASE test.nom = "rach"
  <2>1. Jouer(0, RachSet, 6)
    BY <1>10 DEF Lancer, CherchentFb
  <2>2. Jouable(0, RachSet, 6)
    BY <1>2, <1>10, JouableRach
  <2> QED BY <1>1, <1>3, <1>4, <1>5, <2>1, <2>2, JouerInv
<1>11. CASE test.nom = "chk"
  <2>1. Jouer(1, ChkSet, 6)
    BY <1>11 DEF Lancer, CherchentFb
  <2>2. Jouable(1, ChkSet, 6)
    BY <1>2, <1>11, JouableChk
  <2> QED BY <1>1, <1>3, <1>4, <1>5, <2>1, <2>2, JouerInv
<1>12. CASE test.nom = "idle"
  <2>1. Jouer(0, <<>>, 100)
    BY <1>12 DEF Lancer, CherchentFb
  <2>2. Jouable(0, <<>>, 100)
    BY <1>2, <1>12, JouableIdle
  <2> QED BY <1>1, <1>3, <1>4, <1>5, <2>1, <2>2, JouerInv
<1>13. test.nom = "fbsb" => test.essai \in 0 .. 2
  BY <1>2 DEF Compte
<1>14. CherchentFb(test) \/ test.nom \in {"sb", "nb", "tx", "rach", "chk", "idle"} \/ (test.nom = "fbsb" /\ test.essai = 2)
  BY <1>2, <1>13 DEF CherchentFb, Noms
<1> QED BY <1>6, <1>7, <1>8, <1>9, <1>10, <1>11, <1>12, <1>14

\* What the end of a try leaves of the test t.
Fini(t, u) == u.pas = "fini" /\ u.reste = 0 /\ u.essai = t.essai
Encore(t, u) == u.pas = "debut" /\ u.reste = 0 /\ u.essai = t.essai + 1
Retenu(t, u) ==
  /\ u \in TestT /\ u.nom = t.nom /\ u.det = t.det /\ u.debut = t.debut /\ u.toa = t.toa /\ u.blocs = t.blocs
  /\ u.fnCmd = t.fnCmd
LEMMA SuiteFaits ==
  ASSUME NEW t \in TestT, t.reste = 0, NEW dernier, NEW ok, NEW u, u = Suite(t, dernier, ok)
  PROVE  /\ Retenu(t, u) /\ u.deduit = t.deduit
         /\ dernier => Fini(t, u)
         /\ ~dernier => Encore(t, u)
<1>1. CASE dernier
  <2> DEFINE v == IF ok THEN "PASS" ELSE "FAIL"
             p == "fini"
  <2>1. v \in Verdicts /\ p \in Pas
    BY DEF Verdicts, Pas
  <2>2. u = [t EXCEPT !.pas = p, !.verdict = v]
    BY <1>1 DEF Suite
  <2> HIDE DEF v, p
  <2>3. /\ u \in TestT /\ u.pas = p /\ u.reste = t.reste /\ u.essai = t.essai /\ u.deduit = t.deduit
        /\ u.nom = t.nom /\ u.det = t.det /\ u.debut = t.debut /\ u.toa = t.toa /\ u.blocs = t.blocs
        /\ u.fnCmd = t.fnCmd
    BY <2>1, <2>2 DEF TestT
  <2> QED BY <1>1, <2>3 DEF Retenu, Fini, p
<1>2. CASE ~dernier
  <2> DEFINE e == t.essai + 1
             p == "debut"
  <2>1. e \in Nat /\ p \in Pas
    BY TestChamps DEF Pas
  <2>2. u = [t EXCEPT !.pas = p, !.essai = e]
    BY <1>2 DEF Suite
  <2> HIDE DEF e, p
  <2>3. /\ u \in TestT /\ u.pas = p /\ u.reste = t.reste /\ u.essai = e /\ u.deduit = t.deduit
        /\ u.nom = t.nom /\ u.det = t.det /\ u.debut = t.debut /\ u.toa = t.toa /\ u.blocs = t.blocs
        /\ u.fnCmd = t.fnCmd
    BY <2>1, <2>2 DEF TestT
  <2> QED BY <1>2, <2>3 DEF Retenu, Encore, e, p
<1> QED BY <1>1, <1>2

\* The try of a search is over: another one, or the verdict.
FinFb(t, u) ==
  /\ CherchentFb(t) /\ Retenu(t, u)
  /\ u.deduit = Aucun \/ (t.det = 1 /\ u.deduit = Fcch)
  /\ Fini(t, u) \/ (Encore(t, u) /\ (t.nom = "fbsb" => t.det = 1))
\* That of another test.
FinAutre(t, u) ==
  /\ Retenu(t, u) /\ u.deduit = t.deduit
  /\ \/ Fini(t, u)
     \/ t.nom \in {"sb", "rach"} /\ Encore(t, u)
     \/ t.nom = "tx" /\ t.pas = "joue" /\ u.pas = "vide" /\ u.essai = t.essai

LEMMA FcchType ==
  ASSUME test \in TestT
  PROVE  Fcch \in Int
BY TestChamps DEF Fcch

LEMMA ConclureFbFaits ==
  ASSUME test \in TestT, test.reste = 0, ConclureFb
  PROVE  FinFb(test, test')
<1> DEFINE trouve == test.det = 1
           juste == trouve /\ Fcch >= test.debut /\ Type(Fcch) = "F"
           x == IF trouve THEN Fcch ELSE Aucun
           y == IF juste THEN test.justes + 1 ELSE test.justes
           t == [test EXCEPT !.deduit = x, !.justes = y]
<1>1. x \in Int /\ y \in Nat
  <2>1. x \in Int
    BY FcchType DEF Aucun
  <2>2. y \in Nat
    BY TestChamps
  <2> QED BY <2>1, <2>2
<1>2. x = Aucun \/ (test.det = 1 /\ x = Fcch)
  OBVIOUS
<1>3. CherchentFb(test)
  BY DEF ConclureFb
<1>4. /\ t \in TestT /\ t.deduit = x /\ t.reste = 0 /\ t.pas = test.pas /\ t.essai = test.essai
      /\ t.nom = test.nom /\ t.det = test.det /\ t.debut = test.debut /\ t.toa = test.toa /\ t.blocs = test.blocs
      /\ t.fnCmd = test.fnCmd
  <2> HIDE DEF x, y
  <2> QED BY <1>1 DEF TestT
<1>5. \E dernier, ok : test' = Suite(t, dernier, ok) /\ (test.nom = "fbsb" => (dernier <=> ~trouve))
  <2>1. t = [test EXCEPT !.deduit = IF trouve THEN Fcch ELSE Aucun, !.justes = IF juste THEN @ + 1 ELSE @]
    OBVIOUS
  <2>2. test' = CASE test.nom = "fb" -> Suite(t, test.essai = Essais - 1, t.justes = Essais)
                  [] test.nom = "fbpos" -> Suite(t, test.essai = Essais - 1, t.justes > 0)
                  [] test.nom = "fbsb" -> Suite(t, ~trouve, FALSE)
    BY <2>1, Zenon DEF ConclureFb
  <2> HIDE DEF t, trouve
  <2>3. CASE test.nom = "fb"
    <3>1. test' = Suite(t, test.essai = Essais - 1, t.justes = Essais)
      BY <2>2, <2>3
    <3> QED BY <2>3, <3>1
  <2>4. CASE test.nom = "fbpos"
    <3>1. test' = Suite(t, test.essai = Essais - 1, t.justes > 0)
      BY <2>2, <2>4
    <3> QED BY <2>4, <3>1
  <2>5. CASE test.nom = "fbsb"
    <3>1. test' = Suite(t, ~trouve, FALSE)
      BY <2>2, <2>5
    <3> QED BY <3>1, Zenon
  <2> QED BY <1>3, <2>3, <2>4, <2>5 DEF CherchentFb
<1>6. PICK dernier, ok : test' = Suite(t, dernier, ok) /\ (test.nom = "fbsb" => (dernier <=> ~trouve))
  BY <1>5
<1> DEFINE u == test'
<1> HIDE DEF t, x, y
<1>7. u = Suite(t, dernier, ok)
  BY <1>6
<1> HIDE DEF u
<1>8. /\ Retenu(t, u) /\ u.deduit = t.deduit
      /\ dernier => Fini(t, u)
      /\ ~dernier => Encore(t, u)
  BY <1>4, <1>7, SuiteFaits
<1>9. Retenu(test, u) /\ u.deduit = x
  BY <1>4, <1>8 DEF Retenu
<1>10. Fini(test, u) \/ (Encore(test, u) /\ (test.nom = "fbsb" => test.det = 1))
  BY <1>4, <1>6, <1>8 DEF Fini, Encore
<1>11. u.deduit = Aucun \/ (test.det = 1 /\ u.deduit = Fcch)
  BY <1>2, <1>9
<1> QED BY <1>3, <1>9, <1>10, <1>11 DEF FinFb, u

\* A step to the next try or to the verdict, the counts aside.
LEMMA SuiteAutre ==
  ASSUME NEW t \in TestT, NEW w \in TestT, t.reste = 0, w.reste = 0, w.essai = t.essai, w.deduit = t.deduit, Retenu(t, w),
         NEW dernier, NEW ok, NEW u, u = Suite(w, dernier, ok), dernier \/ t.nom \in {"sb", "rach"}
  PROVE  FinAutre(t, u)
<1>1. /\ Retenu(w, u) /\ u.deduit = w.deduit
      /\ dernier => Fini(w, u)
      /\ ~dernier => Encore(w, u)
  BY SuiteFaits
<1>2. Retenu(t, u)
  BY <1>1 DEF Retenu
<1> QED BY <1>1, <1>2 DEF FinAutre, Fini, Encore

\* The counts of a try.
Compter(t, y, z) == [t EXCEPT !.justes = y, !.faux = z]
LEMMA ConclureAutreFaits ==
  ASSUME test \in TestT, test.reste = 0,
         ConclureSb \/ ConclureFbsb \/ ConclureNb \/ ConclureTx \/ ConclureRach \/ ConclureSimple
  PROVE  FinAutre(test, test')
<1> DEFINE t == test
           u == test'
<1>1. t \in TestT /\ t.reste = 0 /\ Retenu(t, t)
  BY DEF Retenu
<1>2. ASSUME NEW dernier, NEW ok, u = Suite(t, dernier, ok), dernier PROVE FinAutre(t, u)
  <2> HIDE DEF t, u
  <2> QED BY <1>1, <1>2, SuiteAutre
<1>3. ASSUME NEW y \in Nat, NEW z \in Nat, NEW dernier, NEW ok, t.nom \in {"sb", "rach"},
             u = Suite(Compter(t, y, z), dernier, ok)
      PROVE  FinAutre(t, u)
  <2> DEFINE w == [t EXCEPT !.justes = y, !.faux = z]
  <2>1. u = Suite(w, dernier, ok)
    BY <1>3 DEF Compter
  <2> HIDE DEF t, u
  <2>2. /\ w \in TestT /\ w.reste = t.reste /\ w.essai = t.essai /\ w.deduit = t.deduit
        /\ w.nom = t.nom /\ w.det = t.det /\ w.debut = t.debut /\ w.toa = t.toa /\ w.blocs = t.blocs
        /\ w.fnCmd = t.fnCmd
    BY <1>1 DEF TestT
  <2> HIDE DEF w
  <2>3. Retenu(t, w)
    BY <2>2 DEF Retenu
  <2> QED BY <1>1, <1>3, <2>1, <2>2, <2>3, SuiteAutre
<1>4. CASE ConclureSb
  <2> DEFINE juste == Vise(test.sb[1])
             faux == ~juste /\ (test.sb[1] # Aucun \/ test.sb[2] # Aucun)
             y == IF juste THEN test.justes + 1 ELSE test.justes
             z == IF faux THEN test.faux + 1 ELSE test.faux
             x == [t EXCEPT !.justes = y, !.faux = z]
             dernier == test.essai = Essais - 1
             ok == x.faux = 0 /\ x.justes >= Essais - 1
  <2>1. y \in Nat /\ z \in Nat
    BY TestChamps
  <2>2. x = [test EXCEPT !.justes = IF juste THEN @ + 1 ELSE @, !.faux = IF faux THEN @ + 1 ELSE @]
    OBVIOUS
  <2>3. test.nom = "sb" /\ test' = Suite(x, dernier, ok)
    BY <1>4, <2>2, Zenon DEF ConclureSb
  <2>4. u = Suite(Compter(t, y, z), dernier, ok) /\ t.nom \in {"sb", "rach"}
    BY <2>3 DEF Compter
  <2> HIDE DEF y, z, x, dernier, ok, t, u
  <2>5. FinAutre(t, u)
    BY <1>3, <2>1, <2>4
  <2> QED BY <2>5 DEF t, u
<1>5. CASE ConclureRach
  <2> DEFINE z == test.faux
             y == IF \E x \in hist.emis : x.fn >= fn - 6 THEN test.justes + 1 ELSE test.justes
             x == [test EXCEPT !.justes = IF \E p \in hist.emis : p.fn >= fn - 6 THEN @ + 1 ELSE @]
             dernier == test.essai = Essais - 1
             ok == x.justes = Essais
  <2>1. y \in Nat /\ z \in Nat
    BY TestChamps
  <2>2. test.nom = "rach" /\ test' = Suite(x, dernier, ok)
    BY <1>5, Zenon DEF ConclureRach
  <2>3. x = [t EXCEPT !.justes = y, !.faux = z]
    <3>1. x = [t EXCEPT !.justes = y]
      OBVIOUS
    <3> DEFINE w == [t EXCEPT !.justes = y]
    <3> HIDE DEF y, x
    <3>2. w.faux = z /\ w \in TestT
      BY <1>1, <2>1 DEF TestT
    <3>3. [w EXCEPT !.faux = z] = w
      <4> HIDE DEF w, z
      <4> QED BY <3>2 DEF TestT
    <3> QED BY <3>1, <3>3
  <2>4. u = Suite(Compter(t, y, z), dernier, ok) /\ t.nom \in {"sb", "rach"}
    <3> HIDE DEF x
    <3> QED BY <2>2, <2>3 DEF Compter
  <2> HIDE DEF y, z, x, dernier, ok, t, u
  <2>5. FinAutre(t, u)
    BY <1>3, <2>1, <2>4
  <2> QED BY <2>5 DEF t, u
<1>6. CASE ConclureFbsb
  <2>1. u = Suite(t, TRUE, \E a \in 1 .. 2 : Vise(test.sb[a]))
    BY <1>6, Zenon DEF ConclureFbsb
  <2> HIDE DEF t, u
  <2>2. FinAutre(t, u)
    BY <1>2, <2>1
  <2> QED BY <2>2 DEF t, u
<1>7. CASE ConclureNb
  <2>1. u = Suite(t, TRUE, test.blocs >= Essais /\ test.justes = test.blocs)
    BY <1>7, Zenon DEF ConclureNb
  <2> HIDE DEF t, u
  <2>2. FinAutre(t, u)
    BY <1>2, <2>1
  <2> QED BY <2>2 DEF t, u
<1>8. CASE ConclureSimple
  <2>1. u = Suite(t, TRUE, \E p \in 0 .. 1 : api.R[p].tache = "chk") \/ u = Suite(t, TRUE, hist.its >= 99)
    BY <1>8, Zenon DEF ConclureSimple
  <2> HIDE DEF t, u
  <2>2. FinAutre(t, u)
    BY <1>2, <2>1
  <2> QED BY <2>2 DEF t, u
<1>9. CASE ConclureTx
  <2>1. test.nom = "tx"
    BY <1>9 DEF ConclureTx
  <2>2. CASE test.pas = "joue"
    <3> DEFINE p == "vide"
               n == 8
    <3>1. test' = [test EXCEPT !.pas = p, !.reste = n] /\ p \in Pas /\ n \in Nat
      BY <1>9, <2>2 DEF ConclureTx, Pas
    <3> HIDE DEF p, n
    <3>2. /\ test' \in TestT /\ test'.pas = p /\ test'.essai = test.essai /\ test'.deduit = test.deduit
          /\ test'.nom = test.nom /\ test'.det = test.det /\ test'.debut = test.debut /\ test'.toa = test.toa /\ test'.blocs = test.blocs
          /\ test'.fnCmd = test.fnCmd
      BY <3>1 DEF TestT
    <3> QED BY <2>1, <2>2, <3>2 DEF FinAutre, Retenu, p
  <2>3. CASE test.pas # "joue"
    <3>1. u = Suite(t, TRUE, test.blocs > 0 /\ test.fnCmd \subseteq hist.emis)
      BY <1>9, <2>3, Zenon DEF ConclureTx
    <3> HIDE DEF t, u
    <3>2. FinAutre(t, u)
      BY <1>2, <3>1
    <3> QED BY <3>2 DEF t, u
  <2> QED BY <2>2, <2>3
<1> QED BY <1>4, <1>5, <1>6, <1>7, <1>8, <1>9

\* Where the ring is when the frames of a try are over.
LEMMA FinPhase ==
  ASSUME NEW t \in TestT, NEW m, NEW f \in Nat, NEW d \in Nat, NEW s \in Jeux, Phase(t, m, f, d, s), t.pas \in {"joue", "vide"},
         t.reste = 0
  PROVE  /\ ~Cherche(t) /\ (CherchentFb(t) => t.pas = "joue")
         /\ t.nom \notin {"nb", "tx"} => Passe(f, d, s)
         /\ t.nom = "tx" /\ t.pas = "joue" =>
              (Passe(f, d, s) \/ (s = NbSetUl /\ d <= f)) /\ (t.blocs = Essais /\ s = NbSetUl => d < f)
<1>1. ~PhAttend(t, m, f, d, s) /\ ~PhFini(t)
  BY DEF PhAttend, PhFini
<1>2. ~PhCherche(t, m, f, d, s)
  BY DEF PhCherche
<1>3. CASE PhTrouve(t, m, f, d, s)
  BY <1>3 DEF PhTrouve, Cherche, CherchentFb
<1>4. CASE PhSb(t, m, f, d, s)
  <2> DEFINE l == Len(s)
  <2>1. l = 5 /\ (f = d + 5 \/ f = d + 7)
    <3>1. s = SbSet /\ (f + t.reste = d + 5 \/ f + t.reste = d + 7)
      BY <1>4 DEF PhSb
    <3> QED BY <3>1, Longueurs
  <2> HIDE DEF l
  <2>2. d + l <= f
    BY <2>1
  <2>3. Passe(f, d, s)
    BY <2>2 DEF Passe, l
  <2> QED BY <1>4, <2>3 DEF PhSb, Joueur, Cherche, CherchentFb
<1>5. CASE PhAcces(t, m, f, d, s)
  <2> DEFINE l == Len(s)
  <2>1. Passe(f, d, s) \/ (l = 3 /\ f = d + 6) \/ (l = 1 /\ f = d + 5)
    <3>1. Passe(f, d, s) \/ (s = RachSet /\ f + t.reste = d + 6) \/ (s = ChkSet /\ f + t.reste = d + 5)
      BY <1>5 DEF PhAcces
    <3> QED BY <3>1, Longueurs
  <2> HIDE DEF l
  <2>2. Passe(f, d, s) \/ d + l <= f
    BY <2>1
  <2>3. Passe(f, d, s)
    BY <2>2 DEF Passe, l
  <2> QED BY <1>5, <2>3 DEF PhAcces, Joueur, Cherche, CherchentFb
<1>6. CASE PhBlocs(t, m, f, d, s)
  BY <1>6 DEF PhBlocs, Bloc, Cherche, CherchentFb
<1>7. CASE PhVide(t, m, f, d, s)
  BY <1>7 DEF PhVide, Cherche, CherchentFb
<1> QED BY <1>1, <1>2, <1>3, <1>4, <1>5, <1>6, <1>7 DEF Phase

\* The invariant after a try, t and u being the test before and after.
LEMMA FinSuite ==
  ASSUME NEW t \in TestT, NEW u \in TestT, NEW m, NEW m2, NEW f \in Nat, NEW d \in Nat, NEW s \in Jeux, Phase(t, m, f, d, s),
         t.pas \in {"joue", "vide"}, t.reste = 0, m2.set = <<>>, Compte(t), Retenu(t, u), NEW fb \in BOOLEAN,
         fb => CherchentFb(t),
         \/ Fini(t, u)
         \/ Encore(t, u) /\ (fb \/ t.nom \in {"sb", "rach"})
         \/ t.nom = "tx" /\ t.pas = "joue" /\ u.pas = "vide" /\ u.essai = t.essai
  PROVE  Phase(u, m2, f, d, s)
<1>1. /\ t.nom \notin {"nb", "tx"} => Passe(f, d, s)
      /\ t.nom = "tx" /\ t.pas = "joue" =>
           (Passe(f, d, s) \/ (s = NbSetUl /\ d <= f)) /\ (t.blocs = Essais /\ s = NbSetUl => d < f)
  BY FinPhase
<1>2. u.nom = t.nom /\ u.blocs = t.blocs /\ u.det = t.det
  BY DEF Retenu
<1>3. CASE Fini(t, u)
  BY <1>3 DEF Fini, Phase, PhFini
<1>4. CASE Encore(t, u) /\ (fb \/ t.nom \in {"sb", "rach"})
  <2>1. t.nom \notin {"nb", "tx"}
    BY <1>4 DEF CherchentFb
  <2>2. PhAttend(u, m2, f, d, s)
    BY <1>1, <1>2, <1>4, <2>1 DEF PhAttend, Encore
  <2> QED BY <2>2 DEF Phase
<1>5. CASE t.nom = "tx" /\ t.pas = "joue" /\ u.pas = "vide" /\ u.essai = t.essai
  <2>1. PhVide(u, m2, f, d, s)
    BY <1>1, <1>2, <1>5 DEF PhVide
  <2> QED BY <2>1 DEF Phase
<1> QED BY <1>3, <1>4, <1>5

LEMMA FinReponse ==
  ASSUME NEW t \in TestT, NEW u \in TestT, NEW m, NEW f \in Nat, NEW d \in Nat, NEW s \in Jeux, Phase(t, m, f, d, s),
         t.pas \in {"joue", "vide"}, t.reste = 0, Compte(t), Retenu(t, u), NEW fb \in BOOLEAN, NEW h, Reponse(t, h, f),
         fb => CherchentFb(t) /\ (Fini(t, u) \/ (t.nom = "fbsb" => t.det = 1)),
         \/ Fini(t, u)
         \/ Encore(t, u) /\ (fb \/ t.nom \in {"sb", "rach"})
         \/ t.nom = "tx" /\ t.pas = "joue" /\ u.pas = "vide" /\ u.essai = t.essai
  PROVE  Reponse(u, h, f) /\ Compte(u)
<1>1. u.nom = t.nom /\ u.blocs = t.blocs /\ u.det = t.det /\ u.debut = t.debut /\ u.toa = t.toa
  BY DEF Retenu
<1>2. CherchentFb(t) => t.pas = "joue"
  BY FinPhase
<1>3. t.essai \in Nat
  BY TestChamps
<1>4. CASE Fini(t, u)
  <2>1. Reponse(u, h, f)
    BY <1>4 DEF Reponse, Fini
  <2> QED BY <1>1, <1>4, <2>1 DEF Compte, Fini
<1>5. CASE Encore(t, u) /\ fb
  <2>1. u.pas = "debut" /\ u.reste = 0 /\ u.essai = t.essai + 1 /\ CherchentFb(t) /\ (t.nom = "fbsb" => t.det = 1)
    BY <1>5 DEF Encore, Fini
  <2>2. t.pas = "joue" /\ t.pas # "fini" /\ Tenu(t)
    BY <1>2, <2>1 DEF Tenu
  <2>3. t.nom = "fbsb" => u.essai <= 2
    BY <1>3, <2>1 DEF CherchentFb
  <2>4. Compte(u)
    BY <1>1, <2>3 DEF Compte
  <2>5. t.det = 1 => h = f - 2 /\ Place(t.debut, t.toa, h)
    BY <2>2 DEF Reponse
  <2>6. u.det = 1 => h = f - 2 /\ Place(u.debut, u.toa, h)
    BY <1>1, <2>5
  <2> QED BY <1>1, <2>1, <2>4, <2>6 DEF Reponse
<1>6. CASE Encore(t, u) /\ t.nom \in {"sb", "rach"}
  <2>1. u.pas = "debut" /\ u.nom # "fbsb"
    BY <1>1, <1>6 DEF Encore
  <2> QED BY <1>1, <1>6, <2>1 DEF Reponse, Compte, Tenu
<1>7. CASE t.nom = "tx" /\ t.pas = "joue" /\ u.pas = "vide" /\ u.essai = t.essai
  BY <1>1, <1>7 DEF Reponse, Compte, Tenu
<1> QED BY <1>4, <1>5, <1>6, <1>7

LEMMA FinDeduite ==
  ASSUME NEW t, NEW u, NEW h, Deduite(t, h), u.pas # "joue", u.deduit \in {Aucun, t.deduit} \/ u.deduit = h
  PROVE  Deduite(u, h)
BY DEF Deduite

LEMMA ConclureInv ==
  ASSUME BancInv, Conclure
  PROVE  BancInv'
<1>1. PICK d, s : Apart(d, s)
  BY BancApart
<1>2. /\ test \in TestT /\ TypesBanc /\ fn \in Nat /\ tdma \in TdmaT /\ hist \in HistT
      /\ d \in Nat /\ s \in Jeux /\ Anneau(tdma, hist.agenda, fn, d, s)
  BY <1>1 DEF Apart, TypesBanc
<1>3. /\ test.pas \in {"joue", "vide"} /\ test.reste = 0 /\ HorsTrame /\ hist' = hist
      /\ tdma' = [tdma EXCEPT !.mf = [set |-> <<>>, frame |-> 0]]
  BY DEF Conclure, HorsTrame
<1>4. FinFb(test, test') \/ FinAutre(test, test')
  <2>1. ConclureFb \/ (ConclureSb \/ ConclureFbsb \/ ConclureNb \/ ConclureTx \/ ConclureRach \/ ConclureSimple)
    BY Zenon DEF Conclure
  <2>2. CASE ConclureFb
    BY <1>2, <1>3, <2>2, ConclureFbFaits
  <2>3. CASE ConclureSb \/ ConclureFbsb \/ ConclureNb \/ ConclureTx \/ ConclureRach \/ ConclureSimple
    BY <1>2, <1>3, <2>3, ConclureAutreFaits
  <2> QED BY <2>1, <2>2, <2>3
<1>5. tdma' \in TdmaT /\ tdma'.mf.set = <<>> /\ Anneau(tdma', hist'.agenda, fn, d, s)
  <2> DEFINE t == tdma
             g == hist.agenda
             f == fn
             set == <<>>
             x == 0
             w == [t EXCEPT !.mf = [set |-> set, frame |-> x]]
  <2>1. t \in TdmaT /\ Anneau(t, g, f, d, s) /\ set \in Jeux /\ x \in 0 .. 50
    BY <1>2 DEF Jeux
  <2>2. tdma' = w /\ hist'.agenda = g
    BY <1>3
  <2> HIDE DEF t, g, f, set, x
  <2>3. w \in TdmaT /\ w.mf.set = set /\ w.mf.frame = x /\ Anneau(w, g, f, d, s)
    BY <2>1, AnneauMf
  <2> HIDE DEF w
  <2>4. tdma' \in TdmaT /\ tdma'.mf.set = set /\ Anneau(tdma', hist'.agenda, f, d, s)
    BY <2>2, <2>3
  <2> QED BY <2>4 DEF f, set
<1> DEFINE t == test
           u == test'
           m == tdma.mf
           m2 == tdma'.mf
           h == hist.fcch
           f == fn
           fb == CherchentFb(test)
<1>6. /\ t \in TestT /\ u \in TestT /\ f \in Nat /\ Phase(t, m, f, d, s) /\ t.pas \in {"joue", "vide"} /\ t.reste = 0
      /\ m2.set = <<>> /\ Compte(t) /\ Retenu(t, u) /\ fb \in BOOLEAN /\ Reponse(t, h, f) /\ Deduite(t, h) /\ h \in Int
  <2>1. Retenu(test, test')
    BY <1>4 DEF FinFb, FinAutre
  <2>2. test' \in TestT
    BY <2>1 DEF Retenu
  <2>3. hist.fcch \in Int
    BY <1>2 DEF HistT, Trames, Aucun
  <2>4. CherchentFb(test) \in BOOLEAN
    BY DEF CherchentFb
  <2> QED BY <1>1, <1>2, <1>3, <1>5, <2>1, <2>2, <2>3, <2>4 DEF Apart
<1>7. /\ \/ Fini(t, u)
         \/ Encore(t, u) /\ (fb \/ t.nom \in {"sb", "rach"})
         \/ t.nom = "tx" /\ t.pas = "joue" /\ u.pas = "vide" /\ u.essai = t.essai
      /\ fb => CherchentFb(t) /\ (Fini(t, u) \/ (t.nom = "fbsb" => t.det = 1))
  <2>1. CASE FinFb(test, test')
    BY <2>1 DEF FinFb
  <2>2. CASE FinAutre(test, test')
    <3>1. fb => t.nom \notin {"sb", "rach", "tx"}
      BY DEF CherchentFb
    <3> QED BY <2>2, <3>1 DEF FinAutre
  <2> QED BY <1>4, <2>1, <2>2
<1>8. u.pas # "joue"
  BY <1>7 DEF Fini, Encore
<1>9. u.deduit \in {Aucun, t.deduit} \/ u.deduit = h
  <2>1. CASE FinAutre(test, test')
    BY <2>1 DEF FinAutre
  <2>2. CASE FinFb(test, test')
    <3>1. u.deduit = Aucun \/ (t.det = 1 /\ u.deduit = Fcch /\ CherchentFb(t))
      BY <2>2 DEF FinFb
    <3>2. t.det = 1 /\ CherchentFb(t) => Place(t.debut, t.toa, h)
      <4>1. CherchentFb(t) => t.pas = "joue"
        <5> HIDE DEF t, u, m, h, f, fb
        <5> QED BY <1>2, <1>6, FinPhase
      <4>2. CherchentFb(t) => Tenu(t) /\ t.pas # "fini"
        BY <4>1 DEF Tenu
      <4> HIDE DEF t, u, m, h, f, fb
      <4> QED BY <1>6, <4>2 DEF Reponse
    <3>3. t.det = 1 /\ CherchentFb(t) => Fcch = h
      <4> DEFINE b == t.debut
                 toa == t.toa
      <4>1. b \in Int /\ toa \in Int
        BY <1>2, TestChamps
      <4>2. Fcch = b + (toa - 23 + 625) \div 1250
        BY DEF Fcch
      <4>3. t.det = 1 /\ CherchentFb(t) => Place(b, toa, h)
        BY <3>2
      <4> HIDE DEF t, u, m, h, f, fb, b, toa
      <4>4. Place(b, toa, h) => b + (toa - 23 + 625) \div 1250 = h
        BY <1>6, <4>1, FcchFaits
      <4> QED BY <4>2, <4>3, <4>4
    <3> QED BY <3>1, <3>3
  <2> QED BY <1>4, <2>1, <2>2
<1>10. ~Cherche(test) /\ test.pas # "fini"
  <2> HIDE DEF t, u, m, h, f, fb
  <2>1. ~Cherche(t)
    BY <1>2, <1>6, FinPhase
  <2> QED BY <1>3, <2>1 DEF t
<1>11. Recherche(test', rom, hist.fcch, Due(api), fn, d)
  BY <1>1, <1>10, RomLibre
<1> HIDE DEF t, u, m, m2, h, f, fb
<1>12. Phase(u, m2, f, d, s)
  BY <1>2, <1>6, <1>7, FinSuite
<1>13. Reponse(u, h, f) /\ Compte(u)
  BY <1>2, <1>6, <1>7, FinReponse
<1>14. Deduite(u, h)
  BY <1>6, <1>8, <1>9, FinDeduite
<1>15. Compte(test') /\ Reponse(test', hist.fcch, fn) /\ Deduite(test', hist.fcch) /\ Phase(test', tdma'.mf, fn, d, s) /\ test' \in TestT
  BY <1>6, <1>12, <1>13, <1>14 DEF u, m2, h, f
<1>16. hist' \in HistT /\ hist'.fcch = hist.fcch
  BY <1>2, <1>3
<1> QED BY <1>2, <1>3, <1>5, <1>11, <1>15, <1>16, HorsTramePrime

LEMMA BancPas ==
  ASSUME BancInv, [BancNext]_bancVars
  PROVE  BancInv'
<1>1. CASE Trame
  BY <1>1, TrameInv
<1>2. CASE Attendre
  BY <1>2, AttendreInv
<1>3. CASE Lancer
  BY <1>3, LancerInv
<1>4. CASE Conclure
  BY <1>4, ConclureInv
<1>5. CASE Planter
  BY <1>5, PlanterInv
<1>6. CASE UNCHANGED bancVars
  <2>1. PICK d, s : Apart(d, s)
    BY BancApart
  <2>2. tdma' = tdma /\ hist' = hist /\ test' = test /\ HorsTrame
    BY <1>6 DEF bancVars, HorsTrame
  <2>3. /\ tdma' \in TdmaT /\ test' \in TestT /\ hist' \in HistT /\ hist'.fcch = hist.fcch /\ TypesBanc
        /\ Compte(test') /\ Reponse(test', hist.fcch, fn) /\ Deduite(test', hist.fcch)
        /\ Anneau(tdma', hist'.agenda, fn, d, s) /\ Phase(test', tdma'.mf, fn, d, s)
        /\ Recherche(test', rom, hist.fcch, Due(api), fn, d)
    BY <2>1, <2>2 DEF Apart, TypesBanc
  <2> QED BY <2>2, <2>3, HorsTramePrime
<1> QED BY <1>1, <1>2, <1>3, <1>4, <1>5, <1>6 DEF BancNext

\* The ring, the ROM and the test keep in step in every run of the bench (tdma_sched.c,
\* sync.c, and the loops of dsp_tester.c): BancInv is inductive.
THEOREM AnneauEtPhase == BancSpec => []BancInv
<1>1. BancInit => BancInv
  BY BancDepart
<1>2. BancInv /\ [BancNext]_bancVars => BancInv'
  BY BancPas
<1> QED BY <1>1, <1>2, PTL DEF BancSpec

LEMMA InvType ==
  ASSUME BancInv
  PROVE  BancTypeOK
<1>1. PICK d, s : Apart(d, s)
  BY BancApart
<1>2. /\ fn \in Nat /\ api \in ApiT /\ tdma \in TdmaT /\ rom \in RomT /\ sch \in SchT /\ test \in TestT
      /\ d \in Nat /\ s \in Jeux /\ Anneau(tdma, hist.agenda, fn, d, s) /\ Compte(test)
  BY <1>1 DEF Apart, TypesBanc
<1>3. \A p \in 0 .. 1 : api.W[p].tache \in Taches /\ api.R[p].tache \in Taches /\ api.R[p].sb \in Trames
  BY <1>2 DEF ApiT, PagesW, PagesR
<1>4. \A k \in 0 .. Seaux - 1 : Len(tdma.seau[k]) <= Places
  <2> SUFFICES ASSUME NEW k \in 0 .. Seaux - 1 PROVE Len(tdma.seau[k]) <= Places
    OBVIOUS
  <2> DEFINE g == hist.agenda
             f == fn
             t == tdma
  <2>1. t \in TdmaT /\ f \in Nat /\ Anneau(t, g, f, d, s)
    BY <1>2
  <2> HIDE DEF g, f, t
  <2>2. t.seau[k] = Contenu(d, s, f + Ecart(t, k))
    BY <2>1, AnneauSeau
  <2>3. f + Ecart(t, k) \in Int
    BY <2>1, SeauEcart
  <2> DEFINE c == Contenu(d, s, f + Ecart(t, k))
  <2>4. Bref(c)
    BY <1>2, <2>3, ContenuBref
  <2> HIDE DEF c
  <2>5. Len(c) <= Places
    BY <2>4, SeauxNat DEF Bref
  <2>6. t.seau[k] = c
    BY <2>2 DEF c
  <2> QED BY <2>5, <2>6 DEF t
<1>5. tdma.cur \in 0 .. Seaux - 1
  BY <1>2 DEF TdmaT
<1>6. api.w \in 0 .. 1 /\ api.r \in 0 .. 1 /\ api.page \in 0 .. 1 /\ api.used \in BOOLEAN /\ api.irq \in BOOLEAN
  BY <1>2, ApiChamps
<1>7. rom.det \in BOOLEAN /\ rom.debut \in Trames /\ sch.fn \in Nat
  BY <1>2 DEF RomT, SchT
<1>8. /\ test.reste \in Nat /\ test.det \in -1 .. 1 /\ test.blocs \in 0 .. Essais
      /\ test.pas \in {"debut", "attend", "joue", "vide", "fini"} /\ test.verdict \in {"aucun", "PASS", "FAIL", "arret"}
  <2>1. test.blocs \in Nat /\ test.blocs <= Essais
    BY <1>2, TestChamps DEF Compte
  <2> QED BY <1>2, <2>1, TestChamps, BancAssumption DEF Pas, Verdicts
<1> QED BY <1>2, <1>3, <1>4, <1>5, <1>6, <1>7, <1>8 DEF BancTypeOK

\* The pages stay 0 or 1, no bucket of the scheduler is ever full, and a test never counts
\* more blocks than it reads (dsp_end_scenario, tdma_schedule, nb_lecture, ul_bloc).
THEOREM BancToujoursTypes == BancSpec => []BancTypeOK
<1>1. BancInv => BancTypeOK
  BY InvType
<1> QED BY <1>1, AnneauEtPhase, PTL

\* The ring of the scheduler is its calendar, in every run and for a ring of any length
\* (tdma_schedule_set, tdma_sched_execute, tdma_sched_reset, mframe_schedule).
THEOREM AgendaToujoursTenu == BancSpec => []AgendaTenu
<1>1. BancInv => AgendaTenu
  <2> SUFFICES ASSUME BancInv PROVE AgendaTenu
    OBVIOUS
  <2>1. PICK d, s : Apart(d, s)
    BY BancApart
  <2> DEFINE g == hist.agenda
             f == fn
             t == tdma
  <2>2. t \in TdmaT /\ f \in Nat /\ Anneau(t, g, f, d, s)
    BY <2>1 DEF Apart, TypesBanc
  <2> HIDE DEF g, f, t
  <2>3. Tient(t, g, f)
    BY <2>2, AnneauTient
  <2> QED BY <2>3, Zenon DEF Tient, AgendaTenu, t, f, g
<1> QED BY <1>1, AnneauEtPhase, PTL

\* The FCCH une_fb deduces from the TOA is the one the ROM saw.
THEOREM FcchToujoursJuste == BancSpec => [](test.deduit # Aucun => test.deduit = hist.fcch)
<1>1. BancInv => (test.deduit # Aucun => test.deduit = hist.fcch)
  BY DEF BancInv, Deduite
<1> QED BY <1>1, AnneauEtPhase, PTL

-----------------------------------------------------------------------------
(* A block of nb: which of its frames this one is, read in the calendar.   *)

Dernier == Resp("nb_resp", 3)
Rang(g, f, ag) == IF g <= 5 THEN [date |-> f + 5 - g, item |-> Dernier] \in ag ELSE \A x \in ag : x.item # Dernier

LEMMA DernierItem == Dernier \in Items /\ Dernier.cb = "nb_resp" /\ Dernier.id = 3
<1>1. 3 \in 0 .. 12
  OBVIOUS
<1> QED BY <1>1, CbsFaits, ItemResp DEF Dernier

\* The items c have the last response of a block.
Finale(c) == \E i \in DOMAIN c : c[i] = Dernier
LEMMA FinaleVide == ~Finale(<<>>)
BY DEF Finale
LEMMA FinaleUn ==
  ASSUME NEW a \in Items, a.cb # "nb_resp" \/ a.id # 3
  PROVE  ~Finale(<<a>>)
<1>1. a # Dernier
  BY DernierItem
<1> QED BY <1>1 DEF Finale
LEMMA FinaleDeux ==
  ASSUME NEW a \in Items, a.cb # "nb_resp" \/ a.id # 3, NEW b \in Items, b.cb # "nb_resp" \/ b.id # 3
  PROVE  ~Finale(<<a, b>>)
<1>1. a # Dernier /\ b # Dernier
  BY DernierItem
<1> QED BY <1>1 DEF Finale

LEMMA FinaleOu ==
  ASSUME NEW d \in Nat, NEW s \in Jeux, NEW x \in Nat, NEW c, c = Contenu(d, s, x), Finale(c)
  PROVE  s = NbSet /\ x = d + 5
<1>0. \A k \in 0 .. 12 : /\ \A cb \in Cbs : /\ Cmd(cb, k) \in Items /\ Cmd(cb, k).cb = cb /\ Cmd(cb, k).id = k
                                             /\ CmdUl(cb, k) \in Items /\ CmdUl(cb, k).cb = cb /\ CmdUl(cb, k).id = k
                                             /\ Resp(cb, k) \in Items /\ Resp(cb, k).cb = cb /\ Resp(cb, k).id = k
  BY ItemCmd, ItemCmdUl, ItemResp
<1>a. /\ \A k \in 0 .. 12 : ~Finale(<<Resp("fb_resp", k)>>) /\ ~Finale(<<Cmd("sb_cmd", k)>>) /\ ~Finale(<<Resp("sb_resp", k)>>)
      /\ \A k \in 0 .. 12 : ~Finale(<<Cmd("nb_cmd", k)>>) /\ ~Finale(<<CmdUl("tx_cmd", k)>>) /\ ~Finale(<<Resp("tx_resp", k)>>)
      /\ \A k \in 0 .. 12 : ~Finale(<<Cmd("fb_cmd", k)>>) /\ ~Finale(<<CmdUl("rach_cmd", k)>>) /\ ~Finale(<<Resp("rach_resp", k)>>)
      /\ \A k \in 0 .. 12 : ~Finale(<<Cmd("chk_cmd", k)>>) /\ (k # 3 => ~Finale(<<Resp("nb_resp", k)>>))
  <2>1. ASSUME NEW k \in 0 .. 12
        PROVE  /\ ~Finale(<<Resp("fb_resp", k)>>) /\ ~Finale(<<Cmd("sb_cmd", k)>>) /\ ~Finale(<<Resp("sb_resp", k)>>)
               /\ ~Finale(<<Cmd("nb_cmd", k)>>) /\ ~Finale(<<CmdUl("tx_cmd", k)>>) /\ ~Finale(<<Resp("tx_resp", k)>>)
               /\ ~Finale(<<Cmd("fb_cmd", k)>>) /\ ~Finale(<<CmdUl("rach_cmd", k)>>) /\ ~Finale(<<Resp("rach_resp", k)>>)
               /\ ~Finale(<<Cmd("chk_cmd", k)>>) /\ (k # 3 => ~Finale(<<Resp("nb_resp", k)>>))
    <3>1. /\ ~Finale(<<Resp("fb_resp", k)>>) /\ ~Finale(<<Cmd("sb_cmd", k)>>) /\ ~Finale(<<Resp("sb_resp", k)>>)
          /\ ~Finale(<<Cmd("nb_cmd", k)>>) /\ ~Finale(<<CmdUl("tx_cmd", k)>>) /\ ~Finale(<<Resp("tx_resp", k)>>)
      BY <1>0, CbsFaits, FinaleUn
    <3>2. /\ ~Finale(<<Cmd("fb_cmd", k)>>) /\ ~Finale(<<CmdUl("rach_cmd", k)>>) /\ ~Finale(<<Resp("rach_resp", k)>>)
          /\ ~Finale(<<Cmd("chk_cmd", k)>>)
      BY <1>0, CbsFaits, FinaleUn
    <3>3. k # 3 => ~Finale(<<Resp("nb_resp", k)>>)
      BY <1>0, CbsFaits, FinaleUn
    <3> QED BY <3>1, <3>2, <3>3
  <2> QED BY <2>1, Zenon
<1>b. \A k \in 0 .. 2, l \in 0 .. 12 : ~Finale(<<Resp("nb_resp", k), Cmd("nb_cmd", l)>>)
  <2> SUFFICES ASSUME NEW k \in 0 .. 2, NEW l \in 0 .. 12 PROVE ~Finale(<<Resp("nb_resp", k), Cmd("nb_cmd", l)>>)
    OBVIOUS
  <2>1. k \in 0 .. 12 /\ k # 3
    OBVIOUS
  <2> DEFINE a == Resp("nb_resp", k)
             b == Cmd("nb_cmd", l)
  <2>2. a \in Items /\ a.id = k /\ b \in Items /\ b.cb = "nb_cmd"
    <3>1. a \in Items /\ a.id = k
      BY <2>1, CbsFaits, ItemResp
    <3>2. b \in Items /\ b.cb = "nb_cmd"
      BY CbsFaits, ItemCmd
    <3> QED BY <3>1, <3>2
  <2> HIDE DEF a, b
  <2>3. ~Finale(<<a, b>>)
    BY <2>1, <2>2, FinaleDeux
  <2> QED BY <2>3 DEF a, b
<1>c. \A k \in 0 .. 12, l \in 0 .. 12 : ~Finale(<<Resp("tx_resp", k), CmdUl("tx_cmd", l)>>)
  BY <1>0, CbsFaits, FinaleDeux
<1>d. /\ 0 \in 0 .. 12 /\ 1 .. 12 \subseteq 0 .. 12 /\ 1 .. 2 \subseteq 0 .. 12 /\ 0 .. 1 \subseteq 0 .. 12 /\ 0 .. 1 \subseteq 0 .. 2
      /\ 2 .. 3 \subseteq 0 .. 12
      /\ \A k \in 0 .. 1 : k + 2 \in 0 .. 12
  OBVIOUS
<1>e. /\ \A k \in 1 .. 12 : c # <<Resp("fb_resp", k)>>
      /\ \A k \in 1 .. 2 : c # <<Cmd("sb_cmd", k)>> /\ c # <<Resp("sb_resp", k)>>
      /\ \A k \in 0 .. 1 : c # <<Cmd("nb_cmd", k)>> /\ c # <<CmdUl("tx_cmd", k)>>
  BY <1>a, <1>d, Zenon
<1>f. /\ c # <<Cmd("fb_cmd", 0)>> /\ c # <<CmdUl("rach_cmd", 0)>> /\ c # <<Resp("rach_resp", 0)>> /\ c # <<Cmd("chk_cmd", 0)>>
      /\ c # <<>>
      /\ \A k \in 2 .. 3 : c # <<Resp("tx_resp", k)>>
  BY <1>a, <1>d, FinaleVide, Zenon
<1>g. \A k \in 0 .. 1 : c # <<Resp("nb_resp", k), Cmd("nb_cmd", k + 2)>> /\ c # <<Resp("tx_resp", k), CmdUl("tx_cmd", k + 2)>>
  BY <1>b, <1>c, <1>d, Zenon
<1>1. PICK k \in 2 .. 3 : s = NbSet /\ x = d + k + 2 /\ c = <<Resp("nb_resp", k)>>
  <2>1. /\ ~\E k \in 1 .. 12 : x = d + k + 1 /\ c = <<Resp("fb_resp", k)>>
        /\ ~\E k \in 1 .. 2 : x = d + k - 1 /\ c = <<Cmd("sb_cmd", k)>>
        /\ ~\E k \in 1 .. 2 : x = d + k + 2 /\ c = <<Resp("sb_resp", k)>>
        /\ ~\E k \in 0 .. 1 : x = d + k /\ c = <<Cmd("nb_cmd", k)>>
        /\ ~\E k \in 0 .. 1 : x = d + k /\ c = <<CmdUl("tx_cmd", k)>>
    BY <1>e, Zenon
  <2>2. /\ ~\E k \in 0 .. 1 : x = d + k + 2 /\ c = <<Resp("nb_resp", k), Cmd("nb_cmd", k + 2)>>
        /\ ~\E k \in 0 .. 1 : x = d + k + 2 /\ c = <<Resp("tx_resp", k), CmdUl("tx_cmd", k + 2)>>
        /\ ~\E k \in 2 .. 3 : x = d + k + 2 /\ c = <<Resp("tx_resp", k)>>
    BY <1>f, <1>g, Zenon
  <2>3. \/ c = <<>>
        \/ s = FbSet /\ x = d /\ c = <<Cmd("fb_cmd", 0)>>
        \/ s = FbSet /\ \E k \in 1 .. 12 : x = d + k + 1 /\ c = <<Resp("fb_resp", k)>>
        \/ s = SbSet /\ \E k \in 1 .. 2 : x = d + k - 1 /\ c = <<Cmd("sb_cmd", k)>>
        \/ s = SbSet /\ \E k \in 1 .. 2 : x = d + k + 2 /\ c = <<Resp("sb_resp", k)>>
        \/ s = NbSet /\ \E k \in 0 .. 1 : x = d + k /\ c = <<Cmd("nb_cmd", k)>>
        \/ s = NbSet /\ \E k \in 0 .. 1 : x = d + k + 2 /\ c = <<Resp("nb_resp", k), Cmd("nb_cmd", k + 2)>>
        \/ s = NbSet /\ \E k \in 2 .. 3 : x = d + k + 2 /\ c = <<Resp("nb_resp", k)>>
        \/ s = NbSetUl /\ \E k \in 0 .. 1 : x = d + k /\ c = <<CmdUl("tx_cmd", k)>>
        \/ s = NbSetUl /\ \E k \in 0 .. 1 : x = d + k + 2 /\ c = <<Resp("tx_resp", k), CmdUl("tx_cmd", k + 2)>>
        \/ s = NbSetUl /\ \E k \in 2 .. 3 : x = d + k + 2 /\ c = <<Resp("tx_resp", k)>>
        \/ s = RachSet /\ x = d /\ c = <<CmdUl("rach_cmd", 0)>>
        \/ s = RachSet /\ x = d + 2 /\ c = <<Resp("rach_resp", 0)>>
        \/ s = ChkSet /\ x = d /\ c = <<Cmd("chk_cmd", 0)>>
    BY ContenuCas
  <2>4. s = NbSet /\ \E k \in 2 .. 3 : x = d + k + 2 /\ c = <<Resp("nb_resp", k)>>
    BY <1>f, <2>1, <2>2, <2>3, Zenon
  <2> QED BY <2>4, Zenon
<1>2. k = 3
  BY <1>a, <1>1, <1>d
<1> QED BY <1>1, <1>2

LEMMA FinaleBloc ==
  ASSUME NEW d \in Nat
  PROVE  Finale(Contenu(d, NbSet, d + 5))
<1>1. Len(NbSet) = 6 /\ NbSet[6] = <<Dernier>>
  BY NbFaits, Zenon DEF Dernier
<1>2. Contenu(d, NbSet, d + 5) = <<Dernier>>
  <2>1. d + 5 - d + 1 = 6 /\ 6 \in 1 .. 6
    OBVIOUS
  <2> QED BY <1>1, <2>1 DEF Contenu
<1>3. 1 \in DOMAIN <<Dernier>> /\ <<Dernier>>[1] = Dernier
  OBVIOUS
<1> QED BY <1>2, <1>3, Zenon DEF Finale

\* The calendar has the last response of a block when a block is under way, at its date.
LEMMA RangLie ==
  ASSUME NEW t, NEW ag, NEW f \in Nat, NEW d, NEW s, Anneau(t, ag, f, d, s)
  PROVE  /\ \A x \in ag : x.item = Dernier => s = NbSet /\ x.date = d + 5 /\ x.date >= f
         /\ s = NbSet /\ d + 5 >= f => [date |-> d + 5, item |-> Dernier] \in ag
<1>1. d \in Nat /\ s \in Jeux /\ ag = {x \in Dates(d, s) : x.date >= f}
  BY DEF Anneau
<1>2. ASSUME NEW x \in ag, x.item = Dernier PROVE s = NbSet /\ x.date = d + 5 /\ x.date >= f
  <2>1. x \in Dates(d, s) /\ x.date >= f
    BY <1>1
  <2>2. x.date \in Nat
    <3> DEFINE y == x.date
               l == Len(s)
    <3>1. y \in d .. d + l - 1 /\ l \in Nat
      BY <1>1, <2>1, DatesFaits, JeuxFaits
    <3> HIDE DEF y, l
    <3> QED BY <1>1, <3>1 DEF y
  <2> DEFINE y == x.date
             c == Contenu(d, s, y)
  <2>3. y \in Int /\ {v.item : v \in {z \in Dates(d, s) : z.date = y}} = {c[i] : i \in DOMAIN c}
    <3>1. y \in Int
      BY <2>2
    <3> QED BY <1>1, <3>1, DatesFaits, Zenon
  <2>4. x \in {z \in Dates(d, s) : z.date = y}
    BY <2>1
  <2> HIDE DEF y, c
  <2>5. Dernier \in {c[i] : i \in DOMAIN c}
    BY <1>2, <2>3, <2>4
  <2>6. Finale(c)
    BY <2>5 DEF Finale
  <2>7. s = NbSet /\ y = d + 5
    BY <1>1, <2>2, <2>6, FinaleOu DEF c, y
  <2> QED BY <2>1, <2>7 DEF y
<1>3. ASSUME s = NbSet, d + 5 >= f PROVE [date |-> d + 5, item |-> Dernier] \in ag
  <2> DEFINE y == d + 5
             c == Contenu(d, s, y)
  <2>1. y \in Int /\ {v.item : v \in {z \in Dates(d, s) : z.date = y}} = {c[i] : i \in DOMAIN c}
    <3>1. y \in Int
      BY <1>1
    <3> QED BY <1>1, <3>1, DatesFaits, Zenon
  <2>2. Finale(c)
    BY <1>1, <1>3, FinaleBloc
  <2> HIDE DEF y, c
  <2>3. Dernier \in {c[i] : i \in DOMAIN c}
    BY <2>2 DEF Finale
  <2>4. PICK v \in Dates(d, s) : v.date = y /\ v.item = Dernier
    BY <2>1, <2>3
  <2>5. v = [date |-> y, item |-> Dernier]
    BY <1>1, <2>4, DatesFaits
  <2> QED BY <1>1, <1>3, <2>4, <2>5 DEF y
<1> QED BY <1>2, <1>3

LEMMA RangDernier ==
  ASSUME NEW t, NEW ag, NEW f \in Nat, NEW d, NEW s, Anneau(t, ag, f, d, s), NEW x \in ag, x.item = Dernier
  PROVE  s = NbSet /\ x.date = d + 5 /\ x.date >= f
<1>1. \A y \in ag : y.item = Dernier => s = NbSet /\ y.date = d + 5 /\ y.date >= f
  BY RangLie, Zenon
<1> QED BY <1>1

LEMMA RangBloc ==
  ASSUME NEW t, NEW ag, NEW f \in Nat, NEW d, NEW s, Anneau(t, ag, f, d, s), NEW g \in 0 .. 5, Rang(g, f, ag)
  PROVE  s = NbSet /\ f = d + g
<1>1. [date |-> f + 5 - g, item |-> Dernier] \in ag
  BY DEF Rang
<1>2. s = NbSet /\ f + 5 - g = d + 5
  <2> DEFINE x == [date |-> f + 5 - g, item |-> Dernier]
  <2>1. x \in ag /\ x.item = Dernier /\ x.date = f + 5 - g
    BY <1>1
  <2> HIDE DEF x
  <2>2. s = NbSet /\ x.date = d + 5
    BY <2>1, RangDernier
  <2> QED BY <2>1, <2>2
<1> QED BY <1>2, AnneauTypes

LEMMA RangHors ==
  ASSUME NEW t, NEW ag, NEW f \in Nat, NEW d, NEW s, Anneau(t, ag, f, d, s), Rang(6, f, ag)
  PROVE  ~(s = NbSet /\ f <= d + 5)
<1>1. \A x \in ag : x.item # Dernier
  BY DEF Rang
<1>2. [date |-> d + 5, item |-> Dernier] \notin ag
  BY <1>1
<1>3. d \in Nat
  BY AnneauTypes
<1> QED BY <1>2, <1>3, RangLie

LEMMA RangEst ==
  ASSUME NEW t, NEW ag, NEW f \in Nat, NEW d, NEW s, Anneau(t, ag, f, d, s), s = NbSet, NEW g \in 0 .. 5, f = d + g
  PROVE  Rang(g, f, ag)
<1>1. d \in Nat
  BY AnneauTypes
<1>2. d + 5 >= f /\ f + 5 - g = d + 5 /\ g <= 5
  BY <1>1
<1>3. [date |-> d + 5, item |-> Dernier] \in ag
  BY <1>2, RangLie
<1> QED BY <1>2, <1>3 DEF Rang

LEMMA RangRien ==
  ASSUME NEW t, NEW ag, NEW f \in Nat, NEW d, NEW s, Anneau(t, ag, f, d, s), ~(s = NbSet /\ f <= d + 5)
  PROVE  Rang(6, f, ag)
<1>1. d \in Nat
  BY AnneauTypes
<1>2. \A x \in ag : x.item # Dernier
  <2> SUFFICES ASSUME NEW x \in ag, x.item = Dernier PROVE FALSE
    OBVIOUS
  <2>1. s = NbSet /\ x.date = d + 5 /\ x.date >= f
    BY RangLie
  <2> QED BY <1>1, <2>1
<1>3. ~(6 <= 5)
  OBVIOUS
<1> QED BY <1>2, <1>3, Zenon DEF Rang

-----------------------------------------------------------------------------
(* The pages of a block of nb.  g is the frame of the block, 6 outside of  *)
(* one; n is the number of interrupts the ROM has missed.                  *)

Suc(g) == IF g <= 5 THEN g + 1 ELSE 6
Impair(g) == IF g \in {1, 3, 5} THEN 1 ELSE 0

\* The interrupts that must have been missed for the page of command k to be
\* in an R page still: a page of this block that was to be read, or of an earlier one;
\* e is the distance of its date to that of this block.
DetteHors(k) == IF k <= 1 THEN 2 ELSE 1
DetteFraiche(k, h) == IF k <= 1 THEN (IF h >= 4 THEN 2 ELSE IF h >= 3 THEN 1 ELSE 0) ELSE (IF h >= 5 THEN 1 ELSE 0)
DetteVieille(k, h) == IF k <= 1 THEN (IF h >= 2 THEN 3 ELSE 2) ELSE (IF h >= 4 THEN 3 ELSE IF h >= 2 THEN 2 ELSE 1)
Dette(k, e, g) ==
  IF g = 6 THEN DetteHors(k)
  ELSE IF e = 0 THEN DetteFraiche(k, g - Impair(k)) ELSE DetteVieille(k, g - Impair(k))

\* The R page x, of number p.
Datee(k, t, p, g, f, n) ==
  k \in {p, p + 2} /\ t < f /\ (t - k) % 51 = 1 /\ n >= Dette(k, t - (f - g + k), g)
Feuille(x, p, g, f, n) == x.tache = "nb" => Datee(x.id, x.date, p, g, f, n)

LEMMA FeuilleChamps ==
  ASSUME NEW x \in PagesR
  PROVE  x.id \in 0 .. 3 /\ x.date \in Int
BY DEF PagesR, Trames, Aucun

\* A page that is neither read nor written in a frame.
LEMMA FeuilleReste ==
  ASSUME NEW x \in PagesR, NEW p \in 0 .. 1, NEW g \in 0 .. 6, NEW f \in Nat, NEW n \in Nat, NEW m \in Nat,
         Feuille(x, p, g, f, n), m = n \/ m = n + 1,
         m = n => ~(g \in 1 .. 4 /\ p = Impair(g - 1)),
         n = 0 /\ g \in 2 .. 5 => p # Impair(g)
  PROVE  Feuille(x, p, Suc(g), f + 1, m)
<1> DEFINE k == x.id
           t == x.date
           h == g - Impair(k)
           h2 == Suc(g) - Impair(k)
<1> SUFFICES ASSUME x.tache = "nb"
             PROVE  Datee(k, t, p, Suc(g), f + 1, m)
  BY DEF Feuille
<1>1. k \in 0 .. 3 /\ t \in Int /\ k \in {p, p + 2} /\ t < f /\ (t - k) % 51 = 1 /\ n >= Dette(k, t - (f - g + k), g)
  BY FeuilleChamps DEF Feuille, Datee
<1> HIDE DEF k, t
<1>2. CASE g = 6
  <2>1. Suc(g) = 6
    BY <1>2 DEF Suc
  <2>2. n >= DetteHors(k)
    BY <1>1, <1>2, Zenon DEF Dette
  <2>3. m >= DetteHors(k)
    BY <2>2 DEF DetteHors
  <2>4. Dette(k, t - ((f + 1) - Suc(g) + k), Suc(g)) = DetteHors(k)
    BY <2>1, Zenon DEF Dette
  <2>5. t < f + 1
    BY <1>1
  <2>6. m >= Dette(k, t - ((f + 1) - Suc(g) + k), Suc(g))
    BY <2>3, <2>4
  <2> DEFINE j == Suc(g)
             v == f + 1
  <2>7. k \in {p, p + 2} /\ t < v /\ (t - k) % 51 = 1 /\ m >= Dette(k, t - (v - j + k), j)
    BY <1>1, <2>5, <2>6, Zenon
  <2> HIDE DEF j, v
  <2>8. Datee(k, t, p, j, v, m)
    BY <2>7, Zenon DEF Datee
  <2> QED BY <2>8 DEF j, v
<1>3. CASE g = 5
  <2>1. Suc(g) = 6 /\ Impair(g) = 1
    BY <1>3 DEF Suc, Impair
  <2>2. k \in {0, 2} \/ n # 0
    BY <1>1, <1>3, <2>1
  <2>3. n >= DetteFraiche(k, h) \/ n >= DetteVieille(k, h)
    BY <1>1, <1>3 DEF Dette
  <2>4. m >= DetteHors(k)
    BY <1>1, <1>3, <2>2, <2>3 DEF DetteHors, DetteFraiche, DetteVieille, Impair
  <2> QED BY <1>1, <2>1, <2>4 DEF Dette, Datee
<1>4. CASE g \in 0 .. 4
  <2>1. Suc(g) = g + 1 /\ (f + 1) - Suc(g) + k = f - g + k /\ Suc(g) # 6 /\ h2 = h + 1
    BY <1>1, <1>4 DEF Suc, Impair
  <2>2. CASE t = f - g + k
    <3>1. n >= DetteFraiche(k, h)
      BY <1>1, <1>4, <2>2 DEF Dette
    <3>2. m >= DetteFraiche(k, h + 1)
      BY <1>1, <1>4, <3>1 DEF DetteFraiche, Impair
    <3> QED BY <1>1, <2>1, <2>2, <3>2 DEF Dette, Datee
  <2>3. CASE t # f - g + k
    <3>1. n >= DetteVieille(k, h)
      BY <1>1, <1>4, <2>3 DEF Dette
    <3>2. m >= DetteVieille(k, h + 1)
      BY <1>1, <1>4, <3>1 DEF DetteVieille, Impair
    <3> QED BY <1>1, <2>1, <2>3, <3>2 DEF Dette, Datee
  <2> QED BY <2>2, <2>3
<1> QED BY <1>2, <1>3, <1>4

\* A page when a block begins.
LEMMA FeuilleDebut ==
  ASSUME NEW x \in PagesR, NEW p \in 0 .. 1, NEW f \in Nat, NEW n \in Nat, Feuille(x, p, 6, f, n)
  PROVE  Feuille(x, p, 0, f, n)
<1> DEFINE k == x.id
           t == x.date
<1> SUFFICES ASSUME x.tache = "nb"
             PROVE  Datee(k, t, p, 0, f, n)
  BY DEF Feuille
<1>1. k \in 0 .. 3 /\ t \in Int /\ k \in {p, p + 2} /\ t < f /\ (t - k) % 51 = 1 /\ n >= Dette(k, t - (f - 6 + k), 6)
  BY FeuilleChamps DEF Feuille, Datee
<1> HIDE DEF k, t
<1>2. n >= DetteHors(k)
  BY <1>1 DEF Dette
<1>3. n >= DetteVieille(k, 0 - Impair(k))
  BY <1>1, <1>2 DEF DetteHors, DetteVieille, Impair
<1>4. t # f - 0 + k
  BY <1>1
<1> QED BY <1>1, <1>3, <1>4 DEF Dette, Datee

LEMMA FeuilleVide ==
  ASSUME NEW p, NEW g, NEW f, NEW n
  PROVE  Feuille(VideR, p, g, f, n)
BY DEF Feuille, VideR, PageR

\* The page the ROM writes in frame g of the block, that of the command before.
LEMMA FeuilleEcrite ==
  ASSUME NEW x, NEW g \in 1 .. 4, NEW f \in Nat, NEW n \in Nat, (f - g) % 51 = 1, x.id = g - 1, x.date = f - 1
  PROVE  Feuille(x, Impair(g - 1), g + 1, f + 1, n)
<1> DEFINE k == g - 1
           p == Impair(k)
           h == (g + 1) - Impair(k)
<1>1. k \in {p, p + 2} /\ k \in 0 .. 3
  BY DEF Impair
<1>2. f - 1 < f + 1 /\ f - 1 - k = f - g /\ (f - 1) - ((f + 1) - (g + 1) + k) = 0 /\ g + 1 # 6
  OBVIOUS
<1>3. n >= DetteFraiche(k, h)
  BY DEF DetteFraiche, Impair
<1> DEFINE i == g + 1
<1>6. i # 6
  OBVIOUS
<1>7. n >= DetteFraiche(k, i - Impair(k))
  BY <1>3, Zenon
<1> HIDE DEF k, p, h, i
<1>4. n >= Dette(k, 0, i)
  BY <1>6, <1>7 DEF Dette
<1>5. Datee(k, f - 1, p, g + 1, f + 1, n)
  BY <1>1, <1>2, <1>4 DEF Datee, i
<1> QED BY <1>5 DEF Feuille, k, p

\* The page a response accepts.
LEMMA FeuilleLue ==
  ASSUME NEW x \in PagesR, NEW p, NEW g \in 2 .. 5, NEW f \in Nat, NEW n \in Nat, Feuille(x, p, g, f, n),
         x.tache = "nb", x.id = g - 2, (f - g) % 51 = 1
  PROVE  (f - 2 - x.date) % 51 = 0 /\ (n <= 2 => x.date = f - 2)
<1> DEFINE k == x.id
           t == x.date
<1>1. k = g - 2 /\ t \in Int /\ (t - k) % 51 = 1 /\ n >= Dette(k, t - (f - g + k), g)
  BY FeuilleChamps DEF Feuille, Datee
<1> HIDE DEF k, t
<1>2. (f - 2 - t) % 51 = 0
  <2> DEFINE a == f - g
             b == t - k
  <2>1. a \in Int /\ b \in Int /\ a % 51 = 1 /\ b % 51 = 1 /\ f - 2 - t = a - b
    BY <1>1
  <2> HIDE DEF a, b
  <2>2. (a - b) % 51 = 0
    BY <2>1
  <2> QED BY <2>1, <2>2
<1>3. CASE t = f - g + k
  BY <1>1, <1>2, <1>3 DEF t
<1>4. CASE t # f - g + k
  <2>1. n >= DetteVieille(k, g - Impair(k))
    BY <1>1, <1>4 DEF Dette
  <2>2. n >= 3
    BY <1>1, <2>1 DEF DetteVieille, Impair
  <2> QED BY <1>2, <2>2 DEF t
<1> QED BY <1>3, <1>4

-----------------------------------------------------------------------------
(* What the items of a block do, frame by frame.                           *)

\* A set that is over has nothing left to do.
LEMMA EffetPasse ==
  ASSUME fn \in Nat, NEW c, NEW d \in Nat, NEW s \in Jeux, Passe(fn, d, s),
         NEW R, NEW H, NEW q, NEW u, NEW P, NEW S, NEW K, Effet(c, d, s, R, H, q, u, P, S, K)
  PROVE  EVide(c, H, q, u, P, S, K)
<1> DEFINE l == Len(s)
<1>1. /\ (s = FbSet => l = 14) /\ (s = SbSet => l = 5) /\ (s = NbSet => l = 6) /\ (s = NbSetUl => l = 6)
      /\ (s = RachSet => l = 3) /\ (s = ChkSet => l = 1) /\ d + l <= fn /\ l \in Nat
  BY Longueurs, JeuxFaits DEF Passe
<1> HIDE DEF l
<1>2. ~ECmd(d, s, H, q, u, P, S, K)
  <2>1. (\E k \in 1 .. 2 : fn = d + k - 1 /\ P = PageW("sb", k, fn)) => fn <= d + 1
    OBVIOUS
  <2>2. (\E k \in 0 .. 1 : fn = d + k /\ P = PageW("nb", k, fn)) => fn <= d + 1
    OBVIOUS
  <2>3. ~(l >= 1 /\ fn = d) /\ ~(l >= 5 /\ fn <= d + 1)
    BY <1>1
  <2>4. (l = 14 \/ l = 3 \/ l = 1 => l >= 1) /\ (l = 5 \/ l = 6 => l >= 5)
    OBVIOUS
  <2> QED BY <1>1, <2>1, <2>2, <2>3, <2>4, Zenon DEF ECmd
<1>3. ~ETx(d, s, H, q, u, P, S, K)
  <2> SUFFICES ASSUME s = NbSetUl, NEW k \in 0 .. 3, fn = d + k PROVE FALSE
    BY Zenon DEF ETx
  <2> QED BY <1>1
<1>4. ~ERien(d, s, H, q, u, P, S, K)
  BY <1>1 DEF ERien
<1>5. ~ESb(d, s, H, q, u, P, S, K)
  <2> SUFFICES ASSUME s = SbSet, NEW k \in 1 .. 2, fn = d + k + 2 PROVE FALSE
    BY Zenon DEF ESb
  <2> QED BY <1>1
<1>6. ~EFb(d, s, R, H, q, u, P, S, K)
  <2> SUFFICES ASSUME s = FbSet, NEW k \in 1 .. 12, fn = d + k + 1 PROVE FALSE
    BY Zenon DEF EFb
  <2> QED BY <1>1
<1>7. ~ENb(d, s, R, H, q, u, P, S, K)
  <2> SUFFICES ASSUME s = NbSet, NEW k \in 0 .. 3, fn = d + k + 2 PROVE FALSE
    BY Zenon DEF ENb
  <2> QED BY <1>1
<1> QED BY <1>2, <1>3, <1>4, <1>5, <1>6, <1>7, Zenon DEF Effet

LEMMA NbNonVide ==
  ASSUME NEW d \in Nat, NEW g \in 0 .. 5
  PROVE  Contenu(d, NbSet, d + g) # <<>>
<1> DEFINE j == d + g - d + 1
<1>1. j \in 1 .. 6 /\ j \in 1 .. Len(NbSet)
  BY NbFaits
<1>2. Contenu(d, NbSet, d + g) = NbSet[j]
  BY <1>1 DEF Contenu
<1>3. \A a, b : <<a>> # <<>> /\ <<a, b>> # <<>>
  OBVIOUS
<1>4. j = 1 \/ j = 2 \/ j = 3 \/ j = 4 \/ j = 5 \/ j = 6
  BY <1>1
<1> HIDE DEF j
<1>5. NbSet[j] # <<>>
  BY <1>3, <1>4, NbFaits, Zenon
<1> QED BY <1>2, <1>5

\* The frame g of a block of nb: its command, and its response.
Commande(g, q, P) == IF g <= 3 THEN q = Oui /\ P = PageW("nb", g, fn) ELSE q = Non /\ P = VideW
Lue(g) == g \in 2 .. 5 /\ Lit(g - 2)
Reponds(g, H, u, K) == IF Lue(g) THEN u = Oui /\ K = Accepte(H) ELSE u = Non /\ K = H

LEMMA EffetNb ==
  ASSUME fn \in Nat, NEW d \in Nat, NEW g \in 0 .. 5, fn = d + g, NEW s, s = NbSet, NEW c, c = Contenu(d, s, fn),
         NEW R, NEW H, NEW q, NEW u, NEW P, NEW S, NEW K, Effet(c, d, s, R, H, q, u, P, S, K)
  PROVE  Commande(g, q, P) /\ Reponds(g, H, u, K)
<1>1. c # <<>>
  BY NbNonVide
<1>2. ECmd(d, s, H, q, u, P, S, K) \/ ENb(d, s, R, H, q, u, P, S, K)
  BY <1>1, JeuxDistincts, BlocsDistincts, Zenon DEF Effet, EVide, ETx, ERien, ESb, EFb
<1>3. CASE ECmd(d, s, H, q, u, P, S, K)
  <2>1. PICK k \in 0 .. 1 : q = Oui /\ u = Non /\ K = H /\ fn = d + k /\ P = PageW("nb", k, fn)
    BY <1>3, JeuxDistincts, Zenon DEF ECmd
  <2>2. g = k /\ g <= 3 /\ ~(g \in 2 .. 5)
    BY <2>1
  <2> QED BY <2>1, <2>2, Zenon DEF Commande, Reponds, Lue
<1>4. CASE ENb(d, s, R, H, q, u, P, S, K)
  <2>1. PICK k \in 0 .. 3 :
          /\ fn = d + k + 2
          /\ IF k <= 1 THEN q = Oui /\ P = PageW("nb", k + 2, fn) ELSE q = Non /\ P = VideW
          /\ IF Lit(k) THEN u = Oui /\ K = Accepte(H) ELSE u = Non /\ K = H
    BY <1>4, Zenon DEF ENb
  <2>2. g = k + 2 /\ g - 2 = k /\ g \in 2 .. 5 /\ (k <= 1 <=> g <= 3)
    BY <2>1
  <2>3. Commande(g, q, P)
    BY <2>1, <2>2, Zenon DEF Commande
  <2>4. Reponds(g, H, u, K)
    BY <2>1, <2>2, Zenon DEF Reponds, Lue
  <2> QED BY <2>3, <2>4
<1> QED BY <1>2, <1>3, <1>4

LEMMA EffetTx ==
  ASSUME NEW d, NEW s, s = NbSetUl, NEW c,
         NEW R, NEW H, NEW q, NEW u, NEW P, NEW S, NEW K, Effet(c, d, s, R, H, q, u, P, S, K)
  PROVE  \/ P = VideW /\ S = test
         \/ \E k \in 0 .. 3 : P = PageW("tx", k, fn) /\ S = TxNote(test, k)
<1>1. EVide(c, H, q, u, P, S, K) \/ ETx(d, s, H, q, u, P, S, K) \/ ERien(d, s, H, q, u, P, S, K)
  BY JeuxDistincts, BlocsDistincts, Zenon DEF Effet, ECmd, ESb, EFb, ENb
<1> QED BY <1>1, Zenon DEF EVide, ETx, ERien

-----------------------------------------------------------------------------
(* A frame, page by page.                                                  *)

LEMMA AgendaFinType ==
  ASSUME fn \in Nat, NEW T \in TdmaT, NEW g \in SUBSET [date : Nat, item : Items]
  PROVE  AgendaFin(T, g) \in SUBSET [date : Nat, item : Items]
<1> DEFINE s == T.mf.set
           d == fn + 1
<1>1. s \in Jeux /\ d \in Nat
  BY DEF TdmaT
<1>2. AgendaFin(T, g) \subseteq g \cup Dates(d, s)
  BY DEF AgendaFin
<1> HIDE DEF s, d
<1>3. ASSUME NEW x \in Dates(d, s) PROVE x \in [date : Nat, item : Items]
  <2> DEFINE l == Len(s)
             y == x.date
             i == x.item
  <2>1. y \in d .. d + l - 1 /\ x = [date |-> y, item |-> i] /\ i \in Items /\ l \in Nat
    BY <1>1, DatesFaits, JeuxFaits
  <2> HIDE DEF l, y, i
  <2>2. y \in Nat
    BY <1>1, <2>1
  <2> QED BY <2>1, <2>2
<1> QED BY <1>2, <1>3

\* c is what the ROM has read, q the flags of the frame, u says that an R page has been used,
\* P is the W page.
ApiSuit(a, c, q, u, P) ==
  /\ a \in ApiT /\ a.w = (IF q THEN 1 - api.w ELSE api.w) /\ a.r = (IF u THEN 1 - api.r ELSE api.r)
  /\ a.page = (IF q THEN api.w ELSE api.page) /\ a.irq = q /\ a.W = [api.W EXCEPT ![api.w] = P]
  /\ \E x : a.R = RepR(IF u THEN [api.R EXCEPT ![api.r] = VideR] ELSE api.R, c, x)
HistSuit(h, pris, K) ==
  /\ h \in HistT /\ h.accepte = K.accepte /\ h.emis = EmisFin(hist.emis, Recue(pris))
  /\ h.perdus = (IF api.irq /\ ~pris THEN hist.perdus + 1 ELSE hist.perdus)
Menee(d, s, pris, q, u, P, S, K) ==
  /\ q \in BOOLEAN /\ u \in BOOLEAN /\ P \in PagesW
  /\ Effet(Contenu(d, s, fn), d, s, RomA(Recue(pris)), HistA(pris), q, u, P, S, K)
  /\ test'.fnCmd = S.fnCmd
  /\ test.nom # "idle" => ApiSuit(api', Recue(pris), q, u, P)

LEMMA ApiMenee ==
  ASSUME TypesBanc, NEW c \in PagesW, NEW fen, NEW q \in BOOLEAN, NEW u \in BOOLEAN, NEW P, NEW A \in ApiT, A = ApiPose(u, P),
         NEW a, a = ApiApres(A, q, c, fen)
  PROVE  ApiSuit(a, c, q, u, P)
<1> DEFINE x == Recu(c, fen)
<1>1. ApiEst(a, A, q, RFin(A, c, x))
  BY FinApi
<1> HIDE DEF x
<1>2. A.w = api.w /\ A.r = api.r /\ A.used = u /\ A.page = api.page /\ A.irq = Non /\ A.W = [api.W EXCEPT ![api.w] = P] /\ A.R = api.R
  BY DEF ApiPose, Non
<1>3. RFin(A, c, x) = RepR(IF u THEN [api.R EXCEPT ![api.r] = VideR] ELSE api.R, c, x)
  BY <1>2 DEF RFin, RVide
<1>4. (A.irq \/ q) = q
  BY <1>2 DEF Non
<1> DEFINE X == RFin(A, c, x)
           W == [api.W EXCEPT ![api.w] = P]
<1>5. /\ a \in ApiT /\ a.w = (IF q THEN 1 - api.w ELSE api.w) /\ a.r = (IF u THEN 1 - api.r ELSE api.r)
      /\ a.page = (IF q THEN api.w ELSE api.page) /\ a.irq = q /\ a.W = W /\ a.R = X
  <2> HIDE DEF X, W
  <2>1. ApiEst(a, A, q, X) /\ A.W = W
    BY <1>1, <1>2 DEF X, W
  <2> QED BY <1>2, <1>4, <2>1 DEF ApiEst
<1> HIDE DEF X
<1>6. \E y : a.R = RepR(IF u THEN [api.R EXCEPT ![api.r] = VideR] ELSE api.R, c, y)
  BY <1>3, <1>5, Zenon DEF X
<1> QED BY <1>5, <1>6, Zenon DEF ApiSuit

LEMMA TrameMenee ==
  ASSUME NEW d, NEW s, Apart(d, s), Trame
  PROVE  \E pris \in BOOLEAN, K \in HistT :
           /\ ~pris => api.irq
           /\ HistSuit(hist', pris, K)
           /\ \/ \E q, u, P, S : Menee(d, s, pris, q, u, P, S, K)
              \/ K.accepte = hist.accepte /\ \E k : Trouve(d, s, RomA(Recue(pris)), k)
<1>1. TypesBanc /\ d \in Nat /\ s \in Jeux /\ Anneau(tdma, hist.agenda, fn, d, s)
  BY DEF Apart
<1>2. test.reste > 0 /\ CasTrame(d, s)
  BY <1>1, TrameFaits
<1>3. PICK pris \in BOOLEAN, dr \in BOOLEAN, fcch \in BOOLEAN, residu \in Residus, A \in ApiT, T \in TdmaT, R \in RomT,
         S \in TestT, K \in HistT : \E fen \in Fenetres(Recue(pris)) :
        /\ ~pris => api.irq /\ hist.perdus < MaxPerdus
        /\ fcch => RomA(Recue(pris)).debut # Aucun /\ Type(fn) = "F"
        /\ \/ \E q, u, P : L1Calme(d, s, pris, dr, q, u, P, A, T, R, S, K)
           \/ L1Detecte(d, s, pris, dr, A, T, R, S, K)
        /\ Finit(Recue(pris), fen, fcch, residu, dr, A, T, R, S, K)
  BY <1>2, Zenon DEF CasTrame
<1>4. PICK fen : /\ \/ \E q, u, P : L1Calme(d, s, pris, dr, q, u, P, A, T, R, S, K)
                    \/ L1Detecte(d, s, pris, dr, A, T, R, S, K)
                 /\ Finit(Recue(pris), fen, fcch, residu, dr, A, T, R, S, K)
  BY <1>3, Zenon
<1>5. ~pris => api.irq
  BY <1>3, Zenon
<1> DEFINE c == Recue(pris)
           H == HistA(pris)
<1>6. /\ fn \in Nat /\ test \in TestT /\ c \in PagesW /\ H \in HistT /\ RomA(c) \in RomT
      /\ H.emis = hist.emis /\ H.accepte = hist.accepte
      /\ H.perdus = (IF api.irq /\ ~pris THEN hist.perdus + 1 ELSE hist.perdus)
  BY <1>1, AvantFaits DEF TypesBanc
<1>7. HistEst(hist', K, AgendaFin(T, K.agenda), Recu(c, fen), c, fen, fcch)
  <2>1. K.agenda \in SUBSET [date : Nat, item : Items]
    BY DEF HistT
  <2>2. AgendaFin(T, K.agenda) \in SUBSET [date : Nat, item : Items]
    BY <1>6, <2>1, AgendaFinType
  <2>3. hist' = HistApres(K, T, c, fen, fcch)
    BY <1>4, Zenon DEF Finit
  <2> HIDE DEF c
  <2> QED BY <1>1, <1>6, <2>2, <2>3, FinHist
<1>8. hist' \in HistT /\ hist'.accepte = K.accepte /\ hist'.perdus = K.perdus /\ hist'.emis = EmisFin(K.emis, c)
  BY <1>7 DEF HistEst
<1>9. CASE \E q, u, P : L1Calme(d, s, pris, dr, q, u, P, A, T, R, S, K)
  <2>1. PICK q, u, P : L1Calme(d, s, pris, dr, q, u, P, A, T, R, S, K)
    BY <1>9, Zenon
  <2>2. A = ApiPose(u, P) /\ R = RomA(c) /\ dr = (q \/ test.nom = "idle") /\ Effet(Contenu(d, s, fn), d, s, R, H, q, u, P, S, K)
    BY <2>1 DEF L1Calme
  <2>3. Suit(d, s, R, H, q, u, P, S, K)
    <3> DEFINE x == Contenu(d, s, fn)
    <3>1. x = Contenu(d, s, fn) /\ Effet(x, d, s, R, H, q, u, P, S, K)
      BY <2>2
    <3> HIDE DEF x, H, c
    <3> QED BY <1>1, <1>6, <2>2, <3>1, EffetSuit
  <2> HIDE DEF c, H
  <2>4. q \in BOOLEAN /\ u \in BOOLEAN /\ P \in PagesW /\ S \in TestT /\ MemeTest(S) /\ MemeHist(K, H)
    BY <2>3, Zenon DEF Suit
  <2>5. HistSuit(hist', pris, K)
    <3>1. K.emis = hist.emis /\ K.perdus = H.perdus
      BY <1>6, <2>4 DEF MemeHist
    <3> QED BY <1>6, <1>8, <3>1 DEF HistSuit, c
  <2>6. test'.fnCmd = S.fnCmd
    <3> DEFINE t == TestApres(S)
    <3>1. S.reste > 0
      BY <1>2, <2>4 DEF MemeTest
    <3>2. t.fnCmd = S.fnCmd
      BY <3>1, FinTest
    <3>3. test' = t
      BY <1>4, Zenon DEF Finit
    <3> HIDE DEF t
    <3> QED BY <3>2, <3>3
  <2>7. test.nom # "idle" => ApiSuit(api', c, q, u, P)
    <3> SUFFICES ASSUME test.nom # "idle" PROVE ApiSuit(api', c, q, u, P)
      OBVIOUS
    <3>1. dr = q
      BY <2>2, <2>4
    <3>2. api' = ApiApres(A, q, c, fen)
      BY <1>4, <3>1, Zenon DEF Finit, c
    <3> DEFINE a == api'
    <3>3. a = ApiApres(A, q, c, fen)
      BY <3>2
    <3> HIDE DEF a
    <3>4. ApiSuit(a, c, q, u, P)
      BY <1>1, <1>6, <2>2, <2>4, <3>3, ApiMenee
    <3> QED BY <3>4 DEF a
  <2>8. Menee(d, s, pris, q, u, P, S, K)
    <3>1. Effet(Contenu(d, s, fn), d, s, RomA(Recue(pris)), HistA(pris), q, u, P, S, K)
      BY <2>2 DEF c, H
    <3> QED BY <2>4, <2>6, <2>7, <3>1, Zenon DEF Menee, c
  <2> QED BY <1>5, <2>5, <2>8, Zenon
<1>10. CASE L1Detecte(d, s, pris, dr, A, T, R, S, K)
  <2>1. PICK k : Trouve(d, s, RomA(Recue(pris)), k) /\ K = [H EXCEPT !.agenda = {x \in @ : x.date = fn}]
    BY <1>10, Zenon DEF L1Detecte
  <2>2. K.accepte = hist.accepte /\ K.emis = hist.emis /\ K.perdus = H.perdus
    <3> DEFINE g == {x \in H.agenda : x.date = fn}
    <3>1. K = [H EXCEPT !.agenda = g]
      BY <2>1
    <3> HIDE DEF g, H, c
    <3> QED BY <1>6, <3>1 DEF HistT
  <2> HIDE DEF c, H
  <2>3. HistSuit(hist', pris, K)
    BY <1>6, <1>8, <2>2 DEF HistSuit, c
  <2> QED BY <1>5, <2>1, <2>2, <2>3, Zenon
<1> QED BY <1>4, <1>9, <1>10

\* What a running test has in the ring.
LEMMA PhaseMenee ==
  ASSUME NEW t \in TestT, NEW m, NEW f \in Nat, NEW d \in Nat, NEW s \in Jeux, Phase(t, m, f, d, s), t.reste > 0
  PROVE  /\ t.nom \in {"nb", "tx"} => Passe(f, d, s) \/ (s = Bloc(t) /\ d <= f)
         /\ t.nom # "nb" => Passe(f, d, s) \/ s # NbSet
         /\ m.set # <<>> => m.set = Bloc(t) /\ m.frame = Trame0(t)
<1>1. ~PhFini(t)
  <2>1. t.reste \in Nat
    BY TestChamps
  <2> QED BY <2>1 DEF PhFini
<1>2. CASE PhAttend(t, m, f, d, s)
  BY <1>2, Zenon DEF PhAttend
<1>3. CASE PhCherche(t, m, f, d, s)
  BY <1>3, JeuxDistincts DEF PhCherche, Cherche, CherchentFb
<1>4. CASE PhTrouve(t, m, f, d, s)
  BY <1>4, Zenon DEF PhTrouve
<1>5. CASE PhSb(t, m, f, d, s)
  BY <1>5, JeuxDistincts DEF PhSb, Joueur
<1>6. CASE PhAcces(t, m, f, d, s)
  BY <1>6, JeuxDistincts DEF PhAcces, Joueur
<1>7. CASE PhBlocs(t, m, f, d, s)
  BY <1>7, BlocsDistincts DEF PhBlocs, Bloc
<1>8. CASE PhVide(t, m, f, d, s)
  BY <1>8, BlocsDistincts DEF PhVide, Bloc
<1> QED BY <1>1, <1>2, <1>3, <1>4, <1>5, <1>6, <1>7, <1>8 DEF Phase

LEMMA ApartMenee ==
  ASSUME NEW d, NEW s, Apart(d, s), test.reste > 0
  PROVE  /\ test.nom \in {"nb", "tx"} => Passe(fn, d, s) \/ (s = Bloc(test) /\ d <= fn)
         /\ test.nom # "nb" => Passe(fn, d, s) \/ s # NbSet
         /\ tdma.mf.set # <<>> => tdma.mf.set = Bloc(test) /\ tdma.mf.frame = Trame0(test)
         /\ test.nom \in {"nb", "tx"} => ~\E R, k : Trouve(d, s, R, k)
         /\ Prete(d, s)
<1> DEFINE m == tdma.mf
           f == fn
           t == test
<1>1. t \in TestT /\ f \in Nat /\ d \in Nat /\ s \in Jeux /\ Phase(t, m, f, d, s) /\ t.reste > 0 /\ TypesBanc
  BY DEF Apart, TypesBanc
<1>2. Prete(d, s)
  BY <1>1, PreteFaits
<1> HIDE DEF m, f, t
<1>3. /\ t.nom \in {"nb", "tx"} => Passe(f, d, s) \/ (s = Bloc(t) /\ d <= f)
      /\ t.nom # "nb" => Passe(f, d, s) \/ s # NbSet
      /\ m.set # <<>> => m.set = Bloc(t) /\ m.frame = Trame0(t)
  BY <1>1, PhaseMenee
<1>4. t.nom \in {"nb", "tx"} => ~\E R, k : Trouve(d, s, R, k)
  <2> SUFFICES ASSUME t.nom \in {"nb", "tx"}, NEW R, NEW k, Trouve(d, s, R, k) PROVE FALSE
    OBVIOUS
  <2>1. s = FbSet /\ f \in d .. d + 13
    BY <1>1 DEF Trouve, f
  <2>2. PhCherche(t, m, f, d, s)
    BY <1>1, <2>1, JeuFb
  <2> QED BY <2>2 DEF PhCherche, Cherche, CherchentFb
<1> QED BY <1>2, <1>3, <1>4, Zenon DEF m, f, t

\* A test of blocks does not search.
LEMMA MeneeSeule ==
  ASSUME NEW d, NEW s, Apart(d, s), Trame, test.nom \in {"nb", "tx"}
  PROVE  \E pris \in BOOLEAN, K \in HistT :
           (~pris => api.irq) /\ HistSuit(hist', pris, K) /\ \E q, u, P, S : Menee(d, s, pris, q, u, P, S, K)
<1>1. PICK pris \in BOOLEAN, K \in HistT :
           /\ ~pris => api.irq
           /\ HistSuit(hist', pris, K)
           /\ \/ \E q, u, P, S : Menee(d, s, pris, q, u, P, S, K)
              \/ K.accepte = hist.accepte /\ \E k : Trouve(d, s, RomA(Recue(pris)), k)
  BY TrameMenee, Zenon
<1>2. test.reste > 0
  BY DEF Trame
<1>3. ~\E R, k : Trouve(d, s, R, k)
  BY <1>2, ApartMenee
<1>4. ~\E k : Trouve(d, s, RomA(Recue(pris)), k)
  BY <1>3, Zenon
<1> QED BY <1>1, <1>4, Zenon

\* What the test has been given, on the history h.
Sien(h) == (h.accepte.resp - 2 - h.accepte.cmd) % 51 = 0 /\ (h.perdus <= 2 => h.accepte.cmd = h.accepte.resp - 2)

LEMMA SienSuit ==
  ASSUME NEW h, h.perdus \in Nat, NEW h2, Sien(h), h2.accepte = h.accepte, h2.perdus \in {h.perdus, h.perdus + 1}
  PROVE  Sien(h2)
BY DEF Sien

LEMMA SienHors ==
  ASSUME NEW d, NEW s, Apart(d, s), Trame, test.nom # "nb", Sien(hist)
  PROVE  Sien(hist')
<1>1. test.reste > 0 /\ TypesBanc /\ fn \in Nat /\ d \in Nat /\ s \in Jeux /\ hist.perdus \in Nat
  BY DEF Trame, Apart, TypesBanc, HistT
<1>2. Passe(fn, d, s) \/ s # NbSet
  BY <1>1, ApartMenee
<1>3. PICK pris \in BOOLEAN, K \in HistT :
           /\ HistSuit(hist', pris, K)
           /\ \/ \E q, u, P, S : Menee(d, s, pris, q, u, P, S, K)
              \/ K.accepte = hist.accepte /\ \E k : Trouve(d, s, RomA(Recue(pris)), k)
  BY TrameMenee, Zenon
<1>4. K.accepte = hist.accepte
  <2> SUFFICES ASSUME NEW q, NEW u, NEW P, NEW S, Menee(d, s, pris, q, u, P, S, K) PROVE K.accepte = hist.accepte
    BY <1>3
  <2> DEFINE c == Contenu(d, s, fn)
             R == RomA(Recue(pris))
             H == HistA(pris)
  <2>1. H.accepte = hist.accepte
    BY <1>1, AvantFaits
  <2>2. Effet(c, d, s, R, H, q, u, P, S, K)
    BY Zenon DEF Menee
  <2> HIDE DEF c, R, H
  <2>3. CASE s # NbSet
    <3>1. K = H
      BY <2>2, <2>3, Zenon DEF Effet, EVide, ECmd, ETx, ERien, ESb, EFb, ENb
    <3> QED BY <2>1, <3>1
  <2>4. CASE Passe(fn, d, s)
    <3>1. EVide(c, H, q, u, P, S, K)
      BY <1>1, <2>2, <2>4, EffetPasse
    <3> QED BY <2>1, <3>1 DEF EVide
  <2> QED BY <1>2, <2>3, <2>4
<1>5. hist'.accepte = hist.accepte /\ hist'.perdus \in {hist.perdus, hist.perdus + 1}
  BY <1>1, <1>3, <1>4 DEF HistSuit
<1> QED BY <1>1, <1>5, SienSuit

-----------------------------------------------------------------------------
(* The uplink: e is what has been sent, fc what tx_cmd has noted.          *)

Montant(a, f, fc) ==
  a.irq /\ a.W[a.page].tache \in {"tx", "rach"} => [id |-> a.W[a.page].id, fn |-> f] \in fc

LEMMA PageEnvoi ==
  ASSUME NEW a, NEW f \in Nat, NEW k \in 0 .. 3, NEW fc, a.W[a.page] = PageW("tx", k, f), [id |-> k, fn |-> f + 1] \in fc
  PROVE  Montant(a, f + 1, fc)
<1>1. a.W[a.page].id = k
  BY DEF PageW
<1> QED BY <1>1 DEF Montant

LEMMA PageMuette ==
  ASSUME NEW a, NEW f, NEW fc, a.irq => a.W[a.page] = VideW
  PROVE  Montant(a, f, fc)
<1>1. VideW.tache \notin {"tx", "rach"}
  BY DEF VideW, PageW
<1> QED BY <1>1 DEF Montant

LEMMA MontantPas ==
  ASSUME NEW d, NEW s, Apart(d, s), Trame, test.nom = "tx", hist.emis \subseteq test.fnCmd, Montant(api, fn, test.fnCmd)
  PROVE  hist'.emis \subseteq test'.fnCmd /\ Montant(api', fn', test'.fnCmd)
<1>1. /\ test.reste > 0 /\ TypesBanc /\ fn \in Nat /\ d \in Nat /\ s \in Jeux /\ test \in TestT /\ api \in ApiT
      /\ fn' = fn + 1
  BY DEF Trame, Apart, TypesBanc
<1>2. Passe(fn, d, s) \/ s = NbSetUl
  BY <1>1, ApartMenee DEF Bloc
<1>3. PICK pris \in BOOLEAN, K \in HistT :
           HistSuit(hist', pris, K) /\ \E q, u, P, S : Menee(d, s, pris, q, u, P, S, K)
  BY <1>1, MeneeSeule
<1>4. PICK q, u, P, S : Menee(d, s, pris, q, u, P, S, K)
  BY <1>3
<1> DEFINE c == Contenu(d, s, fn)
           R == RomA(Recue(pris))
           H == HistA(pris)
           a == api'
<1>5. /\ Effet(c, d, s, R, H, q, u, P, S, K) /\ ApiSuit(a, Recue(pris), q, u, P) /\ test'.fnCmd = S.fnCmd
      /\ q \in BOOLEAN /\ u \in BOOLEAN
  BY <1>4, Zenon DEF Menee
<1>6. a.irq => a.W[a.page] = P
  <2>1. api.w \in 0 .. 1 /\ api.W \in [0 .. 1 -> PagesW]
    BY <1>1, ApiChamps
  <2> HIDE DEF a
  <2> QED BY <1>5, <2>1 DEF ApiSuit
<1> HIDE DEF c, R, H, a
<1>7. \/ P = VideW /\ S = test
      \/ \E k \in 0 .. 3 : P = PageW("tx", k, fn) /\ S = TxNote(test, k)
  <2>1. CASE Passe(fn, d, s)
    BY <1>1, <1>5, <2>1, EffetPasse DEF EVide
  <2>2. CASE s = NbSetUl
    BY <1>5, <2>2, EffetTx
  <2> QED BY <1>2, <2>1, <2>2
<1>8. test.fnCmd \subseteq test'.fnCmd /\ Montant(a, fn + 1, test'.fnCmd)
  <2>1. CASE P = VideW /\ S = test
    BY <1>5, <1>6, <2>1, PageMuette
  <2>2. CASE \E k \in 0 .. 3 : P = PageW("tx", k, fn) /\ S = TxNote(test, k)
    <3>1. PICK k \in 0 .. 3 : P = PageW("tx", k, fn) /\ S = TxNote(test, k)
      BY <2>2
    <3>2. S.fnCmd = test.fnCmd \cup {[id |-> k, fn |-> fn + 1]}
      BY <1>1, <3>1, TxNoteType
    <3>3. test.fnCmd \subseteq test'.fnCmd /\ [id |-> k, fn |-> fn + 1] \in test'.fnCmd
      BY <1>5, <3>2
    <3>4. CASE a.irq
      BY <1>1, <1>6, <3>1, <3>3, <3>4, PageEnvoi
    <3>5. CASE ~a.irq
      BY <3>3, <3>5, PageMuette
    <3> QED BY <3>3, <3>4, <3>5
  <2> QED BY <1>7, <2>1, <2>2
<1>9. hist'.emis \subseteq test.fnCmd
  <2> DEFINE x == Recue(pris)
  <2>1. hist'.emis = EmisFin(hist.emis, x)
    BY <1>3 DEF HistSuit
  <2>2. x.tache \in {"tx", "rach"} => api.irq /\ x = api.W[api.page]
    <3>1. VideW.tache \notin {"tx", "rach"}
      BY DEF VideW, PageW
    <3> QED BY <3>1 DEF Recue
  <2> HIDE DEF x
  <2>3. x.tache \in {"tx", "rach"} => [id |-> x.id, fn |-> fn] \in test.fnCmd
    BY <2>2 DEF Montant
  <2> QED BY <2>1, <2>3 DEF EmisFin
<1> QED BY <1>1, <1>8, <1>9 DEF a

-----------------------------------------------------------------------------
(* The pages of a block, in a frame.                                       *)

\* Without a missed interrupt the R page of the ARM is that of its command.
Lisible(x, g, f) == x.tache = "nb" /\ x.id = g - 2 /\ x.date = f - 2
Nette(g, a, f, n) ==
  n = 0 => a.r = (IF g \in {3, 5} THEN 1 ELSE 0) /\ (g \in 2 .. 5 => Lisible(a.R[a.r], g, f))
\* The W page that is armed is that of the command of the frame before.
Armee(g, a, f) ==
  /\ a.w = (IF g \in {1, 3} THEN 1 ELSE 0) /\ (a.irq <=> g \in 1 .. 4)
  /\ g \in 1 .. 4 => a.page = Impair(g - 1) /\ a.W[a.page] = PageW("nb", g - 1, f - 1)
Pages(g, f, a, n) ==
  /\ g <= 5 => (f - g) % 51 = 1
  /\ Feuille(a.R[0], 0, g, f, n) /\ Feuille(a.R[1], 1, g, f, n)
  /\ Nette(g, a, f, n) /\ Armee(g, a, f)
Perdus(n, pris) == IF api.irq /\ ~pris THEN n + 1 ELSE n

\* The ROM has read the command of the block, or none.
LEMMA RecueFaits ==
  ASSUME NEW g \in 0 .. 6, Armee(g, api, fn), NEW pris \in BOOLEAN, ~pris => api.irq, NEW n \in Nat
  PROVE  /\ g \in 1 .. 4 /\ pris => Recue(pris) = PageW("nb", g - 1, fn - 1) /\ api.page = Impair(g - 1) /\ Perdus(n, pris) = n
         /\ g \in 1 .. 4 /\ ~pris => Recue(pris) = VideW /\ Perdus(n, pris) = n + 1
         /\ g \notin 1 .. 4 => Recue(pris) = VideW /\ pris /\ Perdus(n, pris) = n
<1>1. CASE g \in 1 .. 4
  BY <1>1 DEF Armee, Recue, Perdus
<1>2. CASE g \notin 1 .. 4
  BY <1>2 DEF Armee, Recue, Perdus
<1> QED BY <1>1, <1>2

LEMMA RepEcrite ==
  ASSUME NEW Y \in [0 .. 1 -> PagesR], api.page \in 0 .. 1, NEW c, c.tache = "nb", NEW x, NEW X, X = RepR(Y, c, x)
  PROVE  /\ X[api.page].tache = "nb" /\ X[api.page].id = c.id /\ X[api.page].date = c.date
         /\ \A p \in 0 .. 1 : p # api.page => X[p] = Y[p]
<1> DEFINE r == Rep(c, x)
<1>2. r.tache = "nb" /\ r.id = c.id /\ r.date = c.date
  BY DEF Rep, PageR
<1>3. X = [Y EXCEPT ![api.page] = r]
  BY DEF RepR, Repond
<1> HIDE DEF r
<1> QED BY <1>2, <1>3

LEMMA RepVide ==
  ASSUME NEW Y, NEW x
  PROVE  RepR(Y, VideW, x) = Y
<1>1. ~Repond(VideW)
  BY DEF Repond, VideW, PageW
<1> QED BY <1>1 DEF RepR

\* u says that the response has used its R page.
RLaisse(u) == IF u THEN [api.R EXCEPT ![api.r] = VideR] ELSE api.R
LEMMA RLaisseFaits ==
  ASSUME api \in ApiT, NEW u \in BOOLEAN
  PROVE  /\ RLaisse(u) \in [0 .. 1 -> PagesR]
         /\ \A p \in 0 .. 1 : (RLaisse(u)[p] = api.R[p] /\ (u => p # api.r)) \/ RLaisse(u)[p] = VideR
<1>1. api.R \in [0 .. 1 -> PagesR] /\ api.r \in 0 .. 1
  BY ApiChamps
<1>2. VideR \in PagesR
  BY DEF VideR, PageR, PagesR, Taches, Trames, Aucun
<1> QED BY <1>1, <1>2 DEF RLaisse

\* An R page at the end of the frame.
LEMMA FeuillePas ==
  ASSUME TypesBanc, NEW g \in 0 .. 6, NEW n \in Nat, Pages(g, fn, api, n), NEW pris \in BOOLEAN, ~pris => api.irq,
         NEW u \in BOOLEAN, Lue(g) => u, NEW x, NEW p \in 0 .. 1
  PROVE  Feuille(RepR(RLaisse(u), Recue(pris), x)[p], p, Suc(g), fn + 1, Perdus(n, pris))
<1> DEFINE Y == RLaisse(u)
           X == RepR(Y, Recue(pris), x)
           m == Perdus(n, pris)
<1>1. /\ fn \in Nat /\ api \in ApiT /\ api.page \in 0 .. 1 /\ api.R[p] \in PagesR /\ Y \in [0 .. 1 -> PagesR]
      /\ Feuille(api.R[p], p, g, fn, n) /\ (g <= 5 => (fn - g) % 51 = 1) /\ Nette(g, api, fn, n) /\ Armee(g, api, fn)
  BY ApiChamps, RLaisseFaits DEF TypesBanc, Pages
<1>2. (Y[p] = api.R[p] /\ (u => p # api.r)) \/ Y[p] = VideR
  BY <1>1, RLaisseFaits
<1>3. /\ g \in 1 .. 4 /\ pris => Recue(pris) = PageW("nb", g - 1, fn - 1) /\ api.page = Impair(g - 1) /\ m = n
      /\ g \in 1 .. 4 /\ ~pris => Recue(pris) = VideW /\ m = n + 1
      /\ g \notin 1 .. 4 => Recue(pris) = VideW /\ pris /\ m = n
  BY <1>1, RecueFaits
<1>8. g \in 1 .. 4 /\ pris =>
        /\ X[api.page].tache = "nb" /\ X[api.page].id = g - 1 /\ X[api.page].date = fn - 1
        /\ \A i \in 0 .. 1 : i # api.page => X[i] = Y[i]
  <2> SUFFICES ASSUME g \in 1 .. 4, pris
               PROVE  /\ X[api.page].tache = "nb" /\ X[api.page].id = g - 1 /\ X[api.page].date = fn - 1
                      /\ \A i \in 0 .. 1 : i # api.page => X[i] = Y[i]
    OBVIOUS
  <2> DEFINE c == Recue(pris)
  <2>1. c.tache = "nb" /\ c.id = g - 1 /\ c.date = fn - 1
    <3> DEFINE i == g - 1
               t == fn - 1
    <3>1. c = PageW("nb", i, t)
      BY <1>3
    <3> HIDE DEF X, Y, m, c, i, t
    <3>2. c.tache = "nb" /\ c.id = i /\ c.date = t
      BY <3>1 DEF PageW
    <3> QED BY <3>2 DEF i, t
  <2>2. X = RepR(Y, c, x)
    OBVIOUS
  <2> HIDE DEF X, Y, c
  <2>3. /\ X[api.page].tache = "nb" /\ X[api.page].id = c.id /\ X[api.page].date = c.date
        /\ \A i \in 0 .. 1 : i # api.page => X[i] = Y[i]
    BY <1>1, <2>1, <2>2, RepEcrite
  <2> QED BY <2>1, <2>3
<1>4. m \in Nat
  BY DEF Perdus
<1>5. n = 0 /\ g \in 2 .. 5 => u /\ api.r = Impair(g)
  <2> SUFFICES ASSUME n = 0, g \in 2 .. 5 PROVE u /\ api.r = Impair(g)
    OBVIOUS
  <2>1. api.r = (IF g \in {3, 5} THEN 1 ELSE 0) /\ Lisible(api.R[api.r], g, fn)
    BY <1>1 DEF Nette
  <2>2. Lue(g)
    BY <2>1 DEF Lue, Lit, Lisible
  <2> QED BY <2>1, <2>2 DEF Impair
<1>6. CASE g \in 1 .. 4 /\ pris /\ p = Impair(g - 1)
  <2>1. X[p].tache = "nb" /\ X[p].id = g - 1 /\ X[p].date = fn - 1
    <3> HIDE DEF X, Y, m
    <3> QED BY <1>3, <1>6, <1>8
  <2> HIDE DEF X, Y, m
  <2>2. Feuille(X[p], Impair(g - 1), g + 1, fn + 1, n)
    BY <1>1, <1>6, <2>1, FeuilleEcrite
  <2>5. Suc(g) = g + 1
    BY <1>6 DEF Suc
  <2>6. m = n
    BY <1>3, <1>6
  <2>4. Feuille(X[p], p, Suc(g), fn + 1, m)
    BY <1>6, <2>2, <2>5, <2>6
  <2> QED BY <2>4 DEF X, Y, m
<1>7. CASE ~(g \in 1 .. 4 /\ pris /\ p = Impair(g - 1))
  <2>1. X[p] = Y[p]
    <3> HIDE DEF Y
    <3>1. CASE g \in 1 .. 4 /\ pris
      <4>1. p # api.page
        BY <1>3, <1>7, <3>1
      <4> HIDE DEF X
      <4> QED BY <1>8, <3>1, <4>1
    <3>2. CASE ~(g \in 1 .. 4 /\ pris)
      BY <1>3, <3>2, RepVide
    <3> QED BY <3>1, <3>2
  <2>2. CASE Y[p] = VideR
    <3> HIDE DEF X, Y, m
    <3>1. X[p] = VideR
      BY <2>1, <2>2
    <3>2. Feuille(X[p], p, Suc(g), fn + 1, m)
      BY <3>1, FeuilleVide
    <3> QED BY <3>2 DEF X, Y, m
  <2>3. CASE Y[p] = api.R[p] /\ (u => p # api.r)
    <3> HIDE DEF X, Y, m
    <3>1. m = n => ~(g \in 1 .. 4 /\ p = Impair(g - 1))
      BY <1>3, <1>7
    <3>2. n = 0 /\ g \in 2 .. 5 => p # Impair(g)
      BY <1>5, <2>3
    <3>3. m = n \/ m = n + 1
      BY <1>3
    <3> DEFINE y == api.R[p]
    <3>4. y \in PagesR /\ Feuille(y, p, g, fn, n) /\ X[p] = y
      BY <1>1, <2>1, <2>3
    <3> HIDE DEF y
    <3>5. Feuille(y, p, Suc(g), fn + 1, m)
      BY <1>1, <1>4, <3>1, <3>2, <3>3, <3>4, FeuilleReste
    <3>6. Feuille(X[p], p, Suc(g), fn + 1, m)
      BY <3>4, <3>5
    <3> QED BY <3>6 DEF X, Y, m
  <2> QED BY <1>2, <2>2, <2>3
<1> QED BY <1>6, <1>7

\* The R page the ARM reads next.
LEMMA NettePas ==
  ASSUME TypesBanc, NEW g \in 0 .. 6, NEW n \in Nat, Pages(g, fn, api, n), NEW pris \in BOOLEAN, ~pris => api.irq,
         NEW u \in BOOLEAN, u <=> Lue(g), NEW x, NEW a, a.r = (IF u THEN 1 - api.r ELSE api.r),
         a.R = RepR(RLaisse(u), Recue(pris), x)
  PROVE  Nette(Suc(g), a, fn + 1, Perdus(n, pris))
<1> DEFINE Y == RLaisse(u)
           c == Recue(pris)
           X == RepR(Y, c, x)
           m == Perdus(n, pris)
<1>1. /\ fn \in Nat /\ api \in ApiT /\ api.page \in 0 .. 1 /\ api.r \in 0 .. 1 /\ Y \in [0 .. 1 -> PagesR]
      /\ Nette(g, api, fn, n) /\ Armee(g, api, fn)
  BY ApiChamps, RLaisseFaits DEF TypesBanc, Pages
<1>2. /\ g \in 1 .. 4 /\ pris => c = PageW("nb", g - 1, fn - 1) /\ api.page = Impair(g - 1) /\ m = n
      /\ g \in 1 .. 4 /\ ~pris => m = n + 1
      /\ g \notin 1 .. 4 => m = n
  BY <1>1, RecueFaits
<1>3. a.R = X
  OBVIOUS
<1> SUFFICES ASSUME m = 0
             PROVE  /\ a.r = (IF Suc(g) \in {3, 5} THEN 1 ELSE 0)
                    /\ Suc(g) \in 2 .. 5 => Lisible(a.R[a.r], Suc(g), fn + 1)
  BY DEF Nette
<1> HIDE DEF m
<1>4. n = 0 /\ (g \in 1 .. 4 => pris)
  BY <1>2
<1>5. api.r = (IF g \in {3, 5} THEN 1 ELSE 0) /\ (g \in 2 .. 5 => Lisible(api.R[api.r], g, fn))
  BY <1>1, <1>4 DEF Nette
<1>6. u <=> g \in 2 .. 5
  BY <1>5 DEF Lue, Lit, Lisible
<1>7. a.r = (IF g \in {2, 4} THEN 1 ELSE 0)
  BY <1>5, <1>6
<1>8. Suc(g) \in {3, 5} <=> g \in {2, 4}
  BY DEF Suc
<1>9. Suc(g) \in 2 .. 5 => g \in 1 .. 4
  BY DEF Suc
<1>10. ASSUME g \in 1 .. 4 PROVE Lisible(a.R[a.r], Suc(g), fn + 1)
  <2> DEFINE i == g - 1
             t == fn - 1
  <2>1. c = PageW("nb", i, t)
    BY <1>2, <1>4, <1>10
  <2>2. api.page = Impair(i)
    BY <1>2, <1>4, <1>10
  <2> HIDE DEF c, Y, X, t
  <2>3. c.tache = "nb" /\ c.id = i /\ c.date = t
    <3> HIDE DEF i
    <3> QED BY <2>1 DEF PageW
  <2>4. X[api.page].tache = "nb" /\ X[api.page].id = c.id /\ X[api.page].date = c.date
    <3>1. X = RepR(Y, c, x)
      BY DEF X
    <3> QED BY <1>1, <2>3, <3>1, RepEcrite
  <2>5. a.r = api.page
    BY <1>7, <1>10, <2>2 DEF Impair
  <2>6. a.R[a.r].tache = "nb" /\ a.R[a.r].id = g - 1 /\ a.R[a.r].date = fn - 1
    BY <1>3, <2>3, <2>4, <2>5 DEF t
  <2> DEFINE s == Suc(g)
             f == fn + 1
  <2>7. s - 2 = g - 1 /\ f - 2 = fn - 1
    BY <1>1, <1>10 DEF Suc
  <2> HIDE DEF s, f
  <2>8. Lisible(a.R[a.r], s, f)
    BY <2>6, <2>7 DEF Lisible
  <2> QED BY <2>8 DEF s, f
<1> QED BY <1>7, <1>8, <1>9, <1>10

\* The W page that is armed.
LEMMA ArmeePas ==
  ASSUME TypesBanc, NEW g \in 0 .. 6, Armee(g, api, fn), NEW q \in BOOLEAN, NEW P \in PagesW, Commande(g, q, P),
         NEW a, a.w = (IF q THEN 1 - api.w ELSE api.w), a.page = (IF q THEN api.w ELSE api.page), a.irq = q,
         a.W = [api.W EXCEPT ![api.w] = P]
  PROVE  Armee(Suc(g), a, fn + 1)
<1>1. fn \in Nat /\ api.W \in [0 .. 1 -> PagesW] /\ api.w \in 0 .. 1
  BY ApiChamps DEF TypesBanc
<1>2. api.w = (IF g \in {1, 3} THEN 1 ELSE 0)
  BY DEF Armee
<1>3. g <= 3 => q /\ P = PageW("nb", g, fn)
  BY DEF Commande, Oui
<1>4. ~(g <= 3) => ~q
  BY DEF Commande, Non
<1>5. a.w = (IF Suc(g) \in {1, 3} THEN 1 ELSE 0)
  BY <1>2, <1>3, <1>4 DEF Suc
<1>6. a.irq <=> Suc(g) \in 1 .. 4
  BY <1>3, <1>4 DEF Suc
<1>7. ASSUME g <= 3 PROVE a.page = Impair(g) /\ a.W[a.page] = PageW("nb", g, fn)
  <2>1. a.page = api.w
    BY <1>3, <1>7
  <2>2. a.page = Impair(g)
    BY <1>2, <1>7, <2>1 DEF Impair
  <2>3. a.W[a.page] = P
    BY <1>1, <2>1
  <2> QED BY <1>3, <1>7, <2>2, <2>3
<1>8. Suc(g) \in 1 .. 4 => g <= 3 /\ Suc(g) - 1 = g /\ fn + 1 - 1 = fn
  BY <1>1 DEF Suc
<1> DEFINE s == Suc(g)
           f == fn + 1
<1>9. /\ a.w = (IF s \in {1, 3} THEN 1 ELSE 0) /\ (a.irq <=> s \in 1 .. 4)
      /\ s \in 1 .. 4 => g <= 3 /\ s - 1 = g
      /\ f - 1 = fn
  <2>1. f - 1 = fn
    BY <1>1
  <2> HIDE DEF f
  <2>2. s \in 1 .. 4 => g <= 3 /\ s - 1 = g
    BY <1>8
  <2> HIDE DEF s
  <2>3. a.w = (IF s \in {1, 3} THEN 1 ELSE 0)
    BY <1>5 DEF s
  <2>4. a.irq <=> s \in 1 .. 4
    BY <1>6 DEF s
  <2> QED BY <2>1, <2>2, <2>3, <2>4
<1> HIDE DEF s, f
<1>10. s \in 1 .. 4 => a.page = Impair(s - 1) /\ a.W[a.page] = PageW("nb", s - 1, f - 1)
  BY <1>7, <1>9
<1>11. Armee(s, a, f)
  BY <1>9, <1>10 DEF Armee
<1> QED BY <1>11 DEF s, f

\* A block begins where none was under way.
LEMMA PagesDebut ==
  ASSUME NEW f \in Nat, NEW n \in Nat, NEW a, a.R \in [0 .. 1 -> PagesR], Pages(6, f, a, n), f % 51 = 1
  PROVE  Pages(0, f, a, n)
<1>1. Feuille(a.R[0], 0, 6, f, n) /\ Feuille(a.R[1], 1, 6, f, n) /\ Nette(6, a, f, n) /\ Armee(6, a, f)
  BY DEF Pages
<1>2. Feuille(a.R[0], 0, 0, f, n) /\ Feuille(a.R[1], 1, 0, f, n)
  <2>1. a.R[0] \in PagesR /\ a.R[1] \in PagesR
    OBVIOUS
  <2> QED BY <1>1, <2>1, FeuilleDebut
<1>3. 6 \notin {3, 5} /\ 6 \notin 2 .. 5 /\ 0 \notin {3, 5} /\ 0 \notin 2 .. 5 /\ 6 \notin {1, 3} /\ 0 \notin {1, 3}
      /\ 6 \notin 1 .. 4 /\ 0 \notin 1 .. 4
  OBVIOUS
<1>4. Nette(0, a, f, n)
  BY <1>1, <1>3 DEF Nette
<1>5. Armee(0, a, f)
  BY <1>1, <1>3 DEF Armee
<1>6. (f - 0) % 51 = 1
  OBVIOUS
<1> QED BY <1>2, <1>4, <1>5, <1>6 DEF Pages

\* The pages at the end of a frame.
LEMMA PagesPas ==
  ASSUME TypesBanc, NEW g \in 0 .. 6, NEW n \in Nat, Pages(g, fn, api, n), NEW pris \in BOOLEAN, ~pris => api.irq,
         NEW u \in BOOLEAN, u <=> Lue(g), NEW q \in BOOLEAN, NEW P \in PagesW, Commande(g, q, P),
         NEW a, ApiSuit(a, Recue(pris), q, u, P)
  PROVE  Pages(Suc(g), fn + 1, a, Perdus(n, pris))
<1> DEFINE m == Perdus(n, pris)
<1>1. PICK x : a.R = RepR(RLaisse(u), Recue(pris), x)
  <2>1. PICK x : a.R = RepR(IF u THEN [api.R EXCEPT ![api.r] = VideR] ELSE api.R, Recue(pris), x)
    BY DEF ApiSuit
  <2> QED BY <2>1 DEF RLaisse
<1>2. fn \in Nat /\ (g <= 5 => (fn - g) % 51 = 1) /\ Armee(g, api, fn)
  BY DEF TypesBanc, Pages
<1>3. Feuille(a.R[0], 0, Suc(g), fn + 1, m) /\ Feuille(a.R[1], 1, Suc(g), fn + 1, m)
  <2>1. 0 \in 0 .. 1 /\ 1 \in 0 .. 1
    OBVIOUS
  <2> HIDE DEF m
  <2>2. \A p \in 0 .. 1 : Feuille(RepR(RLaisse(u), Recue(pris), x)[p], p, Suc(g), fn + 1, m)
    BY FeuillePas DEF m
  <2> QED BY <1>1, <2>1, <2>2
<1>4. Nette(Suc(g), a, fn + 1, m)
  <2>1. a.r = (IF u THEN 1 - api.r ELSE api.r)
    BY DEF ApiSuit
  <2> QED BY <1>1, <2>1, NettePas
<1>5. Armee(Suc(g), a, fn + 1)
  <2>1. /\ a.w = (IF q THEN 1 - api.w ELSE api.w) /\ a.page = (IF q THEN api.w ELSE api.page) /\ a.irq = q
        /\ a.W = [api.W EXCEPT ![api.w] = P]
    BY DEF ApiSuit
  <2> QED BY <1>2, <2>1, ArmeePas
<1> DEFINE k == Suc(g)
           f == fn + 1
<1>7. k = Suc(g) /\ f = fn + 1 /\ m = Perdus(n, pris)
  OBVIOUS
<1> HIDE DEF k, f, m
<1>a. (k <= 5 => (f - k) % 51 = 1) /\ Feuille(a.R[0], 0, k, f, m) /\ Feuille(a.R[1], 1, k, f, m)
  <2>1. k <= 5 => (f - k) % 51 = 1
    <3> SUFFICES ASSUME k <= 5 PROVE (f - k) % 51 = 1
      OBVIOUS
    <3>1. g <= 5 /\ k = g + 1
      BY <1>7 DEF Suc
    <3>2. f - k = fn - g
      BY <1>2, <1>7, <3>1
    <3> QED BY <1>2, <3>1, <3>2
  <2>2. Feuille(a.R[0], 0, k, f, m)
    BY <1>3, <1>7
  <2>3. Feuille(a.R[1], 1, k, f, m)
    BY <1>3, <1>7
  <2> QED BY <2>1, <2>2, <2>3
<1>b. Nette(k, a, f, m) /\ Armee(k, a, f)
  BY <1>4, <1>5, <1>7
<1>8. Pages(k, f, a, m)
  BY <1>a, <1>b DEF Pages
<1> QED BY <1>8 DEF k, f, m

\* What a response of the block accepts.
LEMMA AccepteSien ==
  ASSUME TypesBanc, NEW g \in 0 .. 6, NEW n, n = hist.perdus, Pages(g, fn, api, n), NEW pris \in BOOLEAN, Sien(hist),
         NEW u, NEW K, Reponds(g, HistA(pris), u, K), NEW h, h.accepte = K.accepte, h.perdus = Perdus(n, pris)
  PROVE  Sien(h)
<1> DEFINE H == HistA(pris)
<1>1. n \in Nat /\ fn \in Nat /\ api \in ApiT /\ H \in HistT /\ H.accepte = hist.accepte
  BY AvantFaits DEF TypesBanc, HistT
<1>2. h.perdus \in {n, n + 1}
  BY DEF Perdus
<1> HIDE DEF H
<1>3. CASE ~Lue(g)
  <2>1. K = H
    BY <1>3, Zenon DEF Reponds, H
  <2> QED BY <1>1, <1>2, <2>1, SienSuit
<1>4. CASE Lue(g)
  <2> DEFINE x == api.R[api.r]
             p == api.r
  <2>1. p \in 0 .. 1 /\ x \in PagesR
    BY <1>1, ApiChamps
  <2>2. Feuille(x, p, g, fn, n)
    <3>1. Feuille(api.R[0], 0, g, fn, n) /\ Feuille(api.R[1], 1, g, fn, n)
      BY DEF Pages
    <3>2. p = 0 \/ p = 1
      BY <2>1
    <3> QED BY <3>1, <3>2
  <2>3. g \in 2 .. 5 /\ x.tache = "nb" /\ x.id = g - 2 /\ (fn - g) % 51 = 1
    BY <1>4 DEF Lue, Lit, Pages
  <2> HIDE DEF x, p
  <2>4. (fn - 2 - x.date) % 51 = 0 /\ (n <= 2 => x.date = fn - 2)
    BY <1>1, <2>1, <2>2, <2>3, FeuilleLue
  <2>5. K = Accepte(H)
    BY <1>4, Zenon DEF Reponds, H
  <2>6. K.accepte.resp = fn /\ K.accepte.cmd = x.date
    BY <1>1, <2>5 DEF Accepte, HistT, x
  <2>7. h.perdus <= 2 => n <= 2
    BY <1>1, <1>2
  <2> QED BY <2>4, <2>6, <2>7 DEF Sien
<1> QED BY <1>3, <1>4

\* Where the block under way is, with its pages.
Tour(g, f, ag, a, n) == Rang(g, f, ag) /\ Pages(g, f, a, n)

\* The pages of the block after a frame, and what has been accepted in it.
LEMMA TourPages ==
  ASSUME NEW d, NEW s, Apart(d, s), Trame, test.nom = "nb", Sien(hist),
         NEW g \in 0 .. 6, NEW n, n = hist.perdus, Tour(g, fn, hist.agenda, api, n)
  PROVE  Sien(hist') /\ Pages(Suc(g), fn + 1, api', hist'.perdus)
<1>1. /\ TypesBanc /\ fn \in Nat /\ d \in Nat /\ s \in Jeux /\ Anneau(tdma, hist.agenda, fn, d, s) /\ test.reste > 0
      /\ n \in Nat /\ Rang(g, fn, hist.agenda) /\ Pages(g, fn, api, n)
  BY DEF Trame, Apart, TypesBanc, HistT, Tour
<1>2. Passe(fn, d, s) \/ s = NbSet
  BY <1>1, ApartMenee DEF Bloc
<1>3. PICK pris \in BOOLEAN, K \in HistT :
           (~pris => api.irq) /\ HistSuit(hist', pris, K) /\ \E q, u, P, S : Menee(d, s, pris, q, u, P, S, K)
  BY MeneeSeule, Zenon
<1>4. PICK q, u, P, S : Menee(d, s, pris, q, u, P, S, K)
  BY <1>3
<1> DEFINE c == Contenu(d, s, fn)
           R == RomA(Recue(pris))
           H == HistA(pris)
           a == api'
           h == hist'
           m == Perdus(n, pris)
<1>5. Effet(c, d, s, R, H, q, u, P, S, K) /\ q \in BOOLEAN /\ u \in BOOLEAN /\ P \in PagesW
  BY <1>4, Zenon DEF Menee
<1>6. ApiSuit(a, Recue(pris), q, u, P)
  <2>1. test.nom # "idle"
    OBVIOUS
  <2> QED BY <1>4, <2>1, Zenon DEF Menee
<1>7. h.accepte = K.accepte /\ h.perdus = m
  BY <1>3 DEF HistSuit, Perdus
<1>8. Commande(g, q, P) /\ Reponds(g, H, u, K)
  <2> HIDE DEF R, H, a, h, m
  <2>1. CASE g \in 0 .. 5
    <3>1. s = NbSet /\ fn = d + g
      BY <1>1, <2>1, RangBloc
    <3> QED BY <1>1, <1>5, <2>1, <3>1, EffetNb
  <2>2. CASE g = 6
    <3>1. ~(s = NbSet /\ fn <= d + 5)
      BY <1>1, <2>2, RangHors
    <3>2. Passe(fn, d, s)
      <4>1. s = NbSet => d + 6 <= fn
        BY <1>1, <3>1
      <4>2. s = NbSet => Passe(fn, d, s)
        BY <4>1, Longueurs DEF Passe
      <4> QED BY <1>2, <4>2
    <3> HIDE DEF c
    <3>3. EVide(c, H, q, u, P, S, K)
      BY <1>1, <1>5, <3>2, EffetPasse
    <3>4. q = Non /\ u = Non /\ P = VideW /\ K = H
      BY <3>3 DEF EVide
    <3>5. ~(g <= 3) /\ ~Lue(g)
      BY <2>2 DEF Lue
    <3>6. Commande(g, q, P)
      BY <3>4, <3>5, Zenon DEF Commande
    <3>7. Reponds(g, H, u, K)
      BY <3>4, <3>5, Zenon DEF Reponds
    <3> QED BY <3>6, <3>7
  <2> QED BY <2>1, <2>2
<1>9. u <=> Lue(g)
  <2>1. CASE Lue(g)
    BY <1>8, <2>1, Zenon DEF Reponds, Oui
  <2>2. CASE ~Lue(g)
    <3>1. u = Non
      BY <1>8, <2>2, Zenon DEF Reponds
    <3> QED BY <2>2, <3>1 DEF Non
  <2> QED BY <2>1, <2>2
<1> HIDE DEF c, R, a, h, m
<1>10. Pages(Suc(g), fn + 1, a, m)
  BY <1>1, <1>3, <1>5, <1>6, <1>8, <1>9, PagesPas DEF m
<1>11. Sien(h)
  <2>1. h.accepte = K.accepte /\ h.perdus = Perdus(n, pris)
    BY <1>7 DEF m
  <2> QED BY <1>1, <1>8, <2>1, AccepteSien DEF H
<1> QED BY <1>7, <1>10, <1>11 DEF a, h

\* The ring after a frame, in a test of blocks.
LEMMA TourAnneau ==
  ASSUME NEW d, NEW s, Apart(d, s), Trame, test.nom = "nb"
  PROVE  /\ fn' = fn + 1 /\ TypesSuite
         /\ ~MfDu(tdma) => Anneau(tdma', hist'.agenda, fn', d, s)
         /\ MfDu(tdma) => /\ Anneau(tdma', hist'.agenda, fn', fn + 1, NbSet)
                          /\ Passe(fn, d, s) /\ (fn + 1) % 51 = 1
<1>1. /\ TypesBanc /\ fn \in Nat /\ d \in Nat /\ s \in Jeux /\ Anneau(tdma, hist.agenda, fn, d, s)
      /\ Phase(test, tdma.mf, fn, d, s) /\ test \in TestT /\ test.reste > 0
  BY DEF Trame, Apart, TypesBanc
<1>2. Prete(d, s) /\ (tdma.mf.set # <<>> => tdma.mf.set = NbSet /\ tdma.mf.frame = 2)
  BY <1>1, ApartMenee DEF Bloc, Trame0
<1>3. fn' = fn + 1 /\ TypesSuite
  BY <1>1, <1>2, TrameCas
<1>4. PICK b \in Trames, fcch \in BOOLEAN, residu \in Residus :
        Tranquille(d, s, b, fcch, residu) \/ Detectee(d, s, b, fcch, residu)
  BY <1>1, <1>2, TrameCas, Zenon
<1>5. ~Detectee(d, s, b, fcch, residu)
  <2> SUFFICES ASSUME Detectee(d, s, b, fcch, residu) PROVE FALSE
    OBVIOUS
  <2>1. s = FbSet /\ fn \in d .. d + 13
    BY <1>1 DEF Detectee
  <2> DEFINE m == tdma.mf
             f == fn
             t == test
  <2>2. PhCherche(t, m, f, d, s)
    <3>1. t \in TestT /\ f \in Nat /\ d \in Nat /\ s \in Jeux /\ Phase(t, m, f, d, s) /\ t.reste > 0 /\ f \in d .. d + 13
      BY <1>1, <2>1
    <3> HIDE DEF t, m, f
    <3> QED BY <2>1, <3>1, JeuFb
  <2> QED BY <2>2 DEF PhCherche, Cherche, CherchentFb
<1>6. /\ ~MfDu(tdma) => Anneau(tdma', hist'.agenda, fn', d, s)
      /\ MfDu(tdma) => Anneau(tdma', hist'.agenda, fn', fn + 1, tdma.mf.set)
  BY <1>4, <1>5, Zenon DEF Tranquille
<1>7. MfDu(tdma) => tdma.mf.set = NbSet /\ Passe(fn, d, s) /\ (fn + 1) % 51 = 1
  <2> SUFFICES ASSUME MfDu(tdma) PROVE tdma.mf.set = NbSet /\ Passe(fn, d, s) /\ (fn + 1) % 51 = 1
    OBVIOUS
  <2>1. tdma.mf.set # <<>> /\ (fn + 2) % 51 = tdma.mf.frame
    BY DEF MfDu
  <2>2. tdma.mf.set = NbSet /\ (fn + 2) % 51 = 2
    BY <1>2, <2>1
  <2>3. (fn + 1) % 51 = 1
    BY <1>1, <2>2
  <2> QED BY <1>2, <2>2, <2>3 DEF Prete
<1> QED BY <1>3, <1>6, <1>7

\* Each response has had the page of its own command.
NbTenu == test.nom = "nb" => \E g \in 0 .. 6 : Tour(g, fn, hist.agenda, api, hist.perdus)
TxTenu == test.nom = "tx" => hist.emis \subseteq test.fnCmd /\ Montant(api, fn, test.fnCmd)
SienInv == Sien(hist) /\ NbTenu /\ TxTenu

\* A block after a frame.
LEMMA TourPas ==
  ASSUME NEW d, NEW s, Apart(d, s), Trame, test.nom = "nb", Sien(hist),
         NEW g \in 0 .. 6, NEW n, n = hist.perdus, Tour(g, fn, hist.agenda, api, n)
  PROVE  Sien(hist') /\ \E k \in 0 .. 6 : Tour(k, fn', hist'.agenda, api', hist'.perdus)
<1> DEFINE T == tdma'
           G == hist'.agenda
           a == api'
           h == hist'
           m == hist'.perdus
           f == fn + 1
<1>1. /\ fn \in Nat /\ d \in Nat /\ s \in Jeux /\ Anneau(tdma, hist.agenda, fn, d, s) /\ Rang(g, fn, hist.agenda)
  BY DEF Apart, TypesBanc, Tour
<1>2. Sien(h) /\ Pages(Suc(g), f, a, m)
  BY TourPages
<1>3. /\ fn' = f /\ m \in Nat /\ a.R \in [0 .. 1 -> PagesR]
      /\ ~MfDu(tdma) => Anneau(T, G, f, d, s)
      /\ MfDu(tdma) => Anneau(T, G, f, f, NbSet) /\ Passe(fn, d, s) /\ f % 51 = 1
  <2>1. fn' = fn + 1 /\ TypesSuite
    BY TourAnneau
  <2>2. ~MfDu(tdma) => Anneau(tdma', hist'.agenda, fn + 1, d, s)
    BY <2>1, TourAnneau
  <2>3. MfDu(tdma) => Anneau(tdma', hist'.agenda, fn + 1, fn + 1, NbSet) /\ Passe(fn, d, s) /\ (fn + 1) % 51 = 1
    BY <2>1, TourAnneau
  <2>4. m \in Nat /\ a.R \in [0 .. 1 -> PagesR]
    BY <2>1 DEF TypesSuite, HistT, ApiT
  <2> QED BY <2>1, <2>2, <2>3, <2>4
<1>4. f \in Nat /\ f = fn + 1
  BY <1>1
<1>5. g \in 0 .. 5 => s = NbSet /\ fn = d + g
  BY <1>1, RangBloc
<1>6. g = 6 => ~(s = NbSet /\ fn <= d + 5)
  BY <1>1, RangHors
<1> HIDE DEF T, G, a, h, m, f
<1>7. \E k \in 0 .. 6 : Tour(k, f, G, a, m)
  <2>1. CASE ~MfDu(tdma)
    <3>1. Rang(Suc(g), f, G)
      <4>1. CASE g \in 0 .. 4
        <5>1. s = NbSet /\ f = d + (g + 1) /\ g + 1 \in 0 .. 5
          BY <1>1, <1>4, <1>5, <4>1
        <5> DEFINE k == g + 1
        <5>2. s = NbSet /\ f = d + k /\ k \in 0 .. 5 /\ Anneau(T, G, f, d, s)
          BY <1>3, <2>1, <5>1
        <5>3. Suc(g) = k
          BY <4>1 DEF Suc
        <5> HIDE DEF k
        <5>4. Rang(k, f, G)
          BY <1>4, <5>2, RangEst
        <5> QED BY <5>3, <5>4
      <4>2. CASE g \in 5 .. 6
        <5>1. ~(s = NbSet /\ f <= d + 5)
          BY <1>1, <1>4, <1>5, <1>6, <4>2
        <5>2. Rang(6, f, G)
          BY <1>3, <1>4, <2>1, <5>1, RangRien
        <5>3. Suc(g) = 6
          BY <4>2 DEF Suc
        <5> QED BY <5>2, <5>3
      <4> QED BY <4>1, <4>2
    <3>2. Suc(g) \in 0 .. 6
      BY DEF Suc
    <3>3. Tour(Suc(g), f, G, a, m)
      BY <1>2, <3>1 DEF Tour
    <3> QED BY <3>2, <3>3
  <2>2. CASE MfDu(tdma)
    <3>1. g = 6
      <4>1. s = NbSet => d + 6 <= fn
        BY <1>3, <2>2, Longueurs DEF Passe
      <4> QED BY <1>1, <1>5, <4>1
    <3>2. Suc(g) = 6
      BY <3>1 DEF Suc
    <3>3. Pages(0, f, a, m)
      BY <1>2, <1>3, <1>4, <2>2, <3>2, PagesDebut
    <3>4. Rang(0, f, G)
      <4>1. 0 \in 0 .. 5 /\ f = f + 0
        BY <1>4
      <4>2. Anneau(T, G, f, f, NbSet)
        BY <1>3, <2>2
      <4> QED BY <1>4, <4>1, <4>2, RangEst
    <3>5. Tour(0, f, G, a, m)
      BY <3>3, <3>4 DEF Tour
    <3>6. 0 \in 0 .. 6
      OBVIOUS
    <3> QED BY <3>5, <3>6
  <2> QED BY <2>1, <2>2
<1>8. Sien(hist') /\ \E k \in 0 .. 6 : Tour(k, f, hist'.agenda, api', hist'.perdus)
  BY <1>2, <1>7 DEF G, a, h, m
<1> QED BY <1>3, <1>8

LEMMA SienTrame ==
  ASSUME BancInv, SienInv, Trame
  PROVE  SienInv'
<1>1. PICK d, s : Apart(d, s)
  BY BancApart
<1>2. TypesBanc /\ Anneau(tdma, hist.agenda, fn, d, s) /\ test.reste > 0 /\ Prete(d, s)
  <2>1. test.reste > 0
    BY DEF Trame
  <2> QED BY <1>1, <2>1, ApartMenee DEF Apart
<1>3. test'.nom = test.nom
  BY <1>2, TrameCas DEF Poursuit
<1>4. CASE test.nom = "nb"
  <2>1. PICK g \in 0 .. 6 : Tour(g, fn, hist.agenda, api, hist.perdus)
    BY <1>4 DEF SienInv, NbTenu
  <2>2. Sien(hist') /\ \E k \in 0 .. 6 : Tour(k, fn', hist'.agenda, api', hist'.perdus)
    BY <1>1, <1>4, <2>1, TourPas DEF SienInv
  <2> QED BY <1>3, <1>4, <2>2 DEF SienInv, NbTenu, TxTenu
<1>5. CASE test.nom = "tx"
  <2>1. Sien(hist')
    BY <1>1, <1>5, SienHors DEF SienInv
  <2>2. hist'.emis \subseteq test'.fnCmd /\ Montant(api', fn', test'.fnCmd)
    BY <1>1, <1>5, MontantPas DEF SienInv, TxTenu
  <2> QED BY <1>3, <1>5, <2>1, <2>2 DEF SienInv, NbTenu, TxTenu
<1>6. CASE test.nom \notin {"nb", "tx"}
  <2>1. Sien(hist')
    BY <1>1, <1>6, SienHors DEF SienInv
  <2> QED BY <1>3, <1>6, <2>1 DEF SienInv, NbTenu, TxTenu
<1> QED BY <1>4, <1>5, <1>6

\* Out of the frames, only the calendar of another test moves.
HorsMeme ==
  /\ fn' = fn /\ api' = api /\ test'.nom = test.nom /\ test'.fnCmd = test.fnCmd
  /\ hist'.accepte = hist.accepte /\ hist'.emis = hist.emis /\ hist'.perdus = hist.perdus
  /\ test.nom = "nb" => hist'.agenda = hist.agenda
LEMMA HorsPas ==
  ASSUME SienInv, HorsMeme
  PROVE  SienInv'
<1>1. Sien(hist')
  BY DEF SienInv, HorsMeme, Sien
<1>2. NbTenu'
  BY DEF SienInv, HorsMeme, NbTenu
<1>3. TxTenu'
  BY DEF SienInv, HorsMeme, TxTenu
<1> QED BY <1>1, <1>2, <1>3 DEF SienInv

LEMMA PoseeMeme ==
  ASSUME hist \in HistT, NEW off, NEW set, Posee(off, set)
  PROVE  hist'.accepte = hist.accepte /\ hist'.emis = hist.emis /\ hist'.perdus = hist.perdus
<1> DEFINE D == Dates(fn + off, set)
           e == [tdma |-> tdma, hist |-> hist]
           e2 == [e EXCEPT !.tdma = TdmaScheduleSet(@, off, set), !.hist.agenda = @ \cup D]
<1>1. hist' = e2.hist
  BY DEF Posee, Programmer
<1> HIDE DEF D
<1>2. e2.hist = [e.hist EXCEPT !.agenda = @ \cup D]
  OBVIOUS
<1>3. e.hist = hist
  OBVIOUS
<1> HIDE DEF e, e2
<1>4. hist' = [hist EXCEPT !.agenda = @ \cup D]
  BY <1>1, <1>2, <1>3
<1> QED BY <1>4 DEF HistT

LEMMA JouerMeme ==
  ASSUME test \in TestT, hist \in HistT, HorsTrame, test.nom # "nb", NEW off, NEW set, NEW n, Jouer(off, set, n)
  PROVE  HorsMeme
<1>1. Posee(off, set) /\ test' = [test EXCEPT !.pas = "joue", !.reste = n, !.det = 0, !.deduit = Aucun, !.sb = <<Aucun, Aucun>>]
  BY Zenon DEF Jouer, Posee
<1>2. test'.nom = test.nom /\ test'.fnCmd = test.fnCmd
  <2> DEFINE b == <<Aucun, Aucun>>
             a == Aucun
  <2>1. test' = [test EXCEPT !.pas = "joue", !.reste = n, !.det = 0, !.deduit = a, !.sb = b]
    BY <1>1
  <2> HIDE DEF a, b
  <2> QED BY <2>1 DEF TestT
<1>3. hist'.accepte = hist.accepte /\ hist'.emis = hist.emis /\ hist'.perdus = hist.perdus
  BY <1>1, PoseeMeme
<1>4. fn' = fn /\ api' = api
  BY DEF HorsTrame
<1> QED BY <1>2, <1>3, <1>4 DEF HorsMeme

LEMMA JouerSbMeme ==
  ASSUME test \in TestT, hist \in HistT, HorsTrame, test.nom # "nb", JouerSb
  PROVE  HorsMeme
<1> DEFINE o == FnOffset
           dl == IF o + 11 - fn - 1 < 0 THEN 0 ELSE o + 11 - fn - 1
           v == o + 11
           n == dl + 8
           off == dl + 1
<1>1. Posee(off, SbSet) /\ test' = [test EXCEPT !.pas = "joue", !.reste = n, !.vise = v]
  BY Zenon DEF JouerSb, Posee
<1> HIDE DEF o, dl, v, n, off
<1>2. test'.nom = test.nom /\ test'.fnCmd = test.fnCmd
  BY <1>1 DEF TestT
<1>3. hist'.accepte = hist.accepte /\ hist'.emis = hist.emis /\ hist'.perdus = hist.perdus
  BY <1>1, PoseeMeme
<1>4. fn' = fn /\ api' = api
  BY DEF HorsTrame
<1> QED BY <1>2, <1>3, <1>4 DEF HorsMeme

LEMMA JouerBlocsMeme ==
  ASSUME test \in TestT, HorsTrame, NEW set, NEW x, JouerBlocs(set, x)
  PROVE  HorsMeme
<1> DEFINE n == 51 * (Essais + 1) + 10
<1>1. hist' = hist /\ test' = [test EXCEPT !.pas = "joue", !.reste = n]
  BY DEF JouerBlocs
<1> HIDE DEF n
<1>2. test'.nom = test.nom /\ test'.fnCmd = test.fnCmd
  BY <1>1 DEF TestT
<1>3. fn' = fn /\ api' = api
  BY DEF HorsTrame
<1> QED BY <1>1, <1>2, <1>3 DEF HorsMeme

LEMMA LancerMeme ==
  ASSUME test \in TestT, hist \in HistT, Compte(test), Lancer
  PROVE  HorsMeme
<1>1. HorsTrame
  BY DEF Lancer, HorsTrame
<1>2. test.nom \in Noms /\ test.essai \in Nat
  BY TestChamps, TestsNoms
<1>3. CASE CherchentFb(test)
  <2>1. test.nom # "sb" /\ ~(test.nom = "fbsb" /\ test.essai = 2) /\ test.nom \notin {"nb", "tx", "rach", "chk", "idle"}
    BY <1>3 DEF CherchentFb
  <2>2. Jouer(0, FbSet, 15)
    BY <1>3, <2>1 DEF Lancer
  <2>3. test.nom # "nb"
    BY <2>1
  <2> QED BY <1>1, <2>2, <2>3, JouerMeme
<1>4. CASE test.nom = "sb"
  <2>1. Jouer(1, SbSet, 6) /\ test.nom # "nb"
    BY <1>4 DEF Lancer, CherchentFb
  <2> QED BY <1>1, <2>1, JouerMeme
<1>5. CASE test.nom = "fbsb" /\ test.essai = 2
  <2>1. JouerSb /\ test.nom # "nb"
    BY <1>5 DEF Lancer, CherchentFb
  <2> QED BY <1>1, <2>1, JouerSbMeme
<1>6. CASE test.nom = "nb"
  <2>1. JouerBlocs(NbSet, 2)
    BY <1>6 DEF Lancer, CherchentFb
  <2> QED BY <1>1, <2>1, JouerBlocsMeme
<1>7. CASE test.nom = "tx"
  <2>1. JouerBlocs(NbSetUl, 22 + 15)
    BY <1>7 DEF Lancer, CherchentFb
  <2> QED BY <1>1, <2>1, JouerBlocsMeme
<1>8. CASE test.nom = "rach"
  <2>1. Jouer(0, RachSet, 6) /\ test.nom # "nb"
    BY <1>8 DEF Lancer, CherchentFb
  <2> QED BY <1>1, <2>1, JouerMeme
<1>9. CASE test.nom = "chk"
  <2>1. Jouer(1, ChkSet, 6) /\ test.nom # "nb"
    BY <1>9 DEF Lancer, CherchentFb
  <2> QED BY <1>1, <2>1, JouerMeme
<1>10. CASE test.nom = "idle"
  <2>1. Jouer(0, <<>>, 100) /\ test.nom # "nb"
    BY <1>10 DEF Lancer, CherchentFb
  <2> QED BY <1>1, <2>1, JouerMeme
<1>11. \/ CherchentFb(test) \/ test.nom = "sb" \/ (test.nom = "fbsb" /\ test.essai = 2) \/ test.nom = "nb" \/ test.nom = "tx"
       \/ test.nom = "rach" \/ test.nom = "chk" \/ test.nom = "idle"
  BY <1>2 DEF Noms, CherchentFb, Compte
<1> QED BY <1>3, <1>4, <1>5, <1>6, <1>7, <1>8, <1>9, <1>10, <1>11

LEMMA ConclureMeme ==
  ASSUME test \in TestT, Conclure
  PROVE  HorsMeme
<1>1. test.reste = 0 /\ hist' = hist /\ fn' = fn /\ api' = api
  BY DEF Conclure
<1>2. FinFb(test, test') \/ FinAutre(test, test')
  <2>1. ConclureFb \/ (ConclureSb \/ ConclureFbsb \/ ConclureNb \/ ConclureTx \/ ConclureRach \/ ConclureSimple)
    BY Zenon DEF Conclure
  <2> QED BY <1>1, <2>1, ConclureFbFaits, ConclureAutreFaits
<1>3. Retenu(test, test')
  BY <1>2 DEF FinFb, FinAutre
<1>4. test'.nom = test.nom /\ test'.fnCmd = test.fnCmd
  BY <1>3 DEF Retenu
<1> QED BY <1>1, <1>4 DEF HorsMeme

LEMMA AttendreMeme ==
  ASSUME test \in TestT, Attendre
  PROVE  HorsMeme
<1> DEFINE n == Avant
           v == IF test.nom = "sb" THEN ProchainSch ELSE test.vise
<1>1. test' = [test EXCEPT !.pas = "attend", !.reste = n, !.vise = v]
  BY DEF Attendre
<1>2. fn' = fn /\ api' = api /\ hist' = hist
  BY DEF Attendre
<1> HIDE DEF n, v
<1>3. test'.nom = test.nom /\ test'.fnCmd = test.fnCmd
  BY <1>1 DEF TestT
<1> QED BY <1>2, <1>3 DEF HorsMeme

LEMMA PlanterMeme ==
  ASSUME test \in TestT, Planter
  PROVE  HorsMeme
<1>1. test' = [test EXCEPT !.pas = "fini", !.reste = 0, !.verdict = "arret"] /\ fn' = fn /\ api' = api /\ hist' = hist
  BY DEF Planter
<1>2. test'.nom = test.nom /\ test'.fnCmd = test.fnCmd
  BY <1>1 DEF TestT
<1> QED BY <1>1, <1>2 DEF HorsMeme

LEMMA SienDepart ==
  ASSUME BancInit
  PROVE  SienInv
<1>1. /\ fn = 0 /\ hist.agenda = {} /\ hist.emis = {} /\ hist.accepte.resp = 2 /\ hist.accepte.cmd = 0 /\ hist.perdus = 0
      /\ api.w = 0 /\ api.r = 0 /\ api.irq = FALSE /\ api.R[0] = ZeroR /\ api.R[1] = ZeroR
  BY DEF BancInit
<1>2. Sien(hist)
  BY <1>1 DEF Sien
<1>3. Tour(6, fn, hist.agenda, api, hist.perdus)
  <2>1. ~(6 <= 5) /\ 6 \notin {3, 5} /\ 6 \notin 2 .. 5 /\ 6 \notin {1, 3} /\ 6 \notin 1 .. 4
    OBVIOUS
  <2>2. Rang(6, fn, hist.agenda)
    BY <1>1, <2>1 DEF Rang
  <2>3. ZeroR.tache # "nb"
    BY DEF ZeroR, PageR
  <2>4. Feuille(api.R[0], 0, 6, fn, hist.perdus) /\ Feuille(api.R[1], 1, 6, fn, hist.perdus)
    BY <1>1, <2>3 DEF Feuille
  <2>5. Nette(6, api, fn, hist.perdus) /\ Armee(6, api, fn)
    BY <1>1, <2>1 DEF Nette, Armee
  <2> QED BY <2>1, <2>2, <2>4, <2>5 DEF Tour, Pages
<1>4. NbTenu
  <2>1. 6 \in 0 .. 6
    OBVIOUS
  <2> QED BY <1>3, <2>1 DEF NbTenu
<1>5. TxTenu
  BY <1>1 DEF TxTenu, Montant
<1> QED BY <1>2, <1>4, <1>5 DEF SienInv

LEMMA SienPas ==
  ASSUME BancInv, SienInv, [BancNext]_bancVars
  PROVE  SienInv'
<1>1. PICK d, s : Apart(d, s)
  BY BancApart
<1>2. test \in TestT /\ hist \in HistT /\ Compte(test)
  BY <1>1 DEF Apart, TypesBanc
<1>3. CASE Trame
  BY <1>3, SienTrame
<1>4. CASE Attendre
  BY <1>2, <1>4, AttendreMeme, HorsPas
<1>5. CASE Lancer
  BY <1>2, <1>5, LancerMeme, HorsPas
<1>6. CASE Conclure
  BY <1>2, <1>6, ConclureMeme, HorsPas
<1>7. CASE Planter
  BY <1>2, <1>7, PlanterMeme, HorsPas
<1>8. CASE UNCHANGED bancVars
  <2>1. HorsMeme
    BY <1>8 DEF bancVars, HorsMeme
  <2> QED BY <2>1, HorsPas
<1> QED BY <1>3, <1>4, <1>5, <1>6, <1>7, <1>8 DEF BancNext

\* A response accepts the page of its own command, two frames before, as long as the ROM
\* has missed two frame interrupts at the most; after more it still accepts no page of
\* another burst; and the ROM sends a burst in the frame tx_cmd noted for it, whatever
\* it has missed (dsp_end_scenario, l1_sync, nb_resp, tx_cmd).
THEOREM ToujoursLeSien == BancSpec => []ChacunLeSien
<1>1. BancInit => SienInv
  BY SienDepart
<1>2. BancInv /\ SienInv /\ [BancNext]_bancVars => SienInv'
  BY SienPas
<1>3. SienInv => ChacunLeSien
  BY DEF SienInv, Sien, TxTenu, ChacunLeSien
<1> QED BY <1>1, <1>2, <1>3, AnneauEtPhase, PTL DEF BancSpec
=============================================================================
