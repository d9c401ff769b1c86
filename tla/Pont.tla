-------------------------------- MODULE Pont --------------------------------
(***************************************************************************)
(* The server side of the ARM/DSP bridge (pont.c: servir, pont_serveur)    *)
(* and, as its environment, the ARM under QEMU at the other end of the     *)
(* SOCK_SEQPACKET socket.  One TICK opens a frame.  A frame has one phase  *)
(* (TICK, DONE) or two (TICK, DONE of phase A, l1_sync on the ARM, GO,     *)
(* DONE).  A RESET that arrives while the server waits for the GO is kept  *)
(* until the frame is over.  SIGINT/SIGTERM stop the server, SIGUSR1/2     *)
(* pause and resume it.                                                    *)
(*                                                                         *)
(* The DSP's own work in a frame is abstract here: what matters is when it *)
(* executes, whether it has booted, which RESETs it has seen, and by which *)
(* of the two gates of the server (the bursts of the UDP socket and the    *)
(* synthetic one of --iq) a burst is handed to it.                         *)
(***************************************************************************)
EXTENDS Naturals, Sequences

CONSTANTS
  Tn,           \* timeslots a DCCH message may announce
  DoneTot,      \* PONT_DONE_TOT, the values a frame may be played with: the second DONE
                \* leaves before the DSP has finished, or with it
  RxMode,       \* PONT_RX_MODE, the values a frame may be played with: the bursts are handed
                \* over in the middle of the frame, after it or before it
  Injecte,      \* --iq MODE given or not, the values a frame may be played with
  MaxTrames,    \* bound: TICKs of a session
  MaxResets,    \* bound: RESETs of a session
  MaxDcch,      \* bound: DCCH messages of a session
  MaxSessions,  \* bound: connections
  MaxPauses,    \* bound: SIGUSR1 received
  MaxFile       \* bound: messages in the socket when the ARM sends one more

ASSUME PontAssumption ==
  /\ Tn \subseteq Nat \ {0}
  /\ DoneTot \subseteq BOOLEAN
  /\ RxMode \subseteq {"milieu", "apres", "avant"}
  /\ Injecte \subseteq BOOLEAN
  /\ {MaxTrames, MaxResets, MaxDcch, MaxSessions, MaxPauses, MaxFile} \subseteq Nat

VARIABLES
  pc,            \* where the server is
  trame,         \* the TICK being served (m of servir)
  resetDiffere,  \* reset_differe: a RESET kept during the wait for the GO
  resetEp,       \* reset_differe_dl: what the kept RESET carries
  running,       \* dsp->running
  initDone,      \* init_done: the DSP has reached its first IDLE since the reset
  inj,           \* g_inj, what this frame is to deliver: udp (and actif, set with it),
                 \* iq (iq_mode), and apres, the synthetic burst after the frame
  froid,         \* history: the bursts of the last frame handed to a DSP that has not
                 \* booted since its last RESET
  dedie,         \* the timeslot the BSP delivers (calypso_bsp_set_dedie), 0 = none
  vu,            \* number of the last RESET the DSP has been through
  stop,          \* g_stop
  signale,       \* history: SIGINT or SIGTERM was received
  pause,         \* g_pause
  ouverte,       \* the server holds the connection open
  versPont,      \* the socket, ARM to server
  versArm,       \* the socket, server to ARM
  arm,           \* where the ARM side is
  compte         \* what the ARM side has sent so far, and the other bounded counts

serveur == <<pc, trame, resetDiffere, resetEp, running, initDone, inj, froid, dedie, vu>>
signaux == <<stop, signale, pause>>
liaison == <<ouverte, versPont, versArm>>
vars == <<pc, trame, resetDiffere, resetEp, running, initDone, inj, froid, dedie, vu,
          stop, signale, pause, ouverte, versPont, versArm, arm, compte>>

-----------------------------------------------------------------------------
(* Messages.  `ep' is the number of RESETs the ARM has sent before this one *)
(* (in a RESET: its own number); the code has no such field, it only lets   *)
(* the properties speak of the order of RESETs and frames.                  *)

Types == {"HELLO", "FAUX", "TICK", "GO", "RESET", "DCCH", "BYE"}

Msgs == [type: Types, deux: BOOLEAN, ep: Nat, tn: Tn \cup {0}]

Msg(type) == [type |-> type, deux |-> FALSE, ep |-> 0, tn |-> 0]
Tick(deux, ep) == [Msg("TICK") EXCEPT !.deux = deux, !.ep = ep]
Reset(ep) == [Msg("RESET") EXCEPT !.ep = ep]
Dcch(tn) == [Msg("DCCH") EXCEPT !.tn = tn]

\* The messages that hand the turn over: the ARM sends one and waits.
Jetons == {"HELLO", "FAUX", "TICK", "GO"}

Reponses == {"HELLO_OK", "DONE_A", "DONE"}

\* Server states: in accept(), in the handshake, at the top of the loop, at
\* the poll/recv, in pause_cooperative, in a one-phase frame, in phase A,
\* waiting for the GO, in phase B, finishing the frame after the early DONE,
\* leaving servir, returned from pont_serveur.
PontPc == {"attente", "poignee", "boucle", "reception", "pause", "trame",
           "phaseA", "go", "phaseB", "reste", "adieu", "fin"}
Execute == {"trame", "phaseA", "phaseB", "reste"}
EnSession == PontPc \ {"attente", "fin"}

ArmPc == {"absent", "connecte", "bonjour", "pret", "attendA", "l1sync", "attendB",
          "attendF", "l1syncF"}

\* No burst is to be delivered.
RienALivrer == [udp |-> FALSE, iq |-> FALSE, apres |-> FALSE]

Init ==
  /\ pc = "attente"
  /\ trame = Msg("TICK")
  /\ resetDiffere = 0 /\ resetEp = 0
  /\ running = FALSE /\ initDone = FALSE
  /\ inj = RienALivrer /\ froid = {}
  /\ dedie = 0 /\ vu = 0
  /\ stop = FALSE /\ signale = FALSE /\ pause = FALSE
  /\ ouverte = FALSE
  /\ versPont = <<>> /\ versArm = <<>>
  /\ arm = "absent"
  /\ compte = [trames |-> 0, resets |-> 0, dcch |-> 0, sessions |-> 0, pauses |-> 0]

-----------------------------------------------------------------------------
(* Signals.                                                                *)

\* sur_signal
SigTerm ==
  /\ ~signale
  /\ stop' = TRUE /\ signale' = TRUE
  /\ UNCHANGED <<serveur, pause, liaison, arm, compte>>

\* sur_pause, SIGUSR1
SigPause ==
  /\ ~pause /\ compte.pauses < MaxPauses
  /\ pause' = TRUE
  /\ compte' = [compte EXCEPT !.pauses = @ + 1]
  /\ UNCHANGED <<serveur, stop, signale, liaison, arm>>

\* sur_pause, SIGUSR2
SigReprise ==
  /\ pause
  /\ pause' = FALSE
  /\ UNCHANGED <<serveur, stop, signale, liaison, arm, compte>>

-----------------------------------------------------------------------------
(* The ARM side (QEMU), as the server sees it.                             *)

Envoyer(m) ==
  /\ ouverte
  /\ versPont' = Append(versPont, m)
  /\ UNCHANGED <<serveur, signaux, ouverte, versArm>>

ArmBonjour ==
  /\ arm = "connecte"
  /\ \E t \in {"HELLO", "FAUX"} : Envoyer(Msg(t))
  /\ arm' = "bonjour"
  /\ UNCHANGED compte

\* The TDMA timer of QEMU: a frame with one phase or two.
ArmTick(deux) ==
  /\ arm = "pret" /\ compte.trames < MaxTrames
  /\ Envoyer(Tick(deux, compte.resets))
  /\ arm' = IF deux THEN "attendA" ELSE "attendF"
  /\ compte' = [compte EXCEPT !.trames = @ + 1]

\* l1_sync has returned: the ARM hands the turn back.
ArmFinL1Sync ==
  \/ /\ arm = "l1sync" /\ arm' = "attendB"
     /\ Envoyer(Msg("GO"))
     /\ UNCHANGED compte
  \/ /\ arm = "l1syncF" /\ arm' = "pret"
     /\ UNCHANGED <<serveur, signaux, liaison, compte>>

\* The firmware restarts the DSP; the ARM may be anywhere in its frame.
ArmReset ==
  /\ arm \notin {"absent", "connecte", "bonjour"}
  /\ compte.resets < MaxResets /\ Len(versPont) < MaxFile
  /\ Envoyer(Reset(compte.resets + 1))
  /\ compte' = [compte EXCEPT !.resets = @ + 1]
  /\ UNCHANGED arm

\* QEMU has read a dedicated channel in the L1CTL stream (0 = released).
ArmDcch(tn) ==
  /\ arm \notin {"absent", "connecte", "bonjour"}
  /\ compte.dcch < MaxDcch /\ Len(versPont) < MaxFile
  /\ Envoyer(Dcch(tn))
  /\ compte' = [compte EXCEPT !.dcch = @ + 1]
  /\ UNCHANGED arm

ArmRecevoir ==
  /\ versArm # <<>> /\ arm # "absent"
  /\ versArm' = Tail(versArm)
  /\ arm' = CASE arm = "bonjour" -> "pret"
              [] arm = "attendA" -> "l1sync"
              [] arm = "attendB" -> "pret"
              [] arm = "attendF" -> "l1syncF"
              [] OTHER -> arm
  /\ UNCHANGED <<serveur, signaux, ouverte, versPont, compte>>

\* QEMU ends or dies, with or without a BYE.
ArmPartir ==
  /\ arm # "absent" /\ ouverte
  /\ \/ versPont' = versPont
     \/ versPont' = Append(versPont, Msg("BYE"))
  /\ arm' = "absent"
  /\ versArm' = <<>>
  /\ UNCHANGED <<serveur, signaux, ouverte, compte>>

\* The server closed the connection: QEMU reads end of file.
ArmConstater ==
  /\ arm # "absent" /\ ~ouverte /\ versArm = <<>>
  /\ arm' = "absent"
  /\ UNCHANGED <<serveur, signaux, liaison, compte>>

-----------------------------------------------------------------------------
(* The server.                                                             *)

\* send() to a peer that has gone fails and its result is ignored.
Repondre(r) == versArm' = IF arm = "absent" THEN versArm ELSE Append(versArm, r)

\* pont_serveur: accept() on a connecting ARM; servir starts with its locals cleared.
Accepter ==
  /\ pc = "attente" /\ ~stop
  /\ arm = "absent" /\ compte.sessions < MaxSessions
  /\ pc' = "poignee" /\ arm' = "connecte" /\ ouverte' = TRUE
  /\ versPont' = <<>> /\ versArm' = <<>>
  /\ initDone' = FALSE /\ resetDiffere' = 0 /\ resetEp' = 0 /\ vu' = 0
  /\ compte' = [trames |-> 0, resets |-> 0, dcch |-> 0,
                sessions |-> compte.sessions + 1, pauses |-> compte.pauses]
  /\ UNCHANGED <<trame, running, inj, froid, dedie, signaux>>

\* pont_serveur: g_stop is seen between two connections.
Terminer ==
  /\ pc = "attente" /\ stop
  /\ pc' = "fin"
  /\ UNCHANGED <<trame, resetDiffere, resetEp, running, initDone, inj, froid, dedie, vu,
                 signaux, liaison, arm, compte>>

\* recv() of the handshake: a valid HELLO, a wrong one, or the peer gone (end of
\* file, or ECONNRESET before what is still queued).
Poignee ==
  /\ pc = "poignee"
  /\ \/ /\ versPont # <<>> /\ versPont' = Tail(versPont)
        /\ IF Head(versPont).type = "HELLO"
           THEN pc' = "boucle" /\ Repondre("HELLO_OK")
           ELSE pc' = "adieu" /\ UNCHANGED versArm
     \/ /\ arm = "absent"
        /\ pc' = "adieu" /\ UNCHANGED <<versPont, versArm>>
  /\ UNCHANGED <<trame, resetDiffere, resetEp, running, initDone, inj, froid, dedie, vu,
                 signaux, ouverte, arm, compte>>

\* servir returns and pont_serveur closes the connection.
Raccrocher ==
  /\ pc = "adieu"
  /\ pc' = "attente" /\ ouverte' = FALSE /\ versPont' = <<>>
  /\ UNCHANGED <<trame, resetDiffere, resetEp, running, initDone, inj, froid, dedie, vu,
                 signaux, versArm, arm, compte>>

\* The top of the loop of servir: g_stop, then g_pause.
Sommet ==
  /\ pc = "boucle"
  /\ pc' = IF stop THEN "adieu" ELSE IF pause THEN "pause" ELSE "reception"
  /\ UNCHANGED <<trame, resetDiffere, resetEp, running, initDone, inj, froid, dedie, vu,
                 signaux, liaison, arm, compte>>

\* pause_cooperative returns; the loop goes on without testing g_stop again.
FinPause ==
  /\ pc = "pause" /\ (~pause \/ stop)
  /\ pc' = "reception"
  /\ UNCHANGED <<trame, resetDiffere, resetEp, running, initDone, inj, froid, dedie, vu,
                 signaux, liaison, arm, compte>>

\* poll() times out, or recv() finds the peer gone.
RienRecu ==
  /\ pc = "reception" /\ resetDiffere = 0
  /\ \/ versPont = <<>> /\ arm # "absent" /\ pc' = "boucle"
     \/ arm = "absent" /\ pc' = "adieu"
  /\ UNCHANGED <<trame, resetDiffere, resetEp, running, initDone, inj, froid, dedie, vu,
                 signaux, liaison, arm, compte>>

\* case PONT_RESET: the DSP restarts and has to boot again.
TraiterReset(ep) ==
  /\ pc' = "boucle"
  /\ running' = TRUE /\ initDone' = FALSE
  /\ vu' = ep
  /\ UNCHANGED <<trame, inj, froid, dedie, signaux, ouverte, versArm, arm, compte>>

ResetRecu ==
  /\ pc = "reception" /\ resetDiffere = 0
  /\ versPont # <<>> /\ Head(versPont).type = "RESET"
  /\ versPont' = Tail(versPont)
  /\ TraiterReset(Head(versPont).ep)
  /\ UNCHANGED <<resetDiffere, resetEp>>

\* The RESET kept during the wait for the GO, played before anything is received.
ResetGarde ==
  /\ pc = "reception" /\ resetDiffere > 0
  /\ resetDiffere' = resetDiffere - 1
  /\ TraiterReset(resetEp)
  /\ UNCHANGED <<resetEp, versPont>>

\* The bursts `quoi' of a frame of one phase or two, when the DSP has not booted.
AFroid(quoi, boote, deux) ==
  IF boote THEN {} ELSE {[quoi |-> q, deux |-> deux] : q \in quoi}

\* case PONT_TICK up to jouer_trame: what is not left to the middle of the frame is
\* handed over before the DSP runs, and the rest is decided.  The synthetic burst of the
\* middle of the frame is decided without looking at init_done.
TickRecu ==
  /\ pc = "reception" /\ resetDiffere = 0
  /\ versPont # <<>> /\ Head(versPont).type = "TICK"
  /\ versPont' = Tail(versPont)
  /\ trame' = Head(versPont)
  /\ \E rx \in RxMode, iq \in Injecte :
       /\ inj' = [udp |-> rx = "milieu" /\ initDone, iq |-> rx = "milieu" /\ iq,
                  apres |-> rx = "apres" /\ iq]
       /\ froid' = AFroid({q \in {"udp", "iq"} :
                            /\ initDone
                            /\ IF q = "udp" THEN rx # "milieu" ELSE rx = "avant" /\ iq},
                          running /\ initDone, Head(versPont).deux)
  /\ pc' = IF Head(versPont).deux THEN "phaseA" ELSE "trame"
  /\ UNCHANGED <<resetDiffere, resetEp, running, initDone, dedie, vu, signaux, ouverte,
                 versArm, arm, compte>>

\* case PONT_DCCH
DcchRecu ==
  /\ pc = "reception" /\ resetDiffere = 0
  /\ versPont # <<>> /\ Head(versPont).type = "DCCH"
  /\ versPont' = Tail(versPont)
  /\ dedie' = Head(versPont).tn
  /\ pc' = "boucle"
  /\ UNCHANGED <<trame, resetDiffere, resetEp, running, initDone, inj, froid, vu, signaux,
                 ouverte, versArm, arm, compte>>

\* case PONT_BYE, and the default case for a message that has no place here.
AutreRecu ==
  /\ pc = "reception" /\ resetDiffere = 0
  /\ versPont # <<>> /\ Head(versPont).type \in {"BYE", "HELLO", "FAUX", "GO"}
  /\ versPont' = Tail(versPont)
  /\ pc' = IF Head(versPont).type = "BYE" THEN "adieu" ELSE "boucle"
  /\ UNCHANGED <<trame, resetDiffere, resetEp, running, initDone, inj, froid, dedie, vu,
                 signaux, ouverte, versArm, arm, compte>>

\* jouer_trame: while the DSP boots, a frame may bring it to its first IDLE.
Demarrer ==
  initDone' \in IF running THEN {initDone, TRUE} ELSE {initDone}

\* Slips a maintainer could make in FinPhaseA: the wait for the GO is skipped; the pause is
\* taken inside the frame.
FinPhaseA_Vers(suite) ==
  /\ pc = "phaseA" /\ Demarrer
  /\ Repondre(IF running THEN "DONE_A" ELSE "DONE")
  /\ pc' = suite
  /\ UNCHANGED <<trame, resetDiffere, resetEp, running, inj, froid, dedie, vu, signaux,
                 ouverte, versPont, arm, compte>>

FinPhaseA_SansGo == FinPhaseA_Vers("phaseB")

FinPhaseA_Pause == FinPhaseA_Vers(IF pause THEN "pause" ELSE "go")

\* Phase A is played: DONE_A, or a plain DONE when the DSP is not running.
FinPhaseA ==
  /\ pc = "phaseA"
  /\ Demarrer
  /\ Repondre(IF running THEN "DONE_A" ELSE "DONE")
  /\ pc' = "go"
  /\ UNCHANGED <<trame, resetDiffere, resetEp, running, inj, froid, dedie, vu, signaux,
                 ouverte, versPont, arm, compte>>

\* Slips in the wait for the GO: RESETs are counted instead of kept once; dropped
\* like any other message; applied at once; any other message is taken for the GO.
AttendreGo_Compte ==
  /\ pc = "go" /\ ~stop /\ versPont # <<>>
  /\ versPont' = Tail(versPont)
  /\ pc' = IF Head(versPont).type = "GO" THEN "phaseB" ELSE "go"
  /\ IF Head(versPont).type = "RESET"
     THEN resetDiffere' = resetDiffere + 1 /\ resetEp' = Head(versPont).ep
     ELSE UNCHANGED <<resetDiffere, resetEp>>
  /\ UNCHANGED <<trame, running, initDone, inj, froid, dedie, vu, signaux, ouverte, versArm,
                 arm, compte>>

AttendreGo_ResetPerdu ==
  /\ pc = "go" /\ ~stop /\ versPont # <<>>
  /\ versPont' = Tail(versPont)
  /\ pc' = IF Head(versPont).type = "GO" THEN "phaseB" ELSE "go"
  /\ UNCHANGED <<trame, resetDiffere, resetEp, running, initDone, inj, froid, dedie, vu,
                 signaux, ouverte, versArm, arm, compte>>

AttendreGo_ResetImmediat ==
  /\ pc = "go" /\ ~stop /\ versPont # <<>>
  /\ versPont' = Tail(versPont)
  /\ pc' = IF Head(versPont).type = "GO" THEN "phaseB" ELSE "go"
  /\ IF Head(versPont).type = "RESET"
     THEN running' = TRUE /\ initDone' = FALSE /\ vu' = Head(versPont).ep
     ELSE UNCHANGED <<running, initDone, vu>>
  /\ UNCHANGED <<trame, resetDiffere, resetEp, inj, froid, dedie, signaux, ouverte, versArm,
                 arm, compte>>

AttendreGo_ToutEstGo ==
  /\ pc = "go" /\ ~stop /\ versPont # <<>>
  /\ versPont' = Tail(versPont)
  /\ pc' = IF Head(versPont).type = "RESET" THEN "go" ELSE "phaseB"
  /\ IF Head(versPont).type = "RESET"
     THEN resetDiffere' = 1 /\ resetEp' = Head(versPont).ep
     ELSE UNCHANGED <<resetDiffere, resetEp>>
  /\ UNCHANGED <<trame, running, initDone, inj, froid, dedie, vu, signaux, ouverte, versArm,
                 arm, compte>>

\* The wait for the GO: a RESET is kept, everything else but the GO is dropped.
AttendreGo ==
  /\ pc = "go" /\ ~stop /\ versPont # <<>>
  /\ versPont' = Tail(versPont)
  /\ pc' = IF Head(versPont).type = "GO" THEN "phaseB" ELSE "go"
  /\ IF Head(versPont).type = "RESET"
     THEN resetDiffere' = 1 /\ resetEp' = Head(versPont).ep
     ELSE UNCHANGED <<resetDiffere, resetEp>>
  /\ UNCHANGED <<trame, running, initDone, inj, froid, dedie, vu, signaux, ouverte, versArm,
                 arm, compte>>

\* The same without the test of g_stop in the wait.
AbandonnerTrame_SansStop ==
  /\ pc = "go" /\ arm = "absent"
  /\ stop' = TRUE
  /\ pc' = "adieu"
  /\ UNCHANGED <<trame, resetDiffere, resetEp, running, initDone, inj, froid, dedie, vu,
                 signale, pause, liaison, arm, compte>>

\* The wait for the GO ends without one: g_stop, or the peer gone, which sets g_stop.
AbandonnerTrame ==
  /\ pc = "go" /\ (stop \/ arm = "absent")
  /\ stop' = TRUE
  /\ pc' = "adieu"
  /\ UNCHANGED <<trame, resetDiffere, resetEp, running, initDone, inj, froid, dedie, vu,
                 signale, pause, liaison, arm, compte>>

\* phase_b of jouer_trame: a burst is handed over on its own gate alone.
MilieuDeTrame == {q \in {"udp", "iq"} : inj[q]}

\* Phase B up to the early DONE: the bursts are delivered, the rest of the frame follows.
LivrerBurst ==
  /\ pc = "phaseB" /\ TRUE \in DoneTot
  /\ Repondre("DONE")
  /\ pc' = "reste"
  /\ froid' = froid \cup AFroid(MilieuDeTrame, running /\ initDone, trame.deux)
  /\ UNCHANGED <<trame, resetDiffere, resetEp, running, initDone, inj, dedie, vu,
                 signaux, ouverte, versPont, arm, compte>>

\* The bursts handed over by the end of a frame: those of its middle, unless they have been
\* or unless a frame of one phase skips them, and the synthetic one that comes after.
FinDeTrame ==
  (IF pc = "phaseB" \/ (pc = "trame" /\ running /\ inj.udp) THEN MilieuDeTrame ELSE {})
    \cup (IF inj.apres /\ initDone' /\ running THEN {"iq"} ELSE {})

\* The frame is over; what is left of g_inj is rewritten by the next TICK.
Clore ==
  /\ pc' = "boucle"
  /\ inj' = RienALivrer
  /\ froid' = froid \cup AFroid(FinDeTrame, running /\ initDone', trame.deux)
  /\ UNCHANGED <<trame, resetDiffere, resetEp, running, dedie, vu, signaux, ouverte,
                 versPont, arm, compte>>

\* The end of the frame when the second DONE is left to the early one alone.
FinTrame_SansDone ==
  /\ \/ pc = "trame" /\ Demarrer /\ Repondre("DONE")
     \/ pc \in {"phaseB", "reste"} /\ UNCHANGED <<initDone, versArm>>
  /\ Clore

\* The end of the frame, with its DONE unless it has left already.
FinTrame ==
  /\ \/ pc = "trame" /\ Demarrer /\ Repondre("DONE")
     \/ pc = "phaseB" /\ FALSE \in DoneTot /\ Repondre("DONE") /\ UNCHANGED initDone
     \/ pc = "reste" /\ UNCHANGED <<initDone, versArm>>
  /\ Clore

Serveur ==
  \/ Accepter \/ Terminer \/ Poignee \/ Raccrocher \/ Sommet \/ FinPause \/ RienRecu
  \/ ResetRecu \/ ResetGarde \/ TickRecu \/ DcchRecu \/ AutreRecu
  \/ FinPhaseA \/ AttendreGo \/ AbandonnerTrame \/ LivrerBurst \/ FinTrame

Arm ==
  \/ ArmBonjour \/ (\E deux \in BOOLEAN : ArmTick(deux)) \/ ArmFinL1Sync \/ ArmReset
  \/ (\E tn \in Tn \cup {0} : ArmDcch(tn)) \/ ArmRecevoir \/ ArmPartir \/ ArmConstater

Signal == SigTerm \/ SigPause \/ SigReprise

Next == Serveur \/ Arm \/ Signal

Spec == Init /\ [][Next]_vars

\* Fairness: the server is a loop whose every wait has a timeout and whose every
\* frame has an instruction budget; QEMU says hello, reads its socket and ends
\* l1_sync; whoever pauses the DSP resumes it.
Equite ==
  /\ WF_vars(Serveur)
  /\ WF_vars(ArmBonjour) /\ WF_vars(ArmRecevoir) /\ WF_vars(ArmFinL1Sync)
  /\ WF_vars(ArmConstater)
  /\ WF_vars(SigReprise)

SpecEquitable == Spec /\ Equite

-----------------------------------------------------------------------------
(* Properties.                                                             *)

TypeServeur ==
  /\ pc \in PontPc /\ trame \in Msgs
  /\ resetDiffere \in {0, 1} /\ resetEp \in Nat /\ vu \in Nat
  /\ dedie \in Tn \cup {0}

TypeDrapeaux ==
  /\ running \in BOOLEAN /\ initDone \in BOOLEAN
  /\ inj \in [udp: BOOLEAN, iq: BOOLEAN, apres: BOOLEAN]
  /\ froid \subseteq [quoi: {"udp", "iq"}, deux: BOOLEAN]
  /\ stop \in BOOLEAN /\ signale \in BOOLEAN /\ pause \in BOOLEAN /\ ouverte \in BOOLEAN

TypeLiaison ==
  /\ arm \in ArmPc
  /\ versPont \in Seq(Msgs) /\ versArm \in Seq(Reponses)

TypeCompte ==
  compte \in [trames: Nat, resets: Nat, dcch: Nat, sessions: Nat, pauses: Nat]

TypeOK == TypeServeur /\ TypeDrapeaux /\ TypeLiaison /\ TypeCompte

\* The two-phase frame exists for this: l1_sync of the ARM never runs while the
\* DSP executes a frame, whatever RESETs, DCCHs, signals and departures cross it.
L1SyncExclusif == arm \in {"l1sync", "l1syncF"} => pc \notin Execute

\* A frame is played, from its first instruction to its last, by a DSP whose last
\* restart is the last RESET the ARM sent before its TICK: the RESET that crosses
\* the wait for the GO is not lost, and none is applied in the middle of a frame.
ResetEntreTrames == pc \in Execute \cup {"go"} => vu = trame.ep

\* A burst is only handed to a DSP that has booted since its last RESET (until then the
\* API RAM holds the code the ARM downloads), wherever in the frame the hand-over falls;
\* but for the synthetic burst of --iq, which phase B of a two-phase frame injects into
\* a DSP that boots or does not run (pont.c:2410 and 1609 do not test init_done).
BurstApresDemarrage == \A b \in froid : b.quoi = "iq" /\ b.deux

\* The DSP is paused on a frame boundary: it owes the ARM no DONE.
PauseHorsTrame ==
  pc = "pause" /\ arm \in {"attendA", "attendB", "attendF"} =>
    \/ versArm # <<>>
    \/ \E i \in 1 .. Len(versPont) : versPont[i].type = "TICK"

\* Every TICK and every GO is answered, or the connection ends: whatever else is in the
\* socket, the DSP running or not, its boot and the pause in between.
ToutRepondu ==
  /\ arm \in {"attendA", "attendF"} ~> arm \in {"l1sync", "l1syncF", "absent"}
  /\ arm = "attendB" ~> arm \in {"pret", "absent"}

\* A signal stops the server, wherever it is.
SignalArrete == signale ~> pc = "fin"

\* The bridge implements the alternation of Alternance.tla.
GoEnRoute == \E i \in 1 .. Len(versPont) : versPont[i].type = "GO"

etapeTrame ==
  IF pc \in {"trame", "phaseA"} THEN "dsp"
  ELSE IF pc \in {"phaseB", "reste"} THEN "suite"
  ELSE IF arm \in {"l1sync", "l1syncF"} \/ (pc = "go" /\ GoEnRoute) THEN "sync"
  ELSE IF arm \in {"attendA", "attendF"} /\ versArm # <<>> THEN "dsp"
  ELSE "repos"

Alternee == INSTANCE Alternance WITH etape <- etapeTrame

ImplementeAlternance == Alternee!Spec
=============================================================================
