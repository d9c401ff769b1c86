# c54x_exe in TLA+

`c54x_exe` runs the DSP of the Calypso chipset in a process of its own. QEMU
runs the ARM of the phone and talks to it over a Unix `SOCK_SEQPACKET` socket;
an air bridge plays the base station and talks to it through single-record
files. This directory holds TLA+ modules of the parts of the program that carry
its logic, the TLC configurations that check them, and proofs of safety
properties of all ten of them for every value of their constants.

Names follow the source: `Pont` is `pont.c`, `Multi` is `multi.c`, `Rejeu` is
`rejouer.c`; `Canal`, `Cle`, `Montee` and `Descente` are four parts of `montant.c`
(the dedicated channel, the ciphering key, the uplink blocks, the downlink
prostheses), and `Emission` is what `montant.c`, `pont.c` and `tsp_tx.c` make of
the bursts the ROM transmits. `Enreg` is the recorder of `pont.c` with the two
programs of `tools/` that read its files, `Banc` the bench of the ROM in `tools/`.
Line numbers below are those of `src/src/`, or of `src/tools/` for the benches.

## 1. Inventory

| component | state | operations | hard part | correct when |
|---|---|---|---|---|
| **Bridge** `pont.c` `servir`, `pont_serveur` | `running`, `init_done`, `reset_differe`(`_dl`), `g_stop`, `g_pause`, `g_inj`, the socket | handshake, RESET, TICK, GO, DCCH, BYE, pause, stop | a frame is half played while the server waits for the GO, and anything may cross it | DSP and `l1_sync` never run together; RESETs fall between frames; every TICK and GO is answered |
| **Job pool** `multi.c` | `t[]` (status, pid, CPU), `occupe[]`, `en_cours`, `prochaine`, `finies`, `echecs` | read the plan, fork, wait, report | children end in any order, fork fails, pids come back, foreign children, `SIGCHLD` ignored | slots and counters agree, each status is its own job's, the plan ends, the return code tells of every failure |
| **Dedicated channel** `montant.c` `scruter_dcch`, `scruter_tch`, `suivre_tache_tch`, release on FB/SB | `sd_*`, `tch_tn`, `sur_tch`, `attente_ul`, `dedie_arme`, `g_tn_tch_sb`, the BSP's timeslot | two polled files, the posted tasks | three sources that contradict each other, each of which may be late, missing or old | the BSP plays the timeslot the firmware is on, and TS0 when it searches for sync |
| **Uplink blocks** `montant.c` `prendre_ul`, `publier_l2`, `publier_parole`, TCH/SDCCH capture | last block, age, sequence numbers of the published files | per-frame capture of the flag the DSP lowers | a block reposted between two polls, a frame lost | each block is published once, whole |
| **Transmission** `montant.c` RACH, `pont.c` `tx_rom_*`, `tx_tsp_*`, `rach_pend_*`, `tsp_tx.c` | `prev_rach`, `fn_rach`, `rach_attente`, `g_rach_pend`, `g_rom_emis_tick`, the last script, the pointer and the mask of a block | detection by task, edge and value, wait, dating, collection of four bursts | the task stays in the page, the value comes late, the burst leaves before or after it is seen, a block is given up half-way | one burst per access, dated in the frame it left; a block published is one block |
| **Ciphering key** `montant.c` `publier_kc` | last mode and key, grace, `g_kc_liberer`, the file and its `seq` | poll, publish, release | Kc word and mode are not written together; write failure | the reader sees the key of the present connection, changed only when it changes |
| **Downlink prostheses** `montant.c` `prothese_*_dl`, `suivre_cle_tchh` | the last frame each has seen, the key of a TCH/H, the words of the API RAM | decode the block that ends at the last burst, post it | positions of blocks in multiframes with holes, lost bursts, bursts of the channel before, a key set or cleared half-way | a block the BSP has in full reaches the firmware, once |
| **Recorder** `pont.c` `enreg_*`; **readers** `rejeu_banc.c`, `layer1_tester.c` | snapshot of the API RAM, base written or not; table of ticks; accounts of the words | base, difference of a window; read, replay, count | the snapshot separates the writers; file cut, table full, window missing | the replay plays the ROM on what it was played on; the account is even |
| **Bench** `dsp_tester.c`, `dsp_banc_commun.c` | TDMA ring, W and R pages, armed interrupt, last SCH, what the callbacks noted | program a set, `l1_sync`, deposit a burst, deposit the SCH again, conclude | two planners and a reset on one ring; pages out of step after a missed interrupt; two roundings of one TOA | the ring is its calendar; a response reads its own command; the verdict says what happened |
| **Rings and probes** `pont.c` `anneau_*`, `prise_*`, `rach_prise_*` | file mappings with sequence numbers | publish a record | read by other processes without a lock | a reader that sees a number sees its record |
| **Trace filter** `verbosite.c` | pipe, filter thread, saved `stderr` | install, filter, remove | thread, pipe capacity, end of process | no line is lost or blocks the DSP |
| **Downlink synthesis** `cellule.c` | pure encoders, cell description | CRC, convolution, interleaving, mapping | bit-exactness | the decoder gives back the block |
| **Replay** `rejouer.c` | callback table `sched[]`, FB mode, retries, verdict | plan a set, run what is due, one DSP frame | sets planned from answers of the DSP that come late or not at all, modulo-51 arithmetic | never silent; a response belongs to its command; the SB task falls on an SCH |
| **Entry** `main.c`, **minimal board** `pcb-minimal.c`, **decoders** `isa_test.c`, `sacch_tf_decode.c`, **scripts** | none, or one pass | parsing, stubs, off-line analysis | none for a model checker | - |
| **DSP core, BSP, QEMU, air bridge, firmware** | not in the repository | - | - | external: environment of the modules |

Interactions. QEMU sends TICK/GO/RESET/DCCH to the bridge and gets DONEs; in
each frame `jouer_trame` runs the DSP and calls `montant_scruter`, which polls
the files of QEMU's tap and of the air bridge, moves the BSP between timeslots,
and publishes what the firmware has posted in the API RAM for the air bridge to
read. `multi.c` runs several of these programs (record harness) as children.
Signals (`SIGINT`, `SIGTERM`, `SIGUSR1/2`) arrive at any instruction and only
set flags.

The hazards of this code, at the lines where they bite, are listed in
`PROJECT.json` with the properties that would catch each of them.

## 2. Modules

```
Alternance  <- refined by -  Pont      <- PontBancProofs   MCPont.cfg
Reservoir   <- refined by -  Multi     <- MultiProofs      MCMulti.cfg
                             Canal     <- CanalProofs      MCCanal.cfg
                             Cle       <- MontantProofs    MCCle.cfg
                             Montee    <- MontantProofs    MCMontee.cfg
                             Emission  <- EmissionProofs   MCEmission.cfg
                             Rejeu     <- RejeuProofs      MCRejeu.cfg
                             Descente  <- DescenteProofs   MCDescente.cfg
                             Enreg     <- EnregProofs      MCEnreg.cfg, MCEnregTesteur.cfg
                             Banc      <- PontBancProofs   MCBanc.cfg, MCBancNb.cfg
```

A module `XProofs` extends `X` with its inductive invariant, lemmas and theorems
(section 4). `MontantProofs` does so for two parts of `montant.c` that share nothing,
and `PontBancProofs` for the two places where an ARM and a DSP go frame by frame,
which is why the names every module has (`Init`, `Next`...) have a prefix in `Cle`
and in `Banc`.

### Pont, Alternance

`Pont` is the server with QEMU's ARM as its environment.

* One action per place where `servir` can stop or branch: `Accepter`,
  `Terminer`, `Raccrocher` (`pont_serveur`), `Poignee` (HELLO), `Sommet`
  (`g_stop`, then `g_pause`), `FinPause` (`pause_cooperative`), `RienRecu`
  (`poll` timeout or peer gone), one action per `case` of the switch
  (`ResetRecu` and `ResetGarde` for the two sources of a RESET, `TickRecu`,
  `DcchRecu`, `AutreRecu`), and for a frame `FinPhaseA`, `AttendreGo`,
  `AbandonnerTrame`, `LivrerBurst`, `FinTrame`. Signals are actions of their
  own, so they fall anywhere.
* The two DONEs of a frame, the early DONE (`PONT_DONE_TOT`; the constant
  `DoneTot` is the set of the values a server may run with) and the RESET kept
  during the wait for the GO are as in the code.
* Bursts reach the DSP by two gates, which `inj` (`g_inj`) keeps apart: those of
  the UDP socket (`udp`; `g_inj.actif` is set with it) and the synthetic one of
  `--iq` (`iq`). `RxMode` is the set of the values of `PONT_RX_MODE` a frame may be
  played with: in the middle of the frame (`MilieuDeTrame`), before it (in
  `TickRecu`) or after it (`FinDeTrame`); `Injecte` says whether `--iq` is given.
  Both gates are decided when the TICK is read, one exchange before they are used
  in a two-phase frame. `froid` is history: the bursts of the last frame handed to a
  DSP that has not booted since its last RESET, or does not run. `BurstApresDemarrage`
  has one exception, which is what the code does: `g_inj.iq_mode` is set without a
  look at `init_done` (`pont.c:2410`) and phase B of a two-phase frame injects on it
  alone (1609), so that with `--iq` a booting DSP is given the synthetic burst of
  such frames. In a frame of one phase the delivery is inside the test of
  `g_inj.actif` (1552), and before or after the frame `init_done` is tested (2404, 2519).
* `compte` and the field `ep` of a message are history: the code has neither.
  `ep` numbers the RESETs, so that a property can say which RESET the DSP of a
  frame has been through. `vu` is that number on the DSP's side.
* The DSP's instructions, the API RAM and the probes are left out: a frame is
  "the DSP executes" plus the possible arrival at the first IDLE (`Demarrer`).
* Environment: the ARM says HELLO (or a wrong one), sends at most one of
  TICK/GO before it is answered, may send RESET and DCCH from anywhere in its
  frame, and may die at any point, with a BYE or without. Sending to a dead
  peer fails and the code ignores it, as does the model; a dead peer may also
  make `recv` fail (`ECONNRESET`) before queued messages are read.

`Alternance` is what the bridge promises, without sockets: the DSP opens the
frame, the ARM runs on it, the DSP finishes it, and the two never overlap.
`etapeTrame` is the refinement mapping; the frame's step is a function of where
the server is, where the ARM is, and which message is between them.

### Multi, Reservoir

`Multi` holds the parent process and the part of the kernel it depends on:
processes that live, become zombies, are waited for, and whose pids are given
out again. `ignore` is `SIGCHLD` inherited ignored, in which case there are no
zombies; it is free at the start. `Lancer` and `LancerEchoue` are the two outcomes of `fork`;
`Recolter` and `RecolterEtranger` the two of `wait`; `SansEnfant` is `ECHILD`.
`reel` is history: how the process of each job really ended. A child that
cannot open its log exits with a status, which is one of `Issues`. The
affinity of a CPU is abstracted to the number of its slot.

`Reservoir` is the pool without processes or slots: a width fixed before the
first job, jobs started in plan order, never more than the width together.

### Canal

`g` is the static state of `montant.c` that decides the timeslot, with the
BSP's own. `ici` is the installation, fixed at the start: the firmware is TI's
or osmocom-bb's, between which the code decides differently how a TCH ends, and
the bridge announces the TCHs or does not; a run gives the pairs it covers.
`Trame` is one call of `montant_scruter`, and applies, in the order
of the code, `LireDcch`, `LireTch`, `SuivreTache`, `SyncDl` (the bit
`B_SYNC_TCH_DL` of the first page of a TCH) and `ChercherSynchro`. The tap's
and the bridge's files are single records with a mark "not yet read" (`neuf`):
a record written before the last one was polled is lost, as in the code, whose
reader only compares the sequence number with the last one it saw.

The other actions are the environment: what the firmware does
(`EtablirSdcch`, `EtablirPdch`, `Assigner`, `Echouer`, `Liberer`,
`Synchroniser`), what the tap and the bridge then write, and what the firmware
may post in a frame (`Postees`). Its assumptions: an IMMEDIATE ASSIGNMENT is
found in a block the firmware read in idle; an assignment to a TCH comes after
the SDCCH has been used in both directions; the tap may miss a release, but not
a new channel; the bridge closes its file, when it does, after the release.
`attente` is the age of the wait for an uplink task, counted by frames; the
code subtracts frame numbers, which count frames.

Left out, and why: a handover from one TCH to another (the bridge does not do
it, and `suivre_tache_tch` does not look at a new timeslot while it is on one),
`MONTANT_TCH_TACHE=0` (a debugging mode that switches at once), and the values
of `CALYPSO_TI_SYNC_DL` other than its default.

This is also where `Pont` and `Canal` meet: a channel is announced twice, by the
record of the tap and by the message `PONT_DCCH`, handled in `servir`, which
moves the BSP and leaves `dedie_arme` as it was. `PontDcch` is that message, with
the two things that may happen to it: handled before the next frame, or dropped
because the server was waiting for the GO (`AttendreGo` in `Pont`). `Ts0Rendu`
holds all the same because the tap's record is read before the next look at the
tasks.

### Cle

`PublierKc` is one call of `publier_kc`, split by its early returns: `Passer`
(not the periodic poll, no edge), `Identique` (what was last published is still
true), `Patienter` (grace), `PublierCle`, `PublierEchoue` (open or write fails).
`k` is the function's static state and `g_kc_liberer`; `fichier` is the record
as the bridge reads it, reduced to number, algorithm and key. `Liberer` is
`montant_canal_libere` as far as the key is concerned.

Environment: the firmware writes the mode first and the words of the key after
it, with polls in between (`Melange` is a key half written); it clears the mode
at a release and at an assignment; the release may be announced before or after
it does. `h` is history (how long the memory has been as it is, how many clear
polls since the last ciphered one); it is read by properties only.
`MONTANT_KC=0`, which turns the function off, is left out.

### Montee

A frame is `Synchroniser` (the firmware posts), `AuGo` (`montant_capter_fu`),
`Rom` (the ROM takes blocks and lowers flags) and `Scruter` (`montant_scruter`
from the uplink task on). `vu` is the memory of `prendre_ul`, `g` that of the
capture by contents, used when the flag of `a_cu` is lowered before it can be
seen. `ici` is the installation: whether the ROM comes before the process looks
(`romAvant`) and whether the tasks are visible (`tacheVue`). `Changer` is a change of channel with its release.

Environment: a block of `a_cu` is four bursts and the next one comes after
them; `a_fu` and `a_du` are posted at least one frame after the ROM took the
previous block (blocks last four frames or more); channels change when no block
is waiting; the task of the first call was seen, so that the guard of `Canal`
(`arme`) is not repeated here. `pub` and `repris` are history. Left out: the
settings of the filter (the defaults hold), the conversion of speech, and the
ring files, which are in the plan.

### Descente

A frame is `Arm` (the firmware reads its words and clears them, and may do one
thing: cipher, set or clear the key, open or leave a TCH), `Dsp` (the BSP
delivers the burst of the channel it has been put on, or loses it; the ROM
posts a block, a bad one or none) and `Scruter` (the three prostheses, in the
order of the code, and the memory `deja` of each). `HuitDerniers`,
`SixDerniers`, `QuatreDerniers` are the frames the code finds by counting back
from the last burst; `TableTchF`, `TableFacchH`, `TableSacchH` are those of
45.002 and of the BTS's scheduler, by which the environment sends, so that the
two are checked against each other over 104-frame multiframes.

A burst is its frame, its channel and the key it was ciphered with; the decoder
gives the block when all its bursts are there in order and deciphered, nothing
otherwise, except for full-rate speech, whose 3-bit parity lets noise through.
`fini` is the block that ended in this frame, `sue` and `lus` are history.
Left out: mode 2 of the speech prosthesis, and switching them off by a setting.

### Emission

A frame is `L1Sync` (the firmware posts an access, a block, or neither, and may
leave the channel) and `Trame`: the ROM, then `Fin`, which applies in the order
of the code `Echeance` (in `tx_tsp_dater`, only when the frame interrupt is
raised), `Collecter` and `BlocPublie` (`tx_rom_publier`), `Capturer`
(`tsp_tx_lire`, `tx_tsp_publier`), `Scruter` (the RACH part of
`montant_scruter`, with `publier_rach` and `tx_rach_vers_air`) and `Pose`
(`tx_rom_pose`). `m`, `p` and `u` are the static state of `montant.c`, `pont.c`
and `tx_rom_publier`. Frame numbers are kept as ages, capped where the code only
compares them with a bound. `acces` and `blocs` are history: what was posted,
when it left, what was published of it.

Environment: the ROM transmits an access in the frame it is posted or in the
next one; a task stands in the page for any number of frames, but is gone
before the next access; the TI firmware may write the value one frame after the
task, and then `MONTANT_RACH_DIFFERE` is 1; the ROM leaves a residue in
`d_rach` (`montant.c:1642`); a block is coded in the frame after it was posted,
when its flag has been seen (the other order is in `Montee`); a block given up
leaves the ROM's pointer where it was, or outside the buffer. Left out: the frame
number read in the page and its correction (`tx_tsp_fn`, `rach_corr`), the
triggers by value alone (`MONTANT_RACH_SUR_DRACH`) and the BTS mode
(`tx_page_publier`).

### Rejeu

`reglage` holds two settings, fixed at the start: one SB command per set instead
of two (`unique`), and a replay that goes on after a true SB (`continuer`).
`sched` is the callback table with relative due dates (`dans`); `Appeler` runs
the first one that is due, through the operator of its callback (`FbCmd`,
`FbMuet` and `FbTrouve` for the two branches of `fbdet_resp`, `SbCmd`,
`SbResp`); `FinSync` ends `l1_sync` when nothing is due any more and `Trame` is
the DSP's frame. Frame numbers are taken modulo 51, which is where the FCCH and
the SCH are.

Environment: the DSP sees an FCCH where the cell has one and reports it within
`Latence` frames, or never; the frequency error and the outcome of the CRC are
free. What it reports is a TOA in symbols from the command, which may be off by one
of `Residus`, less than a frame either way, and `Ntdma` is what `fbdet_resp` makes of
it (`rejouer.c:321-323`): the division by 1250 truncates, so that a TOA one symbol
early counts a frame less, and -1 when the FCCH is in the frame of the command.
`vu` is history: the frame of the FCCH reported last, and whether its TOA was early.
`ViseSch` says when the SB commands miss the SCH for it: each of the three pitfalls
(`Ecueils`: one command only, an early TOA, the FCCH in frame 40) is made up for
alone, and no two are. What an SB decodes to is the frame of the SCH it was taken on: `MotsSb`
are the words of the page, `Vraie` their comparison with the frame noted by the
last command (`sbCmd`). `TypeBurst` is the frame mapping of `cellule_burst`, by
which the FCCH and the SCH are where they are. Samples, the AFC, the API pages,
the probes and `REJEU_SB_FORCE`, `REJEU_ARRET_1ER` are left out; the AFC only
changes the frequency error, which is free.

### Enreg

The bridge's side: `TickRecu` and `GoRecu` are the two looks of a frame
(`enreg_tick`, then the difference of the second window), `Reste` the rest of
the frame that ends with the snapshot, `EnregTick` the base, `Tch` the opening
and the closing of the channel (no file in between). The API RAM is two words:
one the ARM writes, and one the ROM answers in, as a function of the first.

The bridge writes the API RAM too, in two places that no difference sees: before
phase B, after the difference of the second window (`milieu`: `montant_capter_fu`,
`pont.c:1601`, which clears a flag with `MONTANT_CONSOMME_BLUD=1`, `montant.c:281`),
and between the ROM's last instruction and the snapshot (`fin`: the canned results
of `PONT_CAN_*`, 2591-2655; `montant_scruter`, 2675, with `B_SYNC_TCH_DL`,
`B_VOCODER_ON` and the downlink prostheses, `montant.c:1499`,
1520, 1199-1202, 1235-1238, 1364, 1424, and `d_rach` or `d_task_ra` with two options,
1721, 1735-1740; `tx_inject_apres`, 2676). The model lets it leave anything there, in
any frame (`PontEcrit`, which notes the words it has changed). What it writes after a snapshot (`apm_jamais_nul`, a RESET) is in the next
difference, like a write of the ARM.

The readers' side is functions of a file. `Lisible` is what a reader reads before
the first record it does not know, `Ticks` the table of the first pass, by the
ranks of the `T` records. `Rejeu` plays it tick by tick (`JouerTick`), and the
writes of a window are the last value each record of it gives a word
(`Appliquer`, `Poser`). `Comptes` is the account of `layer1_tester`, record by
record (`Compter`, `EcrireArm`, `LireRom`, and `Valeur`, its table of the most
frequent values). What is a loop in the C and depends on all the steps before is
a recursive function of the number of steps. `RejeuFidele` reads them on every file
the bridge can write, cut after each record.

`vecu`, `trou` and `derive` are history: what the ROM was played on, whether a window
is missing, and which words have been written since the base with no record of it, by
the bridge in one of its two places or by the ARM during the rest of a frame. While no
window is missing the replay is promised, and proved, in the words that such a write
has not reached (`Surs`): a word the bridge has written, or one the ROM may have
answered from it, is out for good. So a prosthesis that writes a block in the ROM's
answers, for the ARM to read, leaves what the ROM is given as it was, and the replay
with it; a bit that the bridge puts in what the ROM reads (`B_SYNC_TCH_DL`) does not,
and nothing is promised of the ROM after it. A word that the ROM both reads and
answers in counts, here, as one it reads. The I/Q deliveries are left out.

### Banc

`Trame` is `banc_trame`: the ROM reads the page if it takes the interrupt,
`L1Sync` runs the items of the bucket by priority, closes the scenario and
plans (`MframeSchedule`), the burst is deposited (`Deposer`), and the SCH given
again to a window armed since (`SbRetenter`). `Attendre`, `Lancer` and
`Conclure` are what a test does between frames; `Planter` is a child that dies.
The tests share the ring and differ by their sets (`FbSet`, `SbSet`, `NbSet`...)
and their verdicts.

`Executer` calls the items of a bucket in the order `Ordre` of their priorities
(`tdma_sched_execute`); items of equal priority are in any one order, and the sets
have none. `NbResp` clears the W page it has ended, of which `nb_resp` clears
`d_task_d` (`dsp_tester.c:431`), the only task an `nb` set writes.

The ROM is what the tests expect of it, with four ways to fail: it misses an
FCCH, arms its SB window late or never, or misses an interrupt. `hist` is
history: the calendar the ring stands for, the windows each SCH entered, the
uplink bursts, the interrupts. Left out: the tests `boot` and `fb-afc`, the
waveform (the TOA is the frame and a residue), A5, the TCH multiframe.

## 3. Runs

| run | asks | states | bounds and why they are enough |
|---|---|---|---|
| `pont` | the invariants, the refinement, every TICK and GO answered, a signal stops the server | 972 751 | two sessions (what one connection leaves to the next), two TICKs (a frame before and after a RESET; each with one phase or two), two RESETs (a second one while one is kept), a DCCH, a pause, two more messages in the socket; with the early DONE and without; the three values of `PONT_RX_MODE`, and `--iq` given or not, frame by frame |
| `multi` | counters, statuses, CPUs, return code, the pool, the end of the plan, `SIGCHLD` ignored or not | 141 267 | three jobs on two slots force a reuse of a slot; three pids a reuse of a pid; one foreign child |
| `canal` | osmocom-bb firmware with announced TCHs, and TI firmware under ciphering, where nobody announces | 76 463 | seven channels in a row on two SDCCH and two TCH timeslots: a call, a failed assignment, a missed release and a second call on other timeslots fit in; `Garde` = 2 stands for 102, the guard being compared, not computed with |
| `cle` | the file against the firmware's memory, the grace, the release | 910 763 | period 7 and grace 4 stand for 22 and 5: both are only compared with counters, a grace of 4 leaves room for a gap cut in two by a periodic poll, and gaps shorter than, equal to and longer than the grace fit in the two ciphered spells; two releases, one failure (of the open or of a write) |
| `montee` | one publication per posting, none after the ROM; the capture by contents | 1 231 719 | three postings: two equal in a row and another one, an empty frame among the contents; 2 tasks stand for 400; 12 frames for 60, more than the frames of two blocks, so that a content can be remembered across the block that follows it |
| `descente` | each whole block in its word, once | 919 315 | 120 frames: more than a 104-multiframe, whose SACCH block is the longest; starts that put a SACCH of each subchannel in reach for three pairs of timeslots, and one that crosses frame 0; three frames where something may change and three where a burst may be lost, chosen inside and between blocks; `Hyper` = 208 is two multiframes |
| `emission` | an access once, with its value and its frame; whole blocks | 2 449 648 | two accesses of the same value or not, five frames apart (the guard of 4 and the wait of 3 end before the next one); two blocks, the first one complete or given up at any burst. A third block (16 million states, same bounds otherwise) changes nothing |
| `rejeu` | an acquisition, with default settings and with the two others | 387 706 | the real table and windows (32 entries, 12 frames), all 51 frames; a TOA exact or one symbol early, the two sides of the division's edge; five AFC retries stand for 30 |
| `enreg` | the replay plays what was played; the account is even | 1 146 319 | three ticks of one or two phases and three writes, one for each window of a tick after the base, each of them of the ARM in one word or of the bridge in any words, before phase B or before the snapshot; an opening and a closing, so that a window is missing; a table of two, so that the third tick does not fit |
| `enreg_testeur` | the header of `layer1_tester.c` | violation | the same instance |
| `banc` | the ring, the SCH windows, the pages, the verdicts | 992 138 | the real ring (25 buckets of 8) and sets, nine tests of six tries; the 51-multiframe is crossed several times; three missed interrupts, with which the pages can come back in step one block late; T1 at the ends of each of the three fields it is cut into |
| `banc_nb` | the table of tests on `nb` | violation | two blocks |

Settings that the program reads once are variables that never change (`ici`,
`ignore`, `reglage`), so that one run covers them all.

`CHECK_DEADLOCK FALSE` in the runs of `Pont`, `Multi`, `Enreg` and `Banc`: these
programs end, or the bounds end their environment; a replay (`Rejeu`) ends with
its verdict and `Descente` with its last frame. `Canal`, `Cle`, `Montee` and
`Emission` never stop.

Properties, one by one, are stated in a comment above each definition; where one
is a conjunction, its parts are stated one by one too. Their common shape: they
relate the server to the ARM (`L1SyncExclusif`, `PauseHorsTrame`), the DSP to
messages sent long before (`ResetEntreTrames`, `BurstApresDemarrage`), the
parent's tables to the processes (`BilanFidele`), the BSP to the firmware it has
no direct view of (`MobileServi`, `Ts0Rendu`, `VeilleSurTs0`), what is published
to what was posted and transmitted (`ToutUneFois`, `AccesFidele`,
`EmissionEntiere`, `CleAJour`), what the firmware is given to what the network
sent (`BlocRendu`, `JamaisDeuxFois`), a file to the run it was written in
(`RejeuFidele`), or a verdict to what happened (`VerdictFonde`). Each comes with
an altered definition (the operators named `Action_Slip` in the modules) under
which its run finds it violated, so none of them holds by the shape of the model.

### Fairness

`Pont`: the server is weakly fair because each of its waits has a timeout
(200 ms in the main `poll`, and in the wait for the GO) and each frame an
instruction budget; the ARM says hello, reads its answers and finishes
`l1_sync` (QEMU keeps running or dies, and dying is an action of its own that
is never required); whoever sends `SIGUSR1` sends `SIGUSR2`. No fairness on
TICK, RESET, DCCH, departure or signals. The handshake `recv` has no timeout: a
client that never speaks blocks the server, which the fairness on `ArmBonjour`
excludes.

`Multi`: the parent runs, and every job ends, which `--delai` guarantees with an
alarm (without it a job may run for ever, and the plan with it).

`Rejeu`: the loop of `rejouer` runs, since a frame of the DSP has an instruction
budget. Nothing is asked of the DSP or the cell. The other modules have safety
properties only.

### Disagreements found

Shown by a run:

* `enreg_testeur`: `layer1_tester` leaves the reading of a record at the `P` that
  `enreg_base` writes before the first `T`, so that it plays no tick of it
  (`layer1_tester.c:427` against its header, 4-5). `BilanJuste` speaks of the file
  without its `P`, the format the header gives.
* `banc_nb`: `nb_resp` compares a block with that of frame `current - 5`; burst 0 is
  received at `current - 4`. The test fails whatever the ROM does
  (`dsp_tester.c:411` against 696), which is what
  `docs/CLAIMS-2026-10-04.md:69-71` reports of it.

Met while modelling, without a run of their own; the properties say what holds in
spite of them:

* When the ARM leaves during the wait for the GO, `servir` sets `g_stop` (2442) and
  the whole server returns, with no signal received; `pont.h:14-16` promises one
  connection after another. Any other departure (2303) only ends the session.
* `tch_tn` is only cleared by the bridge's file, so a second unannounced call is
  played on the timeslot of the first, against the comment at
  `montant.c:611-615`. `MobileServi` speaks of announced TCHs.
* `clair_en_attente` is not reset when the key comes back between two periodic
  polls, so a second gap within the period is cut short (`montant.c:1137` against
  1061-1064 and 1139); and the first poll consumes `g_kc_liberer` even if the mode is
  not clear yet, so that the grace survives the release (1124 against 1127 and
  1066-1067). `BasculesJustes` speaks of gaps a period apart and of releases
  announced after the mode was cleared.
* A firmware that asks for a sync by itself on its first page (`B_SYNC_TCH_UL`, or
  both) gets `B_SYNC_TCH_DL` again on the next page without it: `fait_tch` is only
  set in the other branch (`montant.c:1496-1497`), though its comment says once per
  TCH (1487).
* With `SIGCHLD` inherited ignored, `wait` ends in `ECHILD` and jobs that ran to
  their end are reported `-1`, "not run" (`multi.c:50`), with a return code of
  success. `BilanFidele` speaks of the return code where `wait` can tell.
* `montant_tn_dedie` still returns the timeslot of the old TCH after a release
  found from an FB or SB task, against `montant.h` and `montant.c:1009-1012`.
* By default the contents of a block captured without its flag are published
  again after 60 frames (`montant.c:466`), not never (94-96). `SansDoublon` has
  the time to live in it.
* Where blocks come without an uplink task, the first block of the next
  connection is dropped when it equals the last one (`montant.c:1757` against
  1751-1754). `PosePubliee` speaks of blocks whose task is seen.
* A prosthesis that is off does not note the last burst, so a block whose last
  burst comes in the frame of the release may be given again at the first look of
  the next channel of its kind; `JamaisDeuxFois` speaks of one channel.
* `prothese_sacchth_dl` deciphers when it has a key and has no second try in clear,
  though its comment has one (`montant.c:1380`). `prothese_facch_dl` never
  deciphers, and does not look whether the TCH is half-rate: with the 3-bit parity
  of speech it takes noise for a good frame one time in eight. `BlocRendu` says
  under which key each block is due.
* Counting back from a last burst near frame 0, `f--` goes to 2^32 - 1
  (`montant.c:1220`): a block across the end of the hyperframe is lost. `BlocRendu`
  asks for the bursts where the code looks for them.
* With `REJEU_SB_UNIQUE=1` the single command falls on frame 0 of the next
  multiframe when the FCCH was in frame 40 (`rejouer.c:267` against 265), and a
  frame early when the TOA is a symbol early. With two commands an early TOA is made
  up for by the second one, but not when the FCCH was in frame 40 as well (frames 50
  and 0). `ViseSch` names these cases.
* With two commands, 11 and 12 frames after the FCCH, `g_sb_cmd_fn` is the frame of
  the second one when either response is read, so that an SB taken at the first
  one, as it is unless the FCCH was in frame 40, is never qualified as true
  (`rejouer.c:538-543`).
* By default (`PONT_DONE_TOT=1`) the ARM runs while the DSP finishes the frame, and
  what it writes there is taken by the snapshot (`pont.c:2682`) and never recorded.
  So is what the bridge writes before the snapshot or before phase B: the blocks its
  prostheses put in `a_fd`, `a_cd` and `a_dd` (on by default, `montant.c:1528-1531`),
  and `B_SYNC_TCH_DL` on a page of a new channel, which the ROM then reads and a replay
  does not see.
  A channel that closes and opens again leaves a hole without a new base, a RESET is
  not recorded, and beyond 40000 ticks the last tick of the table takes the
  differences of all the others (`rejeu_banc.c:428-433`). `RejeuFidele` names these
  cases.
* In the acquisition test the SB is aimed with the truncated TOA where the FB tests
  round it, and one frame late (`dsp_tester.c:380-384`: command at `fn_offset + 11`,
  received at `+ 12`): it passes through the late window of `sb_retenter` only.
  An FCCH in frame 40 has no SCH 11 frames later at all.
  `VerdictFonde` leaves `fbsb` out; CLAIMS reports it as failed.
* `tdma_schedule_set` leaves part of a set planned when a bucket is full, and nobody
  reads its result; `AgendaTenu` would fail, but no test of the bench fills one: it is proved that none
  can (`BancToujoursTypes`), and what the code does with a full bucket is not checked. `t_idle`
  asks for 99 interrupts of the 99 there are. `t_sb` counts as wrong an SCH that
  `sb_retenter` gives to the second try.
* The filter that keeps a standing task from being taken every four frames
  (`montant.c:1669-1673`) is only on with `MONTANT_EFFACE_TASK_RA=0` written
  out, though the ROM keeps the task by default too (1727). `Repris` in
  `Emission` is that case.
* Two accesses in a row of the same value have the same script, so the second is
  not seen leaving (`tsp_tx.c:40`) and is dated by the deadline, one frame late
  when it left at once. `AccesFidele` says so.
* After a block given up at its first burst, the first burst of the next block
  leaves the pointer where it was (`pont.c:1264`), and the record of that block
  has the first burst and the L2 of the one before. `EmissionEntiere` excepts it.

## 4. Proofs

Ten modules are proved about, and every theorem holds for all values of the constants
that the `ASSUME` of its module allows; three take a bound more, named below with
what happens beyond it. Each argument has the same outline: an inductive
invariant `IInv` (in `Canal` and `Emission` one for each half of the state),
a lemma for `Init`, one for each action, and the property read off it. TLC
checked each strengthening as an invariant of the run before it was proved.

| module | theorem | property | for every |
|---|---|---|---|
| `PontBancProofs` | `TypeCorrecte` | `TypeOK` of `Pont` | number of frames, RESETs, DCCHs, connections, pauses, messages in the socket; values of `DoneTot`, `RxMode` and `Injecte` |
| | `Exclusion` | `L1SyncExclusif` | |
| | `PauseSurFrontiere` | `PauseHorsTrame` | |
| | `ResetsOrdonnes` | `ResetEntreTrames` | |
| | `BurstsFondes` | `BurstApresDemarrage` | |
| | `AlternanceImplementee` | `ImplementeAlternance` | |
| | `BancToujoursTypes` | `BancTypeOK` | set of tests, BSIC, epochs and residues, number of tries and of missed interrupts, size of the ring from 14 buckets of 2 on |
| | `AgendaToujoursTenu` | `AgendaTenu` | |
| | `FcchToujoursJuste` | first part of `VerdictFonde` | |
| | `ToujoursLeSien` | `ChacunLeSien` | |
| `MultiProofs` | `TypeCorrecte` | `TypeOK` | plan, number of CPUs, set of pids, foreign children |
| | `BilanToujoursFidele` | `BilanFidele` | |
| | `PoolImplemente` | `ImplementePool` | |
| `CanalProofs` | `TypeCorrecte` | `TypeOK` | set of timeslots, installation, guard, number of channels |
| | `Ts0RenduToujours` | `Ts0Rendu` | |
| | `MobileToujoursServi` | `MobileServi` | |
| | `VeilleToujoursSurTs0` | `VeilleSurTs0` | |
| `MontantProofs` | `CleTypeCorrecte` | `CleTypeOK` | period, grace, set of keys, releases, failures |
| | `CleToujoursAJour` | `CleAJour` | |
| | `BasculesToujoursJustes` | `BasculesJustes` | |
| | `TypeCorrecte` | `TypeOK` of `Montee` | contents, threshold, time to live, postings |
| | `UneSeuleFoisToujours` | `UneSeuleFois` | |
| | `ToutUneFoisToujours` | `ToutUneFois` | |
| `EmissionProofs` | `TypeCorrecte` | `TypeOK` | values of `d_rach`, guard, gap between accesses, number of accesses and blocks |
| | `BlocsToujoursEntiers` | `BlocEntier` | |
| | `AccesToujoursFidele` | `AccesFidele` | the same, the guard being of two frames or more |
| | `EmissionToujoursEntiere` | `EmissionEntiere` | the same |
| `RejeuProofs` | `TypeCorrecte` | `TypeOK` | budgets of retries, setting, latency of the DSP, errors of the TOA of less than a frame |
| | `ToujoursUnSeulJeu` | `ToujoursUnJeu` | |
| | `SchToujoursAuBonEndroit` | `SchAuBonEndroit` | the same, the latency being of nine frames or less |
| `DescenteProofs` | `TypeCorrecte` | `TypeOK` | start, timeslot, hyperframe, depth of the BSP, guard, length of the run, losses |
| | `BlocRenduUneFois` | `JamaisDeuxFois` | |
| | `BlocToujoursRendu` | `BlocRendu` | the same, the run being no longer than a hyperframe and the guard of one frame or more |
| `EnregProofs` | `TypeCorrecte` | `TypeOK` | number of ticks, writes and channels, values of a word, settings of `PONT_DONE_TOT`, sizes of the readers' tables |
| | `RejeuToujoursFidele` | `RejeuFidele` | |
| | `BilanToujoursJuste` | `BilanJuste` | |

**Pont.** None of the properties is inductive: with `pc = "phaseA"` and the ARM in
`l1sync`, say, nothing contradicts `TypeOK` until the next step breaks the
exclusion. What keeps such states away is that there is a single turn: at any
time either the ARM may act on it, or a message carries it in one of the two
queues, or the server holds it. `Position` says so, by cases on where the ARM
is: for each value of `arm` it names the values of `pc`, how many turn-carrying
messages (`Jetons`) are in `versPont` and of which type, and what is in
`versArm`. `IInv == TypeOK /\ OuverteEnSession /\ Position` is inductive, and
`L1SyncExclusif` and `PauseHorsTrame` follow from it at once. The refinement
is read off it too: each action maps to the step of `Alternance` that `Position`
allows, or to a stutter. `ResetEntreTrames` needs the order of the messages as
well: `FileOrdonnee` says that a TICK in the socket carries the number of the
RESET in force where it stands (`EnVigueur`): the last RESET queued before it or,
when there is none, the last one the server has read, applied or kept (`Lu`).
`BurstApresDemarrage` needs `BurstFonde`: from the TICK to the end of the frame
nothing clears `init_done`, since a RESET met on the way is kept; so the gate of the
UDP bursts, and that of the synthetic one before or after a frame, still says the
truth when it is used. The gate of the synthetic burst in the middle of the frame does
not, and the property excepts it.

**Multi.** `Processus` ties the parent's tables to the kernel's: a process that
runs a job holds the pid the parent wrote down, and its job holds a slot; unless
`SIGCHLD` is ignored, the other way round, so that the pid `wait` returns names
one job or none, reused or not. `Avant` orders the plan (what is past `prochaine`
is untouched), `Comptes` states the counters as cardinalities, and `Rapport` what
the return code is worth at the end. The cardinalities move by one through lemmas
on the sets they count.

**Canal.** `dedie_arme` is only the truth about the BSP between two records of the
tap. `Frontiere` says what an unread record may have moved behind `montant.c`'s
back, by its kind: `PONT_DCCH` has moved the BSP or was dropped, and the process
has not followed yet. `Ts0Rendu` follows because a frame reads the tap before the
tasks. `MobileServi` rests on `Suivi`: for each mode of the firmware, which
timeslot `montant.c` believes in, what it waits for, and what is still unread in
the two files.

**Cle.** That a value which has stood for a period is in the file follows from how
long `publier_kc` may let it wait. `Retard` says which of two counters measures
it: `clair` while a grace runs, the periodic `tick` otherwise. `Reprise` says when
`clair` may still hold polls of an earlier gap, the case `BasculesJustes` sets aside.

**Montee.** A flag is up for three or four frames of a block at most. What makes
one look enough is where it falls: for `a_fu` and `a_du` the look of the GO comes
before the ROM may take a posting (`Voie`); for `a_cu` the look of the end of the
first frame comes before the flag falls, and the next posting after it was seen
down (`Rafale`); for a ROM that takes `a_cu` before any look, the memory of the
contents is that of what left last (`Oubli`).

**Rejeu.** The table of callbacks is an FB set or an SB set, whole, planned a number
`n` of frames ago; what each callback still has to wait, the search of the DSP and
the age of its report all follow from `n`. `NtdmaDit` gives the frames `Ntdma` finds
for each frame of the FCCH and each error of the TOA, and the two SB commands are then
followed to their frames for each set of pitfalls. The bound of nine frames is the
exact one: beyond it a report can stand for the search before, and TLC finds
`SchAuBonEndroit` violated at a latency of 10. The run of `rejeu` has a latency of 3.

**Emission.** The two halves share only the end of a frame. The blocks:
`Pointeur` ties the bursts collected to the ROM's pointer (the mask is that of the
bursts before it), `EnVoie` the block in `a_cu` to the one being sent, and
`BlocsRendus` says what has been published. The accesses: the invariant tells by
the frames since the posting (`Passees`) where the last access can be - before the
detection (`Pose0`), waiting for its value (`m.attente`), waiting for its
transmission (`Pendant`), or gone (`Suivis`) - and that no earlier one is left but
in the frame that replaces it. The operators that act on a pair <<pont.c,
history>> each have a lemma for what they keep of `Suite`, the part of the
invariant that holds between two of them. The code's guard is 4 frames. With a
guard of one frame a late value is an edge of its own and the access is detected
twice (TLC shows it at `GardeTrames = 1`), so the bound of two is the exact one.

**Descente.** The base of it is arithmetic: the frames that `HuitDerniers`,
`SixDerniers` and `QuatreDerniers` find by counting back from the last burst are
those of the tables by which the network sends (`BlocTchFDit`, `BlocFacchHDit`,
`BlocSacchHDit`), for every frame of every hyperframe; `RemonterDonne` is the fact
on counting back that the three share. `JamaisDeuxFois` then follows from `Suivi`
(from the first burst of a channel on, the flag of the dedicated mode is up, so the
prostheses are on) and `Notes` (one that was on for the last burst has noted it),
with `Identites`: no channel comes back under the same id. `BlocRendu` needs what
could hide a whole block. `Passe` says that no burst kept and no note is of a frame
to come, so that nothing recorded is mistaken for this frame. `Chiffre` ties the key
`suivre_cle_tchh` keeps to the one the network ciphers with, also after a handover
from a TCH/H to a TCH/H with a key left over, which the three moments of the run
cannot reach. `Trame` says that what the ROM has posted is the block of this frame.
The bounds are needed: with a run longer than the hyperframe TLC finds a block
refused because of a burst of a hyperframe earlier under the same frame number, and
with a guard of 0 the prosthesis of the FACCH is never on. The code's guard is 102
frames, and a hyperframe lasts three and a half hours.

**Enreg.** The invariant is about the file, and the readers are functions of it.
`Histoire` says what each record means to a reader: there is a series of phases `W`
such that phase `2t - 1 + w` starts on what the record of window `w` in tick `t` writes
over what the ROM has left of the phase before, and on that alone when there is no
record. `Accord` says that `W` is `vecu`, the series lived, in the words of `Surs`.
`W` must be a series of its own, and not `vecu`: once a write has escaped the records
the replay goes on from something else, and only its words out of reach stay right.
They do because the ROM answers from the command word, and `Surs` is empty when that
one was reached. `Suivi` says where the bridge is with respect to the last phase, in
those words: its snapshot, or the API RAM itself while the rest of a frame is played.
That is inductive as long as no window is missing. The replay is then right phase by phase, by induction on the ticks of the
table: what lies between two `T` is what the invariant says of that tick, and a file
cut at `n` has the same table but for its last entry. The account is even by induction
on the records. The hard part is the table of `NVal` values: what is left in it are
the writes that remain when groups of `NVal + 1` writes of different values are taken
away, `M` being the writes taken and `d` the number of groups (`Compensee`), so that a
value given more often than once in `NVal + 1` writes cannot all be in `M`.

Induction over the data of a file is within reach of the prover, by the least
counterexample (`PlusPetit`, from `WFMin` and `NatLessThanWellFounded`), and a recursive
function can be unfolded once it is shown that a function with its equation exists
(`SuiteExiste`).

**Banc.** The ring is right only if each callback plans what it should, and what a
callback does depends on the items left in the ring and on what the test has noted.
`BancInv` closes the circle. `Anneau` says that the ring is what is left, from frame
`fn` on, of ONE set begun in frame `d` (or is empty), each item in the bucket of its
frame and nowhere else; `Phase` says which set and how much of it is left for each
place the test can be in - waiting for its frame, playing a search of 12 frames, an
SB set, a block - and what the multiframe item will plan next. Two facts carry it:
a set of at most 14 frames put in an empty ring of at least 14 buckets comes out item
by item (`Tient`, with the arithmetic of a ring read modulo `Seaux`), and a reset by
`fbdet_resp` empties what `Anneau` says is left. The calendar of `AgendaTenu` is then
the same set seen by date. `FcchToujoursJuste` needs
`Recherche` and `Reponse` as well: the ROM counts the symbols of its TOA from frame
`d + 1`, and `une_fb` reads it two frames after the FCCH, so that the truncated or
rounded TOA gives back the frame whatever the residue.

`ToujoursLeSien` adds `SienInv` to it, about the pages of a test of blocks. `Tour` says
that the frame is the `g`th of a block (6 outside of one), which the calendar gives
away (`Rang`: the last `nb_resp` of the block is `5 - g` frames ahead), and what the
four pages hold then (`Pages`). Without a missed interrupt the R page is that of the
command due and the R number has the parity of `g` (`Nette`); the W page that is armed
is that of the frame before, missed or not, because `dsp_end_scenario` does not look at
the ROM (`Armee`). In between, an R page whose number is in step with the burst holds
a page of this block or of an older one, and how it can still stand there has a price in
missed interrupts (`Feuille`, `Dette`): none to two for a page of the block under way,
one or two between two blocks, one to three for a page of an older block, and always
three when the response that could take it is due. That is what makes two the last
number of missed interrupts for which a response is exact, and
`FeuilleReste`, `FeuilleEcrite`, `FeuilleLue` are its three steps: a page that stands,
one the ROM writes, one the ARM reads. For the uplink it is enough that the
armed page, if it has a burst, is one `tx_cmd` noted for this frame (`Montant`).

What the proofs changed in the models. The readers of `Enreg` were folds of the
community modules, whose definition by a `CHOOSE` over functions gives the provers
nothing to unfold; they are now recursive functions and ranks, with the same states. In `Descente`, the ROM posted a block if the
BSP had a burst of this frame number, which an old one satisfies after a
hyperframe; it now does if the burst of this frame was delivered (`Rom`).
Two properties had been stated with a
premise that the bounds of their run made true, and strengthening the invariant
showed it. In `Cle`, the history that tells an isolated gap counted polls since
the last one, where what matters is how long the key was back (`retour`): false
for a grace of 4 or more, and the run had 3. In `Montee`, the content of a block
captured without its flag is also forgotten by another block, not only by a
release (`rompu`): false for a time to live of more than two blocks, and the run
had 4 where the code has 60. Both premises now say what the code does, and the
two runs have bounds beyond the point where the old ones failed. In `Banc`,
`ChacunLeSien` said that a response always reads the page of its own command. With
three interrupts missed it does not: `nb_resp` (`dsp_tester.c:406`) knows a page by its
task and its burst number, and after one interrupt missed in a block and two in the
next the page of an earlier block can stand where that of this one is due. The
property now says what holds then (the page is of the same burst, 51 frames or a
multiple before) and asks for exactness up to two; the run has three.

Only model-checked, and why:

* liveness (`ToutRepondu`, `SignalArrete`, `Termine`, `AbandonneSansFb`), which the
  prover does not do;
* of `Banc`: `SchJuste`, which is the decoding of T1, T2, T3 by the arithmetic of the
  code (`decode_sb`, `gsmtime2fn`) over a hyperframe, with nested remainders the
  solver does not do; `VerdictFonde` but for the FCCH: that a healthy ROM passes counts
  tries and verdicts to the end of a test. The invariant it would start from is `BancInv`.

## 5. Plan

The order of the modules was that of their weight in the program: the lock step
first (`Pont`, with its proofs), then the pool, the dedicated channel, the key,
the uplink blocks, the replay, the transmission, the meeting of `Pont` and
`Canal` over `PONT_DCCH`, the downlink prostheses, the recorder and its readers,
and the bench.

Modules to come, as parts of the runs above or in place of one of them:

1. The frame number of a burst (`tx_tsp_dater`, `tx_tsp_fn`, `rach_corr`) on the
   hyperframe, in `Emission`.
2. A ring publisher (`ring_publier`, the voice and block rings) against a reader
   in another process, one `pwrite` at a time.
3. The trace filter: its thread, its pipe, a `fdopen` that fails, its removal
   against the end of the process.
4. The transmit page of the trx firmware (`tx_page_publier`).

## 6. Not modelled

`main.c` and `pcb-minimal.c` (no state); `isa_test.c`, `sacch_tf_decode.c` and the
scripts (sequential, or shell); the encoders of `cellule.c` (pure, and mostly calls
to libosmocoding); the probes and traces of `pont.c` and `rejouer.c`, whose only
effect is a line of text; and the DSP core, the BSP, QEMU, the firmware and the
air bridge, which are not in the repository and appear as environment actions.
