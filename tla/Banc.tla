-------------------------------- MODULE Banc --------------------------------
(***************************************************************************)
(* The bench of the DSP ROM (tools/dsp_banc_commun.c, tools/dsp_tester.c): *)
(* a layer 1 copied from osmocom-bb drives the ROM frame by frame, with a  *)
(* synthetic cell.  In each frame the ROM first reads the W page the ARM   *)
(* closed in the frame before (phase A), the ARM plays l1_sync, which runs *)
(* the items the TDMA scheduler has for this frame, then the burst of the  *)
(* frame is deposited (phase B).                                           *)
(*                                                                         *)
(* Each test runs in a child of its own, from frame 0; here the test is    *)
(* chosen before the start.  The ROM is what the tests expect of it: it    *)
(* answers in the R page of the number of the W page, it may miss an FCCH, *)
(* arm its SB window late or not at all, or miss a frame interrupt.  Frame *)
(* numbers stay far from the end of the hyperframe.                        *)
(***************************************************************************)
EXTENDS Integers, Sequences, FiniteSets

CONSTANTS
  Tests,     \* the tests of TESTS that are run
  Bsic,      \* banc_bsic
  Seaux,     \* TDMASCHED_NUM_FRAMES (25)
  Places,    \* TDMASCHED_NUM_CB (8)
  Residus,   \* distance of the TOA to the start of its frame, in symbols
  Epoques,   \* values of T1 the SCH is checked for
  Essais,    \* bound: tries or blocks of a test (3 to 20)
  MaxPerdus  \* bound: frame interrupts the ROM misses

ASSUME BancAssumption ==
  /\ Tests \subseteq {"fb", "fbpos", "sb", "fbsb", "nb", "tx", "rach", "chk", "idle"}
  /\ Bsic \in 0 .. 63 /\ Epoques \subseteq 0 .. 2047 /\ Residus \subseteq -64 .. 64
  /\ {Seaux, Places, Essais} \subseteq Nat \ {0} /\ MaxPerdus \in Nat
  /\ Seaux >= 14 /\ Places >= 2   \* room for the longest set, and the two items of a block

VARIABLES
  fn,     \* banc_suivant.fn: the frame of the next banc_trame
  api,    \* dsp_api: the pages, r_page_used, d_dsp_page, g_irq_armee
  tdma,   \* g_bucket, g_cur_bucket, the multiframe item
  rom,    \* the ROM: FB search, a_cd
  sch,    \* g_sch, the last SCH deposited
  test,   \* the test: where it is, and what its callbacks have noted
  hist    \* history: the calendar, the windows, the FCCH, the uplink, the interrupts

bancVars == <<fn, api, tdma, rom, sch, test, hist>>

Aucun == -1

-----------------------------------------------------------------------------
(* The synthetic cell: banc_cellule, banc_sb_info and its inverse.         *)

Type(f) ==
  LET p == f % 51
  IN  CASE p % 10 = 0 /\ p <= 40 -> "F"
        [] p % 10 = 1 /\ p <= 41 -> "S"
        [] OTHER -> "N"

\* banc_sb_info, as the word a_sch[3], a_sch[4] the ROM makes of it
SbInfo(f, bsic) ==
  LET t1 == f \div 1326
      t2 == f % 26
      t3 == f % 51
      t3p == IF t3 = 0 THEN 0 ELSE (t3 - 1) \div 10
      o0 == bsic * 4 + ((t1 \div 512) % 4)
      o1 == (t1 \div 2) % 256
      o2 == (t1 % 2) * 128 + t2 * 4 + (t3p \div 2)
      o3 == t3p % 2
  IN  o0 + 256 * o1 + 65536 * o2 + 16777216 * o3

\* gsmtime2fn
Gsmtime2fn(t1, t2, t3) == 51 * 26 * t1 + 51 * ((t3 - t2 + 26 * 3) % 26) + t3

\* decode_sb
DecoderSb(sb) ==
  LET t1 == ((sb \div 8388608) % 2) + 2 * ((sb \div 256) % 256) + 512 * (sb % 4)
      t2 == (sb \div 262144) % 32
      t3p == ((sb \div 16777216) % 2) + 2 * ((sb \div 65536) % 4)
  IN  [fn |-> Gsmtime2fn(t1, t2, t3p * 10 + 1), bsic |-> (sb \div 4) % 64]

-----------------------------------------------------------------------------
(* The scheduled sets: for each frame, its items.  flags is TDMA_IFLG_DSP. *)

Item(cb, id, prio, flags) == [cb |-> cb, id |-> id, prio |-> prio, flags |-> flags]
Cmd(cb, id) == Item(cb, id, 0, TRUE)
CmdUl(cb, id) == Item(cb, id, 3, TRUE)
Resp(cb, id) == Item(cb, id, -4, FALSE)

FbSet == <<<<Cmd("fb_cmd", 0)>>, <<>>>> \o [k \in 1 .. 12 |-> <<Resp("fb_resp", k)>>]

SbSet == <<<<Cmd("sb_cmd", 1)>>, <<Cmd("sb_cmd", 2)>>, <<>>, <<Resp("sb_resp", 1)>>, <<Resp("sb_resp", 2)>>>>

BlocSet(cmds, resp) ==
  <<<<cmds[1]>>, <<cmds[2]>>, <<Resp(resp, 0), cmds[3]>>, <<Resp(resp, 1), cmds[4]>>,
    <<Resp(resp, 2)>>, <<Resp(resp, 3)>>>>

NbSet == BlocSet([k \in 1 .. 4 |-> Cmd("nb_cmd", k - 1)], "nb_resp")
NbSetUl == BlocSet([k \in 1 .. 4 |-> CmdUl("tx_cmd", k - 1)], "tx_resp")
RachSet == <<<<CmdUl("rach_cmd", 0)>>, <<>>, <<Resp("rach_resp", 0)>>>>
ChkSet == <<<<Cmd("chk_cmd", 0)>>>>

-----------------------------------------------------------------------------
(* layer1/tdma_sched.c.  The calendar of hist says what it stands for.     *)

Seau(t, off) == (t.cur + off) % Seaux

\* tdma_schedule_set: the items of a set from a bucket on, until one is full.
TdmaScheduleSet(t, off, set) ==
  LET places == {p \in (1 .. Len(set)) \X (1 .. Places) : p[2] <= Len(set[p[1]])}
      b(j) == Seau(t, off + j - 1)
      refus == {p \in places : Len(t.seau[b(p[1])]) + p[2] > Places}
      avant(j) == {i \in DOMAIN set[j] : \A p \in refus : j < p[1] \/ (j = p[1] /\ i < p[2])}
  IN  [t EXCEPT !.seau = [k \in 0 .. Seaux - 1 |->
         LET j == ((k - t.cur - off) % Seaux) + 1
         IN  IF j > Len(set) THEN t.seau[k] ELSE t.seau[k] \o SubSeq(set[j], 1, Cardinality(avant(j)))]]

Dates(debut, set) ==
  UNION {{[date |-> debut + j - 1, item |-> set[j][i]] : i \in DOMAIN set[j]} : j \in DOMAIN set}

\* The buckets are left as they are.
TdmaSchedReset_Rien(t) == t

\* tdma_sched_reset: all the buckets but the current one.
TdmaSchedReset(t) == [t EXCEPT !.seau = [b \in 0 .. Seaux - 1 |-> IF b = t.cur THEN t.seau[b] ELSE <<>>]]

\* tdma_sched_execute: the items of the current bucket, the lowest priority number
\* first; the bucket is then empty.
Ordre(seau) ==
  LET seq == CHOOSE p \in [DOMAIN seau -> DOMAIN seau] :
               \A i, j \in DOMAIN seau : i < j => p[i] # p[j] /\ seau[p[i]].prio <= seau[p[j]].prio
  IN  [i \in DOMAIN seau |-> seau[seq[i]]]

Vider(t) == [t EXCEPT !.seau = [b \in 0 .. Seaux - 1 |-> IF b = t.cur THEN <<>> ELSE t.seau[b]]]

\* tdma_sched_advance
Avancer(t) == [t EXCEPT !.cur = Seau(t, 1)]

-----------------------------------------------------------------------------
(* layer1/sync.c and the callbacks of the tests, on the state of the ARM:  *)
(* e has the fields api, tdma, rom, test, hist.                            *)

PageW(tache, id, date) == [tache |-> tache, id |-> id, date |-> date]
PageR(tache, id, date, sb) == [tache |-> tache, id |-> id, date |-> date, sb |-> sb]
VideW == PageW("rien", 0, Aucun)
\* An R page that has been read says CRC bad; at the start it is all zeros, CRC good.
VideR == PageR("rien", 0, Aucun, Aucun)
ZeroR == PageR("rien", 0, Aucun, 0)

\* l1s_reset_hw
ResetHw(a) == [a EXCEPT !.w = 0, !.r = 0, !.used = FALSE, !.page = 0]

\* The W page number is counted up.
DspEndScenario_Compte(a) == [a EXCEPT !.page = a.w, !.w = a.w + 1, !.irq = TRUE]

\* dsp_end_scenario
DspEndScenario(a) == [a EXCEPT !.page = a.w, !.w = 1 - a.w, !.irq = TRUE]

\* A command callback: its task in the W page.
Poster(e, tache, id) == [e EXCEPT !.api.W[e.api.w] = PageW(tache, id, fn)]

Rendre(e) == [e EXCEPT !.api.used = TRUE]

\* fbdet_resp: the first response that finds the FB takes its result and cancels the rest.
FbdetResp(e, essai) ==
  IF e.test.det # 0 THEN e
  ELSE IF ~e.rom.det THEN [e EXCEPT !.test.det = IF essai = 12 THEN -1 ELSE 0]
  ELSE [e EXCEPT !.api = ResetHw(@), !.tdma = TdmaSchedReset(@), !.rom.det = FALSE,
                 !.hist.agenda = {x \in @ : x.date = fn},
                 !.test.det = 1, !.test.debut = fn - essai, !.test.toa = e.rom.toa]

\* sbdet_resp
SbdetResp(e, essai) == [Rendre(e) EXCEPT !.test.sb[essai] = e.api.R[e.api.r].sb]

\* The page is read without a look at its task and its burst.
NbResp_Aveugle(e, id) ==
  [Rendre(e) EXCEPT !.hist.accepte = [resp |-> fn, cmd |-> e.api.R[e.api.r].date]]

\* nb_resp: an empty page or another burst leaves r_page where it is.
NbResp(e, id) ==
  LET p == e.api.R[e.api.r]
      lu == [Rendre(e) EXCEPT !.hist.accepte = [resp |-> fn, cmd |-> p.date]]
      egal == \A i \in 0 .. 3 : e.rom.acd[i] = fn - 5 + i
  IN  IF p.tache # "nb" \/ p.id # id THEN e
      ELSE IF id < 3 THEN lu
      ELSE [lu EXCEPT !.test.blocs = @ + 1, !.test.justes = IF egal THEN @ + 1 ELSE @, !.api.W[e.api.w] = VideW]

\* tx_cmd: the frame the burst is meant for is noted, the blocks are counted.
TxCmd(e, id) ==
  [Poster(e, "tx", id) EXCEPT !.test.fnCmd = @ \cup {[id |-> id, fn |-> fn + 1]},
                              !.test.blocs = IF id = 0 THEN @ + 1 ELSE @]

Appeler(e, it) ==
  CASE it.cb = "fb_cmd" -> Poster(e, "fb", 0)
    [] it.cb = "fb_resp" -> FbdetResp(e, it.id)
    [] it.cb = "sb_cmd" -> Poster(e, "sb", it.id)
    [] it.cb = "sb_resp" -> SbdetResp(e, it.id)
    [] it.cb = "nb_cmd" -> Poster(e, "nb", it.id)
    [] it.cb = "nb_resp" -> NbResp(e, it.id)
    [] it.cb = "tx_cmd" -> TxCmd(e, it.id)
    [] it.cb = "rach_cmd" -> Poster(e, "rach", 0)
    [] it.cb = "chk_cmd" -> Poster(e, "chk", 0)
    [] it.cb \in {"tx_resp", "rach_resp"} -> Rendre(e)

Executer(e, items) ==
  LET apres[i \in 0 .. Len(items)] == IF i = 0 THEN e ELSE Appeler(apres[i - 1], items[i])
  IN  apres[Len(items)]

\* tdma_schedule_set, and what it adds to the calendar; debut is the frame of the current bucket.
Programmer(e, debut, off, set) ==
  [e EXCEPT !.tdma = TdmaScheduleSet(@, off, set), !.hist.agenda = @ \cup Dates(debut + off, set)]

\* mframe_schedule: two frames ahead.
MframeSchedule(e) ==
  IF e.tdma.mf.set = <<>> \/ (fn + 2) % 51 # e.tdma.mf.frame THEN e
  ELSE Programmer(e, fn, 1, e.tdma.mf.set)

\* l1_sync of frame fn.
L1Sync(e0) ==
  LET seau == e0.tdma.seau[e0.tdma.cur]
      drapeaux == (\E i \in DOMAIN seau : seau[i].flags) \/ e0.test.nom = "idle"
      e1 == Executer([e0 EXCEPT !.api.used = FALSE, !.api.W[e0.api.w] = VideW], Ordre(seau))
      e2 == IF e1.api.used THEN [e1 EXCEPT !.api.R[e1.api.r] = VideR, !.api.r = 1 - e1.api.r] ELSE e1
      e3 == [e2 EXCEPT !.api = IF drapeaux THEN DspEndScenario(@) ELSE @, !.tdma = Vider(@)]
  IN  [MframeSchedule(e3) EXCEPT !.tdma = Avancer(@), !.hist.agenda = {x \in @ : x.date > fn}]

-----------------------------------------------------------------------------
(* The radio channel, and the ROM in a frame.                              *)

\* The window of a command: open before the burst of the frame, after it, or not at all.
Fenetres(cmd) == CASE cmd.tache = "sb" -> {"tot", "tard", "jamais"}
                   [] cmd.tache = "nb" -> {"tot"}
                   [] OTHER -> {"jamais"}

\* deposer: the SCH is remembered, with whether an SB window was open.
Deposer(cmd, fen) ==
  IF Type(fn) # "S" THEN sch
  ELSE [fn |-> fn, valide |-> TRUE, livre |-> cmd.tache = "sb" /\ fen = "tot"]

\* An SCH that has been in a window may be given again.
SbRetenter_Encore(s, cmd, fen) == s.valide /\ cmd.tache = "sb" /\ fen # "jamais" /\ fn - s.fn <= 1

\* sb_retenter: in a window open since, the SCH of this frame or of the one before.
SbRetenter(s, cmd, fen) == s.valide /\ ~s.livre /\ cmd.tache = "sb" /\ fen = "tard" /\ fn - s.fn <= 1

\* g_sch at the end of the frame.
SchApres(s, cmd, fen) ==
  IF s.valide /\ ~s.livre /\ fn - s.fn > 1 THEN [s EXCEPT !.valide = FALSE]
  ELSE IF SbRetenter(s, cmd, fen) THEN [s EXCEPT !.livre = TRUE] ELSE s

\* What the window of the frame has been given: the frame of an SCH, or nothing.
DansFenetre(s, cmd, fen) ==
  IF SbRetenter(s, cmd, fen) THEN s.fn
  ELSE IF cmd.tache = "sb" /\ fen = "tot" /\ Type(fn) = "S" THEN fn ELSE Aucun

\* The ROM when the frame is over: the search (twelve frames, or until it sees an FCCH), the R page, and a_cd.
Rom(e, cmd, page, recu, fcch, residu) ==
  LET debut == e.rom.debut
      rx == IF cmd.tache = "nb" THEN [e.rom.rx EXCEPT ![cmd.id] = fn] ELSE e.rom.rx
      rep == PageR(cmd.tache, cmd.id, cmd.date, IF recu = Aucun THEN Aucun ELSE SbInfo(recu, Bsic))
  IN  [e EXCEPT !.rom = [det |-> e.rom.det \/ fcch,
                         toa |-> IF fcch THEN 23 + 1250 * (fn - debut) + residu ELSE e.rom.toa,
                         debut |-> IF debut # Aucun /\ (fcch \/ fn - debut >= 11) THEN Aucun ELSE debut,
                         rx |-> rx,
                         acd |-> IF cmd.tache = "nb" /\ cmd.id = 3 THEN rx ELSE e.rom.acd],
                !.api.R = IF cmd.tache \in {"sb", "nb", "tx", "rach", "chk"} THEN [@ EXCEPT ![page] = rep] ELSE @,
                !.hist.fenetres = IF recu = Aucun THEN @ ELSE @ \cup {[sch |-> recu, le |-> fn]},
                !.hist.fcch = IF fcch THEN fn ELSE @]

\* banc_ul_capturer, banc_tsp_capturer: the bursts the ROM has sent by the end of the frame.
BancUlCapturer(h, cmd) ==
  IF cmd.tache \in {"tx", "rach"} THEN [h EXCEPT !.emis = @ \cup {[id |-> cmd.id, fn |-> fn]}] ELSE h

\* The try is an une_fb.
CherchentFb(t) == t.nom \in {"fb", "fbpos"} \/ (t.nom = "fbsb" /\ t.essai < 2)

\* The loops of une_fb, nb_lecture and ul_bloc end before their last frame.
Arret(t) ==
  /\ t.pas = "joue"
  /\ \/ t.nom \in {"fb", "fbpos", "fbsb"} /\ CherchentFb(t) /\ t.det # 0
     \/ t.nom \in {"nb", "tx"} /\ t.blocs >= Essais

\* banc_trame.  The armed interrupt is spent whether the ROM takes it or not.
Trame ==
  /\ test.reste > 0
  /\ \E pris \in BOOLEAN :
       LET cmd == IF api.irq /\ pris THEN api.W[api.page] ELSE VideW
           a == [api |-> [api EXCEPT !.irq = FALSE], tdma |-> tdma,
                 rom |-> [rom EXCEPT !.debut = IF cmd.tache = "fb" THEN fn ELSE @],
                 test |-> test,
                 hist |-> [hist EXCEPT !.perdus = IF api.irq /\ ~pris THEN @ + 1 ELSE @,
                                       !.its = IF api.irq /\ pris THEN @ + 1 ELSE @]]
           b == L1Sync(a)
       IN  /\ ~pris => api.irq /\ hist.perdus < MaxPerdus
           /\ \E fen \in Fenetres(cmd), fcch \in {FALSE, a.rom.debut # Aucun /\ Type(fn) = "F"}, residu \in Residus :
                LET s == Deposer(cmd, fen)
                    c == Rom(b, cmd, api.page, DansFenetre(s, cmd, fen), fcch, residu)
                IN  /\ sch' = SchApres(s, cmd, fen)
                    /\ api' = c.api /\ tdma' = c.tdma /\ rom' = c.rom
                    /\ hist' = [BancUlCapturer(c.hist, cmd) EXCEPT !.rates = @ + IF (a.rom.debut # Aucun /\ Type(fn) = "F" /\ ~fcch)
                                                               \/ (cmd.tache = "sb" /\ cmd.id = 1 /\ fen # "tot")
                                                            THEN 1 ELSE 0]
                    /\ test' = [c.test EXCEPT !.reste = IF Arret(c.test) THEN 0 ELSE @ - 1]
  /\ fn' = fn + 1

-----------------------------------------------------------------------------
(* dsp_tester.c: what a test does between two frames.                      *)

\* The child lancer forks: the DSP booted (banc_dsp_power_on), the frame 0.
BancInit ==
  /\ fn = 0
  /\ api = [w |-> 0, r |-> 0, used |-> FALSE, page |-> 0, irq |-> FALSE,
            W |-> [p \in 0 .. 1 |-> VideW], R |-> [p \in 0 .. 1 |-> ZeroR]]
  /\ tdma = [cur |-> 0, seau |-> [b \in 0 .. Seaux - 1 |-> <<>>], mf |-> [set |-> <<>>, frame |-> 0]]
  /\ rom = [det |-> FALSE, toa |-> 0, debut |-> Aucun, rx |-> [i \in 0 .. 3 |-> Aucun], acd |-> [i \in 0 .. 3 |-> Aucun]]
  /\ sch = [fn |-> 0, valide |-> FALSE, livre |-> FALSE]
  /\ \E nom \in Tests :
       test = [nom |-> nom, pas |-> "debut", essai |-> 0, reste |-> 0, det |-> 0, debut |-> 0, toa |-> 0,
               vise |-> Aucun, deduit |-> Aucun, sb |-> <<Aucun, Aucun>>, blocs |-> 0, justes |-> 0, faux |-> 0,
               fnCmd |-> {}, verdict |-> "aucun"]
  /\ hist = [agenda |-> {}, fenetres |-> {}, fcch |-> Aucun, emis |-> {}, accepte |-> [resp |-> 2, cmd |-> 0],
             perdus |-> 0, its |-> 0, rates |-> 0]

\* The next SCH from two frames ahead on (t_sb).
ProchainSch == CHOOSE s \in fn + 2 .. fn + 13 : Type(s) = "S" /\ \A x \in fn + 2 .. s - 1 : Type(x) # "S"

\* The frames run before a try: banc_courir, or up to a frame.
Avant ==
  CASE test.nom = "fb" -> 3 + 7 * test.essai
    [] test.nom = "fbpos" -> (fn \div 51 + 2) * 51 + 9 - fn
    [] test.nom = "fbsb" /\ test.essai = 0 -> 7
    [] test.nom = "sb" -> ProchainSch - 2 - fn
    [] test.nom = "rach" -> 4
    [] OTHER -> 0

\* The frames run before a try, and the SCH a try of t_sb aims at.
Attendre ==
  /\ test.pas = "debut"
  /\ test' = [test EXCEPT !.pas = "attend", !.reste = Avant, !.vise = IF test.nom = "sb" THEN ProchainSch ELSE @]
  /\ UNCHANGED <<fn, api, tdma, rom, sch, hist>>

\* fn_offset of t_fbsb: the frame the TOA is in.
FnOffset == test.debut + (IF test.toa < 23 THEN -1 ELSE (test.toa - 23) \div 1250)

\* The TOA is not rounded.
Fcch_Tronque == FnOffset

\* The FCCH une_fb deduces: the nearest frame (lrint).
Fcch == test.debut + (test.toa - 23 + 625) \div 1250

\* A set outside of l1_sync: 0 is the next one.
Jouer(off, set, n) ==
  LET e == Programmer([tdma |-> tdma, hist |-> hist], fn, off, set)
  IN  tdma' = e.tdma /\ hist' = e.hist /\ test' = [test EXCEPT !.pas = "joue", !.reste = n, !.det = 0, !.deduit = Aucun,
                                                               !.sb = <<Aucun, Aucun>>]

JouerSb ==
  LET delay == IF FnOffset + 11 - fn - 1 < 0 THEN 0 ELSE FnOffset + 11 - fn - 1
      e == Programmer([tdma |-> tdma, hist |-> hist], fn, delay + 1, SbSet)
  IN  tdma' = e.tdma /\ hist' = e.hist /\ test' = [test EXCEPT !.pas = "joue", !.reste = delay + 8, !.vise = FnOffset + 11]

\* banc_mframe_ajouter
JouerBlocs(set, frame) ==
  /\ tdma' = [tdma EXCEPT !.mf = [set |-> set, frame |-> frame]]
  /\ test' = [test EXCEPT !.pas = "joue", !.reste = 51 * (Essais + 1) + 10]
  /\ UNCHANGED hist

Lancer ==
  /\ test.pas = "attend" /\ test.reste = 0
  /\ CASE CherchentFb(test) -> Jouer(0, FbSet, 15)
       [] test.nom = "sb" -> Jouer(1, SbSet, 6)
       [] test.nom = "fbsb" /\ test.essai = 2 -> JouerSb
       [] test.nom = "nb" -> JouerBlocs(NbSet, 2)
       [] test.nom = "tx" -> JouerBlocs(NbSetUl, 22 + 15)
       [] test.nom = "rach" -> Jouer(0, RachSet, 6)
       [] test.nom = "chk" -> Jouer(1, ChkSet, 6)
       [] test.nom = "idle" -> Jouer(0, <<>>, 100)
  /\ UNCHANGED <<fn, api, rom, sch>>

\* The next try, or the verdict.
Suite(t, dernier, ok) ==
  IF dernier THEN [t EXCEPT !.pas = "fini", !.verdict = IF ok THEN "PASS" ELSE "FAIL"]
  ELSE [t EXCEPT !.pas = "debut", !.essai = @ + 1]

\* t_fb_mode: every answer is an FCCH frame of the search; t_fb_pos: one is.
ConclureFb ==
  /\ CherchentFb(test)
  /\ LET trouve == test.det = 1
         juste == trouve /\ Fcch >= test.debut /\ Type(Fcch) = "F"
         t == [test EXCEPT !.deduit = IF trouve THEN Fcch ELSE Aucun, !.justes = IF juste THEN @ + 1 ELSE @]
     IN  test' = CASE test.nom = "fb" -> Suite(t, test.essai = Essais - 1, t.justes = Essais)
                   [] test.nom = "fbpos" -> Suite(t, test.essai = Essais - 1, t.justes > 0)
                   [] test.nom = "fbsb" -> Suite(t, ~trouve, FALSE)

\* decode_sb gives the BSIC and the frame aimed at.
Vise(sb) == sb # Aucun /\ DecoderSb(sb) = [fn |-> test.vise, bsic |-> Bsic]

\* t_sb: a first response with the CRC right and another content, or a second one alone, is wrong.
ConclureSb ==
  /\ test.nom = "sb"
  /\ LET juste == Vise(test.sb[1])
         faux == ~juste /\ (test.sb[1] # Aucun \/ test.sb[2] # Aucun)
         t == [test EXCEPT !.justes = IF juste THEN @ + 1 ELSE @, !.faux = IF faux THEN @ + 1 ELSE @]
     IN  test' = Suite(t, test.essai = Essais - 1, t.faux = 0 /\ t.justes >= Essais - 1)

ConclureFbsb ==
  /\ test.nom = "fbsb" /\ test.essai = 2
  /\ test' = Suite(test, TRUE, \E a \in 1 .. 2 : Vise(test.sb[a]))

\* nb_lecture
ConclureNb ==
  /\ test.nom = "nb"
  /\ test' = Suite(test, TRUE, test.blocs >= Essais /\ test.justes = test.blocs)

\* ul_bloc: eight frames more, then ul_comparer_xcch.
ConclureTx ==
  /\ test.nom = "tx"
  /\ test' = IF test.pas = "joue" THEN [test EXCEPT !.pas = "vide", !.reste = 8]
             ELSE Suite(test, TRUE, test.blocs > 0 /\ test.fnCmd \subseteq hist.emis)

\* t_rach: an access burst is captured since the try began.
ConclureRach ==
  /\ test.nom = "rach"
  /\ LET t == [test EXCEPT !.justes = IF \E x \in hist.emis : x.fn >= fn - 6 THEN @ + 1 ELSE @]
     IN  test' = Suite(t, test.essai = Essais - 1, t.justes = Essais)

\* t_checksum looks at both R pages; t_idle counts the interrupts of its hundred frames.
ConclureSimple ==
  \/ test.nom = "chk" /\ test' = Suite(test, TRUE, \E p \in 0 .. 1 : api.R[p].tache = "chk")
  \/ test.nom = "idle" /\ test' = Suite(test, TRUE, hist.its >= 99)

Conclure ==
  /\ test.pas \in {"joue", "vide"} /\ test.reste = 0
  /\ ConclureFb \/ ConclureSb \/ ConclureFbsb \/ ConclureNb \/ ConclureTx \/ ConclureRach \/ ConclureSimple
  /\ tdma' = [tdma EXCEPT !.mf = [set |-> <<>>, frame |-> 0]]
  /\ UNCHANGED <<fn, api, rom, sch, hist>>

\* lancer: a child that dies, or that the alarm kills, counts as a failure, without a verdict.
Planter ==
  /\ test.pas # "fini"
  /\ test' = [test EXCEPT !.pas = "fini", !.reste = 0, !.verdict = "arret"]
  /\ UNCHANGED <<fn, api, tdma, rom, sch, hist>>

BancNext == Trame \/ Attendre \/ Lancer \/ Conclure \/ Planter

BancSpec == BancInit /\ [][BancNext]_bancVars

-----------------------------------------------------------------------------
(* Properties.                                                             *)

Taches == {"rien", "fb", "sb", "nb", "tx", "rach", "chk"}
Trames == Nat \cup {Aucun}

\* The pages alternate between 0 and 1, the ring has its 25 buckets of at most 8 items.
BancTypeOK ==
  /\ fn \in Nat
  /\ api.w \in 0 .. 1 /\ api.r \in 0 .. 1 /\ api.page \in 0 .. 1 /\ api.used \in BOOLEAN /\ api.irq \in BOOLEAN
  /\ \A p \in 0 .. 1 : api.W[p].tache \in Taches /\ api.R[p].tache \in Taches /\ api.R[p].sb \in Trames
  /\ tdma.cur \in 0 .. Seaux - 1 /\ \A b \in 0 .. Seaux - 1 : Len(tdma.seau[b]) <= Places
  /\ rom.det \in BOOLEAN /\ rom.debut \in Trames /\ sch.fn \in Nat
  /\ test.reste \in Nat /\ test.det \in -1 .. 1 /\ test.blocs \in 0 .. Essais
  /\ test.pas \in {"debut", "attend", "joue", "vide", "fini"} /\ test.verdict \in {"aucun", "PASS", "FAIL", "arret"}

\* The ring of the scheduler is its calendar: what a set or the multiframe scheduler
\* puts n frames ahead runs n frames later, once, and nothing that tdma_sched_reset
\* cancels (fbdet_resp) runs at all (tdma_schedule_set, tdma_sched_execute, wrap_bucket).
AgendaTenu ==
  /\ \A x \in hist.agenda : x.date \in fn .. fn + Seaux - 1
  /\ \A o \in 0 .. Seaux - 1 :
       LET seau == tdma.seau[Seau(tdma, o)]
           prevus == {x.item : x \in {y \in hist.agenda : y.date = fn + o}}
       IN  {seau[i] : i \in DOMAIN seau} = prevus /\ Len(seau) = Cardinality(prevus)

\* decode_sb undoes banc_sb_info on every SCH of the multiframes of an epoch.
SbFidele ==
  \A t1 \in Epoques : \A f \in {x \in 1326 * t1 .. 1326 * t1 + 1325 : Type(x) = "S"} :
    DecoderSb(SbInfo(f, Bsic)) = [fn |-> f, bsic |-> Bsic]

\* An SCH is put in one SB window at most, its own or that of the frame after
\* (deposer, sb_retenter), and what the firmware decodes without a lost frame
\* interrupt is an SCH that was in a window.
SchJuste ==
  /\ SbFidele
  /\ \A x, y \in hist.fenetres : x.le - x.sch \in 0 .. 1 /\ (x.sch = y.sch => x = y)
  /\ test.nom \in {"sb", "fbsb"} /\ hist.perdus = 0 =>
       \A i \in {j \in 1 .. 2 : test.sb[j] # Aucun} :
         DecoderSb(test.sb[i]) \in {[fn |-> x.sch, bsic |-> Bsic] : x \in hist.fenetres}

\* A response never accepts the page of another burst, and it accepts that of its own
\* command, two frames before, unless the ROM has missed three frame interrupts or more;
\* the ROM sends a burst in the frame tx_cmd noted for it, whatever it has missed
\* (dsp_end_scenario, l1_sync, nb_resp, tx_cmd).
ChacunLeSien ==
  /\ (hist.accepte.resp - 2 - hist.accepte.cmd) % 51 = 0
  /\ hist.perdus <= 2 => hist.accepte.cmd = hist.accepte.resp - 2
  /\ test.nom = "tx" => hist.emis \subseteq test.fnCmd

Sain == hist.perdus = 0 /\ hist.rates = 0
Conclu == test.pas = "fini" /\ test.verdict # "arret"

\* une_fb deduces the frame of the FCCH the ROM saw; a ROM that misses nothing and
\* opens its windows in time passes the tests but nb and fbsb; and a PASS of tx or
\* idle means that nothing was lost (une_fb, t_sb, ul_comparer_xcch, t_idle).
VerdictFonde ==
  /\ test.deduit # Aucun => test.deduit = hist.fcch
  /\ Conclu /\ Sain /\ test.nom \notin {"nb", "fbsb"} => test.verdict = "PASS"
  /\ test.verdict = "PASS" /\ test.nom \in {"tx", "idle"} => hist.perdus = 0

\* A ROM that misses nothing passes nb: the table of the tests says of it that the
\* block read is the one gsm0503_xcch_encode coded (dsp_tester.c:696).
AttenteDuBloc == Conclu /\ Sain /\ test.nom = "nb" => test.verdict = "PASS"
=============================================================================
