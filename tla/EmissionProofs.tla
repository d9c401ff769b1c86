---------------------------- MODULE EmissionProofs ----------------------------
(***************************************************************************)
(* Proofs about Emission, for every set of values, every guard of two      *)
(* frames or more and every number of accesses and of blocks: the types,   *)
(* the blocks whole, and the accesses once, with their value and their     *)
(* date.                                                                   *)
(*                                                                         *)
(* The blocks and the accesses are proved apart, and share the end of a    *)
(* frame (Fin), taken apart once: Echeance, Capturer and PublierRach act   *)
(* on a pair <<pont.c, history>>, and each has a lemma for what it keeps   *)
(* of Suite, the part of the invariant that holds between two of them.     *)
(* The invariant of the blocks ties what is collected to the pointer of    *)
(* the ROM; that of the accesses tells, by the frames since the posting,   *)
(* where the last access can be: before the detection, waiting for its     *)
(* value, waiting for its transmission, or gone.                           *)
(***************************************************************************)
EXTENDS Emission, TLAPS

-----------------------------------------------------------------------------
(* The invariant of the blocks.                                            *)

nb == Len(blocs)

\* The block before the one being sent, or the last one sent.
Dernier == IF rom.reste = 4 THEN nb - 1 ELSE nb

\* The bursts of a block collected when the pointer is ptr.
MasqueDe(ptr) == IF ptr \in 1 .. 3 THEN 0 .. ptr - 1 ELSE {}

\* The first burst of the block before does not stand in for that of block i.
Seul(i) == i > 1 => blocs[i - 1].emis # 1

\* What is collected follows the pointer of the ROM.
Pointeur ==
  /\ rom.ptr = u.prev \/ (rom.ptr = Hors /\ etape = "fin" /\ rom.reste = 0)
  /\ u.masque = MasqueDe(u.prev)
  /\ rom.reste \in {0, 4} /\ rom.ptr = 1 => Dernier >= 1 /\ blocs[Dernier].emis = 1
  /\ rom.reste \in 1 .. 3 => rom.ptr = 4 - rom.reste

\* The block in a_cu and in the ROM.
EnVoie ==
  /\ cu.bloc = nb /\ (rom.reste > 0 => nb > 0)
  /\ cu.neuf => etape = "fin" /\ rom.reste = 4 /\ cu.blud /\ aLire = 0
  /\ rom.reste = 4 => cu.blud
  /\ nb > 0 /\ ~cu.neuf => u.pose = nb
  /\ rom.reste > 0 => blocs[nb].emis = 4 - rom.reste /\ blocs[nb].pub = 0
                      /\ ~blocs[nb].abime /\ aLire = 0
  /\ rom.reste \in 1 .. 3 /\ Seul(nb) =>
       u.l2 = nb /\ \A b \in 0 .. 3 - rom.reste : u.bits[b] = nb

BlocsRendus ==
  \A i \in 1 .. nb :
    /\ blocs[i].emis = 4 /\ Seul(i) => blocs[i].pub = 1
    /\ blocs[i].abime => ~Seul(i)

InvBlocs == Pointeur /\ EnVoie /\ BlocsRendus

-----------------------------------------------------------------------------
(* The invariant of the accesses.                                          *)

na == Len(acces)
Net == ~Repris(na)
Mini(x, y) == IF x < y THEN x ELSE y

\* The end of the frame in which the last access was posted, and the one after.
Pose0 == etape = "fin" /\ depuis = 0
Suivante == (etape = "l1" /\ depuis = 0) \/ (etape = "fin" /\ depuis = 1)
\* Ends of frame since the posting.
Passees == IF etape = "l1" THEN depuis + 1 ELSE depuis

Situation ==
  /\ depuis < Ecart => na > 0
  /\ page => na > 0
  /\ aLire \in {0, na} /\ (aLire # 0 => Pose0 \/ Suivante)
  /\ aEcrire # 0 => ici.tardif /\ na > 0 /\ aEcrire = acces[na].ra /\ depuis = 0
  /\ na > 0 /\ aEcrire = 0 => dRach = acces[na].ra
  /\ Pose0 => page /\ aLire = na /\ ~m.attente /\ acces[na].pub = 0 /\ acces[na].emis = -1
              /\ ~acces[na].long
  /\ etape = "fin" /\ page /\ depuis >= GardeTrames => acces[na].long

Attente ==
  m.attente => /\ ici.tardif /\ m.ageAttente = 1 /\ m.id = na /\ na > 0
               /\ etape = "fin" => aEcrire = 0 /\ depuis > 0
               /\ etape = "l1" => page \/ depuis = 0

Justes ==
  /\ \A i \in 1 .. na : acces[i].juste
  /\ p.actif => p.id \in 1 .. na /\ p.ra = acces[p.id].ra

\* The guard.
Garde ==
  Net =>
    /\ na = 0 => ~m.vu
    /\ na > 0 /\ ~Pose0 => m.vu /\ m.age = Mini(Passees, GardeTrames)
    /\ Pose0 => ~m.vu \/ m.age = GardeTrames
    /\ ici.efface = "oui" /\ page => Pose0
    /\ ici.efface = "non" =>
         /\ Pose0 => ~m.avant
         /\ ~Pose0 /\ page => m.avant
         /\ etape = "l1" /\ m.avant => page
         /\ na > 0 /\ Passees >= 2 => m.prev = dRach

Emis ==
  /\ Passees >= 3 \/ Pose0 => p.emis = 2
  /\ p.emis \in {1, 2}
  /\ Suivante /\ Net => (p.emis = 1 <=> acces[na].emis = 0 /\ ~acces[na].pareil)

Pendant ==
  /\ p.actif /\ ~Net => Repris(p.id)
  /\ p.actif /\ ~Repris(p.id) =>
       /\ p.pose = 0 /\ acces[p.id].pub = 0
       /\ aLire = p.id \/ acces[p.id].emis \in {-1, 1} \/ acces[p.id].pareil
       /\ p.age = IF p.id = na THEN Mini(Passees, Retard) ELSE Retard
       /\ p.id = na => ~Pose0 /\ (ici.tardif => ~Suivante)
       /\ p.id # na => Pose0 \/ (ici.tardif /\ Suivante)
  /\ Net /\ m.attente => Suivante
  /\ Net /\ ici.tardif /\ Suivante => m.attente /\ acces[na].pub = 0
  /\ Net /\ aLire # 0 => acces[na].emis = -1 /\ acces[na].pub = 0

Date(a) == a.pub = 1 /\ a.emis >= 0 => a.date = IF a.pareil THEN 1 ELSE a.emis

Dates ==
  \A i \in 1 .. na : ~Repris(i) => acces[i].pub <= 1 /\ Date(acces[i])

\* Nothing lost.
Suivis ==
  \A i \in 1 .. na :
    ~Repris(i - 1) =>
      \/ acces[i].pub >= 1
      \/ p.actif /\ p.id = i
      \/ i = na /\ (Pose0 \/ (ici.tardif /\ Suivante /\ m.attente))

InvAcces == Situation /\ Attente /\ Justes /\ Garde /\ Emis /\ Pendant /\ Dates /\ Suivis

-----------------------------------------------------------------------------
(* Types.                                                                  *)

Scripts == {RienEmis} \cup ({"AB"} \X Ras \X {0}) \cup ({"NB"} \X (1 .. nb) \X Tour)
Ponts == [actif: BOOLEAN, age: 0 .. Retard, id: 0 .. na, ra: Ras \cup {0, Residu},
          pose: 0 .. Ecart, emis: 0 .. 2, prec: Scripts]
Montants == [base: BOOLEAN, prev: Ras \cup {0, Residu}, avant: BOOLEAN, vu: BOOLEAN,
             age: 0 .. GardeTrames, attente: BOOLEAN, ageAttente: 0 .. 1, id: 0 .. na]
Hist == [1 .. na -> AccesType]
HistBlocs == [1 .. nb -> BlocType]
Collectes == [prev: 0 .. Hors, masque: SUBSET Tour, bits: [Tour -> 0 .. nb],
              l2: 0 .. nb, pose: 0 .. nb]
Jours == -1 .. Ecart + Retard

\* What the types rest on: an access is transmitted at once or a frame later, and a block
\* that is sent has been posted.
TypeInd ==
  /\ TypeOK
  /\ aLire # 0 => depuis = 0 \/ (depuis = 1 /\ etape = "fin")
  /\ rom.reste > 0 => cu.bloc > 0

LEMMA Suites ==
  ASSUME NEW S, NEW f
  PROVE  /\ f \in Seq(S) => Len(f) \in Nat /\ f \in [1 .. Len(f) -> S] /\ DOMAIN f = 1 .. Len(f)
         /\ \A k \in Nat : f \in [1 .. k -> S] => f \in Seq(S) /\ Len(f) = k
OBVIOUS

LEMMA Constantes ==
  /\ GardeTrames \in Nat /\ Ecart \in Nat /\ Ecart >= GardeTrames /\ Ecart > 3
  /\ MaxAcces \in Nat /\ MaxBlocs \in Nat
BY EmissionAssumption

LEMMA TypesDits ==
  ASSUME TypeOK
  PROVE  /\ na \in Nat /\ acces \in Hist /\ na <= MaxAcces
         /\ nb \in Nat /\ blocs \in HistBlocs /\ nb <= MaxBlocs
         /\ p \in Ponts /\ m \in Montants /\ u \in Collectes /\ depuis \in 0 .. Ecart
<1>1. acces \in Seq(AccesType) /\ blocs \in Seq(BlocType) /\ na <= MaxAcces /\ nb <= MaxBlocs
  BY DEF TypeOK, na, nb
<1>2. na \in Nat /\ acces \in Hist /\ nb \in Nat /\ blocs \in HistBlocs
  BY <1>1, Suites DEF na, nb, Hist, HistBlocs
<1>3. p \in Ponts
  BY DEF TypeOK, Ponts, Scripts, na, nb
<1>4. m \in Montants
  BY DEF TypeOK, Montants, na
<1>5. u \in Collectes /\ depuis \in 0 .. Ecart
  BY DEF TypeOK, Collectes, nb
<1> QED BY <1>1, <1>2, <1>3, <1>4, <1>5

LEMMA TypesSimples ==
  ASSUME TypeOK
  PROVE  /\ ici \in Installations /\ etape \in {"l1", "fin"} /\ page \in BOOLEAN
         /\ dRach \in Ras \cup {Residu} /\ aEcrire \in Ras \cup {0} /\ depuis \in 0 .. Ecart
         /\ aLire \in 0 .. na
         /\ cu \in [bloc: 0 .. nb, blud: BOOLEAN, neuf: BOOLEAN]
         /\ rom \in [ptr: 0 .. Hors, bloc: 0 .. nb, reste: 0 .. 4]
BY DEF TypeOK, na, nb

\* An access once the burst q is published.
Marque(x, q, d) ==
  [x EXCEPT !.pub = IF @ < 2 THEN @ + 1 ELSE 2, !.date = d, !.juste = @ /\ q.ra = x.ra]

LEMMA MarqueDit ==
  ASSUME NEW x \in AccesType, NEW q, NEW d \in Jours
  PROVE  /\ Marque(x, q, d) \in AccesType
         /\ Marque(x, q, d).ra = x.ra /\ Marque(x, q, d).emis = x.emis
         /\ Marque(x, q, d).pareil = x.pareil /\ Marque(x, q, d).long = x.long
         /\ Marque(x, q, d).pub = (IF x.pub < 2 THEN x.pub + 1 ELSE 2)
         /\ Marque(x, q, d).date = d
         /\ x.juste /\ q.ra = x.ra => Marque(x, q, d).juste
<1> DEFINE a == IF x.pub < 2 THEN x.pub + 1 ELSE 2
           b == x.juste /\ q.ra = x.ra
<1>1. x.pub \in 0 .. 2 /\ x.juste \in BOOLEAN
  BY DEF AccesType
<1>2. a \in 0 .. 2 /\ b \in BOOLEAN
  BY <1>1
<1>3. d \in -1 .. Ecart + Retard
  BY DEF Jours
<1>4. Marque(x, q, d) = [x EXCEPT !.pub = a, !.date = d, !.juste = b]
  BY DEF Marque
<1> HIDE DEF a, b
<1>5. /\ Marque(x, q, d) \in AccesType
      /\ Marque(x, q, d).ra = x.ra /\ Marque(x, q, d).emis = x.emis
      /\ Marque(x, q, d).pareil = x.pareil /\ Marque(x, q, d).long = x.long
      /\ Marque(x, q, d).pub = a /\ Marque(x, q, d).date = d /\ Marque(x, q, d).juste = b
  BY <1>2, <1>3, <1>4 DEF AccesType
<1> QED BY <1>5 DEF a, b

\* ring_publier: the history of the access of the burst alone changes.
LEMMA PublieDit ==
  ASSUME na \in Nat, NEW h \in Hist, NEW q \in Ponts, NEW d \in Jours
  PROVE  /\ Publie(h, q, d) \in Hist
         /\ \A i \in 1 .. na :
              Publie(h, q, d)[i] = IF i = q.id THEN Marque(h[i], q, d) ELSE h[i]
<1>1. Publie(h, q, d) = [i \in 1 .. na |-> IF i = q.id THEN Marque(h[i], q, d) ELSE h[i]]
  BY DEF Publie, Hist, Marque
<1>2. \A i \in 1 .. na : h[i] \in AccesType
  BY DEF Hist
<1>3. \A i \in 1 .. na : Marque(h[i], q, d) \in AccesType
  BY <1>2, MarqueDit
<1> QED BY <1>1, <1>2, <1>3 DEF Hist

\* The state of pont.c and the history, as the steps of the end of a frame hand them on.
Paires == Ponts \X Hist

LEMMA PairesDit ==
  /\ \A s \in Paires : s[1] \in Ponts /\ s[2] \in Hist /\ s = <<s[1], s[2]>>
  /\ \A q \in Ponts, h \in Hist : <<q, h>> \in Paires /\ <<q, h>>[1] = q /\ <<q, h>>[2] = h
BY DEF Paires

\* The burst no longer waits.
Parti(q) == [q EXCEPT !.actif = FALSE]

LEMMA PartiDit ==
  ASSUME NEW q \in Ponts
  PROVE  /\ Parti(q) \in Ponts /\ ~Parti(q).actif
         /\ Parti(q).age = q.age /\ Parti(q).id = q.id /\ Parti(q).ra = q.ra
         /\ Parti(q).pose = q.pose /\ Parti(q).emis = q.emis /\ Parti(q).prec = q.prec
BY DEF Parti, Ponts

\* rach_pend_publier: what waits is published, if anything does.
LEMMA PublierDit ==
  ASSUME na \in Nat, NEW s \in Paires, NEW d \in Jours
  PROVE  LET t == RachPendPublier(s, d)
         IN  /\ t \in Paires
             /\ t[1] = IF s[1].actif THEN Parti(s[1]) ELSE s[1]
             /\ ~t[1].actif
             /\ \A i \in 1 .. na :
                  t[2][i] = IF s[1].actif /\ i = s[1].id THEN Marque(s[2][i], s[1], d) ELSE s[2][i]
<1> DEFINE t == RachPendPublier(s, d)
<1>1. s[1] \in Ponts /\ s[2] \in Hist
  BY PairesDit
<1>2. CASE s[1].actif
  <2>1. t = <<Parti(s[1]), Publie(s[2], s[1], d)>>
    BY <1>2 DEF RachPendPublier, Parti
  <2>2. Parti(s[1]) \in Ponts /\ ~Parti(s[1]).actif
    BY <1>1, PartiDit
  <2>3. /\ Publie(s[2], s[1], d) \in Hist
        /\ \A i \in 1 .. na :
             Publie(s[2], s[1], d)[i] = IF i = s[1].id THEN Marque(s[2][i], s[1], d) ELSE s[2][i]
    BY <1>1, PublieDit
  <2> HIDE DEF t
  <2>4. t \in Paires /\ t[1] = Parti(s[1]) /\ t[2] = Publie(s[2], s[1], d)
    BY <2>1, <2>2, <2>3, PairesDit
  <2> QED BY <1>2, <2>2, <2>3, <2>4 DEF t
<1>3. CASE ~s[1].actif
  BY <1>3 DEF RachPendPublier
<1> QED BY <1>2, <1>3

\* rach_pend_echeance
LEMMA EcheanceType ==
  ASSUME na \in Nat, NEW s \in Paires
  PROVE  Echeance(s) \in Paires
<1>1. s[1].pose + 1 \in Jours
  BY PairesDit, Constantes DEF Ponts, Jours, Retard
<1> QED BY <1>1, PublierDit DEF Echeance

\* tx_rach_vers_air: what waited leaves, and the new burst waits, or leaves if the ROM was
\* seen transmitting it.
Nouvelle(q, id, ra, age) ==
  [q EXCEPT !.actif = TRUE, !.age = age, !.id = id, !.ra = ra,
            !.pose = IF depuis >= age THEN depuis - age ELSE 0]

LEMMA NouvelleDit ==
  ASSUME depuis \in 0 .. Ecart, NEW q \in Ponts, NEW id \in 0 .. na,
         NEW ra \in Ras \cup {0, Residu}, NEW age \in 0 .. 1
  PROVE  /\ Nouvelle(q, id, ra, age) \in Ponts
         /\ Nouvelle(q, id, ra, age).actif = TRUE /\ Nouvelle(q, id, ra, age).age = age
         /\ Nouvelle(q, id, ra, age).id = id /\ Nouvelle(q, id, ra, age).ra = ra
         /\ Nouvelle(q, id, ra, age).emis = q.emis /\ Nouvelle(q, id, ra, age).prec = q.prec
         /\ Nouvelle(q, id, ra, age).pose = (IF depuis >= age THEN depuis - age ELSE 0)
<1> DEFINE pose == IF depuis >= age THEN depuis - age ELSE 0
<1>1. pose \in 0 .. Ecart /\ age \in 0 .. Retard
  BY Constantes DEF Retard
<1>2. Nouvelle(q, id, ra, age) =
        [q EXCEPT !.actif = TRUE, !.age = age, !.id = id, !.ra = ra, !.pose = pose]
  BY DEF Nouvelle
<1> HIDE DEF pose
<1>3. /\ Nouvelle(q, id, ra, age) \in Ponts
      /\ Nouvelle(q, id, ra, age).actif = TRUE /\ Nouvelle(q, id, ra, age).age = age
      /\ Nouvelle(q, id, ra, age).id = id /\ Nouvelle(q, id, ra, age).ra = ra
      /\ Nouvelle(q, id, ra, age).emis = q.emis /\ Nouvelle(q, id, ra, age).prec = q.prec
      /\ Nouvelle(q, id, ra, age).pose = pose
  BY <1>1, <1>2 DEF Ponts
<1> QED BY <1>3 DEF pose

LEMMA NouvelleChamps ==
  ASSUME NEW q \in Ponts, NEW id, NEW ra, NEW age
  PROVE  /\ Nouvelle(q, id, ra, age).actif /\ Nouvelle(q, id, ra, age).age = age
         /\ Nouvelle(q, id, ra, age).id = id /\ Nouvelle(q, id, ra, age).ra = ra
         /\ Nouvelle(q, id, ra, age).emis = q.emis
         /\ Nouvelle(q, id, ra, age).pose = (IF depuis >= age THEN depuis - age ELSE 0)
<1> DEFINE pose == IF depuis >= age THEN depuis - age ELSE 0
<1>1. Nouvelle(q, id, ra, age) =
        [q EXCEPT !.actif = TRUE, !.age = age, !.id = id, !.ra = ra, !.pose = pose]
  BY DEF Nouvelle
<1> HIDE DEF pose
<1>2. /\ Nouvelle(q, id, ra, age).actif /\ Nouvelle(q, id, ra, age).age = age
      /\ Nouvelle(q, id, ra, age).id = id /\ Nouvelle(q, id, ra, age).ra = ra
      /\ Nouvelle(q, id, ra, age).emis = q.emis /\ Nouvelle(q, id, ra, age).pose = pose
  BY <1>1 DEF Ponts
<1> QED BY <1>2 DEF pose

LEMMA PublierRachType ==
  ASSUME na \in Nat, depuis \in 0 .. Ecart, NEW s \in Paires, NEW id \in 0 .. na,
         NEW ra \in Ras \cup {0, Residu}, NEW age \in 0 .. 1
  PROVE  LET t == Remplacer(s)
             v == <<Nouvelle(t[1], id, ra, age), t[2]>>
         IN  /\ t \in Paires /\ v \in Paires
             /\ PublierRach(s, id, ra, age) = DejaEmis(v, age)
             /\ PublierRach(s, id, ra, age) \in Paires
<1> DEFINE t == Remplacer(s)
           v == <<Nouvelle(t[1], id, ra, age), t[2]>>
<1>1. t \in Paires
  <2>1. s[1].pose + 1 \in Jours
    BY PairesDit, Constantes DEF Ponts, Jours, Retard
  <2> QED BY <2>1, PublierDit DEF Remplacer
<1>2. v \in Paires
  BY <1>1, PairesDit, NouvelleDit, ZenonT(60)
<1>3. PublierRach(s, id, ra, age) = DejaEmis(v, age)
  BY DEF PublierRach, Nouvelle
<1>4. DejaEmis(v, age) \in Paires
  <2> HIDE DEF v
  <2>1. v[1].pose \in Jours
    BY <1>2, PairesDit, Constantes DEF Ponts, Jours, Retard
  <2> QED BY <1>2, <2>1, PublierDit DEF DejaEmis
<1> QED BY <1>1, <1>2, <1>3, <1>4

\* tsp_tx_lire, tx_tsp_publier.
Lue(q, script) ==
  [q EXCEPT !.prec = script, !.emis = IF script[1] = "AB" THEN 0 ELSE @]

LEMMA LueDit ==
  ASSUME NEW q \in Ponts, NEW script \in Scripts
  PROVE  /\ Lue(q, script) \in Ponts
         /\ Lue(q, script).actif = q.actif /\ Lue(q, script).age = q.age
         /\ Lue(q, script).id = q.id /\ Lue(q, script).ra = q.ra
         /\ Lue(q, script).pose = q.pose /\ Lue(q, script).prec = script
         /\ Lue(q, script).emis = (IF script[1] = "AB" THEN 0 ELSE q.emis)
<1> DEFINE e == IF script[1] = "AB" THEN 0 ELSE q.emis
<1>1. e \in 0 .. 2
  BY DEF Ponts
<1>2. Lue(q, script) = [q EXCEPT !.prec = script, !.emis = e]
  BY DEF Lue
<1> HIDE DEF e
<1>3. /\ Lue(q, script) \in Ponts
      /\ Lue(q, script).actif = q.actif /\ Lue(q, script).age = q.age
      /\ Lue(q, script).id = q.id /\ Lue(q, script).ra = q.ra
      /\ Lue(q, script).pose = q.pose /\ Lue(q, script).prec = script
      /\ Lue(q, script).emis = e
  BY <1>1, <1>2 DEF Ponts
<1> QED BY <1>3 DEF e

LEMMA CapturerDit ==
  ASSUME na \in Nat, NEW s \in Paires, NEW script \in Scripts
  PROVE  LET t == <<Lue(s[1], script), s[2]>>
         IN  /\ t \in Paires
             /\ Capturer(s, script) =
                  IF script \in {RienEmis, s[1].prec} THEN s
                  ELSE IF script[1] = "AB" /\ s[1].age < Retard
                       THEN RachPendPublier(t, s[1].pose + s[1].age) ELSE t
             /\ s[1].age < Retard => s[1].pose + s[1].age \in Jours
             /\ Capturer(s, script) \in Paires
<1> DEFINE t == <<Lue(s[1], script), s[2]>>
<1>1. t \in Paires /\ t[1] = Lue(s[1], script)
  BY PairesDit, LueDit
<1>2. t[1].age = s[1].age /\ t[1].pose = s[1].pose
  BY <1>1, PairesDit, LueDit
<1>3. Capturer(s, script) =
        IF script \in {RienEmis, s[1].prec} THEN s
        ELSE IF script[1] = "AB" /\ s[1].age < Retard
             THEN RachPendPublier(t, s[1].pose + s[1].age) ELSE t
  BY <1>2 DEF Capturer, Lue
<1>4. s[1].age < Retard => s[1].pose + s[1].age \in Jours
  BY PairesDit, Constantes DEF Ponts, Jours, Retard
<1> HIDE DEF t
<1>5. Capturer(s, script) \in Paires
  BY <1>1, <1>3, <1>4, PublierDit
<1> QED BY <1>1, <1>3, <1>4, <1>5 DEF t

\* montant_scruter: the task is taken, or the deferred publication is due.
Vient ==
  /\ dRach # 0 /\ page
  /\ ~FrontSeul \/ ~m.avant \/ (m.base /\ dRach # m.prev /\ dRach # 0)
  /\ ~m.vu \/ m.age >= GardeTrames
Du == m.attente /\ m.ageAttente >= ici.differe

PontDu(s) == IF Du /\ dRach # 0 THEN PublierRach(s, m.id, dRach, m.ageAttente) ELSE s
PontApres(s) ==
  IF Vient /\ ici.differe = 0 THEN PublierRach(PontDu(s), na, dRach, 0) ELSE PontDu(s)

MontantLu ==
  [base |-> TRUE, prev |-> dRach, avant |-> page, vu |-> m.vu \/ Vient,
   age |-> IF Vient THEN 0 ELSE m.age,
   attente |-> IF Vient THEN ici.differe > 0 ELSE m.attente /\ ~Du,
   ageAttente |-> IF Vient THEN 0 ELSE m.ageAttente,
   id |-> IF Vient THEN na ELSE m.id]
MontantApres ==
  [MontantLu EXCEPT !.age = Plafond(@, GardeTrames), !.ageAttente = Plafond(@, 1)]

AvantScruter(it, script, emise) ==
  Capturer(IF it THEN Echeance(<<p, emise>>) ELSE <<p, emise>>, script)

Vieux(q) == [q EXCEPT !.age = Plafond(@, Retard), !.emis = Plafond(@, 2)]

LEMMA PlafondDit ==
  ASSUME NEW n \in Nat, NEW x \in 0 .. n
  PROVE  Plafond(x, n) \in 0 .. n /\ Plafond(x, n) = IF x < n THEN x + 1 ELSE n
BY DEF Plafond

LEMMA VieuxDit ==
  ASSUME NEW q \in Ponts
  PROVE  /\ Vieux(q) \in Ponts
         /\ Vieux(q).actif = q.actif /\ Vieux(q).id = q.id /\ Vieux(q).ra = q.ra
         /\ Vieux(q).pose = q.pose /\ Vieux(q).prec = q.prec
         /\ Vieux(q).age = (IF q.age < 3 THEN q.age + 1 ELSE 3)
         /\ Vieux(q).emis = (IF q.emis < 2 THEN q.emis + 1 ELSE 2)
<1> DEFINE a == Plafond(q.age, Retard)
           e == Plafond(q.emis, 2)
<1>1. q.age \in 0 .. 3 /\ q.emis \in 0 .. 2
  BY DEF Ponts, Retard
<1>2. /\ a \in 0 .. Retard /\ a = (IF q.age < 3 THEN q.age + 1 ELSE 3)
      /\ e \in 0 .. 2 /\ e = (IF q.emis < 2 THEN q.emis + 1 ELSE 2)
  BY <1>1, PlafondDit DEF Retard
<1>3. Vieux(q) = [q EXCEPT !.age = a, !.emis = e]
  BY DEF Vieux
<1> HIDE DEF a, e
<1>4. /\ Vieux(q) \in Ponts
      /\ Vieux(q).actif = q.actif /\ Vieux(q).id = q.id /\ Vieux(q).ra = q.ra
      /\ Vieux(q).pose = q.pose /\ Vieux(q).prec = q.prec
      /\ Vieux(q).age = a /\ Vieux(q).emis = e
  BY <1>2, <1>3 DEF Ponts
<1> QED BY <1>2, <1>4

LEMMA PontApresType ==
  ASSUME TypeOK, NEW s \in Paires
  PROVE  PontDu(s) \in Paires /\ PontApres(s) \in Paires
<1>1. /\ na \in Nat /\ depuis \in 0 .. Ecart /\ dRach \in Ras \cup {0, Residu}
      /\ m.id \in 0 .. na /\ m.ageAttente \in 0 .. 1 /\ na \in 0 .. na
  BY TypesDits, TypesSimples DEF Montants
<1>2. PontDu(s) \in Paires
  BY <1>1, PublierRachType DEF PontDu
<1>3. 0 \in 0 .. 1
  OBVIOUS
<1> QED BY <1>1, <1>2, <1>3, PublierRachType DEF PontApres

LEMMA MontantApresDit ==
  ASSUME TypeOK
  PROVE  /\ MontantApres \in Montants
         /\ MontantApres.base /\ MontantApres.prev = dRach
         /\ MontantApres.avant = page
         /\ MontantApres.vu <=> m.vu \/ Vient
         /\ MontantApres.attente <=> IF Vient THEN ici.differe > 0 ELSE m.attente /\ ~Du
         /\ MontantApres.id = IF Vient THEN na ELSE m.id
         /\ MontantApres.age = Plafond(IF Vient THEN 0 ELSE m.age, GardeTrames)
         /\ MontantApres.ageAttente = Plafond(IF Vient THEN 0 ELSE m.ageAttente, 1)
<1>1. m \in Montants /\ dRach \in Ras \cup {0, Residu} /\ page \in BOOLEAN /\ na \in Nat
  BY TypesDits, TypesSimples
<1> DEFINE vu == m.vu \/ Vient
           age == IF Vient THEN 0 ELSE m.age
           att == IF Vient THEN ici.differe > 0 ELSE m.attente /\ ~Du
           ageAtt == IF Vient THEN 0 ELSE m.ageAttente
           id == IF Vient THEN na ELSE m.id
           age2 == Plafond(age, GardeTrames)
           ageAtt2 == Plafond(ageAtt, 1)
<1>2. vu \in BOOLEAN /\ att \in BOOLEAN
  <2>1. Vient \in BOOLEAN /\ Du \in BOOLEAN
    BY DEF Vient, Du
  <2>2. m.attente \in BOOLEAN /\ m.vu \in BOOLEAN
    BY <1>1 DEF Montants
  <2>3. (ici.differe > 0) \in BOOLEAN /\ (m.attente /\ ~Du) \in BOOLEAN
        /\ (m.vu \/ Vient) \in BOOLEAN
    BY <2>1, <2>2
  <2> QED BY <2>3
<1>3. age \in 0 .. GardeTrames /\ ageAtt \in 0 .. 1 /\ id \in 0 .. na
  BY <1>1, Constantes DEF Montants
<1>4. age2 \in 0 .. GardeTrames /\ ageAtt2 \in 0 .. 1
  BY <1>3, PlafondDit, Constantes
<1>5. MontantLu = [base |-> TRUE, prev |-> dRach, avant |-> page, vu |-> vu, age |-> age,
                   attente |-> att, ageAttente |-> ageAtt, id |-> id]
  BY DEF MontantLu
<1> HIDE DEF vu, age, att, ageAtt, id
<1>6. /\ MontantLu \in Montants
      /\ MontantLu.base = TRUE /\ MontantLu.prev = dRach /\ MontantLu.avant = page
      /\ MontantLu.vu = vu /\ MontantLu.age = age /\ MontantLu.attente = att
      /\ MontantLu.ageAttente = ageAtt /\ MontantLu.id = id
  BY <1>1, <1>2, <1>3, <1>5 DEF Montants
<1>7. MontantApres = [MontantLu EXCEPT !.age = age2, !.ageAttente = ageAtt2]
  BY <1>6 DEF MontantApres
<1> HIDE DEF age2, ageAtt2
<1>8. /\ MontantApres \in Montants
      /\ MontantApres.base = TRUE /\ MontantApres.prev = dRach /\ MontantApres.avant = page
      /\ MontantApres.vu = vu /\ MontantApres.attente = att /\ MontantApres.id = id
      /\ MontantApres.age = age2 /\ MontantApres.ageAttente = ageAtt2
  BY <1>4, <1>6, <1>7 DEF Montants
<1>9. (MontantApres.vu <=> m.vu \/ Vient)
      /\ (MontantApres.attente <=> IF Vient THEN ici.differe > 0 ELSE m.attente /\ ~Du)
  BY <1>8, ZenonT(60) DEF vu, att
<1> QED BY <1>8, <1>9 DEF id, age2, ageAtt2, age, ageAtt

\* The end of a frame, by its parts.
LEMMA FinDit ==
  ASSUME TypeOK, NEW it \in BOOLEAN, NEW script \in Scripts, NEW ptr, NEW bloc,
         NEW emise \in Hist, NEW envoyes, NEW blud, NEW enCours \in 0 .. na,
         Fin(it, script, ptr, bloc, emise, envoyes, blud, enCours)
  PROVE  LET s == AvantScruter(it, script, emise)
         IN  /\ s \in Paires /\ PontApres(s) \in Paires
             /\ u' = Pose(Collecter(ptr, bloc), blud)
             /\ blocs' = IF Part(ptr) THEN BlocPublie(envoyes, Collecter(ptr, bloc)) ELSE envoyes
             /\ acces' = PontApres(s)[2] /\ p' = Vieux(PontApres(s)[1])
             /\ m' = MontantApres
             /\ page' = (page /\ ~(Vient /\ ici.efface = "oui"))
             /\ aLire' = IF Vient /\ ici.efface = "oui" THEN 0 ELSE enCours
<1> DEFINE s == AvantScruter(it, script, emise)
<1>1. s \in Paires
  <2>1. na \in Nat /\ <<p, emise>> \in Paires
    BY TypesDits, PairesDit
  <2> QED BY <2>1, EcheanceType, CapturerDit DEF AvantScruter
<1>2. PontApres(s) \in Paires
  BY <1>1, PontApresType
<1>6. Scruter(s) = [pont |-> PontApres(s), vient |-> Vient, montant |-> MontantLu]
  <2> DEFINE front == m.base /\ dRach # m.prev /\ dRach # 0
             vient == dRach # 0 /\ page /\ (~FrontSeul \/ ~m.avant \/ front)
                        /\ (~m.vu \/ m.age >= GardeTrames)
             s1 == IF m.attente /\ m.ageAttente >= ici.differe /\ dRach # 0
                   THEN PublierRach(s, m.id, dRach, m.ageAttente) ELSE s
  <2>1. Vient \in BOOLEAN /\ vient = Vient
    BY DEF Vient
  <2>2. Du \in BOOLEAN /\ (m.attente /\ m.ageAttente >= ici.differe) = Du
    BY DEF Du
  <2> HIDE DEF s
  <2>3. Scruter(s) =
          [pont |-> IF vient /\ ici.differe = 0 THEN PublierRach(PontDu(s), na, dRach, 0)
                    ELSE PontDu(s),
           vient |-> vient, montant |-> MontantLu]
    BY <2>1, <2>2, ZenonT(60) DEF Scruter, PontDu, MontantLu, na
  <2> QED BY <2>1, <2>3 DEF PontApres
<1>3. /\ Scruter(s).pont = PontApres(s) /\ Scruter(s).vient = Vient
      /\ [Scruter(s).montant EXCEPT !.age = Plafond(@, GardeTrames),
                                    !.ageAttente = Plafond(@, 1)] = MontantApres
  BY <1>6 DEF MontantApres
<1>4. /\ u' = Pose(Collecter(ptr, bloc), blud)
      /\ blocs' = IF Part(ptr) THEN BlocPublie(envoyes, Collecter(ptr, bloc)) ELSE envoyes
      /\ acces' = Scruter(s).pont[2]
      /\ p' = [Scruter(s).pont[1] EXCEPT !.age = Plafond(@, Retard), !.emis = Plafond(@, 2)]
      /\ m' = [Scruter(s).montant EXCEPT !.age = Plafond(@, GardeTrames),
                                         !.ageAttente = Plafond(@, 1)]
      /\ page' = (page /\ ~(Scruter(s).vient /\ ici.efface = "oui"))
      /\ aLire' = IF Scruter(s).vient /\ ici.efface = "oui" THEN 0 ELSE enCours
  BY DEF Fin, AvantScruter
<1> HIDE DEF s
<1>5. acces' = PontApres(s)[2] /\ p' = Vieux(PontApres(s)[1]) /\ m' = MontantApres
      /\ page' = (page /\ ~(Vient /\ ici.efface = "oui"))
      /\ aLire' = IF Vient /\ ici.efface = "oui" THEN 0 ELSE enCours
  BY <1>3, <1>4 DEF Vieux
<1> QED BY <1>1, <1>2, <1>4, <1>5 DEF s

\* tx_rom_publier: nothing has moved, the pointer has left the buffer, or a burst has left.
LEMMA CollecterDit ==
  ASSUME nb \in Nat, u \in Collectes, NEW ptr \in 0 .. Hors, NEW bloc \in 0 .. nb
  PROVE  LET v == Collecter(ptr, bloc)
             b == NumeroBurst(ptr)
         IN  /\ v \in Collectes /\ v.prev = ptr /\ v.pose = u.pose
             /\ ptr = u.prev => v = u
             /\ ptr # u.prev /\ ptr = Hors =>
                  v.masque = {} /\ v.bits = u.bits /\ v.l2 = u.l2
             /\ ptr # u.prev /\ ptr # Hors =>
                  /\ b \in Tour
                  /\ v.bits = [u.bits EXCEPT ![b] = bloc]
                  /\ v.l2 = (IF b = 0 THEN u.pose ELSE u.l2)
                  /\ v.masque = (IF b = 3 THEN {} ELSE IF b = 0 THEN {0} ELSE u.masque \cup {b})
<1> DEFINE v == Collecter(ptr, bloc)
           b == NumeroBurst(ptr)
<1>1. CASE ptr = u.prev
  BY <1>1 DEF Collecter
<1>2. CASE ptr # u.prev /\ ptr = Hors
  <2>1. v = [u EXCEPT !.prev = ptr, !.masque = {}]
    BY <1>2 DEF Collecter
  <2> HIDE DEF v
  <2>2. /\ v \in Collectes /\ v.prev = ptr /\ v.pose = u.pose
        /\ v.masque = {} /\ v.bits = u.bits /\ v.l2 = u.l2
    BY <2>1 DEF Collectes
  <2> QED BY <1>2, <2>2 DEF v
<1>3. CASE ptr # u.prev /\ ptr # Hors
  <2> DEFINE l == IF b = 0 THEN u.pose ELSE u.l2
             k == IF b = 3 THEN {} ELSE IF b = 0 THEN {0} ELSE u.masque \cup {b}
             t == [u.bits EXCEPT ![b] = bloc]
  <2>1. ptr \in 0 .. 3
    BY <1>3 DEF Hors
  <2>2. b \in Tour
    BY <2>1 DEF NumeroBurst, Tour
  <2>3. u.pose \in 0 .. nb /\ u.l2 \in 0 .. nb /\ u.masque \in SUBSET Tour
        /\ u.bits \in [Tour -> 0 .. nb]
    BY DEF Collectes
  <2>4. l \in 0 .. nb /\ k \in SUBSET Tour /\ t \in [Tour -> 0 .. nb]
    <3>1. l \in 0 .. nb
      BY <2>3
    <3>2. k \in SUBSET Tour
      BY <2>2, <2>3 DEF Tour
    <3>3. t \in [Tour -> 0 .. nb]
      BY <2>2, <2>3
    <3> QED BY <3>1, <3>2, <3>3
  <2>5. v = [u EXCEPT !.prev = ptr, !.bits = t, !.l2 = l, !.masque = k]
    <3>1. Masque(b) = IF b = 0 THEN {b} ELSE u.masque \cup {b}
      BY DEF Masque, DebutBloc
    <3>2. (IF b = 3 THEN {} ELSE Masque(b)) = k
      BY <3>1
    <3>3. v = [u EXCEPT !.prev = ptr, !.bits[b] = bloc, !.l2 = l,
                        !.masque = IF b = 3 THEN {} ELSE Masque(b)]
      BY <1>3 DEF Collecter, DebutBloc
    <3> HIDE DEF v, b, l, k
    <3> QED BY <3>2, <3>3
  <2> HIDE DEF v, b, l, k, t
  <2>6. /\ v \in Collectes /\ v.prev = ptr /\ v.pose = u.pose
        /\ v.bits = t /\ v.l2 = l /\ v.masque = k
    BY <2>4, <2>5 DEF Collectes
  <2> QED BY <1>3, <2>2, <2>6 DEF v, b, l, k, t
<1> QED BY <1>1, <1>2, <1>3

LEMMA CollecterForme ==
  ASSUME nb \in Nat, u \in Collectes, NEW ptr \in 0 .. Hors, NEW bloc \in 0 .. nb
  PROVE  /\ Collecter(ptr, bloc) \in Collectes /\ Collecter(ptr, bloc).prev = ptr
         /\ Collecter(ptr, bloc).pose = u.pose
<1>1. Collecter(ptr, bloc) \in Collectes
  BY CollecterDit
<1>2. Collecter(ptr, bloc).prev = ptr
  BY CollecterDit
<1>3. Collecter(ptr, bloc).pose = u.pose
  BY CollecterDit
<1> QED BY <1>1, <1>2, <1>3

\* tx_rom_pose.
LEMMA PoseDit ==
  ASSUME nb \in Nat, cu.bloc \in 0 .. nb, NEW v \in Collectes, NEW blud \in BOOLEAN
  PROVE  /\ Pose(v, blud) \in Collectes
         /\ Pose(v, blud).prev = v.prev /\ Pose(v, blud).masque = v.masque
         /\ Pose(v, blud).bits = v.bits /\ Pose(v, blud).l2 = v.l2
         /\ Pose(v, blud).pose = IF blud THEN cu.bloc ELSE v.pose
BY DEF Pose, Collectes

\* A block published whole, or damaged.
Entier(x) == [x EXCEPT !.pub = IF @ < 2 THEN @ + 1 ELSE 2]
Abime(x) == [x EXCEPT !.abime = TRUE]

LEMMA EntierDit ==
  ASSUME NEW x \in BlocType
  PROVE  /\ Entier(x) \in BlocType /\ Abime(x) \in BlocType
         /\ Entier(x).emis = x.emis /\ Entier(x).abime = x.abime
         /\ Entier(x).pub = (IF x.pub < 2 THEN x.pub + 1 ELSE 2)
         /\ Abime(x).emis = x.emis /\ Abime(x).pub = x.pub /\ Abime(x).abime
<1>1. x.pub \in 0 .. 2
  BY DEF BlocType
<1> DEFINE n == IF x.pub < 2 THEN x.pub + 1 ELSE 2
<1>2. n \in 0 .. 2 /\ Entier(x) = [x EXCEPT !.pub = n]
  BY <1>1 DEF Entier
<1> HIDE DEF n
<1>3. /\ Entier(x) \in BlocType
      /\ Entier(x).emis = x.emis /\ Entier(x).abime = x.abime /\ Entier(x).pub = n
  BY <1>2 DEF BlocType
<1>4. /\ Abime(x) \in BlocType
      /\ Abime(x).emis = x.emis /\ Abime(x).pub = x.pub /\ Abime(x).abime
  BY DEF Abime, BlocType
<1> QED BY <1>3, <1>4 DEF n

LEMMA BlocPublieDit ==
  ASSUME nb \in Nat, NEW h \in HistBlocs, NEW v \in Collectes
  PROVE  /\ BlocPublie(h, v) \in HistBlocs
         /\ \A i \in 1 .. nb : i # v.bits[3] => BlocPublie(h, v)[i] = h[i]
         /\ v.bits[3] \in 1 .. nb =>
              BlocPublie(h, v)[v.bits[3]] =
                IF v.l2 = v.bits[3] /\ \A b \in Tour : v.bits[b] = v.bits[3]
                THEN Entier(h[v.bits[3]]) ELSE Abime(h[v.bits[3]])
<1> DEFINE k == v.bits[3]
           ok == v.l2 = k /\ \A b \in Tour : v.bits[b] = k
           y(x) == IF ok THEN Entier(x) ELSE Abime(x)
<1>1. \A i \in 1 .. nb : h[i] \in BlocType
  BY DEF HistBlocs
<1>2. \A i \in 1 .. nb : y(h[i]) \in BlocType
  BY <1>1, EntierDit
<1>3. BlocPublie(h, v) = [i \in 1 .. nb |-> IF i = k THEN y(h[i]) ELSE h[i]]
  <2>1. CASE ok
    BY <2>1 DEF BlocPublie, HistBlocs, Entier
  <2>2. CASE ~ok
    BY <2>2 DEF BlocPublie, HistBlocs, Abime
  <2> QED BY <2>1, <2>2
<1> HIDE DEF k, y
<1>4. /\ BlocPublie(h, v) \in HistBlocs
      /\ \A i \in 1 .. nb : i # k => BlocPublie(h, v)[i] = h[i]
      /\ k \in 1 .. nb => BlocPublie(h, v)[k] = y(h[k])
  BY <1>1, <1>2, <1>3 DEF HistBlocs
<1> QED BY <1>4 DEF k, y

-----------------------------------------------------------------------------
(* Type correctness.                                                       *)

\* The variables of a state in which the numbers of accesses and of blocks are known.
LEMMA FinType ==
  ASSUME TypeOK, NEW it \in BOOLEAN, NEW script \in Scripts, NEW ptr \in 0 .. Hors,
         NEW bloc \in 0 .. nb, NEW emise \in Hist, NEW envoyes \in HistBlocs,
         NEW blud \in BOOLEAN, NEW enCours \in 0 .. na,
         Fin(it, script, ptr, bloc, emise, envoyes, blud, enCours)
  PROVE  /\ u' \in Collectes /\ blocs' \in HistBlocs /\ acces' \in Hist /\ p' \in Ponts
         /\ m' \in Montants /\ page' \in BOOLEAN /\ aLire' \in {0, enCours}
<1> DEFINE s == AvantScruter(it, script, emise)
<1>1. /\ na \in Nat /\ nb \in Nat /\ u \in Collectes /\ cu.bloc \in 0 .. nb /\ page \in BOOLEAN
  BY TypesDits, TypesSimples
<1>2. /\ PontApres(s) \in Paires
      /\ u' = Pose(Collecter(ptr, bloc), blud)
      /\ blocs' = IF Part(ptr) THEN BlocPublie(envoyes, Collecter(ptr, bloc)) ELSE envoyes
      /\ acces' = PontApres(s)[2] /\ p' = Vieux(PontApres(s)[1])
      /\ m' = MontantApres
      /\ page' = (page /\ ~(Vient /\ ici.efface = "oui"))
      /\ aLire' = IF Vient /\ ici.efface = "oui" THEN 0 ELSE enCours
  BY FinDit, ZenonT(60)
<1> HIDE DEF s
<1>3. Collecter(ptr, bloc) \in Collectes
  BY <1>1, CollecterDit
<1>4. u' \in Collectes
  BY <1>1, <1>2, <1>3, PoseDit
<1>5. blocs' \in HistBlocs
  BY <1>1, <1>2, <1>3, BlocPublieDit
<1>6. acces' \in Hist /\ p' \in Ponts
  BY <1>2, PairesDit, VieuxDit
<1>7. m' \in Montants
  BY <1>2, MontantApresDit
<1>8. page' \in BOOLEAN /\ aLire' \in {0, enCours}
  BY <1>1, <1>2
<1> QED BY <1>4, <1>5, <1>6, <1>7, <1>8

\* The types of the next state, once its sequences are known.
LEMMA TypesSuivants ==
  ASSUME NEW j \in Nat, NEW k \in Nat, j <= MaxAcces, k <= MaxBlocs,
         acces' \in [1 .. j -> AccesType], blocs' \in [1 .. k -> BlocType],
         ici' \in Installations, etape' \in {"l1", "fin"}, page' \in BOOLEAN,
         dRach' \in Ras \cup {Residu}, aEcrire' \in Ras \cup {0}, depuis' \in 0 .. Ecart,
         aLire' \in 0 .. j,
         m' \in [base: BOOLEAN, prev: Ras \cup {0, Residu}, avant: BOOLEAN, vu: BOOLEAN,
                 age: 0 .. GardeTrames, attente: BOOLEAN, ageAttente: 0 .. 1, id: 0 .. j],
         p' \in [actif: BOOLEAN, age: 0 .. Retard, id: 0 .. j, ra: Ras \cup {0, Residu},
                 pose: 0 .. Ecart, emis: 0 .. 2,
                 prec: {RienEmis} \cup ({"AB"} \X Ras \X {0}) \cup ({"NB"} \X (1 .. k) \X Tour)],
         cu' \in [bloc: 0 .. k, blud: BOOLEAN, neuf: BOOLEAN],
         rom' \in [ptr: 0 .. Hors, bloc: 0 .. k, reste: 0 .. 4],
         u' \in [prev: 0 .. Hors, masque: SUBSET Tour, bits: [Tour -> 0 .. k],
                 l2: 0 .. k, pose: 0 .. k]
  PROVE  TypeOK' /\ na' = j /\ nb' = k
<1>1. acces' \in Seq(AccesType) /\ Len(acces') = j /\ blocs' \in Seq(BlocType) /\ Len(blocs') = k
  BY Suites, SMTT(30)
<1>2. TypeOK'
  BY <1>1 DEF TypeOK
<1> QED BY <1>1, <1>2 DEF na, nb

\* The ROM transmits the access: its history.
Emise == [acces EXCEPT ![aLire].emis = depuis, ![aLire].pareil = ScriptAcces(aLire) = p.prec]

LEMMA EmiseDit ==
  ASSUME TypeInd, aLire # 0
  PROVE  /\ Emise \in Hist /\ aLire \in 1 .. na
         /\ \A i \in 1 .. na :
              /\ i # aLire => Emise[i] = acces[i]
              /\ Emise[i].ra = acces[i].ra /\ Emise[i].date = acces[i].date
              /\ Emise[i].pub = acces[i].pub /\ Emise[i].juste = acces[i].juste
              /\ Emise[i].long = acces[i].long
         /\ Emise[aLire].emis = depuis
         /\ Emise[aLire].pareil <=> ScriptAcces(aLire) = p.prec
<1> DEFINE eq == ScriptAcces(aLire) = p.prec
           x == acces[aLire]
           y == [x EXCEPT !.emis = depuis, !.pareil = eq]
<1>1. aLire \in 1 .. na /\ acces \in Hist /\ na \in Nat
  <2>1. aLire \in 0 .. na
    BY TypesSimples DEF TypeInd
  <2> QED BY <2>1, TypesDits DEF TypeInd
<1>2. depuis \in -1 .. 1 /\ eq \in BOOLEAN
  BY Constantes DEF TypeInd, TypeOK
<1>3. x \in AccesType
  BY <1>1 DEF Hist
<1>4. Emise = [i \in 1 .. na |-> IF i = aLire THEN y ELSE acces[i]]
  BY <1>1 DEF Emise, Hist
<1> HIDE DEF eq, x
<1>5. /\ y \in AccesType /\ y.emis = depuis /\ y.pareil = eq /\ y.ra = x.ra /\ y.date = x.date
      /\ y.pub = x.pub /\ y.juste = x.juste /\ y.long = x.long
  BY <1>2, <1>3 DEF AccesType
<1> HIDE DEF y
<1>6. Emise \in Hist
  BY <1>1, <1>4, <1>5 DEF Hist
<1>7. \A i \in 1 .. na : Emise[i] = IF i = aLire THEN y ELSE acces[i]
  BY <1>4
<1>8. Emise[aLire] = y
  BY <1>1, <1>7
<1>9. \A i \in 1 .. na :
        /\ i # aLire => Emise[i] = acces[i]
        /\ Emise[i].ra = acces[i].ra /\ Emise[i].date = acces[i].date
        /\ Emise[i].pub = acces[i].pub /\ Emise[i].juste = acces[i].juste
        /\ Emise[i].long = acces[i].long
  BY <1>5, <1>7 DEF x
<1>10. Emise[aLire].emis = depuis
  BY <1>5, <1>8
<1>11. Emise[aLire].pareil = eq
  BY <1>5, <1>8
<1> QED BY <1>1, <1>6, <1>9, <1>10, <1>11 DEF eq

\* The ROM sends a burst: the history of its block.
Envoyes == [blocs EXCEPT ![cu.bloc].emis = 5 - rom.reste]

LEMMA EnvoyesDit ==
  ASSUME TypeOK, rom.reste > 0, cu.bloc > 0
  PROVE  /\ Envoyes \in HistBlocs /\ cu.bloc \in 1 .. nb
         /\ \A i \in 1 .. nb :
              /\ i # cu.bloc => Envoyes[i] = blocs[i]
              /\ Envoyes[i].pub = blocs[i].pub /\ Envoyes[i].abime = blocs[i].abime
         /\ Envoyes[cu.bloc].emis = 5 - rom.reste
<1> DEFINE x == blocs[cu.bloc]
           n == 5 - rom.reste
           y == [x EXCEPT !.emis = n]
<1>1. cu.bloc \in 1 .. nb /\ blocs \in HistBlocs /\ nb \in Nat /\ rom.reste \in 1 .. 4
  <2>1. cu.bloc \in 0 .. nb /\ rom.reste \in 0 .. 4
    BY TypesSimples
  <2> QED BY <2>1, TypesDits
<1>2. n \in 0 .. 4
  BY <1>1
<1>3. x \in BlocType
  BY <1>1 DEF HistBlocs
<1>4. Envoyes = [i \in 1 .. nb |-> IF i = cu.bloc THEN y ELSE blocs[i]]
  BY <1>1 DEF Envoyes, HistBlocs
<1> HIDE DEF x, n
<1>5. y \in BlocType /\ y.emis = n /\ y.pub = x.pub /\ y.abime = x.abime
  BY <1>2, <1>3 DEF BlocType
<1> HIDE DEF y
<1>6. Envoyes \in HistBlocs
  BY <1>1, <1>4, <1>5 DEF HistBlocs
<1>7. \A i \in 1 .. nb : Envoyes[i] = IF i = cu.bloc THEN y ELSE blocs[i]
  BY <1>4
<1> QED BY <1>1, <1>5, <1>6, <1>7 DEF n, x

\* The three frames, each with what it hands to its end.
TrameAcces(it) ==
  it /\ RomAcces /\ Fin(it, ScriptAcces(aLire), rom.ptr, rom.bloc, Emise, blocs, cu.blud, 0)
  /\ cu' = [cu EXCEPT !.neuf = FALSE] /\ UNCHANGED rom
Numero == 4 - rom.reste
Suivant == (Numero + 1) % 4
TrameBurst(it) ==
  RomBurst /\ rom' = [ptr |-> Suivant, bloc |-> cu.bloc, reste |-> rom.reste - 1]
  /\ cu' = [cu EXCEPT !.blud = FALSE]
  /\ Fin(it, ScriptBurst(cu.bloc, Numero), Suivant, cu.bloc, acces, Envoyes, FALSE, 0)
TrameRien(it) ==
  RomRien /\ Fin(it, p.prec, rom.ptr, rom.bloc, acces, blocs, cu.blud, aLire)
  /\ cu' = [cu EXCEPT !.neuf = FALSE] /\ UNCHANGED rom

LEMMA TrameDite ==
  ASSUME TypeOK, Trame
  PROVE  /\ etape = "fin" /\ etape' = "l1" /\ UNCHANGED <<ici, dRach, aEcrire, depuis>>
         /\ \E it \in BOOLEAN : TrameAcces(it) \/ TrameBurst(it) \/ TrameRien(it)
<1>1. rom.reste \in 0 .. 4
  BY TypesSimples
<1>2. (4 - rom.reste) + 1 = 5 - rom.reste
  BY <1>1
<1> QED BY <1>2, ZenonT(60)
        DEF Trame, TrameAcces, TrameBurst, TrameRien, Emise, Envoyes, Numero, Suivant

\* What each frame hands to its end is of the right type.
LEMMA TrameTypes ==
  ASSUME TypeInd
  PROVE  /\ p.prec \in Scripts /\ rom.ptr \in 0 .. Hors /\ rom.bloc \in 0 .. nb
         /\ acces \in Hist /\ blocs \in HistBlocs /\ cu.blud \in BOOLEAN
         /\ aLire \in 0 .. na /\ 0 \in 0 .. na
         /\ aLire # 0 => ScriptAcces(aLire) \in Scripts
         /\ rom.reste > 0 => /\ ScriptBurst(cu.bloc, Numero) \in Scripts /\ Numero \in Tour
                             /\ Suivant \in Tour /\ Suivant \in 0 .. Hors /\ cu.bloc \in 1 .. nb
                             /\ NumeroBurst(Suivant) = Numero
<1>1. /\ p.prec \in Scripts /\ rom.ptr \in 0 .. Hors /\ rom.bloc \in 0 .. nb
      /\ acces \in Hist /\ blocs \in HistBlocs /\ cu.blud \in BOOLEAN
      /\ aLire \in 0 .. na /\ 0 \in 0 .. na /\ na \in Nat /\ nb \in Nat
  BY TypesDits, TypesSimples DEF TypeInd, Ponts
<1>2. ASSUME aLire # 0
      PROVE  ScriptAcces(aLire) \in Scripts
  <2>1. acces[aLire].ra \in Ras
    BY <1>1, <1>2 DEF Hist, AccesType
  <2> QED BY <2>1 DEF ScriptAcces, Scripts
<1>3. ASSUME rom.reste > 0
      PROVE  /\ ScriptBurst(cu.bloc, Numero) \in Scripts /\ Numero \in Tour /\ Suivant \in Tour
             /\ Suivant \in 0 .. Hors /\ cu.bloc \in 1 .. nb /\ NumeroBurst(Suivant) = Numero
  <2>1. cu.bloc \in 1 .. nb /\ rom.reste \in 1 .. 4
    BY <1>1, <1>3, TypesSimples DEF TypeInd
  <2>2. rom.reste = 1 \/ rom.reste = 2 \/ rom.reste = 3 \/ rom.reste = 4
    BY <2>1
  <2>3. /\ Numero \in Tour /\ Suivant \in Tour /\ Suivant \in 0 .. Hors
        /\ NumeroBurst(Suivant) = Numero
    BY <2>2 DEF Numero, Suivant, Tour, Hors, NumeroBurst
  <2> QED BY <2>1, <2>3 DEF ScriptBurst, Scripts
<1> QED BY <1>1, <1>2, <1>3

LEMMA TrameType ==
  ASSUME TypeInd, Trame
  PROVE  TypeInd' /\ na' = na /\ nb' = nb
<1>1. /\ na \in Nat /\ nb \in Nat /\ na <= MaxAcces /\ nb <= MaxBlocs /\ TypeOK
      /\ ici \in Installations /\ dRach \in Ras \cup {Residu} /\ aEcrire \in Ras \cup {0}
      /\ depuis \in 0 .. Ecart /\ cu \in [bloc: 0 .. nb, blud: BOOLEAN, neuf: BOOLEAN]
      /\ rom \in [ptr: 0 .. Hors, bloc: 0 .. nb, reste: 0 .. 4]
  BY TypesDits, TypesSimples DEF TypeInd
<1>2. /\ etape' \in {"l1", "fin"} /\ UNCHANGED <<ici, dRach, aEcrire, depuis>>
      /\ \E it \in BOOLEAN : TrameAcces(it) \/ TrameBurst(it) \/ TrameRien(it)
  BY <1>1, TrameDite
<1> DEFINE Juste ==
      /\ u' \in Collectes /\ blocs' \in HistBlocs /\ acces' \in Hist /\ p' \in Ponts
      /\ m' \in Montants /\ page' \in BOOLEAN /\ aLire' \in 0 .. na
      /\ aLire' # 0 => depuis = 0
      /\ cu' \in [bloc: 0 .. nb, blud: BOOLEAN, neuf: BOOLEAN]
      /\ rom' \in [ptr: 0 .. Hors, bloc: 0 .. nb, reste: 0 .. 4]
      /\ rom'.reste > 0 => cu'.bloc > 0
<1>3. ASSUME NEW it \in BOOLEAN, TrameAcces(it)
      PROVE  Juste
  <2>1. aLire # 0
    BY <1>3 DEF TrameAcces, RomAcces
  <2>2. /\ u' \in Collectes /\ blocs' \in HistBlocs /\ acces' \in Hist /\ p' \in Ponts
        /\ m' \in Montants /\ page' \in BOOLEAN /\ aLire' \in {0}
    <3>1. /\ ScriptAcces(aLire) \in Scripts /\ rom.ptr \in 0 .. Hors /\ rom.bloc \in 0 .. nb
          /\ Emise \in Hist /\ blocs \in HistBlocs /\ cu.blud \in BOOLEAN /\ 0 \in 0 .. na
      BY <2>1, TrameTypes, EmiseDit
    <3>2. Fin(it, ScriptAcces(aLire), rom.ptr, rom.bloc, Emise, blocs, cu.blud, 0)
      BY <1>3 DEF TrameAcces
    <3>3. /\ u' \in Collectes /\ blocs' \in HistBlocs /\ acces' \in Hist /\ p' \in Ponts
          /\ m' \in Montants /\ page' \in BOOLEAN /\ aLire' \in {0, 0}
      BY <1>1, <3>1, <3>2, FinType, SMTT(30)
    <3> QED BY <3>3
  <2>3. cu' = [cu EXCEPT !.neuf = FALSE] /\ rom' = rom
    BY <1>3 DEF TrameAcces
  <2>4. /\ cu' \in [bloc: 0 .. nb, blud: BOOLEAN, neuf: BOOLEAN] /\ cu'.bloc = cu.bloc
        /\ rom' \in [ptr: 0 .. Hors, bloc: 0 .. nb, reste: 0 .. 4]
    BY <1>1, <2>3
  <2>5. rom'.reste > 0 => cu'.bloc > 0
    BY <2>3, <2>4 DEF TypeInd
  <2> QED BY <1>1, <2>2, <2>4, <2>5
<1>4. ASSUME NEW it \in BOOLEAN, TrameBurst(it)
      PROVE  Juste
  <2>1. rom.reste > 0
    BY <1>4 DEF TrameBurst, RomBurst
  <2>2. /\ u' \in Collectes /\ blocs' \in HistBlocs /\ acces' \in Hist /\ p' \in Ponts
        /\ m' \in Montants /\ page' \in BOOLEAN /\ aLire' \in {0}
    <3>1. /\ ScriptBurst(cu.bloc, Numero) \in Scripts /\ Suivant \in 0 .. Hors
          /\ cu.bloc \in 0 .. nb /\ acces \in Hist /\ Envoyes \in HistBlocs /\ 0 \in 0 .. na
          /\ FALSE \in BOOLEAN
      BY <1>1, <2>1, TrameTypes, EnvoyesDit DEF TypeInd
    <3>2. Fin(it, ScriptBurst(cu.bloc, Numero), Suivant, cu.bloc, acces, Envoyes, FALSE, 0)
      BY <1>4 DEF TrameBurst
    <3>3. /\ u' \in Collectes /\ blocs' \in HistBlocs /\ acces' \in Hist /\ p' \in Ponts
          /\ m' \in Montants /\ page' \in BOOLEAN /\ aLire' \in {0, 0}
      BY <1>1, <3>1, <3>2, FinType, ZenonT(60)
    <3> QED BY <3>3
  <2>3. /\ cu' = [cu EXCEPT !.blud = FALSE]
        /\ rom' = [ptr |-> Suivant, bloc |-> cu.bloc, reste |-> rom.reste - 1]
    BY <1>4 DEF TrameBurst
  <2>4. cu' \in [bloc: 0 .. nb, blud: BOOLEAN, neuf: BOOLEAN] /\ cu'.bloc = cu.bloc
    BY <1>1, <2>3
  <2>5. cu.bloc \in 1 .. nb /\ Suivant \in 0 .. Hors /\ rom.reste - 1 \in 0 .. 4
    BY <1>1, <2>1, TrameTypes
  <2>6. rom' \in [ptr: 0 .. Hors, bloc: 0 .. nb, reste: 0 .. 4]
    BY <1>1, <2>3, <2>5
  <2>7. cu'.bloc > 0
    BY <1>1, <2>4, <2>5
  <2> QED BY <1>1, <2>2, <2>4, <2>6, <2>7
<1>5. ASSUME NEW it \in BOOLEAN, TrameRien(it)
      PROVE  Juste
  <2>1. aLire # 0 => depuis = 0
    BY <1>5 DEF TrameRien, RomRien
  <2>2. /\ u' \in Collectes /\ blocs' \in HistBlocs /\ acces' \in Hist /\ p' \in Ponts
        /\ m' \in Montants /\ page' \in BOOLEAN /\ aLire' \in {0, aLire} /\ aLire \in 0 .. na
    <3>1. /\ p.prec \in Scripts /\ rom.ptr \in 0 .. Hors /\ rom.bloc \in 0 .. nb
          /\ acces \in Hist /\ blocs \in HistBlocs /\ cu.blud \in BOOLEAN /\ aLire \in 0 .. na
      BY TrameTypes
    <3>2. Fin(it, p.prec, rom.ptr, rom.bloc, acces, blocs, cu.blud, aLire)
      BY <1>5 DEF TrameRien
    <3> QED BY <1>1, <3>1, <3>2, FinType, SMTT(30)
  <2>3. cu' = [cu EXCEPT !.neuf = FALSE] /\ rom' = rom
    BY <1>5 DEF TrameRien
  <2>4. /\ cu' \in [bloc: 0 .. nb, blud: BOOLEAN, neuf: BOOLEAN] /\ cu'.bloc = cu.bloc
        /\ rom' \in [ptr: 0 .. Hors, bloc: 0 .. nb, reste: 0 .. 4]
    BY <1>1, <2>3
  <2>5. rom'.reste > 0 => cu'.bloc > 0
    BY <2>3, <2>4 DEF TypeInd
  <2>6. aLire' \in 0 .. na /\ (aLire' # 0 => depuis = 0)
    BY <1>1, <2>1, <2>2
  <2> QED BY <2>2, <2>4, <2>5, <2>6
<1>6. Juste
  BY <1>2, <1>3, <1>4, <1>5
<1>7. TypeOK' /\ na' = na /\ nb' = nb
  <2>1. ici' \in Installations /\ dRach' \in Ras \cup {Residu} /\ aEcrire' \in Ras \cup {0}
        /\ depuis' \in 0 .. Ecart
    BY <1>1, <1>2
  <2>2. /\ acces' \in [1 .. na -> AccesType] /\ blocs' \in [1 .. nb -> BlocType]
        /\ m' \in [base: BOOLEAN, prev: Ras \cup {0, Residu}, avant: BOOLEAN, vu: BOOLEAN,
                   age: 0 .. GardeTrames, attente: BOOLEAN, ageAttente: 0 .. 1, id: 0 .. na]
        /\ p' \in [actif: BOOLEAN, age: 0 .. Retard, id: 0 .. na, ra: Ras \cup {0, Residu},
                   pose: 0 .. Ecart, emis: 0 .. 2,
                   prec: {RienEmis} \cup ({"AB"} \X Ras \X {0})
                         \cup ({"NB"} \X (1 .. nb) \X Tour)]
        /\ u' \in [prev: 0 .. Hors, masque: SUBSET Tour, bits: [Tour -> 0 .. nb],
                   l2: 0 .. nb, pose: 0 .. nb]
    BY <1>6 DEF Hist, HistBlocs, Montants, Ponts, Scripts, Collectes
  <2> QED BY <1>1, <1>2, <1>6, <2>1, <2>2, TypesSuivants, ZenonT(60)
<1>8. /\ aLire' # 0 => depuis' = 0 \/ (depuis' = 1 /\ etape' = "fin")
      /\ rom'.reste > 0 => cu'.bloc > 0
  BY <1>2, <1>6
<1> QED BY <1>7, <1>8 DEF TypeInd

\* The firmware: a new access, or the history of the last one, whose page stands.
Neuf(ra) == [ra |-> ra, emis |-> -1, date |-> -1, pub |-> 0, juste |-> TRUE,
             pareil |-> FALSE, long |-> FALSE]

LEMMA AjoutDit ==
  ASSUME NEW S, NEW k \in Nat, NEW f \in Seq(S), Len(f) = k, NEW x \in S
  PROVE  /\ Append(f, x) \in [1 .. k + 1 -> S] /\ Append(f, x) \in Seq(S)
         /\ Len(Append(f, x)) = k + 1
         /\ \A i \in 1 .. k : Append(f, x)[i] = f[i]
         /\ Append(f, x)[k + 1] = x
<1>1. /\ Append(f, x) \in Seq(S) /\ Len(Append(f, x)) = k + 1
      /\ \A i \in 1 .. k : Append(f, x)[i] = f[i]
      /\ Append(f, x)[k + 1] = x
  OBVIOUS
<1> QED BY <1>1, Suites

LEMMA PasDAccesDit ==
  ASSUME TypeOK, PasDAcces
  PROVE  /\ acces' \in Hist /\ na' = na /\ page' \in BOOLEAN /\ (page' => page)
         /\ depuis' = (IF depuis < Ecart THEN depuis + 1 ELSE Ecart) /\ depuis' \in 0 .. Ecart
         /\ dRach' = (IF aEcrire = 0 THEN dRach ELSE aEcrire) /\ dRach' \in Ras \cup {Residu}
         /\ aEcrire' = 0 /\ aLire' = aLire
         /\ \A i \in 1 .. na :
              /\ i # na => acces'[i] = acces[i]
              /\ acces'[i].ra = acces[i].ra /\ acces'[i].date = acces[i].date
              /\ acces'[i].emis = acces[i].emis /\ acces'[i].pub = acces[i].pub
              /\ acces'[i].juste = acces[i].juste /\ acces'[i].pareil = acces[i].pareil
              /\ acces[i].long => acces'[i].long
         /\ ~(page' /\ depuis' >= GardeTrames) => acces' = acces
         /\ page' /\ depuis' >= GardeTrames /\ na > 0 => acces'[na].long
<1>1. /\ na \in Nat /\ acces \in Hist /\ page \in BOOLEAN /\ depuis \in 0 .. Ecart
      /\ aEcrire \in Ras \cup {0} /\ dRach \in Ras \cup {Residu}
  BY TypesDits, TypesSimples
<1>2. page' \in BOOLEAN /\ (page' => page)
  <2>1. page' = page \/ page' = FALSE
    BY DEF PasDAcces
  <2>2. CASE page' = page
    BY <1>1, <2>2
  <2>3. CASE page' = FALSE
    BY <2>3
  <2> QED BY <2>1, <2>2, <2>3
<1>3. depuis' = (IF depuis < Ecart THEN depuis + 1 ELSE Ecart) /\ depuis' \in 0 .. Ecart
  BY <1>1, Constantes DEF PasDAcces, Plafond
<1>4. dRach' = (IF aEcrire = 0 THEN dRach ELSE aEcrire) /\ dRach' \in Ras \cup {Residu}
  BY <1>1 DEF PasDAcces, EcrireTard
<1>5. aEcrire' = 0 /\ aLire' = aLire
  BY DEF PasDAcces
<1> DEFINE reste == page' /\ depuis' >= GardeTrames
           x(i) == [acces[i] EXCEPT !.long = TRUE]
<1>6. acces' = IF reste THEN [acces EXCEPT ![na].long = TRUE] ELSE acces
  BY DEF PasDAcces, na
<1>7. \A i \in 1 .. na :
        /\ acces[i] \in AccesType /\ x(i) \in AccesType
        /\ x(i).ra = acces[i].ra /\ x(i).date = acces[i].date /\ x(i).emis = acces[i].emis
        /\ x(i).pub = acces[i].pub /\ x(i).juste = acces[i].juste
        /\ x(i).pareil = acces[i].pareil /\ x(i).long
  <2>1. TAKE i \in 1 .. na
  <2>2. acces[i] \in AccesType
    BY <1>1 DEF Hist
  <2> QED BY <2>2 DEF AccesType
<1>8. CASE reste
  <2>1. acces' = [i \in 1 .. na |-> IF i = na THEN x(i) ELSE acces[i]]
    BY <1>1, <1>6, <1>8 DEF Hist
  <2> HIDE DEF x
  <2>2. acces' \in Hist
    BY <1>7, <2>1 DEF Hist
  <2>3. na' = na
    BY <1>1, <2>2, Suites DEF Hist, na
  <2>4. \A i \in 1 .. na : acces'[i] = IF i = na THEN x(i) ELSE acces[i]
    BY <2>1
  <2>5. \A i \in 1 .. na :
              /\ i # na => acces'[i] = acces[i]
              /\ acces'[i].ra = acces[i].ra /\ acces'[i].date = acces[i].date
              /\ acces'[i].emis = acces[i].emis /\ acces'[i].pub = acces[i].pub
              /\ acces'[i].juste = acces[i].juste /\ acces'[i].pareil = acces[i].pareil
              /\ acces[i].long => acces'[i].long
    BY <1>7, <2>4
  <2>6. na > 0 => acces'[na].long
    BY <1>1, <1>7, <2>4
  <2> HIDE DEF reste
  <2> QED BY <1>2, <1>3, <1>4, <1>5, <1>8, <2>2, <2>3, <2>5, <2>6 DEF reste
<1>9. CASE ~reste
  <2>1. acces' = acces /\ na' = na
    BY <1>6, <1>9 DEF na
  <2> QED BY <1>1, <1>2, <1>3, <1>4, <1>5, <1>9, <2>1
<1> QED BY <1>8, <1>9

LEMMA PoserAccesDit ==
  ASSUME TypeOK, NEW ra \in Ras, PoserAcces(ra)
  PROVE  /\ acces' \in [1 .. na + 1 -> AccesType] /\ na' = na + 1 /\ na + 1 <= MaxAcces
         /\ \A i \in 1 .. na : acces'[i] = acces[i]
         /\ acces'[na + 1] = Neuf(ra) /\ Neuf(ra) \in AccesType
         /\ depuis = Ecart /\ rom.reste = 0 /\ aEcrire = 0 /\ ~page
         /\ page' /\ page' \in BOOLEAN /\ depuis' = 0 /\ aLire' = na + 1
         /\ IF ici.tardif THEN aEcrire' = ra /\ dRach' = dRach
            ELSE dRach' = ra /\ aEcrire' = aEcrire
         /\ UNCHANGED <<cu, rom, blocs>>
<1>1. na \in Nat /\ na <= MaxAcces /\ acces \in Seq(AccesType)
  BY TypesDits DEF TypeOK
<1>2. Neuf(ra) \in AccesType
  BY Constantes DEF Neuf, AccesType, Retard
<1>3. /\ depuis = Ecart /\ na < MaxAcces /\ rom.reste = 0 /\ aEcrire = 0 /\ ~page
      /\ page' = TRUE /\ depuis' = 0 /\ aLire' = na + 1
      /\ IF ici.tardif THEN aEcrire' = ra /\ dRach' = dRach
         ELSE dRach' = ra /\ aEcrire' = aEcrire
      /\ acces' = Append(acces, Neuf(ra)) /\ UNCHANGED <<cu, rom, blocs>>
  BY DEF PoserAcces, Neuf, na
<1>4. /\ acces' \in [1 .. na + 1 -> AccesType] /\ Len(acces') = na + 1
      /\ \A i \in 1 .. na : acces'[i] = acces[i]
      /\ acces'[na + 1] = Neuf(ra)
  <2> DEFINE f == Append(acces, Neuf(ra))
  <2>1. /\ f \in [1 .. na + 1 -> AccesType] /\ Len(f) = na + 1
        /\ \A i \in 1 .. na : f[i] = acces[i]
        /\ f[na + 1] = Neuf(ra)
    BY <1>1, <1>2, AjoutDit DEF na
  <2> HIDE DEF f
  <2>2. acces' = f
    BY <1>3 DEF f
  <2> QED BY <2>1, <2>2
<1>5. na + 1 <= MaxAcces
  BY <1>1, <1>3, Constantes
<1> QED BY <1>2, <1>3, <1>4, <1>5 DEF na

LEMMA PoserBlocDit ==
  ASSUME TypeOK, PoserBloc
  PROVE  /\ blocs' \in [1 .. nb + 1 -> BlocType] /\ nb' = nb + 1 /\ nb + 1 <= MaxBlocs
         /\ \A i \in 1 .. nb : blocs'[i] = blocs[i]
         /\ blocs'[nb + 1] = [emis |-> 0, pub |-> 0, abime |-> FALSE]
         /\ rom.reste = 0 /\ aLire = 0
         /\ cu' = [bloc |-> nb + 1, blud |-> TRUE, neuf |-> TRUE]
         /\ rom' = [rom EXCEPT !.reste = 4]
<1> DEFINE x == [emis |-> 0, pub |-> 0, abime |-> FALSE]
           f == Append(blocs, x)
<1>1. nb \in Nat /\ nb <= MaxBlocs /\ blocs \in Seq(BlocType) /\ x \in BlocType
  BY TypesDits DEF TypeOK, BlocType
<1>2. /\ rom.reste = 0 /\ aLire = 0 /\ nb < MaxBlocs
      /\ cu' = [bloc |-> nb + 1, blud |-> TRUE, neuf |-> TRUE]
      /\ rom' = [rom EXCEPT !.reste = 4]
      /\ blocs' = f
  BY DEF PoserBloc, nb
<1>3. /\ f \in [1 .. nb + 1 -> BlocType] /\ Len(f) = nb + 1
      /\ \A i \in 1 .. nb : f[i] = blocs[i]
      /\ f[nb + 1] = x
  <2> HIDE DEF x
  <2> QED BY <1>1, AjoutDit DEF nb
<1>4. nb + 1 <= MaxBlocs
  BY <1>1, <1>2, Constantes
<1> HIDE DEF x, f
<1>5. nb' = Len(blocs')
  BY DEF nb
<1>6. /\ blocs' \in [1 .. nb + 1 -> BlocType] /\ nb' = nb + 1
      /\ \A i \in 1 .. nb : blocs'[i] = blocs[i]
      /\ blocs'[nb + 1] = x
  BY <1>2, <1>3, <1>5
<1> QED BY <1>2, <1>4, <1>6 DEF x

\* What a longer history leaves of the types.
LEMMA Plus ==
  ASSUME NEW j \in Nat, NEW k \in Nat, na \in Nat, nb \in Nat, na <= j, nb <= k, TypeOK
  PROVE  /\ m \in [base: BOOLEAN, prev: Ras \cup {0, Residu}, avant: BOOLEAN, vu: BOOLEAN,
                   age: 0 .. GardeTrames, attente: BOOLEAN, ageAttente: 0 .. 1, id: 0 .. j]
         /\ p \in [actif: BOOLEAN, age: 0 .. Retard, id: 0 .. j, ra: Ras \cup {0, Residu},
                   pose: 0 .. Ecart, emis: 0 .. 2,
                   prec: {RienEmis} \cup ({"AB"} \X Ras \X {0})
                         \cup ({"NB"} \X (1 .. k) \X Tour)]
         /\ u \in [prev: 0 .. Hors, masque: SUBSET Tour, bits: [Tour -> 0 .. k],
                   l2: 0 .. k, pose: 0 .. k]
         /\ cu \in [bloc: 0 .. k, blud: BOOLEAN, neuf: BOOLEAN]
         /\ rom \in [ptr: 0 .. Hors, bloc: 0 .. k, reste: 0 .. 4]
<1>1. /\ 0 .. na \subseteq 0 .. j /\ 0 .. nb \subseteq 0 .. k /\ 1 .. nb \subseteq 1 .. k
  OBVIOUS
<1>2. m \in Montants /\ p \in Ponts /\ u \in Collectes
  BY TypesDits
<1>3. m \in [base: BOOLEAN, prev: Ras \cup {0, Residu}, avant: BOOLEAN, vu: BOOLEAN,
             age: 0 .. GardeTrames, attente: BOOLEAN, ageAttente: 0 .. 1, id: 0 .. j]
  BY <1>1, <1>2 DEF Montants
<1>4. Scripts \subseteq {RienEmis} \cup ({"AB"} \X Ras \X {0}) \cup ({"NB"} \X (1 .. k) \X Tour)
  BY <1>1 DEF Scripts
<1>5. p \in [actif: BOOLEAN, age: 0 .. Retard, id: 0 .. j, ra: Ras \cup {0, Residu},
             pose: 0 .. Ecart, emis: 0 .. 2,
             prec: {RienEmis} \cup ({"AB"} \X Ras \X {0}) \cup ({"NB"} \X (1 .. k) \X Tour)]
  <2> DEFINE s == {RienEmis} \cup ({"AB"} \X Ras \X {0}) \cup ({"NB"} \X (1 .. k) \X Tour)
  <2>1. Scripts \subseteq s
    BY <1>4
  <2> HIDE DEF s
  <2>2. p \in [actif: BOOLEAN, age: 0 .. Retard, id: 0 .. j, ra: Ras \cup {0, Residu},
               pose: 0 .. Ecart, emis: 0 .. 2, prec: s]
    BY <1>1, <1>2, <2>1 DEF Ponts
  <2> QED BY <2>2 DEF s
<1>6. u \in [prev: 0 .. Hors, masque: SUBSET Tour, bits: [Tour -> 0 .. k], l2: 0 .. k, pose: 0 .. k]
  <2>1. u.bits \in [Tour -> 0 .. nb]
    BY <1>2 DEF Collectes
  <2>2. u.bits \in [Tour -> 0 .. k]
    BY <1>1, <2>1
  <2> QED BY <1>1, <1>2, <2>2 DEF Collectes
<1>7. /\ cu \in [bloc: 0 .. nb, blud: BOOLEAN, neuf: BOOLEAN]
      /\ rom \in [ptr: 0 .. Hors, bloc: 0 .. nb, reste: 0 .. 4]
  BY TypesSimples
<1>8. /\ cu \in [bloc: 0 .. k, blud: BOOLEAN, neuf: BOOLEAN]
      /\ rom \in [ptr: 0 .. Hors, bloc: 0 .. k, reste: 0 .. 4]
  BY <1>1, <1>7
<1> QED BY <1>3, <1>5, <1>6, <1>8

LEMMA QuitterDit ==
  ASSUME TypeOK, Quitter
  PROVE  /\ rom.reste \in 1 .. 3 /\ rom' \in [ptr: 0 .. Hors, bloc: 0 .. nb, reste: 0 .. 4]
         /\ rom'.ptr \in {rom.ptr, Hors} /\ rom'.bloc = rom.bloc /\ rom'.reste = 0
         /\ UNCHANGED <<cu, blocs>>
<1>1. rom \in [ptr: 0 .. Hors, bloc: 0 .. nb, reste: 0 .. 4]
  BY TypesSimples
<1> QED BY <1>1 DEF Quitter, Hors

LEMMA L1SyncType ==
  ASSUME TypeInd, L1Sync
  PROVE  TypeInd'
<1>1. TypeOK
  BY DEF TypeInd
<1>2. /\ na \in Nat /\ nb \in Nat /\ na <= MaxAcces /\ nb <= MaxBlocs
      /\ acces \in Hist /\ blocs \in HistBlocs
  BY <1>1, TypesDits
<1>3. /\ ici' \in Installations /\ etape' \in {"l1", "fin"} /\ etape' = "fin"
      /\ aEcrire \in Ras \cup {0} /\ dRach \in Ras \cup {Residu} /\ depuis \in 0 .. Ecart
      /\ UNCHANGED <<ici, m, p, u>> /\ aLire \in 0 .. na
      /\ etape = "l1"
  BY <1>1, TypesSimples DEF L1Sync
<1>4. ASSUME NEW ra \in Ras, PoserAcces(ra)
      PROVE  TypeInd'
  <2>1. /\ acces' \in [1 .. na + 1 -> AccesType] /\ na + 1 <= MaxAcces
        /\ page' \in BOOLEAN /\ depuis' = 0 /\ aLire' = na + 1
        /\ IF ici.tardif THEN aEcrire' = ra /\ dRach' = dRach
            ELSE dRach' = ra /\ aEcrire' = aEcrire
        /\ UNCHANGED <<cu, rom, blocs>> /\ rom.reste = 0
    BY <1>1, <1>4, PoserAccesDit
  <2>2. /\ aEcrire' \in Ras \cup {0} /\ dRach' \in Ras \cup {Residu}
        /\ depuis' \in 0 .. Ecart /\ aLire' \in 0 .. na + 1 /\ na + 1 \in Nat
    BY <1>2, <1>3, <2>1, Constantes
  <2>3. /\ m' \in [base: BOOLEAN, prev: Ras \cup {0, Residu}, avant: BOOLEAN, vu: BOOLEAN,
                   age: 0 .. GardeTrames, attente: BOOLEAN, ageAttente: 0 .. 1, id: 0 .. na + 1]
        /\ p' \in [actif: BOOLEAN, age: 0 .. Retard, id: 0 .. na + 1, ra: Ras \cup {0, Residu},
                   pose: 0 .. Ecart, emis: 0 .. 2,
                   prec: {RienEmis} \cup ({"AB"} \X Ras \X {0})
                         \cup ({"NB"} \X (1 .. nb) \X Tour)]
        /\ u' \in [prev: 0 .. Hors, masque: SUBSET Tour, bits: [Tour -> 0 .. nb],
                   l2: 0 .. nb, pose: 0 .. nb]
        /\ cu' \in [bloc: 0 .. nb, blud: BOOLEAN, neuf: BOOLEAN]
        /\ rom' \in [ptr: 0 .. Hors, bloc: 0 .. nb, reste: 0 .. 4]
    <3>1. na <= na + 1 /\ nb <= nb
      BY <1>2
    <3>2. m' = m /\ p' = p /\ u' = u /\ cu' = cu /\ rom' = rom
      BY <1>3, <2>1
    <3> QED BY <1>1, <1>2, <2>2, <3>1, <3>2, Plus, ZenonT(60)
  <2>4. blocs' \in [1 .. nb -> BlocType]
    BY <1>2, <2>1 DEF HistBlocs
  <2>5. TypeOK'
    BY <1>2, <1>3, <2>1, <2>2, <2>3, <2>4, TypesSuivants, ZenonT(60)
  <2> QED BY <1>3, <2>1, <2>5 DEF TypeInd
<1>5. ASSUME PasDAcces
      PROVE  /\ acces' \in [1 .. na -> AccesType] /\ page' \in BOOLEAN
             /\ aEcrire' \in Ras \cup {0} /\ dRach' \in Ras \cup {Residu}
             /\ depuis' \in 0 .. Ecart /\ aLire' \in 0 .. na
             /\ aLire' # 0 => depuis' = 0 \/ (depuis' = 1 /\ etape' = "fin")
  <2>1. /\ acces' \in Hist /\ page' \in BOOLEAN
        /\ depuis' = (IF depuis < Ecart THEN depuis + 1 ELSE Ecart) /\ depuis' \in 0 .. Ecart
        /\ dRach' \in Ras \cup {Residu} /\ aEcrire' = 0 /\ aLire' = aLire
    BY <1>1, <1>5, PasDAccesDit
  <2>2. aLire # 0 => depuis = 0
    BY <1>3 DEF TypeInd
  <2>3. aLire # 0 => depuis' = 1
    BY <1>3, <2>1, <2>2, Constantes
  <2> QED BY <1>3, <2>1, <2>3 DEF Hist
<1>6. ASSUME PasDAcces, PoserBloc
      PROVE  TypeInd'
  <2>1. /\ blocs' \in [1 .. nb + 1 -> BlocType] /\ nb + 1 <= MaxBlocs
        /\ cu' = [bloc |-> nb + 1, blud |-> TRUE, neuf |-> TRUE]
        /\ rom' = [rom EXCEPT !.reste = 4]
    BY <1>1, <1>6, PoserBlocDit
  <2>2. /\ m' \in [base: BOOLEAN, prev: Ras \cup {0, Residu}, avant: BOOLEAN, vu: BOOLEAN,
                   age: 0 .. GardeTrames, attente: BOOLEAN, ageAttente: 0 .. 1, id: 0 .. na]
        /\ p' \in [actif: BOOLEAN, age: 0 .. Retard, id: 0 .. na, ra: Ras \cup {0, Residu},
                   pose: 0 .. Ecart, emis: 0 .. 2,
                   prec: {RienEmis} \cup ({"AB"} \X Ras \X {0})
                         \cup ({"NB"} \X (1 .. nb + 1) \X Tour)]
        /\ u' \in [prev: 0 .. Hors, masque: SUBSET Tour, bits: [Tour -> 0 .. nb + 1],
                   l2: 0 .. nb + 1, pose: 0 .. nb + 1]
        /\ rom \in [ptr: 0 .. Hors, bloc: 0 .. nb + 1, reste: 0 .. 4]
    <3>1. na <= na /\ nb <= nb + 1 /\ nb + 1 \in Nat
      BY <1>2
    <3>2. m' = m /\ p' = p /\ u' = u
      BY <1>3
    <3> QED BY <1>1, <1>2, <3>1, <3>2, Plus, ZenonT(60)
  <2>3. /\ cu' \in [bloc: 0 .. nb + 1, blud: BOOLEAN, neuf: BOOLEAN] /\ cu'.bloc > 0
        /\ rom' \in [ptr: 0 .. Hors, bloc: 0 .. nb + 1, reste: 0 .. 4] /\ nb + 1 \in Nat
    <3>1. nb + 1 \in Nat /\ nb + 1 > 0 /\ nb + 1 \in 0 .. nb + 1
      BY <1>2
    <3> DEFINE k == nb + 1
    <3> HIDE DEF k
    <3>2. cu' \in [bloc: 0 .. k, blud: BOOLEAN, neuf: BOOLEAN] /\ cu'.bloc = k
      <4>1. k \in 0 .. k /\ cu' = [bloc |-> k, blud |-> TRUE, neuf |-> TRUE]
        BY <2>1, <3>1 DEF k
      <4> QED BY <4>1
    <3>3. rom' \in [ptr: 0 .. Hors, bloc: 0 .. k, reste: 0 .. 4]
      <4>1. rom \in [ptr: 0 .. Hors, bloc: 0 .. k, reste: 0 .. 4]
        BY <2>2 DEF k
      <4> QED BY <2>1, <4>1
    <3> QED BY <3>1, <3>2, <3>3 DEF k
  <2>4. TypeOK'
    BY <1>2, <1>3, <1>5, <1>6, <2>1, <2>2, <2>3, TypesSuivants, ZenonT(60)
  <2> QED BY <1>5, <1>6, <2>3, <2>4 DEF TypeInd
<1>7. ASSUME PasDAcces, Quitter \/ UNCHANGED <<cu, rom, blocs>>
      PROVE  TypeInd'
  <2>1. /\ cu' = cu /\ blocs' = blocs
        /\ rom' = rom \/ (rom' \in [ptr: 0 .. Hors, bloc: 0 .. nb, reste: 0 .. 4] /\ rom'.reste = 0)
    BY <1>1, <1>7, QuitterDit
  <2>2. /\ m' \in [base: BOOLEAN, prev: Ras \cup {0, Residu}, avant: BOOLEAN, vu: BOOLEAN,
                   age: 0 .. GardeTrames, attente: BOOLEAN, ageAttente: 0 .. 1, id: 0 .. na]
        /\ p' \in [actif: BOOLEAN, age: 0 .. Retard, id: 0 .. na, ra: Ras \cup {0, Residu},
                   pose: 0 .. Ecart, emis: 0 .. 2,
                   prec: {RienEmis} \cup ({"AB"} \X Ras \X {0})
                         \cup ({"NB"} \X (1 .. nb) \X Tour)]
        /\ u' \in [prev: 0 .. Hors, masque: SUBSET Tour, bits: [Tour -> 0 .. nb],
                   l2: 0 .. nb, pose: 0 .. nb]
        /\ cu' \in [bloc: 0 .. nb, blud: BOOLEAN, neuf: BOOLEAN]
        /\ rom \in [ptr: 0 .. Hors, bloc: 0 .. nb, reste: 0 .. 4]
    <3>1. na <= na /\ nb <= nb
      BY <1>2
    <3>2. m' = m /\ p' = p /\ u' = u /\ cu' = cu
      BY <1>3, <2>1
    <3> QED BY <1>1, <1>2, <3>1, <3>2, Plus, ZenonT(60)
  <2>3. rom' \in [ptr: 0 .. Hors, bloc: 0 .. nb, reste: 0 .. 4]
    BY <2>1, <2>2
  <2>4. blocs' \in [1 .. nb -> BlocType]
    BY <1>2, <2>1 DEF HistBlocs
  <2>5. TypeOK'
    BY <1>2, <1>3, <1>5, <1>7, <2>2, <2>3, <2>4, TypesSuivants, ZenonT(60)
  <2>6. rom'.reste > 0 => cu'.bloc > 0
    BY <2>1 DEF TypeInd
  <2> QED BY <1>5, <1>7, <2>5, <2>6 DEF TypeInd
<1> QED BY <1>4, <1>6, <1>7 DEF L1Sync

LEMMA InitType ==
  ASSUME Init
  PROVE  TypeInd
<1>1. /\ m \in [base: BOOLEAN, prev: Ras \cup {0, Residu}, avant: BOOLEAN, vu: BOOLEAN,
            age: 0 .. GardeTrames, attente: BOOLEAN, ageAttente: 0 .. 1, id: 0 .. 0]
      /\ p \in [actif: BOOLEAN, age: 0 .. Retard, id: 0 .. 0, ra: Ras \cup {0, Residu},
            pose: 0 .. Ecart, emis: 0 .. 2,
            prec: {RienEmis} \cup ({"AB"} \X Ras \X {0}) \cup ({"NB"} \X (1 .. 0) \X Tour)]
      /\ cu \in [bloc: 0 .. 0, blud: BOOLEAN, neuf: BOOLEAN]
      /\ rom \in [ptr: 0 .. Hors, bloc: 0 .. 0, reste: 0 .. 4]
      /\ rom.reste = 0
  BY Constantes DEF Init, Retard, Hors
<1>2. u \in [prev: 0 .. Hors, masque: SUBSET Tour, bits: [Tour -> 0 .. 0], l2: 0 .. 0, pose: 0 .. 0]
  BY DEF Init, Hors, Tour
<1>3. acces = <<>> /\ blocs = <<>> /\ Len(acces) = 0 /\ Len(blocs) = 0
  BY DEF Init
<1>4. acces \in Seq(AccesType) /\ blocs \in Seq(BlocType) /\ aLire = 0
  BY <1>3 DEF Init
<1>5. /\ ici \in Installations /\ etape = "l1" /\ page = FALSE /\ dRach = Residu
      /\ aEcrire = 0 /\ depuis = Ecart /\ aLire = 0 /\ depuis \in 0 .. Ecart
      /\ 0 <= MaxAcces /\ 0 <= MaxBlocs /\ 0 \in 0 .. 0
  BY Constantes DEF Init
<1>6. TypeOK
  BY <1>1, <1>2, <1>3, <1>4, <1>5 DEF TypeOK
<1> QED BY <1>1, <1>4, <1>6 DEF TypeInd

LEMMA TypeStable ==
  ASSUME TypeInd, [Next]_vars
  PROVE  TypeInd'
<1>1. CASE L1Sync
  BY <1>1, L1SyncType
<1>2. CASE Trame
  BY <1>2, TrameType
<1>3. CASE UNCHANGED vars
  BY <1>3, SMTT(30) DEF vars, TypeInd, TypeOK
<1> QED BY <1>1, <1>2, <1>3 DEF Next

\* Type correctness: in particular an index into a history is that of an access or a block
\* posted, and a script that names a block, a block that exists.
THEOREM TypeCorrecte == Spec => []TypeOK
<1>1. Init => TypeInd
  BY InitType
<1>2. TypeInd /\ [Next]_vars => TypeInd'
  BY TypeStable
<1>3. TypeInd => TypeOK
  BY DEF TypeInd
<1> QED BY <1>1, <1>2, <1>3, PTL DEF Spec

-----------------------------------------------------------------------------
(* The blocks, whole.                                                      *)

\* What a frame does of the blocks: nothing is sent, or a burst of the block in a_cu.
SansBurst ==
  /\ aLire # 0 \/ rom.reste = 0 \/ cu.neuf
  /\ rom' = rom /\ cu' = [cu EXCEPT !.neuf = FALSE] /\ aLire' \in {0, aLire}
  /\ u' = Pose(Collecter(rom.ptr, rom.bloc), cu.blud)
  /\ blocs' = IF Part(rom.ptr) THEN BlocPublie(blocs, Collecter(rom.ptr, rom.bloc)) ELSE blocs
AvecBurst ==
  /\ aLire = 0 /\ rom.reste > 0 /\ ~cu.neuf /\ aLire' = 0
  /\ rom' = [ptr |-> Suivant, bloc |-> cu.bloc, reste |-> rom.reste - 1]
  /\ cu' = [cu EXCEPT !.blud = FALSE]
  /\ u' = Pose(Collecter(Suivant, cu.bloc), FALSE)
  /\ blocs' = IF Part(Suivant) THEN BlocPublie(Envoyes, Collecter(Suivant, cu.bloc)) ELSE Envoyes

LEMMA FinBlocs ==
  ASSUME TypeOK, NEW it \in BOOLEAN, NEW script \in Scripts, NEW ptr, NEW bloc,
         NEW emise \in Hist, NEW envoyes, NEW blud, NEW enCours \in 0 .. na,
         Fin(it, script, ptr, bloc, emise, envoyes, blud, enCours)
  PROVE  /\ u' = Pose(Collecter(ptr, bloc), blud)
         /\ blocs' = IF Part(ptr) THEN BlocPublie(envoyes, Collecter(ptr, bloc)) ELSE envoyes
         /\ aLire' \in {0, enCours}
<1>1. /\ u' = Pose(Collecter(ptr, bloc), blud)
      /\ blocs' = IF Part(ptr) THEN BlocPublie(envoyes, Collecter(ptr, bloc)) ELSE envoyes
      /\ aLire' = IF Vient /\ ici.efface = "oui" THEN 0 ELSE enCours
  BY FinDit, ZenonT(60)
<1> QED BY <1>1

LEMMA TrameBlocs ==
  ASSUME TypeInd, Trame
  PROVE  etape = "fin" /\ etape' = "l1" /\ (SansBurst \/ AvecBurst)
<1>1. /\ TypeOK /\ na \in Nat /\ 0 \in 0 .. na /\ aLire \in 0 .. na /\ p.prec \in Scripts
      /\ acces \in Hist
  BY TypesDits, TrameTypes DEF TypeInd
<1>2. /\ etape = "fin" /\ etape' = "l1"
      /\ \E it \in BOOLEAN : TrameAcces(it) \/ TrameBurst(it) \/ TrameRien(it)
  BY <1>1, TrameDite
<1>3. ASSUME NEW it \in BOOLEAN, TrameAcces(it)
      PROVE  SansBurst
  <2>1. aLire # 0 /\ Fin(it, ScriptAcces(aLire), rom.ptr, rom.bloc, Emise, blocs, cu.blud, 0)
        /\ cu' = [cu EXCEPT !.neuf = FALSE] /\ rom' = rom
    BY <1>3 DEF TrameAcces, RomAcces
  <2>2. ScriptAcces(aLire) \in Scripts /\ Emise \in Hist
    BY <2>1, TrameTypes, EmiseDit
  <2>3. /\ u' = Pose(Collecter(rom.ptr, rom.bloc), cu.blud)
        /\ blocs' = IF Part(rom.ptr) THEN BlocPublie(blocs, Collecter(rom.ptr, rom.bloc))
                    ELSE blocs
        /\ aLire' \in {0, 0}
    BY <1>1, <2>1, <2>2, FinBlocs, ZenonT(60)
  <2> QED BY <2>1, <2>3 DEF SansBurst
<1>4. ASSUME NEW it \in BOOLEAN, TrameBurst(it)
      PROVE  AvecBurst
  <2>1. /\ aLire = 0 /\ rom.reste > 0 /\ ~cu.neuf
        /\ rom' = [ptr |-> Suivant, bloc |-> cu.bloc, reste |-> rom.reste - 1]
        /\ cu' = [cu EXCEPT !.blud = FALSE]
        /\ Fin(it, ScriptBurst(cu.bloc, Numero), Suivant, cu.bloc, acces, Envoyes, FALSE, 0)
    BY <1>4 DEF TrameBurst, RomBurst
  <2>2. ScriptBurst(cu.bloc, Numero) \in Scripts
    BY <2>1, TrameTypes
  <2>3. /\ u' = Pose(Collecter(Suivant, cu.bloc), FALSE)
        /\ blocs' = IF Part(Suivant) THEN BlocPublie(Envoyes, Collecter(Suivant, cu.bloc))
                    ELSE Envoyes
        /\ aLire' \in {0, 0}
    BY <1>1, <2>1, <2>2, FinBlocs, ZenonT(60)
  <2> QED BY <2>1, <2>3 DEF AvecBurst
<1>5. ASSUME NEW it \in BOOLEAN, TrameRien(it)
      PROVE  SansBurst
  <2>1. /\ Fin(it, p.prec, rom.ptr, rom.bloc, acces, blocs, cu.blud, aLire)
        /\ cu' = [cu EXCEPT !.neuf = FALSE] /\ rom' = rom /\ (rom.reste > 0 => cu.neuf)
    BY <1>5 DEF TrameRien, RomRien
  <2>2. /\ u' = Pose(Collecter(rom.ptr, rom.bloc), cu.blud)
        /\ blocs' = IF Part(rom.ptr) THEN BlocPublie(blocs, Collecter(rom.ptr, rom.bloc))
                    ELSE blocs
        /\ aLire' \in {0, aLire}
    BY <1>1, <2>1, FinBlocs, ZenonT(60)
  <2>3. rom.reste = 0 \/ cu.neuf
    BY <1>1, <2>1, TypesSimples
  <2> QED BY <2>1, <2>2, <2>3 DEF SansBurst
<1> QED BY <1>2, <1>3, <1>4, <1>5

LEMMA SansBurstBlocs ==
  ASSUME TypeInd, TypeInd', InvBlocs, SansBurst, na' = na, nb' = nb, etape = "fin", etape' = "l1"
  PROVE  InvBlocs'
<1>1. /\ nb \in Nat /\ u \in Collectes /\ blocs \in HistBlocs /\ TypeOK
      /\ cu \in [bloc: 0 .. nb, blud: BOOLEAN, neuf: BOOLEAN]
      /\ rom \in [ptr: 0 .. Hors, bloc: 0 .. nb, reste: 0 .. 4] /\ aLire \in Nat
  <2>1. TypeOK
    BY DEF TypeInd
  <2>2. /\ aLire \in 0 .. na /\ cu \in [bloc: 0 .. nb, blud: BOOLEAN, neuf: BOOLEAN]
        /\ rom \in [ptr: 0 .. Hors, bloc: 0 .. nb, reste: 0 .. 4]
    BY <2>1, TypesSimples
  <2>3. nb \in Nat /\ u \in Collectes /\ blocs \in HistBlocs /\ na \in Nat
    BY <2>1, TypesDits
  <2> QED BY <2>1, <2>2, <2>3
<1>2. /\ rom' = rom /\ cu' = [cu EXCEPT !.neuf = FALSE] /\ aLire' \in {0, aLire}
      /\ rom.reste = 0 \/ (rom.reste = 4 /\ cu.neuf)
  <2>1. aLire # 0 \/ rom.reste = 0 \/ cu.neuf
    BY DEF SansBurst
  <2>2. (cu.neuf => rom.reste = 4) /\ (rom.reste > 0 => aLire = 0)
    BY DEF InvBlocs, EnVoie
  <2>3. rom.reste = 0 \/ (rom.reste = 4 /\ cu.neuf)
    BY <1>1, <2>1, <2>2
  <2> QED BY <2>3 DEF SansBurst
<1>3. rom.ptr = u.prev \/ (rom.ptr # u.prev /\ rom.ptr = Hors)
  BY DEF InvBlocs, Pointeur
<1>4. blocs' = blocs
  BY <1>3 DEF SansBurst, Part, Hors
<1> DEFINE v == Collecter(rom.ptr, rom.bloc)
<1>5. /\ v \in Collectes /\ v.prev = rom.ptr /\ v.pose = u.pose
      /\ rom.ptr = u.prev => v = u
      /\ rom.ptr # u.prev /\ rom.ptr = Hors => v.masque = {} /\ v.bits = u.bits /\ v.l2 = u.l2
  <2>1. rom.ptr \in 0 .. Hors /\ rom.bloc \in 0 .. nb
    BY <1>1
  <2>2. v \in Collectes /\ v.prev = rom.ptr /\ v.pose = u.pose
    BY <1>1, <2>1, CollecterForme, ZenonT(60)
  <2>3. rom.ptr = u.prev => v = u
    BY DEF Collecter
  <2>4. ASSUME rom.ptr # u.prev, rom.ptr = Hors
        PROVE  v.masque = {} /\ v.bits = u.bits /\ v.l2 = u.l2
    BY <1>1, <2>1, <2>4, CollecterDit, ZenonT(60)
  <2> QED BY <2>2, <2>3, <2>4
<1>6. u' = Pose(v, cu.blud)
  BY DEF SansBurst
<1> HIDE DEF v
<1>7. /\ u'.prev = v.prev /\ u'.masque = v.masque
      /\ u'.pose = IF cu.blud THEN cu.bloc ELSE v.pose
  <2>1. cu.bloc \in 0 .. nb /\ cu.blud \in BOOLEAN
    BY <1>1
  <2> QED BY <1>1, <1>5, <1>6, <2>1, PoseDit
<1>8. u'.prev = rom.ptr /\ u'.masque = MasqueDe(rom.ptr)
  <2>1. CASE rom.ptr = u.prev
    BY <1>5, <1>7, <2>1 DEF InvBlocs, Pointeur
  <2>2. CASE rom.ptr # u.prev /\ rom.ptr = Hors
    BY <1>5, <1>7, <2>2 DEF MasqueDe, Hors
  <2> QED BY <1>3, <2>1, <2>2
<1>9. Pointeur'
  <2>1. rom'.ptr = u'.prev /\ u'.masque = MasqueDe(u'.prev)
    BY <1>2, <1>8
  <2>2. rom'.reste \in {0, 4} /\ rom'.ptr = 1 => Dernier' >= 1 /\ blocs'[Dernier'].emis = 1
    BY <1>2, <1>4 DEF InvBlocs, Pointeur, Dernier
  <2>3. rom'.reste \in 1 .. 3 => rom'.ptr = 4 - rom'.reste
    BY <1>2
  <2> QED BY <2>1, <2>2, <2>3 DEF Pointeur, MasqueDe
<1>10. EnVoie'
  <2>1. cu'.bloc = cu.bloc /\ cu'.blud = cu.blud /\ ~cu'.neuf
    BY <1>1, <1>2
  <2>2. nb > 0 => u'.pose = nb
    BY <1>1, <1>2, <1>5, <1>7 DEF InvBlocs, EnVoie
  <2>3. rom'.reste \notin 1 .. 3 /\ (rom'.reste > 0 => nb > 0)
    BY <1>2 DEF InvBlocs, EnVoie
  <2>4. rom'.reste > 0 => blocs'[nb].emis = 4 - rom'.reste /\ blocs'[nb].pub = 0
                          /\ ~blocs'[nb].abime /\ aLire' = 0
    BY <1>2, <1>4 DEF InvBlocs, EnVoie
  <2>5. cu'.bloc = nb /\ (rom'.reste = 4 => cu'.blud)
    BY <1>2, <2>1 DEF InvBlocs, EnVoie
  <2> QED BY <2>1, <2>2, <2>3, <2>4, <2>5 DEF EnVoie
<1>11. BlocsRendus'
  BY <1>4 DEF InvBlocs, BlocsRendus, Seul
<1> QED BY <1>9, <1>10, <1>11 DEF InvBlocs

LEMMA AvecBurstBlocs ==
  ASSUME TypeInd, TypeInd', InvBlocs, AvecBurst, na' = na, nb' = nb, etape = "fin", etape' = "l1"
  PROVE  InvBlocs'
<1>1. /\ nb \in Nat /\ u \in Collectes /\ blocs \in HistBlocs /\ TypeOK
      /\ cu \in [bloc: 0 .. nb, blud: BOOLEAN, neuf: BOOLEAN]
      /\ rom \in [ptr: 0 .. Hors, bloc: 0 .. nb, reste: 0 .. 4]
  BY TypesDits, TypesSimples DEF TypeInd
<1>2. /\ aLire' = 0 /\ ~cu.neuf /\ rom.reste > 0 /\ rom.reste \in 1 .. 4
      /\ rom' = [ptr |-> Suivant, bloc |-> cu.bloc, reste |-> rom.reste - 1]
      /\ cu' = [cu EXCEPT !.blud = FALSE]
  BY <1>1 DEF AvecBurst
<1> DEFINE v == Collecter(Suivant, cu.bloc)
           b == Numero
<1>3. /\ Numero \in Tour /\ Suivant \in Tour /\ Suivant \in 0 .. Hors
      /\ cu.bloc \in 1 .. nb /\ cu.bloc \in 0 .. nb /\ NumeroBurst(Suivant) = Numero
  <2>1. /\ Numero \in Tour /\ Suivant \in Tour /\ Suivant \in 0 .. Hors
        /\ cu.bloc \in 1 .. nb /\ NumeroBurst(Suivant) = Numero
    BY <1>2, TrameTypes
  <2> QED BY <1>1, <2>1
<1>4. /\ b = 4 - rom.reste /\ b \in 0 .. 3 /\ Suivant = (IF b = 3 THEN 0 ELSE b + 1)
  <2>1. rom.reste = 1 \/ rom.reste = 2 \/ rom.reste = 3 \/ rom.reste = 4
    BY <1>2
  <2> QED BY <2>1 DEF Numero, Suivant
<1>5. /\ rom'.ptr = Suivant /\ rom'.reste = rom.reste - 1 /\ rom'.reste = 3 - b
      /\ cu'.bloc = cu.bloc /\ cu'.neuf = cu.neuf /\ ~cu'.blud /\ cu.bloc = nb /\ nb > 0
      /\ rom.ptr = u.prev
  <2>1. rom'.ptr = Suivant /\ rom'.reste = rom.reste - 1 /\ rom'.reste = 3 - b
    BY <1>2, <1>4
  <2>2. cu'.bloc = cu.bloc /\ cu'.neuf = cu.neuf /\ ~cu'.blud
    BY <1>1, <1>2
  <2>3. cu.bloc = nb /\ nb > 0
    BY <1>2 DEF InvBlocs, EnVoie
  <2>4. rom.ptr = u.prev
    BY <1>2 DEF InvBlocs, Pointeur
  <2> QED BY <2>1, <2>2, <2>3, <2>4
<1>6. /\ v \in Collectes /\ v.prev = Suivant /\ v.pose = u.pose
      /\ Suivant = u.prev => v = u
      /\ Suivant # u.prev =>
           /\ v.bits = [u.bits EXCEPT ![b] = nb]
           /\ v.l2 = (IF b = 0 THEN u.pose ELSE u.l2)
           /\ v.masque = (IF b = 3 THEN {} ELSE IF b = 0 THEN {0} ELSE u.masque \cup {b})
  <2>1. v \in Collectes /\ v.prev = Suivant /\ v.pose = u.pose
    BY <1>1, <1>3, CollecterForme, ZenonT(60)
  <2>2. Suivant = u.prev => v = u
    BY DEF Collecter
  <2>3. Suivant # Hors
    BY <1>3 DEF Tour, Hors
  <2>7. nb \in Nat /\ u \in Collectes
    BY <1>1
  <2>8. Suivant \in 0 .. Hors /\ cu.bloc \in 0 .. nb /\ NumeroBurst(Suivant) = b
    BY <1>3
  <2>4. ASSUME Suivant # u.prev
        PROVE  v.bits = [u.bits EXCEPT ![b] = nb]
    BY <1>5, <2>3, <2>4, <2>7, <2>8, CollecterDit, ZenonT(60)
  <2>5. ASSUME Suivant # u.prev
        PROVE  v.l2 = (IF b = 0 THEN u.pose ELSE u.l2)
    BY <2>3, <2>5, <2>7, <2>8, CollecterDit
  <2>6. ASSUME Suivant # u.prev
        PROVE  v.masque = (IF b = 3 THEN {} ELSE IF b = 0 THEN {0} ELSE u.masque \cup {b})
    BY <2>3, <2>6, <2>7, <2>8, CollecterDit
  <2> QED BY <2>1, <2>2, <2>4, <2>5, <2>6
<1>7. u' = Pose(v, FALSE)
  BY DEF AvecBurst
<1> HIDE DEF v, b
<1>8. /\ u'.prev = v.prev /\ u'.masque = v.masque /\ u'.bits = v.bits /\ u'.l2 = v.l2
      /\ u'.pose = v.pose
  BY <1>7 DEF Pose
\* Where the pointer was before the burst.
<1>9. /\ b > 0 => u.prev = b /\ Suivant # u.prev /\ u.masque = 0 .. b - 1
      /\ b = 0 /\ u.prev = 1 => ~Seul(nb)
  <2>1. b > 0 => rom.reste \in 1 .. 3 /\ rom.ptr = b
    BY <1>2, <1>4 DEF InvBlocs, Pointeur
  <2>2. ASSUME b > 0
        PROVE  u.prev = b /\ Suivant # u.prev /\ u.masque = 0 .. b - 1
    <3>1. u.prev = b
      BY <1>5, <2>1, <2>2
    <3>2. u.masque = MasqueDe(u.prev)
      BY DEF InvBlocs, Pointeur
    <3>3. Suivant # u.prev /\ b \in 1 .. 3
      BY <1>4, <2>2, <3>1
    <3> QED BY <3>1, <3>2, <3>3 DEF MasqueDe
  <2>3. ASSUME b = 0, u.prev = 1
        PROVE  ~Seul(nb)
    <3>1. rom.reste = 4 /\ rom.ptr = 1
      BY <1>2, <1>4, <1>5, <2>3
    <3>2. Dernier = nb - 1 /\ Dernier >= 1 /\ blocs[Dernier].emis = 1
      BY <3>1 DEF InvBlocs, Pointeur, Dernier
    <3> QED BY <1>1, <3>2 DEF Seul
  <2> QED BY <2>2, <2>3
<1>10. /\ Envoyes \in HistBlocs /\ \A i \in 1 .. nb : i # nb => Envoyes[i] = blocs[i]
       /\ Envoyes[nb].pub = blocs[nb].pub /\ Envoyes[nb].abime = blocs[nb].abime
       /\ Envoyes[nb].emis = 5 - rom.reste /\ Envoyes[nb].emis = b + 1
       /\ blocs[nb].pub = 0 /\ ~blocs[nb].abime
  <2>1. cu.bloc > 0
    BY <1>1, <1>3
  <2>2. /\ Envoyes \in HistBlocs /\ \A i \in 1 .. nb : i # nb => Envoyes[i] = blocs[i]
        /\ Envoyes[nb].pub = blocs[nb].pub /\ Envoyes[nb].abime = blocs[nb].abime
        /\ Envoyes[nb].emis = 5 - rom.reste
    BY <1>1, <1>2, <1>3, <1>5, <2>1, EnvoyesDit
  <2>3. 5 - rom.reste = b + 1
    BY <1>2, <1>4
  <2>4. blocs[nb].pub = 0 /\ ~blocs[nb].abime
    BY <1>2 DEF InvBlocs, EnVoie
  <2> QED BY <2>2, <2>3, <2>4
\* The block is published with its last burst.
<1>11. Part(Suivant) <=> b = 3
  <2>1. CASE b = 3
    <3>1. Suivant = 0 /\ u.prev = 3 /\ u.masque = 0 .. 2
      BY <1>4, <1>9, <2>1
    <3>2. Masque(3) = u.masque \cup {3}
      BY DEF Masque, DebutBloc
    <3>3. Masque(3) = Tour
      BY <3>1, <3>2 DEF Tour
    <3> QED BY <2>1, <3>1, <3>3 DEF Part
  <2>2. CASE b # 3
    <3>1. Suivant # 0
      BY <1>4, <2>2
    <3> QED BY <2>2, <3>1 DEF Part
  <2> QED BY <2>1, <2>2
<1>12. /\ \A i \in 1 .. nb : i # nb => blocs'[i] = blocs[i]
       /\ blocs'[nb].emis = b + 1
       /\ b # 3 => blocs'[nb].pub = 0 /\ ~blocs'[nb].abime
       /\ b = 3 => /\ Seul(nb) => blocs'[nb].pub = 1
                   /\ Seul(nb) => ~blocs'[nb].abime
  <2>1. CASE b # 3
    <3>1. blocs' = Envoyes
      BY <1>11, <2>1 DEF AvecBurst
    <3> QED BY <1>10, <2>1, <3>1
  <2>2. CASE b = 3
    <3>1. blocs' = BlocPublie(Envoyes, v)
      BY <1>11, <2>2 DEF AvecBurst, v
    <3>2. v.bits = [u.bits EXCEPT ![3] = nb] /\ v.l2 = u.l2
      BY <1>6, <1>9, <2>2
    <3>3. u.bits \in [Tour -> 0 .. nb] /\ nb \in 1 .. nb
      BY <1>1, <1>5 DEF Collectes
    <3>4. v.bits[3] = nb /\ \A k \in 0 .. 2 : v.bits[k] = u.bits[k]
      BY <3>2, <3>3 DEF Tour
    <3>5. \A i \in 1 .. nb : i # nb => blocs'[i] = Envoyes[i]
      BY <1>1, <1>6, <1>10, <3>1, <3>4, BlocPublieDit
    <3>6. blocs'[nb] = IF v.l2 = nb /\ \A k \in Tour : v.bits[k] = nb
                       THEN Entier(Envoyes[nb]) ELSE Abime(Envoyes[nb])
      <4>1. nb \in Nat /\ Envoyes \in HistBlocs /\ v \in Collectes /\ v.bits[3] = nb
            /\ v.bits[3] \in 1 .. nb
        BY <1>1, <1>6, <1>10, <3>3, <3>4
      <4>2. BlocPublie(Envoyes, v)[v.bits[3]] =
              IF v.l2 = v.bits[3] /\ \A k \in Tour : v.bits[k] = v.bits[3]
              THEN Entier(Envoyes[v.bits[3]]) ELSE Abime(Envoyes[v.bits[3]])
        BY <4>1, BlocPublieDit, ZenonT(60)
      <4> QED BY <3>1, <4>1, <4>2
    <3>7. Envoyes[nb] \in BlocType
      BY <1>10, <3>3 DEF HistBlocs
    <3>8. blocs'[nb].emis = Envoyes[nb].emis
      BY <3>6, <3>7, EntierDit
    <3>9. ASSUME Seul(nb)
          PROVE  blocs'[nb].pub = 1 /\ ~blocs'[nb].abime
      <4>1. rom.reste = 1
        BY <1>2, <1>4, <2>2
      <4>2. u.l2 = nb /\ \A k \in 0 .. 2 : u.bits[k] = nb
        BY <3>9, <4>1 DEF InvBlocs, EnVoie
      <4>3. v.l2 = nb /\ \A k \in Tour : v.bits[k] = nb
        BY <3>2, <3>4, <4>2 DEF Tour
      <4>4. blocs'[nb] = Entier(Envoyes[nb])
        BY <3>6, <4>3
      <4> QED BY <1>10, <3>7, <4>4, EntierDit
    <3> QED BY <1>10, <2>2, <3>5, <3>8, <3>9
  <2> QED BY <2>1, <2>2
<1>13. \A i \in 1 .. nb : Seul(i)' <=> Seul(i)
  BY <1>1, <1>12 DEF Seul
<1>14. Pointeur'
  <2>1. rom'.ptr = u'.prev
    BY <1>5, <1>6, <1>8
  <2>2. u'.masque = MasqueDe(u'.prev)
    <3>1. CASE Suivant = u.prev
      BY <1>6, <1>8, <3>1 DEF InvBlocs, Pointeur
    <3>2. CASE Suivant # u.prev
      <4>1. v.masque = (IF b = 3 THEN {} ELSE IF b = 0 THEN {0} ELSE u.masque \cup {b})
        BY <1>6, <3>2
      <4>2. v.masque = IF b = 3 THEN {} ELSE 0 .. b
        <5>1. CASE b = 3
          BY <4>1, <5>1
        <5>2. CASE b = 0
          BY <4>1, <5>2
        <5>3. CASE b \in 1 .. 2
          <6>1. u.masque = 0 .. b - 1 /\ v.masque = u.masque \cup {b}
            BY <1>9, <4>1, <5>3
          <6>2. (0 .. b - 1) \cup {b} = 0 .. b
            BY <5>3
          <6> QED BY <5>3, <6>1, <6>2
        <5> QED BY <1>4, <5>1, <5>2, <5>3
      <4>3. MasqueDe(Suivant) = IF b = 3 THEN {} ELSE 0 .. b
        <5>1. CASE b = 3
          BY <1>4, <5>1 DEF MasqueDe
        <5>2. CASE b # 3
          <6>1. Suivant = b + 1 /\ Suivant \in 1 .. 3 /\ Suivant - 1 = b
            BY <1>4, <5>2
          <6> QED BY <5>2, <6>1 DEF MasqueDe
        <5> QED BY <5>1, <5>2
      <4> QED BY <1>6, <1>8, <4>2, <4>3
    <3> QED BY <3>1, <3>2
  <2>3. ~(rom'.reste \in {0, 4} /\ rom'.ptr = 1)
    BY <1>4, <1>5
  <2>4. rom'.reste \in 1 .. 3 => rom'.ptr = 4 - rom'.reste
    BY <1>4, <1>5
  <2>5. (u.masque = MasqueDe(u.prev))' <=> u'.masque = MasqueDe(u'.prev)
    BY DEF MasqueDe
  <2> QED BY <2>1, <2>2, <2>3, <2>4, <2>5 DEF Pointeur
<1>15. EnVoie'
  <2>1. /\ cu'.bloc = nb /\ ~cu'.neuf /\ rom'.reste # 4 /\ nb > 0 /\ aLire' = 0
    BY <1>2, <1>4, <1>5
  <2>2. u'.pose = nb
    BY <1>2, <1>5, <1>6, <1>8 DEF InvBlocs, EnVoie
  <2>3. rom'.reste > 0 => blocs'[nb].emis = 4 - rom'.reste /\ blocs'[nb].pub = 0
                          /\ ~blocs'[nb].abime
    BY <1>4, <1>5, <1>12
  <2>4. ASSUME rom'.reste \in 1 .. 3, Seul(nb)
        PROVE  u'.l2 = nb /\ \A k \in 0 .. 3 - rom'.reste : u'.bits[k] = nb
    <3>1. b \in 0 .. 2 /\ 3 - rom'.reste = b /\ Suivant # u.prev
      <4>1. b \in 0 .. 2 /\ 3 - rom'.reste = b
        BY <1>4, <1>5, <2>4
      <4>2. b = 0 => Suivant = 1
        BY <1>4
      <4> QED BY <1>9, <2>4, <4>1, <4>2
    <3>2. u'.bits = [u.bits EXCEPT ![b] = nb] /\ u'.l2 = (IF b = 0 THEN u.pose ELSE u.l2)
      BY <1>6, <1>8, <3>1
    <3>3. u.bits \in [Tour -> 0 .. nb] /\ b \in Tour
      BY <1>1, <3>1 DEF Collectes, Tour
    <3>4. u'.bits[b] = nb /\ \A k \in Tour : k # b => u'.bits[k] = u.bits[k]
      BY <3>2, <3>3
    <3>5. CASE b = 0
      <4>1. u.pose = nb
        BY <1>2, <1>5 DEF InvBlocs, EnVoie
      <4>2. u'.bits[0] = nb /\ u'.l2 = nb
        BY <3>2, <3>4, <3>5, <4>1
      <4> QED BY <3>1, <3>5, <4>2
    <3>6. CASE b > 0
      <4>1. rom.reste \in 1 .. 3 /\ 3 - rom.reste = b - 1
        BY <1>2, <1>4, <3>6
      <4>2. u.l2 = nb /\ \A k \in 0 .. b - 1 : u.bits[k] = nb
        BY <2>4, <4>1 DEF InvBlocs, EnVoie
      <4>3. u'.l2 = nb
        BY <3>2, <3>6, <4>2
      <4>4. \A k \in 0 .. b : k \in Tour /\ (k # b => k \in 0 .. b - 1)
        BY <3>1 DEF Tour
      <4> QED BY <3>1, <3>4, <4>2, <4>3, <4>4
    <3> QED BY <3>1, <3>5, <3>6
  <2>5. nb \in 1 .. nb
    BY <1>1, <1>5
  <2> QED BY <1>13, <2>1, <2>2, <2>3, <2>4, <2>5 DEF EnVoie
<1>16. BlocsRendus'
  <2>1. SUFFICES ASSUME NEW i \in 1 .. nb
                 PROVE  /\ blocs'[i].emis = 4 /\ Seul(i)' => blocs'[i].pub = 1
                        /\ blocs'[i].abime => ~Seul(i)'
    BY DEF BlocsRendus
  <2>2. CASE i = nb
    BY <1>4, <1>12, <1>13, <2>2
  <2>3. CASE i # nb
    BY <1>12, <1>13, <2>3 DEF InvBlocs, BlocsRendus
  <2> QED BY <2>2, <2>3
<1> QED BY <1>14, <1>15, <1>16 DEF InvBlocs

LEMMA L1SyncBlocs ==
  ASSUME TypeInd, L1Sync, InvBlocs
  PROVE  InvBlocs'
<1>1. /\ nb \in Nat /\ blocs \in HistBlocs /\ TypeOK /\ na \in Nat
      /\ rom \in [ptr: 0 .. Hors, bloc: 0 .. nb, reste: 0 .. 4]
  BY TypesDits, TypesSimples DEF TypeInd
<1>2. etape = "l1" /\ etape' = "fin" /\ u' = u /\ ~cu.neuf /\ rom.ptr = u.prev
  BY DEF L1Sync, InvBlocs, EnVoie, Pointeur
<1>3. u.masque = MasqueDe(u.prev)
  BY DEF InvBlocs, Pointeur
<1>4. ASSUME NEW ra \in Ras, PoserAcces(ra)
      PROVE  InvBlocs'
  <2>1. rom.reste = 0 /\ UNCHANGED <<cu, rom, blocs>>
    BY <1>1, <1>4, PoserAccesDit
  <2>2. nb' = nb
    BY <2>1 DEF nb
  <2>3. Pointeur'
    BY <1>2, <2>1, <2>2 DEF InvBlocs, Pointeur, Dernier, MasqueDe
  <2>4. EnVoie'
    BY <1>2, <2>1, <2>2 DEF InvBlocs, EnVoie
  <2>5. BlocsRendus'
    BY <2>1, <2>2 DEF InvBlocs, BlocsRendus, Seul
  <2> QED BY <2>3, <2>4, <2>5 DEF InvBlocs
<1>5. ASSUME PasDAcces, UNCHANGED <<cu, rom, blocs>>
      PROVE  InvBlocs'
  <2>1. nb' = nb /\ aLire' = aLire
    BY <1>1, <1>5, PasDAccesDit DEF nb
  <2>2. Pointeur'
    BY <1>2, <1>5, <2>1 DEF InvBlocs, Pointeur, Dernier, MasqueDe
  <2>3. EnVoie'
    BY <1>2, <1>5, <2>1 DEF InvBlocs, EnVoie, Seul
  <2>4. BlocsRendus'
    BY <1>5, <2>1 DEF InvBlocs, BlocsRendus, Seul
  <2> QED BY <2>2, <2>3, <2>4 DEF InvBlocs
<1>6. ASSUME PasDAcces, Quitter
      PROVE  InvBlocs'
  <2>1. /\ rom.reste \in 1 .. 3 /\ rom'.ptr \in {rom.ptr, Hors} /\ rom'.reste = 0
        /\ UNCHANGED <<cu, blocs>>
    BY <1>1, <1>6, QuitterDit
  <2>2. nb' = nb
    BY <2>1 DEF nb
  <2>3. rom.ptr = 4 - rom.reste /\ blocs[nb].emis = 4 - rom.reste /\ nb > 0
    BY <2>1 DEF InvBlocs, Pointeur, EnVoie
  <2>4. Pointeur'
    <3>1. rom'.ptr = u'.prev \/ (rom'.ptr = Hors /\ etape' = "fin" /\ rom'.reste = 0)
      BY <1>2, <2>1
    <3>2. rom'.ptr = 1 => blocs[nb].emis = 1
      BY <2>1, <2>3 DEF Hors
    <3>3. Dernier' = nb
      BY <2>1, <2>2 DEF Dernier
    <3>4. u'.masque = MasqueDe(u'.prev)
      BY <1>2, <1>3
    <3>5. rom'.reste \in {0, 4} /\ rom'.ptr = 1 => Dernier' >= 1 /\ blocs'[Dernier'].emis = 1
      BY <1>1, <2>1, <2>3, <3>2, <3>3
    <3> QED BY <2>1, <3>1, <3>4, <3>5 DEF Pointeur, MasqueDe
  <2>5. EnVoie'
    BY <1>2, <2>1, <2>2 DEF InvBlocs, EnVoie
  <2>6. BlocsRendus'
    BY <2>1, <2>2 DEF InvBlocs, BlocsRendus, Seul
  <2> QED BY <2>4, <2>5, <2>6 DEF InvBlocs
<1>7. ASSUME PasDAcces, PoserBloc
      PROVE  InvBlocs'
  <2>1. /\ blocs' \in [1 .. nb + 1 -> BlocType] /\ nb' = nb + 1
        /\ \A i \in 1 .. nb : blocs'[i] = blocs[i]
        /\ blocs'[nb + 1] = [emis |-> 0, pub |-> 0, abime |-> FALSE]
        /\ rom.reste = 0 /\ aLire = 0
        /\ cu' = [bloc |-> nb + 1, blud |-> TRUE, neuf |-> TRUE]
        /\ rom' = [rom EXCEPT !.reste = 4]
    BY <1>1, <1>7, PoserBlocDit
  <2>2. /\ rom'.ptr = rom.ptr /\ rom'.reste = 4 /\ aLire' = 0
        /\ cu'.bloc = nb + 1 /\ cu'.blud /\ cu'.neuf
    BY <1>1, <1>7, <2>1, PasDAccesDit
  <2>3. /\ blocs'[nb + 1].emis = 0 /\ blocs'[nb + 1].pub = 0 /\ ~blocs'[nb + 1].abime
    BY <2>1
  <2>4. Pointeur'
    <3>1. Dernier' = nb
      BY <1>1, <2>1, <2>2 DEF Dernier
    <3>2. rom.ptr = 1 => nb >= 1 /\ blocs[nb].emis = 1
      BY <2>1 DEF InvBlocs, Pointeur, Dernier
    <3>3. rom'.ptr = 1 => Dernier' >= 1 /\ blocs'[Dernier'].emis = 1
      BY <1>1, <2>1, <2>2, <3>1, <3>2
    <3>4. u'.masque = MasqueDe(u'.prev)
      BY <1>2, <1>3
    <3> QED BY <1>2, <2>2, <3>3, <3>4 DEF Pointeur, MasqueDe
  <2>5. EnVoie'
    <3>1. nb + 1 > 0
      BY <1>1
    <3> QED BY <1>2, <2>1, <2>2, <2>3, <3>1 DEF EnVoie
  <2>6. BlocsRendus'
    <3>1. SUFFICES ASSUME NEW i \in 1 .. nb + 1
                   PROVE  /\ blocs'[i].emis = 4 /\ Seul(i)' => blocs'[i].pub = 1
                          /\ blocs'[i].abime => ~Seul(i)'
      BY <2>1 DEF BlocsRendus
    <3>2. CASE i = nb + 1
      BY <2>3, <3>2
    <3>3. CASE i # nb + 1
      <4>1. i \in 1 .. nb /\ (i > 1 => i - 1 \in 1 .. nb)
        BY <1>1, <3>3
      <4>2. blocs'[i] = blocs[i] /\ (Seul(i)' <=> Seul(i))
        BY <2>1, <4>1 DEF Seul
      <4> QED BY <4>1, <4>2 DEF InvBlocs, BlocsRendus
    <3> QED BY <3>2, <3>3
  <2> QED BY <2>4, <2>5, <2>6 DEF InvBlocs
<1> QED BY <1>4, <1>5, <1>6, <1>7 DEF L1Sync

LEMMA BlocsStables ==
  ASSUME TypeInd /\ InvBlocs, [Next]_vars
  PROVE  (TypeInd /\ InvBlocs)'
<1>1. TypeInd'
  BY TypeStable
<1>2. CASE L1Sync
  BY <1>1, <1>2, L1SyncBlocs
<1>3. CASE Trame
  <2>1. na' = na /\ nb' = nb
    BY <1>3, TrameType
  <2>2. etape = "fin" /\ etape' = "l1" /\ (SansBurst \/ AvecBurst)
    BY <1>3, TrameBlocs
  <2> QED BY <1>1, <2>1, <2>2, SansBurstBlocs, AvecBurstBlocs
<1>4. CASE UNCHANGED vars
  <2>1. /\ UNCHANGED <<rom, u, cu, blocs, etape, aLire>> /\ nb' = nb
    BY <1>4 DEF vars, nb
  <2>2. Pointeur' /\ EnVoie' /\ BlocsRendus'
    BY <2>1 DEF InvBlocs, Pointeur, EnVoie, BlocsRendus, Seul, Dernier, MasqueDe
  <2> QED BY <1>1, <2>2 DEF InvBlocs
<1> QED BY <1>2, <1>3, <1>4 DEF Next

LEMMA InitBlocs ==
  ASSUME Init
  PROVE  InvBlocs
<1>1. nb = 0 /\ rom.reste = 0 /\ rom.ptr = Hors /\ u.prev = Hors /\ u.masque = {} /\ ~cu.neuf
      /\ cu.bloc = 0
  BY DEF Init, nb
<1>2. MasqueDe(Hors) = {} /\ Hors # 1
  BY DEF MasqueDe, Hors
<1> QED BY <1>1, <1>2 DEF InvBlocs, Pointeur, EnVoie, BlocsRendus

LEMMA BlocsToujours == Spec => [](TypeInd /\ InvBlocs)
<1>1. Init => TypeInd /\ InvBlocs
  BY InitType, InitBlocs
<1>2. (TypeInd /\ InvBlocs) /\ [Next]_vars => (TypeInd /\ InvBlocs)'
  BY BlocsStables
<1> QED BY <1>1, <1>2, PTL DEF Spec

\* A block published is one block, its four bursts and its L2; the only exception is a block
\* that follows one given up after its first burst.
THEOREM BlocsToujoursEntiers == Spec => []BlocEntier
<1>1. TypeInd /\ InvBlocs => BlocEntier
  <2>1. SUFFICES ASSUME TypeInd, InvBlocs, NEW i \in DOMAIN blocs, blocs[i].abime
                 PROVE  i > 1 /\ blocs[i - 1].emis = 1
    BY DEF BlocEntier
  <2>2. i \in 1 .. nb
    BY <2>1, TypesDits DEF TypeInd, HistBlocs
  <2>3. ~Seul(i)
    BY <2>1, <2>2 DEF InvBlocs, BlocsRendus
  <2> QED BY <2>3 DEF Seul
<1> QED BY <1>1, BlocsToujours, PTL

-----------------------------------------------------------------------------
(* The accesses, once, with their own value and their date.                *)

LEMMA ReprisDit ==
  /\ \A i, k \in Int : i <= k /\ Repris(i) => Repris(k)
  /\ \A i \in Int : i <= na /\ Net => ~Repris(i)
  /\ ici.efface # "defaut" => Net
<1>1. ASSUME NEW i \in Int, NEW k \in Int, i <= k, Repris(i)
      PROVE  Repris(k)
  <2>1. PICK j \in 1 .. i : acces[j].long
    BY <1>1 DEF Repris
  <2>2. j \in 1 .. k
    BY <1>1, <2>1
  <2> QED BY <1>1, <2>1, <2>2 DEF Repris
<1>2. ASSUME NEW i \in Int, i <= na, Net
      PROVE  ~Repris(i)
  <2>2. ASSUME Repris(i)
        PROVE  FALSE
    <3>1. PICK j \in 1 .. i : acces[j].long /\ ici.efface = "defaut"
      BY <2>2 DEF Repris
    <3>2. na \in Int
      BY DEF na
    <3>3. j \in 1 .. na
      BY <1>2, <3>1, <3>2
    <3> QED BY <1>2, <3>1, <3>3 DEF Net, Repris
  <2> QED BY <2>2
<1>3. ici.efface # "defaut" => Net
  BY DEF Net, Repris
<1> QED BY <1>1, <1>2, <1>3

\* A burst that waits: its date, if it is published late, is the right one.
Attend(a) == a.emis \in {-1, 1} \/ a.pareil

\* A burst the process has seen the ROM transmit, in the frame of its posting.
Deja(a) == a.emis = 0 /\ ~a.pareil

\* An access of which the detection is still to come.
Attendu(i) == i = na /\ (depuis = 0 \/ (ici.tardif /\ depuis = 1 /\ m.attente))

\* What the steps of the end of a frame keep.
Attente1(q, h) ==
  q.actif => /\ q.id \in 1 .. na /\ q.ra = acces[q.id].ra
             /\ ~Net => Repris(q.id)
             /\ ~Repris(q.id) => q.pose = 0 /\ h[q.id].pub = 0
Histoire(h) ==
  \A i \in 1 .. na :
    /\ h[i].juste /\ h[i].ra = acces[i].ra /\ h[i].long = acces[i].long
    /\ ~Repris(i) => h[i].pub <= 1 /\ Date(h[i])
Reste(q, h) ==
  \A i \in 1 .. na :
    ~Repris(i - 1) => h[i].pub >= 1 \/ (q.actif /\ q.id = i) \/ Attendu(i)
Suite(s) == Attente1(s[1], s[2]) /\ Histoire(s[2]) /\ Reste(s[1], s[2])
Coherent(s) ==
  Suite(s) /\ (s[1].actif /\ ~Repris(s[1].id) => Attend(s[2][s[1].id]))

\* What waits is published, with the right date.
LEMMA PublierSuit ==
  ASSUME na \in Nat, NEW s \in Paires, NEW d \in Jours, Suite(s),
         s[1].actif /\ ~Repris(s[1].id) /\ s[2][s[1].id].emis >= 0
           => d = IF s[2][s[1].id].pareil THEN 1 ELSE s[2][s[1].id].emis
  PROVE  LET t == RachPendPublier(s, d)
         IN  /\ t \in Paires /\ Coherent(t) /\ ~t[1].actif
             /\ t[1].emis = s[1].emis /\ t[1].prec = s[1].prec /\ t[1].age = s[1].age
             /\ t[1].pose = s[1].pose
             /\ \A i \in 1 .. na :
                  /\ t[2][i].emis = s[2][i].emis /\ t[2][i].pareil = s[2][i].pareil
                  /\ ~(s[1].actif /\ s[1].id = i) => t[2][i] = s[2][i]
<1> DEFINE t == RachPendPublier(s, d)
           q == s[1]
           h == s[2]
<1>1. /\ t \in Paires
      /\ t[1] = IF q.actif THEN Parti(q) ELSE q
      /\ ~t[1].actif
      /\ \A i \in 1 .. na : t[2][i] = IF q.actif /\ i = q.id THEN Marque(h[i], q, d) ELSE h[i]
  BY PublierDit
<1>2. q \in Ponts /\ h \in Hist
  BY PairesDit
<1>3. Attente1(q, h) /\ Histoire(h) /\ Reste(q, h)
  BY DEF Suite
<1>4. q.actif /\ ~Repris(q.id) /\ h[q.id].emis >= 0
        => d = IF h[q.id].pareil THEN 1 ELSE h[q.id].emis
  OBVIOUS
<1> HIDE DEF t, q, h
<1>5. /\ t[1].emis = q.emis /\ t[1].prec = q.prec /\ t[1].age = q.age /\ t[1].pose = q.pose
  BY <1>1, <1>2, PartiDit
<1>6. ASSUME NEW i \in 1 .. na, q.actif, q.id = i
      PROVE  /\ t[2][i].emis = h[i].emis /\ t[2][i].pareil = h[i].pareil
             /\ t[2][i].ra = h[i].ra /\ t[2][i].long = h[i].long /\ t[2][i].juste
             /\ t[2][i].pub >= 1
             /\ ~Repris(i) => t[2][i].pub = 1 /\ Date(t[2][i])
  <2>1. h[i] \in AccesType /\ h[i].pub \in 0 .. 2 /\ h[i].emis \in -1 .. 1
    BY <1>2 DEF Hist, AccesType
  <2>2. t[2][i] = Marque(h[i], q, d)
    BY <1>1, <1>6
  <2>3. h[i].juste /\ h[i].ra = acces[i].ra /\ q.ra = acces[i].ra
    BY <1>3, <1>6 DEF Histoire, Attente1
  <2>4. /\ t[2][i].emis = h[i].emis /\ t[2][i].pareil = h[i].pareil
        /\ t[2][i].ra = h[i].ra /\ t[2][i].long = h[i].long
        /\ t[2][i].pub = (IF h[i].pub < 2 THEN h[i].pub + 1 ELSE 2) /\ t[2][i].date = d
    BY <2>1, <2>2, MarqueDit
  <2>5. t[2][i].juste
    BY <2>1, <2>2, <2>3, MarqueDit
  <2>6. t[2][i].pub >= 1
    BY <2>1, <2>4
  <2>7. ASSUME ~Repris(i)
        PROVE  t[2][i].pub = 1 /\ Date(t[2][i])
    <3>1. h[i].pub = 0
      BY <1>3, <1>6, <2>7 DEF Attente1
    <3>2. t[2][i].pub = 1
      BY <2>4, <3>1
    <3>3. t[2][i].emis >= 0 => t[2][i].date = IF t[2][i].pareil THEN 1 ELSE t[2][i].emis
      BY <1>4, <1>6, <2>4, <2>7
    <3> QED BY <3>2, <3>3 DEF Date
  <2> QED BY <2>4, <2>5, <2>6, <2>7
<1>7. \A i \in 1 .. na : ~(q.actif /\ q.id = i) => t[2][i] = h[i]
  BY <1>1
<1>8. \A i \in 1 .. na : t[2][i].emis = h[i].emis /\ t[2][i].pareil = h[i].pareil
  BY <1>6, <1>7
<1>9. Attente1(t[1], t[2])
  BY <1>1 DEF Attente1
<1>10. Histoire(t[2])
  <2>1. SUFFICES ASSUME NEW i \in 1 .. na
                 PROVE  /\ t[2][i].juste /\ t[2][i].ra = acces[i].ra
                        /\ t[2][i].long = acces[i].long
                        /\ ~Repris(i) => t[2][i].pub <= 1 /\ Date(t[2][i])
    BY DEF Histoire
  <2>2. /\ h[i].juste /\ h[i].ra = acces[i].ra /\ h[i].long = acces[i].long
        /\ ~Repris(i) => h[i].pub <= 1 /\ Date(h[i])
    BY <1>3 DEF Histoire
  <2>3. CASE q.actif /\ q.id = i
    BY <1>6, <2>2, <2>3
  <2>4. CASE ~(q.actif /\ q.id = i)
    BY <1>7, <2>2, <2>4
  <2> QED BY <2>3, <2>4
<1>11. Reste(t[1], t[2])
  <2>1. SUFFICES ASSUME NEW i \in 1 .. na, ~Repris(i - 1)
                 PROVE  t[2][i].pub >= 1 \/ Attendu(i)
    BY DEF Reste
  <2>2. h[i].pub >= 1 \/ (q.actif /\ q.id = i) \/ Attendu(i)
    BY <1>3, <2>1 DEF Reste
  <2> QED BY <1>6, <1>7, <2>2
<1>12. Coherent(t)
  BY <1>1, <1>9, <1>10, <1>11 DEF Coherent, Suite
<1> QED BY <1>1, <1>5, <1>7, <1>8, <1>12 DEF t, q, h

\* A publication one frame after the posting is always dated right.
LEMMA PublierTardSuit ==
  ASSUME na \in Nat, NEW s \in Paires, Coherent(s), NEW d \in Jours,
         s[1].actif /\ ~Repris(s[1].id) => d = 1
  PROVE  s[1].actif /\ ~Repris(s[1].id) /\ s[2][s[1].id].emis >= 0
           => d = IF s[2][s[1].id].pareil THEN 1 ELSE s[2][s[1].id].emis
<1>1. s[1].actif /\ ~Repris(s[1].id) => s[1].id \in 1 .. na /\ Attend(s[2][s[1].id])
  BY DEF Coherent, Suite, Attente1
<1> QED BY <1>1 DEF Attend

\* The age of the last transmission seen, once the script has been read.
EmisApres(script) ==
  IF script \notin {RienEmis, p.prec} /\ script[1] = "AB" THEN 0 ELSE p.emis

\* The burst that waits is the one that waited at the start of the frame.
Meme(q) == q.actif => p.actif /\ q.id = p.id /\ q.age = p.age

\* What the ROM hands to the end of a frame.
Depart(it, script, h) ==
  /\ Coherent(<<p, h>>)
  /\ Net /\ Attendu(na) => h[na].pub = 0 /\ ~(p.actif /\ p.id = na)
  /\ script \notin {RienEmis, p.prec} /\ script[1] = "AB" =>
       it /\ (p.actif /\ ~Repris(p.id) /\ p.age < Retard => p.pose + p.age = 1)
  /\ Net /\ depuis \in 0 .. 1 => (EmisApres(script) = depuis <=> Deja(h[na]))

LEMMA EcheanceSuit ==
  ASSUME na \in Nat, NEW s \in Paires, Coherent(s)
  PROVE  LET t == Echeance(s)
         IN  /\ t \in Paires /\ Coherent(t)
             /\ t[1].actif => s[1].actif /\ ~(s[1].age >= Retard)
             /\ t[1].actif => t[1].id = s[1].id
             /\ t[1].emis = s[1].emis /\ t[1].prec = s[1].prec /\ t[1].age = s[1].age
             /\ t[1].pose = s[1].pose
             /\ \A i \in 1 .. na :
                  /\ t[2][i].emis = s[2][i].emis /\ t[2][i].pareil = s[2][i].pareil
                  /\ ~(s[1].actif /\ s[1].id = i) => t[2][i] = s[2][i]
<1>1. s[1].pose + 1 \in Jours /\ s[1].pose \in Nat
  BY PairesDit, Constantes DEF Ponts, Jours, Retard
<1>2. s[1].actif /\ ~Repris(s[1].id) => s[1].pose + 1 = 1
  BY DEF Coherent, Suite, Attente1
<1>3. s[1].actif /\ ~Repris(s[1].id) /\ s[2][s[1].id].emis >= 0
        => s[1].pose + 1 = IF s[2][s[1].id].pareil THEN 1 ELSE s[2][s[1].id].emis
  BY <1>1, <1>2, PublierTardSuit
<1>4. CASE s[1].actif /\ s[1].age >= Retard
  <2> DEFINE t == RachPendPublier(s, s[1].pose + 1)
  <2>1. /\ t \in Paires /\ Coherent(t) /\ ~t[1].actif
        /\ t[1].emis = s[1].emis /\ t[1].prec = s[1].prec /\ t[1].age = s[1].age
        /\ t[1].pose = s[1].pose
        /\ \A i \in 1 .. na :
             /\ t[2][i].emis = s[2][i].emis /\ t[2][i].pareil = s[2][i].pareil
             /\ ~(s[1].actif /\ s[1].id = i) => t[2][i] = s[2][i]
    BY <1>1, <1>3, PublierSuit DEF Coherent
  <2>2. Echeance(s) = t
    BY <1>4 DEF Echeance
  <2> HIDE DEF t
  <2> QED BY <2>1, <2>2
<1>5. CASE ~(s[1].actif /\ s[1].age >= Retard)
  <2>1. Echeance(s) = s
    BY <1>5 DEF Echeance
  <2> QED BY <1>5, <2>1
<1> QED BY <1>4, <1>5

LEMMA LueSuit ==
  ASSUME na \in Nat, NEW s \in Paires, NEW script \in Scripts, Coherent(s)
  PROVE  Coherent(<<Lue(s[1], script), s[2]>>)
<1> DEFINE q == Lue(s[1], script)
<1>1. /\ q.actif = s[1].actif /\ q.id = s[1].id /\ q.ra = s[1].ra /\ q.pose = s[1].pose
  BY PairesDit, LueDit
<1> HIDE DEF q
<1>2. /\ Attente1(q, s[2]) /\ Histoire(s[2]) /\ Reste(q, s[2])
      /\ q.actif /\ ~Repris(q.id) => Attend(s[2][q.id])
  BY <1>1 DEF Coherent, Suite, Attente1, Reste
<1>3. <<q, s[2]>>[1] = q /\ <<q, s[2]>>[2] = s[2]
  OBVIOUS
<1>4. Coherent(<<q, s[2]>>)
  BY <1>2, <1>3 DEF Coherent, Suite
<1> QED BY <1>4 DEF q

\* The frame up to the detection.
LEMMA AvantScruterSuit ==
  ASSUME TypeOK, NEW it \in BOOLEAN, NEW script \in Scripts, NEW h \in Hist,
         Depart(it, script, h)
  PROVE  LET t == AvantScruter(it, script, h)
         IN  /\ t \in Paires /\ Coherent(t) /\ Meme(t[1]) /\ t[1].emis = EmisApres(script)
             /\ \A i \in 1 .. na :
                  /\ t[2][i].emis = h[i].emis /\ t[2][i].pareil = h[i].pareil
                  /\ ~(p.actif /\ p.id = i) => t[2][i] = h[i]
<1>1. na \in Nat /\ p \in Ponts /\ <<p, h>> \in Paires /\ <<p, h>>[1] = p /\ <<p, h>>[2] = h
  BY TypesDits, PairesDit
<1>2. Coherent(<<p, h>>)
  BY DEF Depart
<1> DEFINE s == IF it THEN Echeance(<<p, h>>) ELSE <<p, h>>
<1>3. /\ s \in Paires /\ Coherent(s) /\ Meme(s[1])
      /\ s[1].emis = p.emis /\ s[1].prec = p.prec /\ s[1].age = p.age /\ s[1].pose = p.pose
      /\ \A i \in 1 .. na :
           /\ s[2][i].emis = h[i].emis /\ s[2][i].pareil = h[i].pareil
           /\ ~(p.actif /\ p.id = i) => s[2][i] = h[i]
  <2>1. CASE it
    <3> DEFINE e == Echeance(<<p, h>>)
    <3>1. /\ e \in Paires /\ Coherent(e) /\ (e[1].actif => p.actif /\ ~(p.age >= Retard))
          /\ e[1].actif => e[1].id = p.id
          /\ e[1].emis = p.emis /\ e[1].prec = p.prec /\ e[1].age = p.age
          /\ e[1].pose = p.pose
          /\ \A i \in 1 .. na :
               /\ e[2][i].emis = h[i].emis /\ e[2][i].pareil = h[i].pareil
               /\ ~(p.actif /\ p.id = i) => e[2][i] = h[i]
      <4> DEFINE x == <<p, h>>
      <4>1. x \in Paires /\ x[1] = p /\ x[2] = h /\ Coherent(x)
        BY <1>1, <1>2
      <4> HIDE DEF x, e
      <4>2. e = Echeance(x)
        BY DEF e, x
      <4> QED BY <1>1, <4>1, <4>2, EcheanceSuit
    <3>2. s = e
      BY <2>1
    <3> HIDE DEF s, e
    <3> QED BY <3>1, <3>2 DEF Meme
  <2>2. CASE ~it
    <3>1. s = <<p, h>>
      BY <2>2
    <3> HIDE DEF s
    <3>2. s[1] = p /\ s[2] = h
      BY <1>1, <3>1
    <3> QED BY <1>1, <1>2, <3>1, <3>2 DEF Meme
  <2> QED BY <2>1, <2>2
<1> HIDE DEF s
<1>4. AvantScruter(it, script, h) = Capturer(s, script)
  BY DEF AvantScruter, s
<1> DEFINE v == <<Lue(s[1], script), s[2]>>
           t == Capturer(s, script)
<1>5. CASE script \in {RienEmis, p.prec}
  <2>1. t = s
    BY <1>3, <1>5 DEF Capturer
  <2>2. EmisApres(script) = p.emis
    BY <1>5 DEF EmisApres
  <2> HIDE DEF t
  <2> QED BY <1>3, <1>4, <2>1, <2>2 DEF t
<1>6. CASE script \notin {RienEmis, p.prec}
  <2>1. v \in Paires /\ v[1] = Lue(s[1], script) /\ v[2] = s[2]
    BY <1>3, PairesDit, LueDit
  <2>2. /\ v[1].actif = s[1].actif /\ v[1].age = s[1].age /\ v[1].id = s[1].id
        /\ v[1].pose = s[1].pose
        /\ v[1].emis = (IF script[1] = "AB" THEN 0 ELSE s[1].emis)
    BY <1>3, <2>1, PairesDit, LueDit
  <2>3. v[1].emis = EmisApres(script)
    BY <1>3, <1>6, <2>2 DEF EmisApres
  <2>4. Coherent(v)
    BY <1>1, <1>3, LueSuit
  <2>5. Meme(v[1])
    BY <1>3, <2>2 DEF Meme
  <2>6. t = IF script[1] = "AB" /\ s[1].age < Retard
            THEN RachPendPublier(v, s[1].pose + s[1].age) ELSE v
    BY <1>1, <1>3, <1>6, CapturerDit
  <2>7. s[1].age < Retard => s[1].pose + s[1].age \in Jours
    BY <1>1, <1>3, CapturerDit
  <2> HIDE DEF v, t
  <2>8. CASE script[1] = "AB" /\ s[1].age < Retard
    <3> DEFINE d == s[1].pose + s[1].age
    <3>1. d \in Jours
      BY <2>7, <2>8
    <3>2. v[1].actif /\ ~Repris(v[1].id) => d = 1
      BY <1>3, <1>6, <2>5, <2>8 DEF Depart, Meme
    <3> HIDE DEF d
    <3>3. v[1].actif /\ ~Repris(v[1].id) /\ v[2][v[1].id].emis >= 0
            => d = IF v[2][v[1].id].pareil THEN 1 ELSE v[2][v[1].id].emis
      BY <1>1, <2>1, <2>4, <3>1, <3>2, PublierTardSuit
    <3>4. t = RachPendPublier(v, d)
      BY <2>6, <2>8 DEF d
    <3>5. /\ t \in Paires /\ Coherent(t) /\ ~t[1].actif /\ t[1].emis = v[1].emis
          /\ \A i \in 1 .. na :
               /\ t[2][i].emis = v[2][i].emis /\ t[2][i].pareil = v[2][i].pareil
               /\ ~(v[1].actif /\ v[1].id = i) => t[2][i] = v[2][i]
      BY <1>1, <2>1, <2>4, <3>1, <3>3, <3>4, PublierSuit DEF Coherent
    <3>6. \A i \in 1 .. na :
                  /\ t[2][i].emis = h[i].emis /\ t[2][i].pareil = h[i].pareil
                  /\ ~(p.actif /\ p.id = i) => t[2][i] = h[i]
      BY <1>3, <2>1, <2>5, <3>5 DEF Meme
    <3>7. Meme(t[1])
      BY <3>5 DEF Meme
    <3> QED BY <1>4, <2>3, <3>5, <3>6, <3>7 DEF t
  <2>9. CASE ~(script[1] = "AB" /\ s[1].age < Retard)
    <3>1. t = v
      BY <2>6, <2>9
    <3> QED BY <1>3, <1>4, <2>1, <2>3, <2>4, <2>5, <3>1 DEF t
  <2> QED BY <2>8, <2>9
<1> QED BY <1>5, <1>6

\* Every access has gone to the air, or waits.
Rendus(q, h) ==
  \A i \in 1 .. na : ~Repris(i - 1) => h[i].pub >= 1 \/ (q.actif /\ q.id = i)

\* publier_rach and tx_rach_vers_air: the last access is handed over.
LEMMA PublierRachSuit ==
  ASSUME na \in Nat, na > 0, depuis \in 0 .. Ecart, NEW s \in Paires, Coherent(s),
         NEW ra \in Ras \cup {0, Residu}, ra = acces[na].ra, NEW age \in 0 .. 1,
         Net => /\ depuis = age /\ s[2][na].pub = 0 /\ ~(s[1].actif /\ s[1].id = na)
                /\ s[1].emis = age <=> Deja(s[2][na])
  PROVE  LET t == PublierRach(s, na, ra, age)
         IN  /\ t \in Paires /\ Coherent(t) /\ Rendus(t[1], t[2])
             /\ t[1].emis = s[1].emis /\ (t[1].actif => t[1].id = na /\ t[1].age = age)
             /\ \A i \in 1 .. na :
                  t[2][i].emis = s[2][i].emis /\ t[2][i].pareil = s[2][i].pareil
             /\ Net /\ s[1].emis # age => t[2][na].pub = 0
<1> DEFINE r == Remplacer(s)
           q == Nouvelle(r[1], na, ra, age)
           v == <<q, r[2]>>
           t == PublierRach(s, na, ra, age)
<1>0. na \in 1 .. na /\ na \in 0 .. na
  OBVIOUS
<1>1. /\ r \in Paires /\ Coherent(r) /\ ~r[1].actif
      /\ r[1].emis = s[1].emis
      /\ \A i \in 1 .. na :
           /\ r[2][i].emis = s[2][i].emis /\ r[2][i].pareil = s[2][i].pareil
           /\ ~(s[1].actif /\ s[1].id = i) => r[2][i] = s[2][i]
  <2> DEFINE d == s[1].pose + 1
  <2>1. d \in Jours /\ s[1].pose \in Nat
    BY PairesDit, Constantes DEF Ponts, Jours, Retard
  <2>2. s[1].actif /\ ~Repris(s[1].id) => d = 1
    BY DEF Coherent, Suite, Attente1
  <2>3. r = RachPendPublier(s, d)
    BY DEF Remplacer
  <2> HIDE DEF d, r
  <2>4. s[1].actif /\ ~Repris(s[1].id) /\ s[2][s[1].id].emis >= 0
          => d = IF s[2][s[1].id].pareil THEN 1 ELSE s[2][s[1].id].emis
    BY <2>1, <2>2, PublierTardSuit
  <2> QED BY <2>1, <2>3, <2>4, PublierSuit DEF Coherent
<1>2. v \in Paires /\ t = DejaEmis(v, age) /\ t \in Paires
  BY <1>0, PublierRachType
<1>3. /\ q \in Ponts /\ q.actif /\ q.age = age /\ q.id = na /\ q.ra = ra
      /\ q.emis = s[1].emis /\ q.pose = (IF depuis >= age THEN depuis - age ELSE 0)
  <2>1. r[1] \in Ponts
    BY <1>1, PairesDit
  <2> HIDE DEF r
  <2> HIDE DEF q
  <2>2. q = Nouvelle(r[1], na, ra, age)
    BY DEF q
  <2>3. /\ q.actif /\ q.age = age /\ q.id = na /\ q.ra = ra
        /\ q.emis = r[1].emis /\ q.pose = (IF depuis >= age THEN depuis - age ELSE 0)
    BY <2>1, <2>2, NouvelleChamps
  <2>4. q \in Ponts
    <3> DEFINE a == r[1]
    <3>1. a \in Ponts
      BY <2>1
    <3>2. q = Nouvelle(a, na, ra, age)
      BY <2>2
    <3> HIDE DEF a
    <3>3. Nouvelle(a, na, ra, age) \in Ponts
      BY <1>0, <3>1, NouvelleDit, ZenonT(60)
    <3> QED BY <3>2, <3>3
  <2> QED BY <1>1, <2>3, <2>4
<1>4. v[1] = q /\ v[2] = r[2] /\ r[2] \in Hist
  BY <1>1, PairesDit
<1> HIDE DEF r, q, v, t
<1>5. /\ Histoire(r[2])
      /\ \A i \in 1 .. na : ~Repris(i - 1) => r[2][i].pub >= 1 \/ Attendu(i)
  BY <1>1 DEF Coherent, Suite, Reste
<1>6. Net => q.pose = 0 /\ r[2][na].pub = 0 /\ (q.emis = age <=> Deja(r[2][na]))
  <2>1. ASSUME Net
        PROVE  q.pose = 0 /\ r[2][na].pub = 0 /\ (q.emis = age <=> Deja(r[2][na]))
    <3>1. r[2][na] = s[2][na]
      BY <1>0, <1>1, <2>1
    <3>2. depuis = age
      BY <2>1
    <3> QED BY <1>3, <2>1, <3>1, <3>2
  <2> QED BY <2>1
<1>7. Repris(na) <=> ~Net
  BY DEF Net
<1>8. Suite(v)
  <2>1. Attente1(q, r[2])
    BY <1>0, <1>3, <1>6, <1>7 DEF Attente1
  <2>2. Reste(q, r[2])
    BY <1>5 DEF Reste
  <2> QED BY <1>4, <1>5, <2>1, <2>2 DEF Suite
<1>9. Rendus(q, r[2])
  BY <1>3, <1>5 DEF Rendus, Attendu
<1>10. CASE q.emis = age
  <2>1. t = RachPendPublier(v, q.pose)
    BY <1>2, <1>4, <1>10 DEF DejaEmis
  <2>2. q.pose \in Jours
    BY <1>3, Constantes DEF Ponts, Jours, Retard
  <2>3. Net => Deja(r[2][na]) /\ q.pose = 0
    BY <1>6, <1>10
  <2>4. v[1].actif /\ ~Repris(v[1].id) /\ v[2][v[1].id].emis >= 0
          => q.pose = IF v[2][v[1].id].pareil THEN 1 ELSE v[2][v[1].id].emis
    BY <1>3, <1>4, <1>7, <2>3 DEF Deja
  <2>5. /\ Coherent(t) /\ ~t[1].actif /\ t[1].emis = q.emis
        /\ \A i \in 1 .. na :
             /\ t[2][i].emis = r[2][i].emis /\ t[2][i].pareil = r[2][i].pareil
             /\ ~(q.actif /\ q.id = i) => t[2][i] = r[2][i]
    BY <1>2, <1>4, <1>8, <2>1, <2>2, <2>4, PublierSuit
  <2>6. t[2] = Publie(r[2], q, q.pose)
    BY <1>3, <1>4, <2>1 DEF RachPendPublier
  <2>7. t[2][na].pub >= 1
    <3>1. t[2][na] = Marque(r[2][na], q, q.pose)
      BY <1>0, <1>3, <1>4, <2>2, <2>6, PublieDit
    <3>2. r[2][na] \in AccesType
      BY <1>0, <1>4 DEF Hist
    <3>3. t[2][na].pub = (IF r[2][na].pub < 2 THEN r[2][na].pub + 1 ELSE 2)
          /\ r[2][na].pub \in 0 .. 2
      BY <2>2, <3>1, <3>2, MarqueDit DEF AccesType
    <3> QED BY <3>3
  <2>8. Rendus(t[1], t[2])
    <3>1. SUFFICES ASSUME NEW i \in 1 .. na, ~Repris(i - 1)
                   PROVE  t[2][i].pub >= 1
      BY DEF Rendus
    <3>2. CASE i = na
      BY <2>7, <3>2
    <3>3. CASE i # na
      BY <1>3, <1>9, <2>5, <3>1, <3>3 DEF Rendus
    <3> QED BY <3>2, <3>3
  <2> QED BY <1>1, <1>2, <1>3, <1>10, <2>5, <2>8 DEF t
<1>11. CASE q.emis # age
  <2>1. t = v
    BY <1>2, <1>4, <1>11 DEF DejaEmis
  <2>2. r[2][na].emis \in -1 .. 1 /\ r[2][na].pareil \in BOOLEAN
    BY <1>0, <1>4 DEF Hist, AccesType
  <2>3. Net => Attend(r[2][na])
    BY <1>6, <1>11, <2>2 DEF Attend, Deja
  <2>4. Coherent(t)
    BY <1>3, <1>4, <1>7, <1>8, <2>1, <2>3 DEF Coherent
  <2>5. t[1] = q /\ t[2] = r[2]
    BY <1>4, <2>1
  <2> QED BY <1>1, <1>2, <1>3, <1>6, <1>9, <2>4, <2>5 DEF t
<1> QED BY <1>10, <1>11

\* The numbers of the end of a frame.
LEMMA Nombres ==
  ASSUME TypeInd, InvAcces, etape = "fin"
  PROVE  /\ na \in Nat /\ acces \in Hist /\ p \in Ponts /\ m \in Montants /\ depuis \in 0 .. Ecart
         /\ Pose0 <=> depuis = 0
         /\ Suivante <=> depuis = 1
         /\ Passees = depuis
         /\ depuis = 0 => na > 0
         /\ aLire \in {0, na} /\ (aLire # 0 => na > 0 /\ aLire = na /\ depuis \in 0 .. 1)
         /\ (ici.differe = 1 <=> ici.tardif) /\ ici.differe \in 0 .. 1
         /\ dRach # 0 /\ dRach \in Ras \cup {0, Residu}
         /\ na \in Int /\ (na > 0 => na \in 1 .. na)
         /\ \A i \in 1 .. na : /\ acces[i].emis \in -1 .. 1 /\ acces[i].pub \in 0 .. 2
                               /\ acces[i].pareil \in BOOLEAN
<1>1. /\ na \in Nat /\ acces \in Hist /\ p \in Ponts /\ m \in Montants /\ depuis \in 0 .. Ecart
      /\ ici \in Installations /\ dRach \in Ras \cup {Residu}
  BY TypesDits, TypesSimples DEF TypeInd
<1>2. Ecart > 3 /\ Residu # 0 /\ 0 \notin Ras
  BY EmissionAssumption
<1>3. (ici.differe = 1 <=> ici.tardif) /\ ici.differe \in 0 .. 1
  BY <1>1 DEF Installations
<1>4. dRach # 0 /\ dRach \in Ras \cup {0, Residu}
  BY <1>1, <1>2
<1>5. aLire \in {0, na} /\ (aLire # 0 => na > 0 /\ aLire = na /\ depuis \in 0 .. 1)
  <2>1. aLire \in {0, na} /\ (aLire # 0 => Pose0 \/ Suivante)
    BY DEF InvAcces, Situation
  <2> QED BY <1>1, <2>1 DEF Pose0, Suivante
<1>6. depuis = 0 => na > 0
  <2>1. depuis < Ecart => na > 0
    BY DEF InvAcces, Situation
  <2>2. depuis = 0 => depuis < Ecart
    BY <1>2, Constantes
  <2> QED BY <2>1, <2>2
<1>7. (Pose0 <=> depuis = 0) /\ (Suivante <=> depuis = 1) /\ Passees = depuis
  BY DEF Pose0, Suivante, Passees
<1>8. \A i \in 1 .. na : /\ acces[i].emis \in -1 .. 1 /\ acces[i].pub \in 0 .. 2
                         /\ acces[i].pareil \in BOOLEAN
  BY <1>1 DEF Hist, AccesType
<1> QED BY <1>1, <1>3, <1>4, <1>5, <1>6, <1>7, <1>8

\* What waits, in the words of the end of a frame.
LEMMA PendantDit ==
  ASSUME TypeInd, InvAcces, etape = "fin"
  PROVE  /\ p.actif => /\ p.id \in 1 .. na /\ p.ra = acces[p.id].ra
                       /\ ~Net => Repris(p.id)
         /\ p.actif /\ ~Repris(p.id) =>
              /\ p.pose = 0 /\ acces[p.id].pub = 0
              /\ aLire = p.id \/ Attend(acces[p.id])
              /\ p.age = (IF p.id = na THEN Mini(depuis, Retard) ELSE Retard)
              /\ p.id = na => depuis # 0 /\ (ici.tardif => depuis # 1)
              /\ p.id # na => depuis = 0 \/ (ici.tardif /\ depuis = 1)
         /\ Histoire(acces) /\ Reste(p, acces)
<1>1. (Pose0 <=> depuis = 0) /\ (Suivante <=> depuis = 1) /\ Passees = depuis
  BY Nombres
<1>2. p.actif => /\ p.id \in 1 .. na /\ p.ra = acces[p.id].ra
                 /\ ~Net => Repris(p.id)
  BY DEF InvAcces, Justes, Pendant
<1>3. p.actif /\ ~Repris(p.id) =>
         /\ p.pose = 0 /\ acces[p.id].pub = 0
         /\ aLire = p.id \/ Attend(acces[p.id])
         /\ p.age = (IF p.id = na THEN Mini(depuis, Retard) ELSE Retard)
         /\ p.id = na => depuis # 0 /\ (ici.tardif => depuis # 1)
         /\ p.id # na => depuis = 0 \/ (ici.tardif /\ depuis = 1)
  BY <1>1 DEF InvAcces, Pendant, Attend
<1>4. Histoire(acces)
  BY DEF InvAcces, Justes, Dates, Histoire
<1>5. Reste(p, acces)
  BY <1>1 DEF InvAcces, Suivis, Reste, Attendu
<1> QED BY <1>2, <1>3, <1>4, <1>5

LEMMA DepartSans ==
  ASSUME TypeInd, InvAcces, etape = "fin", NEW it \in BOOLEAN, NEW script,
         script = p.prec \/ script[1] # "AB", aLire # 0 => depuis = 0
  PROVE  Depart(it, script, acces) /\ EmisApres(script) = p.emis
<1>1. <<p, acces>>[1] = p /\ <<p, acces>>[2] = acces
  OBVIOUS
<1>2. EmisApres(script) = p.emis
  BY DEF EmisApres
<1>3. Attente1(p, acces)
  BY PendantDit DEF Attente1
<1>4. p.actif /\ ~Repris(p.id) => Attend(acces[p.id])
  <2>1. SUFFICES ASSUME p.actif, ~Repris(p.id), aLire = p.id
                 PROVE  FALSE
    BY PendantDit
  <2>2. p.id \in 1 .. na
    BY <2>1, PendantDit
  <2>3. aLire # 0 /\ aLire = na
    BY <2>1, <2>2, Nombres
  <2> QED BY <2>1, <2>3, PendantDit
<1>5. Coherent(<<p, acces>>)
  BY <1>1, <1>3, <1>4, PendantDit DEF Coherent, Suite
<1>6. ASSUME Net, Attendu(na)
      PROVE  acces[na].pub = 0 /\ ~(p.actif /\ p.id = na)
  <2>1. ~Repris(na)
    BY <1>6 DEF Net
  <2>2. CASE depuis = 0
    <3>1. acces[na].pub = 0
      BY <2>2, Nombres DEF InvAcces, Situation
    <3> QED BY <2>1, <2>2, <3>1, PendantDit
  <2>3. CASE ici.tardif /\ depuis = 1 /\ m.attente
    <3>1. acces[na].pub = 0
      BY <1>6, <2>3, Nombres DEF InvAcces, Pendant
    <3> QED BY <2>1, <2>3, <3>1, PendantDit
  <2> QED BY <1>6, <2>2, <2>3 DEF Attendu
<1>7. ASSUME Net, depuis \in 0 .. 1
      PROVE  p.emis = depuis <=> Deja(acces[na])
  <2>1. CASE depuis = 0
    <3>1. p.emis = 2 /\ acces[na].emis = -1
      BY <2>1, Nombres DEF InvAcces, Emis, Situation
    <3> QED BY <2>1, <3>1 DEF Deja
  <2>2. CASE depuis = 1
    BY <1>7, <2>2, Nombres DEF InvAcces, Emis, Deja
  <2> QED BY <1>7, <2>1, <2>2
<1> QED BY <1>2, <1>5, <1>6, <1>7 DEF Depart

LEMMA DepartAcces ==
  ASSUME TypeInd, InvAcces, etape = "fin", NEW it \in BOOLEAN, it, aLire # 0
  PROVE  Depart(it, ScriptAcces(aLire), Emise)
<1> DEFINE script == ScriptAcces(aLire)
           h == Emise
<1>1. <<p, h>>[1] = p /\ <<p, h>>[2] = h /\ script[1] = "AB" /\ script # RienEmis
  BY DEF ScriptAcces, RienEmis
<1>2. na \in 1 .. na /\ aLire = na /\ depuis \in 0 .. 1 /\ na \in Nat
  BY Nombres
<1>3. /\ \A i \in 1 .. na :
              /\ i # na => h[i] = acces[i]
              /\ h[i].ra = acces[i].ra /\ h[i].date = acces[i].date
              /\ h[i].pub = acces[i].pub /\ h[i].juste = acces[i].juste
              /\ h[i].long = acces[i].long
      /\ h[na].emis = depuis
      /\ h[na].pareil <=> script = p.prec
  BY <1>2, EmiseDit
<1> HIDE DEF script, h
<1>4. EmisApres(script) = IF script = p.prec THEN p.emis ELSE 0
  BY <1>1 DEF EmisApres
<1>5. Net => acces[na].emis = -1 /\ acces[na].pub = 0
  BY DEF InvAcces, Pendant
<1>6. Attente1(p, h)
  BY <1>3, PendantDit DEF Attente1
<1>7. Histoire(h)
  <2>1. SUFFICES ASSUME NEW i \in 1 .. na
                 PROVE  /\ h[i].juste /\ h[i].ra = acces[i].ra /\ h[i].long = acces[i].long
                        /\ ~Repris(i) => h[i].pub <= 1 /\ Date(h[i])
    BY DEF Histoire
  <2>2. /\ acces[i].juste
        /\ ~Repris(i) => acces[i].pub <= 1 /\ Date(acces[i])
    BY PendantDit DEF Histoire
  <2>3. CASE i # na
    BY <1>3, <2>2, <2>3
  <2>4. CASE i = na
    <3>1. ~Repris(i) => h[i].pub = 0
      BY <1>3, <1>5, <2>4 DEF Net
    <3> QED BY <1>3, <2>2, <3>1 DEF Date
  <2> QED BY <2>3, <2>4
<1>8. Reste(p, h)
  BY <1>3, PendantDit DEF Reste
<1>9. ASSUME p.actif, ~Repris(p.id)
      PROVE  Attend(h[p.id]) /\ (p.age < Retard => p.pose + p.age = 1)
  <2>1. p.id \in 1 .. na
    BY <1>9, PendantDit
  <2>2. CASE p.id = na
    <3>1. depuis = 1
      BY <1>2, <1>9, <2>2, PendantDit
    <3>2. p.pose = 0 /\ p.age = 1
      BY <1>9, <2>2, <3>1, PendantDit DEF Mini, Retard
    <3> QED BY <1>3, <2>2, <3>1, <3>2 DEF Attend
  <2>3. CASE p.id # na
    <3>1. h[p.id] = acces[p.id] /\ aLire # p.id
      BY <1>2, <1>3, <2>1, <2>3
    <3>2. p.age = Retard
      BY <1>9, <2>3, PendantDit
    <3> QED BY <1>9, <3>1, <3>2, PendantDit DEF Retard
  <2> QED BY <2>2, <2>3
<1>10. Coherent(<<p, h>>)
  BY <1>1, <1>6, <1>7, <1>8, <1>9 DEF Coherent, Suite
<1>11. ASSUME Net, Attendu(na)
       PROVE  h[na].pub = 0 /\ ~(p.actif /\ p.id = na)
  <2>1. ~Repris(na)
    BY <1>11 DEF Net
  <2>2. depuis = 0 \/ (ici.tardif /\ depuis = 1)
    BY <1>11 DEF Attendu
  <2> QED BY <1>2, <1>3, <1>5, <1>11, <2>1, <2>2, PendantDit
<1>12. ASSUME Net
       PROVE  EmisApres(script) = depuis <=> Deja(h[na])
  <2>1. Deja(h[na]) <=> depuis = 0 /\ script # p.prec
    BY <1>3 DEF Deja
  <2>2. CASE depuis = 0
    <3>1. p.emis = 2
      BY <2>2, Nombres DEF InvAcces, Emis
    <3> QED BY <1>4, <2>1, <2>2, <3>1
  <2>3. CASE depuis = 1
    <3>1. p.emis # 1
      BY <1>5, <1>12, <2>3, Nombres DEF InvAcces, Emis
    <3> QED BY <1>4, <2>1, <2>3, <3>1
  <2> QED BY <1>2, <2>2, <2>3
<1>13. Depart(it, script, h)
  BY <1>9, <1>10, <1>11, <1>12 DEF Depart
<1> QED BY <1>13 DEF script, h

\* The task is taken in the frame it is posted, and no other.  This is where a guard of one
\* frame would not do: late, the value's own edge would have the task taken again.
LEMMA VientDit ==
  ASSUME TypeInd, InvAcces, etape = "fin", GardeTrames >= 2
  PROVE  /\ Net => (Vient <=> depuis = 0)
         /\ Vient => page /\ na > 0
         /\ m.attente => Du
<1>1. page => na > 0
  BY DEF InvAcces, Situation
<1>2. ASSUME Net, depuis = 0
      PROVE  Vient
  <2>1. Pose0 /\ dRach # 0
    BY <1>2, Nombres
  <2>2. page
    BY <2>1 DEF InvAcces, Situation
  <2>3. ~m.vu \/ m.age >= GardeTrames
    BY <1>2, <2>1, Constantes DEF InvAcces, Garde
  <2>4. ~FrontSeul \/ ~m.avant
    BY <1>2, <2>1 DEF InvAcces, Garde, FrontSeul
  <2> QED BY <2>1, <2>2, <2>3, <2>4 DEF Vient
<1>3. ASSUME Net, Vient, depuis # 0
      PROVE  FALSE
  <2>1. page /\ na > 0 /\ ~Pose0 /\ Passees = depuis /\ depuis \in Nat /\ na \in 1 .. na
    BY <1>1, <1>3, Nombres DEF Vient
  <2>2. m.vu /\ m.age = Mini(depuis, GardeTrames)
    BY <1>3, <2>1 DEF InvAcces, Garde
  <2>3. depuis >= GardeTrames
    BY <1>3, <2>1, <2>2, Constantes DEF Vient, Mini
  <2>4. acces[na].long
    BY <2>1, <2>3 DEF InvAcces, Situation
  <2>5. ici.efface # "defaut"
    BY <1>3, <2>1, <2>4 DEF Net, Repris
  <2>6. ici.efface # "oui"
    BY <1>3, <2>1 DEF InvAcces, Garde
  <2>7. ici.efface = "non"
    <3>1. ici \in Installations
      BY TypesSimples DEF TypeInd
    <3> QED BY <2>5, <2>6, <3>1 DEF Installations
  <2>8. m.avant /\ m.prev = dRach
    <3>1. depuis >= 2
      BY <2>1, <2>3, Constantes
    <3> QED BY <1>3, <2>1, <2>7, <3>1 DEF InvAcces, Garde
  <2> QED BY <1>3, <2>7, <2>8 DEF Vient, FrontSeul
<1>4. m.attente => Du
  <2>1. m.attente => m.ageAttente = 1
    BY DEF InvAcces, Attente
  <2>2. ici.differe = 0 \/ ici.differe = 1
    BY Nombres
  <2> QED BY <2>1, <2>2 DEF Du
<1>5. Vient => page
  BY DEF Vient
<1> QED BY <1>1, <1>2, <1>3, <1>4, <1>5

\* montant_scruter, the RACH part.
LEMMA PontApresSuit ==
  ASSUME TypeInd, InvAcces, etape = "fin", GardeTrames >= 2,
         NEW s \in Paires, Coherent(s), Meme(s[1]),
         Net /\ Attendu(na) => s[2][na].pub = 0 /\ ~(s[1].actif /\ s[1].id = na),
         Net /\ depuis \in 0 .. 1 => (s[1].emis = depuis <=> Deja(s[2][na]))
  PROVE  LET t == PontApres(s)
         IN  /\ t \in Paires /\ Coherent(t) /\ t[1].emis = s[1].emis
             /\ \A i \in 1 .. na :
                  t[2][i].emis = s[2][i].emis /\ t[2][i].pareil = s[2][i].pareil
             /\ \A i \in 1 .. na :
                  ~Repris(i - 1) => \/ t[2][i].pub >= 1 \/ (t[1].actif /\ t[1].id = i)
                                    \/ (i = na /\ depuis = 0 /\ ici.tardif)
             /\ t[1].actif /\ ~Repris(t[1].id) =>
                  /\ t[1].age = (IF t[1].id = na THEN Mini(depuis, Retard) ELSE Retard)
                  /\ t[1].id = na => ~(ici.tardif /\ depuis = 0)
                  /\ t[1].id # na => ici.tardif /\ depuis = 0
             /\ Net /\ depuis = 0 /\ (ici.tardif \/ s[1].emis # 0) => t[2][na].pub = 0
<1> DEFINE t == PontApres(s)
<1>0. /\ na \in Nat /\ depuis \in 0 .. Ecart /\ dRach # 0 /\ dRach \in Ras \cup {0, Residu}
      /\ 0 \in 0 .. 1 /\ 1 \in 0 .. 1 /\ (ici.differe = 1 <=> ici.tardif) /\ ici.differe \in 0 .. 1
  BY Nombres
<1>1. Repris(na) <=> ~Net
  BY DEF Net
<1>2. CASE m.attente
  <2>1. /\ ici.tardif /\ m.ageAttente = 1 /\ m.id = na /\ na > 0 /\ aEcrire = 0
    BY <1>2 DEF InvAcces, Attente
  <2>2. dRach = acces[na].ra
    BY <2>1 DEF InvAcces, Situation
  <2>3. Net => depuis = 1
    BY <1>2, Nombres DEF InvAcces, Pendant
  <2>4. Net => Attendu(na)
    BY <1>2, <2>1, <2>3 DEF Attendu
  <2>5. t = PublierRach(s, na, dRach, 1)
    <3>1. Du
      BY <1>2, VientDit
    <3>2. PontDu(s) = PublierRach(s, na, dRach, 1)
      BY <1>0, <2>1, <3>1 DEF PontDu
    <3>3. ici.differe # 0
      BY <1>0, <2>1
    <3> QED BY <3>2, <3>3 DEF PontApres
  <2> HIDE DEF t
  <2>6. /\ t \in Paires /\ Coherent(t) /\ Rendus(t[1], t[2])
        /\ t[1].emis = s[1].emis /\ (t[1].actif => t[1].id = na /\ t[1].age = 1)
        /\ \A i \in 1 .. na :
             t[2][i].emis = s[2][i].emis /\ t[2][i].pareil = s[2][i].pareil
    <3>1. Net => /\ depuis = 1 /\ s[2][na].pub = 0 /\ ~(s[1].actif /\ s[1].id = na)
                 /\ s[1].emis = 1 <=> Deja(s[2][na])
      BY <2>3, <2>4
    <3> DEFINE x == PublierRach(s, na, dRach, 1)
    <3>2. /\ x \in Paires /\ Coherent(x) /\ Rendus(x[1], x[2])
          /\ x[1].emis = s[1].emis /\ (x[1].actif => x[1].id = na /\ x[1].age = 1)
          /\ \A i \in 1 .. na :
               x[2][i].emis = s[2][i].emis /\ x[2][i].pareil = s[2][i].pareil
      BY <1>0, <2>1, <2>2, <3>1, PublierRachSuit
    <3> HIDE DEF x
    <3>3. t = x
      BY <2>5 DEF x
    <3> QED BY <3>2, <3>3
  <2>7. t[1].actif /\ ~Repris(t[1].id) => t[1].id = na /\ depuis = 1 /\ t[1].age = 1
    BY <1>1, <2>3, <2>6
  <2>8. Mini(1, Retard) = 1
    BY DEF Mini, Retard
  <2> QED BY <2>3, <2>6, <2>7, <2>8 DEF t, Rendus
<1>3. CASE ~m.attente /\ Vient /\ ici.differe = 0
  <2>1. na > 0 /\ ~ici.tardif
    BY <1>0, <1>3, VientDit
  <2>2. dRach = acces[na].ra
    BY <2>1 DEF InvAcces, Situation
  <2>3. Net => depuis = 0
    BY <1>3, VientDit
  <2>4. Net => Attendu(na)
    BY <2>3 DEF Attendu
  <2>5. t = PublierRach(s, na, dRach, 0)
    BY <1>3 DEF PontApres, PontDu, Du
  <2> HIDE DEF t
  <2>6. /\ t \in Paires /\ Coherent(t) /\ Rendus(t[1], t[2])
        /\ t[1].emis = s[1].emis /\ (t[1].actif => t[1].id = na /\ t[1].age = 0)
        /\ \A i \in 1 .. na :
             t[2][i].emis = s[2][i].emis /\ t[2][i].pareil = s[2][i].pareil
        /\ Net /\ s[1].emis # 0 => t[2][na].pub = 0
    <3>1. Net => /\ depuis = 0 /\ s[2][na].pub = 0 /\ ~(s[1].actif /\ s[1].id = na)
                 /\ s[1].emis = 0 <=> Deja(s[2][na])
      BY <2>3, <2>4
    <3> DEFINE x == PublierRach(s, na, dRach, 0)
    <3>2. /\ x \in Paires /\ Coherent(x) /\ Rendus(x[1], x[2])
          /\ x[1].emis = s[1].emis /\ (x[1].actif => x[1].id = na /\ x[1].age = 0)
          /\ \A i \in 1 .. na :
               x[2][i].emis = s[2][i].emis /\ x[2][i].pareil = s[2][i].pareil
          /\ Net /\ s[1].emis # 0 => x[2][na].pub = 0
      BY <1>0, <2>1, <2>2, <3>1, PublierRachSuit
    <3> HIDE DEF x
    <3>3. t = x
      BY <2>5 DEF x
    <3> QED BY <3>2, <3>3
  <2>7. t[1].actif /\ ~Repris(t[1].id) => t[1].id = na /\ depuis = 0 /\ t[1].age = 0
    BY <1>1, <2>3, <2>6
  <2>8. Mini(0, Retard) = 0
    BY DEF Mini, Retard
  <2> QED BY <2>1, <2>6, <2>7, <2>8 DEF t, Rendus
<1>4. CASE ~m.attente /\ ~(Vient /\ ici.differe = 0)
  <2>1. t = s
    BY <1>4 DEF PontApres, PontDu, Du
  <2>2. ASSUME Net, depuis = 0
        PROVE  ici.tardif
    BY <1>0, <1>4, <2>2, VientDit
  <2>3. ASSUME Net, depuis = 1
        PROVE  ~ici.tardif
    BY <1>4, <2>3, Nombres DEF InvAcces, Pendant
  <2>4. ASSUME NEW i \in 1 .. na, ~Repris(i - 1), Attendu(i)
        PROVE  i = na /\ depuis = 0 /\ ici.tardif
    <3>1. i = na /\ depuis = 0
      BY <1>4, <2>4 DEF Attendu
    <3>2. ~acces[na].long
      BY <3>1, Nombres DEF InvAcces, Situation
    <3>3. Net
      <4>1. SUFFICES ASSUME NEW j \in 1 .. na, acces[j].long, ici.efface = "defaut"
                     PROVE  FALSE
        BY DEF Net, Repris
      <4>2. j \in 1 .. na - 1
        BY <1>0, <3>2, <4>1
      <4> QED BY <2>4, <3>1, <4>1, <4>2 DEF Repris
    <3> QED BY <2>2, <3>1, <3>3
  <2>5. \A i \in 1 .. na :
          ~Repris(i - 1) => \/ s[2][i].pub >= 1 \/ (s[1].actif /\ s[1].id = i)
                            \/ (i = na /\ depuis = 0 /\ ici.tardif)
    BY <2>4 DEF Coherent, Suite, Reste
  <2>6. ASSUME s[1].actif, ~Repris(s[1].id)
        PROVE  /\ s[1].age = (IF s[1].id = na THEN Mini(depuis, Retard) ELSE Retard)
               /\ s[1].id = na => ~(ici.tardif /\ depuis = 0)
               /\ s[1].id # na => ici.tardif /\ depuis = 0
    <3>1. p.actif /\ s[1].id = p.id /\ s[1].age = p.age /\ ~Repris(p.id)
      BY <2>6 DEF Meme
    <3>2. /\ p.age = (IF p.id = na THEN Mini(depuis, Retard) ELSE Retard)
          /\ p.id = na => depuis # 0
          /\ p.id # na => depuis = 0 \/ (ici.tardif /\ depuis = 1)
          /\ Net
      BY <3>1, PendantDit
    <3> QED BY <2>2, <2>3, <3>1, <3>2
  <2>7. Net /\ depuis = 0 => s[2][na].pub = 0
    BY DEF Attendu
  <2> HIDE DEF t
  <2> QED BY <2>1, <2>5, <2>6, <2>7 DEF t
<1> QED BY <1>2, <1>3, <1>4

\* The end of a frame, for the accesses.
FinAcces(it, script, h) ==
  /\ Depart(it, script, h)
  /\ acces' = PontApres(AvantScruter(it, script, h))[2]
  /\ p' = Vieux(PontApres(AvantScruter(it, script, h))[1])
  /\ m' = MontantApres /\ page' = (page /\ ~(Vient /\ ici.efface = "oui"))
  /\ aLire' \in {0, aLire}
  /\ aLire' # 0 => depuis = 0 /\ EmisApres(script) = p.emis /\ h[na].emis = acces[na].emis
  /\ depuis >= 2 => EmisApres(script) = p.emis
  /\ etape' = "l1" /\ na' = na /\ UNCHANGED <<ici, dRach, aEcrire, depuis>>

\* What it makes of the burst that waits and of the history.
LEMMA FinPont ==
  ASSUME TypeInd, InvAcces, etape = "fin", GardeTrames >= 2,
         NEW it \in BOOLEAN, NEW script \in Scripts, NEW h \in Hist, FinAcces(it, script, h)
  PROVE  /\ Attente1(p', acces') /\ Histoire(acces')
         /\ \A i \in 1 .. na :
              ~Repris(i - 1) => \/ acces'[i].pub >= 1 \/ (p'.actif /\ p'.id = i)
                                \/ (i = na /\ depuis = 0 /\ ici.tardif)
         /\ p'.actif /\ ~Repris(p'.id) =>
              /\ Attend(acces'[p'.id])
              /\ p'.age = (IF p'.id = na THEN Mini(depuis + 1, Retard) ELSE Retard)
              /\ p'.id = na => ~(ici.tardif /\ depuis = 0)
              /\ p'.id # na => ici.tardif /\ depuis = 0
         /\ Net /\ depuis = 0 /\ (ici.tardif \/ EmisApres(script) # 0) => acces'[na].pub = 0
         /\ p'.emis = (IF EmisApres(script) < 2 THEN EmisApres(script) + 1 ELSE 2)
         /\ EmisApres(script) \in 0 .. 2
         /\ \A i \in 1 .. na : acces'[i].emis = h[i].emis /\ acces'[i].pareil = h[i].pareil
<1> DEFINE s == AvantScruter(it, script, h)
           t == PontApres(s)
<1>0. TypeOK /\ Depart(it, script, h) /\ p \in Ponts
  BY Nombres DEF TypeInd, FinAcces
<1>1. /\ s \in Paires /\ Coherent(s) /\ Meme(s[1]) /\ s[1].emis = EmisApres(script)
      /\ \A i \in 1 .. na :
           /\ s[2][i].emis = h[i].emis /\ s[2][i].pareil = h[i].pareil
           /\ ~(p.actif /\ p.id = i) => s[2][i] = h[i]
  BY <1>0, AvantScruterSuit
<1>2. acces' = t[2] /\ p' = Vieux(t[1])
  BY DEF FinAcces
<1> HIDE DEF s, t
<1>3. Net /\ Attendu(na) => s[2][na].pub = 0 /\ ~(s[1].actif /\ s[1].id = na)
  <2>1. SUFFICES ASSUME Net, Attendu(na)
                 PROVE  s[2][na].pub = 0 /\ ~(s[1].actif /\ s[1].id = na)
    OBVIOUS
  <2>2. h[na].pub = 0 /\ ~(p.actif /\ p.id = na)
    BY <1>0, <2>1 DEF Depart
  <2>3. na > 0
    BY <2>1, Nombres DEF Attendu, InvAcces, Attente
  <2>4. na \in 1 .. na
    BY <2>3, Nombres
  <2>5. s[2][na] = h[na]
    BY <1>1, <2>2, <2>4
  <2> QED BY <1>1, <2>2, <2>5 DEF Meme
<1>4. Net /\ depuis \in 0 .. 1 => (s[1].emis = depuis <=> Deja(s[2][na]))
  <2>1. SUFFICES ASSUME Net, depuis \in 0 .. 1
                 PROVE  s[1].emis = depuis <=> Deja(s[2][na])
    OBVIOUS
  <2>2. EmisApres(script) = depuis <=> Deja(h[na])
    BY <1>0, <2>1 DEF Depart
  <2>3. na \in 1 .. na
    <3>1. depuis = 1 => na > 0
      <4>1. depuis < Ecart => na > 0
        BY DEF InvAcces, Situation
      <4>2. depuis = 1 => depuis < Ecart
        BY Constantes
      <4> QED BY <4>1, <4>2
    <3>2. depuis = 0 \/ depuis = 1
      BY <2>1
    <3> QED BY <3>1, <3>2, Nombres
  <2>4. s[2][na].emis = h[na].emis /\ s[2][na].pareil = h[na].pareil
    BY <1>1, <2>3
  <2> QED BY <1>1, <2>2, <2>4 DEF Deja
<1>5. /\ t \in Paires /\ Coherent(t) /\ t[1].emis = s[1].emis
      /\ \A i \in 1 .. na :
           t[2][i].emis = s[2][i].emis /\ t[2][i].pareil = s[2][i].pareil
      /\ \A i \in 1 .. na :
           ~Repris(i - 1) => \/ t[2][i].pub >= 1 \/ (t[1].actif /\ t[1].id = i)
                             \/ (i = na /\ depuis = 0 /\ ici.tardif)
      /\ t[1].actif /\ ~Repris(t[1].id) =>
           /\ t[1].age = (IF t[1].id = na THEN Mini(depuis, Retard) ELSE Retard)
           /\ t[1].id = na => ~(ici.tardif /\ depuis = 0)
           /\ t[1].id # na => ici.tardif /\ depuis = 0
      /\ Net /\ depuis = 0 /\ (ici.tardif \/ s[1].emis # 0) => t[2][na].pub = 0
  <2>1. t = PontApres(s)
    BY DEF t
  <2> QED BY <1>1, <1>3, <1>4, <2>1, PontApresSuit
<1> DEFINE q == t[1]
<1>6. q \in Ponts
  BY <1>5, PairesDit
<1> HIDE DEF q
<1>7. /\ p'.actif = q.actif /\ p'.id = q.id /\ p'.ra = q.ra /\ p'.pose = q.pose
      /\ p'.age = (IF q.age < 3 THEN q.age + 1 ELSE 3)
      /\ p'.emis = (IF q.emis < 2 THEN q.emis + 1 ELSE 2) /\ q.emis \in 0 .. 2
  <2>1. p' = Vieux(q)
    BY <1>2 DEF q
  <2>2. q.emis \in 0 .. 2
    BY <1>6 DEF Ponts
  <2> QED BY <1>6, <2>1, <2>2, VieuxDit
<1>8. Attente1(q, acces') /\ Histoire(acces')
      /\ (q.actif /\ ~Repris(q.id) => Attend(acces'[q.id]))
  BY <1>2, <1>5 DEF Coherent, Suite, q
<1>9. Attente1(p', acces')
  BY <1>7, <1>8 DEF Attente1
<1>10. \A i \in 1 .. na :
         ~Repris(i - 1) => \/ acces'[i].pub >= 1 \/ (p'.actif /\ p'.id = i)
                           \/ (i = na /\ depuis = 0 /\ ici.tardif)
  BY <1>2, <1>5, <1>7 DEF q
<1>11. ASSUME p'.actif, ~Repris(p'.id)
       PROVE  /\ Attend(acces'[p'.id])
              /\ p'.age = (IF p'.id = na THEN Mini(depuis + 1, Retard) ELSE Retard)
              /\ p'.id = na => ~(ici.tardif /\ depuis = 0)
              /\ p'.id # na => ici.tardif /\ depuis = 0
  <2>1. q.actif /\ ~Repris(q.id) /\ q.id = p'.id
    BY <1>7, <1>11
  <2>2. /\ q.age = (IF q.id = na THEN Mini(depuis, Retard) ELSE Retard)
        /\ q.id = na => ~(ici.tardif /\ depuis = 0)
        /\ q.id # na => ici.tardif /\ depuis = 0
    BY <1>5, <2>1 DEF q
  <2>3. depuis \in Nat
    BY Nombres
  <2>4. CASE q.id = na
    <3>1. q.age = Mini(depuis, 3)
      BY <2>2, <2>4 DEF Retard
    <3>2. p'.age = Mini(depuis + 1, 3)
      BY <1>7, <2>3, <3>1 DEF Mini
    <3> QED BY <1>8, <2>1, <2>2, <2>4, <3>2 DEF Retard
  <2>5. CASE q.id # na
    <3>1. p'.age = Retard
      BY <1>7, <2>2, <2>5 DEF Retard
    <3> QED BY <1>8, <2>1, <2>2, <2>5, <3>1
  <2> QED BY <2>4, <2>5
<1>12. q.emis = EmisApres(script)
  BY <1>1, <1>5 DEF q
<1>13. Net /\ depuis = 0 /\ (ici.tardif \/ EmisApres(script) # 0) => acces'[na].pub = 0
  BY <1>1, <1>2, <1>5
<1>14. \A i \in 1 .. na : acces'[i].emis = h[i].emis /\ acces'[i].pareil = h[i].pareil
  BY <1>1, <1>2, <1>5
<1> QED BY <1>7, <1>8, <1>9, <1>10, <1>11, <1>12, <1>13, <1>14

\* What it makes of the detection.
LEMMA FinMontant ==
  ASSUME TypeInd, InvAcces, etape = "fin", GardeTrames >= 2,
         NEW it \in BOOLEAN, NEW script \in Scripts, NEW h \in Hist, FinAcces(it, script, h)
  PROVE  /\ m'.prev = dRach /\ m'.avant = page
         /\ m'.vu <=> m.vu \/ Vient
         /\ m'.attente <=> Vient /\ ici.tardif
         /\ m'.attente => m'.ageAttente = 1 /\ m'.id = na /\ na > 0
         /\ m'.age = (IF Vient THEN 1 ELSE IF m.age < GardeTrames THEN m.age + 1 ELSE GardeTrames)
         /\ page' <=> page /\ ~(Vient /\ ici.efface = "oui")
<1>1. TypeOK /\ m \in Montants
  BY Nombres DEF TypeInd
<1>2. m' = MontantApres /\ page' = (page /\ ~(Vient /\ ici.efface = "oui"))
  BY DEF FinAcces
<1>3. /\ m'.prev = dRach /\ m'.avant = page
      /\ m'.vu <=> m.vu \/ Vient
      /\ m'.attente <=> IF Vient THEN ici.differe > 0 ELSE m.attente /\ ~Du
      /\ m'.id = IF Vient THEN na ELSE m.id
      /\ m'.age = Plafond(IF Vient THEN 0 ELSE m.age, GardeTrames)
      /\ m'.ageAttente = Plafond(IF Vient THEN 0 ELSE m.ageAttente, 1)
  BY <1>1, <1>2, MontantApresDit
<1>4. (m.attente => Du) /\ (Vient => na > 0)
  BY VientDit
<1>5. (ici.differe > 0) <=> ici.tardif
  <2>1. (ici.differe = 1 <=> ici.tardif) /\ (ici.differe = 0 \/ ici.differe = 1)
    BY Nombres
  <2> QED BY <2>1
<1>6. m'.attente <=> Vient /\ ici.tardif
  BY <1>3, <1>4, <1>5, ZenonT(60)
<1>7. Vient => m'.ageAttente = 1 /\ m'.id = na
  BY <1>3 DEF Plafond
<1>8. m'.age = (IF Vient THEN 1 ELSE IF m.age < GardeTrames THEN m.age + 1 ELSE GardeTrames)
  BY <1>1, <1>3, Constantes DEF Plafond, Montants
<1>9. page' <=> page /\ ~(Vient /\ ici.efface = "oui")
  BY <1>2
<1> QED BY <1>3, <1>4, <1>6, <1>7, <1>8, <1>9

LEMMA FinAccesInv ==
  ASSUME TypeInd, InvAcces, etape = "fin", GardeTrames >= 2,
         NEW it \in BOOLEAN, NEW script \in Scripts, NEW h \in Hist, FinAcces(it, script, h)
  PROVE  InvAcces'
<1>1. /\ etape' = "l1" /\ na' = na /\ UNCHANGED <<ici, dRach, aEcrire, depuis>>
      /\ aLire' \in {0, aLire}
      /\ aLire' # 0 => depuis = 0 /\ EmisApres(script) = p.emis /\ h[na].emis = acces[na].emis
      /\ depuis >= 2 => EmisApres(script) = p.emis
  BY DEF FinAcces
<1>2. /\ na \in Nat /\ depuis \in 0 .. Ecart /\ depuis \in Nat
      /\ Pose0 <=> depuis = 0
      /\ Suivante <=> depuis = 1
      /\ Passees = depuis
      /\ depuis = 0 => na > 0
      /\ aLire \in {0, na} /\ (aLire # 0 => na > 0 /\ aLire = na /\ depuis \in 0 .. 1)
      /\ na > 0 => na \in 1 .. na
  BY Nombres
<1>3. Ecart \in Nat /\ GardeTrames \in Nat /\ Ecart > 3
  BY Constantes
<1>4. ~Pose0' /\ (Suivante' <=> depuis = 0) /\ Passees' = depuis + 1
  BY <1>1 DEF Pose0, Suivante, Passees
<1>5. /\ Attente1(p', acces') /\ Histoire(acces')
      /\ \A i \in 1 .. na :
           ~Repris(i - 1) => \/ acces'[i].pub >= 1 \/ (p'.actif /\ p'.id = i)
                             \/ (i = na /\ depuis = 0 /\ ici.tardif)
      /\ p'.actif /\ ~Repris(p'.id) =>
           /\ Attend(acces'[p'.id])
           /\ p'.age = (IF p'.id = na THEN Mini(depuis + 1, Retard) ELSE Retard)
           /\ p'.id = na => ~(ici.tardif /\ depuis = 0)
           /\ p'.id # na => ici.tardif /\ depuis = 0
      /\ Net /\ depuis = 0 /\ (ici.tardif \/ EmisApres(script) # 0) => acces'[na].pub = 0
      /\ p'.emis = (IF EmisApres(script) < 2 THEN EmisApres(script) + 1 ELSE 2)
      /\ EmisApres(script) \in 0 .. 2
      /\ \A i \in 1 .. na : acces'[i].emis = h[i].emis /\ acces'[i].pareil = h[i].pareil
  BY FinPont
<1>6. \A i \in 1 .. na : acces'[i].ra = acces[i].ra /\ acces'[i].long = acces[i].long
                         /\ acces'[i].juste
  BY <1>5 DEF Histoire, InvAcces, Justes
<1>7. \A i \in Int : i <= na => (Repris(i)' <=> Repris(i))
  <2>1. SUFFICES ASSUME NEW i \in Int, i <= na
                 PROVE  Repris(i)' <=> Repris(i)
    OBVIOUS
  <2>2. \A j \in 1 .. i : j \in 1 .. na
    BY <1>2, <2>1
  <2> QED BY <1>1, <1>6, <2>2 DEF Repris
<1>8. Net' <=> Net
  <2>1. Net' <=> ~Repris(na)'
    BY DEF Net
  <2>2. Repris(na)' <=> Repris(na)
    BY <1>1, <1>2, <1>7
  <2> QED BY <2>1, <2>2 DEF Net
<1>9. /\ m'.prev = dRach /\ m'.avant = page
      /\ m'.vu <=> m.vu \/ Vient
      /\ m'.attente <=> Vient /\ ici.tardif
      /\ m'.attente => m'.ageAttente = 1 /\ m'.id = na /\ na > 0
      /\ m'.age = (IF Vient THEN 1 ELSE IF m.age < GardeTrames THEN m.age + 1 ELSE GardeTrames)
      /\ page' <=> page /\ ~(Vient /\ ici.efface = "oui")
  BY FinMontant
<1>10. (Net => (Vient <=> depuis = 0)) /\ (Vient => page /\ na > 0)
  BY VientDit
<1>11. aLire' \in {0, na} /\ (aLire' # 0 => depuis = 0 /\ aLire' = na /\ na \in 1 .. na)
  BY <1>1, <1>2
<1>12. ici.efface = "oui" => Net
  BY ReprisDit
<1>13. Situation'
  <2>1. (depuis < Ecart => na > 0) /\ (page => na > 0)
    BY DEF InvAcces, Situation
  <2>2. aEcrire # 0 => ici.tardif /\ na > 0 /\ aEcrire = acces[na].ra /\ depuis = 0
    BY DEF InvAcces, Situation
  <2>3. na > 0 /\ aEcrire = 0 => dRach = acces[na].ra
    BY DEF InvAcces, Situation
  <2>4. na > 0 => acces'[na].ra = acces[na].ra
    BY <1>2, <1>6
  <2> QED BY <1>1, <1>4, <1>9, <1>11, <2>1, <2>2, <2>3, <2>4 DEF Situation
<1>14. Attente'
  <2>1. ASSUME m'.attente
        PROVE  page' \/ depuis' = 0
    <3>1. Vient /\ page
      BY <1>9, <1>10, <2>1
    <3>2. CASE ici.efface = "oui"
      BY <1>1, <1>10, <1>12, <3>1, <3>2
    <3>3. CASE ici.efface # "oui"
      BY <1>9, <3>1, <3>3
    <3> QED BY <3>2, <3>3
  <2> QED BY <1>1, <1>9, <2>1 DEF Attente
<1>15. Justes'
  BY <1>1, <1>5, <1>6 DEF Attente1, Justes
<1>16. Garde'
  <2>1. SUFFICES ASSUME Net
                 PROVE  /\ na = 0 => ~m'.vu
                        /\ na > 0 => m'.vu /\ m'.age = Mini(depuis + 1, GardeTrames)
                        /\ ici.efface = "oui" => ~page'
                        /\ ici.efface = "non" =>
                             /\ page' => m'.avant
                             /\ m'.avant => page'
                             /\ m'.prev = dRach
    BY <1>1, <1>4, <1>8 DEF Garde, Mini
  <2>2. na = 0 => ~m'.vu
    BY <1>9, <1>10, <2>1 DEF InvAcces, Garde
  <2>3. CASE depuis = 0
    <3>1. Vient
      BY <1>10, <2>1, <2>3
    <3>2. m'.vu /\ m'.age = 1
      BY <1>9, <3>1
    <3>3. Mini(depuis + 1, GardeTrames) = 1
      BY <1>3, <2>3 DEF Mini
    <3> QED BY <1>9, <2>2, <3>1, <3>2, <3>3
  <2>4. CASE depuis # 0
    <3>1. ~Vient
      BY <1>10, <2>1, <2>4
    <3>2. na > 0 => m.vu /\ m.age = Mini(depuis, GardeTrames)
      BY <1>2, <2>1, <2>4 DEF InvAcces, Garde
    <3>3. na > 0 => m'.age = Mini(depuis + 1, GardeTrames)
      BY <1>2, <1>3, <1>9, <3>1, <3>2 DEF Mini
    <3>4. ici.efface = "oui" => ~page
      BY <1>2, <2>1, <2>4 DEF InvAcces, Garde
    <3> QED BY <1>9, <2>2, <3>1, <3>2, <3>3, <3>4
  <2> QED BY <2>3, <2>4
<1>17. Emis'
  <2>1. p.emis \in {1, 2}
    BY DEF InvAcces, Emis
  <2>2. depuis >= 2 => p'.emis = 2
    BY <1>1, <1>5, <2>1
  <2>3. p'.emis \in {1, 2}
    BY <1>5
  <2>4. ASSUME depuis = 0, Net
        PROVE  p'.emis = 1 <=> acces'[na].emis = 0 /\ ~acces'[na].pareil
    <3>1. na \in 1 .. na
      BY <1>2, <2>4
    <3>2. EmisApres(script) = 0 <=> Deja(h[na])
      BY <2>4 DEF FinAcces, Depart
    <3>3. Deja(h[na]) <=> acces'[na].emis = 0 /\ ~acces'[na].pareil
      BY <1>5, <3>1 DEF Deja
    <3>4. p'.emis = 1 <=> EmisApres(script) = 0
      BY <1>5
    <3> QED BY <3>2, <3>3, <3>4
  <2>5. (Passees >= 3)' => depuis >= 2
    BY <1>2, <1>4
  <2> QED BY <1>1, <1>4, <1>8, <2>2, <2>3, <2>4, <2>5 DEF Emis
<1>18. Pendant'
  <2>1. ASSUME p'.actif
        PROVE  /\ p'.id \in 1 .. na /\ Repris(p.id)' <=> Repris(p'.id)
               /\ ~Net => Repris(p'.id)
               /\ ~Repris(p'.id) => p'.pose = 0 /\ acces'[p'.id].pub = 0
    <3>1. p'.id \in 1 .. na /\ (~Net => Repris(p'.id))
          /\ (~Repris(p'.id) => p'.pose = 0 /\ acces'[p'.id].pub = 0)
      BY <1>5, <2>1 DEF Attente1
    <3>2. \A j \in 1 .. p'.id : acces'[j].long = acces[j].long
      <4>1. \A j \in 1 .. p'.id : j \in 1 .. na
        BY <1>2, <3>1
      <4> QED BY <1>6, <4>1
    <3>3. ici' = ici
      BY <1>1
    <3>4. Repris(p.id)' <=> ici'.efface = "defaut" /\ \E j \in 1 .. p'.id : acces'[j].long
      BY DEF Repris
    <3>5. Repris(p'.id) <=> ici.efface = "defaut" /\ \E j \in 1 .. p'.id : acces[j].long
      BY DEF Repris
    <3>6. Repris(p.id)' <=> Repris(p'.id)
      BY <3>2, <3>3, <3>4, <3>5
    <3> QED BY <3>1, <3>6
  <2>2. Net /\ m'.attente => depuis = 0
    BY <1>9, <1>10
  <2>3. Net /\ ici.tardif /\ depuis = 0 => m'.attente /\ acces'[na].pub = 0
    BY <1>5, <1>9, <1>10
  <2>4. ASSUME Net, aLire' # 0
        PROVE  acces'[na].emis = -1 /\ acces'[na].pub = 0
    <3>1. aLire # 0 /\ depuis = 0 /\ na \in 1 .. na /\ EmisApres(script) = p.emis
          /\ h[na].emis = acces[na].emis
      BY <1>1, <1>11, <2>4
    <3>2. acces[na].emis = -1
      BY <2>4, <3>1 DEF InvAcces, Pendant
    <3>3. p.emis # 0
      BY DEF InvAcces, Emis
    <3> QED BY <1>5, <2>4, <3>1, <3>2, <3>3
  <2>5. ASSUME p'.actif, ~Repris(p.id)'
        PROVE  /\ p'.pose = 0 /\ acces'[p'.id].pub = 0
               /\ Attend(acces'[p'.id])
               /\ p'.age = (IF p'.id = na THEN Mini(depuis + 1, Retard) ELSE Retard)
               /\ p'.id = na => ~(ici.tardif /\ depuis = 0)
               /\ p'.id # na => ici.tardif /\ depuis = 0
    <3>1. ~Repris(p'.id)
      BY <2>1, <2>5
    <3> QED BY <1>5, <2>1, <2>5, <3>1
  <2>6. (p.actif /\ ~Net => Repris(p.id))'
    BY <1>8, <2>1
  <2>7. ASSUME p'.actif, ~Repris(p.id)'
        PROVE  p'.age = (IF p'.id = na' THEN Mini(Passees', Retard) ELSE Retard)
    BY <1>1, <1>4, <2>5, <2>7
  <2>8. (Net /\ m.attente => Suivante)'
    BY <1>4, <1>8, <2>2
  <2>9. (Net /\ ici.tardif /\ Suivante => m.attente /\ acces[na].pub = 0)'
    BY <1>1, <1>4, <1>8, <2>3
  <2>10. (Net /\ aLire # 0 => acces[na].emis = -1 /\ acces[na].pub = 0)'
    BY <1>1, <1>8, <2>4
  <2>11. (p.actif /\ ~Repris(p.id) =>
       /\ p.pose = 0 /\ acces[p.id].pub = 0
       /\ aLire = p.id \/ acces[p.id].emis \in {-1, 1} \/ acces[p.id].pareil
       /\ p.age = IF p.id = na THEN Mini(Passees, Retard) ELSE Retard
       /\ p.id = na => ~Pose0 /\ (ici.tardif => ~Suivante)
       /\ p.id # na => Pose0 \/ (ici.tardif /\ Suivante))'
    <3>1. SUFFICES ASSUME p'.actif, ~Repris(p.id)'
                   PROVE  (/\ p.pose = 0 /\ acces[p.id].pub = 0
                           /\ acces[p.id].emis \in {-1, 1} \/ acces[p.id].pareil
                           /\ p.age = IF p.id = na THEN Mini(Passees, Retard) ELSE Retard
                           /\ p.id = na => ~Pose0 /\ (ici.tardif => ~Suivante)
                           /\ p.id # na => Pose0 \/ (ici.tardif /\ Suivante))'
      OBVIOUS
    <3>2. p'.age = (IF p'.id = na' THEN Mini(Passees', Retard) ELSE Retard)
      BY <2>7, <3>1
    <3>3. /\ p'.pose = 0 /\ acces'[p'.id].pub = 0
          /\ acces'[p'.id].emis \in {-1, 1} \/ acces'[p'.id].pareil
      BY <2>5, <3>1 DEF Attend
    <3>4. /\ p'.id = na => ~(ici.tardif /\ depuis = 0)
          /\ p'.id # na => ici.tardif /\ depuis = 0
      BY <2>5, <3>1
    <3>5. Retard' = Retard
      OBVIOUS
    <3> QED BY <1>1, <1>4, <3>2, <3>3, <3>4
  <2> QED BY <2>6, <2>8, <2>9, <2>10, <2>11 DEF Pendant
<1>19. Dates'
  <2>1. SUFFICES ASSUME NEW i \in 1 .. na, ~Repris(i)'
                 PROVE  acces'[i].pub <= 1 /\ Date(acces'[i])
    BY <1>1 DEF Dates, Date
  <2>2. ~Repris(i)
    BY <1>2, <1>7, <2>1
  <2> QED BY <1>5, <2>2 DEF Histoire
<1>20. Suivis'
  <2>1. SUFFICES ASSUME NEW i \in 1 .. na, ~Repris(i - 1)'
                 PROVE  \/ acces'[i].pub >= 1
                        \/ p'.actif /\ p'.id = i
                        \/ i = na /\ ici.tardif /\ depuis = 0 /\ m'.attente
    BY <1>1, <1>4 DEF Suivis
  <2>2. ~Repris(i - 1)
    BY <1>2, <1>7, <2>1
  <2>3. ASSUME i = na, depuis = 0, ici.tardif
        PROVE  m'.attente
    <3>1. ~acces[na].long
      BY <1>2, <2>3 DEF InvAcces, Situation
    <3>2. Net
      <4>1. SUFFICES ASSUME NEW j \in 1 .. na, acces[j].long, ici.efface = "defaut"
                     PROVE  FALSE
        BY DEF Net, Repris
      <4>2. j \in 1 .. na - 1
        BY <1>2, <3>1, <4>1
      <4> QED BY <2>2, <2>3, <4>1, <4>2 DEF Repris
    <3> QED BY <1>9, <1>10, <2>3, <3>2
  <2> QED BY <1>5, <2>2, <2>3
<1> QED BY <1>13, <1>14, <1>15, <1>16, <1>17, <1>18, <1>19, <1>20 DEF InvAcces

LEMMA TrameAccesInv ==
  ASSUME TypeInd, InvAcces, Trame, GardeTrames >= 2
  PROVE  InvAcces'
<1>1. /\ etape = "fin" /\ etape' = "l1" /\ UNCHANGED <<ici, dRach, aEcrire, depuis>>
      /\ \E it \in BOOLEAN : TrameAcces(it) \/ TrameBurst(it) \/ TrameRien(it)
  BY TrameDite DEF TypeInd
<1>2. na' = na
  BY TrameType
<1>3. /\ TypeOK /\ p.prec \in Scripts /\ acces \in Hist /\ aLire \in 0 .. na /\ 0 \in 0 .. na
  BY TrameTypes DEF TypeInd
<1>4. ASSUME NEW it \in BOOLEAN, TrameAcces(it)
      PROVE  InvAcces'
  <2> DEFINE script == ScriptAcces(aLire)
  <2>1. /\ it /\ aLire # 0 /\ Fin(it, script, rom.ptr, rom.bloc, Emise, blocs, cu.blud, 0)
    BY <1>4 DEF TrameAcces, RomAcces
  <2>2. script \in Scripts /\ Emise \in Hist
    BY <2>1, TrameTypes, EmiseDit
  <2>3. Depart(it, script, Emise)
    BY <1>1, <2>1, DepartAcces
  <2> HIDE DEF script
  <2>4. /\ acces' = PontApres(AvantScruter(it, script, Emise))[2]
        /\ p' = Vieux(PontApres(AvantScruter(it, script, Emise))[1])
        /\ m' = MontantApres /\ page' = (page /\ ~(Vient /\ ici.efface = "oui"))
        /\ aLire' = IF Vient /\ ici.efface = "oui" THEN 0 ELSE 0
    BY <1>3, <2>1, <2>2, FinDit, ZenonT(60)
  <2>5. depuis \in 0 .. 1
    BY <1>1, <2>1, Nombres
  <2>6. FinAcces(it, script, Emise)
    BY <1>1, <1>2, <2>3, <2>4, <2>5 DEF FinAcces
  <2> QED BY <1>1, <2>2, <2>6, FinAccesInv
<1>5. ASSUME NEW it \in BOOLEAN, TrameBurst(it)
      PROVE  InvAcces'
  <2> DEFINE script == ScriptBurst(cu.bloc, Numero)
  <2>1. /\ aLire = 0 /\ rom.reste > 0
        /\ Fin(it, script, Suivant, cu.bloc, acces, Envoyes, FALSE, 0)
    BY <1>5 DEF TrameBurst, RomBurst
  <2>2. script \in Scripts
    BY <2>1, TrameTypes
  <2>3. script[1] # "AB"
    BY DEF ScriptBurst
  <2> HIDE DEF script
  <2>4. /\ acces' = PontApres(AvantScruter(it, script, acces))[2]
        /\ p' = Vieux(PontApres(AvantScruter(it, script, acces))[1])
        /\ m' = MontantApres /\ page' = (page /\ ~(Vient /\ ici.efface = "oui"))
        /\ aLire' = IF Vient /\ ici.efface = "oui" THEN 0 ELSE 0
    BY <1>3, <2>1, <2>2, FinDit, ZenonT(60)
  <2>5. Depart(it, script, acces) /\ EmisApres(script) = p.emis
    BY <1>1, <2>1, <2>3, DepartSans
  <2>6. FinAcces(it, script, acces)
    BY <1>1, <1>2, <2>1, <2>4, <2>5 DEF FinAcces
  <2> QED BY <1>1, <1>3, <2>2, <2>6, FinAccesInv
<1>6. ASSUME NEW it \in BOOLEAN, TrameRien(it)
      PROVE  InvAcces'
  <2>1. /\ aLire # 0 => depuis = 0
        /\ Fin(it, p.prec, rom.ptr, rom.bloc, acces, blocs, cu.blud, aLire)
    BY <1>6 DEF TrameRien, RomRien
  <2>2. /\ acces' = PontApres(AvantScruter(it, p.prec, acces))[2]
        /\ p' = Vieux(PontApres(AvantScruter(it, p.prec, acces))[1])
        /\ m' = MontantApres /\ page' = (page /\ ~(Vient /\ ici.efface = "oui"))
        /\ aLire' = IF Vient /\ ici.efface = "oui" THEN 0 ELSE aLire
    BY <1>3, <2>1, FinDit, ZenonT(60)
  <2>3. Depart(it, p.prec, acces) /\ EmisApres(p.prec) = p.emis
    BY <1>1, <2>1, DepartSans
  <2>4. FinAcces(it, p.prec, acces)
    BY <1>1, <1>2, <2>1, <2>2, <2>3 DEF FinAcces
  <2> QED BY <1>1, <1>3, <2>4, FinAccesInv
<1> QED BY <1>1, <1>4, <1>5, <1>6

\* The firmware posts a page without the RACH task, or none.
LEMMA PasDAccesInv ==
  ASSUME TypeInd, InvAcces, etape = "l1", etape' = "fin", UNCHANGED <<ici, m, p>>, PasDAcces,
         GardeTrames >= 2
  PROVE  InvAcces'
<1>1. /\ na \in Nat /\ acces \in Hist /\ depuis \in Nat /\ depuis <= Ecart
      /\ aLire \in Nat /\ p \in Ponts /\ m \in Montants
  <2>1. depuis \in 0 .. Ecart /\ aLire \in 0 .. na
    BY TypesSimples DEF TypeInd
  <2> QED BY <2>1, TypesDits, Constantes DEF TypeInd
<1>2. Ecart \in Nat /\ GardeTrames \in Nat /\ Ecart > 3 /\ Ecart >= GardeTrames
  BY Constantes
<1>3. /\ na' = na /\ (page' => page)
      /\ depuis' = (IF depuis < Ecart THEN depuis + 1 ELSE Ecart)
      /\ dRach' = (IF aEcrire = 0 THEN dRach ELSE aEcrire)
      /\ aEcrire' = 0 /\ aLire' = aLire
      /\ \A i \in 1 .. na :
              /\ i # na => acces'[i] = acces[i]
              /\ acces'[i].ra = acces[i].ra /\ acces'[i].date = acces[i].date
              /\ acces'[i].emis = acces[i].emis /\ acces'[i].pub = acces[i].pub
              /\ acces'[i].juste = acces[i].juste /\ acces'[i].pareil = acces[i].pareil
              /\ acces[i].long => acces'[i].long
      /\ ~(page' /\ depuis' >= GardeTrames) => acces' = acces
      /\ page' /\ depuis' >= GardeTrames /\ na > 0 => acces'[na].long
  BY PasDAccesDit DEF TypeInd
<1>4. ici' = ici /\ m' = m /\ p' = p
  OBVIOUS
<1>5. ~Pose0 /\ (Suivante <=> depuis = 0) /\ Passees = depuis + 1
  BY DEF Pose0, Suivante, Passees
<1>6. /\ ~Pose0' /\ (Suivante' <=> Suivante) /\ Passees' = depuis' /\ depuis' > 0
      /\ depuis' \in Nat
  BY <1>1, <1>2, <1>3, <1>5 DEF Pose0, Suivante, Passees
<1>7. /\ Mini(Passees', GardeTrames) = Mini(Passees, GardeTrames)
      /\ Mini(Passees', Retard) = Mini(Passees, Retard)
      /\ Passees' >= 3 => Passees >= 3
      /\ Passees' >= 2 => depuis # 0 /\ Passees >= 2
  BY <1>1, <1>2, <1>3, <1>5, <1>6 DEF Mini, Retard
<1>8. na > 0 => na \in 1 .. na
  BY <1>1
<1>9. depuis = 0 => na > 0
  BY <1>2 DEF InvAcces, Situation
<1> DEFINE R(i) == ici.efface = "defaut" /\ \E j \in 1 .. i : acces'[j].long
<1>10. /\ \A i \in Int : Repris(i)' <=> R(i)
       /\ Repris(p.id)' <=> R(p.id)
       /\ Net' <=> ~R(na)
  BY <1>3, <1>4 DEF Repris, Net
<1>11. \A i \in Int : /\ i <= na /\ Repris(i) => R(i)
                      /\ i < na => (Repris(i) <=> R(i))
  <2>1. TAKE i \in Int
  <2>2. ASSUME i <= na, Repris(i)
        PROVE  R(i)
    <3>1. PICK j \in 1 .. i : acces[j].long /\ ici.efface = "defaut"
      BY <2>2 DEF Repris
    <3>2. j \in 1 .. na
      BY <1>1, <2>2, <3>1
    <3>3. acces'[j].long
      BY <1>3, <3>1, <3>2
    <3> QED BY <3>1, <3>3
  <2>3. ASSUME i < na, R(i)
        PROVE  Repris(i)
    <3>1. PICK j \in 1 .. i : acces'[j].long /\ ici.efface = "defaut"
      BY <2>3
    <3>2. j \in 1 .. na /\ j # na
      BY <1>1, <2>3, <3>1
    <3>3. acces[j].long
      BY <1>3, <3>1, <3>2
    <3> QED BY <3>1, <3>3 DEF Repris
  <2> QED BY <1>1, <2>2, <2>3
<1> HIDE DEF R
<1>12. Net' => Net
  BY <1>1, <1>10, <1>11 DEF Net
<1>13. Net /\ ~Net' => depuis # 0
  <2>1. ASSUME Net, ~Net', depuis = 0
        PROVE  FALSE
    <3>1. depuis' = 1
      BY <1>2, <1>3, <2>1
    <3>2. acces' = acces
      BY <1>2, <1>3, <3>1
    <3>3. Net' <=> Net
      BY <1>3, <1>4, <3>2 DEF Net, Repris
    <3> QED BY <2>1, <3>3
  <2> QED BY <2>1
<1>14. p.actif => p.id \in 1 .. na /\ p.id \in Int /\ p.id <= na
  <2>1. p.actif => p.id \in 1 .. na
    BY DEF InvAcces, Justes
  <2> QED BY <1>1, <2>1
<1>15. aEcrire # 0 => na > 0 /\ aEcrire = acces[na].ra /\ depuis = 0
  BY DEF InvAcces, Situation
<1>16. Situation'
  <2>1. (depuis' < Ecart => na > 0) /\ (page' => na > 0)
    BY <1>1, <1>2, <1>3 DEF InvAcces, Situation
  <2>2. aLire' \in {0, na} /\ (aLire' # 0 => Suivante')
    BY <1>3, <1>5, <1>6 DEF InvAcces, Situation
  <2>3. na > 0 => dRach' = acces'[na].ra
    <3>1. ASSUME na > 0
          PROVE  dRach' = acces'[na].ra
      <4>1. aEcrire = 0 => dRach = acces[na].ra
        BY <3>1 DEF InvAcces, Situation
      <4>2. acces'[na].ra = acces[na].ra
        BY <1>3, <1>8, <3>1
      <4> QED BY <1>3, <1>15, <4>1, <4>2
    <3> QED BY <3>1
  <2>4. page' /\ depuis' >= GardeTrames => acces'[na].long
    BY <1>3, <2>1
  <2> QED BY <1>3, <1>6, <2>1, <2>2, <2>3, <2>4 DEF Situation
<1>17. Attente'
  <2>1. m.attente => ici.tardif /\ m.ageAttente = 1 /\ m.id = na /\ na > 0
    BY DEF InvAcces, Attente
  <2> QED BY <1>3, <1>4, <1>6, <2>1 DEF Attente
<1>18. Justes'
  <2>1. \A i \in 1 .. na : acces'[i].juste
    BY <1>3 DEF InvAcces, Justes
  <2>2. p.actif => p.id \in 1 .. na /\ p.ra = acces'[p.id].ra
    BY <1>3 DEF InvAcces, Justes
  <2> QED BY <1>3, <1>4, <2>1, <2>2 DEF Justes
<1>19. Garde'
  <2>1. SUFFICES ASSUME Net
                 PROVE  /\ na = 0 => ~m.vu
                        /\ na > 0 => m.vu /\ m.age = Mini(Passees, GardeTrames)
                        /\ ici.efface = "oui" => ~page'
                        /\ ici.efface = "non" =>
                             /\ page' => m.avant
                             /\ na > 0 /\ Passees' >= 2 => m.prev = dRach'
    BY <1>3, <1>4, <1>6, <1>7, <1>12 DEF Garde
  <2>2. /\ na = 0 => ~m.vu
        /\ na > 0 => m.vu /\ m.age = Mini(Passees, GardeTrames)
        /\ ici.efface = "oui" => ~page
        /\ ici.efface = "non" =>
             /\ page => m.avant
             /\ na > 0 /\ Passees >= 2 => m.prev = dRach
    BY <1>5, <2>1 DEF InvAcces, Garde
  <2>3. Passees' >= 2 => dRach' = dRach
    BY <1>3, <1>7, <1>15
  <2> QED BY <1>3, <1>7, <2>2, <2>3
<1>20. Emis'
  <2>1. (Passees >= 3 => p.emis = 2) /\ p.emis \in {1, 2}
    BY DEF InvAcces, Emis
  <2>2. ASSUME Suivante, Net
        PROVE  p.emis = 1 <=> acces'[na].emis = 0 /\ ~acces'[na].pareil
    <3>1. p.emis = 1 <=> acces[na].emis = 0 /\ ~acces[na].pareil
      BY <2>2 DEF InvAcces, Emis
    <3> QED BY <1>3, <1>5, <1>8, <1>9, <2>2, <3>1
  <2> QED BY <1>3, <1>4, <1>6, <1>7, <1>12, <2>1, <2>2 DEF Emis
<1>21. Pendant'
  <2>1. ASSUME p.actif, ~Net'
        PROVE  R(p.id)
    <3>1. CASE p.id = na
      BY <1>10, <2>1, <3>1
    <3>2. CASE p.id # na /\ Net
      <4>1. ~Repris(p.id)
        BY <1>14, <2>1, <3>2, ReprisDit
      <4>2. Suivante
        BY <1>5, <2>1, <3>2, <4>1 DEF InvAcces, Pendant
      <4> QED BY <1>5, <1>13, <2>1, <3>2, <4>2
    <3>3. CASE ~Net
      <4>1. Repris(p.id)
        BY <2>1, <3>3 DEF InvAcces, Pendant
      <4> QED BY <1>11, <1>14, <2>1, <4>1
    <3> QED BY <3>1, <3>2, <3>3
  <2>2. ASSUME p.actif, ~R(p.id)
        PROVE  /\ p.pose = 0 /\ acces'[p.id].pub = 0
               /\ aLire = p.id \/ acces'[p.id].emis \in {-1, 1} \/ acces'[p.id].pareil
               /\ p.age = IF p.id = na THEN Mini(Passees, Retard) ELSE Retard
               /\ p.id = na => (ici.tardif => ~Suivante)
               /\ p.id # na => ici.tardif /\ Suivante
    <3>1. ~Repris(p.id)
      BY <1>11, <1>14, <2>2
    <3>2. /\ p.pose = 0 /\ acces[p.id].pub = 0
          /\ aLire = p.id \/ acces[p.id].emis \in {-1, 1} \/ acces[p.id].pareil
          /\ p.age = IF p.id = na THEN Mini(Passees, Retard) ELSE Retard
          /\ p.id = na => (ici.tardif => ~Suivante)
          /\ p.id # na => ici.tardif /\ Suivante
      BY <1>5, <2>2, <3>1 DEF InvAcces, Pendant
    <3>3. /\ acces'[p.id].pub = acces[p.id].pub /\ acces'[p.id].emis = acces[p.id].emis
          /\ acces'[p.id].pareil = acces[p.id].pareil
      BY <1>3, <1>14, <2>2
    <3> QED BY <3>2, <3>3
  <2>3. Net /\ m.attente => Suivante
    BY DEF InvAcces, Pendant
  <2>4. ASSUME Net, ici.tardif, Suivante
        PROVE  m.attente /\ acces'[na].pub = 0
    <3>1. m.attente /\ acces[na].pub = 0
      BY <2>4 DEF InvAcces, Pendant
    <3> QED BY <1>3, <1>5, <1>8, <1>9, <2>4, <3>1
  <2>5. ASSUME Net, aLire # 0
        PROVE  acces'[na].emis = -1 /\ acces'[na].pub = 0
    <3>1. acces[na].emis = -1 /\ acces[na].pub = 0
      BY <2>5 DEF InvAcces, Pendant
    <3>2. depuis = 0
      BY <1>5, <2>5 DEF InvAcces, Situation
    <3> QED BY <1>3, <1>8, <1>9, <3>1, <3>2
  <2>6. (p.actif /\ ~Net => Repris(p.id))'
    BY <1>4, <1>10, <2>1
  <2>7. (p.actif /\ ~Repris(p.id) =>
       /\ p.pose = 0 /\ acces[p.id].pub = 0
       /\ aLire = p.id \/ acces[p.id].emis \in {-1, 1} \/ acces[p.id].pareil
       /\ p.age = IF p.id = na THEN Mini(Passees, Retard) ELSE Retard
       /\ p.id = na => ~Pose0 /\ (ici.tardif => ~Suivante)
       /\ p.id # na => Pose0 \/ (ici.tardif /\ Suivante))'
    BY <1>3, <1>4, <1>6, <1>7, <1>10, <2>2
  <2>8. (Net /\ m.attente => Suivante)'
    BY <1>4, <1>6, <1>12, <2>3
  <2>9. (Net /\ ici.tardif /\ Suivante => m.attente /\ acces[na].pub = 0)'
    BY <1>3, <1>4, <1>6, <1>12, <2>4
  <2>10. (Net /\ aLire # 0 => acces[na].emis = -1 /\ acces[na].pub = 0)'
    BY <1>3, <1>12, <2>5
  <2> QED BY <2>6, <2>7, <2>8, <2>9, <2>10 DEF Pendant
<1>22. Dates'
  <2>1. SUFFICES ASSUME NEW i \in 1 .. na, ~R(i)
                 PROVE  acces'[i].pub <= 1 /\ Date(acces'[i])
    BY <1>3, <1>10 DEF Dates, Date
  <2>2. ~Repris(i)
    BY <1>1, <1>11, <2>1
  <2>3. acces[i].pub <= 1 /\ Date(acces[i])
    BY <2>2 DEF InvAcces, Dates
  <2> QED BY <1>3, <2>3 DEF Date
<1>23. Suivis'
  <2>1. SUFFICES ASSUME NEW i \in 1 .. na, ~R(i - 1)
                 PROVE  \/ acces'[i].pub >= 1
                        \/ p.actif /\ p.id = i
                        \/ i = na /\ ici.tardif /\ Suivante /\ m.attente
    <3>1. \A i \in 1 .. na : Repris(i - 1)' <=> R(i - 1)
      <4>1. TAKE i \in 1 .. na
      <4>2. i - 1 \in Int
        BY <1>1
      <4> QED BY <1>10, <4>2
    <3> QED BY <1>3, <1>4, <1>6, <3>1 DEF Suivis
  <2>2. ~Repris(i - 1)
    BY <1>1, <1>11, <2>1
  <2> QED BY <1>3, <1>5, <2>2 DEF InvAcces, Suivis
<1> QED BY <1>16, <1>17, <1>18, <1>19, <1>20, <1>21, <1>22, <1>23 DEF InvAcces

\* The firmware posts an access: everything of the one before is past.
LEMMA PoserAccesInv ==
  ASSUME TypeInd, InvAcces, etape = "l1", etape' = "fin", UNCHANGED <<ici, m, p>>,
         NEW ra \in Ras, PoserAcces(ra), GardeTrames >= 2
  PROVE  InvAcces'
<1>1. na \in Nat /\ aLire \in Nat
  <2>1. aLire \in 0 .. na
    BY TypesSimples DEF TypeInd
  <2> QED BY <2>1, TypesDits DEF TypeInd
<1>2. Ecart \in Nat /\ GardeTrames \in Nat /\ Ecart > 3 /\ Ecart >= GardeTrames /\ ra # 0
  BY Constantes, EmissionAssumption
<1>3. /\ na' = na + 1 /\ (\A i \in 1 .. na : acces'[i] = acces[i])
      /\ acces'[na + 1] = Neuf(ra)
      /\ depuis = Ecart /\ aEcrire = 0 /\ ~page /\ page' /\ depuis' = 0 /\ aLire' = na + 1
      /\ IF ici.tardif THEN aEcrire' = ra /\ dRach' = dRach
         ELSE dRach' = ra /\ aEcrire' = aEcrire
  BY PoserAccesDit DEF TypeInd
<1>4. ici' = ici /\ m' = m /\ p' = p
  OBVIOUS
<1>5. /\ acces'[na + 1].ra = ra /\ acces'[na + 1].emis = -1 /\ acces'[na + 1].pub = 0
      /\ acces'[na + 1].juste /\ ~acces'[na + 1].long
  BY <1>3 DEF Neuf
<1>6. ~Pose0 /\ ~Suivante /\ Passees = Ecart + 1
  BY <1>2, <1>3 DEF Pose0, Suivante, Passees
<1>7. Pose0' /\ ~Suivante' /\ Passees' = 0
  BY <1>3 DEF Pose0, Suivante, Passees
<1>8. Mini(Passees, GardeTrames) = GardeTrames /\ Mini(Passees, Retard) = Retard
      /\ Passees >= 3 /\ Passees >= 2
  BY <1>2, <1>6 DEF Mini, Retard
<1>9. na + 1 > 0 /\ na + 1 # 0 /\ na + 1 \in 1 .. na + 1 /\ na + 1 \notin 1 .. na
      /\ \A i \in 1 .. na : i \in 1 .. na + 1 /\ i # na + 1
  BY <1>1
<1>10. \A i \in 1 .. na + 1 : i = na + 1 \/ i \in 1 .. na
  BY <1>1
<1>11. aLire = 0
  BY <1>6 DEF InvAcces, Situation
<1>12. ~m.attente
  BY <1>2, <1>3 DEF InvAcces, Attente
<1> DEFINE R(i) == ici.efface = "defaut" /\ \E j \in 1 .. i : acces'[j].long
<1>13. /\ \A i \in Int : Repris(i)' <=> R(i)
       /\ Repris(p.id)' <=> R(p.id)
       /\ Net' <=> ~R(na + 1)
  BY <1>3, <1>4 DEF Repris, Net
<1>14. /\ \A i \in Int : i <= na => (R(i) <=> Repris(i))
       /\ R(na + 1) <=> Repris(na)
  <2>1. ASSUME NEW i \in Int, i <= na
        PROVE  R(i) <=> Repris(i)
    <3>1. \A j \in 1 .. i : acces'[j] = acces[j]
      BY <1>1, <1>3, <2>1
    <3> QED BY <3>1 DEF Repris
  <2>2. ASSUME R(na + 1)
        PROVE  Repris(na)
    <3>1. PICK j \in 1 .. na + 1 : acces'[j].long /\ ici.efface = "defaut"
      BY <2>2
    <3>2. j \in 1 .. na
      BY <1>5, <1>10, <3>1
    <3> QED BY <1>3, <3>1, <3>2 DEF Repris
  <2>3. ASSUME Repris(na)
        PROVE  R(na + 1)
    <3>1. PICK j \in 1 .. na : acces[j].long /\ ici.efface = "defaut"
      BY <2>3 DEF Repris
    <3> QED BY <1>3, <1>9, <3>1
  <2> QED BY <2>1, <2>2, <2>3
<1> HIDE DEF R
<1>15. Net' <=> Net
  BY <1>13, <1>14 DEF Net
<1>16. p.actif => p.id \in 1 .. na /\ p.id # na + 1 /\ (Repris(p.id)' <=> Repris(p.id))
  <2>1. p.actif => p.id \in 1 .. na
    BY DEF InvAcces, Justes
  <2> QED BY <1>1, <1>13, <1>14, <2>1
<1>17. Situation'
  <2>1. /\ aEcrire' # 0 => ici.tardif /\ aEcrire' = ra
        /\ aEcrire' = 0 => dRach' = ra
    BY <1>2, <1>3
  <2>2. ~(depuis' >= GardeTrames)
    BY <1>2, <1>3
  <2> QED BY <1>3, <1>4, <1>5, <1>7, <1>9, <1>12, <2>1, <2>2 DEF Situation
<1>18. Attente'
  BY <1>4, <1>12 DEF Attente
<1>19. Justes'
  <2>1. \A i \in 1 .. na + 1 : acces'[i].juste
    BY <1>3, <1>5, <1>10 DEF InvAcces, Justes
  <2>2. p.actif => p.id \in 1 .. na + 1 /\ p.ra = acces'[p.id].ra
    BY <1>3, <1>9 DEF InvAcces, Justes
  <2> QED BY <1>3, <1>4, <2>1, <2>2 DEF Justes
<1>20. Garde'
  <2>1. Net => ~m.vu \/ m.age = GardeTrames
    <3>1. ASSUME Net, m.vu
          PROVE  m.age = GardeTrames
      <4>1. na > 0
        BY <1>1, <3>1 DEF InvAcces, Garde
      <4> QED BY <1>6, <1>8, <3>1, <4>1 DEF InvAcces, Garde
    <3> QED BY <3>1
  <2>2. Net /\ ici.efface = "non" => ~m.avant
    BY <1>3 DEF InvAcces, Garde
  <2> QED BY <1>3, <1>4, <1>7, <1>9, <1>15, <2>1, <2>2 DEF Garde
<1>21. Emis'
  <2>1. p.emis = 2
    BY <1>8 DEF InvAcces, Emis
  <2> QED BY <1>4, <1>7, <2>1 DEF Emis
<1>22. Pendant'
  <2>1. p.actif /\ ~Net => Repris(p.id)
    BY DEF InvAcces, Pendant
  <2>2. ASSUME p.actif, ~Repris(p.id)
        PROVE  /\ p.pose = 0 /\ acces'[p.id].pub = 0
               /\ acces'[p.id].emis \in {-1, 1} \/ acces'[p.id].pareil
               /\ p.age = Retard
    <3>1. acces'[p.id] = acces[p.id] /\ aLire # p.id
      BY <1>1, <1>3, <1>11, <1>16, <2>2
    <3>2. /\ p.pose = 0 /\ acces[p.id].pub = 0
          /\ aLire = p.id \/ acces[p.id].emis \in {-1, 1} \/ acces[p.id].pareil
          /\ p.age = IF p.id = na THEN Mini(Passees, Retard) ELSE Retard
      BY <2>2 DEF InvAcces, Pendant
    <3> QED BY <1>8, <3>1, <3>2
  <2>3. (p.actif /\ ~Net => Repris(p.id))'
    BY <1>4, <1>15, <1>16, <2>1
  <2>4. (p.actif /\ ~Repris(p.id) =>
       /\ p.pose = 0 /\ acces[p.id].pub = 0
       /\ aLire = p.id \/ acces[p.id].emis \in {-1, 1} \/ acces[p.id].pareil
       /\ p.age = IF p.id = na THEN Mini(Passees, Retard) ELSE Retard
       /\ p.id = na => ~Pose0 /\ (ici.tardif => ~Suivante)
       /\ p.id # na => Pose0 \/ (ici.tardif /\ Suivante))'
    BY <1>3, <1>4, <1>7, <1>16, <2>2
  <2>5. (/\ Net /\ m.attente => Suivante
         /\ Net /\ ici.tardif /\ Suivante => m.attente /\ acces[na].pub = 0
         /\ Net /\ aLire # 0 => acces[na].emis = -1 /\ acces[na].pub = 0)'
    BY <1>3, <1>4, <1>5, <1>7, <1>12
  <2> QED BY <2>3, <2>4, <2>5 DEF Pendant
<1>23. Dates'
  <2>1. SUFFICES ASSUME NEW i \in 1 .. na + 1, ~R(i)
                 PROVE  acces'[i].pub <= 1 /\ Date(acces'[i])
    BY <1>3, <1>13 DEF Dates, Date
  <2>2. CASE i = na + 1
    BY <1>5, <2>2 DEF Date
  <2>3. CASE i \in 1 .. na
    <3>1. ~Repris(i) /\ acces'[i] = acces[i]
      BY <1>1, <1>3, <1>14, <2>1, <2>3
    <3> QED BY <2>3, <3>1 DEF InvAcces, Dates
  <2> QED BY <1>10, <2>2, <2>3
<1>24. Suivis'
  <2>1. SUFFICES ASSUME NEW i \in 1 .. na + 1, ~R(i - 1)
                 PROVE  \/ acces'[i].pub >= 1
                        \/ p.actif /\ p.id = i
                        \/ i = na + 1
    <3>1. \A i \in 1 .. na + 1 : Repris(i - 1)' <=> R(i - 1)
      <4>1. TAKE i \in 1 .. na + 1
      <4>2. i - 1 \in Int
        BY <1>1
      <4> QED BY <1>13, <4>2
    <3> QED BY <1>3, <1>4, <1>7, <3>1 DEF Suivis
  <2>2. CASE i \in 1 .. na
    <3>1. ~Repris(i - 1) /\ acces'[i] = acces[i]
      BY <1>1, <1>3, <1>14, <2>1, <2>2
    <3> QED BY <1>6, <2>2, <3>1 DEF InvAcces, Suivis
  <2> QED BY <1>10, <2>2
<1> QED BY <1>17, <1>18, <1>19, <1>20, <1>21, <1>22, <1>23, <1>24 DEF InvAcces

LEMMA AccesStables ==
  ASSUME TypeInd, InvAcces, [Next]_vars, GardeTrames >= 2
  PROVE  InvAcces'
<1>1. CASE L1Sync
  <2>1. /\ etape = "l1" /\ etape' = "fin" /\ UNCHANGED <<ici, m, p>>
        /\ (\E ra \in Ras : PoserAcces(ra)) \/ PasDAcces
    BY <1>1 DEF L1Sync
  <2>2. ASSUME NEW ra \in Ras, PoserAcces(ra)
        PROVE  InvAcces'
    BY <2>1, <2>2, PoserAccesInv
  <2>3. CASE PasDAcces
    BY <2>1, <2>3, PasDAccesInv
  <2> QED BY <2>1, <2>2, <2>3
<1>2. CASE Trame
  BY <1>2, TrameAccesInv
<1>3. CASE UNCHANGED vars
  BY <1>3 DEF vars, InvAcces, Situation, Attente, Justes, Garde, Emis, Pendant, Dates, Suivis,
              na, Net, Repris, Pose0, Suivante, Passees, Date, Mini
<1> QED BY <1>1, <1>2, <1>3 DEF Next

LEMMA InitAcces ==
  ASSUME Init
  PROVE  InvAcces
<1>1. na = 0 /\ acces = <<>>
  BY DEF Init, na
<1>2. ~Repris(na)
  BY <1>1 DEF Repris
<1>3. ~Pose0 /\ ~Suivante /\ Passees >= 3
  BY Constantes DEF Init, Pose0, Suivante, Passees
<1>4. Situation /\ Attente
  BY <1>1, <1>3, Constantes DEF Init, Situation, Attente
<1>5. Justes
  BY <1>1 DEF Init, Justes
<1>6. Garde
  BY <1>1, <1>3 DEF Init, Garde
<1>7. Emis
  BY <1>3 DEF Init, Emis
<1>8. Pendant
  BY <1>2, <1>3 DEF Init, Pendant, Net
<1>9. Dates /\ Suivis
  BY <1>1 DEF Dates, Suivis
<1> QED BY <1>4, <1>5, <1>6, <1>7, <1>8, <1>9 DEF InvAcces

LEMMA AccesToujours ==
  ASSUME GardeTrames >= 2
  PROVE  Spec => [](TypeInd /\ InvAcces)
<1>1. Init => TypeInd /\ InvAcces
  BY InitType, InitAcces
<1>2. TypeInd /\ InvAcces /\ [Next]_vars => TypeInd' /\ InvAcces'
  BY TypeStable, AccesStables
<1> QED BY <1>1, <1>2, PTL DEF Spec

\* AccesFidele, of publier_rach, rach_pend_*, tx_rach_vers_air and tsp_tx_lire: whatever the
\* installation, the transmission and the interrupts, an access goes to the air with its own
\* value, once, and dated with the frame the ROM transmitted it in.  It takes a guard of two
\* frames (the code has four): with one, a late value has its task taken twice.
THEOREM AccesToujoursFidele ==
  ASSUME GardeTrames >= 2
  PROVE  Spec => []AccesFidele
<1>1. TypeInd /\ InvAcces => AccesFidele
  <2>1. SUFFICES ASSUME TypeInd, InvAcces, NEW i \in DOMAIN acces
                 PROVE  /\ acces[i].juste
                        /\ acces[i].pub <= 1 \/ Repris(i)
                        /\ acces[i].pub = 1 /\ acces[i].emis >= 0 /\ ~Repris(i)
                             => acces[i].date = IF acces[i].pareil THEN 1 ELSE acces[i].emis
    BY DEF AccesFidele
  <2>2. i \in 1 .. na
    BY <2>1, TypesDits DEF TypeInd, Hist
  <2> QED BY <2>1, <2>2 DEF InvAcces, Justes, Dates, Date
<1> QED BY <1>1, AccesToujours, PTL

\* EmissionEntiere, of tx_rom_publier, rach_pend_* and montant_scruter: every access posted and
\* every block sent goes to the air, and each block published is a single one.
THEOREM EmissionToujoursEntiere ==
  ASSUME GardeTrames >= 2
  PROVE  Spec => []EmissionEntiere
<1>1. TypeInd /\ InvAcces /\ InvBlocs => RienPerdu
  <2>1. SUFFICES ASSUME TypeInd, InvAcces, InvBlocs
                 PROVE  RienPerdu
    OBVIOUS
  <2>2. DOMAIN acces = 1 .. na /\ DOMAIN blocs = 1 .. nb /\ depuis \in Nat
    BY <2>1, TypesDits, Constantes DEF TypeInd, Hist, HistBlocs
  <2>3. ASSUME depuis > Retard + 1, etape = "l1", ~p.actif, NEW i \in 1 .. na
        PROVE  acces[i].pub >= 1 \/ Repris(i - 1)
    <3>1. ~Pose0 /\ ~Suivante
      BY <2>2, <2>3 DEF Pose0, Suivante, Retard
    <3> QED BY <2>1, <2>3, <3>1 DEF InvAcces, Suivis
  <2>4. ASSUME NEW i \in 1 .. nb, blocs[i].emis = 4, i > 1 => blocs[i - 1].emis # 1
        PROVE  blocs[i].pub = 1
    BY <2>1, <2>4 DEF InvBlocs, BlocsRendus, Seul
  <2> QED BY <2>2, <2>3, <2>4 DEF RienPerdu
<1>2. RienPerdu /\ BlocEntier => EmissionEntiere
  BY DEF EmissionEntiere
<1> QED BY <1>1, <1>2, AccesToujours, BlocsToujours, BlocsToujoursEntiers, PTL
=============================================================================
